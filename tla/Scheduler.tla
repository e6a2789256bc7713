----------------------------- MODULE Scheduler -----------------------------
(***************************************************************************)
(* The incremental scheduler of sdk/cliproxy/auth/scheduler.go: shards per *)
(* provider and model, ready views per priority with round-robin cursors,  *)
(* cooldowns that are promoted lazily.  Every operation runs under the     *)
(* scheduler's mutex and is one action.  The records it is given are the   *)
(* Manager's ("auths"); here each change of a record reaches the scheduler *)
(* in the same step, the steps in between are the subject of Conductor.    *)
(*                                                                         *)
(* Auth IDs, priorities and virtual parents are naturals, in the order the *)
(* code sorts them.                                                        *)
(***************************************************************************)
EXTENDS Integers, Sequences, FiniteSets, SequencesExt

CONSTANTS
  Auths,          \* auth IDs
  Providers,      \* provider keys
  Models,         \* model names requests carry, with or without a suffix
  Canon,          \* canonicalModelKey: the name without its thinking suffix
  Metas,          \* per auth, the scheduling attributes it may be given
  Blocks,         \* kinds of model states that results leave behind
  Durations,      \* cooldown durations
  ProviderLists,  \* provider lists of mixed requests
  Requests,       \* what requests ask for: pinned auth, websocket, tried auths
  MaxNow          \* bound on the clock

NoAuth   == 0
NoParent == 0
ZeroTime == 0

Keys == {Canon[m] : m \in Models}

ASSUME SchedulerAssumption ==
  /\ Auths \subseteq Nat \ {NoAuth}
  /\ \A m \in Models : Canon[m] \in Models /\ Canon[Canon[m]] = Canon[m]
  /\ Blocks \subseteq {"free", "cooldown", "other", "lagging"}
  /\ Durations \subseteq Nat \ {0}

VARIABLES
  auths,          \* Manager.auths: partial function from IDs to records
  strategy,       \* authScheduler.strategy, "rr" or "ff"
  metas,          \* per provider, providerScheduler.auths
  shards,         \* per provider, providerScheduler.modelShards
  authProviders,  \* authScheduler.authProviders
  mixedCursors,   \* authScheduler.mixedCursors
  now

sched == <<metas, shards, authProviders, mixedCursors>>
vars  == <<auths, strategy, sched, now>>

------------------------------------------------------------------------------
(* The records and the selector's view of them *)

Free == [unavailable |-> FALSE, nextRetry |-> ZeroTime, exceeded |-> FALSE,
         recoverAt |-> ZeroTime]

\* What MarkResult leaves in a model state.  "lagging" is a failure of another
\* class that arrives while a longer quota cooldown runs.
blockState(kind, d) ==
  CASE kind = "free"     -> Free
    [] kind = "other"    -> [Free EXCEPT !.unavailable = TRUE, !.nextRetry = now + d]
    [] kind = "cooldown" -> [unavailable |-> TRUE, nextRetry |-> now + d,
                             exceeded |-> TRUE, recoverAt |-> now + d]
    [] kind = "lagging"  -> [unavailable |-> TRUE, nextRetry |-> now + d,
                             exceeded |-> TRUE, recoverAt |-> now + d + 1]

\* isAuthBlockedForModel on one model state: the reason and its end.
blockOf(s) ==
  IF ~(s.unavailable /\ s.nextRetry > now)
  THEN [state |-> "ready", nextRetry |-> ZeroTime]
  ELSE [state |-> IF s.exceeded THEN "cooldown" ELSE "blocked",
        nextRetry |-> IF s.recoverAt > now THEN s.recoverAt ELSE s.nextRetry]

\* isAuthBlockedForModel: the state of the model itself, else of its base name.
isAuthBlockedForModel(a, model) ==
  IF model \in DOMAIN a.states THEN blockOf(a.states[model])
  ELSE IF Canon[model] \in DOMAIN a.states THEN blockOf(a.states[Canon[model]])
  ELSE blockOf(Free)

supportsModel(meta, key) == key \in meta.supported

------------------------------------------------------------------------------
(* Ready views *)

Ascending(S)  == SetToSortSeq(S, <)
Descending(S) == SetToSortSeq(S, >)

\* Index in seq of the first element after "cursor", cyclically, that is in "ok"; 0 if none.
FirstFrom(seq, cursor, ok) ==
  LET at(off) == ((cursor + off) % Len(seq)) + 1
      hits    == {off \in 0 .. Len(seq) - 1 : seq[at(off)] \in ok}
  IN  IF hits = {} THEN 0
      ELSE at(CHOOSE off \in hits : \A o \in hits : off <= o)

\* buildReadyView: a flat order, and a grouped one if all have parents and they differ.
buildReadyView(ids, parent) ==
  LET parents == {parent[a] : a \in ids}
      grouped == NoParent \notin parents /\ Cardinality(parents) > 1
      group(p) == {a \in ids : parent[a] = p}
  IN  [flat         |-> Ascending(ids),
       cursor       |-> 0,
       parentOrder  |-> IF grouped THEN Ascending(parents) ELSE <<>>,
       parentCursor |-> 0,
       children     |-> IF grouped
                        THEN [p \in parents |-> [items |-> Ascending(group(p)), cursor |-> 0]]
                        ELSE <<>>]

\* pickFirst
pickFirst(view, ok) ==
  LET i == FirstFrom(view.flat, 0, ok) IN IF i = 0 THEN NoAuth ELSE view.flat[i]

\* pickGroupedRoundRobin: rotate over the parents, then within the parent.
pickGroupedRoundRobin(view, ok) ==
  LET child(p) == view.children[p]
      some     == {p \in DOMAIN view.children : Range(child(p).items) \cap ok # {}}
      pi       == FirstFrom(view.parentOrder, view.parentCursor, some)
      parent   == view.parentOrder[pi]
      ii       == FirstFrom(child(parent).items, child(parent).cursor, ok)
  IN  IF pi = 0 THEN [auth |-> NoAuth, view |-> view]
      ELSE [auth |-> child(parent).items[ii],
            view |-> [view EXCEPT !.parentCursor = pi, !.children[parent].cursor = ii]]

\* Mutant: the cursor is left on the auth just picked.
pickRoundRobin_stuck(view, ok) ==
  LET i == FirstFrom(view.flat, view.cursor, ok)
  IN  IF Len(view.parentOrder) > 1 THEN pickGroupedRoundRobin(view, ok)
      ELSE IF i = 0 THEN [auth |-> NoAuth, view |-> view]
      ELSE [auth |-> view.flat[i], view |-> [view EXCEPT !.cursor = i - 1]]

\* pickRoundRobin
pickRoundRobin(view, ok) ==
  LET i == FirstFrom(view.flat, view.cursor, ok)
  IN  IF Len(view.parentOrder) > 1 THEN pickGroupedRoundRobin(view, ok)
      ELSE IF i = 0 THEN [auth |-> NoAuth, view |-> view]
      ELSE [auth |-> view.flat[i], view |-> [view EXCEPT !.cursor = i]]

------------------------------------------------------------------------------
(* One shard: entries, and the indexes built from them *)

EmptyShard == [entries |-> <<>>, ready |-> <<>>, blocked |-> {}]

\* rebuildIndexesLocked: every cursor starts over.
rebuildIndexes(shard) ==
  LET e         == shard.entries
      ready     == {a \in DOMAIN e : e[a].state = "ready"}
      parent    == [a \in ready |-> e[a].meta.parent]
      at(p)     == {a \in ready : e[a].meta.priority = p}
      bucket(p) == [all |-> buildReadyView(at(p), parent),
                    ws  |-> buildReadyView({a \in at(p) : e[a].meta.ws}, parent)]
  IN  [shard EXCEPT
         !.ready   = [p \in {e[a].meta.priority : a \in ready} |-> bucket(p)],
         !.blocked = {a \in DOMAIN e : e[a].state \in {"cooldown", "blocked"}}]

evaluated(meta, key) ==
  LET b == isAuthBlockedForModel(meta, key)
  IN  [meta |-> meta, state |-> b.state, nextRetry |-> b.nextRetry]

\* Mutant: a change of priority is not seen.
SameForIndexes_noPriority(old, new) ==
  /\ old.state = new.state
  /\ old.nextRetry = new.nextRetry
  /\ old.meta.parent = new.meta.parent
  /\ old.meta.ws = new.meta.ws

\* Mutant: the indexes are rebuilt on every upsert.
SameForIndexes_never(old, new) == FALSE

\* upsertEntryLocked compares what the indexes depend on.
SameForIndexes(old, new) ==
  /\ old.state = new.state
  /\ old.nextRetry = new.nextRetry
  /\ old.meta.priority = new.meta.priority
  /\ old.meta.parent = new.meta.parent
  /\ old.meta.ws = new.meta.ws

With(f, x, y) == [z \in DOMAIN f \cup {x} |-> IF z = x THEN y ELSE f[z]]
Without(f, x) == [z \in DOMAIN f \ {x} |-> f[z]]

upsertEntry(shard, a, meta, key) ==
  LET new  == evaluated(meta, key)
      next == [shard EXCEPT !.entries = With(@, a, new)]
  IN  IF a \in DOMAIN shard.entries /\ SameForIndexes(shard.entries[a], new)
      THEN next ELSE rebuildIndexes(next)

\* removeEntryLocked
removeEntry(shard, a) ==
  IF a \notin DOMAIN shard.entries THEN shard
  ELSE rebuildIndexes([shard EXCEPT !.entries = Without(@, a)])

\* Mutant: an auth is promoted one instant late.
promoteExpired_late(shard, key) ==
  LET due == {a \in shard.blocked : LET t == shard.entries[a].nextRetry
                                    IN  t # ZeroTime /\ t < now}
  IN  IF due = {} THEN shard
      ELSE rebuildIndexes([shard EXCEPT !.entries =
             [a \in DOMAIN @ |-> IF a \in due THEN evaluated(@[a].meta, key) ELSE @[a]]])

\* promoteExpiredLocked
promoteExpired(shard, key) ==
  LET due == {a \in shard.blocked : LET t == shard.entries[a].nextRetry
                                    IN  t # ZeroTime /\ t <= now}
  IN  IF due = {} THEN shard
      ELSE rebuildIndexes([shard EXCEPT !.entries =
             [a \in DOMAIN @ |-> IF a \in due THEN evaluated(@[a].meta, key) ELSE @[a]]])

\* ensureModelLocked: the shard of a provider for a key, built when missing.
ensureModel(p, key) ==
  LET supporting == {a \in DOMAIN metas[p] : supportsModel(metas[p][a], key)}
  IN  IF key \in DOMAIN shards[p] THEN promoteExpired(shards[p][key], key)
      ELSE rebuildIndexes([EmptyShard EXCEPT !.entries =
             [a \in supporting |-> evaluated(metas[p][a], key)]])

------------------------------------------------------------------------------
(* Picking from one shard *)

\* The view a request reads: websocket-only when preferred and not empty.
Preferred(bucket, ws) == IF ws /\ bucket.ws.flat # <<>> THEN "ws" ELSE "all"

\* highestReadyPriorityLocked; 0 if none (priorities are positive here).
highestReadyPriority(shard, ws, ok) ==
  LET hits == {p \in DOMAIN shard.ready :
                 pickFirst(shard.ready[p][Preferred(shard.ready[p], ws)], ok) # NoAuth}
  IN  Max(hits \cup {0})

\* pickReadyAtPriorityLocked
pickReadyAtPriority(shard, ws, priority, by, ok) ==
  LET bucket == shard.ready[priority]
      view   == Preferred(bucket, ws)
      picked == IF by = "ff" THEN [auth |-> pickFirst(bucket[view], ok), view |-> bucket[view]]
                ELSE pickRoundRobin(bucket[view], ok)
  IN  IF priority \notin DOMAIN shard.ready THEN [auth |-> NoAuth, shard |-> shard]
      ELSE [auth  |-> picked.auth,
            shard |-> [shard EXCEPT !.ready[priority][view] = picked.view]]

\* pickReadyLocked
pickReady(shard, ws, by, ok) ==
  pickReadyAtPriority(shard, ws, highestReadyPriority(shard, ws, ok), by, ok)

\* unavailableErrorLocked and mixedUnavailableErrorLocked over a set of entries.
unavailableError(entries) ==
  LET cooling == {e \in entries : e.state = "cooldown"}
  IN  IF entries = {} THEN [kind |-> "auth_not_found"]
      ELSE IF cooling = entries
           THEN [kind |-> "cooldown", until |-> Min({e.nextRetry : e \in entries})]
      ELSE [kind |-> "auth_unavailable"]

\* availabilitySummaryLocked: the entries of a shard that are in "ok".
summary(shard, ok) ==
  {[auth |-> a] @@ shard.entries[a] : a \in DOMAIN shard.entries \cap ok}

------------------------------------------------------------------------------
(* Operations *)

Init ==
  /\ auths = <<>>
  /\ strategy \in {"rr", "ff"}
  /\ metas = [p \in Providers |-> <<>>]
  /\ shards = [p \in Providers |-> <<>>]
  /\ authProviders = <<>>
  /\ mixedCursors = <<>>
  /\ now = 1

\* Removing an auth from the shards and records of one provider.
removeFromProvider(p, a, m, s) ==
  [metas  |-> [m EXCEPT ![p] = Without(@, a)],
   shards |-> [s EXCEPT ![p] = [k \in DOMAIN @ |-> removeEntry(@[k], a)]]]

\* authScheduler.upsertAuthLocked on given records and shards.
upsertAuth(a, rec, m, s, home) ==
  LET old     == IF a \in DOMAIN home THEN home[a] ELSE rec.provider
      removed == IF rec.disabled \/ old # rec.provider
                 THEN removeFromProvider(old, a, m, s) ELSE [metas |-> m, shards |-> s]
      place(shard, k) == IF supportsModel(rec, k) THEN upsertEntry(shard, a, rec, k)
                         ELSE removeEntry(shard, a)
      p       == rec.provider
  IN  IF rec.disabled
      THEN [metas |-> removed.metas, shards |-> removed.shards, home |-> Without(home, a)]
      ELSE [metas  |-> [removed.metas EXCEPT ![p] = With(@, a, rec)],
            shards |-> [removed.shards EXCEPT ![p] = [k \in DOMAIN @ |-> place(@[k], k)]],
            home   |-> With(home, a, rec.provider)]

\* The Manager stores a record and hands it to the scheduler: Register, Update
\* and MarkResult all end in scheduler.upsertAuth.
Upsert(a, meta, disabled, supported, states) ==
  LET rec  == meta @@ [disabled |-> disabled, supported |-> supported, states |-> states]
      next == upsertAuth(a, rec, metas, shards, authProviders)
  IN  /\ auths' = With(auths, a, rec)
      /\ metas' = next.metas /\ shards' = next.shards /\ authProviders' = next.home
      /\ UNCHANGED <<strategy, mixedCursors, now>>

\* rebuild from the Manager's records; no shard is left.
rebuild ==
  LET enabled == {a \in DOMAIN auths : ~auths[a].disabled}
  IN  /\ metas' = [p \in Providers |->
                     [a \in {x \in enabled : auths[x].provider = p} |-> auths[a]]]
      /\ shards' = [p \in Providers |-> <<>>]
      /\ authProviders' = [a \in enabled |-> auths[a].provider]
      /\ mixedCursors' = <<>>
      /\ UNCHANGED <<auths, now>>

\* syncScheduler, on Load and after a failed pick.
Sync == rebuild /\ UNCHANGED strategy

\* Manager.SetSelector: setSelector, then syncScheduler.
SetSelector(s) == rebuild /\ strategy' = s

\* The auths that pass triedPredicate and, in pickSingle, the pin.
Matching(req) == IF req.pin # NoAuth THEN {req.pin} \ req.tried ELSE Auths \ req.tried

\* What a pick returns and the scheduler state it leaves.
Outcome(result, s, cursors) == [result |-> result, shards |-> s, cursors |-> cursors]
Picked(a) == [kind |-> "picked", auth |-> a]

pickSingle(p, m, req) ==
  LET key   == Canon[m]
      ok    == Matching(req)
      pick  == pickReady(ensureModel(p, key), req.ws /\ req.pin = NoAuth, strategy, ok)
  IN  Outcome(IF pick.auth # NoAuth THEN Picked(pick.auth)
              ELSE unavailableError(summary(pick.shard, ok)),
              [shards EXCEPT ![p] = With(@, key, pick.shard)], mixedCursors)

\* pickMixed for a pinned auth: only the shard of its own provider is read.
pickPinned(list, m, req) ==
  LET key   == Canon[m]
      ok    == Matching(req)
      p     == authProviders[req.pin]
      pick  == pickReady(ensureModel(p, key), FALSE, strategy, ok)
  IN  IF req.pin \notin DOMAIN authProviders \/ p \notin Range(list)
      THEN Outcome([kind |-> "auth_not_found"], shards, mixedCursors)
      ELSE Outcome(IF pick.auth # NoAuth THEN Picked(pick.auth)
                   ELSE unavailableError(summary(pick.shard, ok)),
                   [shards EXCEPT ![p] = With(@, key, pick.shard)], mixedCursors)

\* pickMixed: the best priority over the providers, then the first of them in
\* list order ("ff") or in rotation ("rr") that has an auth there.
pickUnpinned(list, m, req) ==
  LET key     == Canon[m]
      ok      == Matching(req)
      shard   == [p \in Range(list) |-> ensureModel(p, key)]
      best    == Max({highestReadyPriority(shard[p], FALSE, ok) : p \in Range(list)} \cup {0})
      pick(p) == pickReadyAtPriority(shard[p], FALSE, best, strategy, ok)
      has     == {p \in Range(list) : pick(p).auth # NoAuth}
      cursor  == IF <<list, key>> \in DOMAIN mixedCursors THEN mixedCursors[<<list, key>>] ELSE 0
      i       == FirstFrom(list, IF strategy = "ff" THEN 0 ELSE cursor, has)
      ensured == [p \in Providers |-> IF p \in Range(list) THEN With(shards[p], key, shard[p])
                                      ELSE shards[p]]
  IN  IF i = 0
      THEN Outcome(unavailableError(UNION {summary(shard[p], ok) : p \in Range(list)}),
                   ensured, mixedCursors)
      ELSE Outcome(Picked(pick(list[i]).auth),
                   [ensured EXCEPT ![list[i]] = With(@, key, pick(list[i]).shard)],
                   IF strategy = "ff" THEN mixedCursors ELSE With(mixedCursors, <<list, key>>, i))

pickMixed(list, m, req) ==
  IF req.pin # NoAuth THEN pickPinned(list, m, req) ELSE pickUnpinned(list, m, req)

\* A request picks: only shards and cursors change.
Pick(outcome) ==
  /\ shards' = outcome.shards
  /\ mixedCursors' = outcome.cursors
  /\ UNCHANGED <<auths, strategy, metas, authProviders, now>>

Tick ==
  /\ now < MaxNow
  /\ now' = now + 1
  /\ UNCHANGED <<auths, strategy, sched>>

\* The model states a result may leave: on one model name, the others kept.
StatesAfter(a) ==
  LET old == IF a \in DOMAIN auths THEN auths[a].states ELSE <<>>
  IN  {old} \cup {With(old, m, blockState(b, d)) : m \in Models, b \in Blocks, d \in Durations}

Next ==
  \/ \E a \in Auths : \E meta \in Metas[a] :
       \/ \E states \in StatesAfter(a), supported \in {{}, Keys} : Upsert(a, meta, FALSE, supported, states)
       \/ Upsert(a, meta, TRUE, {}, <<>>)
  \/ Sync
  \/ \E s \in {"rr", "ff"} : SetSelector(s)
  \/ \E p \in Providers, m \in Models, req \in Requests : Pick(pickSingle(p, m, req))
  \/ \E list \in ProviderLists, m \in Models, req \in Requests : Pick(pickMixed(list, m, req))
  \/ Tick

Spec == Init /\ [][Next]_vars

------------------------------------------------------------------------------
(* Properties *)

\* Cursors stay within the sequences they index and no record is scheduled for
\* a provider it does not name.
CursorOK(cursor, seq) == cursor \in 0 .. Len(seq)
ViewOK(view) ==
  /\ CursorOK(view.cursor, view.flat)
  /\ CursorOK(view.parentCursor, view.parentOrder)
  /\ \A p \in DOMAIN view.children : CursorOK(view.children[p].cursor, view.children[p].items)

TypeOK ==
  /\ DOMAIN auths \subseteq Auths /\ strategy \in {"rr", "ff"} /\ now \in 1 .. MaxNow
  /\ \A a \in DOMAIN authProviders : authProviders[a] \in Providers
  /\ \A c \in DOMAIN mixedCursors : CursorOK(mixedCursors[c], c[1])
  /\ \A p \in Providers : \A key \in DOMAIN shards[p] :
       \A q \in DOMAIN shards[p][key].ready :
         ViewOK(shards[p][key].ready[q].all) /\ ViewOK(shards[p][key].ready[q].ws)

\* What the legacy selector says of a request: its candidates, those it finds
\* available, and the ones of the best priority among them.
Candidates(list, m, req) ==
  {a \in DOMAIN auths : /\ ~auths[a].disabled
                        /\ auths[a].provider \in Range(list)
                        /\ a \in Matching(req)
                        /\ supportsModel(auths[a], Canon[m])}

Available(list, m, req) ==
  {a \in Candidates(list, m, req) : isAuthBlockedForModel(auths[a], m).state = "ready"}

BestAvailable(list, m, req) ==
  LET available == Available(list, m, req)
  IN  {a \in available : \A b \in available : auths[a].priority >= auths[b].priority}

Agrees(result, list, m, req) ==
  LET blocks == {isAuthBlockedForModel(auths[a], m) : a \in Candidates(list, m, req)}
  IN  IF Available(list, m, req) = {} THEN result = unavailableError(blocks)
      ELSE result.kind = "picked" /\ result.auth \in BestAvailable(list, m, req)

\* Whatever a request asks for next, the scheduler agrees with the selector it
\* stands in for: it returns an available auth of the best priority, and when
\* there is none it fails with the same error and end of the cooldown.
EmulatesSelector ==
  \A m \in Models, req \in Requests :
    /\ \A list \in ProviderLists : Agrees(pickMixed(list, m, req).result, list, m, req)
    /\ \A p \in Providers : Agrees(pickSingle(p, m, req).result, <<p>>, m, req)

\* The indexes kept incrementally are those a rebuild would give: no skipped
\* rebuild leaves an auth in a view or at a priority it no longer belongs to.
IndexesCurrent ==
  /\ TypeOK
  /\ \A p \in Providers : \A key \in DOMAIN shards[p] :
       LET shard == shards[p][key]
           fresh == rebuildIndexes(shard)
           Flat(s) == [q \in DOMAIN s.ready |-> [all   |-> s.ready[q].all.flat,
                                                 ws    |-> s.ready[q].ws.flat,
                                                 order |-> s.ready[q].all.parentOrder]]
       IN  shard.blocked = fresh.blocked /\ Flat(shard) = Flat(fresh)

\* The auths returned by n picks in a row from a view, no auth excluded.
Turns(view, n) ==
  LET after[i \in 0 .. n] ==
        IF i = 0 THEN [auth |-> NoAuth, view |-> view] ELSE pickRoundRobin(after[i - 1].view, Auths)
  IN  [i \in 1 .. n |-> after[i].auth]

\* From wherever the cursors stand, a view serves each of its auths once (each
\* of its parents once, when grouped) before it serves one again.
RotationFair ==
  \A p \in Providers : \A key \in DOMAIN shards[p] :
    LET ready  == shards[p][key].ready
        parent(a) == shards[p][key].entries[a].meta.parent
    IN  \A q \in DOMAIN ready :
          LET view    == ready[q].all
              grouped == view.parentOrder # <<>>
              n       == IF grouped THEN Len(view.parentOrder) ELSE Len(view.flat)
              turns   == Turns(view, n)
          IN  \A i, j \in 1 .. n :
                (IF grouped THEN parent(turns[i]) = parent(turns[j]) ELSE turns[i] = turns[j]) => i = j

\* The step handed a record, changed or not, to the scheduler.
Reported ==
  \E a \in DOMAIN auths' :
    LET next == upsertAuth(a, auths'[a], metas, shards, authProviders)
    IN  auths' = With(auths, a, auths'[a]) /\ metas' = next.metas /\ shards' = next.shards

\* What a view is built from.
IndexedBy(e) == <<e.state, e.nextRetry, e.meta.priority, e.meta.parent, e.meta.ws>>

\* A result that changes nothing a view depends on, such as a success on an
\* auth that was free, leaves the rotation where it was: where a view moved
\* although its entries did not, the step was a pick and not a report.
CursorsSurvive ==
  [][\A p \in Providers : \A key \in DOMAIN shards[p] \cap DOMAIN shards'[p] :
       LET old == shards[p][key]
           new == shards'[p][key]
       IN  /\ new.ready # old.ready
           /\ DOMAIN old.entries = DOMAIN new.entries
           /\ \A a \in DOMAIN old.entries : IndexedBy(old.entries[a]) = IndexedBy(new.entries[a])
           => ~Reported]_vars
==============================================================================
