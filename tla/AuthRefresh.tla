---------------------------- MODULE AuthRefresh ----------------------------
(***************************************************************************)
(* Automatic token refresh (conductor.go: checkRefreshes to refreshAuth)   *)
(* against the other writers of an auth's record: operators, and requests  *)
(* that report results.                                                    *)
(*                                                                         *)
(* Times count down: a record keeps how long it is until its token expires *)
(* and until NextRefreshAfter, so that behaviours may go on for ever.  A   *)
(* token is "newest" or "stale", relative to the last one the provider     *)
(* issued for the auth.                                                    *)
(***************************************************************************)
EXTENDS Naturals, FiniteSets

CONSTANTS
  Auths,
  Workers,         \* goroutines that refresh; the code starts as many as it needs
  Operators,       \* goroutines of the management API
  Results,         \* model states a request may leave
  Slots,           \* refreshMaxConcurrency
  Life, Lead,      \* lifetime of a token; how long before its end it is refreshed
  PendingBackoff, FailureBackoff,
  Patience         \* how long a refresh lasts at most, its wait for a slot included

NoAuth == "none"

ASSUME RefreshAssumption ==
  /\ Workers \cap Operators = {}
  /\ {Slots, Life, Lead, PendingBackoff, FailureBackoff, Patience} \subseteq Nat
  /\ Slots > 0 /\ Lead < Life
  \* One minute and five minutes: a token outlives its lead by more than the first.
  /\ PendingBackoff <= FailureBackoff /\ PendingBackoff + Lead <= Life
  /\ NoAuth \notin Auths

VARIABLES
  rec,       \* Manager.auths
  disk,      \* the token in the auth's file
  pc, job,   \* where each goroutine stands, and its locals
  due,       \* what is left of the ticker's current round
  crossed    \* history: auths a copy of which was, or may yet be, stored or saved over a change

refreshVars == <<rec, disk, pc, job, due, crossed>>

Procs  == Workers \cup Operators
Token  == {"newest", "stale"}

Fresh == [disabled |-> FALSE, token |-> "newest", life |-> Life, wait |-> 0, states |-> "none"]
NoJob == [auth |-> NoAuth, rec |-> Fresh, age |-> 0]

RefreshInit ==
  /\ rec = [a \in Auths |-> Fresh]
  /\ disk = [a \in Auths |-> "newest"]
  /\ pc = [p \in Procs |-> "idle"]
  /\ job = [p \in Procs |-> NoJob]
  /\ due = {}
  /\ crossed = {}

Moves(p, label) == pc' = [pc EXCEPT ![p] = label]

FinishRefresh(p) == Moves(p, "idle") /\ job' = [job EXCEPT ![p] = NoJob]

\* Processes that copied the record of an auth and will store or save the copy.
Holders(a) == {p \in Procs : job[p].auth = a /\ pc[p] \in {"network", "update", "store", "persist"}}

\* The record of an auth changes; other processes may be holding an older one.
Changes(a, p) == crossed' = IF Holders(a) \ {p} = {} THEN crossed ELSE crossed \cup {a}

------------------------------------------------------------------------------
(* The ticker: checkRefreshes *)

\* Mutant: a token that has run out is not refreshed any more.
shouldRefresh_late(r) == ~r.disabled /\ r.wait = 0 /\ r.life \in 1..Lead

\* shouldRefresh, for a provider with a refresh lead
shouldRefresh(r) == ~r.disabled /\ r.wait = 0 /\ r.life <= Lead

\* A round begins with a snapshot of the records; auths that need no refresh
\* are passed over.
checkRefreshes ==
  /\ due = {}
  /\ due' = {a \in Auths : shouldRefresh(rec[a])}
  /\ UNCHANGED <<rec, disk, pc, job, crossed>>

\* Mutant: the auth is not marked.
markRefreshPending_lost(a) == /\ ~rec[a].disabled /\ rec[a].wait = 0
                              /\ UNCHANGED rec

\* markRefreshPending looks at the record as it is now.
markRefreshPending(a) ==
  /\ ~rec[a].disabled /\ rec[a].wait = 0
  /\ rec' = [rec EXCEPT ![a].wait = PendingBackoff]

\* An auth that may be marked gets a goroutine ...
Launch(a, w) ==
  /\ a \in due /\ pc[w] = "idle"
  /\ markRefreshPending(a)
  /\ due' = due \ {a}
  /\ Moves(w, "queued")
  /\ job' = [job EXCEPT ![w].auth = a]
  /\ Changes(a, w)
  /\ UNCHANGED disk

\* ... and one that was disabled or marked since the snapshot does not.
Pass(a) ==
  /\ a \in due /\ (rec[a].disabled \/ rec[a].wait > 0)
  /\ due' = due \ {a}
  /\ UNCHANGED <<rec, disk, pc, job, crossed>>

------------------------------------------------------------------------------
(* A worker: refreshAuthWithLimit, refreshAuth *)

Running == {w \in Workers : pc[w] \in {"network", "update", "persist"}}

\* A slot of the semaphore is free: the record is cloned for the executor.
BeginRefresh(w) ==
  /\ pc[w] = "queued" /\ Cardinality(Running) < Slots
  /\ job' = [job EXCEPT ![w].rec = rec[job[w].auth]]
  /\ Moves(w, "network")
  /\ UNCHANGED <<rec, disk, due, crossed>>

Issued(r)   == [r EXCEPT !.token = "newest", !.life = Life, !.wait = 0]
Outdated(r) == [r EXCEPT !.token = "stale"]

\* The provider issues a token: every other copy of the auth has an old one.
Issue(w) ==
  LET a == job[w].auth
  IN  /\ pc[w] = "network"
      /\ rec' = [rec EXCEPT ![a] = Outdated(@)]
      /\ disk' = [disk EXCEPT ![a] = "stale"]
      /\ job' = [p \in Procs |->
           IF p = w THEN [job[p] EXCEPT !.rec = Issued(@)]
           ELSE IF job[p].auth = a THEN [job[p] EXCEPT !.rec = Outdated(@)]
           ELSE job[p]]
      /\ Moves(w, "update")
      /\ UNCHANGED <<due, crossed>>

\* The refresh fails: the next one has to wait.
RefreshFails(w) ==
  LET a == job[w].auth
  IN  /\ pc[w] = "network"
      /\ rec' = [rec EXCEPT ![a].wait = FailureBackoff]
      /\ Changes(a, w)
      /\ FinishRefresh(w)
      /\ UNCHANGED <<disk, due>>

\* Manager.Update replaces the record, except that it keeps the model states
\* when the new record has none.
Merged(new, old) == [new EXCEPT !.states = IF new.states = "none" THEN old.states ELSE new.states]
Update(a, new) == rec' = [rec EXCEPT ![a] = Merged(new, rec[a])]

\* The result replaces the record ...
StoreRefreshed(w) ==
  LET a == job[w].auth
  IN  /\ pc[w] = "update"
      /\ Update(a, job[w].rec)
      /\ Changes(a, w)
      /\ Moves(w, "persist")
      /\ UNCHANGED <<disk, job, due>>

\* Mutant: a refreshed token is not saved.
Persist_never(p) == pc[p] = "persist" /\ FinishRefresh(p) /\ UNCHANGED <<rec, disk, due, crossed>>

\* ... and, outside the mutex, is saved.
Persist(p) ==
  /\ pc[p] = "persist"
  /\ disk' = [disk EXCEPT ![job[p].auth] = job[p].rec.token]
  /\ FinishRefresh(p)
  /\ UNCHANGED <<rec, due, crossed>>

------------------------------------------------------------------------------
(* Operators and requests *)

\* PatchAuthFileStatus changes a copy of the record ...
Edit(o, a, disabled) ==
  /\ pc[o] = "idle"
  /\ job' = [job EXCEPT ![o].auth = a, ![o].rec = [rec[a] EXCEPT !.disabled = disabled]]
  /\ Moves(o, "store")
  /\ UNCHANGED <<rec, disk, due, crossed>>

\* ... and stores it with Manager.Update.
Replace(o) ==
  /\ pc[o] = "store"
  /\ Update(job[o].auth, job[o].rec)
  /\ Changes(job[o].auth, o)
  /\ Moves(o, "persist")
  /\ UNCHANGED <<disk, job, due>>

\* MarkResult changes the record, and saves it, under the mutex.
Result(a, s) ==
  /\ rec' = [rec EXCEPT ![a].states = s]
  /\ disk' = [disk EXCEPT ![a] = rec[a].token]
  /\ UNCHANGED <<pc, job, due, crossed>>

------------------------------------------------------------------------------
(* Time *)

down(n)  == IF n = 0 THEN 0 ELSE n - 1
older(r) == [r EXCEPT !.life = down(@), !.wait = down(@)]

Active(w) == pc[w] # "idle"

Tick ==
  /\ \A w \in Workers : Active(w) => job[w].age < Patience
  /\ rec' = [a \in Auths |-> older(rec[a])]
  /\ job' = [p \in Procs |-> IF pc[p] = "idle" THEN NoJob
                             ELSE [job[p] EXCEPT !.rec = older(@),
                                                 !.age = IF p \in Workers THEN @ + 1 ELSE @]]
  /\ UNCHANGED <<disk, pc, due, crossed>>

Finishes(w) == Issue(w) \/ RefreshFails(w) \/ StoreRefreshed(w) \/ Persist(w)

Work(w) == BeginRefresh(w) \/ Finishes(w)

Round == checkRefreshes \/ \E a \in Auths : Pass(a) \/ \E w \in Workers : Launch(a, w)

RefreshNext ==
  \/ Round \/ Tick
  \/ \E w \in Workers : Work(w)
  \/ \E o \in Operators : Replace(o) \/ Persist(o)
  \/ \E o \in Operators, a \in Auths, disabled \in BOOLEAN : Edit(o, a, disabled)
  \/ \E a \in Auths, s \in Results : Result(a, s)

\* The ticker ticks, time passes, and a refresh ends (the executor's HTTP calls
\* return or fail); waiting goroutines are served by the semaphore in turn.
RefreshFairness ==
  /\ WF_refreshVars(Round) /\ WF_refreshVars(Tick)
  /\ \A w \in Workers : WF_refreshVars(Finishes(w)) /\ SF_refreshVars(BeginRefresh(w))

RefreshSpec == RefreshInit /\ [][RefreshNext]_refreshVars /\ RefreshFairness

------------------------------------------------------------------------------
(* Properties *)

Record == [disabled : BOOLEAN, token : Token, life : 0..Life,
           wait : 0..FailureBackoff, states : {"none"} \cup Results]

RefreshTypeOK ==
  /\ rec \in [Auths -> Record]
  /\ disk \in [Auths -> Token]
  /\ due \subseteq Auths
  /\ \A p \in Procs : job[p].rec \in Record /\ job[p].auth \in Auths \cup {NoAuth}
  /\ \A p \in Procs : pc[p] = "idle" <=> job[p].auth = NoAuth

Refreshing(a) == {w \in Workers : Active(w) /\ job[w].auth = a}

\* However the ticker's rounds, its stale snapshots, the workers and the results
\* of requests interleave, an auth is refreshed by one goroutine at a time, unless
\* one of them outlasts the pending mark, its wait for a slot included, or an
\* operator's copy of the record crossed a refresh.
OneAtATime ==
  /\ RefreshTypeOK
  /\ \A a \in Auths \ crossed :
       \/ Cardinality(Refreshing(a)) <= 1
       \/ \E w \in Refreshing(a) : job[w].age >= PendingBackoff

\* Unless such copies crossed, no issued token is lost: when nobody is storing a
\* record, memory and file hold the token issued last.
TokenKept ==
  \A a \in Auths \ crossed :
    (\A p \in Procs : job[p].auth # a) => rec[a].token = "newest" /\ disk[a] = "newest"

\* Both: one refresh of an auth at a time, no token lost.
RefreshedOnce == OneAtATime /\ TokenKept

\* An enabled auth whose token runs out is tried: no lost goroutine, slot or
\* backoff keeps it waiting for ever, even if all refreshes of others fail.
DueIsTried ==
  \A a \in Auths :
    rec[a].life <= Lead ~>
      rec[a].life > Lead \/ rec[a].disabled \/ \E w \in Workers : pc[w] = "network" /\ job[w].auth = a

\* types.go:65: Disabled "indicates the auth is intentionally disabled by
\* operator": only an operator's step enables an auth again.
DisabledStays ==
  [][\A a \in Auths : rec[a].disabled /\ ~rec'[a].disabled => \E o \in Operators : Replace(o)]_refreshVars

\* conductor_update_test.go:40 "expected ModelStates to be preserved": an update
\* of an auth, by whomever, keeps the model states the requests left.
StatesPreserved ==
  [][(\E w \in Workers : StoreRefreshed(w)) => \A a \in Auths : rec'[a].states = rec[a].states]_refreshVars
==============================================================================
