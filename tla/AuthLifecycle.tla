--------------------------- MODULE AuthLifecycle ---------------------------
(***************************************************************************)
(* How one credential file becomes an auth that serves requests, and stays *)
(* one while files and the model catalog change (sdk/cliproxy/service.go). *)
(* Three goroutines write the three tables an auth lives in:               *)
(*   - the consumer of the watcher's queue stores the record, registers    *)
(*     the auth's models and refreshes the scheduler's entry;              *)
(*   - the callback of the model catalog registers the models again;       *)
(*   - a request whose pick failed rebuilds the scheduler from a snapshot. *)
(* The auth is one of many: entries of other auths never meet this one's.  *)
(***************************************************************************)
EXTENDS Naturals, Sequences

CONSTANTS
  Confs,        \* contents of the credential file, as far as models depend on them
  MaxChanges,   \* bound on the changes of the file
  MaxCatalogs   \* bound on the versions of the model catalog

\* What an instance assumes of its constants
LifecycleAssumption == MaxChanges \in Nat /\ MaxCatalogs \in Nat \ {0}

VARIABLES
  record,    \* Manager.auths[id]
  registry,  \* the models registered for the client
  sched,     \* the scheduler's entry
  queue,     \* Service.authUpdates
  catalog,   \* version of the model catalog
  changes,   \* changes of the file so far
  pc, job,   \* where each goroutine stands, and its locals
  torn       \* history: the tables two goroutines wrote across each other

vars == <<record, registry, sched, queue, catalog, changes, pc, job, torn>>

Procs    == {"consumer", "catalog", "sync"}
File     == [conf : Confs, disabled : BOOLEAN]
Absent   == [conf |-> "none", disabled |-> TRUE]   \* never registered
Removal  == [conf |-> "removed", disabled |-> TRUE]
NoModels == [conf |-> "none", catalog |-> 0]
NoEntry  == [conf |-> "none", models |-> NoModels]
NoJob    == [auth |-> Absent, seen |-> 0]

\* upsertAuthLocked with buildScheduledAuthMeta: a disabled auth has no entry,
\* another one is entered with the models its client has registered.
entry(auth, models) == IF auth.disabled THEN NoEntry ELSE [conf |-> auth.conf, models |-> models]

Init ==
  /\ record = Absent /\ registry = NoModels /\ sched = NoEntry
  /\ queue = <<>> /\ catalog = 1 /\ changes = 0
  /\ pc = [p \in Procs |-> "idle"] /\ job = [p \in Procs |-> NoJob]
  /\ torn = {}

Goto(p, label)  == pc' = [pc EXCEPT ![p] = label]
Hold(p, auth)   == job' = [job EXCEPT ![p].auth = auth]
Finish(p)       == Goto(p, "idle") /\ job' = [job EXCEPT ![p] = NoJob]

\* A goroutine holds a copy of the record for the registry, for the scheduler.
HoldsForRegistry  == pc["catalog"] \in {"resolve again", "bind again", "unregister"}
HoldsForScheduler == pc["catalog"] = "upsert" \/ pc["sync"] = "rebuild"

------------------------------------------------------------------------------
(* The file *)

\* The watcher reports a new content of the file, or that it is gone.
Change(file) ==
  /\ changes < MaxChanges
  /\ changes' = changes + 1
  /\ queue' = Append(queue, file)
  /\ UNCHANGED <<record, registry, sched, catalog, pc, job, torn>>

------------------------------------------------------------------------------
(* handleAuthUpdate *)

Take ==
  /\ pc["consumer"] = "idle" /\ queue # <<>>
  /\ queue' = Tail(queue)
  /\ Hold("consumer", Head(queue))
  /\ Goto("consumer", IF Head(queue) = Removal THEN "remove" ELSE "store")
  /\ UNCHANGED <<record, registry, sched, catalog, changes, torn>>

\* applyCoreAuthRemoval: the models go first, then, if there is one, the record
\* is disabled.
Remove ==
  /\ pc["consumer"] = "remove"
  /\ registry' = NoModels
  /\ IF record = Absent THEN Finish("consumer")
     ELSE /\ Hold("consumer", [record EXCEPT !.disabled = TRUE])
          /\ Goto("consumer", "disable")
  /\ UNCHANGED <<record, sched, queue, catalog, changes, torn>>

\* Manager.Update or Manager.Register stores the record ...
Store ==
  /\ pc["consumer"] \in {"store", "disable"}
  /\ record' = job["consumer"].auth
  /\ Goto("consumer", IF pc["consumer"] = "store" THEN "show" ELSE "hide")
  /\ torn' = torn \cup (IF HoldsForRegistry THEN {"registry"} ELSE {})
                  \cup (IF HoldsForScheduler THEN {"scheduler"} ELSE {})
  /\ UNCHANGED <<registry, sched, queue, catalog, changes, job>>

\* ... and shows it to the scheduler, with the models registered so far.
Show ==
  /\ pc["consumer"] \in {"show", "hide"}
  /\ sched' = entry(record, registry)
  /\ IF pc["consumer"] = "hide" THEN Finish("consumer")
     ELSE Goto("consumer", "resolve") /\ UNCHANGED job
  /\ UNCHANGED <<record, registry, queue, catalog, changes, torn>>

------------------------------------------------------------------------------
(* registerModelsForAuth, RefreshSchedulerEntry *)

\* The models are computed from the current catalog (or fetched) ...
Resolve(p) ==
  /\ pc[p] \in {"resolve", "resolve again"}
  /\ job' = [job EXCEPT ![p].seen = catalog]
  /\ Goto(p, IF pc[p] = "resolve" THEN "bind" ELSE "bind again")
  /\ UNCHANGED <<record, registry, sched, queue, catalog, changes, torn>>

\* Mutant: the scheduler is not told of the models registered.
Bind_untold(p) ==
  /\ pc[p] \in {"bind", "bind again"}
  /\ registry' = IF job[p].auth.disabled THEN NoModels
                 ELSE [conf |-> job[p].auth.conf, catalog |-> job[p].seen]
  /\ IF p = "catalog" /\ pc[p] = "bind" THEN Goto(p, "latest") /\ UNCHANGED job ELSE Finish(p)
  /\ UNCHANGED <<record, sched, queue, catalog, changes, torn>>

\* ... and registered; a disabled auth's registration is dropped.
Bind(p) ==
  /\ pc[p] \in {"bind", "bind again"}
  /\ registry' = IF job[p].auth.disabled THEN NoModels
                 ELSE [conf |-> job[p].auth.conf, catalog |-> job[p].seen]
  /\ Goto(p, IF p = "catalog" /\ pc[p] = "bind" THEN "latest" ELSE "reread")
  /\ torn' = IF p = "catalog" /\ pc["consumer"] = "disable" THEN torn \cup {"registry"} ELSE torn
  /\ UNCHANGED <<record, sched, queue, catalog, changes, job>>

\* RefreshSchedulerEntry copies the record under the Manager's mutex ...
Reread(p) ==
  /\ pc[p] = "reread"
  /\ Hold(p, record)
  /\ Goto(p, "upsert")
  /\ UNCHANGED <<record, registry, sched, queue, catalog, changes, torn>>

\* ... and upserts the copy.
Upsert(p) ==
  /\ pc[p] = "upsert"
  /\ sched' = entry(job[p].auth, registry)
  /\ Finish(p)
  /\ UNCHANGED <<record, registry, queue, catalog, changes, torn>>

------------------------------------------------------------------------------
(* The callback of the model catalog *)

\* The updater installs a catalog and calls back: every enabled auth of a
\* changed provider is registered again.
Publish ==
  /\ pc["catalog"] = "idle" /\ catalog < MaxCatalogs
  /\ catalog' = catalog + 1
  /\ Goto("catalog", "read")
  /\ torn' = IF pc["consumer"] = "bind" THEN torn \cup {"registry"} ELSE torn
  /\ UNCHANGED <<record, registry, sched, queue, changes, job>>

Read ==
  /\ pc["catalog"] = "read"
  /\ IF record.disabled THEN Finish("catalog")
     ELSE Hold("catalog", record) /\ Goto("catalog", "resolve")
  /\ UNCHANGED <<record, registry, sched, queue, catalog, changes, torn>>

\* Mutant: the record read before the registration counts as the latest.
Latest_assumed ==
  /\ pc["catalog"] = "latest"
  /\ Goto("catalog", IF job["catalog"].auth.disabled THEN "unregister" ELSE "resolve again")
  /\ UNCHANGED <<record, registry, sched, queue, catalog, changes, job, torn>>

\* refreshModelRegistrationForAuth, after a first registration: the record is
\* read once more, and registered again ...
Latest ==
  /\ pc["catalog"] = "latest"
  /\ Hold("catalog", record)
  /\ Goto("catalog", IF record.disabled THEN "unregister" ELSE "resolve again")
  /\ UNCHANGED <<record, registry, sched, queue, catalog, changes, torn>>

\* ... or, if it was disabled meanwhile, dropped.
Unregister ==
  /\ pc["catalog"] = "unregister"
  /\ registry' = NoModels
  /\ Goto("catalog", "reread")
  /\ UNCHANGED <<record, sched, queue, catalog, changes, job, torn>>

------------------------------------------------------------------------------
(* Manager.syncScheduler *)

Snapshot ==
  /\ pc["sync"] = "idle"
  /\ Hold("sync", record)
  /\ Goto("sync", "rebuild")
  /\ UNCHANGED <<record, registry, sched, queue, catalog, changes, torn>>

Rebuild ==
  /\ pc["sync"] = "rebuild"
  /\ sched' = entry(job["sync"].auth, registry)
  /\ Finish("sync")
  /\ UNCHANGED <<record, registry, queue, catalog, changes, torn>>

------------------------------------------------------------------------------

Consume == Take \/ Remove \/ Store \/ Show

Refresh == Read \/ Latest \/ Unregister

Next ==
  \/ \E file \in File \cup {Removal} : Change(file)
  \/ Consume
  \/ Publish \/ Refresh
  \/ \E p \in {"consumer", "catalog"} : Resolve(p) \/ Bind(p) \/ Reread(p) \/ Upsert(p)
  \/ Snapshot \/ Rebuild

Spec == Init /\ [][Next]_vars

------------------------------------------------------------------------------
(* Properties *)

Quiet == queue = <<>> /\ \A p \in Procs : pc[p] = "idle"

Wanted == IF record.disabled THEN NoModels ELSE [conf |-> record.conf, catalog |-> catalog]

TypeOK ==
  /\ record \in File \cup {Absent}
  /\ registry \in [conf : Confs, catalog : 1..MaxCatalogs] \cup {NoModels}
  /\ sched = NoEntry \/ sched.conf \in Confs
  /\ torn \subseteq {"registry", "scheduler"}

\* Reading the record a second time is enough: whatever else the consumer and
\* the catalog's callback interleave, once they are done the registered models
\* are those of the record and the catalog, except after (a) a record stored
\* between that second reading and the registration that uses it, (b) a
\* registration between the two halves of a removal, (c) a catalog published
\* between the consumer's reading of it and its registration.
RegistrationFollows ==
  /\ TypeOK
  /\ Quiet /\ "registry" \notin torn => registry = Wanted

\* Once all are done the scheduler serves the auth with the models registered,
\* unless a record was stored while another goroutine held a copy for it.
SchedulerFollows == Quiet /\ "scheduler" \notin torn => sched = entry(record, registry)

\* service.go:1030: the latest record is applied again "so concurrent auth
\* updates cannot leave stale model registrations behind".
NoStaleRegistration == Quiet => registry.conf = Wanted.conf

\* service.go:314: the entry is refreshed because otherwise newly added auths
\* "are invisible to the scheduler".
AddedAuthVisible == Quiet /\ ~record.disabled => sched # NoEntry
==============================================================================
