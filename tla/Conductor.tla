----------------------------- MODULE Conductor -----------------------------
(***************************************************************************)
(* Requests running side by side through the Manager of                    *)
(* sdk/cliproxy/auth/conductor.go: each picks auths from the scheduler     *)
(* until one serves it, and reports every attempt with MarkResult, whose   *)
(* effects on the Manager, the scheduler and the model registry are        *)
(* separate steps.  An operator disables and enables auths meanwhile.      *)
(*                                                                         *)
(* Of an auth's record only what the steps are about is kept: whether it   *)
(* is disabled and, per model, the last outcome and Quota.Exceeded (see    *)
(* Cooldown for the rest).  The scheduler is the copy of the record it     *)
(* was last given (see Scheduler for how it picks).  No cooldown ends      *)
(* within a behaviour: these are the requests of one burst.                *)
(***************************************************************************)
EXTENDS Naturals, FiniteSets

CONSTANTS
  Auths, Models,
  Requests,        \* request goroutines
  Operators,       \* goroutines of the management API
  Outcomes,        \* how an attempt may end
  MaxCredentials,  \* maxRetryCredentials; 0 is no limit
  Arrivals,        \* bound on the requests each request goroutine serves
  Changes          \* bound on the changes each operator makes

ASSUME ConductorAssumption ==
  /\ Outcomes \subseteq {"success", "quota", "denied", "transient", "unclassified", "invalid"}
  /\ Requests \cap Operators = {} /\ IsFiniteSet(Requests) /\ IsFiniteSet(Operators)
  /\ MaxCredentials \in Nat /\ Arrivals \in Nat /\ Changes \in Nat

Procs == Requests \cup Operators

VARIABLES
  auths,       \* Manager.auths
  sched,       \* the scheduler's copy of every record; NoEntry when absent
  marks,       \* registry: <<auth, model>> marked quota exceeded
  suspended,   \* registry: the reason an <<auth, model>> is suspended for
  pc,          \* where every process stands
  job,         \* its locals
  left,        \* arrivals or changes left, per process
  overlapped,  \* history: handoffs to the scheduler or registry that overlapped, per auth
  usable       \* history: the auths usable throughout, and not written to in the
               \* scheduler between the two picks, per request

vars == <<auths, sched, marks, suspended, pc, job, left, overlapped, usable>>

Fresh   == [disabled |-> FALSE,
            last     |-> [m \in Models |-> "success"],
            exceeded |-> [m \in Models |-> FALSE]]
NoEntry == [Fresh EXCEPT !.disabled = TRUE]
NoAuth  == "none"
NoJob   == [auth |-> NoAuth, model |-> "none", tried |-> {}, outcome |-> "none",
            rec |-> Fresh, snapshot |-> <<>>]

\* blocked for a model, in a record of the Manager or of the scheduler
Serves(rec, m) == ~rec.disabled /\ rec.last[m] \notin {"quota", "denied", "transient"}

\* scheduler.upsertAuth: a disabled auth is removed
entry(rec) == IF rec.disabled THEN NoEntry ELSE rec

Init ==
  /\ auths = [a \in Auths |-> Fresh]
  /\ sched = [a \in Auths |-> Fresh]
  /\ marks = {}
  /\ suspended = [am \in Auths \X Models |-> "none"]
  /\ pc = [p \in Procs |-> "idle"]
  /\ job = [p \in Procs |-> NoJob]
  /\ left = [p \in Procs |-> IF p \in Requests THEN Arrivals ELSE Changes]
  /\ overlapped = [a \in Auths |-> {}]
  /\ usable = [r \in Requests |-> {}]

------------------------------------------------------------------------------
(* A request: executeMixedOnce *)

Goto(p, label) == pc' = [pc EXCEPT ![p] = label]

Arrive(r, m) ==
  /\ pc[r] = "idle" /\ left[r] > 0
  /\ Goto(r, "pick")
  /\ left' = [left EXCEPT ![r] = @ - 1]
  /\ job' = [job EXCEPT ![r] = [NoJob EXCEPT !.model = m]]
  /\ UNCHANGED <<auths, sched, marks, suspended>>

Ready(r) == {a \in Auths \ job[r].tried : Serves(sched[a], job[r].model)}

Exhausted(r) == MaxCredentials > 0 /\ Cardinality(job[r].tried) >= MaxCredentials

\* pickNextMixed finds an auth: in the scheduler's eyes it is ready and not yet
\* tried.  Which of them is the strategy's choice.
Pick(r) ==
  /\ pc[r] \in {"pick", "repick"} /\ ~Exhausted(r)
  /\ \E a \in Ready(r) :
       job' = [job EXCEPT ![r].auth = a, ![r].tried = @ \cup {a}]
  /\ Goto(r, "execute")
  /\ UNCHANGED <<auths, sched, marks, suspended, left>>

\* Mutant: a failed pick is final.
Snapshot_never(r) ==
  /\ pc[r] = "pick" /\ ~Exhausted(r) /\ Ready(r) = {}
  /\ Goto(r, "repick")
  /\ UNCHANGED <<auths, sched, marks, suspended, job, left>>

\* The pick failed; syncScheduler takes a snapshot of the records ...
Snapshot(r) ==
  /\ pc[r] = "pick" /\ ~Exhausted(r) /\ Ready(r) = {}
  /\ job' = [job EXCEPT ![r].snapshot = auths]
  /\ Goto(r, "rebuild")
  /\ UNCHANGED <<auths, sched, marks, suspended, left>>

\* ... and rebuilds the scheduler from it, before the second pick.
Rebuild(r) ==
  /\ pc[r] = "rebuild"
  /\ sched' = [a \in Auths |-> entry(job[r].snapshot[a])]
  /\ job' = [job EXCEPT ![r].snapshot = <<>>]
  /\ Goto(r, "repick")
  /\ UNCHANGED <<auths, marks, suspended, left>>

\* Mutant: a request without credentials tries again instead of failing.
Refuse_retries(r) ==
  /\ \/ pc[r] \in {"pick", "repick"} /\ Exhausted(r)
     \/ pc[r] = "repick" /\ Ready(r) = {}
  /\ Goto(r, "pick")
  /\ UNCHANGED <<auths, sched, marks, suspended, job, left>>

\* No credential is left: the request fails.
Refuse(r) ==
  /\ \/ pc[r] \in {"pick", "repick"} /\ Exhausted(r)
     \/ pc[r] = "repick" /\ Ready(r) = {}
  /\ Goto(r, "refused")
  /\ UNCHANGED <<auths, sched, marks, suspended, job, left>>

\* The client went away while an attempt failed: nothing is reported.
Cancel(r) ==
  /\ pc[r] = "execute"
  /\ Goto(r, "done")
  /\ UNCHANGED <<auths, sched, marks, suspended, job, left>>

recorded(rec, m, outcome) ==
  [rec EXCEPT !.last[m] = outcome,
              !.exceeded[m] = IF outcome = "success" THEN FALSE
                              ELSE outcome = "quota" \/ @]

\* MarkResult, under the Manager's mutex.
Mark(r, outcome) ==
  LET a == job[r].auth
  IN  /\ pc[r] = "execute"
      /\ auths' = [auths EXCEPT ![a] = recorded(@, job[r].model, outcome)]
      /\ job' = [job EXCEPT ![r].outcome = outcome, ![r].rec = auths'[a]]
      /\ Goto(r, "handoff")
      /\ UNCHANGED <<sched, marks, suspended, left>>

\* Mutant: only failures reach the scheduler.
Handoff_failures(r) ==
  /\ pc[r] = "handoff"
  /\ sched' = [sched EXCEPT ![job[r].auth] =
                 IF job[r].outcome = "success" THEN @ ELSE entry(job[r].rec)]
  /\ Goto(r, "marks")
  /\ UNCHANGED <<auths, marks, suspended, job, left>>

\* MarkResult after unlocking: the snapshot goes to the scheduler ...
Handoff(r) ==
  /\ pc[r] = "handoff"
  /\ sched' = [sched EXCEPT ![job[r].auth] = entry(job[r].rec)]
  /\ Goto(r, "marks")
  /\ UNCHANGED <<auths, marks, suspended, job, left>>

\* Mutant: a success does not clear the mark.
MarkQuota_kept(r) ==
  /\ pc[r] = "marks"
  /\ marks' = CASE job[r].outcome = "quota" -> marks \cup {<<job[r].auth, job[r].model>>}
                [] OTHER -> marks
  /\ Goto(r, "suspend")
  /\ UNCHANGED <<auths, sched, suspended, job, left>>

\* ... then ClearModelQuotaExceeded or SetModelQuotaExceeded ...
MarkQuota(r) ==
  LET am == <<job[r].auth, job[r].model>>
  IN  /\ pc[r] = "marks"
      /\ marks' = CASE job[r].outcome = "success" -> marks \ {am}
                    [] job[r].outcome = "quota"   -> marks \cup {am}
                    [] OTHER                      -> marks
      /\ Goto(r, "suspend")
      /\ UNCHANGED <<auths, sched, suspended, job, left>>

\* ... then ResumeClientModel or SuspendClientModel; a failed request that may
\* be retried picks again.
Suspend(r) ==
  LET am      == <<job[r].auth, job[r].model>>
      outcome == job[r].outcome
  IN  /\ pc[r] = "suspend"
      /\ suspended' = CASE outcome = "success" -> [suspended EXCEPT ![am] = "none"]
                        [] outcome \in {"quota", "denied"} ->
                             [suspended EXCEPT ![am] = IF @ = "none" THEN outcome ELSE @]
                        [] OTHER -> suspended
      /\ Goto(r, IF outcome \in {"success", "invalid"} THEN "done" ELSE "pick")
      /\ UNCHANGED <<auths, sched, marks, job, left>>

Return(r) ==
  /\ pc[r] \in {"done", "refused"}
  /\ Goto(r, "idle")
  /\ job' = [job EXCEPT ![r] = NoJob]
  /\ UNCHANGED <<auths, sched, marks, suspended, left>>

------------------------------------------------------------------------------
(* An operator: PatchAuthFileStatus *)

\* GetByID hands out a copy; the handler changes it ...
Read(o, a, disabled) ==
  /\ pc[o] = "idle" /\ left[o] > 0
  /\ job' = [job EXCEPT ![o] = [NoJob EXCEPT !.auth = a,
                                             !.rec = [auths[a] EXCEPT !.disabled = disabled]]]
  /\ Goto(o, "store")
  /\ left' = [left EXCEPT ![o] = @ - 1]
  /\ UNCHANGED <<auths, sched, marks, suspended>>

\* ... Manager.Update stores it ...
Store(o) ==
  /\ pc[o] = "store"
  /\ auths' = [auths EXCEPT ![job[o].auth] = job[o].rec]
  /\ Goto(o, "handoff")
  /\ UNCHANGED <<sched, marks, suspended, job, left>>

\* ... and hands the stored record itself, not a copy of it, to the scheduler:
\* results recorded in between are seen.  (Another Update of the same auth in
\* between would leave this record behind; one operator acts at a time here.)
Show(o) ==
  /\ pc[o] = "handoff"
  /\ sched' = [sched EXCEPT ![job[o].auth] = entry(auths[job[o].auth])]
  /\ Goto(o, "idle")
  /\ job' = [job EXCEPT ![o] = NoJob]
  /\ UNCHANGED <<auths, marks, suspended, left>>

------------------------------------------------------------------------------

\* The steps of a request once it has arrived.
Step(r) ==
  \/ Pick(r) \/ Snapshot(r) \/ Rebuild(r) \/ Refuse(r) \/ Cancel(r)
  \/ \E outcome \in Outcomes : Mark(r, outcome)
  \/ Handoff(r) \/ MarkQuota(r) \/ Suspend(r) \/ Return(r)

\* A process holds a record of this auth that it has not yet given to the
\* scheduler; a result it has not yet told the registry, or a copy of the record
\* that it is about to store without looking at the results since.
HandsOver(p, a) == (pc[p] = "handoff" /\ job[p].auth = a) \/ pc[p] = "rebuild"
Reports(p, a)   ==
  /\ job[p].auth = a
  /\ pc[p] \in IF p \in Requests THEN {"handoff", "marks", "suspend"} ELSE {"store"}

UsableFor(r) == {a \in Auths : Serves(auths[a], job[r].model)}

Observe ==
  /\ overlapped' = [a \in Auths |-> overlapped[a]
       \cup (IF Cardinality({p \in Procs : HandsOver(p, a)'}) > 1 THEN {"scheduler"} ELSE {})
       \cup (IF Cardinality({p \in Procs : Reports(p, a)'}) > 1 THEN {"registry"} ELSE {})]
  /\ usable' = [r \in Requests |->
       IF pc'[r] = "idle" THEN {}
       ELSE IF pc[r] = "idle" THEN UsableFor(r)'
       ELSE {a \in usable[r] \cap UsableFor(r)' : pc[r] = "repick" => sched'[a] = sched[a]}]

Next ==
  /\ \/ \E r \in Requests, m \in Models : Arrive(r, m)
     \/ \E r \in Requests : Step(r)
     \/ \E o \in Operators, a \in Auths, disabled \in BOOLEAN : Read(o, a, disabled)
     \/ \E o \in Operators : Store(o) \/ Show(o)
  /\ Observe

\* Goroutines run; whether a client cancels, or sends a request, is its choice.
Fairness == \A r \in Requests : WF_vars(Step(r) /\ Observe)

Spec == Init /\ [][Next]_vars /\ Fairness

------------------------------------------------------------------------------
(* Properties *)

Record == [disabled : BOOLEAN, last : [Models -> Outcomes \cup {"success"}],
           exceeded : [Models -> BOOLEAN]]

\* The shared tables keep their types, and what the scheduler is given of a
\* disabled auth is that it is absent.
TypeOK ==
  /\ auths \in [Auths -> Record]
  /\ sched \in [Auths -> Record]
  /\ \A a \in Auths : sched[a].disabled => sched[a] = NoEntry
  /\ marks \subseteq Auths \X Models
  /\ suspended \in [Auths \X Models -> {"none", "quota", "denied"}]

\* As long as no two handoffs of an auth overlapped, the scheduler's copy is the
\* Manager's record whenever none is under way: every path that changes a
\* record, successes and resynchronisations included, reaches the scheduler.
InStep ==
  /\ TypeOK
  /\ \A a \in Auths :
       ("scheduler" \notin overlapped[a] /\ \A p \in Procs : ~HandsOver(p, a))
         => sched[a] = entry(auths[a])

\* The same for the registry, as long as no two results of an auth overlapped
\* and no operator stored a copy that a result had crossed: its quota marks are
\* the Manager's exceeded quotas, and a marked auth is suspended.
RegistryInStep ==
  \A a \in Auths : ("registry" \notin overlapped[a] /\ \A p \in Procs : ~Reports(p, a)) =>
    \A m \in Models :
      /\ <<a, m>> \in marks <=> auths[a].exceeded[m]
      /\ <<a, m>> \in marks => suspended[<<a, m>>] # "none"

\* Both tables that requests read beside the Manager's record
TablesInStep == InStep /\ RegistryInStep

\* However results of other requests and operators interleave and reorder, a
\* request is not refused while an auth it has not tried could serve it all along:
\* a stale scheduler is resynchronised before a request fails.  Only a handoff or
\* rebuild of another process between that and the second pick can undo it.
RefusalJustified ==
  \A r \in Requests : pc[r] = "refused" /\ ~Exhausted(r) => usable[r] \ job[r].tried = {}

\* Every request ends, whatever its attempts return and however stale the
\* scheduler is.
RequestsEnd == \A r \in Requests : pc[r] # "idle" ~> pc[r] = "idle"

\* types.go:65: Disabled "indicates the auth is intentionally disabled by
\* operator".  With no handoff under way, no disabled auth is scheduled.
DisabledNotScheduled ==
  \A a \in Auths :
    auths[a].disabled /\ (\A p \in Procs : ~HandsOver(p, a)) => sched[a] = NoEntry
==============================================================================
