----------------------------- MODULE UsageQueue -----------------------------
(***************************************************************************)
(* The queue of usage records (sdk/cliproxy/usage/manager.go): publishers, *)
(* one dispatcher that sleeps on a condition variable, plugins that are    *)
(* registered while records flow, and StopQueue.                                *)
(*                                                                         *)
(* A step is a critical section of mu or pluginsMu; waking the dispatcher  *)
(* happens after the section that gives it a reason to.  What a plugin     *)
(* does with a record, panics included, changes nothing here.              *)
(***************************************************************************)
EXTENDS Naturals, Sequences

CONSTANTS
  Publishers, Records, Plugins,
  MaxRecords      \* bound on the records accepted

ASSUME QueueAssumption == MaxRecords \in Nat

VARIABLES
  queue, stopped, plugins,   \* Manager.queue, closed, plugins
  worker,                   \* the dispatcher: "none" until Start, "check", "waiting", ...
  hand, calls,              \* the record being dispatched, the plugins still to be called
  pub, held,                \* publishers, and what each publishes
  stopper,                  \* the caller of StopQueue
  accepted, dispatched,     \* history: records accepted, and number of them dispatched
  got                       \* history: per plugin, where in accepted its calls began and what it got

usageVars == <<queue, stopped, plugins, worker, hand, calls, pub, held, stopper, accepted, dispatched, got>>

queueVars  == <<queue, stopped>>
workerVars == <<worker, hand, calls>>
pubVars    == <<pub, held>>

NotYet == [from |-> 0, records |-> <<>>]

UsageInit ==
  /\ queue = <<>> /\ stopped = FALSE /\ plugins = <<>>
  /\ worker = "none" /\ hand = <<>> /\ calls = <<>>
  /\ pub = [p \in Publishers |-> "idle"] /\ held = [p \in Publishers |-> <<>>]
  /\ stopper = "idle"
  /\ accepted = <<>> /\ dispatched = 0
  /\ got = [g \in Plugins |-> NotYet]

------------------------------------------------------------------------------
(* Start, Publish, StopQueue, Register *)

\* Publish makes sure that the dispatcher was started, once.
Publish(p, record) ==
  /\ pub[p] = "idle"
  /\ held' = [held EXCEPT ![p] = <<record>>]
  /\ pub' = [pub EXCEPT ![p] = "enqueue"]
  /\ worker' = IF worker = "none" THEN "check" ELSE worker
  /\ UNCHANGED <<queueVars, plugins, hand, calls, stopper, accepted, dispatched, got>>

\* A record is accepted ...
Enqueue(p) ==
  /\ pub[p] = "enqueue" /\ ~stopped /\ Len(accepted) < MaxRecords
  /\ queue' = queue \o held[p]
  /\ accepted' = accepted \o held[p]
  /\ pub' = [pub EXCEPT ![p] = "signal"]
  /\ held' = [held EXCEPT ![p] = <<>>]
  /\ UNCHANGED <<stopped, plugins, workerVars, stopper, dispatched, got>>

\* ... or dropped, after StopQueue (or at this model's bound).
Drop(p) ==
  /\ pub[p] = "enqueue" /\ (stopped \/ Len(accepted) >= MaxRecords)
  /\ pub' = [pub EXCEPT ![p] = "idle"]
  /\ held' = [held EXCEPT ![p] = <<>>]
  /\ UNCHANGED <<queueVars, plugins, workerVars, stopper, accepted, dispatched, got>>

Wake == worker' = IF worker = "waiting" THEN "check" ELSE worker

\* Mutant: nobody is woken.
Signal_lost(p) ==
  /\ pub[p] = "signal"
  /\ pub' = [pub EXCEPT ![p] = "idle"]
  /\ UNCHANGED <<queueVars, plugins, workerVars, held, stopper, accepted, dispatched, got>>

Signal(p) ==
  /\ pub[p] = "signal"
  /\ Wake
  /\ pub' = [pub EXCEPT ![p] = "idle"]
  /\ UNCHANGED <<queueVars, plugins, hand, calls, held, stopper, accepted, dispatched, got>>

StopQueue ==
  /\ stopper = "idle"
  /\ stopped' = TRUE
  /\ stopper' = "broadcast"
  /\ UNCHANGED <<queue, plugins, workerVars, pubVars, accepted, dispatched, got>>

Broadcast ==
  /\ stopper = "broadcast"
  /\ Wake
  /\ stopper' = "done"
  /\ UNCHANGED <<queueVars, plugins, hand, calls, pubVars, accepted, dispatched, got>>

Register(g) ==
  /\ \A i \in 1..Len(plugins) : plugins[i] # g
  /\ plugins' = Append(plugins, g)
  /\ UNCHANGED <<queueVars, workerVars, pubVars, stopper, accepted, dispatched, got>>

------------------------------------------------------------------------------
(* The dispatcher: run, dispatch *)

\* Nothing to do: the dispatcher waits, giving up the mutex in the same step ...
Sleep ==
  /\ worker = "check" /\ queue = <<>> /\ ~stopped
  /\ worker' = "waiting"
  /\ UNCHANGED <<queueVars, plugins, hand, calls, pubVars, stopper, accepted, dispatched, got>>

\* Mutant: a stopped dispatcher leaves at once.
Exit_early ==
  /\ worker = "check" /\ stopped
  /\ worker' = "exited"
  /\ UNCHANGED <<queueVars, plugins, hand, calls, pubVars, stopper, accepted, dispatched, got>>

\* ... or, once stopped and drained, ends.
Exit ==
  /\ worker = "check" /\ queue = <<>> /\ stopped
  /\ worker' = "exited"
  /\ UNCHANGED <<queueVars, plugins, hand, calls, pubVars, stopper, accepted, dispatched, got>>

\* Mutant: the newest record is taken.
Take_newest ==
  /\ worker = "check" /\ queue # <<>>
  /\ hand' = <<queue[Len(queue)]>>
  /\ queue' = SubSeq(queue, 1, Len(queue) - 1)
  /\ worker' = "dispatch"
  /\ UNCHANGED <<stopped, plugins, calls, pubVars, stopper, accepted, dispatched, got>>

Take ==
  /\ worker = "check" /\ queue # <<>>
  /\ hand' = <<Head(queue)>>
  /\ queue' = Tail(queue)
  /\ worker' = "dispatch"
  /\ UNCHANGED <<stopped, plugins, calls, pubVars, stopper, accepted, dispatched, got>>

\* Mutant: a plugin is not called with its first record.
Copy_late ==
  /\ worker = "dispatch"
  /\ calls' = SelectSeq(plugins, LAMBDA g : got[g] # NotYet)
  /\ got' = [g \in Plugins |->
               IF got[g] = NotYet /\ \E i \in 1..Len(plugins) : plugins[i] = g
               THEN [from |-> dispatched, records |-> <<>>] ELSE got[g]]
  /\ worker' = "call"
  /\ UNCHANGED <<queueVars, plugins, hand, pubVars, stopper, accepted, dispatched>>

\* dispatch calls the plugins registered by now, in a copy of the list.
Copy ==
  /\ worker = "dispatch"
  /\ calls' = plugins
  /\ got' = [g \in Plugins |->
               IF got[g] = NotYet /\ \E i \in 1..Len(plugins) : plugins[i] = g
               THEN [from |-> dispatched, records |-> <<>>] ELSE got[g]]
  /\ worker' = "call"
  /\ UNCHANGED <<queueVars, plugins, hand, pubVars, stopper, accepted, dispatched>>

Call ==
  /\ worker = "call" /\ calls # <<>>
  /\ got' = [got EXCEPT ![Head(calls)].records = @ \o hand]
  /\ calls' = Tail(calls)
  /\ UNCHANGED <<queueVars, plugins, worker, hand, pubVars, stopper, accepted, dispatched>>

Done ==
  /\ worker = "call" /\ calls = <<>>
  /\ hand' = <<>>
  /\ dispatched' = dispatched + 1
  /\ worker' = "check"
  /\ UNCHANGED <<queueVars, plugins, calls, pubVars, stopper, accepted, got>>

------------------------------------------------------------------------------

Run == Sleep \/ Exit \/ Take \/ Copy \/ Call \/ Done

FinishPublish(p) == Enqueue(p) \/ Drop(p) \/ Signal(p)

UsageNext ==
  \/ \E p \in Publishers, record \in Records : Publish(p, record)
  \/ \E p \in Publishers : FinishPublish(p)
  \/ StopQueue \/ Broadcast
  \/ \E g \in Plugins : Register(g)
  \/ Run

\* Goroutines run on; whether anyone publishes, registers or stops is open.
UsageFairness == WF_usageVars(Run) /\ WF_usageVars(Broadcast) /\ \A p \in Publishers : WF_usageVars(FinishPublish(p))

UsageSpec == UsageInit /\ [][UsageNext]_usageVars /\ UsageFairness

------------------------------------------------------------------------------
(* Properties *)

UsageTypeOK ==
  /\ queue \in Seq(Records) /\ accepted \in Seq(Records) /\ hand \in Seq(Records)
  /\ stopped \in BOOLEAN /\ dispatched \in Nat
  /\ worker \in {"none", "check", "waiting", "dispatch", "call", "exited"}
  /\ pub \in [Publishers -> {"idle", "enqueue", "signal"}]
  /\ held \in [Publishers -> Seq(Records)]
  /\ plugins \in Seq(Plugins) /\ calls \in Seq(Plugins)
  /\ got \in [Plugins -> [from : Nat, records : Seq(Records)]]
  /\ worker \in {"none", "check", "waiting", "exited"} => hand = <<>>
  /\ worker \in {"dispatch", "call"} => Len(hand) = 1

\* The records accepted are those dispatched, the one in hand and those queued,
\* in this order: none is lost, doubled or overtaken, whoever publishes when.
NothingLost ==
  /\ dispatched <= Len(accepted)
  /\ SubSeq(accepted, dispatched + 1, Len(accepted)) = hand \o queue

\* A plugin that was registered has been called with every record dispatched
\* since, in order: a list that grows during a dispatch neither skips nor
\* repeats a record.
PluginsComplete ==
  worker \notin {"dispatch", "call"} =>
    \A g \in Plugins :
      got[g] # NotYet => got[g].records = SubSeq(accepted, got[g].from + 1, dispatched)

\* manager.go:80 "StopQueue stops the dispatcher and drains the queue": whatever was
\* accepted is dispatched even then, and the dispatcher ends.
QueueDrained == stopped ~> Len(accepted) = dispatched /\ worker \in {"none", "exited"}

\* The same line, taken at its word: when StopQueue has returned, nothing is left.
StopDrains == stopper = "done" => dispatched = Len(accepted)

Log == INSTANCE UsageLog

\* The queue keeps the promises of UsageLog, the delivery of every accepted
\* record included.
Implements == Log!Spec
==============================================================================
