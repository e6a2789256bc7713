------------------------------ MODULE UsageLog ------------------------------
(***************************************************************************)
(* What sdk/cliproxy/usage/manager.go promises of the records published    *)
(* to it: those it accepts are dispatched once each, in the order it       *)
(* accepted them, and, once it is stopped, it accepts no more but still    *)
(* dispatches what it has accepted.                                        *)
(***************************************************************************)
EXTENDS Naturals, Sequences

CONSTANT Records

VARIABLES
  accepted,    \* the records accepted
  dispatched,  \* how many of them were dispatched
  stopped

vars == <<accepted, dispatched, stopped>>

Init == accepted = <<>> /\ dispatched = 0 /\ stopped = FALSE

Accept(record) ==
  /\ ~stopped
  /\ accepted' = Append(accepted, record)
  /\ UNCHANGED <<dispatched, stopped>>

Dispatch ==
  /\ dispatched < Len(accepted)
  /\ dispatched' = dispatched + 1
  /\ UNCHANGED <<accepted, stopped>>

Stop == stopped' = TRUE /\ UNCHANGED <<accepted, dispatched>>

Next == (\E record \in Records : Accept(record)) \/ Dispatch \/ Stop

Spec == Init /\ [][Next]_vars /\ WF_vars(Dispatch)
==============================================================================
