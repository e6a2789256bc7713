------------------------------- MODULE WsRelay -------------------------------
(***************************************************************************)
(* A websocket session of the relay (internal/wsrelay): requests that are  *)
(* sent over it and wait on a channel each, the goroutine that reads the   *)
(* connection and hands every answer to its request, and the cleanup that  *)
(* ends the session.  Sessions share nothing (the service gives each its   *)
(* own provider name), so there is one; NonStream and Stream of the        *)
(* manager are the callers.                                                *)
(*                                                                         *)
(* A step is an operation of the sync.Map, of a channel, or a write.  What *)
(* an answer holds is abstracted to its parts, numbered; stream_start is   *)
(* the first of them.  Pings and their answers are left out.               *)
(***************************************************************************)
EXTENDS Naturals, Sequences, FiniteSets

CONSTANTS
  Requests,
  Buffer,       \* capacity of a request's channel (8 in the code)
  MaxParts      \* bound on the parts of an answer

ASSUME RelayAssumption == Buffer \in Nat \ {0} /\ MaxParts \in Nat

VARIABLES
  closed,               \* session.closed
  pending,              \* session.pending: the requests in it
  chan,                 \* pendingRequest.ch: what it buffers, and whether it is open
  caller, ctxDone,      \* NonStream, Stream and request: where each stands; its context
  watcher,              \* the goroutine that waits for the end of the context
  run,                  \* the goroutine that reads the connection
  cleaner,              \* session.cleanup, once
  listed,               \* whether Manager.sessions has the session
  wire, remote,         \* answers on their way, and what the client has sent
  crashed,              \* a panic has ended the process
  lost                  \* history: the requests with an answer that found the channel full

vars == <<closed, pending, chan, caller, ctxDone, watcher, run, cleaner, listed, wire, remote, crashed, lost>>

sessionVars == <<closed, listed, cleaner>>
remoteVars  == <<wire, remote>>
otherVars   == <<crashed, lost>>

Modes == {"whole", "stream"}     \* NonStream, Stream

Msg(r, type, part) == [id |-> r, type |-> type, part |-> part]

Terminal(msg) == msg.type \in {"http_response", "stream_end", "error"}

Init ==
  /\ closed = FALSE /\ pending = {} /\ listed = TRUE
  /\ chan = [r \in Requests |-> [buf |-> <<>>, open |-> TRUE]]
  /\ caller = [r \in Requests |-> [pc |-> "idle", mode |-> "whole", body |-> <<>>, result |-> "none"]]
  /\ ctxDone = [r \in Requests |-> FALSE]
  /\ watcher = [r \in Requests |-> "none"]
  /\ run = [pc |-> "read", hand |-> <<>>]
  /\ cleaner = [pc |-> "none", todo |-> {}, at |-> {}]
  /\ wire = <<>> /\ remote = [r \in Requests |-> [parts |-> 0, over |-> TRUE]]
  /\ crashed = FALSE /\ lost = {}

At(r, pc) == ~crashed /\ caller[r].pc = pc

Goto(r, pc) == caller' = [caller EXCEPT ![r].pc = pc]

End(r, result) == caller' = [caller EXCEPT ![r].pc = "done", ![r].result = result]

Closing(r) == chan' = [chan EXCEPT ![r].open = FALSE]

\* LoadAndDelete, then close: a channel is closed by whoever took its request.
TakeOut(r) ==
  /\ pending' = pending \ {r}
  /\ IF r \in pending THEN Closing(r) ELSE UNCHANGED chan

------------------------------------------------------------------------------
(* Manager.Send and session.request *)

Send(r, mode) ==
  /\ At(r, "idle")
  /\ caller' = [caller EXCEPT ![r].pc = IF listed THEN "found" ELSE "done",
                              ![r].mode = mode,
                              ![r].result = IF listed THEN "none" ELSE "error"]
  /\ UNCHANGED <<pending, chan, ctxDone, watcher, run, sessionVars, remoteVars, otherVars>>

Store(r) ==
  /\ At(r, "found")
  /\ pending' = pending \cup {r}
  /\ Goto(r, "stored")
  /\ UNCHANGED <<chan, ctxDone, watcher, run, sessionVars, remoteVars, otherVars>>

\* The entry is loaded back; if cleanup has emptied the map, its type assertion
\* panics, and the recovery of the HTTP server ends the request.
LoadBack(r) ==
  /\ At(r, "stored")
  /\ IF r \in pending THEN Goto(r, "loaded") ELSE End(r, "panic")
  /\ UNCHANGED <<pending, chan, ctxDone, watcher, run, sessionVars, remoteVars, otherVars>>

\* Mutant: closed is not looked at.
Check_skipped(r) ==
  /\ At(r, "loaded")
  /\ Goto(r, "write")
  /\ UNCHANGED <<pending, chan, ctxDone, watcher, run, sessionVars, remoteVars, otherVars>>

\* send looks at closed before it writes ...
Check(r) ==
  /\ At(r, "loaded")
  /\ Goto(r, IF closed THEN "failed" ELSE "write")
  /\ UNCHANGED <<pending, chan, ctxDone, watcher, run, sessionVars, remoteVars, otherVars>>

\* ... and a write may fail, or reach a connection that is already lost.
Write(r) ==
  /\ At(r, "write")
  /\ \/ /\ Goto(r, "wait")
        /\ watcher' = [watcher EXCEPT ![r] = "waiting"]
        /\ \/ cleaner.pc # "done" /\ remote' = [remote EXCEPT ![r].over = FALSE]
           \/ UNCHANGED remote
     \/ Goto(r, "failed") /\ UNCHANGED <<watcher, remote>>
  /\ UNCHANGED <<pending, chan, ctxDone, run, sessionVars, wire, otherVars>>

Failed(r) ==
  /\ At(r, "failed")
  /\ TakeOut(r)
  /\ End(r, "error")
  /\ UNCHANGED <<ctxDone, watcher, run, sessionVars, remoteVars, otherVars>>

------------------------------------------------------------------------------
(* The end of a context, and the goroutine that waits for it *)

Cancel(r) ==
  /\ ~crashed /\ caller[r].pc # "idle" /\ ~ctxDone[r]
  /\ ctxDone' = [ctxDone EXCEPT ![r] = TRUE]
  /\ UNCHANGED <<pending, chan, caller, watcher, run, sessionVars, remoteVars, otherVars>>

\* Mutant: the request stays pending.
Watch_kept(r) ==
  /\ ~crashed /\ watcher[r] = "waiting"
  /\ closed \/ ctxDone[r]
  /\ watcher' = [watcher EXCEPT ![r] = "ended"]
  /\ UNCHANGED <<pending, chan, caller, ctxDone, run, sessionVars, remoteVars, otherVars>>

Watch(r) ==
  /\ ~crashed /\ watcher[r] = "waiting"
  /\ \/ ctxDone[r] /\ TakeOut(r)
     \/ closed /\ UNCHANGED <<pending, chan>>
  /\ watcher' = [watcher EXCEPT ![r] = "ended"]
  /\ UNCHANGED <<caller, ctxDone, run, sessionVars, remoteVars, otherVars>>

------------------------------------------------------------------------------
(* NonStream and Stream, reading the channel *)

Received(r) == Head(chan[r].buf)

Part(r) ==
  /\ At(r, "wait") /\ chan[r].buf # <<>> /\ ~Terminal(Received(r))
  /\ caller' = [caller EXCEPT ![r].body = Append(@, Received(r).part)]
  /\ chan' = [chan EXCEPT ![r].buf = Tail(@)]
  /\ UNCHANGED <<pending, ctxDone, watcher, run, sessionVars, remoteVars, otherVars>>

Answer(r) ==
  /\ At(r, "wait") /\ chan[r].buf # <<>> /\ Terminal(Received(r))
  /\ End(r, IF Received(r).type = "error" THEN "error" ELSE "ok")
  /\ chan' = [chan EXCEPT ![r].buf = Tail(@)]
  /\ UNCHANGED <<pending, ctxDone, watcher, run, sessionVars, remoteVars, otherVars>>

\* The channel is closed and drained: NonStream returns the parts it has, if any.
Drained(r) ==
  /\ At(r, "wait") /\ chan[r].buf = <<>> /\ ~chan[r].open
  /\ End(r, IF caller[r].mode = "whole" /\ caller[r].body # <<>> THEN "ok" ELSE "error")
  /\ UNCHANGED <<pending, chan, ctxDone, watcher, run, sessionVars, remoteVars, otherVars>>

GiveUp(r) ==
  /\ At(r, "wait") /\ ctxDone[r]
  /\ End(r, "cancelled")
  /\ UNCHANGED <<pending, chan, ctxDone, watcher, run, sessionVars, remoteVars, otherVars>>

------------------------------------------------------------------------------
(* session.run and dispatch *)

\* A message is put into a channel, dropped if it is full; into one that was
\* closed, it is a panic that nothing recovers.  "after" is chan otherwise.
Put(after, r, msg) ==
  LET room == Len(chan[r].buf) < Buffer IN
  /\ crashed' = ~chan[r].open
  /\ lost' = IF room THEN lost ELSE lost \cup {r}
  /\ chan' = IF room THEN [after EXCEPT ![r].buf = Append(@, msg)] ELSE after

\* An answer is looked up; one to a request no longer pending is ignored.
Read ==
  /\ ~crashed /\ run.pc = "read" /\ wire # <<>>
  /\ wire' = Tail(wire)
  /\ run' = IF Head(wire).id \in pending THEN [pc |-> "deliver", hand |-> <<Head(wire)>>] ELSE run
  /\ UNCHANGED <<pending, chan, caller, ctxDone, watcher, sessionVars, remote, otherVars>>

Deliver ==
  /\ ~crashed /\ run.pc = "deliver"
  /\ Put(chan, Head(run.hand).id, Head(run.hand))
  /\ run' = IF Terminal(Head(run.hand)) THEN [run EXCEPT !.pc = "finish"]
            ELSE [pc |-> "read", hand |-> <<>>]
  /\ UNCHANGED <<pending, caller, ctxDone, watcher, sessionVars, remoteVars>>

Finish ==
  /\ ~crashed /\ run.pc = "finish"
  /\ TakeOut(Head(run.hand).id)
  /\ run' = [pc |-> "read", hand |-> <<>>]
  /\ UNCHANGED <<caller, ctxDone, watcher, sessionVars, remoteVars, otherVars>>

------------------------------------------------------------------------------
(* cleanup, called once: by run, by the heartbeat or by Manager.Stop *)

Begin ==
  /\ closed' = TRUE
  /\ cleaner' = [cleaner EXCEPT !.pc = "closed"]

\* Reading fails; run cleans up and is done.
ReadFails ==
  /\ ~crashed /\ run.pc = "read"
  /\ IF cleaner.pc = "none" THEN Begin ELSE UNCHANGED <<closed, cleaner>>
  /\ run' = [run EXCEPT !.pc = "ended"]
  /\ UNCHANGED <<pending, chan, caller, ctxDone, watcher, listed, remoteVars, otherVars>>

HeartbeatFails ==
  /\ ~crashed /\ cleaner.pc = "none"
  /\ Begin
  /\ UNCHANGED <<pending, chan, caller, ctxDone, watcher, run, listed, remoteVars, otherVars>>

Stop ==
  /\ ~crashed /\ listed
  /\ listed' = FALSE
  /\ IF cleaner.pc = "none" THEN Begin ELSE UNCHANGED <<closed, cleaner>>
  /\ UNCHANGED <<pending, chan, caller, ctxDone, watcher, run, remoteVars, otherVars>>

\* Range comes to every request that is in the map all along, loading one at a
\* time: it may be taken out before its turn, or between being loaded and failed.
RangePending ==
  /\ ~crashed /\ cleaner.pc = "closed"
  /\ cleaner' = [cleaner EXCEPT !.pc = "range", !.todo = pending]
  /\ UNCHANGED <<closed, pending, chan, caller, ctxDone, watcher, run, listed, remoteVars, otherVars>>

Visit(r) ==
  /\ ~crashed /\ cleaner.pc = "range" /\ r \in cleaner.todo
  /\ cleaner' = [pc |-> IF r \in pending THEN "fail" ELSE "range",
                 todo |-> cleaner.todo \ {r}, at |-> IF r \in pending THEN {r} ELSE {}]
  /\ UNCHANGED <<closed, pending, chan, caller, ctxDone, watcher, run, listed, remoteVars, otherVars>>

\* Mutant: the callers are not told why.
Fail_silently(r) ==
  /\ ~crashed /\ cleaner.pc = "fail" /\ r \in cleaner.at
  /\ Closing(r)
  /\ cleaner' = [cleaner EXCEPT !.pc = "range", !.at = {}]
  /\ UNCHANGED <<closed, pending, caller, ctxDone, watcher, run, listed, remoteVars, otherVars>>

\* Its channel gets an error, like any message, and is closed.
Fail(r) ==
  /\ ~crashed /\ cleaner.pc = "fail" /\ r \in cleaner.at
  /\ Put([chan EXCEPT ![r].open = FALSE], r, Msg(r, "error", 0))
  /\ cleaner' = [cleaner EXCEPT !.pc = "range", !.at = {}]
  /\ UNCHANGED <<closed, pending, caller, ctxDone, watcher, run, listed, remoteVars>>

\* The map is emptied, the connection closed and the manager told.
HandleClosed ==
  /\ ~crashed /\ cleaner.pc = "range" /\ cleaner.todo = {}
  /\ pending' = {}
  /\ listed' = FALSE
  /\ cleaner' = [cleaner EXCEPT !.pc = "done"]
  /\ UNCHANGED <<closed, chan, caller, ctxDone, watcher, run, remoteVars, otherVars>>

------------------------------------------------------------------------------
(* The client at the other end: parts and a stream_end, one response, an error *)

Reply(r) ==
  /\ ~crashed /\ ~remote[r].over
  /\ LET n == remote[r].parts IN
     \/ /\ n < MaxParts
        /\ wire' = Append(wire, Msg(r, "stream_chunk", n + 1))
        /\ remote' = [remote EXCEPT ![r].parts = n + 1]
     \/ \E type \in {"stream_end", "error"} \cup (IF n = 0 THEN {"http_response"} ELSE {}) :
          /\ wire' = Append(wire, Msg(r, type, 0))
          /\ remote' = [remote EXCEPT ![r].over = TRUE]
  /\ UNCHANGED <<pending, chan, caller, ctxDone, watcher, run, sessionVars, otherVars>>

------------------------------------------------------------------------------

Request(r) == Store(r) \/ LoadBack(r) \/ Check(r) \/ Write(r) \/ Failed(r)

Receive(r) == Part(r) \/ Answer(r) \/ Drained(r) \/ GiveUp(r)

Dispatch == Read \/ Deliver \/ Finish

Cleanup == RangePending \/ (\E r \in Requests : Visit(r) \/ Fail(r)) \/ HandleClosed

Next ==
  \/ \E r \in Requests, mode \in Modes : Send(r, mode)
  \/ \E r \in Requests : Request(r) \/ Receive(r) \/ Cancel(r) \/ Watch(r) \/ Reply(r)
  \/ Dispatch \/ ReadFails \/ HeartbeatFails \/ Stop \/ Cleanup

\* Goroutines run on; requests, cancellations, failures and answers are open.
Fairness ==
  /\ WF_vars(Dispatch) /\ WF_vars(Cleanup)
  /\ \A r \in Requests : WF_vars(Request(r)) /\ WF_vars(Receive(r)) /\ WF_vars(Watch(r))

Spec == Init /\ [][Next]_vars /\ Fairness

------------------------------------------------------------------------------
(* Properties *)

Messages == [id : Requests, type : {"stream_chunk", "http_response", "stream_end", "error"}, part : 0..MaxParts]

Callers ==
  [pc : {"idle", "found", "stored", "loaded", "write", "failed", "wait", "done"}, mode : Modes,
   body : Seq(0..MaxParts), result : {"none", "ok", "error", "cancelled", "panic"}]

TypeOK ==
  /\ pending \subseteq Requests /\ lost \subseteq Requests
  /\ chan \in [Requests -> [buf : Seq(Messages), open : BOOLEAN]]
  /\ \A r \in Requests : Len(chan[r].buf) <= Buffer
  /\ caller \in [Requests -> Callers] /\ ctxDone \in [Requests -> BOOLEAN]
  /\ watcher \in [Requests -> {"none", "waiting", "ended"}]
  /\ run \in [pc : {"read", "deliver", "finish", "ended"}, hand : Seq(Messages)]
  /\ run.pc \in {"deliver", "finish"} => run.hand # <<>>
  /\ cleaner \in [pc : {"none", "closed", "range", "fail", "done"},
                  todo : SUBSET Requests, at : SUBSET Requests]
  /\ closed = (cleaner.pc # "none")
  /\ listed \in BOOLEAN /\ crashed \in BOOLEAN
  /\ wire \in Seq(Messages) /\ remote \in [Requests -> [parts : 0..MaxParts, over : BOOLEAN]]

\* A caller never waits on a channel nobody can close any more: as long as it is
\* open, its request is in the map for run, its watcher or a cleanup to find, and
\* a cleanup under way has still to come to it.  This is what makes the order of
\* request (store, then look at closed) and of cleanup (close, then range) right.
NoOrphan ==
  \A r \in Requests :
    caller[r].pc = "wait" /\ chan[r].open =>
      /\ r \in pending
      /\ cleaner.pc # "done"
      /\ cleaner.pc \in {"range", "fail"} => r \in cleaner.todo \cup cleaner.at

\* When the session ends, every request that waits on it returns.
Unblocked ==
  \A r \in Requests : closed /\ caller[r].pc = "wait" ~> caller[r].pc = "done" \/ crashed

\* A request that has returned leaves nothing behind in the map.
Released ==
  \A r \in Requests : caller[r].pc = "done" ~> r \notin pending \/ crashed

\* What a successful answer is made of: every part the client sent, in order, as
\* long as the channel was never full, the context not cancelled and the process
\* alive, whenever the session closes.
WholeUnlessLost ==
  \A r \in Requests :
    caller[r].result = "ok" /\ r \notin lost /\ ~ctxDone[r] =>
      /\ remote[r].over
      /\ caller[r].body = [i \in 1..remote[r].parts |-> i]

\* message.go:19 "MessageTypeStreamEnd marks the completion of a streaming
\* response": a streamed answer that is returned as complete has been completed,
\* and has its parts.
CompletedByEnd ==
  \A r \in Requests :
    caller[r].result = "ok" /\ ~ctxDone[r] => remote[r].over /\ caller[r].body = [i \in 1..remote[r].parts |-> i]

\* manager.go:95 "Stop gracefully closes all active websocket sessions": while it
\* does, the process does not end.
GracefulStop == ~listed /\ cleaner.pc # "done" => ~crashed
==============================================================================
