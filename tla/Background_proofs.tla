-------------------------- MODULE Background_proofs --------------------------
(***************************************************************************)
(* TLAPS proofs about the three components beside the requests.            *)
(*   - WsRelay: its types are inductive; NoOrphan follows from an          *)
(*     invariant that also covers a request before it waits, and           *)
(*     WholeUnlessLost from one that follows an answer from the client's   *)
(*     wire through run's hand and the request's channel to its caller.    *)
(*   - UsageQueue, for any publishers, records and plugins: types and      *)
(*     NothingLost are inductive together with what a publisher about to   *)
(*     enqueue holds (Holding).                                            *)
(*   - AuthRefresh, for any auths, workers, operators and slots, and all   *)
(*     durations that satisfy RefreshAssumption.                           *)
(***************************************************************************)
EXTENDS WsRelay, UsageQueue, AuthRefresh, FiniteSetTheorems, SequenceTheorems, TLAPS

------------------------------------------------------------------------------
(* WsRelay *)

\* A message the client or the relay makes is a message.
LEMMA MsgType ==
  ASSUME NEW r \in Requests, NEW part \in 0..MaxParts,
         NEW type \in {"stream_chunk", "http_response", "stream_end", "error"}
  PROVE  Msg(r, type, part) \in Messages
  BY DEF Msg, Messages

\* What TypeOK says of channels alone.
ChanOK(c) ==
  /\ c \in [Requests -> [buf : Seq(Messages), open : BOOLEAN]]
  /\ \A r \in Requests : Len(c[r].buf) <= Buffer

\* Closing a channel, or taking its head, leaves channels.
LEMMA ChanClosed ==
  ASSUME NEW c, ChanOK(c), NEW r
  PROVE  ChanOK([c EXCEPT ![r].open = FALSE])
  BY DEF ChanOK

LEMMA ChanReceived ==
  ASSUME NEW c, ChanOK(c), NEW r \in Requests, c[r].buf # <<>>
  PROVE  ChanOK([c EXCEPT ![r].buf = Tail(@)])
<1>. DEFINE d == [c EXCEPT ![r].buf = Tail(@)]
<1>1. /\ c[r].buf \in Seq(Messages) /\ Len(c[r].buf) <= Buffer BY DEF ChanOK
<1>2. /\ Tail(c[r].buf) \in Seq(Messages) /\ Len(Tail(c[r].buf)) <= Buffer
  BY <1>1, RelayAssumption
<1>3. /\ d \in [Requests -> [buf : Seq(Messages), open : BOOLEAN]]
      /\ d[r].buf = Tail(c[r].buf)
      /\ \A q \in Requests : q # r => d[q].buf = c[q].buf
  BY <1>2 DEF ChanOK
<1>. QED BY <1>2, <1>3 DEF ChanOK

\* Putting a message into a channel, or dropping it, leaves channels.
LEMMA ChanPut ==
  ASSUME NEW c, ChanOK(c), ChanOK(chan), NEW r \in Requests, NEW msg \in Messages,
         c[r].buf = chan[r].buf, Put(c, r, msg)
  PROVE  ChanOK(chan')
<1>. DEFINE d == [c EXCEPT ![r].buf = Append(@, msg)]
<1>1. CASE ~(Len(chan[r].buf) < Buffer)
  BY <1>1 DEF Put
<1>2. CASE Len(chan[r].buf) < Buffer
  <2>1. chan' = d BY <1>2 DEF Put
  <2>2. c[r].buf \in Seq(Messages) BY DEF ChanOK
  <2>3. /\ Append(c[r].buf, msg) \in Seq(Messages)
        /\ Len(Append(c[r].buf, msg)) <= Buffer
    BY <1>2, <2>2, RelayAssumption
  <2>4. /\ d \in [Requests -> [buf : Seq(Messages), open : BOOLEAN]]
        /\ d[r].buf = Append(c[r].buf, msg)
        /\ \A q \in Requests : q # r => d[q].buf = c[q].buf
    BY <2>3 DEF ChanOK
  <2>. QED BY <2>1, <2>3, <2>4 DEF ChanOK
<1>. QED BY <1>1, <1>2

\* A caller that moves on, or ends, is a caller.
LEMMA CallerMoves ==
  ASSUME caller \in [Requests -> Callers], NEW r \in Requests,
         NEW place \in {"idle", "found", "stored", "loaded", "write", "failed", "wait", "done"},
         Goto(r, place)
  PROVE  caller' \in [Requests -> Callers]
  BY DEF Goto, Callers

LEMMA CallerEnds ==
  ASSUME caller \in [Requests -> Callers], NEW r \in Requests,
         NEW result \in {"none", "ok", "error", "cancelled", "panic"},
         End(r, result)
  PROVE  caller' \in [Requests -> Callers]
  BY DEF End, Callers

\* Taking a request out keeps the map and the channels.
LEMMA TakenOut ==
  ASSUME TypeOK, NEW r, TakeOut(r)
  PROVE  pending' \subseteq Requests /\ ChanOK(chan')
<1>1. ChanOK(chan) BY DEF TypeOK, ChanOK
<1>2. pending' \subseteq Requests BY DEF TypeOK, TakeOut
<1>3. chan' = chan \/ chan' = [chan EXCEPT ![r].open = FALSE] BY DEF TakeOut, Closing
<1>. QED BY <1>1, <1>2, <1>3, ChanClosed

LEMMA TypeInit == Init => TypeOK
<1>. SUFFICES ASSUME Init PROVE TypeOK OBVIOUS
<1>1. <<>> \in Seq(Messages) /\ <<>> \in Seq(0..MaxParts) OBVIOUS
<1>2. chan \in [Requests -> [buf : Seq(Messages), open : BOOLEAN]]
      /\ \A r \in Requests : Len(chan[r].buf) <= Buffer
  BY <1>1, RelayAssumption DEF Init
<1>3. caller \in [Requests -> Callers] BY <1>1 DEF Init, Callers, Modes
<1>4. remote \in [Requests -> [parts : 0..MaxParts, over : BOOLEAN]]
  BY RelayAssumption DEF Init
<1>5. run \in [pc : {"read", "deliver", "finish", "ended"}, hand : Seq(Messages)]
      /\ (run.pc \in {"deliver", "finish"} => run.hand # <<>>)
  BY <1>1 DEF Init
<1>6. /\ cleaner \in [pc : {"none", "closed", "range", "fail", "done"},
                      todo : SUBSET Requests, at : SUBSET Requests]
      /\ closed = (cleaner.pc # "none")
  BY DEF Init
<1>7. pending \subseteq Requests /\ lost \subseteq Requests /\ ctxDone \in [Requests -> BOOLEAN]
      /\ watcher \in [Requests -> {"none", "waiting", "ended"}] /\ wire \in Seq(Messages)
      /\ listed \in BOOLEAN /\ crashed \in BOOLEAN
  BY <1>1 DEF Init
<1>. QED BY <1>2, <1>3, <1>4, <1>5, <1>6, <1>7 DEF TypeOK

LEMMA TypeStep == TypeOK /\ [Next]_vars => TypeOK'
<1>. SUFFICES ASSUME TypeOK, [Next]_vars PROVE TypeOK' OBVIOUS
<1>. USE DEF sessionVars, remoteVars, otherVars
<1>0. ChanOK(chan) BY DEF TypeOK, ChanOK
<1>1. ASSUME NEW r \in Requests, NEW mode \in Modes, Send(r, mode) PROVE TypeOK'
  <2>1. PICK place \in {"found", "done"}, result \in {"none", "error"} :
          caller' = [caller EXCEPT ![r].pc = place, ![r].mode = mode, ![r].result = result]
    BY <1>1 DEF Send
  <2>2. caller \in [Requests -> Callers] BY DEF TypeOK
  <2>3. [caller[r] EXCEPT !.pc = place, !.mode = mode, !.result = result] \in Callers
    BY <2>2 DEF Callers
  <2>4. caller' \in [Requests -> Callers]
    BY <2>1, <2>2, <2>3 DEF Callers
  <2>. QED BY <1>1, <2>4 DEF Send, TypeOK
<1>2. ASSUME NEW r \in Requests, Store(r) PROVE TypeOK'
  <2>1. caller' \in [Requests -> Callers] BY <1>2, CallerMoves DEF Store, TypeOK
  <2>. QED BY <1>2, <2>1 DEF Store, TypeOK
<1>3. ASSUME NEW r \in Requests, LoadBack(r) PROVE TypeOK'
  <2>1. caller' \in [Requests -> Callers] BY <1>3, CallerMoves, CallerEnds DEF LoadBack, TypeOK
  <2>. QED BY <1>3, <2>1 DEF LoadBack, TypeOK
<1>4. ASSUME NEW r \in Requests, Check(r) PROVE TypeOK'
  <2>1. Goto(r, "failed") \/ Goto(r, "write") BY <1>4 DEF Check
  <2>2. caller' \in [Requests -> Callers] BY <2>1, CallerMoves DEF TypeOK
  <2>. QED BY <1>4, <2>2 DEF Check, TypeOK
<1>5. ASSUME NEW r \in Requests, Write(r) PROVE TypeOK'
  <2>1. caller' \in [Requests -> Callers] BY <1>5, CallerMoves DEF Write, TypeOK
  <2>2. watcher' \in [Requests -> {"none", "waiting", "ended"}] BY <1>5 DEF Write, TypeOK
  <2>3. remote' \in [Requests -> [parts : 0..MaxParts, over : BOOLEAN]]
    <3>1. remote' = remote \/ remote' = [remote EXCEPT ![r].over = FALSE] BY <1>5 DEF Write
    <3>2. remote \in [Requests -> [parts : 0..MaxParts, over : BOOLEAN]] BY DEF TypeOK
    <3>. QED BY <3>1, <3>2
  <2>. QED BY <1>5, <2>1, <2>2, <2>3 DEF Write, TypeOK
<1>6. ASSUME NEW r \in Requests, Failed(r) PROVE TypeOK'
  <2>1. caller' \in [Requests -> Callers] BY <1>6, CallerEnds DEF Failed, TypeOK
  <2>2. pending' \subseteq Requests /\ ChanOK(chan') BY <1>6, TakenOut DEF Failed
  <2>. QED BY <1>6, <2>1, <2>2 DEF Failed, TypeOK, ChanOK
<1>7. ASSUME NEW r \in Requests, Cancel(r) PROVE TypeOK'
  BY <1>7 DEF Cancel, TypeOK
<1>8. ASSUME NEW r \in Requests, Watch(r) PROVE TypeOK'
  <2>1. pending' \subseteq Requests /\ ChanOK(chan') BY <1>0, <1>8, TakenOut DEF Watch, TypeOK
  <2>. QED BY <1>8, <2>1 DEF Watch, TypeOK, ChanOK
<1>9. ASSUME NEW r \in Requests, Part(r) PROVE TypeOK'
  <2>1. ChanOK(chan') BY <1>0, <1>9, ChanReceived DEF Part
  <2>2. Received(r).part \in 0..MaxParts
    <3>1. chan[r].buf \in Seq(Messages) /\ chan[r].buf # <<>> BY <1>9 DEF Part, TypeOK
    <3>2. Head(chan[r].buf) \in Messages BY <3>1
    <3>. QED BY <3>2 DEF Received, Messages
  <2>3. Append(caller[r].body, Received(r).part) \in Seq(0..MaxParts)
    BY <2>2 DEF TypeOK, Callers
  <2>4. caller' = [caller EXCEPT ![r].body = Append(@, Received(r).part)] BY <1>9 DEF Part
  <2>5. caller \in [Requests -> Callers] BY DEF TypeOK
  <2>6. caller' \in [Requests -> Callers] BY <2>3, <2>4, <2>5 DEF Callers
  <2>. QED BY <1>9, <2>1, <2>6 DEF Part, TypeOK, ChanOK
<1>10. ASSUME NEW r \in Requests, Answer(r) PROVE TypeOK'
  <2>1. ChanOK(chan') BY <1>0, <1>10, ChanReceived DEF Answer
  <2>2. End(r, "error") \/ End(r, "ok") BY <1>10 DEF Answer
  <2>3. caller' \in [Requests -> Callers] BY <2>2, CallerEnds DEF TypeOK
  <2>. QED BY <1>10, <2>1, <2>3 DEF Answer, TypeOK, ChanOK
<1>11. ASSUME NEW r \in Requests, Drained(r) PROVE TypeOK'
  <2>1. End(r, "error") \/ End(r, "ok") BY <1>11 DEF Drained
  <2>2. caller' \in [Requests -> Callers] BY <2>1, CallerEnds DEF TypeOK
  <2>. QED BY <1>11, <2>2 DEF Drained, TypeOK
<1>12. ASSUME NEW r \in Requests, GiveUp(r) PROVE TypeOK'
  <2>1. caller' \in [Requests -> Callers] BY <1>12, CallerEnds DEF GiveUp, TypeOK
  <2>. QED BY <1>12, <2>1 DEF GiveUp, TypeOK
<1>13. CASE Read
  <2>1. /\ wire' \in Seq(Messages) /\ Head(wire) \in Messages BY <1>13 DEF Read, TypeOK
  <2>2. <<Head(wire)>> \in Seq(Messages) /\ <<Head(wire)>> # <<>> BY <2>1
  <2>3. run' \in [pc : {"read", "deliver", "finish", "ended"}, hand : Seq(Messages)]
        /\ (run'.pc \in {"deliver", "finish"} => run'.hand # <<>>)
    BY <1>13, <2>2 DEF Read, TypeOK
  <2>. QED BY <1>13, <2>1, <2>3 DEF Read, TypeOK
<1>14. CASE Deliver
  <2>1. Head(run.hand) \in Messages /\ Head(run.hand).id \in Requests
    <3>1. run.hand \in Seq(Messages) /\ run.hand # <<>> BY <1>14 DEF Deliver, TypeOK
    <3>2. Head(run.hand) \in Messages BY <3>1
    <3>. QED BY <3>2 DEF Messages
  <2>2. ChanOK(chan') BY <1>0, <1>14, <2>1, ChanPut DEF Deliver
  <2>3. crashed' \in BOOLEAN /\ lost' \subseteq Requests
    BY <1>14, <2>1 DEF Deliver, Put, TypeOK
  <2>4. run' \in [pc : {"read", "deliver", "finish", "ended"}, hand : Seq(Messages)]
        /\ (run'.pc \in {"deliver", "finish"} => run'.hand # <<>>)
    BY <1>14 DEF Deliver, TypeOK
  <2>. QED BY <1>14, <2>2, <2>3, <2>4 DEF Deliver, TypeOK, ChanOK
<1>15. CASE Finish
  <2>1. pending' \subseteq Requests /\ ChanOK(chan') BY <1>15, TakenOut DEF Finish
  <2>2. run' \in [pc : {"read", "deliver", "finish", "ended"}, hand : Seq(Messages)]
        /\ (run'.pc \in {"deliver", "finish"} => run'.hand # <<>>)
    BY <1>15 DEF Finish
  <2>. QED BY <1>15, <2>1, <2>2 DEF Finish, TypeOK, ChanOK
<1>16. CASE ReadFails
  <2>1. run' \in [pc : {"read", "deliver", "finish", "ended"}, hand : Seq(Messages)]
        /\ run'.pc = "ended"
    BY <1>16 DEF ReadFails, TypeOK
  <2>2. /\ cleaner' \in [pc : {"none", "closed", "range", "fail", "done"},
                         todo : SUBSET Requests, at : SUBSET Requests]
        /\ closed' = (cleaner'.pc # "none")
    BY <1>16 DEF ReadFails, Begin, TypeOK
  <2>. QED BY <1>16, <2>1, <2>2 DEF ReadFails, TypeOK
<1>17. CASE HeartbeatFails
  BY <1>17 DEF HeartbeatFails, Begin, TypeOK
<1>18. CASE Stop
  BY <1>18 DEF Stop, Begin, TypeOK
<1>19. CASE RangePending
  BY <1>19 DEF RangePending, TypeOK
<1>20. ASSUME NEW r \in Requests, Visit(r) PROVE TypeOK'
  BY <1>20 DEF Visit, TypeOK
<1>21. ASSUME NEW r \in Requests, Fail(r) PROVE TypeOK'
  <2>1. Msg(r, "error", 0) \in Messages BY MsgType, RelayAssumption
  <2>2. /\ ChanOK([chan EXCEPT ![r].open = FALSE])
        /\ [chan EXCEPT ![r].open = FALSE][r].buf = chan[r].buf
    <3>1. ChanOK([chan EXCEPT ![r].open = FALSE]) BY <1>0, ChanClosed
    <3>2. [chan EXCEPT ![r].open = FALSE][r].buf = chan[r].buf BY <1>0 DEF ChanOK
    <3>. QED BY <3>1, <3>2
  <2>3. ChanOK(chan') BY <1>0, <1>21, <2>1, <2>2, ChanPut DEF Fail
  <2>4. crashed' \in BOOLEAN /\ lost' \subseteq Requests
    BY <1>21 DEF Fail, Put, TypeOK
  <2>5. cleaner' \in [pc : {"none", "closed", "range", "fail", "done"},
                     todo : SUBSET Requests, at : SUBSET Requests]
        /\ closed' = (cleaner'.pc # "none")
    BY <1>21 DEF Fail, TypeOK
  <2>. QED BY <1>21, <2>3, <2>4, <2>5 DEF Fail, TypeOK, ChanOK
<1>22. CASE HandleClosed
  BY <1>22 DEF HandleClosed, TypeOK
<1>23. ASSUME NEW r \in Requests, Reply(r) PROVE TypeOK'
  <2>1. remote[r].parts \in 0..MaxParts BY DEF TypeOK
  <2>2. /\ remote' \in [Requests -> [parts : 0..MaxParts, over : BOOLEAN]]
        /\ \E msg \in Messages : wire' = Append(wire, msg)
    <3>1. CASE remote[r].parts < MaxParts /\ wire' = Append(wire, Msg(r, "stream_chunk", remote[r].parts + 1))
               /\ remote' = [remote EXCEPT ![r].parts = remote[r].parts + 1]
      <4>1. remote[r].parts + 1 \in 0..MaxParts BY <2>1, <3>1, RelayAssumption
      <4>2. Msg(r, "stream_chunk", remote[r].parts + 1) \in Messages BY <4>1, MsgType
      <4>. QED BY <3>1, <4>1, <4>2 DEF TypeOK
    <3>2. ASSUME NEW type \in {"stream_end", "error", "http_response"},
                 wire' = Append(wire, Msg(r, type, 0)), remote' = [remote EXCEPT ![r].over = TRUE]
          PROVE  <2>2
      <4>1. Msg(r, type, 0) \in Messages BY MsgType, RelayAssumption
      <4>. QED BY <3>2, <4>1 DEF TypeOK
    <3>. QED BY <1>23, <3>1, <3>2 DEF Reply
  <2>3. wire' \in Seq(Messages) BY <2>2 DEF TypeOK
  <2>. QED BY <1>23, <2>2, <2>3 DEF Reply, TypeOK
<1>24. CASE UNCHANGED vars
  BY <1>24 DEF vars, TypeOK
<1>. QED
  BY <1>1, <1>2, <1>3, <1>4, <1>5, <1>6, <1>7, <1>8, <1>9, <1>10, <1>11, <1>12, <1>13, <1>14,
     <1>15, <1>16, <1>17, <1>18, <1>19, <1>20, <1>21, <1>22, <1>23, <1>24
  DEF Next, Request, Receive, Dispatch, Cleanup

\* The relay's state keeps its types, whatever the requests, the capacity of a
\* channel and the interleaving (internal/wsrelay/session.go).
THEOREM RelayTypeCorrect == Spec => []TypeOK
<1>1. Init => TypeOK BY TypeInit
<1>2. TypeOK /\ [Next]_vars => TypeOK' BY TypeStep
<1>. QED BY <1>1, <1>2, PTL DEF Spec

------------------------------------------------------------------------------
(* NoOrphan *)

\* Before it writes, a request that has not been failed is in the map of a
\* session that is still open; from then on it is where a cleanup comes to it.
Findable(r) ==
  /\ r \in pending
  /\ cleaner.pc # "done"
  /\ cleaner.pc \in {"range", "fail"} => r \in cleaner.todo \cup cleaner.at

Reachable(r) ==
  /\ caller[r].pc \in {"stored", "loaded"} /\ ~closed /\ chan[r].open => r \in pending
  /\ caller[r].pc \in {"write", "wait"} /\ chan[r].open => Findable(r)

\* The cleanup fails one request at a time.
OneVisit ==
  IF cleaner.pc = "fail" THEN \E r \in Requests : cleaner.at = {r} ELSE cleaner.at = {}

RelayInv == TypeOK /\ OneVisit /\ \A r \in Requests : Reachable(r)

\* A step that leaves the session, and moves no caller to a new place it has to
\* be found in, keeps it findable if what it takes out it closes.
LEMMA ReachableKept ==
  ASSUME RelayInv, UNCHANGED <<closed, cleaner>>,
         NEW q \in Requests,
         caller'[q].pc = caller[q].pc \/ caller'[q].pc \in {"idle", "found", "failed", "done"},
         chan'[q].open => chan[q].open /\ (q \in pending => q \in pending')
  PROVE  Reachable(q)'
  BY DEF RelayInv, Reachable, Findable

\* Whoever takes a request out closes its channel.
LEMMA TakenOutClosed ==
  ASSUME TypeOK, NEW r, TakeOut(r), NEW q \in Requests
  PROVE  chan'[q].open => chan[q].open /\ (q \in pending => q \in pending')
<1>1. CASE r \in pending
  <2>1. chan' = [chan EXCEPT ![r].open = FALSE] /\ pending' = pending \ {r}
    BY <1>1 DEF TakeOut, Closing
  <2>. QED BY <2>1 DEF TypeOK
<1>2. CASE r \notin pending
  BY <1>2 DEF TakeOut
<1>. QED BY <1>1, <1>2

\* A message leaves a channel's being open alone.
LEMMA PutOpen ==
  ASSUME TypeOK, NEW c, NEW r \in Requests, NEW msg, Put(c, r, msg), ChanOK(c), NEW q \in Requests
  PROVE  chan'[q].open = c[q].open
  BY DEF Put, ChanOK

LEMMA OneStep == RelayInv /\ [Next]_vars => OneVisit'
<1>. SUFFICES ASSUME RelayInv, [Next]_vars PROVE OneVisit' OBVIOUS
<1>. USE DEF sessionVars
<1>1. CASE UNCHANGED cleaner BY <1>1 DEF RelayInv, OneVisit
<1>2. CASE \E r \in Requests : Visit(r)
  BY <1>2 DEF Visit, RelayInv, OneVisit
<1>3. CASE \E r \in Requests : Fail(r)
  BY <1>3 DEF Fail, RelayInv, OneVisit, TypeOK
<1>4. CASE RangePending
  BY <1>4 DEF RangePending, RelayInv, OneVisit, TypeOK
<1>5. CASE HandleClosed
  BY <1>5 DEF HandleClosed, RelayInv, OneVisit, TypeOK
<1>6. CASE ReadFails \/ HeartbeatFails \/ Stop
  BY <1>6 DEF ReadFails, HeartbeatFails, Stop, Begin, RelayInv, OneVisit, TypeOK
<1>. QED
  BY <1>1, <1>2, <1>3, <1>4, <1>5, <1>6
  DEF Next, Request, Receive, Dispatch, Cleanup, vars, Send, Store, LoadBack, Check, Write, Failed,
      Cancel, Watch, Part, Answer, Drained, GiveUp, Read, Deliver, Finish, Reply

LEMMA ReachableStep == RelayInv /\ [Next]_vars => \A q \in Requests : Reachable(q)'
<1>. SUFFICES ASSUME RelayInv, [Next]_vars, NEW q \in Requests PROVE Reachable(q)'
  OBVIOUS
<1>. USE DEF sessionVars
<1>0. TypeOK /\ Reachable(q) /\ caller \in [Requests -> Callers] BY DEF RelayInv, TypeOK
<1>1. ASSUME NEW r \in Requests, NEW mode \in Modes, Send(r, mode) PROVE Reachable(q)'
  <2>1. caller'[q].pc = caller[q].pc \/ caller'[q].pc \in {"found", "done"}
    <3>1. CASE q = r BY <1>0, <1>1, <3>1 DEF Send, Callers
    <3>2. CASE q # r BY <1>0, <1>1, <3>2 DEF Send
    <3>. QED BY <3>1, <3>2
  <2>. QED BY <1>1, <2>1, ReachableKept DEF Send
<1>2. ASSUME NEW r \in Requests, Store(r) PROVE Reachable(q)'
  <2>1. CASE q = r
    BY <1>0, <1>2, <2>1 DEF Store, Goto, Reachable, Callers
  <2>2. CASE q # r
    <3>1. caller'[q] = caller[q] BY <1>0, <1>2, <2>2 DEF Store, Goto
    <3>. QED BY <1>2, <3>1, ReachableKept DEF Store
  <2>. QED BY <2>1, <2>2
<1>3. ASSUME NEW r \in Requests, LoadBack(r) PROVE Reachable(q)'
  <2>1. CASE q = r
    <3>1. caller'[q].pc \in {"loaded", "done"} /\ caller[q].pc = "stored"
      BY <1>0, <1>3, <2>1 DEF LoadBack, At, Goto, End, Callers
    <3>. QED BY <1>0, <1>3, <3>1 DEF LoadBack, Reachable
  <2>2. CASE q # r
    <3>1. caller'[q] = caller[q] BY <1>0, <1>3, <2>2 DEF LoadBack, Goto, End
    <3>. QED BY <1>3, <3>1, ReachableKept DEF LoadBack
  <2>. QED BY <2>1, <2>2
<1>4. ASSUME NEW r \in Requests, Check(r) PROVE Reachable(q)'
  <2>1. CASE q = r
    <3>1. /\ caller'[q].pc = IF closed THEN "failed" ELSE "write"
          /\ caller[q].pc = "loaded"
      BY <1>0, <1>4, <2>1 DEF Check, At, Goto, Callers
    <3>2. ~closed => cleaner.pc = "none" BY <1>0 DEF TypeOK
    <3>. QED BY <1>0, <1>4, <3>1, <3>2 DEF Check, Reachable, Findable
  <2>2. CASE q # r
    <3>1. caller'[q] = caller[q] BY <1>0, <1>4, <2>2 DEF Check, Goto
    <3>. QED BY <1>4, <3>1, ReachableKept DEF Check
  <2>. QED BY <2>1, <2>2
<1>5. ASSUME NEW r \in Requests, Write(r) PROVE Reachable(q)'
  <2>1. CASE q = r
    <3>1. caller'[q].pc \in {"wait", "failed"} /\ caller[q].pc = "write"
      BY <1>0, <1>5, <2>1 DEF Write, At, Goto, Callers
    <3>. QED BY <1>0, <1>5, <3>1 DEF Write, Reachable, Findable
  <2>2. CASE q # r
    <3>1. caller'[q] = caller[q] BY <1>0, <1>5, <2>2 DEF Write, Goto
    <3>. QED BY <1>5, <3>1, ReachableKept DEF Write
  <2>. QED BY <2>1, <2>2
<1>6. ASSUME NEW r \in Requests, Failed(r) PROVE Reachable(q)'
  <2>1. caller'[q].pc = caller[q].pc \/ caller'[q].pc = "done"
    BY <1>0, <1>6 DEF Failed, End, Callers
  <2>2. TakeOut(r) BY <1>6 DEF Failed
  <2>. QED BY <1>0, <1>6, <2>1, <2>2, TakenOutClosed, ReachableKept DEF Failed
<1>7. ASSUME NEW r \in Requests, Cancel(r) \/ Reply(r) PROVE Reachable(q)'
  BY <1>7, ReachableKept DEF Cancel, Reply
<1>8. ASSUME NEW r \in Requests, Watch(r) PROVE Reachable(q)'
  <2>1. TakeOut(r) \/ UNCHANGED <<pending, chan>> BY <1>8 DEF Watch
  <2>2. chan'[q].open => chan[q].open /\ (q \in pending => q \in pending')
    BY <1>0, <2>1, TakenOutClosed
  <2>. QED BY <1>8, <2>2, ReachableKept DEF Watch
<1>9. ASSUME NEW r \in Requests, Part(r) PROVE Reachable(q)'
  <2>1. caller'[q].pc = caller[q].pc
    <3>1. caller' = [caller EXCEPT ![r].body = Append(@, Received(r).part)] BY <1>9 DEF Part
    <3>. QED BY <1>0, <3>1 DEF Callers
  <2>2. chan'[q].open = chan[q].open BY <1>0, <1>9 DEF Part, TypeOK
  <2>. QED BY <1>9, <2>1, <2>2, ReachableKept DEF Part
<1>10. ASSUME NEW r \in Requests, Answer(r) PROVE Reachable(q)'
  <2>1. caller'[q].pc = caller[q].pc \/ caller'[q].pc = "done"
    <3>1. End(r, "error") \/ End(r, "ok") BY <1>10 DEF Answer
    <3>. QED BY <1>0, <3>1 DEF End, Callers
  <2>2. chan'[q].open = chan[q].open BY <1>0, <1>10 DEF Answer, TypeOK
  <2>. QED BY <1>10, <2>1, <2>2, ReachableKept DEF Answer
<1>11. ASSUME NEW r \in Requests, Drained(r) \/ GiveUp(r) PROVE Reachable(q)'
  <2>1. caller'[q].pc = caller[q].pc \/ caller'[q].pc = "done"
    <3>1. End(r, "error") \/ End(r, "ok") \/ End(r, "cancelled") BY <1>11 DEF Drained, GiveUp
    <3>. QED BY <1>0, <3>1 DEF End, Callers
  <2>. QED BY <1>11, <2>1, ReachableKept DEF Drained, GiveUp
<1>12. CASE Read
  BY <1>12, ReachableKept DEF Read
<1>13. CASE Deliver
  <2>1. Head(run.hand) \in Messages /\ Head(run.hand).id \in Requests
    <3>1. run.hand \in Seq(Messages) /\ run.hand # <<>> BY <1>0, <1>13 DEF Deliver, TypeOK
    <3>2. Head(run.hand) \in Messages BY <3>1
    <3>. QED BY <3>2 DEF Messages
  <2>2. ChanOK(chan) BY <1>0 DEF TypeOK, ChanOK
  <2>3. chan'[q].open = chan[q].open BY <1>0, <1>13, <2>1, <2>2, PutOpen DEF Deliver
  <2>. QED BY <1>13, <2>3, ReachableKept DEF Deliver
<1>14. CASE Finish
  <2>1. TakeOut(Head(run.hand).id) BY <1>14 DEF Finish
  <2>. QED BY <1>0, <1>14, <2>1, TakenOutClosed, ReachableKept DEF Finish
<1>15. CASE ReadFails \/ HeartbeatFails \/ Stop
  <2>1. UNCHANGED <<pending, chan, caller>>
        /\ (UNCHANGED <<closed, cleaner>> \/ (cleaner.pc = "none" /\ closed' /\ cleaner'.pc = "closed"))
    BY <1>0, <1>15 DEF ReadFails, HeartbeatFails, Stop, Begin, TypeOK
  <2>. QED BY <1>0, <2>1 DEF Reachable, Findable
<1>16. CASE RangePending
  <2>1. /\ UNCHANGED <<closed, pending, chan, caller>>
        /\ cleaner'.pc = "range" /\ cleaner'.todo = pending
    BY <1>0, <1>16 DEF RangePending, TypeOK
  <2>. QED BY <1>0, <2>1 DEF Reachable, Findable
<1>17. ASSUME NEW r \in Requests, Visit(r) PROVE Reachable(q)'
  <2>1. cleaner.at = {} BY <1>17 DEF RelayInv, OneVisit, Visit
  <2>2. /\ UNCHANGED <<closed, pending, chan, caller>>
        /\ cleaner'.pc \in {"range", "fail"} /\ cleaner.pc = "range"
        /\ cleaner'.todo = cleaner.todo \ {r}
        /\ cleaner'.at = IF r \in pending THEN {r} ELSE {}
    BY <1>17 DEF Visit
  <2>. QED BY <1>0, <2>1, <2>2 DEF Reachable, Findable
<1>18. ASSUME NEW r \in Requests, Fail(r) PROVE Reachable(q)'
  <2>1. cleaner.at = {r} BY <1>18 DEF RelayInv, OneVisit, Fail
  <2>2. /\ UNCHANGED <<closed, pending, caller>>
        /\ cleaner'.pc = "range" /\ cleaner.pc = "fail"
        /\ cleaner'.todo = cleaner.todo /\ cleaner'.at = {}
    BY <1>0, <1>18 DEF Fail, TypeOK
  <2>3. ChanOK([chan EXCEPT ![r].open = FALSE])
    BY <1>0, ChanClosed DEF TypeOK, ChanOK
  <2>4. chan'[q].open = [chan EXCEPT ![r].open = FALSE][q].open
    BY <1>0, <1>18, <2>3, PutOpen DEF Fail
  <2>5. chan'[q].open => chan[q].open /\ q # r
    BY <1>0, <2>4 DEF TypeOK
  <2>. QED BY <1>0, <2>1, <2>2, <2>5 DEF Reachable, Findable
<1>19. CASE HandleClosed
  <2>1. cleaner.pc = "range" /\ cleaner.todo = {} /\ cleaner.at = {}
    BY <1>19 DEF HandleClosed, RelayInv, OneVisit
  <2>2. closed BY <1>0, <2>1 DEF TypeOK
  <2>. QED BY <1>0, <1>19, <2>1, <2>2 DEF HandleClosed, Reachable, Findable
<1>20. CASE UNCHANGED vars
  BY <1>20, ReachableKept DEF vars
<1>. QED
  BY <1>1, <1>2, <1>3, <1>4, <1>5, <1>6, <1>7, <1>8, <1>9, <1>10, <1>11, <1>12, <1>13, <1>14,
     <1>15, <1>16, <1>17, <1>18, <1>19, <1>20
  DEF Next, Request, Receive, Dispatch, Cleanup

LEMMA InvStep == RelayInv /\ [Next]_vars => RelayInv'
<1>. SUFFICES ASSUME RelayInv, [Next]_vars PROVE RelayInv' OBVIOUS
<1>1. TypeOK' BY TypeStep DEF RelayInv
<1>2. OneVisit' BY OneStep
<1>3. (\A q \in Requests : Reachable(q))' BY ReachableStep
<1>. QED BY <1>1, <1>2, <1>3 DEF RelayInv

LEMMA RelayInit == Init => RelayInv
<1>1. Init => OneVisit /\ \A r \in Requests : Reachable(r)
  BY DEF Init, OneVisit, Reachable
<1>. QED BY <1>1, TypeInit DEF RelayInv

\* A caller that waits on an open channel is in the map, and a cleanup under way
\* has still to come to it: whatever ends the session ends the wait
\* (request, dispatch and cleanup in internal/wsrelay/session.go).
THEOREM NeverOrphaned == Spec => []NoOrphan
<1>1. RelayInv => NoOrphan
  BY DEF RelayInv, Reachable, Findable, NoOrphan
<1>. QED BY <1>1, RelayInit, InvStep, PTL DEF Spec

------------------------------------------------------------------------------
(* WholeUnlessLost *)

\* The way of an answer: the client's wire and the message run has in its hand
\* are one line, and a channel holds what its caller has not taken yet.
Line == (IF run.pc = "deliver" THEN run.hand ELSE <<>>) \o wire

On(l, r) == \E j \in 1..Len(l) : l[j].id = r

Ended(buf) == \E k \in 1..Len(buf) : Terminal(buf[k])

\* On a line, the parts of an answer come in order, and nothing follows its end;
\* all of it has been sent.
Ordered(l) ==
  \A i, j \in 1..Len(l) : i < j /\ l[i].id = l[j].id =>
    ~Terminal(l[i]) /\ (Terminal(l[j]) \/ l[i].part < l[j].part)

Sent(l, rem) ==
  \A j \in 1..Len(l) :
    IF Terminal(l[j]) THEN rem[l[j].id].over ELSE l[j].part \in 1..rem[l[j].id].parts

\* A caller has the parts from the first on, its channel the ones after them and,
\* it may be, the end, which comes after the last.
Counted(body, buf, rem) ==
  /\ \A i \in 1..Len(body) : body[i] = i
  /\ \A k \in 1..Len(buf) :
       /\ ~Terminal(buf[k]) => buf[k].part = Len(body) + k
       /\ buf[k].type \in {"stream_end", "http_response"} =>
            rem.over /\ rem.parts = Len(body) + k - 1

\* With "had" parts in the caller's hands or its channel, the rest is on the line.
Complete(r, had, l, rem) ==
  /\ had <= rem.parts
  /\ \A p \in (had + 1)..rem.parts :
       \E j \in 1..Len(l) : l[j].id = r /\ ~Terminal(l[j]) /\ l[j].part = p
  /\ \A j \in 1..Len(l) : l[j].id = r /\ ~Terminal(l[j]) => l[j].part > had

Finishing(r) == run.pc = "finish" /\ Head(run.hand).id = r

Live(r) == ~crashed /\ r \notin lost /\ ~ctxDone[r]

\* Until it waits, nothing has been sent for a request, ...
Unsent(r) ==
  /\ remote[r].parts = 0 /\ remote[r].over /\ caller[r].body = <<>>
  /\ ~On(Line, r) /\ ~Finishing(r)

\* ... and nothing has come but a cleanup's error.
Before(r) ==
  /\ IF chan[r].open THEN chan[r].buf = <<>> ELSE Ended(chan[r].buf)
  /\ \A k \in 1..Len(chan[r].buf) : chan[r].buf[k].type = "error"

\* While it waits: as long as its channel has no end, and so is open, nothing of
\* the answer is missing.
Ahead(r) ==
  /\ Counted(caller[r].body, chan[r].buf, remote[r])
  /\ Finishing(r) \/ ~chan[r].open => Ended(chan[r].buf)
  /\ chan[r].open =>
       IF Ended(chan[r].buf) THEN remote[r].over /\ ~On(Line, r)
       ELSE Complete(r, Len(caller[r].body) + Len(chan[r].buf), Line, remote[r])

\* When it has returned, it has it all.
Whole(r) ==
  /\ caller[r].result = "ok" => caller[r].pc = "done"
  /\ caller[r].pc \notin {"wait", "done"} => Unsent(r)
  /\ Live(r) /\ caller[r].pc \notin {"wait", "done"} => Before(r)
  /\ Live(r) /\ caller[r].pc = "wait" => Ahead(r)
  /\ caller[r].result = "ok" /\ r \notin lost /\ ~ctxDone[r] =>
       remote[r].over /\ caller[r].body = [i \in 1..remote[r].parts |-> i]

LineInv == Ordered(Line) /\ Sent(Line, remote) /\ (run.pc = "deliver" => Len(run.hand) = 1)

WholeInv == LineInv /\ \A r \in Requests : Whole(r)

LEMMA LineType == TypeOK => Line \in Seq(Messages)
  BY DEF TypeOK, Line

\* What is left of an ordered line is ordered.
LEMMA LineShrinks ==
  ASSUME NEW l \in Seq(Messages), l # <<>>, NEW rem, Ordered(l), Sent(l, rem)
  PROVE  /\ Ordered(Tail(l)) /\ Sent(Tail(l), rem)
         /\ \A r \in Requests : On(Tail(l), r) => On(l, r)
<1>1. /\ Len(l) \in Nat /\ Len(Tail(l)) = Len(l) - 1
      /\ \A j \in 1..Len(Tail(l)) : Tail(l)[j] = l[j + 1]
  OBVIOUS
<1>2. \A j \in 1..Len(Tail(l)) : j + 1 \in 1..Len(l) BY <1>1
<1>3. Ordered(Tail(l))
  <2>. SUFFICES ASSUME NEW i \in 1..Len(Tail(l)), NEW j \in 1..Len(Tail(l)), i < j,
                       Tail(l)[i].id = Tail(l)[j].id
                PROVE  ~Terminal(Tail(l)[i]) /\ (Terminal(Tail(l)[j]) \/ Tail(l)[i].part < Tail(l)[j].part)
    BY DEF Ordered
  <2>1. i + 1 < j + 1 /\ Tail(l)[i] = l[i + 1] /\ Tail(l)[j] = l[j + 1] BY <1>1
  <2>. QED BY <1>2, <2>1 DEF Ordered
<1>4. Sent(Tail(l), rem) BY <1>1, <1>2 DEF Sent
<1>. QED BY <1>1, <1>2, <1>3, <1>4 DEF On

\* A message at the head of the line, of an answer that is complete, is its next
\* part or its end.
LEMMA NextInLine ==
  ASSUME NEW l \in Seq(Messages), l # <<>>, NEW rem, Ordered(l), Sent(l, rem),
         NEW r \in Requests, Head(l).id = r, NEW had \in Nat, rem[r].parts \in Nat,
         Complete(r, had, l, rem[r])
  PROVE  /\ ~Terminal(Head(l)) =>
              Head(l).part = had + 1 /\ Complete(r, had + 1, Tail(l), rem[r])
         /\ Terminal(Head(l)) => rem[r].over /\ rem[r].parts = had /\ ~On(Tail(l), r)
<1>1. /\ Len(l) \in Nat \ {0} /\ Len(Tail(l)) = Len(l) - 1 /\ Head(l) = l[1]
      /\ \A j \in 1..Len(Tail(l)) : Tail(l)[j] = l[j + 1] /\ j + 1 \in 1..Len(l) /\ 1 < j + 1
  OBVIOUS
<1>0. ASSUME NEW j \in 1..Len(l) PROVE l[j].part \in Nat
  <2>1. l[j] \in Messages OBVIOUS
  <2>. QED BY <2>1, RelayAssumption DEF Messages
<1>2. 1 \in 1..Len(l) BY <1>1
<1>3. \A j \in 2..Len(l) : j \in 1..Len(l) /\ 1 < j /\ j - 1 \in 1..Len(Tail(l)) /\ Tail(l)[j - 1] = l[j]
  <2>. SUFFICES ASSUME NEW j \in 2..Len(l) PROVE j \in 1..Len(l) /\ 1 < j /\ j - 1 \in 1..Len(Tail(l)) /\ Tail(l)[j - 1] = l[j]
    OBVIOUS
  <2>1. j \in 1..Len(l) /\ 1 < j /\ j - 1 \in 1..Len(Tail(l)) /\ (j - 1) + 1 = j BY <1>1
  <2>. QED BY <1>1, <2>1
<1>4. CASE ~Terminal(Head(l))
  <2>1. l[1].part \in (had + 1)..rem[r].parts BY <1>1, <1>2, <1>4 DEF Complete, Sent
  <2>2. PICK j \in 1..Len(l) : l[j].id = r /\ ~Terminal(l[j]) /\ l[j].part = had + 1
    <3>1. had + 1 \in (had + 1)..rem[r].parts BY <2>1
    <3>. QED BY <3>1 DEF Complete
  <2>3. j = 1
    <3>1. CASE 1 < j BY <1>0, <1>1, <1>2, <2>1, <2>2, <3>1 DEF Ordered
    <3>. QED BY <3>1
  <2>4. Head(l).part = had + 1 /\ had + 1 <= rem[r].parts BY <1>1, <2>1, <2>2, <2>3
  <2>5. ASSUME NEW p \in (had + 2)..rem[r].parts
        PROVE  \E i \in 1..Len(Tail(l)) : Tail(l)[i].id = r /\ ~Terminal(Tail(l)[i]) /\ Tail(l)[i].part = p
    <3>1. p \in (had + 1)..rem[r].parts /\ p # had + 1 OBVIOUS
    <3>2. PICK i \in 1..Len(l) : l[i].id = r /\ ~Terminal(l[i]) /\ l[i].part = p
      BY <3>1 DEF Complete
    <3>3. i \in 2..Len(l) BY <1>1, <2>4, <3>1, <3>2
    <3>. QED BY <1>3, <3>2, <3>3
  <2>6. ASSUME NEW i \in 1..Len(Tail(l)), Tail(l)[i].id = r, ~Terminal(Tail(l)[i])
        PROVE  Tail(l)[i].part > had + 1
    <3>1. l[1].id = l[i + 1].id /\ ~Terminal(l[i + 1]) BY <1>1, <2>6
    <3>2. l[1].part < l[i + 1].part BY <1>1, <1>2, <3>1 DEF Ordered
    <3>. QED BY <1>0, <1>1, <2>4, <3>2
  <2>. QED BY <1>4, <2>4, <2>5, <2>6 DEF Complete
<1>5. CASE Terminal(Head(l))
  <2>1. rem[r].over BY <1>1, <1>2, <1>5 DEF Sent
  <2>2. ~On(Tail(l), r) BY <1>1, <1>2, <1>5 DEF On, Ordered
  <2>3. rem[r].parts = had
    <3>1. CASE had < rem[r].parts
      <4>1. had + 1 \in (had + 1)..rem[r].parts BY <3>1
      <4>2. PICK j \in 1..Len(l) : l[j].id = r /\ ~Terminal(l[j]) /\ l[j].part = had + 1
        BY <4>1 DEF Complete
      <4>3. 1 < j BY <1>1, <1>5, <4>2
      <4>. QED BY <1>1, <1>2, <1>5, <4>2, <4>3 DEF Ordered
    <3>. QED BY <3>1 DEF Complete
  <2>. QED BY <1>5, <2>1, <2>2, <2>3
<1>. QED BY <1>4, <1>5

\* A message of another answer at the head of the line matters to no answer but its own.
LEMMA OtherInLine ==
  ASSUME NEW l \in Seq(Messages), l # <<>>, NEW r, Head(l).id # r, NEW had, NEW rem
  PROVE  /\ Complete(r, had, l, rem) => Complete(r, had, Tail(l), rem)
         /\ On(Tail(l), r) => On(l, r)
<1>1. /\ Len(l) \in Nat \ {0} /\ Len(Tail(l)) = Len(l) - 1 /\ Head(l) = l[1]
      /\ \A j \in 1..Len(Tail(l)) : Tail(l)[j] = l[j + 1] /\ j + 1 \in 1..Len(l)
  OBVIOUS
<1>2. \A j \in 1..Len(l) : l[j].id = r => j - 1 \in 1..Len(Tail(l)) /\ Tail(l)[j - 1] = l[j]
  <2>. SUFFICES ASSUME NEW j \in 1..Len(l), l[j].id = r
                PROVE  j - 1 \in 1..Len(Tail(l)) /\ Tail(l)[j - 1] = l[j]
    OBVIOUS
  <2>1. j # 1 BY <1>1
  <2>2. j - 1 \in 1..Len(Tail(l)) /\ (j - 1) + 1 = j BY <1>1, <2>1
  <2>. QED BY <1>1, <2>2
<1>. QED BY <1>1, <1>2 DEF Complete, On

\* What run does to the line.
LEMMA ReadLine ==
  ASSUME TypeOK, Read
  PROVE  IF Head(wire).id \in pending THEN Line' = Line ELSE Line = wire /\ wire # <<>> /\ Line' = Tail(Line)
<1>1. wire \in Seq(Messages) /\ wire # <<>> /\ wire' = Tail(wire) /\ run.pc = "read"
  BY DEF Read, TypeOK
<1>2. /\ <<>> \o wire = wire /\ <<>> \o Tail(wire) = Tail(wire)
      /\ <<Head(wire)>> \o Tail(wire) = wire
  BY <1>1
<1>3. CASE Head(wire).id \in pending
  BY <1>1, <1>2, <1>3 DEF Read, Line
<1>4. CASE Head(wire).id \notin pending
  BY <1>1, <1>2, <1>4 DEF Read, Line
<1>. QED BY <1>3, <1>4

LEMMA DeliverLine ==
  ASSUME TypeOK, LineInv, Deliver
  PROVE  Line # <<>> /\ Head(Line) = Head(run.hand) /\ Line' = Tail(Line)
<1>1. /\ wire \in Seq(Messages) /\ wire' = wire /\ run.pc = "deliver"
      /\ run.hand \in Seq(Messages) /\ Len(run.hand) = 1 /\ run'.pc # "deliver"
  BY DEF Deliver, TypeOK, LineInv, remoteVars
<1>2. PICK m \in Messages : run.hand = <<m>>
  <2>1. run.hand[1] \in Messages BY <1>1
  <2>2. run.hand = <<run.hand[1]>> BY <1>1
  <2>. QED BY <2>1, <2>2
<1>3. <<>> \o wire = wire /\ <<m>> \o wire # <<>> /\ Head(<<m>> \o wire) = m /\ Tail(<<m>> \o wire) = wire
  BY <1>1
<1>4. Line = <<m>> \o wire /\ Line' = <<>> \o wire BY <1>1, <1>2 DEF Line
<1>. QED BY <1>2, <1>3, <1>4

\* Whatever leaves the wire and run alone leaves the line.
LEMMA SameLine ==
  ASSUME wire' = wire, run' = run \/ (run.pc # "deliver" /\ run'.pc # "deliver")
  PROVE  Line' = Line
  BY DEF Line

\* What the client sends is the next part, or the end.
LEMMA ReplyLine ==
  ASSUME TypeOK, NEW r \in Requests, Reply(r)
  PROVE  \E msg \in Messages :
           /\ msg.id = r /\ Line' = Append(Line, msg) /\ ~remote[r].over
           /\ \/ /\ ~Terminal(msg) /\ msg.part = remote[r].parts + 1
                 /\ remote' = [remote EXCEPT ![r].parts = remote[r].parts + 1]
              \/ /\ Terminal(msg)
                 /\ remote' = [remote EXCEPT ![r].over = TRUE]
<1>0. remote[r].parts \in 0..MaxParts /\ ~remote[r].over BY DEF TypeOK, Reply
<1>1. ASSUME NEW msg \in Messages, wire' = Append(wire, msg)
      PROVE  Line' = Append(Line, msg)
  <2>1. run' = run BY DEF Reply
  <2>2. ASSUME NEW s \in Seq(Messages) PROVE s \o Append(wire, msg) = Append(s \o wire, msg)
    BY DEF TypeOK
  <2>3. (IF run.pc = "deliver" THEN run.hand ELSE <<>>) \in Seq(Messages) BY DEF TypeOK
  <2>. QED BY <1>1, <2>1, <2>2, <2>3 DEF Line
<1>2. CASE remote[r].parts < MaxParts /\ wire' = Append(wire, Msg(r, "stream_chunk", remote[r].parts + 1))
           /\ remote' = [remote EXCEPT ![r].parts = remote[r].parts + 1]
  <2>1. remote[r].parts + 1 \in 0..MaxParts BY <1>0, <1>2, RelayAssumption
  <2>2. Msg(r, "stream_chunk", remote[r].parts + 1) \in Messages BY <2>1, MsgType
  <2>3. /\ Msg(r, "stream_chunk", remote[r].parts + 1).part = remote[r].parts + 1
        /\ ~Terminal(Msg(r, "stream_chunk", remote[r].parts + 1))
        /\ Msg(r, "stream_chunk", remote[r].parts + 1).id = r
    BY DEF Msg, Terminal
  <2>. QED BY <1>0, <1>1, <1>2, <2>2, <2>3
<1>3. CASE \E type \in {"stream_end", "error", "http_response"} :
             wire' = Append(wire, Msg(r, type, 0)) /\ remote' = [remote EXCEPT ![r].over = TRUE]
  <2>0. PICK type \in {"stream_end", "error", "http_response"} :
             wire' = Append(wire, Msg(r, type, 0)) /\ remote' = [remote EXCEPT ![r].over = TRUE]
    BY <1>3
  <2>1. Msg(r, type, 0) \in Messages BY MsgType, RelayAssumption
  <2>2. Terminal(Msg(r, type, 0)) /\ Msg(r, type, 0).id = r BY DEF Msg, Terminal
  <2>. QED BY <1>0, <1>1, <2>0, <2>1, <2>2
<1>. QED BY <1>2, <1>3 DEF Reply

LEMMA LineStep == TypeOK /\ WholeInv /\ [Next]_vars => LineInv'
<1>. SUFFICES ASSUME TypeOK, WholeInv, [Next]_vars PROVE LineInv' OBVIOUS
<1>. USE DEF sessionVars, remoteVars, otherVars
<1>0. LineInv /\ Line \in Seq(Messages) BY LineType DEF WholeInv
<1>1. ASSUME UNCHANGED <<wire, run, remote>> PROVE LineInv'
  BY <1>0, <1>1, SameLine DEF LineInv
<1>2. CASE Read
  <2>1. run'.pc = "deliver" => Len(run'.hand) = 1 BY <1>2 DEF Read
  <2>2. remote' = remote BY <1>2 DEF Read
  <2>3. Ordered(Line') /\ Sent(Line', remote)
    <3>1. Line' = Line \/ (Line # <<>> /\ Line' = Tail(Line)) BY <1>2, ReadLine
    <3>. QED BY <1>0, <3>1, LineShrinks DEF LineInv
  <2>. QED BY <2>1, <2>2, <2>3 DEF LineInv
<1>3. CASE Deliver
  <2>1. run'.pc # "deliver" /\ remote' = remote BY <1>3 DEF Deliver
  <2>2. Ordered(Line') /\ Sent(Line', remote) BY <1>0, <1>3, DeliverLine, LineShrinks DEF LineInv
  <2>. QED BY <2>1, <2>2 DEF LineInv
<1>4. CASE Finish \/ ReadFails
  <2>1. wire' = wire /\ remote' = remote /\ run.pc # "deliver" /\ run'.pc # "deliver"
    BY <1>4 DEF Finish, ReadFails, TypeOK
  <2>. QED BY <1>0, <2>1, SameLine DEF LineInv
<1>5. ASSUME NEW r \in Requests, Write(r) PROVE LineInv'
  <2>1. Line' = Line /\ run' = run BY <1>5, SameLine DEF Write
  <2>2. caller[r].pc = "write" /\ ~On(Line, r) BY <1>5 DEF Write, At, WholeInv, Whole, Unsent
  <2>3. \A q \in Requests : q # r => remote'[q] = remote[q] BY <1>5 DEF Write, TypeOK
  <2>4. Sent(Line, remote')
    <3>. SUFFICES ASSUME NEW j \in 1..Len(Line)
                  PROVE  IF Terminal(Line[j]) THEN remote'[Line[j].id].over
                         ELSE Line[j].part \in 1..remote'[Line[j].id].parts
      BY DEF Sent
    <3>1. Line[j] \in Messages BY <1>0
    <3>2. Line[j].id \in Requests /\ Line[j].id # r BY <2>2, <3>1 DEF Messages, On
    <3>3. remote'[Line[j].id] = remote[Line[j].id] BY <2>3, <3>2
    <3>. QED BY <1>0, <3>3 DEF LineInv, Sent
  <2>. QED BY <1>0, <2>1, <2>4 DEF LineInv
<1>6. ASSUME NEW r \in Requests, Reply(r) PROVE LineInv'
  <2>1. PICK msg \in Messages :
           /\ msg.id = r /\ Line' = Append(Line, msg)
           /\ \/ /\ ~Terminal(msg) /\ msg.part = remote[r].parts + 1
                 /\ remote' = [remote EXCEPT ![r].parts = remote[r].parts + 1]
              \/ /\ Terminal(msg)
                 /\ remote' = [remote EXCEPT ![r].over = TRUE]
    BY <1>6, ReplyLine
  <2>2. Line' = Append(Line, msg) /\ run' = run BY <1>6, <2>1 DEF Reply
  <2>3. ~remote[r].over /\ remote[r].parts \in Nat BY <1>6, RelayAssumption DEF Reply, TypeOK
  <2>4. /\ \A j \in 1..Len(Line) : Line'[j] = Line[j] /\ Line[j] \in Messages
        /\ Line'[Len(Line) + 1] = msg /\ Len(Line') = Len(Line) + 1 /\ Len(Line) \in Nat
    BY <1>0, <2>1, <2>2
  <2>5. \A j \in 1..Len(Line) : Line[j].id = r =>
          ~Terminal(Line[j]) /\ Line[j].part \in 1..remote[r].parts
    BY <1>0, <2>3 DEF LineInv, Sent
  <2>6. Ordered(Line')
    <3>. SUFFICES ASSUME NEW i \in 1..Len(Line'), NEW j \in 1..Len(Line'), i < j, Line'[i].id = Line'[j].id
                  PROVE  ~Terminal(Line'[i]) /\ (Terminal(Line'[j]) \/ Line'[i].part < Line'[j].part)
      BY DEF Ordered
    <3>1. i \in 1..Len(Line) BY <2>4
    <3>2. CASE j \in 1..Len(Line) BY <1>0, <2>4, <3>1, <3>2 DEF LineInv, Ordered
    <3>3. CASE j = Len(Line) + 1
      <4>1. Line'[j] = msg /\ Line'[i] = Line[i] /\ Line[i].id = r BY <2>1, <2>4, <3>1, <3>3
      <4>2. ~Terminal(Line[i]) /\ Line[i].part \in 1..remote[r].parts BY <2>5, <3>1, <4>1
      <4>3. Terminal(msg) \/ msg.part = remote[r].parts + 1 BY <2>1
      <4>. QED BY <2>3, <4>1, <4>2, <4>3
    <3>. QED BY <2>4, <3>2, <3>3
  <2>7. \A q \in Requests : /\ remote'[q].parts \in Nat /\ remote[q].parts \in Nat
                            /\ remote'[q].parts >= remote[q].parts
                            /\ remote[q].over => remote'[q].over
    <3>. SUFFICES ASSUME NEW q \in Requests
                  PROVE  /\ remote'[q].parts \in Nat /\ remote[q].parts \in Nat
                         /\ remote'[q].parts >= remote[q].parts
                         /\ remote[q].over => remote'[q].over
      OBVIOUS
    <3>0. remote \in [Requests -> [parts : 0..MaxParts, over : BOOLEAN]] /\ remote[q].parts \in Nat
      BY RelayAssumption DEF TypeOK
    <3>1. CASE q # r BY <2>1, <3>0, <3>1
    <3>2. CASE q = r
      <4>1. remote'[r].parts \in {remote[r].parts, remote[r].parts + 1} BY <2>1, <3>0
      <4>2. remote[r].over => remote'[r].over BY <2>3
      <4>. QED BY <2>3, <3>2, <4>1, <4>2
    <3>. QED BY <3>1, <3>2
  <2>8. Sent(Line', remote')
    <3>. SUFFICES ASSUME NEW j \in 1..Len(Line')
                  PROVE  IF Terminal(Line'[j]) THEN remote'[Line'[j].id].over
                         ELSE Line'[j].part \in 1..remote'[Line'[j].id].parts
      BY DEF Sent
    <3>1. CASE j \in 1..Len(Line)
      <4>1. Line[j].id \in Requests BY <2>4, <3>1 DEF Messages
      <4>2. IF Terminal(Line[j]) THEN remote[Line[j].id].over
            ELSE Line[j].part \in 1..remote[Line[j].id].parts
        BY <1>0, <3>1 DEF LineInv, Sent
      <4>3. Line'[j] = Line[j] BY <2>4, <3>1
      <4>. QED BY <2>7, <4>1, <4>2, <4>3
    <3>2. CASE j = Len(Line) + 1
      <4>1. Line'[j] = msg BY <2>4, <3>2
      <4>2. Terminal(msg) => remote'[r].over BY <2>1 DEF TypeOK
      <4>3. ~Terminal(msg) => msg.part \in 1..remote'[r].parts BY <2>1, <2>3 DEF TypeOK
      <4>. QED BY <2>1, <4>1, <4>2, <4>3
    <3>. QED BY <2>4, <3>1, <3>2
  <2>. QED BY <1>0, <2>2, <2>6, <2>8 DEF LineInv
<1>. QED
  BY <1>1, <1>2, <1>3, <1>4, <1>5, <1>6
  DEF Next, Request, Receive, Dispatch, Cleanup, vars, Send, Store, LoadBack, Check, Failed,
      Cancel, Watch, Part, Answer, Drained, GiveUp, Visit, Fail, Stop, HeartbeatFails, RangePending, HandleClosed

\* A request stays as whole as it is if a step takes nothing of its answer off the
\* line, ...
LEMMA WholeIfOnLine ==
  ASSUME NEW q \in Requests, Whole(q), caller'[q] = caller[q], chan'[q] = chan[q],
         remote'[q] = remote[q], Finishing(q)' => Finishing(q), Live(q)' => Live(q),
         q \notin lost' /\ ~ctxDone'[q] => q \notin lost /\ ~ctxDone[q],
         On(Line', q) => On(Line, q),
         NEW had, had = Len(caller[q].body) + Len(chan[q].buf),
         chan[q].open /\ caller[q].pc = "wait" /\ Live(q) /\ Complete(q, had, Line, remote[q]) =>
           Complete(q, had, Line', remote[q])
  PROVE  Whole(q)'
<1>1. Unsent(q) => Unsent(q)' BY DEF Unsent
<1>2. Before(q) => Before(q)' BY DEF Before
<1>3. Live(q) /\ caller[q].pc = "wait" /\ Ahead(q) => Ahead(q)' BY DEF Ahead
<1>. QED BY <1>1, <1>2, <1>3 DEF Whole

\* ... and if it leaves the line alone.
LEMMA WholeKept ==
  ASSUME NEW q \in Requests, Whole(q), caller'[q] = caller[q], chan'[q] = chan[q],
         remote'[q] = remote[q], Line' = Line, Finishing(q)' => Finishing(q),
         Live(q)' => Live(q), q \notin lost' /\ ~ctxDone'[q] => q \notin lost /\ ~ctxDone[q]
  PROVE  Whole(q)'
  BY WholeIfOnLine

\* So does one that moves on, or returns without an answer.
LEMMA WholeMoves ==
  ASSUME NEW q \in Requests, Whole(q), chan'[q] = chan[q], remote'[q] = remote[q], Line' = Line,
         UNCHANGED <<run, crashed, lost, ctxDone>>, caller'[q].body = caller[q].body,
         \/ /\ caller[q].pc \notin {"wait", "done"} /\ caller'[q].pc \notin {"wait", "done"}
            /\ caller'[q].result # "ok"
         \/ caller'[q].pc = "done" /\ caller'[q].result # "ok"
  PROVE  Whole(q)'
<1>1. Unsent(q) => Unsent(q)' BY DEF Unsent, Finishing
<1>2. Before(q) => Before(q)' BY DEF Before
<1>3. Live(q)' => Live(q) BY DEF Live
<1>. QED BY <1>1, <1>2, <1>3 DEF Whole

\* A part that the caller takes moves from its channel to its body.
LEMMA PartTaken ==
  ASSUME NEW body \in Seq(0..MaxParts), NEW buf \in Seq(Messages), buf # <<>>,
         ~Terminal(Head(buf)), NEW rem, Counted(body, buf, rem)
  PROVE  /\ Counted(Append(body, Head(buf).part), Tail(buf), rem)
         /\ Ended(Tail(buf)) <=> Ended(buf)
         /\ Len(Append(body, Head(buf).part)) + Len(Tail(buf)) = Len(body) + Len(buf)
<1>. DEFINE more == Append(body, Head(buf).part)
<1>1. /\ Len(buf) \in Nat \ {0} /\ Len(Tail(buf)) = Len(buf) - 1 /\ Head(buf) = buf[1]
      /\ \A k \in 1..Len(Tail(buf)) : Tail(buf)[k] = buf[k + 1] /\ k + 1 \in 1..Len(buf)
  OBVIOUS
<1>2. /\ Len(body) \in Nat /\ Len(more) = Len(body) + 1
      /\ \A i \in 1..Len(body) : more[i] = body[i]
      /\ more[Len(body) + 1] = Head(buf).part
  <2>1. Head(buf) \in Messages OBVIOUS
  <2>2. Head(buf).part \in 0..MaxParts BY <2>1 DEF Messages
  <2>. QED BY <2>2
<1>3. 1 \in 1..Len(buf) /\ buf[1].part = Len(body) + 1 BY <1>1 DEF Counted
<1>4. \A i \in 1..Len(more) : more[i] = i BY <1>1, <1>2, <1>3 DEF Counted
<1>5. \A k \in 1..Len(Tail(buf)) :
        /\ ~Terminal(Tail(buf)[k]) => Tail(buf)[k].part = Len(more) + k
        /\ Tail(buf)[k].type \in {"stream_end", "http_response"} =>
             rem.over /\ rem.parts = Len(more) + k - 1
  <2>. SUFFICES ASSUME NEW k \in 1..Len(Tail(buf))
                PROVE  /\ ~Terminal(Tail(buf)[k]) => Tail(buf)[k].part = Len(more) + k
                       /\ Tail(buf)[k].type \in {"stream_end", "http_response"} =>
                            rem.over /\ rem.parts = Len(more) + k - 1
    OBVIOUS
  <2>1. Tail(buf)[k] = buf[k + 1] /\ k + 1 \in 1..Len(buf) BY <1>1
  <2>2. /\ Len(body) + (k + 1) = Len(more) + k
        /\ Len(body) + (k + 1) - 1 = Len(more) + k - 1 BY <1>2
  <2>. QED BY <2>1, <2>2 DEF Counted
<1>6. \A k \in 1..Len(buf) : k # 1 => k - 1 \in 1..Len(Tail(buf)) /\ Tail(buf)[k - 1] = buf[k]
  <2>. SUFFICES ASSUME NEW k \in 1..Len(buf), k # 1
                PROVE  k - 1 \in 1..Len(Tail(buf)) /\ Tail(buf)[k - 1] = buf[k]
    OBVIOUS
  <2>1. k - 1 \in 1..Len(Tail(buf)) /\ (k - 1) + 1 = k BY <1>1
  <2>. QED BY <1>1, <2>1
<1>7. Ended(Tail(buf)) <=> Ended(buf) BY <1>1, <1>6 DEF Ended
<1>. QED BY <1>1, <1>2, <1>4, <1>5, <1>7 DEF Counted

\* A message put into a channel that has no end yet is counted on if it is an
\* error, the next part, or an end that comes when there is no part left.
LEMMA PartPut ==
  ASSUME NEW body \in Seq(0..MaxParts), NEW buf \in Seq(Messages), NEW msg \in Messages, NEW rem,
         Counted(body, buf, rem),
         ~Terminal(msg) => msg.part = Len(body) + Len(buf) + 1,
         msg.type \in {"stream_end", "http_response"} => rem.over /\ rem.parts = Len(body) + Len(buf)
  PROVE  /\ Counted(body, Append(buf, msg), rem)
         /\ Ended(Append(buf, msg)) <=> Ended(buf) \/ Terminal(msg)
         /\ Len(body) + Len(Append(buf, msg)) = Len(body) + Len(buf) + 1
<1>. DEFINE more == Append(buf, msg)
<1>1. /\ Len(body) \in Nat /\ Len(buf) \in Nat /\ Len(more) = Len(buf) + 1
      /\ \A k \in 1..Len(buf) : more[k] = buf[k]
      /\ more[Len(buf) + 1] = msg
      /\ \A k \in 1..Len(more) : k \in 1..Len(buf) \/ k = Len(buf) + 1
      /\ \A k \in 1..Len(buf) : k \in 1..Len(more)
      /\ Len(buf) + 1 \in 1..Len(more)
  OBVIOUS
<1>2. \A k \in 1..Len(more) :
        /\ ~Terminal(more[k]) => more[k].part = Len(body) + k
        /\ more[k].type \in {"stream_end", "http_response"} => rem.over /\ rem.parts = Len(body) + k - 1
  <2>. SUFFICES ASSUME NEW k \in 1..Len(more)
                PROVE  /\ ~Terminal(more[k]) => more[k].part = Len(body) + k
                       /\ more[k].type \in {"stream_end", "http_response"} =>
                            rem.over /\ rem.parts = Len(body) + k - 1
    OBVIOUS
  <2>1. CASE k \in 1..Len(buf)
    <3>1. more[k] = buf[k] BY <1>1, <2>1
    <3>. QED BY <2>1, <3>1 DEF Counted
  <2>2. CASE k = Len(buf) + 1
    <3>1. more[k] = msg /\ Len(body) + k = Len(body) + Len(buf) + 1
          /\ Len(body) + k - 1 = Len(body) + Len(buf)
      BY <1>1, <2>2
    <3>. QED BY <3>1
  <2>. QED BY <1>1, <2>1, <2>2
<1>3. Ended(more) <=> Ended(buf) \/ Terminal(msg)
  <2>1. Ended(buf) \/ Terminal(msg) => Ended(more) BY <1>1 DEF Ended
  <2>2. Ended(more) => Ended(buf) \/ Terminal(msg) BY <1>1 DEF Ended
  <2>. QED BY <2>1, <2>2
<1>. QED BY <1>1, <1>2, <1>3 DEF Counted

\* What a new message of another answer leaves as it is.
LEMMA OtherSent ==
  ASSUME NEW l \in Seq(Messages), NEW msg \in Messages, NEW r, msg.id # r, NEW had, NEW rem
  PROVE  /\ Complete(r, had, l, rem) => Complete(r, had, Append(l, msg), rem)
         /\ On(Append(l, msg), r) => On(l, r)
<1>1. /\ Len(l) \in Nat /\ Len(Append(l, msg)) = Len(l) + 1
      /\ \A j \in 1..Len(l) : Append(l, msg)[j] = l[j] /\ j \in 1..Len(Append(l, msg))
      /\ \A j \in 1..Len(Append(l, msg)) : j \in 1..Len(l) \/ Append(l, msg)[j] = msg
  OBVIOUS
<1>2. \A j \in 1..Len(Append(l, msg)) : Append(l, msg)[j].id = r => j \in 1..Len(l)
  BY <1>1
<1>. QED BY <1>1, <1>2 DEF Complete, On

LEMMA WholeStep == RelayInv /\ WholeInv /\ [Next]_vars => \A q \in Requests : Whole(q)'
<1>. SUFFICES ASSUME RelayInv, WholeInv, [Next]_vars, NEW q \in Requests PROVE Whole(q)'
  OBVIOUS
<1>. USE DEF sessionVars, remoteVars, otherVars
<1>0. /\ TypeOK /\ LineInv /\ Whole(q) /\ Reachable(q) /\ Line \in Seq(Messages)
      /\ caller \in [Requests -> Callers]
      /\ chan \in [Requests -> [buf : Seq(Messages), open : BOOLEAN]]
      /\ remote \in [Requests -> [parts : 0..MaxParts, over : BOOLEAN]]
  BY LineType DEF RelayInv, WholeInv, TypeOK
<1>a. /\ caller[q].body \in Seq(0..MaxParts) /\ chan[q].buf \in Seq(Messages)
      /\ remote[q].parts \in Nat /\ Len(chan[q].buf) <= Buffer
      /\ Len(caller[q].body) \in Nat /\ Len(chan[q].buf) \in Nat
      /\ Len(caller[q].body) + Len(chan[q].buf) \in Nat
  <2>1. caller[q].body \in Seq(0..MaxParts) /\ chan[q].buf \in Seq(Messages) BY <1>0 DEF Callers
  <2>2. remote[q].parts \in Nat BY <1>0, RelayAssumption
  <2>3. Len(chan[q].buf) <= Buffer BY <1>0 DEF TypeOK
  <2>4. Len(caller[q].body) \in Nat /\ Len(chan[q].buf) \in Nat BY <2>1
  <2>5. Len(caller[q].body) + Len(chan[q].buf) \in Nat
    <3>1. \A a, b \in Nat : a + b \in Nat OBVIOUS
    <3>. QED BY <2>4, <3>1, Zenon
  <2>. QED BY <2>1, <2>2, <2>3, <2>4, <2>5
<1>1. ASSUME NEW r \in Requests, NEW mode \in Modes, Send(r, mode) PROVE Whole(q)'
  <2>1. UNCHANGED <<chan, remote, run, crashed, lost, ctxDone>> /\ Line' = Line
    BY <1>1, SameLine DEF Send
  <2>2. CASE q # r
    <3>1. caller'[q] = caller[q] BY <1>0, <1>1, <2>2 DEF Send
    <3>. QED BY <1>0, <2>1, <3>1, WholeKept DEF Finishing, Live
  <2>3. CASE q = r
    <3>1. /\ caller[q].pc = "idle" /\ caller'[q].pc \in {"found", "done"}
          /\ caller'[q].result # "ok" /\ caller'[q].body = caller[q].body
      BY <1>0, <1>1, <2>3 DEF Send, At, Callers
    <3>. QED BY <1>0, <2>1, <3>1, WholeMoves
  <2>. QED BY <2>2, <2>3
<1>2. ASSUME NEW r \in Requests, Store(r) \/ LoadBack(r) \/ Check(r) PROVE Whole(q)'
  <2>1. UNCHANGED <<chan, remote, run, crashed, lost, ctxDone>> /\ Line' = Line
    BY <1>2, SameLine DEF Store, LoadBack, Check
  <2>2. CASE q # r
    <3>1. caller'[q] = caller[q]
      BY <1>0, <1>2, <2>2 DEF Store, LoadBack, Check, Goto, End
    <3>. QED BY <1>0, <2>1, <3>1, WholeKept DEF Finishing, Live
  <2>3. CASE q = r
    <3>1. caller[q].pc \in {"found", "stored", "loaded"} /\ caller[q].result # "ok"
      BY <1>0, <1>2, <2>3 DEF Store, LoadBack, Check, At, Whole
    <3>2. PICK place \in {"stored", "loaded", "failed", "write"} :
            Goto(r, place) \/ End(r, "panic")
      BY <1>2 DEF Store, LoadBack, Check
    <3>3. /\ caller'[q].pc \in {"stored", "loaded", "failed", "write", "done"}
          /\ caller'[q].result # "ok" /\ caller'[q].body = caller[q].body
      BY <1>0, <2>3, <3>1, <3>2 DEF Goto, End, Callers
    <3>. QED BY <1>0, <2>1, <3>1, <3>3, WholeMoves
  <2>. QED BY <2>2, <2>3
<1>3. ASSUME NEW r \in Requests, Write(r) PROVE Whole(q)'
  <2>1. UNCHANGED <<chan, run, crashed, lost, ctxDone>> /\ Line' = Line
    BY <1>3, SameLine DEF Write
  <2>2. CASE q # r
    <3>1. caller'[q] = caller[q] /\ remote'[q] = remote[q]
      BY <1>0, <1>3, <2>2 DEF Write, Goto
    <3>. QED BY <1>0, <2>1, <3>1, WholeKept DEF Finishing, Live
  <2>3. CASE q = r
    <3>1. /\ caller[q].pc = "write" /\ caller[q].result # "ok" /\ Unsent(q)
          /\ Live(q) => Before(q)
      BY <1>0, <1>3, <2>3 DEF Write, At, Whole
    <3>2. CASE Goto(r, "failed") /\ remote' = remote
      <4>1. /\ caller'[q].pc = "failed"
            /\ caller'[q].result # "ok" /\ caller'[q].body = caller[q].body
        BY <1>0, <2>3, <3>1, <3>2 DEF Goto, Callers
      <4>. QED BY <1>0, <2>1, <3>1, <3>2, <4>1, WholeMoves
    <3>3. CASE Goto(r, "wait") /\ remote'[r].parts = remote[r].parts
      <4>1. /\ caller'[q].pc = "wait" /\ caller'[q].body = <<>>
            /\ caller'[q].result # "ok"
        BY <1>0, <2>3, <3>1, <3>3 DEF Goto, Callers, Unsent
      <4>2. remote'[q].parts = 0 /\ ~On(Line', q) /\ ~Finishing(q)' /\ (Live(q)' => Before(q))
        BY <2>1, <2>3, <3>1, <3>3 DEF Unsent, Finishing, Live
      <4>3. ASSUME Before(q) PROVE Ahead(q)'
        <5>1. Counted(<<>>, chan[q].buf, remote'[q])
          BY <4>3 DEF Before, Counted, Terminal
        <5>2. chan[q].open => ~Ended(chan[q].buf) /\ Len(chan[q].buf) = 0 BY <4>3 DEF Before, Ended
        <5>3. Complete(q, 0, Line', remote'[q]) BY <4>2 DEF Complete, On
        <5>4. ~chan[q].open => Ended(chan[q].buf) BY <4>3 DEF Before
        <5>5. Len(<<>>) + 0 = 0 OBVIOUS
        <5>. QED BY <2>1, <4>1, <4>2, <5>1, <5>2, <5>3, <5>4, <5>5 DEF Ahead
      <4>. QED BY <4>1, <4>2, <4>3 DEF Whole
    <3>. QED BY <1>0, <1>3, <3>2, <3>3 DEF Write
  <2>. QED BY <2>2, <2>3
<1>4. ASSUME NEW r \in Requests, Failed(r) PROVE Whole(q)'
  <2>1. UNCHANGED <<remote, run, crashed, lost, ctxDone>> /\ Line' = Line
    BY <1>4, SameLine DEF Failed
  <2>2. CASE q # r
    <3>1. caller'[q] = caller[q] /\ chan'[q] = chan[q]
      BY <1>0, <1>4, <2>2 DEF Failed, End, TakeOut, Closing
    <3>. QED BY <1>0, <2>1, <3>1, WholeKept DEF Finishing, Live
  <2>3. CASE q = r
    <3>1. caller'[q].pc = "done" /\ caller'[q].result = "error"
      BY <1>0, <1>4, <2>3 DEF Failed, End, Callers
    <3>. QED BY <3>1 DEF Whole
  <2>. QED BY <2>2, <2>3
<1>5. ASSUME NEW r \in Requests, Cancel(r) PROVE Whole(q)'
  <2>1. UNCHANGED <<caller, chan, remote, run, crashed, lost>> /\ Line' = Line
    BY <1>5, SameLine DEF Cancel
  <2>2. ctxDone[q] => ctxDone'[q] BY <1>5 DEF Cancel, TypeOK
  <2>3. (Live(q)' => Live(q)) /\ (q \notin lost' /\ ~ctxDone'[q] => q \notin lost /\ ~ctxDone[q])
    BY <2>1, <2>2 DEF Live
  <2>. QED BY <1>0, <2>1, <2>3, WholeKept DEF Finishing
<1>6. ASSUME NEW r \in Requests, Watch(r) PROVE Whole(q)'
  <2>1. UNCHANGED <<caller, remote, run, crashed, lost, ctxDone>> /\ Line' = Line
    BY <1>6, SameLine DEF Watch
  <2>2. CASE chan'[q] = chan[q]
    BY <1>0, <2>1, <2>2, WholeKept DEF Finishing, Live
  <2>3. CASE ctxDone[q]
    <3>1. ~Live(q)' /\ ctxDone'[q] /\ (Unsent(q) => Unsent(q)')
      BY <2>1, <2>3 DEF Live, Unsent, Finishing
    <3>. QED BY <1>0, <2>1, <3>1 DEF Whole
  <2>4. chan'[q] = chan[q] \/ ctxDone[q]
    BY <1>0, <1>6 DEF Watch, TakeOut, Closing
  <2>. QED BY <2>2, <2>3, <2>4
<1>7. ASSUME NEW r \in Requests, Part(r) PROVE Whole(q)'
  <2>1. UNCHANGED <<remote, run, crashed, lost, ctxDone>> /\ Line' = Line
    BY <1>7, SameLine DEF Part
  <2>2. CASE q # r
    <3>1. caller'[q] = caller[q] /\ chan'[q] = chan[q] BY <1>0, <1>7, <2>2 DEF Part
    <3>. QED BY <1>0, <2>1, <3>1, WholeKept DEF Finishing, Live
  <2>3. CASE q = r
    <3>1. chan[q].buf # <<>> /\ ~Terminal(Head(chan[q].buf)) /\ caller[q].pc = "wait"
      BY <1>7, <2>3 DEF Part, Received, At
    <3>2. /\ caller'[q].pc = "wait" /\ caller'[q].result = caller[q].result
          /\ caller'[q].body = Append(caller[q].body, Head(chan[q].buf).part)
      BY <1>0, <1>7, <2>3, <3>1 DEF Part, Received, Callers
    <3>3. chan'[q].buf = Tail(chan[q].buf) /\ chan'[q].open = chan[q].open
      BY <1>0, <1>7, <2>3 DEF Part
    <3>4. ASSUME Ahead(q) PROVE Ahead(q)'
      <4>1. Counted(caller[q].body, chan[q].buf, remote[q]) BY <3>4 DEF Ahead
      <4>2. /\ Counted(caller'[q].body, chan'[q].buf, remote[q])
            /\ Ended(chan'[q].buf) <=> Ended(chan[q].buf)
            /\ Len(caller'[q].body) + Len(chan'[q].buf) = Len(caller[q].body) + Len(chan[q].buf)
        BY <1>a, <3>1, <3>2, <3>3, <4>1, PartTaken
      <4>. QED BY <2>1, <3>3, <3>4, <4>2 DEF Ahead, Finishing
    <3>. QED BY <1>0, <2>1, <3>1, <3>2, <3>4 DEF Whole, Live
  <2>. QED BY <2>2, <2>3
<1>8. ASSUME NEW r \in Requests, Answer(r) PROVE Whole(q)'
  <2>1. UNCHANGED <<remote, run, crashed, lost, ctxDone>> /\ Line' = Line
    BY <1>8, SameLine DEF Answer
  <2>2. CASE q # r
    <3>1. caller'[q] = caller[q] /\ chan'[q] = chan[q] BY <1>0, <1>8, <2>2 DEF Answer, End
    <3>. QED BY <1>0, <2>1, <3>1, WholeKept DEF Finishing, Live
  <2>3. CASE q = r
    <3>1. chan[q].buf # <<>> /\ Terminal(Head(chan[q].buf)) /\ caller[q].pc = "wait" /\ ~crashed
      BY <1>8, <2>3 DEF Answer, Received, At
    <3>2. /\ caller'[q].pc = "done" /\ caller'[q].body = caller[q].body
          /\ caller'[q].result = IF Head(chan[q].buf).type = "error" THEN "error" ELSE "ok"
      BY <1>0, <1>8, <2>3 DEF Answer, End, Received, Callers
    <3>3. ASSUME caller'[q].result = "ok", q \notin lost', ~ctxDone'[q]
          PROVE  remote'[q].over /\ caller'[q].body = [i \in 1..remote'[q].parts |-> i]
      <4>1. Ahead(q) BY <1>0, <2>1, <3>1, <3>3 DEF Whole, Live
      <4>2. Head(chan[q].buf).type \in {"stream_end", "http_response"}
        BY <3>1, <3>2, <3>3 DEF Terminal
      <4>3. Head(chan[q].buf) = chan[q].buf[1] /\ 1 \in 1..Len(chan[q].buf) BY <1>a, <3>1
      <4>4. /\ remote[q].over /\ remote[q].parts = Len(caller[q].body)
            /\ \A i \in 1..Len(caller[q].body) : caller[q].body[i] = i
        BY <1>a, <4>1, <4>2, <4>3 DEF Ahead, Counted
      <4>5. caller[q].body = [i \in 1..remote[q].parts |-> i] BY <1>a, <4>4
      <4>. QED BY <2>1, <3>2, <4>4, <4>5
    <3>. QED BY <3>2, <3>3 DEF Whole
  <2>. QED BY <2>2, <2>3
<1>9. ASSUME NEW r \in Requests, Drained(r) \/ GiveUp(r) PROVE Whole(q)'
  <2>1. UNCHANGED <<chan, remote, run, crashed, lost, ctxDone>> /\ Line' = Line
    BY <1>9, SameLine DEF Drained, GiveUp
  <2>2. CASE q # r
    <3>1. caller'[q] = caller[q] BY <1>0, <1>9, <2>2 DEF Drained, GiveUp, End
    <3>. QED BY <1>0, <2>1, <3>1, WholeKept DEF Finishing, Live
  <2>3. CASE q = r
    <3>1. caller'[q].pc = "done" BY <1>0, <1>9, <2>3 DEF Drained, GiveUp, End, Callers
    <3>2. CASE GiveUp(r)
      <4>1. caller'[q].result = "cancelled" BY <1>0, <2>3, <3>2 DEF GiveUp, End, Callers
      <4>. QED BY <3>1, <4>1 DEF Whole
    <3>3. CASE Drained(r)
      <4>1. ~crashed /\ caller[q].pc = "wait" /\ chan[q].buf = <<>> /\ ~chan[q].open
        BY <2>3, <3>3 DEF Drained, At
      <4>2. ~Ended(chan[q].buf) BY <4>1 DEF Ended
      <4>3. ~Live(q) BY <1>0, <4>1, <4>2 DEF Whole, Ahead
      <4>4. q \in lost' \/ ctxDone'[q] BY <2>1, <4>1, <4>3 DEF Live
      <4>. QED BY <3>1, <4>4 DEF Whole, Live
    <3>. QED BY <1>9, <3>2, <3>3
  <2>. QED BY <2>2, <2>3
<1>10. CASE Read
  <2>1. UNCHANGED <<caller, chan, remote, crashed, lost, ctxDone>> /\ run.pc = "read" /\ run'.pc # "finish"
    BY <1>10 DEF Read
  <2>2. CASE Line' = Line
    BY <1>0, <2>1, <2>2, WholeKept DEF Finishing, Live
  <2>3. CASE Head(wire).id \notin pending /\ Line # <<>> /\ Line = wire /\ Line' = Tail(Line)
    <3>1. On(Line', q) => On(Line, q) BY <1>0, <2>3, LineShrinks DEF LineInv
    <3>2. ASSUME NEW had, chan[q].open, caller[q].pc = "wait", Complete(q, had, Line, remote[q])
          PROVE  Complete(q, had, Line', remote[q])
      <4>1. q \in pending BY <1>0, <3>2 DEF Reachable, Findable
      <4>2. Head(Line).id # q BY <2>3, <4>1
      <4>. QED BY <1>0, <2>3, <3>2, <4>2, OtherInLine
    <3>3. ~Finishing(q)' BY <2>1 DEF Finishing
    <3>4. Live(q)' => Live(q) BY <2>1 DEF Live
    <3>. QED BY <1>0, <2>1, <3>1, <3>2, <3>3, <3>4, WholeIfOnLine
  <2>. QED BY <1>0, <1>10, <2>2, <2>3, ReadLine
<1>11. CASE Deliver
  <2>. DEFINE m == Head(run.hand)
              p == Head(run.hand).id
  <2>1. /\ UNCHANGED <<caller, remote, ctxDone>> /\ run.pc = "deliver" /\ ~crashed
        /\ Put(chan, p, m) /\ run' = IF Terminal(m) THEN [run EXCEPT !.pc = "finish"]
                                     ELSE [pc |-> "read", hand |-> <<>>]
    BY <1>11 DEF Deliver
  <2>2. /\ Line # <<>> /\ Head(Line) = m /\ Line' = Tail(Line)
        /\ On(Line', q) => On(Line, q)
    BY <1>0, <1>11, DeliverLine, LineShrinks DEF LineInv
  <2>3. m \in Messages /\ p \in Requests
    <3>1. m \in Messages BY <1>0, <2>2
    <3>. QED BY <3>1 DEF Messages
  <2>4. Finishing(q)' => p = q /\ Terminal(m)
    BY <1>0, <2>1 DEF Finishing, TypeOK
  <2>5. lost \subseteq lost' BY <2>1 DEF Put
  <2>6. CASE q # p
    <3>1. chan'[q] = chan[q] BY <1>0, <2>1, <2>3, <2>6 DEF Put
    <3>2. Live(q)' => Live(q) BY <2>1, <2>5 DEF Live
    <3>3. \A had : Complete(q, had, Line, remote[q]) => Complete(q, had, Line', remote[q])
      BY <1>0, <2>2, <2>6, OtherInLine
    <3>4. ~Finishing(q)' BY <2>4, <2>6
    <3>. QED BY <1>0, <2>1, <2>2, <2>5, <3>1, <3>2, <3>3, <3>4, WholeIfOnLine
  <2>7. CASE q = p
    <3>1. On(Line, q)
      <4>1. 1 \in 1..Len(Line) /\ Line[1] = Head(Line) BY <1>0, <2>2
      <4>. QED BY <2>2, <2>7, <4>1 DEF On
    <3>2. caller[q].pc \in {"wait", "done"} BY <1>0, <3>1 DEF Whole, Unsent
    <3>3. ASSUME caller[q].pc = "wait", Live(q)' PROVE Ahead(q)'
      <4>1. Live(q) /\ chan[q].open /\ q \notin lost'
        BY <2>1, <2>5, <2>7, <3>3 DEF Live, Put
      <4>2. /\ chan' = [chan EXCEPT ![q].buf = Append(@, m)]
        BY <2>1, <2>7, <4>1 DEF Put
      <4>3. chan'[q].buf = Append(chan[q].buf, m) /\ chan'[q].open BY <1>0, <4>1, <4>2
      <4>4. Ahead(q) BY <1>0, <3>3, <4>1 DEF Whole
      <4>5. ~Ended(chan[q].buf) BY <3>1, <4>1, <4>4 DEF Ahead
      <4>6. Complete(q, Len(caller[q].body) + Len(chan[q].buf), Line, remote[q])
        BY <4>1, <4>4, <4>5 DEF Ahead
      <4>7. /\ ~Terminal(m) => m.part = Len(caller[q].body) + Len(chan[q].buf) + 1
            /\ Terminal(m) => remote[q].over /\ remote[q].parts = Len(caller[q].body) + Len(chan[q].buf)
            /\ ~Terminal(m) =>
                 Complete(q, Len(caller[q].body) + Len(chan[q].buf) + 1, Line', remote[q])
            /\ Terminal(m) => ~On(Line', q)
        <5>. DEFINE had == Len(caller[q].body) + Len(chan[q].buf)
        <5>1. had \in Nat /\ remote[q].parts \in Nat BY <1>a
        <5>2. Ordered(Line) /\ Sent(Line, remote) BY <1>0 DEF LineInv
        <5>3. Line \in Seq(Messages) /\ Line # <<>> /\ Head(Line) = m /\ Head(Line).id = q
              /\ Line' = Tail(Line) /\ Complete(q, had, Line, remote[q])
          BY <1>0, <2>2, <2>7, <4>6
        <5>. HIDE DEF had, m
        <5>4. /\ ~Terminal(Head(Line)) =>
                   Head(Line).part = had + 1 /\ Complete(q, had + 1, Tail(Line), remote[q])
              /\ Terminal(Head(Line)) => remote[q].over /\ remote[q].parts = had /\ ~On(Tail(Line), q)
          BY <5>1, <5>2, <5>3, NextInLine
        <5>. QED BY <5>3, <5>4 DEF had
      <4>8. /\ Counted(caller[q].body, Append(chan[q].buf, m), remote[q])
            /\ Ended(Append(chan[q].buf, m)) <=> Terminal(m)
            /\ Len(caller[q].body) + Len(Append(chan[q].buf, m)) = Len(caller[q].body) + Len(chan[q].buf) + 1
        <5>1. m.type \in {"stream_end", "http_response"} => Terminal(m) BY DEF Terminal
        <5>2. Counted(caller[q].body, chan[q].buf, remote[q]) BY <4>4 DEF Ahead
        <5>. QED BY <1>a, <2>3, <4>5, <4>7, <5>1, <5>2, PartPut
      <4>. QED BY <2>1, <2>4, <4>3, <4>7, <4>8 DEF Ahead
    <3>4. CASE caller[q].pc = "wait" BY <1>0, <2>1, <3>3, <3>4 DEF Whole
    <3>5. CASE caller[q].pc = "done"
      <4>1. q \notin lost' => q \notin lost BY <2>5
      <4>. QED BY <1>0, <2>1, <3>5, <4>1 DEF Whole
    <3>. QED BY <3>2, <3>4, <3>5
  <2>. QED BY <2>6, <2>7
<1>12. CASE Finish
  <2>. DEFINE p == Head(run.hand).id
  <2>1. /\ UNCHANGED <<caller, remote, crashed, lost, ctxDone>> /\ run.pc = "finish" /\ run'.pc = "read"
        /\ TakeOut(p) /\ wire' = wire /\ ~crashed
    BY <1>12 DEF Finish
  <2>2. Line' = Line BY <2>1, SameLine
  <2>3. ~Finishing(q)' BY <2>1 DEF Finishing
  <2>4. CASE chan'[q] = chan[q]
    BY <1>0, <2>1, <2>2, <2>3, <2>4, WholeKept DEF Live
  <2>5. CASE q = p /\ chan'[q].buf = chan[q].buf /\ ~chan'[q].open
    <3>1. Finishing(q) BY <2>1, <2>5 DEF Finishing
    <3>2. caller[q].pc \in {"wait", "done"} BY <1>0, <3>1 DEF Whole, Unsent
    <3>3. Ahead(q) => Ahead(q)' BY <2>1, <2>5, <3>1 DEF Ahead
    <3>. QED BY <1>0, <2>1, <3>2, <3>3 DEF Whole, Live
  <2>. QED BY <1>0, <2>1, <2>4, <2>5 DEF TakeOut, Closing
<1>13. CASE ReadFails \/ HeartbeatFails \/ Stop \/ RangePending \/ HandleClosed \/ \E r \in Requests : Visit(r)
  <2>1. UNCHANGED <<caller, chan, remote, crashed, lost, ctxDone, wire>>
        /\ (run' = run \/ (run.pc = "read" /\ run'.pc = "ended"))
    <3>1. CASE ReadFails BY <1>0, <3>1 DEF ReadFails, TypeOK
    <3>2. CASE HeartbeatFails \/ Stop BY <3>2 DEF HeartbeatFails, Stop
    <3>3. CASE RangePending \/ HandleClosed BY <3>3 DEF RangePending, HandleClosed
    <3>4. CASE \E r \in Requests : Visit(r) BY <3>4 DEF Visit
    <3>. QED BY <1>13, <3>1, <3>2, <3>3, <3>4
  <2>2. Line' = Line BY <2>1, SameLine
  <2>3. Finishing(q)' => Finishing(q) BY <2>1 DEF Finishing
  <2>. QED BY <1>0, <2>1, <2>2, <2>3, WholeKept DEF Live
<1>14. ASSUME NEW r \in Requests, Fail(r) PROVE Whole(q)'
  <2>1. /\ UNCHANGED <<caller, remote, run, ctxDone>> /\ ~crashed /\ Line' = Line
        /\ Put([chan EXCEPT ![r].open = FALSE], r, Msg(r, "error", 0))
    BY <1>14, SameLine DEF Fail
  <2>2. lost \subseteq lost' /\ (Live(q)' => Live(q)) BY <2>1 DEF Put, Live
  <2>3. CASE q # r
    <3>1. chan'[q] = chan[q] BY <1>0, <2>1, <2>3 DEF Put
    <3>. QED BY <1>0, <2>1, <2>2, <3>1, WholeKept DEF Finishing
  <2>4. CASE q = r
    <3>. DEFINE m == Msg(r, "error", 0)
    <3>1. m \in Messages /\ m.type = "error" /\ Terminal(m)
      <4>1. m \in Messages BY MsgType, RelayAssumption
      <4>2. m.type = "error" BY DEF Msg
      <4>. QED BY <4>1, <4>2 DEF Terminal
    <3>2. ASSUME Live(q)'
          PROVE  /\ chan[q].open /\ Live(q)
                 /\ chan'[q].buf = Append(chan[q].buf, m) /\ ~chan'[q].open
      <4>1. chan[q].open /\ q \notin lost' BY <2>1, <2>4, <3>2 DEF Live, Put
      <4>2. chan' = [[chan EXCEPT ![q].open = FALSE] EXCEPT ![q].buf = Append(@, m)]
        BY <2>1, <2>4, <4>1 DEF Put
      <4>. QED BY <1>0, <2>2, <3>2, <4>1, <4>2
    <3>3. ASSUME Live(q)', Before(q) PROVE Before(q)'
      <4>1. chan[q].buf = <<>> /\ chan'[q].buf = <<m>> /\ ~chan'[q].open
        BY <3>2, <3>3 DEF Before
      <4>. QED BY <3>1, <4>1 DEF Before, Ended
    <3>4. ASSUME Live(q)', Ahead(q) PROVE Ahead(q)'
      <4>1. /\ Counted(caller[q].body, Append(chan[q].buf, m), remote[q])
            /\ Ended(Append(chan[q].buf, m))
        <5>1. Counted(caller[q].body, chan[q].buf, remote[q]) BY <3>4 DEF Ahead
        <5>. QED BY <1>a, <3>1, <5>1, PartPut
      <4>. QED BY <2>1, <3>2, <3>4, <4>1 DEF Ahead
    <3>5. Unsent(q) => Unsent(q)' BY <2>1 DEF Unsent, Finishing
    <3>. QED BY <1>0, <2>1, <2>2, <3>3, <3>4, <3>5 DEF Whole
  <2>. QED BY <2>3, <2>4
<1>15. ASSUME NEW r \in Requests, Reply(r) PROVE Whole(q)'
  <2>1. UNCHANGED <<caller, chan, run, crashed, lost, ctxDone>> BY <1>15 DEF Reply
  <2>2. PICK m \in Messages :
           /\ m.id = r /\ Line' = Append(Line, m) /\ ~remote[r].over
           /\ \/ /\ ~Terminal(m) /\ m.part = remote[r].parts + 1
                 /\ remote' = [remote EXCEPT ![r].parts = remote[r].parts + 1]
              \/ /\ Terminal(m)
                 /\ remote' = [remote EXCEPT ![r].over = TRUE]
    BY <1>0, <1>15, ReplyLine
  <2>3. CASE q # r
    <3>1. remote'[q] = remote[q] BY <1>0, <2>2, <2>3
    <3>2. /\ On(Line', q) => On(Line, q)
          /\ \A had : Complete(q, had, Line, remote[q]) => Complete(q, had, Line', remote[q])
      BY <1>0, <2>2, <2>3, OtherSent
    <3>. QED BY <1>0, <2>1, <3>1, <3>2, WholeIfOnLine DEF Finishing, Live
  <2>4. CASE q = r
    <3>1. caller[q].pc \in {"wait", "done"} BY <1>0, <2>2, <2>4 DEF Whole, Unsent
    <3>2. CASE caller[q].pc = "done" BY <1>0, <2>1, <2>2, <2>4, <3>2 DEF Whole
    <3>3. ASSUME Ahead(q) PROVE Ahead(q)'
      <4>1. \A k \in 1..Len(chan[q].buf) : chan[q].buf[k].type \notin {"stream_end", "http_response"}
        BY <2>2, <2>4, <3>3 DEF Ahead, Counted
      <4>2. Counted(caller[q].body, chan[q].buf, remote'[q]) BY <3>3, <4>1 DEF Ahead, Counted
      <4>3. ~(chan[q].open /\ Ended(chan[q].buf)) BY <2>2, <2>4, <3>3 DEF Ahead
      <4>4. ASSUME NEW had \in Nat, Complete(q, had, Line, remote[q])
            PROVE  Complete(q, had, Line', remote'[q])
        <5>1. /\ Len(Line) \in Nat /\ Len(Line') = Len(Line) + 1 /\ Len(Line) + 1 \in 1..Len(Line')
              /\ \A j \in 1..Len(Line) : Line'[j] = Line[j] /\ j \in 1..Len(Line')
              /\ Line'[Len(Line) + 1] = m
              /\ \A j \in 1..Len(Line') : j \in 1..Len(Line) \/ j = Len(Line) + 1
          BY <1>0, <2>2
        <5>2. CASE ~Terminal(m) /\ m.part = remote[q].parts + 1 /\ remote'[q].parts = remote[q].parts + 1
          <6>1. had <= remote'[q].parts BY <1>a, <4>4, <5>2 DEF Complete
          <6>2. ASSUME NEW x \in (had + 1)..remote'[q].parts
                PROVE  \E j \in 1..Len(Line') : Line'[j].id = q /\ ~Terminal(Line'[j]) /\ Line'[j].part = x
            <7>1. CASE x = remote[q].parts + 1 BY <2>2, <2>4, <5>1, <5>2, <7>1
            <7>2. CASE x # remote[q].parts + 1
              <8>1. x \in (had + 1)..(remote[q].parts + 1) /\ remote[q].parts \in Nat BY <1>a, <5>2
              <8>2. x \in (had + 1)..remote[q].parts BY <7>2, <8>1
              <8>. QED BY <4>4, <5>1, <8>2 DEF Complete
            <7>. QED BY <7>1, <7>2
          <6>3. ASSUME NEW j \in 1..Len(Line'), Line'[j].id = q, ~Terminal(Line'[j])
                PROVE  Line'[j].part > had
            <7>1. CASE j \in 1..Len(Line) BY <4>4, <5>1, <6>3, <7>1 DEF Complete
            <7>2. CASE j = Len(Line) + 1
              <8>1. had <= remote[q].parts /\ Line'[j].part = remote[q].parts + 1
                BY <4>4, <5>1, <5>2, <7>2 DEF Complete
              <8>. QED BY <1>a, <8>1
            <7>. QED BY <5>1, <7>1, <7>2
          <6>. QED BY <6>1, <6>2, <6>3 DEF Complete
        <5>3. CASE Terminal(m) /\ remote'[q].parts = remote[q].parts
          BY <4>4, <5>1, <5>3 DEF Complete
        <5>. QED BY <1>0, <2>2, <2>4, <5>2, <5>3
      <4>5. chan[q].open =>
              Complete(q, Len(caller[q].body) + Len(chan[q].buf), Line', remote'[q])
        BY <1>a, <3>3, <4>3, <4>4 DEF Ahead
      <4>. QED BY <2>1, <3>3, <4>2, <4>3, <4>5 DEF Ahead, Finishing
    <3>4. CASE caller[q].pc = "wait" BY <1>0, <2>1, <3>3, <3>4 DEF Whole, Live
    <3>. QED BY <3>1, <3>2, <3>4
  <2>. QED BY <2>3, <2>4
<1>16. CASE UNCHANGED vars
  BY <1>0, <1>16, SameLine, WholeKept DEF vars, Finishing, Live
<1>. QED
  BY <1>1, <1>2, <1>3, <1>4, <1>5, <1>6, <1>7, <1>8, <1>9, <1>10, <1>11, <1>12, <1>13, <1>14,
     <1>15, <1>16
  DEF Next, Request, Receive, Dispatch, Cleanup

LEMMA WholeInit == Init => WholeInv
<1>. SUFFICES ASSUME Init PROVE WholeInv OBVIOUS
<1>1. Line = <<>> BY DEF Init, Line
<1>2. LineInv BY <1>1 DEF LineInv, Ordered, Sent, Init
<1>3. ASSUME NEW r \in Requests PROVE Whole(r)
  BY <1>1 DEF Init, Whole, Unsent, Before, On, Finishing
<1>. QED BY <1>2, <1>3 DEF WholeInv

\* An answer that is returned as complete is complete: every part the client sent,
\* in order, unless its channel was ever found full or its context ended; whenever
\* the session closes (dispatch and cleanup in internal/wsrelay/session.go, NonStream
\* and Stream in internal/wsrelay/http.go).
THEOREM AnswersWhole == Spec => []WholeUnlessLost
<1>1. Init => RelayInv /\ WholeInv
  BY RelayInit, WholeInit
<1>2. RelayInv /\ WholeInv /\ [Next]_vars => (RelayInv /\ WholeInv)'
  <2>. SUFFICES ASSUME RelayInv, WholeInv, [Next]_vars PROVE (RelayInv /\ WholeInv)' OBVIOUS
  <2>1. RelayInv' BY InvStep
  <2>2. LineInv' BY LineStep DEF RelayInv
  <2>3. (\A r \in Requests : Whole(r))' BY WholeStep
  <2>. QED BY <2>1, <2>2, <2>3 DEF WholeInv
<1>3. RelayInv /\ WholeInv => WholeUnlessLost
  BY DEF WholeInv, Whole, WholeUnlessLost
<1>. QED BY <1>1, <1>2, <1>3, PTL DEF Spec

------------------------------------------------------------------------------
(* UsageQueue *)

\* A publisher that is about to enqueue holds one record.
Holding == \A p \in Publishers : pub[p] = "enqueue" => \E r \in Records : held[p] = <<r>>

UsageInv == UsageTypeOK /\ Holding /\ NothingLost

------------------------------------------------------------------------------
(* Suffixes of sequences *)

Suffix(s, d) == SubSeq(s, d + 1, Len(s))

LEMMA SuffixProperties ==
  ASSUME NEW S, NEW s \in Seq(S), NEW d \in 0..Len(s)
  PROVE  /\ Suffix(s, d) \in Seq(S)
         /\ Len(Suffix(s, d)) = Len(s) - d
         /\ \A i \in 1..Len(s) - d : Suffix(s, d)[i] = s[d + i]
<1>1. \A i \in d + 1 .. Len(s) : s[i] \in S
  BY LenProperties, ElementOfSeq
<1>2. d + 1 \in Int /\ Len(s) \in Int
  BY LenProperties
<1> QED
  BY <1>1, <1>2, SubSeqProperties DEF Suffix

\* What is appended to a sequence is appended to its suffixes.
LEMMA SuffixOfConcat ==
  ASSUME NEW S, NEW s \in Seq(S), NEW t \in Seq(S), NEW d \in 0..Len(s)
  PROVE  Suffix(s \o t, d) = Suffix(s, d) \o t
<1>0. Len(s) \in Nat /\ Len(t) \in Nat
  BY LenProperties
<1>1. s \o t \in Seq(S) /\ Len(s \o t) = Len(s) + Len(t) /\ d \in 0..Len(s \o t)
  BY <1>0, ConcatProperties
<1>2. /\ Suffix(s \o t, d) \in Seq(S)
      /\ Len(Suffix(s \o t, d)) = Len(s \o t) - d
      /\ \A i \in 1..Len(s \o t) - d : Suffix(s \o t, d)[i] = (s \o t)[d + i]
  BY <1>1, SuffixProperties
<1>3. /\ Suffix(s, d) \in Seq(S)
      /\ Len(Suffix(s, d)) = Len(s) - d
      /\ \A i \in 1..Len(s) - d : Suffix(s, d)[i] = s[d + i]
  BY SuffixProperties
<1>4. /\ Suffix(s, d) \o t \in Seq(S)
      /\ Len(Suffix(s, d) \o t) = Len(Suffix(s, d)) + Len(t)
      /\ \A i \in 1..Len(Suffix(s, d)) + Len(t) : (Suffix(s, d) \o t)[i] =
           IF i <= Len(Suffix(s, d)) THEN Suffix(s, d)[i] ELSE t[i - Len(Suffix(s, d))]
  BY <1>3, ConcatProperties
<1>5. ASSUME NEW i \in 1..Len(Suffix(s \o t, d))
      PROVE  Suffix(s \o t, d)[i] = (Suffix(s, d) \o t)[i]
  <2>1. i \in 1..Len(s) + Len(t) - d
    BY <1>0, <1>1, <1>2
  <2>2. Suffix(s \o t, d)[i] = (s \o t)[d + i]
    BY <1>0, <1>1, <1>2, <2>1
  <2>3. d + i \in 1..Len(s) + Len(t)
    BY <1>0, <2>1
  <2>4. (s \o t)[d + i] = IF d + i <= Len(s) THEN s[d + i] ELSE t[d + i - Len(s)]
    BY <2>3, ConcatProperties
  <2>5. i \in 1..Len(Suffix(s, d)) + Len(t)
    BY <1>0, <1>3, <2>1
  <2>6. (Suffix(s, d) \o t)[i] =
          IF i <= Len(Suffix(s, d)) THEN Suffix(s, d)[i] ELSE t[i - Len(Suffix(s, d))]
    BY <1>4, <2>5
  <2>7. CASE d + i <= Len(s)
    BY <1>0, <1>3, <2>1, <2>2, <2>4, <2>6, <2>7
  <2>8. CASE ~(d + i <= Len(s))
    <3>1. i - Len(Suffix(s, d)) = d + i - Len(s) /\ ~(i <= Len(Suffix(s, d)))
      BY <1>0, <1>3, <2>1, <2>8
    <3> QED
      BY <2>2, <2>4, <2>6, <2>8, <3>1
  <2> QED
    BY <2>7, <2>8
<1>6. Len(Suffix(s \o t, d)) = Len(Suffix(s, d) \o t)
  BY <1>0, <1>1, <1>2, <1>3, <1>4
<1> QED
  BY <1>2, <1>4, <1>5, <1>6, SeqEqual

\* If a suffix begins with one element x, the next suffix is what follows it.
LEMMA SuffixStep ==
  ASSUME NEW S, NEW s \in Seq(S), NEW d \in 0..Len(s),
         NEW x \in Seq(S), NEW t \in Seq(S), Len(x) = 1, Suffix(s, d) = x \o t
  PROVE  d + 1 \in 0..Len(s) /\ Suffix(s, d + 1) = t
<1>0. Len(s) \in Nat /\ Len(t) \in Nat /\ d \in Nat
  BY LenProperties
<1>1. /\ Len(Suffix(s, d)) = Len(s) - d
      /\ \A i \in 1..Len(s) - d : Suffix(s, d)[i] = s[d + i]
  BY SuffixProperties
<1>2. /\ Len(x \o t) = 1 + Len(t)
      /\ \A i \in 1..1 + Len(t) : (x \o t)[i] = IF i <= 1 THEN x[i] ELSE t[i - 1]
  <2>1. /\ Len(x \o t) = Len(x) + Len(t)
        /\ \A i \in 1..Len(x) + Len(t) :
             (x \o t)[i] = IF i <= Len(x) THEN x[i] ELSE t[i - Len(x)]
    BY ConcatProperties
  <2>2. Len(x) = 1
    OBVIOUS
  <2> QED
    BY <2>1, <2>2
<1>3. Len(s) - d = 1 + Len(t)
  BY <1>1, <1>2
<1>4. d + 1 \in 0..Len(s)
  BY <1>0, <1>3
<1>5. /\ Suffix(s, d + 1) \in Seq(S)
      /\ Len(Suffix(s, d + 1)) = Len(s) - (d + 1)
      /\ \A i \in 1..Len(s) - (d + 1) : Suffix(s, d + 1)[i] = s[d + 1 + i]
  BY <1>4, SuffixProperties
<1>6. Len(Suffix(s, d + 1)) = Len(t)
  BY <1>0, <1>3, <1>5
<1>7. ASSUME NEW i \in 1..Len(Suffix(s, d + 1))
      PROVE  Suffix(s, d + 1)[i] = t[i]
  <2>1. i \in 1..Len(t) /\ i \in 1..Len(s) - (d + 1)
    BY <1>5, <1>6, <1>7
  <2>2. Suffix(s, d + 1)[i] = s[d + 1 + i]
    BY <1>5, <2>1
  <2>3. i + 1 \in 1..Len(s) - d /\ i + 1 \in 1..1 + Len(t) /\ d + (i + 1) = d + 1 + i
    BY <1>0, <1>3, <2>1
  <2>4. (x \o t)[i + 1] = s[d + 1 + i]
    BY <1>1, <2>3
  <2>5. ~(i + 1 <= 1) /\ i + 1 - 1 = i
    BY <1>0, <2>1
  <2>6. (x \o t)[i + 1] = t[i]
    BY <1>2, <2>3, <2>5
  <2> QED
    BY <2>2, <2>4, <2>6
<1> QED
  BY <1>4, <1>5, <1>6, <1>7, SeqEqual

------------------------------------------------------------------------------
(* The invariant *)

LEMMA UsageInitInv == UsageInit => UsageInv
<1> SUFFICES ASSUME UsageInit PROVE UsageInv
  OBVIOUS
<1>1. UsageTypeOK
  BY EmptySeq DEF UsageInit, UsageTypeOK, NotYet
<1>2. Holding
  BY DEF UsageInit, Holding
<1>3. NothingLost
  BY DEF UsageInit, NothingLost
<1> QED
  BY <1>1, <1>2, <1>3 DEF UsageInv

\* Types: every action, with what publishers hold.
LEMMA NextType == UsageInv /\ [UsageNext]_usageVars => UsageTypeOK' /\ Holding'
<1> SUFFICES ASSUME UsageInv, [UsageNext]_usageVars PROVE UsageTypeOK' /\ Holding'
  OBVIOUS
<1> USE DEF UsageInv, UsageTypeOK, Holding, queueVars, workerVars, pubVars
<1>1. ASSUME NEW p \in Publishers, NEW record \in Records, Publish(p, record)
      PROVE  UsageTypeOK' /\ Holding'
  BY <1>1 DEF Publish
<1>2. ASSUME NEW p \in Publishers, Enqueue(p)
      PROVE  UsageTypeOK' /\ Holding'
  <2>1. held[p] \in Seq(Records)
    BY <1>2
  <2>2. queue \o held[p] \in Seq(Records) /\ accepted \o held[p] \in Seq(Records)
    BY <2>1, ConcatProperties
  <2> QED
    BY <1>2, <2>2 DEF Enqueue
<1>3. ASSUME NEW p \in Publishers, Drop(p)
      PROVE  UsageTypeOK' /\ Holding'
  BY <1>3 DEF Drop
<1>4. ASSUME NEW p \in Publishers, Signal(p)
      PROVE  UsageTypeOK' /\ Holding'
  BY <1>4 DEF Signal, Wake
<1>5. ASSUME StopQueue PROVE UsageTypeOK' /\ Holding'
  BY <1>5 DEF StopQueue
<1>6. ASSUME Broadcast PROVE UsageTypeOK' /\ Holding'
  BY <1>6 DEF Broadcast, Wake
<1>7. ASSUME NEW g \in Plugins, Register(g) PROVE UsageTypeOK' /\ Holding'
  BY <1>7, AppendProperties DEF Register
<1>8. ASSUME Sleep \/ Exit PROVE UsageTypeOK' /\ Holding'
  BY <1>8 DEF Sleep, Exit
<1>9. ASSUME Take PROVE UsageTypeOK' /\ Holding'
  <2>1. Head(queue) \in Records /\ Tail(queue) \in Seq(Records)
    BY <1>9, HeadTailProperties DEF Take
  <2>2. <<Head(queue)>> \in Seq(Records) /\ Len(<<Head(queue)>>) = 1
    BY <2>1
  <2> QED
    BY <1>9, <2>1, <2>2 DEF Take
<1>10. ASSUME Copy PROVE UsageTypeOK' /\ Holding'
  <2>1. [from |-> dispatched, records |-> <<>>] \in [from : Nat, records : Seq(Records)]
    BY EmptySeq
  <2>2. got' \in [Plugins -> [from : Nat, records : Seq(Records)]]
    BY <1>10, <2>1 DEF Copy
  <2> QED
    BY <1>10, <2>2 DEF Copy
<1>13. ASSUME Call PROVE UsageTypeOK' /\ Holding'
  <2>1. Head(calls) \in Plugins /\ Tail(calls) \in Seq(Plugins)
    BY <1>13, HeadTailProperties DEF Call
  <2>2. got[Head(calls)].records \o hand \in Seq(Records)
    BY <2>1, ConcatProperties
  <2>3. got' \in [Plugins -> [from : Nat, records : Seq(Records)]]
    BY <1>13, <2>1, <2>2 DEF Call
  <2> QED
    BY <1>13, <2>1, <2>3 DEF Call
<1>12. ASSUME Done PROVE UsageTypeOK' /\ Holding'
  <2>1. hand' = <<>> /\ hand' \in Seq(Records) /\ dispatched' = dispatched + 1 /\ worker' = "check"
    BY <1>12, EmptySeq DEF Done
  <2>2. UNCHANGED <<queue, stopped, pub, held, accepted, plugins, calls, got>>
    BY <1>12 DEF Done
  <2> QED
    BY <2>1, <2>2
<1>11. ASSUME UNCHANGED usageVars PROVE UsageTypeOK' /\ Holding'
  BY <1>11 DEF usageVars
<1> QED
  BY <1>1, <1>2, <1>3, <1>4, <1>5, <1>6, <1>7, <1>8, <1>9, <1>10, <1>11, <1>12, <1>13 DEF UsageNext, Run, FinishPublish

\* Only Enqueue, Take and Done move records, and each moves one end.
LEMMA NextNothingLost == UsageInv /\ [UsageNext]_usageVars => NothingLost'
<1> SUFFICES ASSUME UsageInv, [UsageNext]_usageVars PROVE NothingLost'
  OBVIOUS
<1> USE DEF queueVars, workerVars, pubVars
<1>0. /\ queue \in Seq(Records) /\ accepted \in Seq(Records) /\ hand \in Seq(Records)
      /\ held \in [Publishers -> Seq(Records)]
      /\ dispatched \in 0..Len(accepted)
      /\ Suffix(accepted, dispatched) = hand \o queue
      /\ Len(accepted) \in Nat
  BY LenProperties DEF UsageInv, UsageTypeOK, NothingLost, Suffix
<1>1. ASSUME NEW p \in Publishers, Enqueue(p)
      PROVE  NothingLost'
  <2>1. held[p] \in Seq(Records)
    BY <1>0
  <2>2. Suffix(accepted', dispatched) = (hand \o queue) \o held[p]
    <3>1. Suffix(accepted \o held[p], dispatched) = Suffix(accepted, dispatched) \o held[p]
      BY <1>0, <2>1, SuffixOfConcat
    <3> QED
      BY <1>0, <1>1, <3>1 DEF Enqueue
  <2>3. (hand \o queue) \o held[p] = hand \o queue'
    BY <1>0, <1>1, <2>1, ConcatAssociative DEF Enqueue
  <2>4. dispatched <= Len(accepted')
    BY <1>0, <1>1, <2>1, ConcatProperties, LenProperties DEF Enqueue
  <2> QED
    BY <1>1, <2>2, <2>3, <2>4 DEF Enqueue, NothingLost, Suffix
<1>2. ASSUME Take
      PROVE  NothingLost'
  <2>1. hand = <<>>
    BY <1>2 DEF UsageInv, UsageTypeOK, Take
  <2>2. queue = SubSeq(queue, 1, Len(queue)) /\ Len(queue) \in Nat \ {0}
    BY <1>0, <1>2, SubSeqFull, EmptySeq DEF Take
  <2>3. SubSeq(queue, 1, Len(queue)) = <<queue[1]>> \o SubSeq(queue, 2, Len(queue))
    BY <1>0, <2>2, SubSeqRecursiveFirst
  <2>4. Head(queue) = queue[1] /\ Tail(queue) = SubSeq(queue, 2, Len(queue))
    BY <1>0, <1>2, TailIsSubSeq DEF Take
  <2>5. hand \o queue = hand' \o queue'
    BY <1>0, <1>2, <2>1, <2>2, <2>3, <2>4, ConcatEmptySeq DEF Take
  <2> QED
    BY <1>0, <1>2, <2>5 DEF Take, NothingLost, Suffix
<1>3. ASSUME Done
      PROVE  NothingLost'
  <2>1. Len(hand) = 1
    BY <1>3 DEF UsageInv, UsageTypeOK, Done
  <2>2. dispatched + 1 \in 0..Len(accepted) /\ Suffix(accepted, dispatched + 1) = queue
    BY <1>0, <2>1, SuffixStep
  <2>3. queue = hand' \o queue
    BY <1>0, <1>3, ConcatEmptySeq DEF Done
  <2> QED
    BY <1>3, <2>2, <2>3 DEF Done, NothingLost, Suffix
<1>4. ASSUME UNCHANGED <<accepted, dispatched, hand, queue>>
      PROVE  NothingLost'
  BY <1>4 DEF UsageInv, NothingLost
<1> QED
  BY <1>1, <1>2, <1>3, <1>4
     DEF UsageNext, Run, FinishPublish, Publish, Drop, Signal, StopQueue, Broadcast, Register, Sleep, Exit, Copy, Call, usageVars

LEMMA SpecInv == UsageSpec => []UsageInv
<1>1. UsageInit => UsageInv
  BY UsageInitInv
<1>2. UsageInv /\ [UsageNext]_usageVars => UsageInv'
  BY NextType, NextNothingLost DEF UsageInv
<1> QED
  BY <1>1, <1>2, PTL DEF UsageSpec

------------------------------------------------------------------------------
(* The plugins *)

In(s, g) == \E i \in 1..Len(s) : s[i] = g

Distinct(s) == \A i, j \in 1..Len(s) : s[i] = s[j] => i = j

\* What a plugin has got: every record dispatched since its first call and, once
\* its turn in the current dispatch is over, the one in hand.
UpToDate(g) ==
  LET since == SubSeq(accepted, got[g].from + 1, dispatched)
  IN  /\ got[g].from <= dispatched
      /\ got[g].records = IF worker = "call" /\ ~In(calls, g) THEN since \o hand ELSE since

\* PluginsComplete is not inductive: during a dispatch it depends on who is still
\* to be called, and on every plugin being listed once.
Calling ==
  /\ Distinct(plugins) /\ Distinct(calls)
  /\ worker # "call" => calls = <<>>
  /\ \A g \in Plugins : got[g] # NotYet \/ In(calls, g) => In(plugins, g) /\ UpToDate(g)

\* A part of a sequence does not change when the sequence grows.
LEMMA PartOfConcat ==
  ASSUME NEW S, NEW s \in Seq(S), NEW t \in Seq(S), NEW d \in 0..Len(s), NEW f \in 0..d
  PROVE  SubSeq(s \o t, f + 1, d) = SubSeq(s, f + 1, d)
<1>0. Len(s) \in Nat
  BY LenProperties
<1>1. CASE f = d
  BY <1>0, <1>1, SubSeqEmpty
<1>2. CASE f # d
  <2>1. f + 1 \in 1..Len(s) /\ d \in 1..Len(s)
    BY <1>0, <1>2
  <2> QED
    BY <2>1, SubSeqOfConcat1
<1> QED
  BY <1>1, <1>2

\* The part up to the next element of s, the first of the suffix x \o t.
LEMMA PartGrows ==
  ASSUME NEW S, NEW s \in Seq(S), NEW d \in 0..Len(s), NEW f \in 0..d,
         NEW x \in Seq(S), NEW t \in Seq(S), Len(x) = 1, Suffix(s, d) = x \o t
  PROVE  SubSeq(s, f + 1, d + 1) = SubSeq(s, f + 1, d) \o x
<1>0. Len(s) \in Nat /\ d + 1 \in 0..Len(s)
  BY LenProperties, SuffixStep
<1>1. f + 1 \in 1..Len(s) /\ d + 1 \in f + 1 .. Len(s) /\ d + 1 - 1 = d
  BY <1>0
<1>2. SubSeq(s, f + 1, d + 1) = SubSeq(s, f + 1, d) \o <<s[d + 1]>>
  BY <1>1, SubSeqRecursiveSecond
<1>3. x[1] = s[d + 1]
  <2>1. (x \o t)[1] = x[1]
    <3>1. 1 \in 1..Len(x) + Len(t) /\ 1 <= Len(x)
      BY LenProperties
    <3> QED
      BY <3>1, ConcatProperties
  <2>2. 1 \in 1..Len(s) - d /\ d + 1 \in Nat
    BY <1>0
  <2>3. \A i \in 1..Len(s) - d : Suffix(s, d)[i] = s[d + i]
    BY SuffixProperties
  <2> QED
    BY <2>1, <2>2, <2>3
<1>4. x = <<s[d + 1]>>
  <2>0. x[1] \in S
    <3>1. 1 \in 1..Len(x)
      OBVIOUS
    <3> QED
      BY <3>1, ElementOfSeq
  <2>1. <<x[1]>> \in Seq(S) /\ Len(<<x[1]>>) = 1
    BY <2>0
  <2>2. \A i \in 1..Len(x) : x[i] = <<x[1]>>[i]
    OBVIOUS
  <2> QED
    BY <1>3, <2>1, <2>2, SeqEqual
<1> QED
  BY <1>2, <1>4

LEMMA InitCalling == UsageInit => Calling
<1> SUFFICES ASSUME UsageInit PROVE Calling
  OBVIOUS
<1>1. Len(<<>>) = 0
  OBVIOUS
<1> QED
  BY <1>1 DEF UsageInit, Calling, Distinct, In

\* What Calling says of one plugin survives steps that touch neither the plugin's
\* calls nor what was dispatched.
LEMMA NextCalling == UsageInv /\ Calling /\ [UsageNext]_usageVars => Calling'
<1> SUFFICES ASSUME UsageInv, Calling, [UsageNext]_usageVars PROVE Calling'
  OBVIOUS
<1> USE DEF queueVars, workerVars, pubVars
<1>0. /\ queue \in Seq(Records) /\ accepted \in Seq(Records) /\ hand \in Seq(Records)
      /\ held \in [Publishers -> Seq(Records)]
      /\ plugins \in Seq(Plugins) /\ calls \in Seq(Plugins)
      /\ got \in [Plugins -> [from : Nat, records : Seq(Records)]]
      /\ dispatched \in 0..Len(accepted) /\ Len(accepted) \in Nat
      /\ Suffix(accepted, dispatched) = hand \o queue
  <2>1. /\ queue \in Seq(Records) /\ accepted \in Seq(Records) /\ hand \in Seq(Records)
        /\ held \in [Publishers -> Seq(Records)]
        /\ plugins \in Seq(Plugins) /\ calls \in Seq(Plugins)
        /\ got \in [Plugins -> [from : Nat, records : Seq(Records)]]
        /\ dispatched \in Nat /\ dispatched <= Len(accepted)
    BY DEF UsageInv, UsageTypeOK, NothingLost
  <2>2. Suffix(accepted, dispatched) = hand \o queue BY DEF UsageInv, NothingLost, Suffix
  <2>3. Len(accepted) \in Nat BY <2>1, LenProperties
  <2>. QED BY <2>1, <2>2, <2>3
<1>1. ASSUME UNCHANGED <<plugins, calls, got, accepted, dispatched, hand>>,
             worker' = "call" <=> worker = "call"
      PROVE  Calling'
  BY <1>1 DEF Calling, Distinct, In, UpToDate
<1>2. ASSUME NEW p \in Publishers, Enqueue(p)
      PROVE  Calling'
  <2>1. held[p] \in Seq(Records)
    BY <1>0
  <2>2. ASSUME NEW g \in Plugins, got[g].from <= dispatched
        PROVE  SubSeq(accepted', got[g].from + 1, dispatched) = SubSeq(accepted, got[g].from + 1, dispatched)
    <3>1. got[g].from \in 0..dispatched
      BY <1>0, <2>2
    <3>2. accepted' = accepted \o held[p] \/ accepted' = accepted BY <1>2 DEF Enqueue
    <3>3. SubSeq(accepted \o held[p], got[g].from + 1, dispatched) = SubSeq(accepted, got[g].from + 1, dispatched)
      BY <1>0, <2>1, <3>1, PartOfConcat
    <3> QED BY <3>2, <3>3
  <2>3. UNCHANGED <<plugins, calls, got, worker, dispatched, hand>>
    BY <1>2 DEF Enqueue
  <2>4. Distinct(plugins)' /\ Distinct(calls)' /\ (worker # "call" => calls = <<>>)'
    BY <2>3 DEF Calling, Distinct
  <2>5. ASSUME NEW g \in Plugins, (got[g] # NotYet \/ In(calls, g))'
        PROVE  In(plugins, g)' /\ UpToDate(g)'
    BY <2>2, <2>3, <2>5 DEF Calling, In, UpToDate
  <2> QED
    BY <2>4, <2>5 DEF Calling
<1>3. ASSUME NEW h \in Plugins, Register(h)
      PROVE  Calling'
  <2>1. plugins' = Append(plugins, h) /\ UNCHANGED <<calls, got, worker, accepted, dispatched, hand>>
    BY <1>3 DEF Register
  <2>2. /\ Len(plugins') = Len(plugins) + 1 /\ Len(plugins) \in Nat /\ plugins'[Len(plugins) + 1] = h
        /\ \A i \in 1..Len(plugins) : plugins'[i] = plugins[i] /\ plugins[i] # h
    BY <1>0, <1>3, <2>1, AppendProperties, LenProperties DEF Register
  <2>3. Distinct(plugins)'
    <3> SUFFICES ASSUME NEW i \in 1..Len(plugins'), NEW j \in 1..Len(plugins'), plugins'[i] = plugins'[j]
                 PROVE  i = j
      BY DEF Distinct
    <3>1. CASE i \in 1..Len(plugins) /\ j \in 1..Len(plugins)
      BY <2>2, <3>1 DEF Calling, Distinct
    <3>2. CASE i = Len(plugins) + 1 \/ j = Len(plugins) + 1
      BY <2>2, <3>2
    <3> QED
      BY <2>2, <3>1, <3>2
  <2>4. \A g \in Plugins : In(plugins, g) => In(plugins, g)'
    BY <2>2 DEF In
  <2>5. \A g \in Plugins : UpToDate(g)' = UpToDate(g) /\ In(calls, g)' = In(calls, g)
    BY <2>1 DEF UpToDate, In
  <2> QED
    BY <2>1, <2>3, <2>4, <2>5 DEF Calling, Distinct
<1>4. ASSUME Take
      PROVE  Calling'
  <2>1. UNCHANGED <<plugins, calls, got, accepted, dispatched>> /\ worker # "call" /\ worker' # "call"
    BY <1>4 DEF Take
  <2>2. \A g \in Plugins : UpToDate(g)' = UpToDate(g) /\ In(calls, g)' = In(calls, g)
                            /\ In(plugins, g)' = In(plugins, g)
    BY <2>1 DEF UpToDate, In
  <2> QED
    BY <2>1, <2>2 DEF Calling, Distinct
<1>5. ASSUME Copy
      PROVE  Calling'
  <2>1. /\ worker = "dispatch" /\ worker' = "call" /\ calls' = plugins
        /\ UNCHANGED <<plugins, accepted, dispatched, hand>>
        /\ got' = [g \in Plugins |-> IF got[g] = NotYet /\ In(plugins, g)
                                      THEN [from |-> dispatched, records |-> <<>>] ELSE got[g]]
    BY <1>5 DEF Copy, In
  <2>2. Distinct(plugins)' /\ Distinct(calls)'
    BY <2>1 DEF Calling, Distinct
  <2>3. ASSUME NEW g \in Plugins, (got[g] # NotYet \/ In(calls, g))'
        PROVE  In(plugins, g)' /\ UpToDate(g)'
    <3>1. In(plugins, g) /\ In(plugins, g)' /\ In(calls, g)'
      BY <2>1, <2>3 DEF Calling, In
    <3>2. CASE got[g] = NotYet
      <4>1. got'[g].from = dispatched /\ got'[g].records = <<>>
        BY <2>1, <3>1, <3>2
      <4>2. SubSeq(accepted, dispatched + 1, dispatched) = <<>>
        BY <1>0, SubSeqEmpty
      <4> QED
        BY <1>0, <2>1, <3>1, <4>1, <4>2 DEF UpToDate
    <3>3. CASE got[g] # NotYet
      <4>1. got'[g] = got[g]
        BY <2>1, <3>3
      <4>2. UpToDate(g)
        BY <3>3 DEF Calling
      <4> QED
        BY <2>1, <3>1, <4>1, <4>2 DEF UpToDate
    <3> QED
      BY <3>1, <3>2, <3>3
  <2> QED
    BY <2>1, <2>2, <2>3 DEF Calling
<1>6. ASSUME Call
      PROVE  Calling'
  <2>0. PICK h \in Plugins : h = Head(calls)
    BY <1>0, <1>6, HeadTailProperties DEF Call
  <2>1. /\ worker = "call" /\ worker' = "call" /\ calls # <<>> /\ calls' = Tail(calls)
        /\ UNCHANGED <<plugins, accepted, dispatched, hand>>
        /\ got' = [got EXCEPT ![h].records = @ \o hand]
    BY <1>6, <2>0 DEF Call
  <2>2. /\ h \in Plugins /\ Tail(calls) \in Seq(Plugins) /\ Len(Tail(calls)) = Len(calls) - 1
        /\ Len(calls) \in Nat \ {0} /\ h = calls[1]
        /\ \A i \in 1..Len(Tail(calls)) : Tail(calls)[i] = calls[i + 1]
    BY <1>0, <2>0, <2>1, HeadTailProperties, EmptySeq
  <2>3. Distinct(calls)'
    <3> SUFFICES ASSUME NEW i \in 1..Len(calls'), NEW j \in 1..Len(calls'), calls'[i] = calls'[j]
                 PROVE  i = j
      BY DEF Distinct
    <3>1. i + 1 \in 1..Len(calls) /\ j + 1 \in 1..Len(calls) /\ calls[i + 1] = calls[j + 1]
      BY <2>1, <2>2
    <3>2. i + 1 = j + 1
      BY <3>1 DEF Calling, Distinct
    <3> QED
      BY <2>1, <2>2, <3>2
  <2>4. In(calls, h) /\ ~In(calls, h)'
    <3>1. In(calls, h)
      BY <2>2, 1 \in 1..Len(calls) DEF In
    <3>2. ASSUME NEW i \in 1..Len(calls'), calls'[i] = h
          PROVE  FALSE
      <4>1. i + 1 \in 1..Len(calls) /\ 1 \in 1..Len(calls) /\ calls[i + 1] = calls[1]
        BY <2>1, <2>2, <3>2
      <4>2. i + 1 = 1
        BY <4>1 DEF Calling, Distinct
      <4> QED
        BY <2>2, <2>1, <4>2
    <3> QED
      BY <3>1, <3>2 DEF In
  <2>5. ASSUME NEW g \in Plugins, g # h
        PROVE  In(calls, g)' <=> In(calls, g)
    <3>1. In(calls, g)' => In(calls, g)
      BY <2>1, <2>2 DEF In
    <3>2. ASSUME NEW i \in 1..Len(calls), calls[i] = g
          PROVE  In(calls, g)'
      <4>1. i # 1
        BY <2>2, <2>5, <3>2
      <4>2. i - 1 \in 1..Len(Tail(calls)) /\ i - 1 + 1 = i
        BY <2>2, <4>1
      <4>3. Tail(calls)[i - 1] = g
        BY <2>2, <3>2, <4>2
      <4> QED
        BY <2>1, <4>2, <4>3 DEF In
    <3>3. In(calls, g) => In(calls, g)'
      BY <3>2 DEF In
    <3> QED
      BY <3>1, <3>3
  <2>6. In(plugins, h) /\ UpToDate(h)
    BY <2>2, <2>4 DEF Calling
  <2>7. In(plugins, h)' /\ UpToDate(h)'
    <3>1. got'[h].from = got[h].from /\ got'[h].records = got[h].records \o hand
      BY <1>0, <2>1, <2>2
    <3>2. In(plugins, h)'
      BY <2>1, <2>6 DEF In
    <3>3. got[h].records = SubSeq(accepted, got[h].from + 1, dispatched) /\ got[h].from <= dispatched
      BY <2>1, <2>4, <2>6 DEF UpToDate
    <3>4. got'[h].records = SubSeq(accepted', got'[h].from + 1, dispatched') \o hand'
      BY <2>1, <3>1, <3>3
    <3> QED
      BY <2>1, <2>4, <3>1, <3>2, <3>3, <3>4 DEF UpToDate
  <2>8. ASSUME NEW g \in Plugins, g # h, (got[g] # NotYet \/ In(calls, g))'
        PROVE  In(plugins, g)' /\ UpToDate(g)'
    <3>1. got'[g] = got[g]
      BY <1>0, <2>1, <2>2, <2>8
    <3>2. In(plugins, g) /\ UpToDate(g)
      BY <2>5, <2>8, <3>1 DEF Calling
    <3>3. In(plugins, g)'
      BY <2>1, <3>2 DEF In
    <3> QED
      BY <2>1, <2>5, <2>8, <3>1, <3>2, <3>3 DEF UpToDate
  <2>9. Distinct(plugins)'
    BY <2>1 DEF Calling, Distinct
  <2>10. \A g \in Plugins : (got[g] # NotYet \/ In(calls, g))' => In(plugins, g)' /\ UpToDate(g)'
    BY <2>7, <2>8
  <2> QED
    BY <2>1, <2>3, <2>9, <2>10 DEF Calling
<1>7. ASSUME Done
      PROVE  Calling'
  <2>1. /\ worker = "call" /\ worker' = "check" /\ calls = <<>> /\ dispatched' = dispatched + 1
        /\ UNCHANGED <<plugins, calls, got, accepted>>
    BY <1>7 DEF Done
  <2>2. Len(hand) = 1
    BY <2>1 DEF UsageInv, UsageTypeOK
  <2>3. \A g \in Plugins : ~In(calls, g)
    BY <2>1 DEF In
  <2>4. ASSUME NEW g \in Plugins, (got[g] # NotYet \/ In(calls, g))'
        PROVE  In(plugins, g)' /\ UpToDate(g)'
    <3>1. got'[g] = got[g] /\ In(plugins, g) /\ UpToDate(g) /\ In(plugins, g)'
      BY <2>1, <2>3, <2>4 DEF Calling, In
    <3>2. got[g].from \in 0..dispatched
      BY <1>0, <3>1 DEF UpToDate
    <3>3. SubSeq(accepted, got[g].from + 1, dispatched + 1) = SubSeq(accepted, got[g].from + 1, dispatched) \o hand
      BY <1>0, <2>2, <3>2, PartGrows
    <3>4. got[g].records = SubSeq(accepted, got[g].from + 1, dispatched) \o hand
      BY <2>1, <2>3, <2>4, <3>1 DEF UpToDate
    <3>5. got'[g].from <= dispatched'
      BY <1>0, <2>1, <3>1, <3>2
    <3>6. got'[g].records = SubSeq(accepted', got'[g].from + 1, dispatched')
      BY <2>1, <3>1, <3>3, <3>4, Zenon
    <3> QED
      BY <2>1, <3>1, <3>5, <3>6 DEF UpToDate
  <2> QED
    BY <2>1, <2>4 DEF Calling, Distinct
<1> QED
  BY <1>1, <1>2, <1>3, <1>4, <1>5, <1>6, <1>7
     DEF UsageNext, Run, FinishPublish, Publish, Drop, Signal, Wake, StopQueue, Broadcast, Sleep, Exit, usageVars

------------------------------------------------------------------------------
(* Theorems *)

\* The variables keep their types, and the dispatcher holds a record exactly
\* while it dispatches one.
THEOREM UsageTypeCorrect == UsageSpec => []UsageTypeOK
<1>1. UsageInv => UsageTypeOK
  BY DEF UsageInv
<1> QED
  BY <1>1, SpecInv, PTL

\* No record that was accepted is lost, doubled or overtaken, for any number of
\* publishers, plugins and records (manager.go: Publish, run, dispatch).
THEOREM NoRecordLost == UsageSpec => []NothingLost
<1>1. UsageInv => NothingLost
  BY DEF UsageInv
<1> QED
  BY <1>1, SpecInv, PTL

\* A plugin has been called with every record dispatched since it was registered,
\* in order, however registrations fall between the calls of a dispatch (manager.go:
\* Register, dispatch).
THEOREM EveryPluginCalled == UsageSpec => []PluginsComplete
<1>1. UsageInit => UsageInv /\ Calling
  BY UsageInitInv, InitCalling
<1>2. (UsageInv /\ Calling) /\ [UsageNext]_usageVars => (UsageInv /\ Calling)'
  BY NextType, NextNothingLost, NextCalling DEF UsageInv
<1>3. Calling => PluginsComplete
  <2> SUFFICES ASSUME Calling, worker \notin {"dispatch", "call"}, NEW g \in Plugins, got[g] # NotYet
               PROVE  got[g].records = SubSeq(accepted, got[g].from + 1, dispatched)
    BY DEF PluginsComplete
  <2> QED
    BY DEF Calling, UpToDate
<1> QED
  BY <1>1, <1>2, <1>3, PTL DEF UsageSpec

\* Every step of the queue is a step of UsageLog or none: records are accepted
\* only before StopQueue, and dispatched one by one in the order of acceptance.
THEOREM ImplementsSafety == UsageSpec => Log!Init /\ [][Log!Next]_(Log!vars)
<1>1. UsageInit => Log!Init
  BY DEF UsageInit, Log!Init
<1>2. UsageInv /\ [UsageNext]_usageVars => [Log!Next]_(Log!vars)
  <2> SUFFICES ASSUME UsageInv, [UsageNext]_usageVars PROVE [Log!Next]_(Log!vars)
    OBVIOUS
  <2> USE DEF queueVars, workerVars, pubVars
  <2>1. ASSUME NEW p \in Publishers, Enqueue(p)
        PROVE  Log!Next
    <3>1. PICK r \in Records : held[p] = <<r>>
      BY <2>1 DEF UsageInv, Holding, Enqueue
    <3>2. accepted' = Append(accepted, r)
      BY <2>1, <3>1, AppendIsConcat DEF Enqueue, UsageInv, UsageTypeOK
    <3> QED
      BY <2>1, <3>2 DEF Enqueue, Log!Next, Log!Accept
  <2>2. ASSUME Done
        PROVE  Log!Next
    <3>1. dispatched + 1 \in 0..Len(accepted)
      <4>1. Len(hand) = 1 /\ Suffix(accepted, dispatched) = hand \o queue
        BY <2>2 DEF UsageInv, UsageTypeOK, NothingLost, Suffix, Done
      <4>2. dispatched \in 0..Len(accepted)
        BY LenProperties DEF UsageInv, UsageTypeOK, NothingLost
      <4> QED
        BY <4>1, <4>2, SuffixStep DEF UsageInv, UsageTypeOK
    <3>2. dispatched < Len(accepted)
      BY <3>1, LenProperties DEF UsageInv, UsageTypeOK
    <3> QED
      BY <2>2, <3>2 DEF Done, Log!Next, Log!Dispatch
  <2>3. ASSUME StopQueue
        PROVE  Log!Next
    BY <2>3 DEF StopQueue, Log!Next, Log!Stop
  <2>4. ASSUME UNCHANGED <<accepted, dispatched, stopped>>
        PROVE  UNCHANGED Log!vars
    BY <2>4 DEF Log!vars
  <2> QED
    BY <2>1, <2>2, <2>3, <2>4
       DEF UsageNext, Run, FinishPublish, Publish, Drop, Signal, Broadcast, Register, Sleep, Exit, Take, Copy, Call, usageVars
<1> QED
  BY <1>1, <1>2, SpecInv, PTL DEF UsageSpec

------------------------------------------------------------------------------
(* AuthRefresh *)

Labels == {"idle", "queued", "network", "update", "store", "persist"}
Jobs   == [auth : Auths \cup {NoAuth}, rec : Record, age : Nat]

TypeInv ==
  /\ rec \in [Auths -> Record]
  /\ disk \in [Auths -> Token]
  /\ due \subseteq Auths /\ crossed \subseteq Auths
  /\ job \in [Procs -> Jobs]
  /\ pc \in [Procs -> Labels]
  /\ \A p \in Procs : pc[p] = "idle" <=> job[p].auth = NoAuth
  /\ \A p \in Procs : pc[p] = "idle" => job[p].age = 0
  /\ \A w \in Workers : pc[w] # "store"
  /\ \A o \in Operators : pc[o] \in {"idle", "store", "persist"}

LEMMA Numbers ==
  /\ Life \in Nat /\ Lead \in Nat /\ PendingBackoff \in Nat /\ FailureBackoff \in Nat
  /\ PendingBackoff <= FailureBackoff /\ PendingBackoff + Lead <= Life
  /\ NoAuth \notin Auths /\ Workers \cap Operators = {}
  BY RefreshAssumption

------------------------------------------------------------------------------
(* Records *)

LEMMA RecordParts ==
  ASSUME NEW r \in Record
  PROVE  /\ r.disabled \in BOOLEAN /\ r.token \in Token /\ r.life \in 0..Life /\ r.wait \in 0..FailureBackoff
         /\ r.states \in {"none"} \cup Results /\ r.life \in Nat /\ r.wait \in Nat
  BY Numbers DEF Record

LEMMA IssuedRecord ==
  ASSUME NEW r \in Record
  PROVE  Issued(r) \in Record /\ Issued(r).token = "newest" /\ Issued(r).life = Life /\ Issued(r).wait = 0
<1>0. Life \in 0..Life /\ 0 \in 0..FailureBackoff /\ "newest" \in Token BY Numbers DEF Token
<1>1. Issued(r) \in Record BY <1>0 DEF Issued, Record
<1>2. Issued(r).token = "newest" /\ Issued(r).life = Life /\ Issued(r).wait = 0 BY DEF Issued, Record
<1>. QED BY <1>1, <1>2

LEMMA OutdatedRecord ==
  ASSUME NEW r \in Record
  PROVE  /\ Outdated(r) \in Record /\ Outdated(r).token = "stale"
         /\ Outdated(r).life = r.life /\ Outdated(r).wait = r.wait
<1>1. Outdated(r) \in Record BY DEF Outdated, Record, Token
<1>2. Outdated(r).token = "stale" /\ Outdated(r).life = r.life /\ Outdated(r).wait = r.wait
  BY DEF Outdated, Record
<1>. QED BY <1>1, <1>2

LEMMA MergedRecord ==
  ASSUME NEW r \in Record, NEW s \in Record
  PROVE  /\ Merged(r, s) \in Record /\ Merged(r, s).token = r.token
         /\ Merged(r, s).life = r.life /\ Merged(r, s).wait = r.wait
<1>1. (IF r.states = "none" THEN s.states ELSE r.states) \in {"none"} \cup Results BY RecordParts
<1>2. Merged(r, s) \in Record BY <1>1 DEF Merged, Record
<1>3. Merged(r, s).token = r.token /\ Merged(r, s).life = r.life /\ Merged(r, s).wait = r.wait
  BY <1>1 DEF Merged, Record
<1>. QED BY <1>2, <1>3

LEMMA OlderRecord ==
  ASSUME NEW r \in Record
  PROVE  /\ older(r) \in Record /\ older(r).token = r.token
         /\ older(r).life + 1 >= r.life /\ older(r).wait + 1 >= r.wait
<1>1. down(r.life) \in 0..Life /\ down(r.wait) \in 0..FailureBackoff
      /\ down(r.life) + 1 >= r.life /\ down(r.wait) + 1 >= r.wait
  BY RecordParts, Numbers DEF down
<1>2. older(r) \in Record BY <1>1 DEF older, Record
<1>3. older(r).token = r.token /\ older(r).life = down(r.life) /\ older(r).wait = down(r.wait)
  BY <1>1 DEF older, Record
<1>. QED BY <1>1, <1>2, <1>3

LEMMA ChangedRecord ==
  ASSUME NEW r \in Record, NEW n \in 0..FailureBackoff, NEW b \in BOOLEAN, NEW s \in {"none"} \cup Results
  PROVE  /\ [r EXCEPT !.wait = n] \in Record /\ [r EXCEPT !.disabled = b] \in Record
         /\ [r EXCEPT !.states = s] \in Record
         /\ [r EXCEPT !.wait = n].token = r.token /\ [r EXCEPT !.wait = n].life = r.life
         /\ [r EXCEPT !.wait = n].wait = n
         /\ [r EXCEPT !.disabled = b].token = r.token /\ [r EXCEPT !.disabled = b].life = r.life
         /\ [r EXCEPT !.disabled = b].wait = r.wait
         /\ [r EXCEPT !.states = s].token = r.token /\ [r EXCEPT !.states = s].life = r.life
         /\ [r EXCEPT !.states = s].wait = r.wait
<1>1. [r EXCEPT !.wait = n] \in Record BY DEF Record
<1>2. [r EXCEPT !.disabled = b] \in Record BY DEF Record
<1>3. [r EXCEPT !.states = s] \in Record BY DEF Record
<1>4. [r EXCEPT !.wait = n].token = r.token /\ [r EXCEPT !.wait = n].life = r.life
      /\ [r EXCEPT !.wait = n].wait = n BY DEF Record
<1>5. [r EXCEPT !.disabled = b].token = r.token /\ [r EXCEPT !.disabled = b].life = r.life
      /\ [r EXCEPT !.disabled = b].wait = r.wait BY DEF Record
<1>6. [r EXCEPT !.states = s].token = r.token /\ [r EXCEPT !.states = s].life = r.life
      /\ [r EXCEPT !.states = s].wait = r.wait BY DEF Record
<1>. QED BY <1>1, <1>2, <1>3, <1>4, <1>5, <1>6

------------------------------------------------------------------------------
(* What keeps an auth from a second refresh, and its token from being lost *)

\* A refresh that has not outlasted the pending mark: the record, and every copy that
\* will be stored, either still has the mark or a token issued since.
Young(a, w)  == Active(w) /\ job[w].auth = a /\ job[w].age < PendingBackoff
Guards(r, w) == r.wait + job[w].age >= PendingBackoff \/ r.life + job[w].age >= Life

GuardedAt(a) ==
  \A w \in Workers : Young(a, w) =>
    /\ Guards(rec[a], w) /\ a \notin due
    /\ \A p \in Holders(a) : Guards(job[p].rec, w)
    /\ \A v \in Workers : Young(a, v) => v = w

\* While memory, a copy or the file has an old token, somebody is about to store the new one.
Newer(a) == {p \in Procs : job[p].auth = a /\ pc[p] = "update" /\ job[p].rec.token = "newest"}

TokensAt(a) ==
  /\ rec[a].token = "stale" => Newer(a) # {}
  /\ \A p \in Holders(a) : pc[p] # "network" /\ job[p].rec.token = "stale" => Newer(a) # {}
  /\ disk[a] = "stale" =>
       \E p \in Holders(a) : pc[p] \in {"update", "persist"} /\ job[p].rec.token = "newest"

AuthInv    == \A a \in Auths \ crossed : GuardedAt(a) /\ TokensAt(a)
RefreshInv == TypeInv /\ AuthInv

LEMMA InvInit == RefreshInit => RefreshInv
<1>. SUFFICES ASSUME RefreshInit PROVE RefreshInv OBVIOUS
<1>1. Fresh \in Record BY Numbers DEF Fresh, Record, Token
<1>2. NoJob \in Jobs /\ NoJob.auth = NoAuth /\ NoJob.age = 0 BY <1>1 DEF NoJob, Jobs
<1>3. \A p \in Procs : pc[p] = "idle" /\ job[p] = NoJob BY DEF RefreshInit
<1>4. \A a \in Auths : rec[a] = Fresh /\ disk[a] = "newest" BY DEF RefreshInit
<1>5. TypeInv
  BY <1>1, <1>2, <1>3 DEF RefreshInit, TypeInv, Labels, Token, Procs
<1>6. ASSUME NEW a \in Auths PROVE GuardedAt(a) BY <1>3 DEF GuardedAt, Young, Active, Procs
<1>7. ASSUME NEW a \in Auths PROVE TokensAt(a)
  BY <1>3, <1>4 DEF TokensAt, Holders, Fresh
<1>. QED BY <1>5, <1>6, <1>7 DEF RefreshInv, AuthInv

\* An auth the step is not about.
LEMMA OtherAuth ==
  ASSUME NEW a \in Auths, GuardedAt(a), TokensAt(a),
         rec'[a] = rec[a], disk'[a] = disk[a], a \in due' => a \in due,
         \A p \in Procs : job[p].auth = a \/ job'[p].auth = a => job'[p] = job[p] /\ pc'[p] = pc[p]
  PROVE  GuardedAt(a)' /\ TokensAt(a)'
<1>1. \A p \in Procs : p \in Holders(a)' => p \in Holders(a) /\ job'[p] = job[p] /\ pc'[p] = pc[p] BY DEF Holders
<1>2. \A p \in Procs : p \in Holders(a) => p \in Holders(a)' /\ job'[p] = job[p] /\ pc'[p] = pc[p] BY DEF Holders
<1>3. \A w \in Workers : Young(a, w)' => Young(a, w) /\ job'[w] = job[w] BY DEF Young, Active, Procs
<1>4. Newer(a)' = Newer(a) BY DEF Newer
<1>5. Holders(a)' = Holders(a) BY <1>1, <1>2 DEF Holders
<1>6. GuardedAt(a)'
  <2>. SUFFICES ASSUME NEW w \in Workers, Young(a, w)'
                PROVE  /\ Guards(rec[a], w)' /\ a \notin due'
                       /\ \A p \in Holders(a)' : Guards(job[p].rec, w)'
                       /\ \A v \in Workers : Young(a, v)' => v = w
    BY DEF GuardedAt
  <2>1. Young(a, w) /\ job'[w] = job[w] BY <1>3
  <2>2. Guards(rec[a], w)' /\ a \notin due' BY <2>1 DEF GuardedAt, Guards
  <2>3. ASSUME NEW p \in Holders(a)' PROVE Guards(job[p].rec, w)'
    BY <1>1, <2>1 DEF GuardedAt, Guards, Holders
  <2>. QED BY <1>3, <2>1, <2>2, <2>3 DEF GuardedAt
<1>7. TokensAt(a)'
  <2>1. rec'[a].token = "stale" => Newer(a)' # {} BY <1>4 DEF TokensAt
  <2>2. \A p \in Holders(a)' : pc'[p] # "network" /\ job'[p].rec.token = "stale" => Newer(a)' # {}
    <3>. SUFFICES ASSUME NEW p \in Holders(a)', pc'[p] # "network", job'[p].rec.token = "stale"
                  PROVE  Newer(a)' # {}
      OBVIOUS
    <3>1. p \in Holders(a) /\ job'[p] = job[p] /\ pc'[p] = pc[p] BY <1>1 DEF Holders
    <3>. QED BY <1>4, <3>1 DEF TokensAt
  <2>3. ASSUME disk'[a] = "stale"
        PROVE  \E p \in Holders(a)' : pc'[p] \in {"update", "persist"} /\ job'[p].rec.token = "newest"
    <3>1. PICK p \in Holders(a) : pc[p] \in {"update", "persist"} /\ job[p].rec.token = "newest"
      BY <2>3 DEF TokensAt
    <3>2. p \in Holders(a)' /\ job'[p] = job[p] /\ pc'[p] = pc[p] BY <1>2, <3>1 DEF Holders
    <3>. QED BY <3>1, <3>2
  <2>. QED BY <2>1, <2>2, <2>3 DEF TokensAt
<1>. QED BY <1>6, <1>7
\* A step of p that is about a alone.
LEMMA OneMover ==
  ASSUME RefreshInv, NEW p \in Procs, NEW a \in Auths,
         job[p].auth \in {a, NoAuth}, job'[p].auth \in {a, NoAuth},
         \A q \in Procs : q # p => job'[q] = job[q] /\ pc'[q] = pc[q],
         \A b \in Auths : b # a => rec'[b] = rec[b] /\ disk'[b] = disk[b],
         due' \subseteq due, crossed \subseteq crossed',
         a \notin crossed' => GuardedAt(a)' /\ TokensAt(a)'
  PROVE  AuthInv'
<1>. SUFFICES ASSUME NEW b \in Auths, b \notin crossed', b # a PROVE GuardedAt(b)' /\ TokensAt(b)'
  BY DEF AuthInv
<1>1. GuardedAt(b) /\ TokensAt(b) BY DEF RefreshInv, AuthInv
<1>2. \A q \in Procs : job[q].auth = b \/ job'[q].auth = b => job'[q] = job[q] /\ pc'[q] = pc[q]
  BY Numbers
<1>. QED BY <1>1, <1>2, OtherAuth

\* Process p moves to l, with a job of its own.
LEMMA ProcType ==
  ASSUME TypeInv, NEW p \in Procs, NEW l \in Labels, Moves(p, l),
         job' \in [Procs -> Jobs], \A q \in Procs : q # p => job'[q] = job[q],
         l = "idle" <=> job'[p].auth = NoAuth, l = "idle" => job'[p].age = 0,
         p \in Workers => l # "store", p \in Operators => l \in {"idle", "store", "persist"},
         rec' \in [Auths -> Record], disk' \in [Auths -> Token], due' \subseteq Auths, crossed' \subseteq Auths
  PROVE  TypeInv' /\ pc'[p] = l /\ \A q \in Procs : q # p => pc'[q] = pc[q]
<1>1. pc' \in [Procs -> Labels] /\ pc'[p] = l /\ \A q \in Procs : q # p => pc'[q] = pc[q]
  BY DEF TypeInv, Moves
<1>2. \A q \in Procs : pc'[q] = "idle" <=> job'[q].auth = NoAuth BY <1>1 DEF TypeInv
<1>3. \A q \in Procs : pc'[q] = "idle" => job'[q].age = 0 BY <1>1 DEF TypeInv
<1>4. \A w \in Workers : pc'[w] # "store" BY <1>1 DEF TypeInv, Procs
<1>5. \A o \in Operators : pc'[o] \in {"idle", "store", "persist"} BY <1>1 DEF TypeInv, Procs
<1>. QED BY <1>1, <1>2, <1>3, <1>4, <1>5 DEF TypeInv

LEMMA Parts ==
  ASSUME TypeInv, NEW p \in Procs
  PROVE  /\ job[p] \in Jobs /\ job[p].rec \in Record /\ job[p].age \in Nat
         /\ job[p].auth \in Auths \cup {NoAuth}
         /\ pc[p] # "idle" => job[p].auth \in Auths
         /\ job[p].auth = NoAuth <=> pc[p] = "idle"
  BY DEF TypeInv, Jobs

LEMMA ChangesType ==
  ASSUME TypeInv, NEW a \in Auths, NEW p, Changes(a, p)
  PROVE  /\ crossed' \subseteq Auths /\ crossed \subseteq crossed'
         /\ a \notin crossed' => \A q \in Procs : q \in Holders(a) => q = p
  BY DEF TypeInv, Changes, Holders

\* The worker's place and job when it is done.
LEMMA Finished ==
  ASSUME TypeInv, NEW p \in Procs, FinishRefresh(p)
  PROVE  /\ Moves(p, "idle") /\ job' \in [Procs -> Jobs] /\ job'[p].auth = NoAuth /\ job'[p].age = 0
         /\ \A q \in Procs : q # p => job'[q] = job[q]
<1>1. Fresh \in Record BY Numbers DEF Fresh, Record, Token
<1>2. NoJob \in Jobs /\ NoJob.auth = NoAuth /\ NoJob.age = 0 BY <1>1 DEF NoJob, Jobs
<1>. QED BY <1>2 DEF TypeInv, FinishRefresh

------------------------------------------------------------------------------
(* The ticker *)

LEMMA RoundStep ==
  ASSUME RefreshInv, checkRefreshes \/ \E a \in Auths : Pass(a)
  PROVE  RefreshInv'
<1>. USE DEF RefreshInv
<1>1. due' \subseteq Auths BY DEF TypeInv, checkRefreshes, Pass
<1>2. UNCHANGED <<rec, disk, pc, job, crossed>> BY DEF checkRefreshes, Pass
<1>3. TypeInv' BY <1>1, <1>2 DEF TypeInv
<1>4. ASSUME NEW a \in Auths, a \notin crossed PROVE GuardedAt(a)' /\ TokensAt(a)'
  <2>1. GuardedAt(a) /\ TokensAt(a) BY <1>4 DEF AuthInv
  <2>2. TokensAt(a)' BY <1>2, <2>1 DEF TokensAt, Newer, Holders
  <2>3. ASSUME NEW w \in Workers, Young(a, w) PROVE a \notin due'
    <3>1. a \notin due /\ Guards(rec[a], w) BY <2>1, <2>3 DEF GuardedAt
    <3>2. CASE checkRefreshes
      <4>. SUFFICES ASSUME a \in due' PROVE FALSE OBVIOUS
      <4>1. rec[a].wait = 0 /\ rec[a].life <= Lead BY <3>2 DEF checkRefreshes, shouldRefresh
      <4>2. job[w].age \in Nat /\ job[w].age < PendingBackoff BY <2>3, Parts DEF Young, Procs
      <4>3. rec[a].life \in Nat BY RecordParts DEF TypeInv
      <4>. QED BY <3>1, <4>1, <4>2, <4>3, Numbers DEF Guards
    <3>3. CASE \E b \in Auths : Pass(b) BY <3>1, <3>3 DEF Pass
    <3>. QED BY <3>2, <3>3
  <2>4. GuardedAt(a)' BY <1>2, <2>1, <2>3 DEF GuardedAt, Young, Guards, Holders, Active
  <2>. QED BY <2>2, <2>4
<1>. QED BY <1>2, <1>3, <1>4 DEF AuthInv

LEMMA LaunchStep ==
  ASSUME RefreshInv, NEW a \in Auths, NEW w \in Workers, Launch(a, w)
  PROVE  RefreshInv'
<1>. USE DEF RefreshInv
<1>0. /\ w \in Procs /\ pc[w] = "idle" /\ job[w].auth = NoAuth /\ job[w].age = 0 /\ a \in due
      /\ disk' = disk /\ due' = due \ {a} /\ Moves(w, "queued") /\ Changes(a, w)
  BY DEF Launch, TypeInv, Procs
<1>1. /\ rec' \in [Auths -> Record] /\ rec'[a].wait = PendingBackoff
      /\ rec'[a].token = rec[a].token /\ \A b \in Auths : b # a => rec'[b] = rec[b]
  <2>1. rec' = [rec EXCEPT ![a] = [rec[a] EXCEPT !.wait = PendingBackoff]] /\ rec[a] \in Record
    BY DEF Launch, markRefreshPending, TypeInv
  <2>2. PendingBackoff \in 0..FailureBackoff BY Numbers
  <2>3. [rec[a] EXCEPT !.wait = PendingBackoff] \in Record
        /\ [rec[a] EXCEPT !.wait = PendingBackoff].wait = PendingBackoff
        /\ [rec[a] EXCEPT !.wait = PendingBackoff].token = rec[a].token
    BY <2>1, <2>2, ChangedRecord, RecordParts
  <2>. QED BY <2>1, <2>3 DEF TypeInv
<1>2. /\ job' \in [Procs -> Jobs] /\ job'[w].auth = a /\ job'[w].age = 0
      /\ \A q \in Procs : q # w => job'[q] = job[q]
  <2>1. job \in [Procs -> [auth : Auths \cup {NoAuth}, rec : Record, age : Nat]] BY DEF TypeInv, Jobs
  <2>2. job' = [job EXCEPT ![w].auth = a] BY DEF Launch
  <2>3. job' \in [Procs -> [auth : Auths \cup {NoAuth}, rec : Record, age : Nat]] BY <1>0, <2>1, <2>2
  <2>4. job'[w].auth = a /\ job'[w].age = 0 BY <1>0, <2>1, <2>2
  <2>5. \A q \in Procs : q # w => job'[q] = job[q] BY <2>1, <2>2
  <2>. QED BY <2>3, <2>4, <2>5 DEF Jobs
<1>3. TypeInv' /\ pc'[w] = "queued" /\ \A q \in Procs : q # w => pc'[q] = pc[q]
  BY <1>0, <1>1, <1>2, ProcType, ChangesType, Numbers DEF TypeInv, Labels, Procs
<1>4. ASSUME a \notin crossed' PROVE GuardedAt(a)' /\ TokensAt(a)'
  <2>1. GuardedAt(a) /\ TokensAt(a) /\ \A q \in Procs : q \in Holders(a) => q = w
    BY <1>0, <1>4, ChangesType DEF AuthInv
  <2>2. Holders(a) = {} BY <1>0, <2>1 DEF Holders
  <2>3. Holders(a)' = {}
    <3>. SUFFICES ASSUME NEW q \in Procs, q \in Holders(a)' PROVE FALSE BY DEF Holders
    <3>1. CASE q = w BY <1>3, <3>1 DEF Holders
    <3>2. CASE q # w BY <1>2, <1>3, <2>2, <3>2 DEF Holders
    <3>. QED BY <3>1, <3>2
  <2>4. \A v \in Workers : ~Young(a, v) BY <1>0, <2>1 DEF GuardedAt
  <2>5. \A v \in Workers : Young(a, v)' => v = w BY <1>2, <1>3, <2>4 DEF Young, Active, Procs
  <2>6. Guards(rec[a], w)' BY <1>1, <1>2, Numbers DEF Guards
  <2>7. GuardedAt(a)' BY <1>0, <2>3, <2>5, <2>6 DEF GuardedAt
  <2>8. Newer(a) = {} BY <2>2 DEF Newer, Holders
  <2>9. TokensAt(a)' BY <1>0, <1>1, <2>1, <2>2, <2>3, <2>8 DEF TokensAt
  <2>. QED BY <2>7, <2>9
<1>5. AuthInv'
  BY <1>0, <1>1, <1>2, <1>3, <1>4, OneMover, ChangesType DEF TypeInv
<1>. QED BY <1>3, <1>5

------------------------------------------------------------------------------
(* The workers *)

\* The moving process takes a copy of the record: nothing else changes.
LEMMA CopyStep ==
  ASSUME RefreshInv, NEW p \in Procs, NEW a \in Auths, NEW l \in {"network", "store"}, Moves(p, l),
         job' \in [Procs -> Jobs], \A q \in Procs : q # p => job'[q] = job[q],
         job[p].auth \in {a, NoAuth}, job'[p].auth = a, job'[p].age = job[p].age,
         pc[p] \in {"idle", "queued"}, p \in Workers => pc[p] = "queued" /\ l = "network",
         p \in Operators => l = "store",
         job'[p].rec.wait = rec[a].wait, job'[p].rec.life = rec[a].life, job'[p].rec.token = rec[a].token,
         UNCHANGED <<rec, disk, due, crossed>>
  PROVE  RefreshInv'
<1>. USE DEF RefreshInv
<1>1. TypeInv' /\ pc'[p] = l /\ \A q \in Procs : q # p => pc'[q] = pc[q]
  BY ProcType, Numbers DEF TypeInv, Labels
<1>2. ASSUME a \notin crossed PROVE GuardedAt(a)' /\ TokensAt(a)'
  <2>1. GuardedAt(a) /\ TokensAt(a) BY <1>2 DEF AuthInv
  <2>2. p \notin Holders(a) BY DEF Holders
  <2>3. \A q \in Procs : q \in Holders(a)' => q = p \/ (q # p /\ q \in Holders(a)) BY <1>1 DEF Holders
  <2>4. \A q \in Procs : q \in Holders(a) => q # p /\ q \in Holders(a)' BY <1>1, <2>2 DEF Holders
  <2>5. \A w \in Workers : Young(a, w)' => Young(a, w) /\ job'[w].age = job[w].age
    <3>. SUFFICES ASSUME NEW w \in Workers, Young(a, w)' PROVE Young(a, w) /\ job'[w].age = job[w].age
      OBVIOUS
    <3>1. CASE w = p
      <4>1. job[p].auth = a BY <3>1, Numbers DEF TypeInv
      <4>. QED BY <3>1, <4>1 DEF Young, Active
    <3>2. CASE w # p BY <1>1, <3>2 DEF Young, Active, Procs
    <3>. QED BY <3>1, <3>2
  <2>6. GuardedAt(a)'
    <3>. SUFFICES ASSUME NEW w \in Workers, Young(a, w)'
                  PROVE  /\ Guards(rec[a], w)' /\ a \notin due'
                         /\ \A q \in Holders(a)' : Guards(job[q].rec, w)'
                         /\ \A v \in Workers : Young(a, v)' => v = w
      BY DEF GuardedAt
    <3>1. Young(a, w) /\ job'[w].age = job[w].age BY <2>5
    <3>2. Guards(rec[a], w)' /\ a \notin due' BY <2>1, <3>1 DEF GuardedAt, Guards
    <3>3. ASSUME NEW q \in Holders(a)' PROVE Guards(job[q].rec, w)'
      <4>1. CASE q = p BY <3>1, <3>2, <4>1 DEF Guards
      <4>2. CASE q # p BY <2>1, <2>3, <3>1, <4>2 DEF Guards, GuardedAt, Holders
      <4>. QED BY <4>1, <4>2
    <3>. QED BY <2>1, <2>5, <3>1, <3>2, <3>3 DEF GuardedAt
  <2>7. \A q \in Procs : q \in Newer(a) => q \in Newer(a)' BY <1>1 DEF Newer
  <2>8. TokensAt(a)'
    <3>1. rec'[a].token = "stale" => Newer(a)' # {} BY <2>1, <2>7 DEF TokensAt, Newer
    <3>2. ASSUME NEW q \in Holders(a)', pc'[q] # "network", job'[q].rec.token = "stale" PROVE Newer(a)' # {}
      <4>1. CASE q = p BY <3>1, <3>2, <4>1
      <4>2. CASE q # p
        <5>1. q \in Holders(a) /\ job'[q] = job[q] /\ pc'[q] = pc[q] BY <1>1, <2>3, <4>2 DEF Holders
        <5>2. Newer(a) # {} BY <2>1, <3>2, <5>1 DEF TokensAt
        <5>. QED BY <2>7, <5>2 DEF Newer
      <4>. QED BY <4>1, <4>2
    <3>3. ASSUME disk'[a] = "stale"
          PROVE  \E q \in Holders(a)' : pc'[q] \in {"update", "persist"} /\ job'[q].rec.token = "newest"
      <4>1. PICK q \in Holders(a) : pc[q] \in {"update", "persist"} /\ job[q].rec.token = "newest"
        BY <2>1, <3>3 DEF TokensAt
      <4>2. q \in Procs BY DEF Holders
      <4>3. q # p /\ q \in Holders(a)' BY <2>4, <4>2
      <4>. QED BY <1>1, <4>1, <4>2, <4>3
    <3>. QED BY <3>1, <3>2, <3>3 DEF TokensAt
  <2>. QED BY <2>6, <2>8
<1>3. AuthInv' BY <1>1, <1>2, OneMover DEF TypeInv
<1>. QED BY <1>1, <1>3

LEMMA BeginStep ==
  ASSUME RefreshInv, NEW w \in Workers, BeginRefresh(w)
  PROVE  RefreshInv'
<1>. USE DEF RefreshInv
<1>1. w \in Procs /\ pc[w] = "queued" /\ Moves(w, "network") /\ UNCHANGED <<rec, disk, due, crossed>>
  BY DEF BeginRefresh, Procs
<1>2. job[w].auth \in Auths BY <1>1, Parts
<1>3. job \in [Procs -> [auth : Auths \cup {NoAuth}, rec : Record, age : Nat]] BY DEF TypeInv, Jobs
<1>4. rec[job[w].auth] \in Record /\ job' = [job EXCEPT ![w].rec = rec[job[w].auth]]
  BY <1>2 DEF TypeInv, BeginRefresh
<1>5. job' \in [Procs -> [auth : Auths \cup {NoAuth}, rec : Record, age : Nat]] BY <1>1, <1>3, <1>4
<1>6. job'[w].auth = job[w].auth /\ job'[w].age = job[w].age /\ job'[w].rec = rec[job[w].auth]
  BY <1>1, <1>3, <1>4
<1>7. \A q \in Procs : q # w => job'[q] = job[q] BY <1>3, <1>4
<1>8. w \notin Operators BY Numbers
<1>. QED BY <1>1, <1>2, <1>5, <1>6, <1>7, <1>8, CopyStep DEF Jobs

LEMMA EditStep ==
  ASSUME RefreshInv, NEW o \in Operators, NEW a \in Auths, NEW disabled \in BOOLEAN, Edit(o, a, disabled)
  PROVE  RefreshInv'
<1>. USE DEF RefreshInv
<1>1. o \in Procs /\ pc[o] = "idle" /\ Moves(o, "store") /\ UNCHANGED <<rec, disk, due, crossed>>
  BY DEF Edit, Procs
<1>2. job[o].auth = NoAuth BY <1>1, Parts
<1>3. job \in [Procs -> [auth : Auths \cup {NoAuth}, rec : Record, age : Nat]] BY DEF TypeInv, Jobs
<1>4. rec[a] \in Record BY DEF TypeInv
<1>5. PICK r \in Record : /\ r = [rec[a] EXCEPT !.disabled = disabled]
                          /\ r.wait = rec[a].wait /\ r.life = rec[a].life /\ r.token = rec[a].token
  <2>1. "none" \in {"none"} \cup Results /\ 0 \in 0..FailureBackoff BY Numbers
  <2>. QED BY <1>4, <2>1, ChangedRecord
<1>6. job' = [job EXCEPT ![o].auth = a, ![o].rec = r] BY <1>5 DEF Edit
<1>7. job' \in [Procs -> [auth : Auths \cup {NoAuth}, rec : Record, age : Nat]] BY <1>1, <1>3, <1>6
<1>8. job'[o].auth = a /\ job'[o].age = job[o].age /\ job'[o].rec = r BY <1>1, <1>3, <1>6
<1>9. \A q \in Procs : q # o => job'[q] = job[q] BY <1>3, <1>6
<1>10. o \notin Workers BY Numbers
<1>11. /\ job'[o].rec.wait = rec[a].wait /\ job'[o].rec.life = rec[a].life
       /\ job'[o].rec.token = rec[a].token
  BY <1>5, <1>8
<1>12. job' \in [Procs -> Jobs] BY <1>7 DEF Jobs
<1>. QED BY <1>1, <1>2, <1>8, <1>9, <1>10, <1>11, <1>12, CopyStep

\* The copy of p replaces the record.
LEMMA StoreStep ==
  ASSUME RefreshInv, NEW p \in Procs, pc[p] \in {"update", "store"},
         Update(job[p].auth, job[p].rec), Changes(job[p].auth, p), Moves(p, "persist"),
         UNCHANGED <<disk, job, due>>
  PROVE  RefreshInv'
<1>. USE DEF RefreshInv
<1>1. PICK a \in Auths : a = job[p].auth BY Parts
<1>2. /\ rec' \in [Auths -> Record] /\ rec'[a].token = job[p].rec.token /\ rec'[a].life = job[p].rec.life
      /\ rec'[a].wait = job[p].rec.wait /\ \A b \in Auths : b # a => rec'[b] = rec[b]
  <2>1. rec[a] \in Record /\ job[p].rec \in Record BY Parts DEF TypeInv
  <2>2. rec' = [rec EXCEPT ![a] = Merged(job[p].rec, rec[a])] BY <1>1 DEF Update
  <2>. QED BY <2>1, <2>2, MergedRecord DEF TypeInv
<1>3. TypeInv' /\ pc'[p] = "persist" /\ \A q \in Procs : q # p => pc'[q] = pc[q]
  <2>1. job' \in [Procs -> Jobs] /\ disk' \in [Auths -> Token] /\ due' \subseteq Auths BY DEF TypeInv
  <2>2. crossed' \subseteq Auths BY <1>1, ChangesType
  <2>3. job'[p].auth # NoAuth BY <1>1, Numbers
  <2>. QED BY <1>2, <2>1, <2>2, <2>3, ProcType DEF Labels
<1>4. ASSUME a \notin crossed' PROVE GuardedAt(a)' /\ TokensAt(a)'
  <2>1. GuardedAt(a) /\ TokensAt(a) /\ \A q \in Procs : q \in Holders(a) => q = p
    BY <1>1, <1>4, ChangesType DEF AuthInv
  <2>2. p \in Holders(a) BY <1>1 DEF Holders
  <2>3. \A q \in Procs : q \in Holders(a)' => q = p BY <1>3, <2>1 DEF Holders
  <2>4. job[p].rec.token = "newest"
    <3>1. job[p].rec.token \in {"newest", "stale"} BY Parts, RecordParts DEF Token
    <3>2. ASSUME job[p].rec.token = "stale" PROVE FALSE
      <4>1. PICK q \in Newer(a) : TRUE BY <2>1, <2>2, <3>2 DEF TokensAt
      <4>2. q \in Procs /\ q \in Holders(a) /\ job[q].rec.token = "newest" BY <4>1 DEF Newer, Holders
      <4>. QED BY <2>1, <3>2, <4>2
    <3>. QED BY <3>1, <3>2
  <2>5. \A w \in Workers : Young(a, w)' => Young(a, w)
    <3>. SUFFICES ASSUME NEW w \in Workers, Young(a, w)' PROVE Young(a, w) OBVIOUS
    <3>1. w \in Procs BY DEF Procs
    <3>. QED BY <1>3, <3>1 DEF Young, Active
  <2>6. GuardedAt(a)'
    <3>. SUFFICES ASSUME NEW w \in Workers, Young(a, w)'
                  PROVE  /\ Guards(rec[a], w)' /\ a \notin due'
                         /\ \A q \in Holders(a)' : Guards(job[q].rec, w)'
                         /\ \A v \in Workers : Young(a, v)' => v = w
      BY DEF GuardedAt
    <3>1. Young(a, w) BY <2>5
    <3>2. Guards(job[p].rec, w) /\ a \notin due BY <2>1, <2>2, <3>1 DEF GuardedAt
    <3>3. Guards(rec[a], w)' BY <1>2, <3>2 DEF Guards
    <3>4. \A q \in Holders(a)' : Guards(job[q].rec, w)' BY <2>3, <3>2 DEF Guards, Holders
    <3>. QED BY <2>1, <2>5, <3>1, <3>2, <3>3, <3>4 DEF GuardedAt
  <2>7. p \in Holders(a)' BY <1>1, <1>3 DEF Holders
  <2>8. TokensAt(a)'
    <3>1. rec'[a].token # "stale" BY <1>2, <2>4
    <3>2. \A q \in Holders(a)' : job'[q].rec.token # "stale" BY <2>3, <2>4 DEF Holders
    <3>3. \E q \in Holders(a)' : pc'[q] \in {"update", "persist"} /\ job'[q].rec.token = "newest"
      BY <1>3, <2>4, <2>7
    <3>. QED BY <3>1, <3>2, <3>3 DEF TokensAt
  <2>. QED BY <2>6, <2>8
<1>5. AuthInv' BY <1>1, <1>2, <1>3, <1>4, OneMover, ChangesType
<1>. QED BY <1>3, <1>5

\* The process p is done with the auth a: what the others hold is as before.
LEMMA DoneFrame ==
  ASSUME TypeInv, NEW p \in Procs, NEW a \in Auths, FinishRefresh(p), pc[p] # "update"
  PROVE  /\ pc'[p] = "idle" /\ job'[p].auth = NoAuth
         /\ \A q \in Procs : q # p => pc'[q] = pc[q] /\ job'[q] = job[q]
         /\ \A q \in Procs : q \in Holders(a)' <=> q # p /\ q \in Holders(a)
         /\ \A w \in Workers : Young(a, w)' => Young(a, w) /\ job'[w] = job[w]
         /\ Newer(a)' = Newer(a)
<1>1. /\ pc'[p] = "idle" /\ job'[p].auth = NoAuth
      /\ \A q \in Procs : q # p => pc'[q] = pc[q] /\ job'[q] = job[q]
  BY Finished DEF Moves, TypeInv
<1>2. \A q \in Procs : q \in Holders(a)' <=> q # p /\ q \in Holders(a) BY <1>1 DEF Holders
<1>3. \A w \in Workers : Young(a, w)' => Young(a, w) /\ job'[w] = job[w]
  BY <1>1 DEF Young, Active, Procs
<1>4. Newer(a)' = Newer(a) BY <1>1, Numbers DEF Newer
<1>. QED BY <1>1, <1>2, <1>3, <1>4

LEMMA PersistStep ==
  ASSUME RefreshInv, NEW p \in Procs, Persist(p)
  PROVE  RefreshInv'
<1>. USE DEF RefreshInv
<1>0. pc[p] = "persist" /\ FinishRefresh(p) /\ UNCHANGED <<rec, due, crossed>> BY DEF Persist
<1>1. PICK a \in Auths : a = job[p].auth BY <1>0, Parts
<1>2. job[p].rec.token \in Token BY Parts, RecordParts
<1>3. disk' \in [Auths -> Token] /\ disk'[a] = job[p].rec.token /\ \A b \in Auths : b # a => disk'[b] = disk[b]
  BY <1>1, <1>2 DEF Persist, TypeInv
<1>4. TypeInv' BY <1>0, <1>3, Finished, ProcType DEF TypeInv, Labels
<1>5. ASSUME a \notin crossed PROVE GuardedAt(a)' /\ TokensAt(a)'
  <2>1. GuardedAt(a) /\ TokensAt(a) BY <1>5 DEF AuthInv
  <2>2. /\ \A q \in Procs : q # p => pc'[q] = pc[q] /\ job'[q] = job[q]
        /\ \A q \in Procs : q \in Holders(a)' <=> q # p /\ q \in Holders(a)
        /\ \A w \in Workers : Young(a, w)' => Young(a, w) /\ job'[w] = job[w]
        /\ Newer(a)' = Newer(a)
    BY <1>0, DoneFrame
  <2>3. GuardedAt(a)'
    <3>. SUFFICES ASSUME NEW w \in Workers, Young(a, w)'
                  PROVE  /\ Guards(rec[a], w)' /\ a \notin due'
                         /\ \A q \in Holders(a)' : Guards(job[q].rec, w)'
                         /\ \A v \in Workers : Young(a, v)' => v = w
      BY DEF GuardedAt
    <3>1. Young(a, w) /\ job'[w] = job[w] BY <2>2
    <3>2. Guards(rec[a], w)' /\ a \notin due' BY <1>0, <2>1, <3>1 DEF GuardedAt, Guards
    <3>3. \A q \in Holders(a)' : Guards(job[q].rec, w)' BY <2>1, <2>2, <3>1 DEF GuardedAt, Guards, Holders
    <3>. QED BY <2>1, <2>2, <3>1, <3>2, <3>3 DEF GuardedAt
  <2>4. rec'[a].token = "stale" => Newer(a)' # {} BY <1>0, <2>1, <2>2 DEF TokensAt
  <2>5. ASSUME NEW q \in Holders(a)', pc'[q] # "network", job'[q].rec.token = "stale" PROVE Newer(a)' # {}
    <3>1. q \in Procs /\ q # p /\ q \in Holders(a) BY <2>2 DEF Holders
    <3>. QED BY <2>1, <2>2, <2>5, <3>1 DEF TokensAt
  <2>6. ASSUME disk'[a] = "stale"
        PROVE  \E q \in Holders(a)' : pc'[q] \in {"update", "persist"} /\ job'[q].rec.token = "newest"
    <3>1. p \in Holders(a) BY <1>0, <1>1 DEF Holders
    <3>2. PICK q \in Newer(a) : TRUE BY <1>0, <1>3, <2>1, <2>6, <3>1 DEF TokensAt
    <3>3. q \in Procs /\ q # p /\ q \in Holders(a) /\ pc[q] = "update" /\ job[q].rec.token = "newest"
      BY <1>0, <3>2 DEF Newer, Holders
    <3>. QED BY <2>2, <3>3
  <2>. QED BY <2>3, <2>4, <2>5, <2>6 DEF TokensAt
<1>6. AuthInv'
  <2>1. job'[p].auth = NoAuth /\ \A q \in Procs : q # p => pc'[q] = pc[q] /\ job'[q] = job[q]
    BY <1>0, <1>1, DoneFrame
  <2>. QED BY <1>0, <1>1, <1>3, <1>5, <2>1, OneMover
<1>. QED BY <1>4, <1>6

LEMMA FailStep ==
  ASSUME RefreshInv, NEW w \in Workers, RefreshFails(w)
  PROVE  RefreshInv'
<1>. USE DEF RefreshInv
<1>0. /\ w \in Procs /\ pc[w] = "network" /\ FinishRefresh(w) /\ Changes(job[w].auth, w)
      /\ disk' = disk /\ due' = due
  BY DEF RefreshFails, Procs
<1>1. PICK a \in Auths : a = job[w].auth BY <1>0, Parts
<1>2. /\ rec' \in [Auths -> Record] /\ rec'[a].wait = FailureBackoff
      /\ rec'[a].token = rec[a].token /\ \A b \in Auths : b # a => rec'[b] = rec[b]
  <2>1. rec' = [rec EXCEPT ![a] = [rec[a] EXCEPT !.wait = FailureBackoff]] /\ rec[a] \in Record
    BY <1>1 DEF RefreshFails, TypeInv
  <2>2. FailureBackoff \in 0..FailureBackoff BY Numbers
  <2>3. [rec[a] EXCEPT !.wait = FailureBackoff] \in Record
        /\ [rec[a] EXCEPT !.wait = FailureBackoff].wait = FailureBackoff
        /\ [rec[a] EXCEPT !.wait = FailureBackoff].token = rec[a].token
    BY <2>1, <2>2, ChangedRecord, RecordParts
  <2>. QED BY <2>1, <2>3 DEF TypeInv
<1>3. crossed' \subseteq Auths /\ crossed \subseteq crossed' BY <1>0, <1>1, ChangesType
<1>4. TypeInv' BY <1>0, <1>2, <1>3, Finished, ProcType DEF TypeInv, Labels
<1>5. /\ job'[w].auth = NoAuth
      /\ \A q \in Procs : q # w => pc'[q] = pc[q] /\ job'[q] = job[q]
      /\ \A q \in Procs : q \in Holders(a)' <=> q # w /\ q \in Holders(a)
      /\ \A v \in Workers : Young(a, v)' => Young(a, v) /\ job'[v] = job[v]
      /\ Newer(a)' = Newer(a)
  BY <1>0, DoneFrame
<1>6. ASSUME a \notin crossed' PROVE GuardedAt(a)' /\ TokensAt(a)'
  <2>1. GuardedAt(a) /\ TokensAt(a) /\ \A q \in Procs : q \in Holders(a) => q = w
    BY <1>0, <1>1, <1>3, <1>6, ChangesType DEF AuthInv
  <2>2. Holders(a)' = {} BY <1>5, <2>1 DEF Holders
  <2>3. GuardedAt(a)'
    <3>. SUFFICES ASSUME NEW v \in Workers, Young(a, v)'
                  PROVE  Guards(rec[a], v)' /\ a \notin due' /\ \A u \in Workers : Young(a, u)' => u = v
      BY <2>2 DEF GuardedAt
    <3>1. Young(a, v) /\ job'[v] = job[v] /\ job[v].age \in Nat BY <1>5, Parts DEF Procs
    <3>2. Guards(rec[a], v)' BY <1>2, <3>1, Numbers DEF Guards
    <3>. QED BY <1>0, <1>5, <2>1, <3>1, <3>2 DEF GuardedAt
  <2>4. Newer(a) = {} BY <1>0, <2>1 DEF Newer, Holders
  <2>5. disk[a] # "stale" BY <1>0, <2>1 DEF TokensAt, Holders
  <2>6. TokensAt(a)' BY <1>0, <1>2, <2>1, <2>2, <2>4, <2>5 DEF TokensAt
  <2>. QED BY <2>3, <2>6
<1>7. AuthInv' BY <1>0, <1>1, <1>2, <1>3, <1>5, <1>6, OneMover
<1>. QED BY <1>4, <1>7

LEMMA WithRec ==
  ASSUME NEW j \in Jobs, NEW r \in Record
  PROVE  /\ [j EXCEPT !.rec = r] \in Jobs /\ [j EXCEPT !.rec = r].rec = r
         /\ [j EXCEPT !.rec = r].auth = j.auth /\ [j EXCEPT !.rec = r].age = j.age
<1>1. j \in [auth : Auths \cup {NoAuth}, rec : Record, age : Nat] BY DEF Jobs
<1>2. [j EXCEPT !.rec = r] \in Jobs BY <1>1 DEF Jobs
<1>3. [j EXCEPT !.rec = r].rec = r /\ [j EXCEPT !.rec = r].auth = j.auth /\ [j EXCEPT !.rec = r].age = j.age
  BY <1>1
<1>. QED BY <1>2, <1>3

LEMMA IssueStep ==
  ASSUME RefreshInv, NEW w \in Workers, Issue(w)
  PROVE  RefreshInv'
<1>. USE DEF RefreshInv
<1>0. w \in Procs /\ pc[w] = "network" /\ Moves(w, "update") /\ UNCHANGED <<due, crossed>>
  BY DEF Issue, Procs
<1>1. PICK a \in Auths : a = job[w].auth BY <1>0, Parts
<1>2. /\ rec' \in [Auths -> Record] /\ rec'[a].life = rec[a].life /\ rec'[a].wait = rec[a].wait
      /\ \A b \in Auths : b # a => rec'[b] = rec[b]
  BY <1>1, OutdatedRecord DEF Issue, TypeInv
<1>3. disk' \in [Auths -> Token] /\ \A b \in Auths : b # a => disk'[b] = disk[b]
  BY <1>1 DEF Issue, TypeInv, Token
<1>4. ASSUME NEW p \in Procs
      PROVE  /\ job'[p] \in Jobs /\ job'[p].auth = job[p].auth /\ job'[p].age = job[p].age
             /\ p = w => job'[p].rec.life = Life /\ job'[p].rec.token = "newest"
             /\ p # w => job'[p].rec.life = job[p].rec.life /\ job'[p].rec.wait = job[p].rec.wait
             /\ job[p].auth # a => job'[p] = job[p]
  <2>0. job[p] \in Jobs /\ job[p].rec \in Record BY Parts
  <2>1. CASE p = w
    <3>1. job'[p] = [job[p] EXCEPT !.rec = Issued(job[p].rec)] BY <2>1 DEF Issue
    <3>2. PICK r \in Record : r = Issued(job[p].rec) /\ r.life = Life /\ r.token = "newest"
      BY <2>0, IssuedRecord
    <3>3. job'[p] = [job[p] EXCEPT !.rec = r] BY <3>1, <3>2
    <3>. QED BY <1>1, <2>0, <2>1, <3>2, <3>3, WithRec
  <2>2. CASE p # w /\ job[p].auth = a
    <3>1. job'[p] = [job[p] EXCEPT !.rec = Outdated(job[p].rec)] BY <1>1, <2>2 DEF Issue
    <3>2. PICK r \in Record : r = Outdated(job[p].rec) /\ r.life = job[p].rec.life /\ r.wait = job[p].rec.wait
      BY <2>0, OutdatedRecord
    <3>3. job'[p] = [job[p] EXCEPT !.rec = r] BY <3>1, <3>2
    <3>. QED BY <2>0, <2>2, <3>2, <3>3, WithRec
  <2>3. CASE p # w /\ job[p].auth # a
    <3>1. job'[p] = job[p] BY <1>1, <2>3 DEF Issue
    <3>. QED BY <2>0, <2>3, <3>1
  <2>. QED BY <2>1, <2>2, <2>3
<1>10. pc' \in [Procs -> Labels] /\ pc'[w] = "update" /\ \A p \in Procs : p # w => pc'[p] = pc[p]
  BY <1>0 DEF Moves, TypeInv, Labels
<1>11. TypeInv'
  <2>1. job' \in [Procs -> Jobs] BY <1>4 DEF Issue
  <2>2. \A p \in Procs : pc'[p] = "idle" <=> pc[p] = "idle" BY <1>0, <1>10
  <2>3. \A v \in Workers : pc'[v] # "store" BY <1>10 DEF TypeInv, Procs
  <2>4. \A o \in Operators : pc'[o] \in {"idle", "store", "persist"} BY <1>10, Numbers DEF TypeInv, Procs
  <2>. QED BY <1>0, <1>2, <1>3, <1>4, <1>10, <2>1, <2>2, <2>3, <2>4 DEF TypeInv
<1>12. ASSUME a \notin crossed PROVE GuardedAt(a)' /\ TokensAt(a)'
  <2>1. GuardedAt(a) /\ TokensAt(a) BY <1>12 DEF AuthInv
  <2>2. \A p \in Procs : p \in Holders(a)' <=> p \in Holders(a) BY <1>0, <1>4, <1>10 DEF Holders
  <2>3. \A v \in Workers : Young(a, v)' => Young(a, v) /\ job'[v].age = job[v].age
    BY <1>0, <1>4, <1>10 DEF Young, Active, Procs
  <2>4. GuardedAt(a)'
    <3>. SUFFICES ASSUME NEW v \in Workers, Young(a, v)'
                  PROVE  /\ Guards(rec[a], v)' /\ a \notin due'
                         /\ \A p \in Holders(a)' : Guards(job[p].rec, v)'
                         /\ \A u \in Workers : Young(a, u)' => u = v
      BY DEF GuardedAt
    <3>1. Young(a, v) /\ job'[v].age = job[v].age /\ job[v].age \in Nat BY <2>3, Parts DEF Procs
    <3>2. Guards(rec[a], v)' /\ a \notin due' BY <1>0, <1>2, <2>1, <3>1 DEF GuardedAt, Guards
    <3>3. ASSUME NEW p \in Holders(a)' PROVE Guards(job[p].rec, v)'
      <4>1. p \in Procs /\ p \in Holders(a) BY <2>2 DEF Holders
      <4>2. CASE p = w
        <5>1. job'[p].rec.life = Life BY <1>0, <1>4, <4>2
        <5>. QED BY <3>1, <5>1, Numbers DEF Guards
      <4>3. CASE p # w BY <1>4, <2>1, <3>1, <4>1, <4>3 DEF Guards, GuardedAt
      <4>. QED BY <4>2, <4>3
    <3>. QED BY <2>1, <2>3, <3>1, <3>2, <3>3 DEF GuardedAt
  <2>5. job'[w].auth = a /\ job'[w].rec.token = "newest" BY <1>0, <1>1, <1>4
  <2>6. w \in Newer(a)' BY <1>0, <1>10, <2>5 DEF Newer
  <2>7. w \in Holders(a)' BY <1>0, <1>10, <2>5 DEF Holders
  <2>8. TokensAt(a)' BY <1>10, <2>5, <2>6, <2>7 DEF TokensAt
  <2>. QED BY <2>4, <2>8
<1>13. ASSUME NEW b \in Auths, b # a, b \notin crossed' PROVE GuardedAt(b)' /\ TokensAt(b)'
  <2>1. GuardedAt(b) /\ TokensAt(b) BY <1>0, <1>13 DEF AuthInv
  <2>2. \A p \in Procs : job[p].auth = b \/ job'[p].auth = b => job'[p] = job[p] /\ pc'[p] = pc[p]
    BY <1>1, <1>4, <1>10, <1>13
  <2>. QED BY <1>0, <1>2, <1>3, <1>13, <2>1, <2>2, OtherAuth
<1>14. AuthInv' BY <1>0, <1>12, <1>13 DEF AuthInv
<1>. QED BY <1>11, <1>14

------------------------------------------------------------------------------
(* Requests and time *)

LEMMA ResultStep ==
  ASSUME RefreshInv, NEW a \in Auths, NEW s \in Results, Result(a, s)
  PROVE  RefreshInv'
<1>. USE DEF RefreshInv
<1>0. UNCHANGED <<pc, job, due, crossed>> BY DEF Result
<1>1. /\ rec' \in [Auths -> Record] /\ rec'[a].token = rec[a].token
      /\ rec'[a].life = rec[a].life /\ rec'[a].wait = rec[a].wait
      /\ \A b \in Auths : b # a => rec'[b] = rec[b]
  <2>1. rec' = [rec EXCEPT ![a] = [rec[a] EXCEPT !.states = s]] /\ rec[a] \in Record BY DEF Result, TypeInv
  <2>2. [rec[a] EXCEPT !.states = s] \in Record
        /\ [rec[a] EXCEPT !.states = s].token = rec[a].token
        /\ [rec[a] EXCEPT !.states = s].life = rec[a].life
        /\ [rec[a] EXCEPT !.states = s].wait = rec[a].wait
    <3>1. s \in {"none"} \cup Results /\ 0 \in 0..FailureBackoff /\ TRUE \in BOOLEAN BY Numbers
    <3>. QED BY <2>1, <3>1, ChangedRecord
  <2>. QED BY <2>1, <2>2 DEF TypeInv
<1>2. /\ disk' \in [Auths -> Token] /\ disk'[a] = rec[a].token
      /\ \A b \in Auths : b # a => disk'[b] = disk[b]
  <2>1. rec[a].token \in Token BY RecordParts DEF TypeInv
  <2>. QED BY <2>1 DEF Result, TypeInv
<1>3. TypeInv' BY <1>0, <1>1, <1>2 DEF TypeInv
<1>4. ASSUME a \notin crossed PROVE GuardedAt(a)' /\ TokensAt(a)'
  <2>1. GuardedAt(a) /\ TokensAt(a) BY <1>4 DEF AuthInv
  <2>2. GuardedAt(a)' BY <1>0, <1>1, <2>1 DEF GuardedAt, Young, Guards, Holders, Active
  <2>3. Newer(a)' = Newer(a) /\ Holders(a)' = Holders(a) BY <1>0 DEF Newer, Holders
  <2>4. ASSUME disk'[a] = "stale"
        PROVE  \E p \in Holders(a)' : pc'[p] \in {"update", "persist"} /\ job'[p].rec.token = "newest"
    <3>1. PICK p \in Newer(a) : TRUE BY <1>2, <2>1, <2>4 DEF TokensAt
    <3>. QED BY <1>0, <2>3, <3>1 DEF Newer, Holders
  <2>5. TokensAt(a)' BY <1>0, <1>1, <2>1, <2>3, <2>4 DEF TokensAt
  <2>. QED BY <2>2, <2>5
<1>5. ASSUME NEW b \in Auths, b # a, b \notin crossed PROVE GuardedAt(b)' /\ TokensAt(b)'
  BY <1>0, <1>1, <1>2, <1>5, OtherAuth DEF AuthInv
<1>6. AuthInv' BY <1>0, <1>4, <1>5 DEF AuthInv
<1>. QED BY <1>3, <1>6

LEMMA TickStep ==
  ASSUME RefreshInv, Tick
  PROVE  RefreshInv'
<1>. USE DEF RefreshInv
<1>0. UNCHANGED <<disk, pc, due, crossed>> BY DEF Tick
<1>1. rec' = [a \in Auths |-> older(rec[a])] BY DEF Tick
<1>2. \A p \in Procs : /\ job'[p] \in Jobs
                       /\ job'[p].auth = job[p].auth
                       /\ pc[p] = "idle" => job'[p].age = 0
                       /\ pc[p] # "idle" => job'[p].rec = older(job[p].rec)
                       /\ pc[p] # "idle" /\ p \in Workers => job'[p].age = job[p].age + 1
  <2>. SUFFICES ASSUME NEW p \in Procs
                PROVE  /\ job'[p] \in Jobs
                       /\ job'[p].auth = job[p].auth
                       /\ pc[p] = "idle" => job'[p].age = 0
                       /\ pc[p] # "idle" => job'[p].rec = older(job[p].rec)
                       /\ pc[p] # "idle" /\ p \in Workers => job'[p].age = job[p].age + 1
    OBVIOUS
  <2>1. CASE pc[p] = "idle"
    <3>1. Fresh \in Record BY Numbers DEF Fresh, Record, Token
    <3>2. NoJob \in Jobs /\ NoJob.auth = NoAuth /\ NoJob.age = 0 BY <3>1 DEF NoJob, Jobs
    <3>3. job'[p] = NoJob BY <2>1 DEF Tick
    <3>. QED BY <2>1, <3>2, <3>3 DEF TypeInv
  <2>2. CASE pc[p] # "idle"
    <3>1. older(job[p].rec) \in Record /\ job[p].age \in Nat BY Parts, OlderRecord
    <3>2. job'[p] = [job[p] EXCEPT !.rec = older(@), !.age = IF p \in Workers THEN @ + 1 ELSE @]
      BY <2>2 DEF Tick
    <3>3. PICK n \in Nat : n = IF p \in Workers THEN job[p].age + 1 ELSE job[p].age BY <3>1
    <3>4. job'[p] = [job[p] EXCEPT !.rec = older(job[p].rec), !.age = n] BY <3>2, <3>3
    <3>5. job[p] \in [auth : Auths \cup {NoAuth}, rec : Record, age : Nat] BY Parts DEF Jobs
    <3>6. job'[p] \in Jobs BY <3>1, <3>4, <3>5 DEF Jobs
    <3>7. job'[p].auth = job[p].auth /\ job'[p].rec = older(job[p].rec) /\ job'[p].age = n BY <3>4, <3>5
    <3>. QED BY <2>2, <3>3, <3>6, <3>7
  <2>. QED BY <2>1, <2>2
<1>3. TypeInv'
  <2>1. rec' \in [Auths -> Record] BY <1>1, OlderRecord DEF TypeInv
  <2>2. job' \in [Procs -> Jobs] BY <1>2 DEF Tick
  <2>. QED BY <1>0, <1>2, <2>1, <2>2 DEF TypeInv
<1>4. ASSUME NEW a \in Auths, a \notin crossed PROVE GuardedAt(a)' /\ TokensAt(a)'
  <2>1. GuardedAt(a) /\ TokensAt(a) BY <1>4 DEF AuthInv
  <2>2. \A w \in Workers : Young(a, w)' => Young(a, w) /\ job'[w].age = job[w].age + 1 /\ job[w].age \in Nat
    <3>. SUFFICES ASSUME NEW w \in Workers, Young(a, w)'
                  PROVE  Young(a, w) /\ job'[w].age = job[w].age + 1 /\ job[w].age \in Nat
      OBVIOUS
    <3>1. w \in Procs /\ pc[w] # "idle" BY <1>0 DEF Young, Active, Procs
    <3>2. job[w].age \in Nat /\ job'[w].age = job[w].age + 1 /\ job'[w].auth = job[w].auth BY <1>2, <3>1, Parts
    <3>. QED BY <1>0, <3>2, Numbers DEF Young, Active
  <2>3. ASSUME NEW r \in Record, NEW w \in Workers, Guards(r, w), job[w].age \in Nat,
               job'[w].age = job[w].age + 1
        PROVE  older(r).wait + job'[w].age >= PendingBackoff \/ older(r).life + job'[w].age >= Life
    <3>1. /\ r.life \in Nat /\ r.wait \in Nat /\ older(r).life \in Nat /\ older(r).wait \in Nat
          /\ older(r).life + 1 >= r.life /\ older(r).wait + 1 >= r.wait
      BY OlderRecord, RecordParts
    <3>. QED BY <2>3, <3>1, Numbers DEF Guards
  <2>4. Holders(a)' = Holders(a) BY <1>0, <1>2 DEF Holders
  <2>5. \A p \in Holders(a) : p \in Procs /\ job[p].rec \in Record /\ job'[p].rec = older(job[p].rec)
    BY <1>2, Parts DEF Holders
  <2>6. GuardedAt(a)'
    <3>. SUFFICES ASSUME NEW w \in Workers, Young(a, w)'
                  PROVE  /\ Guards(rec[a], w)' /\ a \notin due'
                         /\ \A p \in Holders(a)' : Guards(job[p].rec, w)'
                         /\ \A v \in Workers : Young(a, v)' => v = w
      BY DEF GuardedAt
    <3>1. Young(a, w) /\ job'[w].age = job[w].age + 1 /\ job[w].age \in Nat BY <2>2
    <3>2. Guards(rec[a], w) /\ a \notin due /\ rec[a] \in Record BY <2>1, <3>1 DEF GuardedAt, TypeInv
    <3>3. Guards(rec[a], w)' /\ a \notin due' BY <1>0, <1>1, <2>3, <3>1, <3>2 DEF Guards
    <3>4. ASSUME NEW p \in Holders(a)' PROVE Guards(job[p].rec, w)'
      <4>1. p \in Holders(a) BY <2>4
      <4>2. Guards(job[p].rec, w) BY <2>1, <3>1, <4>1 DEF GuardedAt
      <4>3. job[p].rec \in Record /\ job'[p].rec = older(job[p].rec) BY <2>5, <4>1
      <4>4. older(job[p].rec).wait + job'[w].age >= PendingBackoff \/ older(job[p].rec).life + job'[w].age >= Life
        BY <2>3, <3>1, <4>2, <4>3
      <4>. QED BY <4>3, <4>4 DEF Guards
    <3>. QED BY <2>1, <2>2, <3>1, <3>3, <3>4 DEF GuardedAt
  <2>7. \A p \in Holders(a) : job'[p].rec.token = job[p].rec.token BY <2>5, OlderRecord
  <2>8. rec'[a].token = rec[a].token BY <1>1, OlderRecord DEF TypeInv
  <2>9. \A p \in Newer(a) : p \in Holders(a) BY DEF Newer, Holders
  <2>10. Newer(a) # {} => Newer(a)' # {} BY <1>0, <1>2, <2>7, <2>9 DEF Newer
  <2>11. TokensAt(a)' BY <1>0, <2>1, <2>4, <2>7, <2>8, <2>10 DEF TokensAt
  <2>. QED BY <2>6, <2>11
<1>5. AuthInv' BY <1>0, <1>4 DEF AuthInv
<1>. QED BY <1>3, <1>5

------------------------------------------------------------------------------
LEMMA InvNext == RefreshInv /\ [RefreshNext]_refreshVars => RefreshInv'
<1>. SUFFICES ASSUME RefreshInv, [RefreshNext]_refreshVars PROVE RefreshInv' OBVIOUS
<1>1. CASE Round BY <1>1, RoundStep, LaunchStep DEF Round
<1>2. CASE Tick BY <1>2, TickStep
<1>3. ASSUME NEW w \in Workers, Work(w) PROVE RefreshInv'
  <2>1. CASE BeginRefresh(w) BY <2>1, BeginStep
  <2>2. CASE Issue(w) BY <2>2, IssueStep
  <2>3. CASE RefreshFails(w) BY <2>3, FailStep
  <2>4. CASE StoreRefreshed(w) BY <2>4, StoreStep DEF StoreRefreshed, Procs
  <2>5. CASE Persist(w) BY <2>5, PersistStep DEF Procs
  <2>. QED BY <1>3, <2>1, <2>2, <2>3, <2>4, <2>5 DEF Work, Finishes
<1>4. ASSUME NEW o \in Operators, Replace(o) \/ Persist(o) PROVE RefreshInv'
  <2>1. CASE Replace(o) BY <2>1, StoreStep DEF Replace, Procs
  <2>2. CASE Persist(o) BY <2>2, PersistStep DEF Procs
  <2>. QED BY <1>4, <2>1, <2>2
<1>5. CASE \E o \in Operators, a \in Auths, disabled \in BOOLEAN : Edit(o, a, disabled) BY <1>5, EditStep
<1>6. CASE \E a \in Auths, s \in Results : Result(a, s) BY <1>6, ResultStep
<1>7. CASE UNCHANGED refreshVars
  <2>1. UNCHANGED <<rec, disk, pc, job, due, crossed>> BY <1>7 DEF refreshVars
  <2>2. TypeInv' BY <2>1 DEF RefreshInv, TypeInv
  <2>3. ASSUME NEW a \in Auths, a \notin crossed PROVE GuardedAt(a)' /\ TokensAt(a)'
    BY <2>1, <2>3, OtherAuth DEF RefreshInv, AuthInv
  <2>. QED BY <2>1, <2>2, <2>3 DEF RefreshInv, AuthInv
<1>. QED BY <1>1, <1>2, <1>3, <1>4, <1>5, <1>6, <1>7 DEF RefreshNext

LEMMA InvImpliesOnce == RefreshInv => RefreshedOnce
<1>. SUFFICES ASSUME RefreshInv PROVE RefreshedOnce OBVIOUS
<1>1. RefreshTypeOK BY Parts DEF RefreshInv, TypeInv, RefreshTypeOK
<1>2. ASSUME NEW a \in Auths \ crossed
      PROVE  \/ Cardinality(Refreshing(a)) <= 1
             \/ \E w \in Refreshing(a) : job[w].age >= PendingBackoff
  <2>. SUFFICES ASSUME \A w \in Refreshing(a) : ~(job[w].age >= PendingBackoff)
                PROVE  Cardinality(Refreshing(a)) <= 1
    OBVIOUS
  <2>1. \A w \in Refreshing(a) : w \in Workers /\ Young(a, w)
    <3>. SUFFICES ASSUME NEW w \in Refreshing(a) PROVE w \in Workers /\ Young(a, w) OBVIOUS
    <3>1. w \in Workers /\ w \in Procs /\ Active(w) /\ job[w].auth = a BY DEF Refreshing, Procs
    <3>2. job[w].age \in Nat BY <3>1, Parts DEF RefreshInv
    <3>. QED BY <3>1, <3>2, Numbers DEF Young
  <2>2. \A v, w \in Refreshing(a) : v = w BY <1>2, <2>1 DEF RefreshInv, AuthInv, GuardedAt
  <2>3. CASE Refreshing(a) = {} BY <2>3, FS_EmptySet
  <2>4. CASE Refreshing(a) # {}
    <3>1. PICK w : Refreshing(a) = {w} BY <2>2, <2>4
    <3>2. Cardinality({w}) = 1 BY FS_Singleton
    <3>. QED BY <3>1, <3>2
  <2>. QED BY <2>3, <2>4
<1>3. ASSUME NEW a \in Auths \ crossed, \A p \in Procs : job[p].auth # a
      PROVE  rec[a].token = "newest" /\ disk[a] = "newest"
  <2>1. TokensAt(a) /\ Newer(a) = {} /\ Holders(a) = {} BY <1>3 DEF RefreshInv, AuthInv, Newer, Holders
  <2>2. rec[a].token \in Token /\ disk[a] \in Token BY RecordParts DEF RefreshInv, TypeInv
  <2>. QED BY <2>1, <2>2 DEF TokensAt, Token
<1>. QED BY <1>1, <1>2, <1>3 DEF RefreshedOnce, OneAtATime, TokenKept

\* conductor.go checkRefreshes, markRefreshPending, refreshAuth: one refresh of an auth at
\* a time, and no issued token lost in memory or on disk, unless a refresh outlasts its
\* mark or copies of the record crossed.
THEOREM OneRefresh == RefreshSpec => []RefreshedOnce
<1>. QED BY InvInit, InvNext, InvImpliesOnce, PTL DEF RefreshSpec
==============================================================================
