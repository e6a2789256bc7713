---------------------------- MODULE CodexSession ----------------------------
(***************************************************************************)
(* An execution session of the Codex websocket executor (internal/runtime/ *)
(* executor/codex_websockets_executor.go): the turns of one downstream     *)
(* websocket share an upstream connection, which one goroutine per         *)
(* connection reads, handing what it reads to the turn that is active.     *)
(*                                                                         *)
(* A step is a critical section of reqMu, connMu or activeMu, or an        *)
(* operation on a channel or a socket.  A binary message is a break of the *)
(* connection here: the reader treats both alike.  readerConn equals conn  *)
(* whenever conn is set and is left out.  Turns follow one another as the  *)
(* downstream handler sends them; Execute is called with no session.       *)
(***************************************************************************)
EXTENDS Naturals, Sequences, FiniteSets

CONSTANTS
  Turns,      \* turns of the session
  MaxConns,   \* bound on the connections dialled
  MaxParts,   \* bound on the parts of an answer before its end
  Buffer      \* capacity of a turn's read channel (4096)

ASSUME SessionAssumption == {Turns, MaxConns, MaxParts} \subseteq Nat /\ Buffer \in Nat \ {0}

Requests == 1..Turns
Conns    == 1..MaxConns
None     == 0

VARIABLES
  turn,      \* per turn: how far ExecuteStream has come, its connection, its chunk
  ctx,       \* per turn: its context
  holder,    \* reqMu: the turn that holds it
  current,   \* sess.conn
  active,    \* sess.activeCh: the turn whose channel it is
  chan,      \* per turn: its read channel
  reader,    \* per connection: readUpstreamLoop
  socket,    \* per connection: the socket and the upstream behind it
  closed,    \* CloseExecutionSession has been called
  got,       \* history: what each turn's caller received
  leaked,    \* history: a turn returned and kept reqMu
  panic      \* history: a send on a closed channel, or a second close

vars == <<turn, ctx, holder, current, active, chan, reader, socket, closed, got,
          leaked, panic>>

\* A message of the answer to turn r, read from connection c; n counts the parts up to it.
Message(r, what, c, n) == [of |-> r, what |-> what, conn |-> c, n |-> n]
NoMessage == Message(None, "none", None, 0)
NoSocket  == [open |-> FALSE, up |-> FALSE, inbox |-> <<>>, todo |-> <<>>]

Init ==
  /\ turn = [r \in Requests |-> [pc |-> "idle", conn |-> None, chunk |-> NoMessage]]
  /\ ctx = [r \in Requests |-> "live"]
  /\ holder = None /\ current = None /\ active = None
  /\ chan = [r \in Requests |-> [buf |-> <<>>, closed |-> FALSE]]
  /\ reader = [c \in Conns |-> [pc |-> "none", ch |-> None, msg |-> NoMessage]]
  /\ socket = [c \in Conns |-> NoSocket]
  /\ closed = FALSE
  /\ got = [r \in Requests |-> [parts |-> 0, end |-> "none", of |-> {}, whole |-> TRUE]]
  /\ leaked = FALSE /\ panic = FALSE

Goto(r, pc) == turn' = [turn EXCEPT ![r].pc = pc]

------------------------------------------------------------------------------
(* The session's connection and its active channel *)

Dialled == {c \in Conns : reader[c].pc # "none"}

\* invalidateUpstreamConn: only the session's own connection is given up and closed.
Invalidate(c) ==
  /\ current' = IF current = c THEN None ELSE current
  /\ socket' = IF current = c THEN [socket EXCEPT ![c] = NoSocket] ELSE socket

\* ensureUpstreamConn dials, stores the connection and starts its reader.
Connect(r, c, pc) ==
  /\ c \in Conns \ Dialled /\ \A d \in Conns \ Dialled : c <= d
  /\ current' = c
  /\ socket' = [socket EXCEPT ![c].open = TRUE, ![c].up = TRUE]
  /\ reader' = [reader EXCEPT ![c].pc = "read"]
  /\ turn' = [turn EXCEPT ![r].pc = pc, ![r].conn = c]

\* clearActive: done is closed with it.
Clear(r) == active' = IF active = r THEN None ELSE active
Done(r)  == active # r

------------------------------------------------------------------------------
(* A turn: ExecuteStream *)

\* The handler sends a turn once the one before is over for it.
Over(r) ==
  \/ turn[r].pc = "done" \/ ctx[r] = "cancelled"
  \/ got[r].end # "none"

Start(r) ==
  /\ turn[r].pc = "idle" /\ ~closed /\ \A q \in 1..(r - 1) : Over(q)
  /\ Goto(r, "lock")
  /\ UNCHANGED <<ctx, holder, current, active, chan, reader, socket, closed, got,
                 leaked, panic>>

\* reqMu does not look at the context.
Lock(r) ==
  /\ turn[r].pc = "lock" /\ holder = None
  /\ holder' = r
  /\ Goto(r, "ensure")
  /\ UNCHANGED <<ctx, current, active, chan, reader, socket, closed, got, leaked, panic>>

\* The session has a connection ...
Reuse(r) ==
  /\ turn[r].pc \in {"ensure", "ensure again"} /\ current # None
  /\ turn' = [turn EXCEPT ![r].pc = IF @ = "ensure" THEN "arm" ELSE "write again",
                          ![r].conn = current]
  /\ UNCHANGED <<ctx, holder, current, active, chan, reader, socket, closed, got,
                 leaked, panic>>

\* ... or one is dialled.
Dial(r) ==
  /\ turn[r].pc \in {"ensure", "ensure again"} /\ current = None
  /\ \E c \in Conns : Connect(r, c, IF turn[r].pc = "ensure" THEN "arm" ELSE "write again")
  /\ UNCHANGED <<ctx, holder, active, chan, closed, got, leaked, panic>>

\* The handshake is refused with a status: the status is the turn's error, or, for
\* "upgrade required", the turn is served over HTTP.  Either way reqMu stays locked.
Refused(r) ==
  /\ turn[r].pc = "ensure" /\ current = None
  /\ Goto(r, "done")
  /\ leaked' = TRUE
  /\ UNCHANGED <<ctx, holder, current, active, chan, reader, socket, closed, got, panic>>

\* Mutant: a turn that cannot dial again leaves at once.
Unreachable_leaves(r) ==
  /\ turn[r].pc \in {"ensure", "ensure again"} /\ current = None
  /\ Goto(r, IF turn[r].pc = "ensure" THEN "end" ELSE "done")
  /\ UNCHANGED <<ctx, holder, current, active, chan, reader, socket, closed, got,
                 leaked, panic>>

\* There is no answer to the handshake, or none to the second.
Unreachable(r) ==
  /\ turn[r].pc \in {"ensure", "ensure again"} /\ current = None
  /\ Goto(r, "end")
  /\ UNCHANGED <<ctx, holder, current, active, chan, reader, socket, closed, got,
                 leaked, panic>>

\* Mutant: the channel is set after the request has been written.
Arm_late(r) ==
  /\ \/ turn[r].pc = "arm" /\ Goto(r, "write") /\ UNCHANGED active
     \/ turn[r].pc = "read" /\ active = None /\ ~chan[r].closed /\ active' = r /\ UNCHANGED turn
  /\ UNCHANGED <<ctx, holder, current, chan, reader, socket, closed, got, leaked, panic>>

\* setActive with a new channel
Arm(r) ==
  /\ turn[r].pc = "arm"
  /\ active' = r
  /\ Goto(r, "write")
  /\ UNCHANGED <<ctx, holder, current, chan, reader, socket, closed, got, leaked, panic>>

\* The request is written: a socket the upstream has left may still take it ...
Written(r) ==
  /\ turn[r].pc \in {"write", "write again"} /\ socket[turn[r].conn].open
  /\ socket' = [socket EXCEPT ![turn[r].conn].todo = IF socket[turn[r].conn].up THEN Append(@, [of |-> r, n |-> 0]) ELSE @]
  /\ Goto(r, "read")
  /\ UNCHANGED <<ctx, holder, current, active, chan, reader, closed, got, leaked, panic>>

\* ... or not: then the turn dials once more, and is over if that does not help.
NotWritten(r) ==
  /\ turn[r].pc \in {"write", "write again"}
  /\ ~socket[turn[r].conn].open \/ ~socket[turn[r].conn].up
  /\ Invalidate(turn[r].conn)
  /\ Goto(r, IF turn[r].pc = "write" THEN "ensure again" ELSE "end")
  /\ UNCHANGED <<ctx, holder, active, chan, reader, closed, got, leaked, panic>>

\* readCodexWebsocketMessage: what another connection left in the channel is skipped;
\* an error event of the upstream gives the connection up.
ReadNext(r) ==
  /\ turn[r].pc = "read" /\ chan[r].buf # <<>>
  /\ LET ev == Head(chan[r].buf)
     IN /\ IF ev.conn # turn[r].conn THEN UNCHANGED turn
           ELSE turn' = [turn EXCEPT ![r].pc = "send", ![r].chunk = ev]
        /\ IF ev.conn = turn[r].conn /\ ev.what = "error" THEN Invalidate(ev.conn)
           ELSE UNCHANGED <<current, socket>>
  /\ chan' = [chan EXCEPT ![r].buf = Tail(@)]
  /\ UNCHANGED <<ctx, holder, active, reader, closed, got, leaked, panic>>

ReadClosed(r) ==
  /\ turn[r].pc = "read" /\ chan[r].buf = <<>> /\ chan[r].closed
  /\ turn' = [turn EXCEPT ![r].pc = "send", ![r].chunk = Message(None, "shut", turn[r].conn, 0)]
  /\ UNCHANGED <<ctx, holder, current, active, chan, reader, socket, closed, got,
                 leaked, panic>>

\* The caller takes the chunk; all but a part end the turn.
Send(r) ==
  /\ turn[r].pc = "send"
  /\ LET c == turn[r].chunk  g == got[r]
     IN /\ got' = [got EXCEPT ![r] =
                    IF c.what = "part"
                      THEN [g EXCEPT !.of = g.of \cup {c.of},
                                     !.parts = IF c.of = r THEN g.parts + 1 ELSE g.parts]
                      ELSE [parts |-> 0, end |-> c.what, of |-> g.of \cup {c.of},
                            whole |-> c.what = "completed" /\ c.of = r => g.parts = c.n]]
        /\ turn' = [turn EXCEPT ![r].pc = IF c.what = "part" THEN "read" ELSE "end", ![r].chunk = NoMessage]
  /\ UNCHANGED <<ctx, holder, current, active, chan, reader, socket, closed, leaked, panic>>

\* The context ends while it reads or sends: the connection stays as it is.
Stop(r) ==
  /\ turn[r].pc \in {"read", "send"} /\ ctx[r] = "cancelled"
  /\ turn' = [turn EXCEPT ![r].pc = "end", ![r].chunk = NoMessage]
  /\ UNCHANGED <<ctx, holder, current, active, chan, reader, socket, closed, got,
                 leaked, panic>>

\* Mutant: the turn closes its channel.
End_closes(r) ==
  /\ turn[r].pc = "end"
  /\ Clear(r)
  /\ holder' = None
  /\ turn' = [turn EXCEPT ![r].pc = "done", ![r].conn = None]
  /\ chan' = [chan EXCEPT ![r] = [buf |-> <<>>, closed |-> TRUE]]
  /\ UNCHANGED <<ctx, current, reader, socket, closed, got, leaked, panic>>

\* clearActive and the release of reqMu: nobody can tell the one from the other.
End(r) ==
  /\ turn[r].pc = "end"
  /\ Clear(r)
  /\ holder' = None
  /\ turn' = [turn EXCEPT ![r].pc = "done", ![r].conn = None]
  /\ chan' = [chan EXCEPT ![r].buf = <<>>]
  /\ UNCHANGED <<ctx, current, reader, socket, closed, got, leaked, panic>>

------------------------------------------------------------------------------
(* A connection's reader: readUpstreamLoop *)

Broken == "broken"

Resting == [pc |-> "read", ch |-> None, msg |-> NoMessage]

\* With the active channel looked up, the message is put there; without one it is
\* dropped, and an error gives the connection up at once.
Capture(c, msg) ==
  reader' = [reader EXCEPT ![c] =
               CASE active # None -> [pc |-> "put", ch |-> active, msg |-> msg]
                 [] active = None /\ msg.what = Broken -> [Resting EXCEPT !.pc = "drop"]
                 [] OTHER -> Resting]

\* ReadMessage returns, and the reader looks for the active channel: what it reads
\* earlier waits in the socket here.
Receive(c) ==
  /\ reader[c].pc = "read"
  /\ IF socket[c].open /\ socket[c].inbox # <<>>
       THEN /\ Capture(c, Head(socket[c].inbox))
            /\ socket' = [socket EXCEPT ![c].inbox = Tail(@)]
       ELSE /\ ~socket[c].open \/ ~socket[c].up
            /\ Capture(c, Message(None, Broken, c, 0))
            /\ UNCHANGED socket
  /\ UNCHANGED <<turn, ctx, holder, current, active, chan, closed, got, leaked, panic>>

\* What follows the hand-over: the next message or, after an error, the end.
AfterPut(c) ==
  reader' = [reader EXCEPT ![c] =
               IF reader[c].msg.what = Broken THEN [pc |-> "shut", ch |-> reader[c].ch, msg |-> NoMessage]
               ELSE Resting]

\* The message goes into the captured channel, unless the turn is over; an error does
\* not wait for room.
Put(c) ==
  /\ reader[c].pc = "put"
  /\ LET ch == reader[c].ch  full == Len(chan[ch].buf) >= Buffer
     IN \/ /\ ~chan[ch].closed /\ ~full /\ ~Done(ch)
           /\ chan' = [chan EXCEPT ![ch].buf = Append(@, reader[c].msg)]
           /\ AfterPut(c) /\ UNCHANGED panic
        \/ /\ chan[ch].closed /\ panic' = TRUE /\ UNCHANGED <<chan, reader>>
        \/ /\ Done(ch) \/ (full /\ reader[c].msg.what = Broken)
           /\ AfterPut(c) /\ UNCHANGED <<chan, panic>>
  /\ UNCHANGED <<turn, ctx, holder, current, active, socket, closed, got, leaked>>

\* After an error the channel stops being active and is closed: a turn whose channel
\* it is sees either as one.
Shut(c) ==
  /\ reader[c].pc = "shut"
  /\ Clear(reader[c].ch)
  /\ IF chan[reader[c].ch].closed THEN panic' = TRUE /\ UNCHANGED chan
     ELSE chan' = [chan EXCEPT ![reader[c].ch].closed = TRUE] /\ UNCHANGED panic
  /\ reader' = [reader EXCEPT ![c].pc = "drop"]
  /\ UNCHANGED <<turn, ctx, holder, current, socket, closed, got, leaked>>

\* ... and the connection is given up.
Drop(c) ==
  /\ reader[c].pc = "drop"
  /\ Invalidate(c)
  /\ reader' = [reader EXCEPT ![c].pc = "exit"]
  /\ UNCHANGED <<turn, ctx, holder, active, chan, closed, got, leaked, panic>>

------------------------------------------------------------------------------
(* CloseExecutionSession, the callers and the upstream *)

\* Mutant: the connection is forgotten and not closed.
CloseSession_forgets ==
  /\ ~closed /\ closed' = TRUE
  /\ current' = None
  /\ UNCHANGED <<turn, ctx, holder, active, chan, reader, socket, got, leaked, panic>>

\* At the end of the downstream websocket, or when the executor is replaced.
CloseSession ==
  /\ ~closed /\ closed' = TRUE
  /\ current' = None
  /\ socket' = IF current = None THEN socket
               ELSE [socket EXCEPT ![current] = NoSocket]
  /\ UNCHANGED <<turn, ctx, holder, active, chan, reader, got, leaked, panic>>

\* The caller gives a turn up: its client is gone, or what it got cannot be used.
Cancel(r) ==
  /\ turn[r].pc \notin {"idle", "end", "done"} /\ ctx[r] = "live"
  /\ ctx' = [ctx EXCEPT ![r] = "cancelled"]
  /\ UNCHANGED <<turn, holder, current, active, chan, reader, socket, closed, got,
                 leaked, panic>>

\* The upstream answers the requests of a connection one after the other: parts, and
\* then the completed response or an error event.
Answer(c, what) ==
  /\ socket[c].open /\ socket[c].up /\ socket[c].todo # <<>>
  /\ LET head == Head(socket[c].todo)
         n == IF what = "part" THEN head.n + 1 ELSE head.n
     IN /\ n <= MaxParts
        /\ socket' = [socket EXCEPT ![c].inbox = Append(@, Message(head.of, what, c, n)),
                                    ![c].todo  = IF what = "part" THEN <<[of |-> head.of, n |-> n]>> \o Tail(@)
                                                 ELSE Tail(@)]
  /\ UNCHANGED <<turn, ctx, holder, current, active, chan, reader, closed, got, leaked, panic>>

\* The upstream closes, sends a binary message, or is silent for the idle time-out.
Break(c) ==
  /\ socket[c].up
  /\ socket' = [socket EXCEPT ![c].up = FALSE]
  /\ UNCHANGED <<turn, ctx, holder, current, active, chan, reader, closed, got,
                 leaked, panic>>

------------------------------------------------------------------------------
Run(r) ==
  \/ Lock(r) \/ Reuse(r) \/ Dial(r) \/ Refused(r) \/ Unreachable(r) \/ Arm(r)
  \/ Written(r) \/ NotWritten(r) \/ ReadNext(r) \/ ReadClosed(r) \/ Stop(r)
  \/ End(r)

Loop(c) == Receive(c) \/ Put(c) \/ Shut(c) \/ Drop(c)

\* A panic ends the process.
Next ==
  /\ ~panic
  /\ \/ \E r \in Requests : Start(r) \/ Run(r) \/ Send(r) \/ Cancel(r)
     \/ \E c \in Conns : Loop(c) \/ Break(c) \/ \E what \in {"part", "completed", "error"} : Answer(c, what)
     \/ CloseSession

\* The goroutines run, and a silent connection runs into its time-out.  A caller need
\* not read, nor the upstream answer.
Fairness ==
  /\ \A r \in Requests : WF_vars(~panic /\ Run(r))
  /\ \A c \in Conns : WF_vars(~panic /\ Loop(c)) /\ WF_vars(~panic /\ Break(c))

Spec == Init /\ [][Next]_vars /\ Fairness

------------------------------------------------------------------------------
(* Properties *)

\* What another turn's answer leaves behind reaches a turn only after one that was
\* cancelled or cut off: the connection is kept, and the rest arrives on it.  From
\* then on each turn may be ended by the one before, and leave its own answer behind.
OwnAnswer ==
  \A r \in Requests : \A q \in got[r].of \ {r, None} :
    \/ ctx[q] = "cancelled" \/ got[q].end = "shut"
    \/ ~(got[q].of \subseteq {q, None})

\* A turn that ends with a completed response, and had nothing of another, has it whole:
\* no part was dropped at a full channel or lost with one.
WholeAnswer ==
  \A r \in Requests : got[r].of = {r} => got[r].whole

Answers == OwnAnswer /\ WholeAnswer

\* The readers' panics (a send on a closed channel, a second close) need two readers
\* that captured the channel of one turn: while one connection serves the session its
\* reader never hits a channel that is closed.
OneReader == panic => \E c, d \in Conns : c # d /\ reader[c].ch = reader[d].ch /\ reader[c].ch # None

\* A turn that is given up ends, unless a refused handshake has left the session
\* locked, or another turn, that is not given up, holds the session for good.
Held(r) == \E q \in Requests \ {r} : holder = q /\ ctx[q] = "live" /\ turn[q].pc \in {"read", "send"}
TurnsEnd ==
  \A r \in Requests :
    [](ctx[r] = "cancelled" => <>(turn[r].pc = "done" \/ leaked \/ panic) \/ <>[]Held(r))

\* A closed session leaves nothing behind: once no turn is kept by its caller, each
\* connection is closed and its reader has ended, also one dialled after the close.
Kept == \E q \in Requests : ctx[q] = "live" /\ turn[q].pc \in {"read", "send"}
Released == \A c \in Conns : ~socket[c].open /\ reader[c].pc \in {"none", "exit"}
ConnsReleased == [](closed => <>(Released \/ panic) \/ <>[]Kept)

\* Turns end, and so do the connections.
AllEnd == TurnsEnd /\ ConnsReleased

\* codex_websockets_executor.go:42: HTTP is the fallback for "websocket upgrade
\* failures".  So the turn after one is served as well.
UpgradeFallback ==
  \A r \in Requests :
    [](turn[r].pc = "lock" => <>(turn[r].pc # "lock" \/ panic) \/ <>[]Held(r))

\* A turn does not wait on a connection that has gone.
Notified ==
  \A r \in Requests : turn[r].pc = "read" /\ reader[turn[r].conn].pc = "exit" ~> turn[r].pc # "read"

\* codex_websockets_executor.go:458: "Retry once with a new websocket connection for
\* the same execution session".  So a turn does not fail by the end of a connection it
\* does not use.
RetryReads ==
  [][\A r \in Requests : turn[r].pc = "read" /\ turn'[r].chunk.what = "shut"
       => ~socket[turn[r].conn].open \/ ~socket[turn[r].conn].up]_vars
=============================================================================
