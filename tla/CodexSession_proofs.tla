------------------------ MODULE CodexSession_proofs ------------------------
(***************************************************************************)
(* TLAPS proofs about CodexSession, for any number of turns, connections   *)
(* and parts and any capacity of a turn's channel.                         *)
(***************************************************************************)
EXTENDS CodexSession, Integers, TLAPS

Whats == {"none", "part", "completed", "error", "shut", Broken}

Messages == [of : 0..Turns, what : Whats, conn : 0..MaxConns, n : Nat]

Places ==
  {"idle", "lock", "ensure", "arm", "write", "ensure again", "write again", "read", "send", "end", "done"}

Readers ==
  [pc : {"none", "read", "put", "shut", "drop", "exit"}, ch : 0..Turns, msg : Messages]

Sockets ==
  [open : BOOLEAN, up : BOOLEAN, inbox : Seq(Messages), todo : Seq([of : Requests, n : Nat])]

OnConn == {"arm", "write", "write again", "read", "send"}

TypeOK ==
  /\ turn \in [Requests -> [pc : Places, conn : 0..MaxConns, chunk : Messages]]
  /\ \A r \in Requests : turn[r].pc \in OnConn => turn[r].conn \in Conns
  /\ ctx \in [Requests -> {"live", "cancelled"}]
  /\ holder \in 0..Turns /\ active \in 0..Turns /\ current \in 0..MaxConns
  /\ chan \in [Requests -> [buf : Seq(Messages), closed : BOOLEAN]]
  /\ reader \in [Conns -> Readers]
  /\ \A c \in Conns : reader[c].pc \in {"put", "shut"} => reader[c].ch \in Requests
  /\ socket \in [Conns -> Sockets]
  /\ got \in [Requests -> [parts : Nat, end : Whats, of : SUBSET (0..Turns), whole : BOOLEAN]]
  /\ closed \in BOOLEAN /\ leaked \in BOOLEAN /\ panic \in BOOLEAN

LEMMA Bounds ==
  /\ Turns \in Nat /\ MaxConns \in Nat /\ MaxParts \in Nat /\ Buffer \in Nat \ {0}
  /\ Requests \subseteq 0..Turns /\ Conns \subseteq 0..MaxConns /\ None \in 0..Turns /\ None \in 0..MaxConns
  /\ None \notin Requests /\ None \notin Conns
  /\ \A r \in 0..Turns : r # None => r \in Requests
  /\ \A c \in 0..MaxConns : c # None => c \in Conns
  BY SessionAssumption DEF Requests, Conns, None

LEMMA MessageType ==
  ASSUME NEW of \in 0..Turns, NEW what \in Whats, NEW c \in 0..MaxConns, NEW n \in Nat
  PROVE  Message(of, what, c, n) \in Messages
  BY DEF Message, Messages

LEMMA NoMessageType == NoMessage \in Messages
  BY MessageType, Bounds DEF NoMessage, Whats

LEMMA NoSocketType == NoSocket \in Sockets
<1>1. <<>> \in Seq(Messages) /\ <<>> \in Seq([of : Requests, n : Nat]) OBVIOUS
<1>. QED BY <1>1 DEF NoSocket, Sockets

LEMMA TypeInit == Init => TypeOK
<1>. SUFFICES ASSUME Init PROVE TypeOK OBVIOUS
<1>1. turn \in [Requests -> [pc : Places, conn : 0..MaxConns, chunk : Messages]]
      /\ \A r \in Requests : turn[r].pc \in OnConn => turn[r].conn \in Conns
  BY NoMessageType, Bounds DEF Init, Places, OnConn
<1>2. chan \in [Requests -> [buf : Seq(Messages), closed : BOOLEAN]]
  <2>1. <<>> \in Seq(Messages) OBVIOUS
  <2>. QED BY <2>1 DEF Init
<1>3. reader \in [Conns -> Readers] /\ \A c \in Conns : reader[c].pc = "none"
  BY NoMessageType, Bounds DEF Init, Readers
<1>4. socket \in [Conns -> Sockets] BY NoSocketType DEF Init
<1>5. got \in [Requests -> [parts : Nat, end : Whats, of : SUBSET (0..Turns), whole : BOOLEAN]]
  BY DEF Init, Whats
<1>. QED BY <1>1, <1>2, <1>3, <1>4, <1>5, Bounds DEF Init, TypeOK

\* How a turn moves: to a place, and with it to a connection or a chunk.
LEMMA TurnParts ==
  ASSUME TypeOK, NEW r \in Requests
  PROVE  /\ turn \in [Requests -> [pc : Places, conn : 0..MaxConns, chunk : Messages]]
         /\ turn[r].pc \in Places /\ turn[r].conn \in 0..MaxConns /\ turn[r].chunk \in Messages
         /\ turn[r].pc \in OnConn => turn[r].conn \in Conns
  BY DEF TypeOK

LEMMA GotoType ==
  ASSUME TypeOK, NEW r \in Requests, NEW pc \in Places, pc \in OnConn => turn[r].conn \in Conns,
         Goto(r, pc)
  PROVE  /\ turn' \in [Requests -> [pc : Places, conn : 0..MaxConns, chunk : Messages]]
         /\ \A q \in Requests : turn'[q].pc \in OnConn => turn'[q].conn \in Conns
         /\ turn'[r].pc = pc /\ turn'[r].conn = turn[r].conn /\ turn'[r].chunk = turn[r].chunk
         /\ \A q \in Requests : q # r => turn'[q] = turn[q]
<1>0. turn \in [Requests -> [pc : Places, conn : 0..MaxConns, chunk : Messages]] BY TurnParts
<1>1. turn' \in [Requests -> [pc : Places, conn : 0..MaxConns, chunk : Messages]] BY <1>0 DEF Goto
<1>2. turn'[r].pc = pc /\ turn'[r].conn = turn[r].conn /\ turn'[r].chunk = turn[r].chunk BY <1>0 DEF Goto
<1>3. \A q \in Requests : q # r => turn'[q] = turn[q] BY <1>0 DEF Goto
<1>4. ASSUME NEW q \in Requests, turn'[q].pc \in OnConn PROVE turn'[q].conn \in Conns
  <2>1. CASE q = r BY <1>2, <1>4, <2>1
  <2>2. CASE q # r BY <1>3, <1>4, <2>2, TurnParts
  <2>. QED BY <2>1, <2>2
<1>. QED BY <1>1, <1>2, <1>3, <1>4

LEMMA ConnType ==
  ASSUME TypeOK, NEW r \in Requests, NEW pc \in Places, NEW c \in 0..MaxConns, pc \in OnConn => c \in Conns,
         turn' = [turn EXCEPT ![r].pc = pc, ![r].conn = c]
  PROVE  /\ turn' \in [Requests -> [pc : Places, conn : 0..MaxConns, chunk : Messages]]
         /\ \A q \in Requests : turn'[q].pc \in OnConn => turn'[q].conn \in Conns
         /\ turn'[r].pc = pc /\ turn'[r].conn = c /\ turn'[r].chunk = turn[r].chunk
         /\ \A q \in Requests : q # r => turn'[q] = turn[q]
<1>0. turn \in [Requests -> [pc : Places, conn : 0..MaxConns, chunk : Messages]] BY TurnParts
<1>1. turn' \in [Requests -> [pc : Places, conn : 0..MaxConns, chunk : Messages]] BY <1>0
<1>2. turn'[r].pc = pc /\ turn'[r].conn = c /\ turn'[r].chunk = turn[r].chunk BY <1>0
<1>3. \A q \in Requests : q # r => turn'[q] = turn[q] BY <1>0
<1>4. ASSUME NEW q \in Requests, turn'[q].pc \in OnConn PROVE turn'[q].conn \in Conns
  <2>1. CASE q = r BY <1>2, <1>4, <2>1
  <2>2. CASE q # r BY <1>3, <1>4, <2>2, TurnParts
  <2>. QED BY <2>1, <2>2
<1>. QED BY <1>1, <1>2, <1>3, <1>4

LEMMA ChunkType ==
  ASSUME TypeOK, NEW r \in Requests, NEW pc \in Places, NEW m \in Messages, pc \in OnConn => turn[r].conn \in Conns,
         turn' = [turn EXCEPT ![r].pc = pc, ![r].chunk = m]
  PROVE  /\ turn' \in [Requests -> [pc : Places, conn : 0..MaxConns, chunk : Messages]]
         /\ \A q \in Requests : turn'[q].pc \in OnConn => turn'[q].conn \in Conns
         /\ turn'[r].pc = pc /\ turn'[r].conn = turn[r].conn /\ turn'[r].chunk = m
         /\ \A q \in Requests : q # r => turn'[q] = turn[q]
<1>0. turn \in [Requests -> [pc : Places, conn : 0..MaxConns, chunk : Messages]] BY TurnParts
<1>1. turn' \in [Requests -> [pc : Places, conn : 0..MaxConns, chunk : Messages]] BY <1>0
<1>2. turn'[r].pc = pc /\ turn'[r].conn = turn[r].conn /\ turn'[r].chunk = m BY <1>0
<1>3. \A q \in Requests : q # r => turn'[q] = turn[q] BY <1>0
<1>4. ASSUME NEW q \in Requests, turn'[q].pc \in OnConn PROVE turn'[q].conn \in Conns
  <2>1. CASE q = r BY <1>2, <1>4, <2>1
  <2>2. CASE q # r BY <1>3, <1>4, <2>2, TurnParts
  <2>. QED BY <2>1, <2>2
<1>. QED BY <1>1, <1>2, <1>3, <1>4

LEMMA InvalidateType ==
  ASSUME TypeOK, NEW c \in 0..MaxConns, Invalidate(c)
  PROVE  current' \in 0..MaxConns /\ socket' \in [Conns -> Sockets]
  BY NoSocketType, Bounds DEF TypeOK, Invalidate

\* A step of a turn.
LEMMA TurnStep ==
  ASSUME TypeOK, NEW r \in Requests, Start(r) \/ Run(r) \/ Send(r) \/ Cancel(r)
  PROVE  TypeOK'
<1>. USE Bounds
<1>0. turn[r].conn \in 0..MaxConns /\ turn[r].chunk \in Messages /\ chan[r].buf \in Seq(Messages)
  BY DEF TypeOK
<1>1. CASE Start(r)
  BY <1>1, GotoType DEF Start, TypeOK, Places, OnConn
<1>2. CASE Lock(r)
  BY <1>2, GotoType DEF Lock, TypeOK, Places, OnConn
<1>3. CASE Reuse(r)
  <2>1. current \in Conns BY <1>3 DEF Reuse, TypeOK
  <2>2. PICK pc \in {"arm", "write again"} : turn' = [turn EXCEPT ![r].pc = pc, ![r].conn = current]
    BY <1>3 DEF Reuse, TypeOK
  <2>3. /\ turn' \in [Requests -> [pc : Places, conn : 0..MaxConns, chunk : Messages]]
        /\ \A q \in Requests : turn'[q].pc \in OnConn => turn'[q].conn \in Conns
    BY <2>1, <2>2, ConnType DEF Places
  <2>. QED BY <1>3, <2>3 DEF Reuse, TypeOK
<1>4. CASE Dial(r)
  <2>1. PICK c \in Conns, pc \in {"arm", "write again"} : Connect(r, c, pc)
    BY <1>4 DEF Dial
  <2>2. /\ turn' \in [Requests -> [pc : Places, conn : 0..MaxConns, chunk : Messages]]
        /\ \A q \in Requests : turn'[q].pc \in OnConn => turn'[q].conn \in Conns
    BY <2>1, ConnType DEF Connect, Places
  <2>3. socket' \in [Conns -> Sockets] /\ current' \in 0..MaxConns
    BY <2>1 DEF TypeOK, Connect, Sockets
  <2>4. reader' \in [Conns -> Readers]
        /\ \A d \in Conns : reader'[d].pc \in {"put", "shut"} => reader'[d].ch \in Requests
    <3>0. reader \in [Conns -> [pc : {"none", "read", "put", "shut", "drop", "exit"}, ch : 0..Turns, msg : Messages]]
      BY DEF TypeOK, Readers
    <3>1. reader' = [reader EXCEPT ![c].pc = "read"] BY <2>1 DEF Connect
    <3>2. reader' \in [Conns -> [pc : {"none", "read", "put", "shut", "drop", "exit"}, ch : 0..Turns, msg : Messages]]
      BY <3>0, <3>1
    <3>3. reader'[c].pc = "read" /\ \A d \in Conns : d # c => reader'[d] = reader[d] BY <3>0, <3>1
    <3>. QED BY <3>2, <3>3 DEF TypeOK, Readers
  <2>. QED BY <1>4, <2>2, <2>3, <2>4 DEF Dial, TypeOK
<1>5. CASE Refused(r)
  BY <1>5, GotoType DEF Refused, TypeOK, Places, OnConn
<1>6. CASE Unreachable(r)
  BY <1>6, GotoType DEF Unreachable, TypeOK, Places, OnConn
<1>7. CASE Arm(r)
  BY <1>7, GotoType DEF Arm, TypeOK, Places, OnConn
<1>8. CASE Written(r)
  <2>1. turn[r].conn \in Conns BY <1>8 DEF Written, TypeOK, OnConn
  <2>2. \A s \in Seq([of : Requests, n : Nat]) : Append(s, [of |-> r, n |-> 0]) \in Seq([of : Requests, n : Nat])
    OBVIOUS
  <2>3. socket' \in [Conns -> Sockets]
    <3>0. socket \in [Conns -> [open : BOOLEAN, up : BOOLEAN, inbox : Seq(Messages), todo : Seq([of : Requests, n : Nat])]]
      BY DEF TypeOK, Sockets
    <3>1. socket[turn[r].conn].todo \in Seq([of : Requests, n : Nat]) BY <2>1, <3>0
    <3>2. PICK td \in Seq([of : Requests, n : Nat]) : socket' = [socket EXCEPT ![turn[r].conn].todo = td]
      BY <1>8, <2>2, <3>1 DEF Written
    <3>. QED BY <2>1, <3>0, <3>2 DEF Sockets
  <2>. QED BY <1>8, <2>1, <2>3, GotoType DEF Written, TypeOK, Places, OnConn
<1>9. CASE NotWritten(r)
  <2>1. Goto(r, "ensure again") \/ Goto(r, "end") BY <1>9 DEF NotWritten
  <2>2. /\ turn' \in [Requests -> [pc : Places, conn : 0..MaxConns, chunk : Messages]]
        /\ \A q \in Requests : turn'[q].pc \in OnConn => turn'[q].conn \in Conns
    BY <2>1, GotoType DEF Places, OnConn
  <2>. QED BY <1>0, <1>9, <2>2, InvalidateType DEF NotWritten, TypeOK
<1>10. CASE ReadNext(r)
  <2>1. chan[r].buf # <<>> /\ turn[r].pc = "read" /\ turn[r].conn \in Conns
    BY <1>10 DEF ReadNext, TypeOK, OnConn
  <2>2. Head(chan[r].buf) \in Messages /\ Tail(chan[r].buf) \in Seq(Messages) BY <1>0, <2>1
  <2>3. /\ turn' \in [Requests -> [pc : Places, conn : 0..MaxConns, chunk : Messages]]
        /\ \A q \in Requests : turn'[q].pc \in OnConn => turn'[q].conn \in Conns
    BY <1>10, <2>1, <2>2, ChunkType DEF ReadNext, TypeOK, Places, OnConn
  <2>4. chan' \in [Requests -> [buf : Seq(Messages), closed : BOOLEAN]]
    BY <1>10, <2>2 DEF ReadNext, TypeOK
  <2>5. current' \in 0..MaxConns /\ socket' \in [Conns -> Sockets]
    <3>1. Invalidate(Head(chan[r].buf).conn) \/ UNCHANGED <<current, socket>> BY <1>10 DEF ReadNext
    <3>2. Head(chan[r].buf).conn \in 0..MaxConns BY <2>2 DEF Messages
    <3>. QED BY <3>1, <3>2, InvalidateType DEF TypeOK
  <2>. QED BY <1>10, <2>3, <2>4, <2>5 DEF ReadNext, TypeOK
<1>11. CASE ReadClosed(r)
  <2>1. Message(None, "shut", turn[r].conn, 0) \in Messages BY <1>0, MessageType DEF Whats
  <2>2. /\ turn' \in [Requests -> [pc : Places, conn : 0..MaxConns, chunk : Messages]]
        /\ \A q \in Requests : turn'[q].pc \in OnConn => turn'[q].conn \in Conns
    BY <1>11, <2>1, ChunkType, TurnParts DEF ReadClosed, Places, OnConn
  <2>. QED BY <1>11, <2>2 DEF ReadClosed, TypeOK
<1>12. CASE Send(r)
  <2>1. turn[r].chunk.of \in 0..Turns /\ turn[r].chunk.what \in Whats BY <1>0 DEF Messages
  <2>2. got' \in [Requests -> [parts : Nat, end : Whats, of : SUBSET (0..Turns), whole : BOOLEAN]]
    <3>1. got[r] \in [parts : Nat, end : Whats, of : SUBSET (0..Turns), whole : BOOLEAN] BY DEF TypeOK
    <3>2. got[r].of \cup {turn[r].chunk.of} \in SUBSET (0..Turns) /\ got[r].parts + 1 \in Nat /\ 0 \in Nat
      BY <2>1, <3>1
    <3>3. CASE turn[r].chunk.what = "part"
      <4>1. PICK n \in Nat : got' = [got EXCEPT ![r] = [got[r] EXCEPT !.of = got[r].of \cup {turn[r].chunk.of}, !.parts = n]]
        <5>1. (IF turn[r].chunk.of = r THEN got[r].parts + 1 ELSE got[r].parts) \in Nat BY <3>1
        <5>. QED BY <1>12, <3>3, <5>1 DEF Send
      <4>2. [got[r] EXCEPT !.of = got[r].of \cup {turn[r].chunk.of}, !.parts = n]
              \in [parts : Nat, end : Whats, of : SUBSET (0..Turns), whole : BOOLEAN]
        BY <3>1, <3>2
      <4>3. got \in [Requests -> [parts : Nat, end : Whats, of : SUBSET (0..Turns), whole : BOOLEAN]] BY DEF TypeOK
      <4>. QED BY <4>1, <4>2, <4>3
    <3>4. CASE turn[r].chunk.what # "part"
      <4>1. PICK whole \in BOOLEAN :
              got' = [got EXCEPT ![r] = [parts |-> 0, end |-> turn[r].chunk.what,
                                         of |-> got[r].of \cup {turn[r].chunk.of}, whole |-> whole]]
        BY <1>12, <3>4 DEF Send, TypeOK
      <4>. QED BY <2>1, <3>2, <4>1 DEF TypeOK
    <3>. QED BY <3>3, <3>4
  <2>3. turn[r].conn \in Conns BY <1>12 DEF Send, TypeOK, OnConn
  <2>4. PICK pc \in {"read", "end"} : turn' = [turn EXCEPT ![r].pc = pc, ![r].chunk = NoMessage]
    BY <1>12 DEF Send
  <2>5. /\ turn' \in [Requests -> [pc : Places, conn : 0..MaxConns, chunk : Messages]]
        /\ \A q \in Requests : turn'[q].pc \in OnConn => turn'[q].conn \in Conns
    BY <2>3, <2>4, NoMessageType, ChunkType DEF Places
  <2>. QED BY <1>12, <2>2, <2>5 DEF Send, TypeOK
<1>13. CASE Stop(r)
  <2>1. turn' = [turn EXCEPT ![r].pc = "end", ![r].chunk = NoMessage] BY <1>13 DEF Stop
  <2>2. /\ turn' \in [Requests -> [pc : Places, conn : 0..MaxConns, chunk : Messages]]
        /\ \A q \in Requests : turn'[q].pc \in OnConn => turn'[q].conn \in Conns
    BY <2>1, NoMessageType, ChunkType DEF Places, OnConn
  <2>. QED BY <1>13, <2>2 DEF Stop, TypeOK
<1>14. CASE End(r)
  <2>1. turn' = [turn EXCEPT ![r].pc = "done", ![r].conn = None] BY <1>14 DEF End
  <2>2. /\ turn' \in [Requests -> [pc : Places, conn : 0..MaxConns, chunk : Messages]]
        /\ \A q \in Requests : turn'[q].pc \in OnConn => turn'[q].conn \in Conns
    BY <2>1, ConnType DEF Places, OnConn
  <2>3. chan' \in [Requests -> [buf : Seq(Messages), closed : BOOLEAN]]
    <3>1. <<>> \in Seq(Messages) OBVIOUS
    <3>. QED BY <1>14, <3>1 DEF End, TypeOK
  <2>. QED BY <1>14, <2>2, <2>3 DEF End, Clear, TypeOK
<1>15. CASE Cancel(r)
  BY <1>15 DEF Cancel, TypeOK
<1>. QED
  BY <1>1, <1>2, <1>3, <1>4, <1>5, <1>6, <1>7, <1>8, <1>9, <1>10, <1>11, <1>12, <1>13, <1>14, <1>15
  DEF Run

LEMMA HeadTail ==
  ASSUME NEW T, NEW s \in Seq(T), s # <<>>
  PROVE  Head(s) \in T /\ Tail(s) \in Seq(T)
  OBVIOUS

LEMMA ReaderParts ==
  ASSUME TypeOK, NEW c \in Conns
  PROVE  /\ reader[c] \in Readers /\ reader[c].ch \in 0..Turns /\ reader[c].msg \in Messages
         /\ reader[c].pc \in {"put", "shut"} => reader[c].ch \in Requests
         /\ socket[c] \in Sockets /\ socket[c].inbox \in Seq(Messages)
         /\ socket[c].todo \in Seq([of : Requests, n : Nat])
  BY DEF TypeOK, Readers, Sockets

\* The reader of c moves: what it has captured stays a turn's channel while it is used.
LEMMA ReaderType ==
  ASSUME TypeOK, NEW c \in Conns, NEW R \in Readers, R.pc \in {"put", "shut"} => R.ch \in Requests,
         reader' = [reader EXCEPT ![c] = R]
  PROVE  /\ reader' \in [Conns -> Readers]
         /\ \A d \in Conns : reader'[d].pc \in {"put", "shut"} => reader'[d].ch \in Requests
  BY DEF TypeOK

LEMMA SocketType ==
  ASSUME TypeOK, NEW c \in Conns, NEW in \in Seq(Messages), NEW td \in Seq([of : Requests, n : Nat])
  PROVE  /\ [socket EXCEPT ![c].inbox = in, ![c].todo = td] \in [Conns -> Sockets]
         /\ [socket EXCEPT ![c].inbox = in] \in [Conns -> Sockets]
         /\ [socket EXCEPT ![c].up = FALSE] \in [Conns -> Sockets]
<1>0. socket \in [Conns -> [open : BOOLEAN, up : BOOLEAN, inbox : Seq(Messages), todo : Seq([of : Requests, n : Nat])]]
  BY DEF TypeOK, Sockets
<1>1. [socket EXCEPT ![c].inbox = in, ![c].todo = td] \in [Conns -> Sockets] BY <1>0 DEF Sockets
<1>2. [socket EXCEPT ![c].inbox = in] \in [Conns -> Sockets] BY <1>0 DEF Sockets
<1>3. [socket EXCEPT ![c].up = FALSE] \in [Conns -> Sockets] BY <1>0 DEF Sockets
<1>. QED BY <1>1, <1>2, <1>3

LEMMA CaptureType ==
  ASSUME TypeOK, NEW c \in Conns, NEW msg \in Messages, Capture(c, msg)
  PROVE  \E R \in Readers : /\ reader' = [reader EXCEPT ![c] = R]
                            /\ R.pc \in {"put", "shut"} => R.ch \in Requests
<1>1. CASE active # None
  <2>1. active \in Requests BY <1>1, Bounds DEF TypeOK
  <2>2. reader' = [reader EXCEPT ![c] = [pc |-> "put", ch |-> active, msg |-> msg]]
    BY <1>1 DEF Capture
  <2>3. [pc |-> "put", ch |-> active, msg |-> msg] \in Readers BY <2>1, Bounds DEF Readers
  <2>. QED BY <2>1, <2>2, <2>3
<1>2. CASE active = None /\ msg.what = Broken
  <2>1. reader' = [reader EXCEPT ![c] = [pc |-> "drop", ch |-> None, msg |-> NoMessage]]
    BY <1>2 DEF Capture, Resting
  <2>2. [pc |-> "drop", ch |-> None, msg |-> NoMessage] \in Readers BY NoMessageType, Bounds DEF Readers
  <2>. QED BY <2>1, <2>2
<1>3. CASE active = None /\ msg.what # Broken
  <2>1. reader' = [reader EXCEPT ![c] = Resting] BY <1>3 DEF Capture
  <2>2. Resting \in Readers /\ Resting.pc = "read" BY NoMessageType, Bounds DEF Resting, Readers
  <2>. QED BY <2>1, <2>2
<1>. QED BY <1>1, <1>2, <1>3

LEMMA AfterPutType ==
  ASSUME TypeOK, NEW c \in Conns, reader[c].pc = "put", AfterPut(c)
  PROVE  \E R \in Readers : /\ reader' = [reader EXCEPT ![c] = R]
                            /\ R.pc \in {"put", "shut"} => R.ch \in Requests
                            /\ R.pc \in {"read", "shut"}
<1>1. CASE reader[c].msg.what = Broken
  <2>1. reader' = [reader EXCEPT ![c] = [pc |-> "shut", ch |-> reader[c].ch, msg |-> NoMessage]]
    BY <1>1 DEF AfterPut
  <2>2. [pc |-> "shut", ch |-> reader[c].ch, msg |-> NoMessage] \in Readers /\ reader[c].ch \in Requests
    BY ReaderParts, NoMessageType DEF Readers
  <2>. QED BY <2>1, <2>2
<1>2. CASE reader[c].msg.what # Broken
  <2>1. reader' = [reader EXCEPT ![c] = Resting] BY <1>2 DEF AfterPut
  <2>2. Resting \in Readers /\ Resting.pc = "read" BY NoMessageType, Bounds DEF Resting, Readers
  <2>. QED BY <2>1, <2>2
<1>. QED BY <1>1, <1>2

\* A step of a connection's reader.
LEMMA ReaderStep ==
  ASSUME TypeOK, NEW c \in Conns, Loop(c)
  PROVE  TypeOK'
<1>. USE Bounds
<1>0. \A s \in Seq(Messages) : s # <<>> => Head(s) \in Messages /\ Tail(s) \in Seq(Messages) OBVIOUS
<1>1. CASE Receive(c)
  <2>1. PICK msg \in Messages : Capture(c, msg) /\ socket' \in [Conns -> Sockets]
    <3>1. CASE socket[c].open /\ socket[c].inbox # <<>>
      <4>1. Head(socket[c].inbox) \in Messages /\ Tail(socket[c].inbox) \in Seq(Messages)
        BY <1>0, <3>1, ReaderParts
      <4>2. Capture(c, Head(socket[c].inbox)) /\ socket' = [socket EXCEPT ![c].inbox = Tail(socket[c].inbox)]
        BY <1>1, <3>1 DEF Receive
      <4>3. [socket EXCEPT ![c].inbox = Tail(socket[c].inbox)] \in [Conns -> Sockets]
        BY <4>1, ReaderParts, SocketType
      <4>. QED BY <4>1, <4>2, <4>3
    <3>2. CASE ~(socket[c].open /\ socket[c].inbox # <<>>)
      <4>1. Message(None, Broken, c, 0) \in Messages BY MessageType DEF Whats
      <4>. QED BY <1>1, <3>2, <4>1 DEF Receive, TypeOK
    <3>. QED BY <3>1, <3>2
  <2>2. /\ reader' \in [Conns -> Readers]
        /\ \A d \in Conns : reader'[d].pc \in {"put", "shut"} => reader'[d].ch \in Requests
    <3>1. PICK R \in Readers : /\ reader' = [reader EXCEPT ![c] = R]
                               /\ R.pc \in {"put", "shut"} => R.ch \in Requests
      BY <2>1, CaptureType
    <3>. QED BY <3>1, ReaderType
  <2>. QED BY <1>1, <2>1, <2>2 DEF Receive, TypeOK
<1>2. CASE Put(c)
  <2>0. reader[c].pc = "put" BY <1>2 DEF Put
  <2>1. /\ reader' \in [Conns -> Readers]
        /\ \A d \in Conns : reader'[d].pc \in {"put", "shut"} => reader'[d].ch \in Requests
    <3>1. CASE AfterPut(c)
      <4>1. PICK R \in Readers : /\ reader' = [reader EXCEPT ![c] = R]
                                 /\ R.pc \in {"put", "shut"} => R.ch \in Requests
        BY <2>0, <3>1, AfterPutType
      <4>. QED BY <4>1, ReaderType
    <3>2. CASE reader' = reader BY <3>2 DEF TypeOK
    <3>. QED BY <1>2, <3>1, <3>2 DEF Put
  <2>2. chan' \in [Requests -> [buf : Seq(Messages), closed : BOOLEAN]]
    <3>1. reader[c].ch \in Requests /\ reader[c].msg \in Messages BY <2>0, ReaderParts
    <3>2. CASE chan' = [chan EXCEPT ![reader[c].ch].buf = Append(@, reader[c].msg)]
      <4>1. Append(chan[reader[c].ch].buf, reader[c].msg) \in Seq(Messages)
        <5>1. \A s \in Seq(Messages), m \in Messages : Append(s, m) \in Seq(Messages) OBVIOUS
        <5>2. chan[reader[c].ch].buf \in Seq(Messages) BY <3>1 DEF TypeOK
        <5>. QED BY <3>1, <5>1, <5>2
      <4>. QED BY <3>2, <4>1 DEF TypeOK
    <3>3. CASE chan' = chan BY <3>3 DEF TypeOK
    <3>. QED BY <1>2, <3>2, <3>3 DEF Put
  <2>. QED BY <1>2, <2>1, <2>2 DEF Put, TypeOK
<1>3. CASE Shut(c)
  <2>1. reader[c].pc = "shut" /\ reader[c].ch \in Requests BY <1>3, ReaderParts DEF Shut
  <2>2. /\ reader' \in [Conns -> Readers]
        /\ \A d \in Conns : reader'[d].pc \in {"put", "shut"} => reader'[d].ch \in Requests
    <3>1. reader' = [reader EXCEPT ![c] = [pc |-> "drop", ch |-> reader[c].ch, msg |-> reader[c].msg]]
      <4>1. [reader[c] EXCEPT !.pc = "drop"] = [pc |-> "drop", ch |-> reader[c].ch, msg |-> reader[c].msg]
        BY ReaderParts DEF Readers
      <4>2. reader' = [reader EXCEPT ![c].pc = "drop"] BY <1>3 DEF Shut
      <4>. QED BY <4>1, <4>2
    <3>2. [pc |-> "drop", ch |-> reader[c].ch, msg |-> reader[c].msg] \in Readers BY ReaderParts DEF Readers
    <3>. QED BY <3>1, <3>2, ReaderType
  <2>3. chan' \in [Requests -> [buf : Seq(Messages), closed : BOOLEAN]]
    <3>1. chan \in [Requests -> [buf : Seq(Messages), closed : BOOLEAN]] BY DEF TypeOK
    <3>2. \A r \in Requests : [chan EXCEPT ![r].closed = TRUE] \in [Requests -> [buf : Seq(Messages), closed : BOOLEAN]]
      BY <3>1
    <3>. QED BY <1>3, <2>1, <3>1, <3>2 DEF Shut
  <2>. QED BY <1>3, <2>2, <2>3 DEF Shut, Clear, TypeOK
<1>4. CASE Drop(c)
  <2>1. /\ reader' \in [Conns -> Readers]
        /\ \A d \in Conns : reader'[d].pc \in {"put", "shut"} => reader'[d].ch \in Requests
    <3>1. reader' = [reader EXCEPT ![c] = [pc |-> "exit", ch |-> reader[c].ch, msg |-> reader[c].msg]]
      <4>1. [reader[c] EXCEPT !.pc = "exit"] = [pc |-> "exit", ch |-> reader[c].ch, msg |-> reader[c].msg]
        BY ReaderParts DEF Readers
      <4>2. reader' = [reader EXCEPT ![c].pc = "exit"] BY <1>4 DEF Drop
      <4>. QED BY <4>1, <4>2
    <3>2. [pc |-> "exit", ch |-> reader[c].ch, msg |-> reader[c].msg] \in Readers BY ReaderParts DEF Readers
    <3>. QED BY <3>1, <3>2, ReaderType
  <2>2. current' \in 0..MaxConns /\ socket' \in [Conns -> Sockets]
    BY <1>4, InvalidateType DEF Drop
  <2>. QED BY <1>4, <2>1, <2>2 DEF Drop, TypeOK
<1>. QED BY <1>1, <1>2, <1>3, <1>4 DEF Loop

\* A step of the upstream, and the end of the session.
LEMMA OtherStep ==
  ASSUME TypeOK,
         CloseSession \/ \E c \in Conns : Break(c) \/ \E what \in {"part", "completed", "error"} : Answer(c, what)
  PROVE  TypeOK'
<1>. USE Bounds
<1>1. CASE CloseSession
  <2>1. socket' \in [Conns -> Sockets] BY <1>1, NoSocketType DEF CloseSession, TypeOK
  <2>. QED BY <1>1, <2>1 DEF CloseSession, TypeOK
<1>2. ASSUME NEW c \in Conns, Break(c) PROVE TypeOK'
  <2>1. socket' \in [Conns -> Sockets] BY <1>2, SocketType, ReaderParts DEF Break
  <2>. QED BY <1>2, <2>1 DEF Break, TypeOK
<1>3. ASSUME NEW c \in Conns, NEW what \in {"part", "completed", "error"}, Answer(c, what) PROVE TypeOK'
  <2>1. socket[c].inbox \in Seq(Messages) /\ socket[c].todo \in Seq([of : Requests, n : Nat]) /\ socket[c].todo # <<>>
    BY <1>3, ReaderParts DEF Answer
  <2>2. PICK h \in [of : Requests, n : Nat] : h = Head(socket[c].todo)
    <3>1. Head(socket[c].todo) \in [of : Requests, n : Nat] BY <2>1, HeadTail
    <3>. QED BY <3>1
  <2>3. Tail(socket[c].todo) \in Seq([of : Requests, n : Nat]) BY <2>1
  <2>4. \A n \in Nat : /\ Message(h.of, what, c, n) \in Messages
                       /\ Append(socket[c].inbox, Message(h.of, what, c, n)) \in Seq(Messages)
                       /\ <<[of |-> h.of, n |-> n]>> \o Tail(socket[c].todo) \in Seq([of : Requests, n : Nat])
    <3>1. h.of \in 0..Turns /\ h.of \in Requests OBVIOUS
    <3>2. TAKE n \in Nat
    <3>3. Message(h.of, what, c, n) \in Messages BY <3>1, MessageType DEF Whats
    <3>4. [of |-> h.of, n |-> n] \in [of : Requests, n : Nat] BY <3>1
    <3>. QED BY <2>1, <2>3, <3>3, <3>4
  <2>5. h.n + 1 \in Nat /\ h.n \in Nat OBVIOUS
  <2>6. PICK in \in Seq(Messages), td \in Seq([of : Requests, n : Nat]) :
          socket' = [socket EXCEPT ![c].inbox = in, ![c].todo = td]
    <3>1. CASE what = "part"
      <4>1. socket' = [socket EXCEPT ![c].inbox = Append(socket[c].inbox, Message(h.of, what, c, h.n + 1)),
                                     ![c].todo = <<[of |-> h.of, n |-> h.n + 1]>> \o Tail(socket[c].todo)]
        BY <1>3, <2>2, <3>1, ReaderParts DEF Answer, TypeOK
      <4>. QED BY <2>4, <2>5, <4>1
    <3>2. CASE what # "part"
      <4>1. socket' = [socket EXCEPT ![c].inbox = Append(socket[c].inbox, Message(h.of, what, c, h.n)),
                                     ![c].todo = Tail(socket[c].todo)]
        BY <1>3, <2>2, <3>2 DEF Answer, TypeOK
      <4>. QED BY <2>3, <2>4, <2>5, <4>1
    <3>. QED BY <3>1, <3>2
  <2>7. socket' \in [Conns -> Sockets] BY <2>6, SocketType
  <2>. QED BY <1>3, <2>7 DEF Answer, TypeOK
<1>. QED BY <1>1, <1>2, <1>3

LEMMA TypeNext == TypeOK /\ [Next]_vars => TypeOK'
<1>. SUFFICES ASSUME TypeOK, [Next]_vars PROVE TypeOK' OBVIOUS
<1>1. CASE Next BY <1>1, TurnStep, ReaderStep, OtherStep DEF Next
<1>2. CASE UNCHANGED vars BY <1>2 DEF vars, TypeOK
<1>. QED BY <1>1, <1>2

\* The session's state keeps its type: in particular a turn that waits or writes has a
\* connection, and a reader that is about to send or close has a channel.
THEOREM TypeCorrect == Spec => []TypeOK
<1>. QED BY TypeInit, TypeNext, PTL DEF Spec

------------------------------------------------------------------------------
(* The readers' panics *)

\* Only a reader closes the channel it has captured, on its way out.
ClosedByReader ==
  \A r \in Requests : chan[r].closed =>
    \E c \in Conns : reader[c].ch = r /\ reader[c].pc \in {"drop", "exit"}

ReaderInv == ClosedByReader /\ OneReader

LEMMA ReaderInvInit == Init => ReaderInv
  BY DEF Init, ReaderInv, ClosedByReader, OneReader

\* Steps that close no channel and move no reader that has captured one.
LEMMA ReadersStay ==
  ASSUME TypeOK, ReaderInv, panic' = panic,
         \A r \in Requests : chan'[r].closed => chan[r].closed,
         \A c \in Conns : reader[c].pc # "none" => reader'[c] = reader[c],
         ~panic
  PROVE  ReaderInv'
<1>1. ClosedByReader'
  <2>. SUFFICES ASSUME NEW r \in Requests, chan'[r].closed
                PROVE  \E c \in Conns : reader'[c].ch = r /\ reader'[c].pc \in {"drop", "exit"}
    BY DEF ClosedByReader
  <2>1. PICK c \in Conns : reader[c].ch = r /\ reader[c].pc \in {"drop", "exit"}
    BY DEF ReaderInv, ClosedByReader
  <2>. QED BY <2>1
<1>. QED BY <1>1 DEF ReaderInv, OneReader

LEMMA TurnReaders ==
  ASSUME TypeOK, ReaderInv, ~panic, NEW r \in Requests, Start(r) \/ Run(r) \/ Send(r) \/ Cancel(r)
  PROVE  ReaderInv'
<1>1. panic' = panic
  BY DEF Start, Run, Send, Cancel, Lock, Reuse, Dial, Refused, Unreachable, Arm, Written, NotWritten,
         ReadNext, ReadClosed, Stop, End
<1>2. \A c \in Conns : reader[c].pc # "none" => reader'[c] = reader[c]
  <2>1. CASE Dial(r)
    <3>1. PICK c \in Conns \ Dialled : reader' = [reader EXCEPT ![c].pc = "read"]
      BY <2>1 DEF Dial, Connect
    <3>2. reader[c].pc = "none" BY <3>1 DEF Dialled
    <3>3. \A d \in Conns : d # c => reader'[d] = reader[d] BY <3>1 DEF TypeOK
    <3>. QED BY <3>2, <3>3
  <2>2. CASE ~Dial(r)
    BY <2>2 DEF Start, Run, Send, Cancel, Lock, Reuse, Refused, Unreachable, Arm, Written, NotWritten,
                ReadNext, ReadClosed, Stop, End
  <2>. QED BY <2>1, <2>2
<1>3. \A q \in Requests : chan'[q].closed => chan[q].closed
  <2>1. CASE \E s : chan' = [chan EXCEPT ![r].buf = s]
    <3>1. PICK s : chan' = [chan EXCEPT ![r].buf = s] BY <2>1
    <3>2. \A q \in Requests : chan'[q].closed = chan[q].closed BY <3>1 DEF TypeOK
    <3>. QED BY <3>2
  <2>2. CASE chan' = chan BY <2>2
  <2>3. CASE ReadNext(r) \/ End(r) BY <2>1, <2>3 DEF ReadNext, End
  <2>4. CASE ~ReadNext(r) /\ ~End(r)
    BY <2>2, <2>4 DEF Start, Run, Send, Cancel, Lock, Reuse, Dial, Refused, Unreachable, Arm, Written,
                      NotWritten, ReadClosed, Stop
  <2>. QED BY <2>3, <2>4
<1>. QED BY <1>1, <1>2, <1>3, ReadersStay

\* A reader finds its channel closed only when another has captured the same one.
LEMMA LoopReaders ==
  ASSUME TypeOK, ReaderInv, ~panic, NEW c \in Conns, Loop(c)
  PROVE  ReaderInv'
<1>0. \A d \in Conns : d # c => reader'[d] = reader[d]
  BY DEF TypeOK, Loop, Receive, Put, Shut, Drop, Capture, AfterPut
<1>1. \A r \in Requests : chan[r].closed =>
        \E d \in Conns : reader[d].ch = r /\ reader[d].pc \in {"drop", "exit"}
  BY DEF ReaderInv, ClosedByReader
<1>2. CASE Receive(c)
  <2>1. reader[c].pc = "read" /\ chan' = chan /\ panic' = panic BY <1>2 DEF Receive
  <2>. QED BY <1>0, <1>1, <2>1 DEF ReaderInv, ClosedByReader, OneReader
<1>3. CASE Put(c)
  <2>0. reader[c].pc = "put" /\ reader[c].ch \in Requests BY <1>3, ReaderParts DEF Put
  <2>1. \A r \in Requests : chan'[r].closed = chan[r].closed
    <3>1. CASE \E s : chan' = [chan EXCEPT ![reader[c].ch].buf = s]
      <4>1. PICK s : chan' = [chan EXCEPT ![reader[c].ch].buf = s] BY <3>1
      <4>. QED BY <4>1 DEF TypeOK
    <3>2. CASE chan' = chan BY <3>2
    <3>. QED BY <1>3, <3>1, <3>2 DEF Put
  <2>2. ClosedByReader' BY <1>0, <1>1, <2>0, <2>1 DEF ClosedByReader
  <2>3. ASSUME panic' PROVE \E d \in Conns : c # d /\ reader'[c].ch = reader'[d].ch /\ reader'[c].ch # None
    <3>1. chan[reader[c].ch].closed /\ reader' = reader BY <1>3, <2>3 DEF Put
    <3>2. PICK d \in Conns : reader[d].ch = reader[c].ch /\ reader[d].pc \in {"drop", "exit"}
      BY <1>1, <2>0, <3>1
    <3>. QED BY <2>0, <3>1, <3>2, Bounds
  <2>. QED BY <2>2, <2>3 DEF ReaderInv, OneReader
<1>4. CASE Shut(c)
  <2>0. reader[c].pc = "shut" /\ reader[c].ch \in Requests BY <1>4, ReaderParts DEF Shut
  <2>1. reader'[c].pc = "drop" /\ reader'[c].ch = reader[c].ch
    BY <1>4 DEF Shut, TypeOK, Readers
  <2>2. \A r \in Requests : chan'[r].closed => chan[r].closed \/ r = reader[c].ch
    BY <1>4, <2>0 DEF Shut, TypeOK
  <2>3. ClosedByReader' BY <1>0, <1>1, <2>0, <2>1, <2>2 DEF ClosedByReader
  <2>4. ASSUME panic' PROVE \E d \in Conns : c # d /\ reader'[c].ch = reader'[d].ch /\ reader'[c].ch # None
    <3>1. chan[reader[c].ch].closed BY <1>4, <2>4 DEF Shut
    <3>2. PICK d \in Conns : reader[d].ch = reader[c].ch /\ reader[d].pc \in {"drop", "exit"}
      BY <1>1, <2>0, <3>1
    <3>. QED BY <1>0, <2>0, <2>1, <3>2, Bounds
  <2>. QED BY <2>3, <2>4 DEF ReaderInv, OneReader
<1>5. CASE Drop(c)
  <2>1. reader'[c].pc = "exit" /\ reader'[c].ch = reader[c].ch
    BY <1>5 DEF Drop, TypeOK, Readers
  <2>2. chan' = chan /\ panic' = panic BY <1>5 DEF Drop
  <2>. QED BY <1>0, <1>1, <2>1, <2>2 DEF ReaderInv, ClosedByReader, OneReader
<1>. QED BY <1>2, <1>3, <1>4, <1>5 DEF Loop

LEMMA ReaderInvNext == TypeOK /\ ReaderInv /\ [Next]_vars => ReaderInv'
<1>. SUFFICES ASSUME TypeOK, ReaderInv, [Next]_vars PROVE ReaderInv' OBVIOUS
<1>1. CASE UNCHANGED vars BY <1>1 DEF vars, ReaderInv, ClosedByReader, OneReader
<1>2. CASE Next
  <2>1. ~panic BY <1>2 DEF Next
  <2>2. CASE \E r \in Requests : Start(r) \/ Run(r) \/ Send(r) \/ Cancel(r) BY <2>1, <2>2, TurnReaders
  <2>3. CASE \E c \in Conns : Loop(c) BY <2>1, <2>3, LoopReaders
  <2>4. CASE CloseSession \/ \E c \in Conns : Break(c) \/ \E what \in {"part", "completed", "error"} : Answer(c, what)
    <3>1. reader' = reader /\ chan' = chan /\ panic' = panic BY <2>4 DEF CloseSession, Break, Answer
    <3>. QED BY <2>1, <3>1, ReadersStay
  <2>. QED BY <1>2, <2>2, <2>3, <2>4 DEF Next
<1>. QED BY <1>1, <1>2

\* codex_websockets_executor.go readUpstreamLoop: a send on a closed channel, or a second
\* close, takes two readers that captured the channel of one turn.
THEOREM PanicTakesTwo == Spec => []OneReader
<1>1. ReaderInv => OneReader BY DEF ReaderInv
<1>. QED BY <1>1, TypeInit, TypeNext, ReaderInvInit, ReaderInvNext, PTL DEF Spec
------------------------------------------------------------------------------
(* A turn gets its own answer, and all of it *)

Sending == {"read", "send"}
Armed   == {"write", "ensure again", "write again", "read", "send", "end"}

Has(s, q)  == \E j \in DOMAIN s : s[j].of = q
Ends(s, q) == \E j \in DOMAIN s : s[j].of = q /\ s[j].what # "part"
Num(m)     == IF m.what = "part" THEN m.n - 1 ELSE m.n

\* The messages of q in s are its parts from b + 1 to e, in order, and at most its end.
Leads(s, q, b, e) ==
  /\ b <= e
  /\ \A j \in DOMAIN s : s[j].of = q =>
       /\ b <= Num(s[j]) /\ s[j].n <= e /\ (s[j].what # "part" => s[j].n = e)
       /\ \A i \in 1..(j - 1) : s[i].of = q => s[i].what = "part" /\ s[i].n <= Num(s[j])
  /\ \A p \in (b + 1)..e : \E i \in DOMAIN s : s[i].of = q /\ s[i].what = "part" /\ s[i].n = p

\* The turns OwnAnswer excepts, and the connections whose reader reads no more.
Excepted == {q \in Requests : ctx[q] = "cancelled" \/ got[q].end = "shut" \/ ~(got[q].of \subseteq {q, None})}
Left     == {c \in Conns : reader[c].pc \in {"shut", "drop", "exit"}}

\* The turn that is armed holds the session.
Locked ==
  /\ \A r \in Requests : turn[r].pc \in Armed \cup {"ensure", "arm"} => holder = r
  /\ active # None => turn[active].pc \in Armed

\* Where a message may be, and of whom it may be there.
Parcel(m) ==
  /\ m.conn \in Conns /\ m.what \in {"part", "completed", "error", Broken}
  /\ m.what = Broken <=> m.of = None
Fit(m, r) ==
  /\ Parcel(m) /\ (m.what = Broken => m.conn \in Left)
  /\ m.of \notin {r, None} => m.of \in Excepted

Lines ==
  \A c \in Conns :
    /\ \A j \in DOMAIN socket[c].inbox : LET m == socket[c].inbox[j] IN Parcel(m) /\ m.conn = c /\ m.of # None
    /\ reader[c].pc = "put" => LET m == reader[c].msg IN
         Parcel(m) /\ m.conn = c /\ (m.of \notin {reader[c].ch, None} => m.of \in Excepted)
Chans  == \A r \in Requests : \A j \in DOMAIN chan[r].buf : Fit(chan[r].buf[j], r)
Chunks ==
  \A r \in Requests :
    /\ turn[r].pc # "send" => turn[r].chunk.of = None
    /\ turn[r].pc = "send" => /\ turn[r].chunk.conn = turn[r].conn
                              /\ (turn[r].chunk.what = "shut" /\ turn[r].chunk.of = None) \/ Fit(turn[r].chunk, r)
Gots ==
  \A r \in Requests :
    /\ \A q \in got[r].of \ {r, None} : q \in Excepted
    /\ got[r].whole
    /\ turn[r].pc \notin {"end", "done"} => got[r].end = "none"

InHand(c, q) == reader[c].pc = "put" /\ reader[c].msg.of = q
At(c, q)     == InHand(c, q) \/ Has(socket[c].inbox, q) \/ Has(socket[c].todo, q)
Taken(q)     == turn[q].pc = "send" /\ turn[q].chunk.of = q

\* What the caller has been sent, with the part that is about to be.
Base(q) == IF Taken(q) /\ turn[q].chunk.what = "part" THEN got[q].parts + 1 ELSE got[q].parts

\* An answer, from the request at the upstream to the caller, has no gap but where the
\* turn's channel has been given up.
Flow(q, c) ==
  \E e0, e1, e2 \in Nat :
    /\ Leads(chan[q].buf, q, Base(q), e0)
    /\ InHand(c, q) => reader[c].msg.n = e1
    /\ Leads(socket[c].inbox, q, e1, e2)
    /\ \A k \in DOMAIN socket[c].todo : socket[c].todo[k].of = q => socket[c].todo[k].n = e2
    /\ active = q => IF InHand(c, q) THEN Num(reader[c].msg) = e0 ELSE e1 = e0

\* Nothing of it follows its end.
Ended(q, c) ==
  /\ Ends(chan[q].buf, q) => ~At(c, q)
  /\ InHand(c, q) /\ reader[c].msg.what # "part" => ~Has(socket[c].inbox, q) /\ ~Has(socket[c].todo, q)
  /\ Ends(socket[c].inbox, q) => ~Has(socket[c].todo, q)
  /\ \A j, k \in DOMAIN socket[c].todo : socket[c].todo[j].of = q /\ socket[c].todo[k].of = q => j = k
  /\ Taken(q) => Num(turn[q].chunk) = got[q].parts
  /\ Taken(q) /\ turn[q].chunk.what # "part" => ~Has(chan[q].buf, q) /\ ~At(c, q)

\* Nobody else has any of it.
Private(q) == \A r \in Requests \ {q} : ~Has(chan[r].buf, q) /\ turn[r].chunk.of # q

Unsent(q) ==
  /\ got[q].parts = 0 /\ Private(q) /\ ~Has(chan[q].buf, q)
  /\ \A c \in Conns : ~At(c, q)
Sent(q) ==
  \E c \in Conns :
    /\ c = turn[q].conn /\ Private(q) /\ Flow(q, c) /\ Ended(q, c)
    /\ \A d \in Conns : At(d, q) => d = c
    /\ \A d \in Conns : InHand(d, q) => reader[d].ch = q
    /\ \A j \in DOMAIN chan[q].buf : chan[q].buf[j].of = q => chan[q].buf[j].conn = c
Finished(q) == q \notin Excepted => \A c \in Conns : At(c, q) => c \in Left

Turned(q) ==
  /\ turn[q].pc \in Sending => Sent(q)
  /\ turn[q].pc \in {"end", "done"} => Finished(q)
  /\ turn[q].pc \notin Sending \cup {"end", "done"} => Unsent(q)

AnswerInv == Locked /\ Lines /\ Chans /\ Chunks /\ Gots /\ \A q \in Requests : Turned(q)

(* Lemmas on sequences *)

\* Where the elements of a tail, and of an extended sequence, come from.
LEMMA TailPlaces ==
  ASSUME NEW T, NEW s \in Seq(T), s # <<>>
  PROVE  /\ Tail(s) \in Seq(T) /\ Head(s) = s[1] /\ Head(s) \in T /\ 1 \in DOMAIN s
         /\ \A j \in DOMAIN Tail(s) : j \in Nat \ {0} /\ j + 1 \in DOMAIN s /\ Tail(s)[j] = s[j + 1]
         /\ \A i \in DOMAIN s : i # 1 => i \in Nat /\ i - 1 \in DOMAIN Tail(s) /\ Tail(s)[i - 1] = s[i]
<1>1. Len(s) \in Nat \ {0} /\ DOMAIN s = 1..Len(s) OBVIOUS
<1>2. Tail(s) \in Seq(T) /\ Len(Tail(s)) = Len(s) - 1 /\ DOMAIN Tail(s) = 1..(Len(s) - 1) OBVIOUS
<1>3. \A j \in 1..(Len(s) - 1) : Tail(s)[j] = s[j + 1] OBVIOUS
<1>4. Head(s) = s[1] /\ Head(s) \in T OBVIOUS
<1>. QED BY <1>1, <1>2, <1>3, <1>4

LEMMA AppendPlaces ==
  ASSUME NEW T, NEW s \in Seq(T), NEW m \in T
  PROVE  /\ Append(s, m) \in Seq(T) /\ Len(s) \in Nat
         /\ DOMAIN s = 1..Len(s) /\ DOMAIN Append(s, m) = 1..(Len(s) + 1)
         /\ \A j \in 1..Len(s) : Append(s, m)[j] = s[j]
         /\ Append(s, m)[Len(s) + 1] = m
  OBVIOUS

\* Whose messages are left without the first, and with one more.
LEMMA HasTail ==
  ASSUME NEW T, NEW s \in Seq(T), s # <<>>, NEW q
  PROVE  /\ Has(Tail(s), q) => Has(s, q)
         /\ Has(s, q) => Head(s).of = q \/ Has(Tail(s), q)
         /\ Head(s).of = q => Has(s, q)
         /\ Ends(Tail(s), q) => Ends(s, q)
         /\ \A j \in DOMAIN Tail(s) : \E i \in DOMAIN s : Tail(s)[j] = s[i]
         /\ \E i \in DOMAIN s : Head(s) = s[i]
<1>0. /\ Head(s) = s[1] /\ 1 \in DOMAIN s
      /\ \A j \in DOMAIN Tail(s) : j + 1 \in DOMAIN s /\ Tail(s)[j] = s[j + 1]
      /\ \A i \in DOMAIN s : i # 1 => i - 1 \in DOMAIN Tail(s) /\ Tail(s)[i - 1] = s[i]
  BY TailPlaces
<1>1. \A j \in DOMAIN Tail(s) : \E i \in DOMAIN s : Tail(s)[j] = s[i] BY <1>0
<1>2. Has(s, q) => Head(s).of = q \/ Has(Tail(s), q)
  <2>. SUFFICES ASSUME NEW i \in DOMAIN s, s[i].of = q, i # 1 PROVE Has(Tail(s), q) BY <1>0 DEF Has
  <2>. QED BY <1>0 DEF Has
<1>3. Has(Tail(s), q) => Has(s, q) BY <1>1 DEF Has
<1>4. Ends(Tail(s), q) => Ends(s, q) BY <1>1 DEF Ends
<1>5. Head(s).of = q => Has(s, q) BY <1>0 DEF Has
<1>. QED BY <1>0, <1>1, <1>2, <1>3, <1>4, <1>5

LEMMA HasAppend ==
  ASSUME NEW T, NEW s \in Seq(T), NEW m \in T, NEW q
  PROVE  /\ Has(Append(s, m), q) <=> Has(s, q) \/ m.of = q
         /\ Ends(Append(s, m), q) <=> Ends(s, q) \/ (m.of = q /\ m.what # "part")
         /\ \A j \in DOMAIN Append(s, m) : Append(s, m)[j] = m \/ \E i \in DOMAIN s : Append(s, m)[j] = s[i]
<1>1. Len(s) + 1 \in DOMAIN Append(s, m) BY AppendPlaces
<1>2. \A j \in DOMAIN s : j \in DOMAIN Append(s, m) /\ Append(s, m)[j] = s[j] BY AppendPlaces
<1>3. \A j \in DOMAIN Append(s, m) : j = Len(s) + 1 \/ j \in DOMAIN s BY AppendPlaces
<1>. QED BY <1>1, <1>2, <1>3, AppendPlaces DEF Has, Ends

\* The first of the answers left to give is replaced.
LEMMA TodoPlaces ==
  ASSUME NEW T, NEW t \in Seq(T), t # <<>>, NEW x \in T
  PROVE  /\ <<x>> \o Tail(t) \in Seq(T) /\ DOMAIN (<<x>> \o Tail(t)) = DOMAIN t /\ (<<x>> \o Tail(t))[1] = x
         /\ \A k \in DOMAIN t : k # 1 => (<<x>> \o Tail(t))[k] = t[k]
<1>1. Len(t) \in Nat \ {0} /\ DOMAIN t = 1..Len(t) OBVIOUS
<1>2. Tail(t) \in Seq(T) /\ Len(Tail(t)) = Len(t) - 1 /\ \A k \in 1..(Len(t) - 1) : Tail(t)[k] = t[k + 1] OBVIOUS
<1>3. <<x>> \in Seq(T) /\ Len(<<x>>) = 1 /\ <<x>>[1] = x OBVIOUS
<1>4. /\ <<x>> \o Tail(t) \in Seq(T) /\ Len(<<x>> \o Tail(t)) = 1 + (Len(t) - 1)
      /\ (<<x>> \o Tail(t))[1] = x
      /\ \A k \in 2..Len(t) : (<<x>> \o Tail(t))[k] = Tail(t)[k - 1]
  BY <1>1, <1>2, <1>3
<1>5. DOMAIN (<<x>> \o Tail(t)) = 1..Len(t) BY <1>1, <1>4
<1>6. ASSUME NEW k \in DOMAIN t, k # 1 PROVE (<<x>> \o Tail(t))[k] = t[k]
  <2>1. k \in 2..Len(t) /\ k - 1 \in 1..(Len(t) - 1) BY <1>1, <1>6
  <2>. QED BY <1>2, <1>4, <2>1
<1>. QED BY <1>1, <1>4, <1>5, <1>6

\* An answer none of which is there.
LEMMA LeadsNothing ==
  ASSUME NEW s, NEW q, NEW b \in Nat, ~Has(s, q)
  PROVE  Leads(s, q, b, b)
  BY DEF Leads, Has

\* What a message counts.
LEMMA NumType == ASSUME NEW m \in Messages PROVE m.n \in Nat /\ Num(m) \in Int /\ (m.what # "part" => Num(m) = m.n)
                                                 /\ (m.what = "part" => Num(m) = m.n - 1)
  BY DEF Messages, Num

\* The next of an answer joins it.
LEMMA LeadsAppend ==
  ASSUME NEW s \in Seq(Messages), NEW m \in Messages, NEW q, NEW b \in Nat, NEW e \in Nat, Leads(s, q, b, e),
         m.of = q => ~Ends(s, q) /\ Num(m) = e
  PROVE  Leads(Append(s, m), q, b, IF m.of = q THEN m.n ELSE e)
<1>. DEFINE t == Append(s, m)
            f == IF m.of = q THEN m.n ELSE e
<1>0. Len(s) \in Nat /\ DOMAIN s = 1..Len(s) /\ DOMAIN t = 1..(Len(s) + 1) /\ t[Len(s) + 1] = m
      /\ (\A j \in 1..Len(s) : t[j] = s[j]) /\ (\A j \in 1..Len(s) : s[j] \in Messages)
  BY AppendPlaces
<1>1. f \in Nat /\ e <= f /\ b <= e /\ (m.of = q => f = m.n /\ (m.what = "part" => f = e + 1) /\ (m.what # "part" => f = e))
      /\ (m.of # q => f = e)
  BY NumType DEF Leads
<1>. HIDE DEF t, f
<1>2. ASSUME NEW j \in DOMAIN t, t[j].of = q
      PROVE  /\ b <= Num(t[j]) /\ t[j].n <= f /\ (t[j].what # "part" => t[j].n = f)
             /\ \A i \in 1..(j - 1) : t[i].of = q => t[i].what = "part" /\ t[i].n <= Num(t[j])
  <2>1. CASE j \in 1..Len(s)
    <3>1. s[j].of = q /\ t[j] = s[j] /\ s[j] \in Messages BY <1>0, <1>2, <2>1
    <3>2. /\ b <= Num(s[j]) /\ s[j].n <= e /\ (s[j].what # "part" => s[j].n = e)
          /\ \A i \in 1..(j - 1) : s[i].of = q => s[i].what = "part" /\ s[i].n <= Num(s[j])
      BY <1>0, <2>1, <3>1 DEF Leads
    <3>3. s[j].what # "part" => m.of # q BY <1>0, <2>1, <3>1 DEF Ends
    <3>4. s[j].n <= f BY <1>1, <3>1, <3>2, NumType
    <3>5. s[j].what # "part" => s[j].n = f BY <1>1, <3>2, <3>3
    <3>6. \A i \in 1..(j - 1) : t[i] = s[i] BY <1>0, <2>1
    <3>. QED BY <3>1, <3>2, <3>4, <3>5, <3>6
  <2>2. CASE j = Len(s) + 1
    <3>1. t[j] = m /\ m.of = q /\ Num(m) = e BY <1>0, <1>2, <2>2
    <3>2. b <= Num(m) /\ m.n <= f /\ (m.what # "part" => m.n = f) BY <1>1, <3>1
    <3>3. ASSUME NEW i \in 1..(j - 1), t[i].of = q PROVE t[i].what = "part" /\ t[i].n <= Num(t[j])
      <4>1. i \in 1..Len(s) /\ t[i] = s[i] BY <1>0, <2>2
      <4>2. s[i].what = "part" BY <1>0, <3>1, <3>3, <4>1 DEF Ends
      <4>3. s[i].n <= e BY <1>0, <3>3, <4>1 DEF Leads
      <4>. QED BY <3>1, <4>1, <4>2, <4>3
    <3>. QED BY <3>1, <3>2, <3>3
  <2>. QED BY <1>0, <2>1, <2>2
<1>3. ASSUME NEW p \in (b + 1)..f PROVE \E i \in DOMAIN t : t[i].of = q /\ t[i].what = "part" /\ t[i].n = p
  <2>1. CASE p <= e
    <3>1. PICK i \in DOMAIN s : s[i].of = q /\ s[i].what = "part" /\ s[i].n = p BY <2>1 DEF Leads
    <3>. QED BY <1>0, <3>1
  <2>2. CASE ~(p <= e)
    <3>1. m.of = q /\ m.what = "part" /\ p = m.n
      <4>1. f # e BY <1>1, <2>2
      <4>2. m.of = q /\ m.what = "part" BY <1>1, <4>1
      <4>3. f = e + 1 /\ f = m.n BY <1>1, <4>2
      <4>. QED BY <2>2, <4>2, <4>3
    <3>. QED BY <1>0, <3>1
  <2>. QED BY <2>1, <2>2
<1>4. b <= f BY <1>1
<1>5. Leads(t, q, b, f) BY <1>2, <1>3, <1>4 DEF Leads
<1>. QED BY <1>5 DEF t, f

\* The first of an answer is the one after b; its end is the last of it.
LEMMA LeadsTail ==
  ASSUME NEW s \in Seq(Messages), s # <<>>, NEW q, NEW b \in Nat, NEW e \in Nat, Leads(s, q, b, e)
  PROVE  /\ Head(s).of # q => Leads(Tail(s), q, b, e)
         /\ Head(s).of = q => /\ Num(Head(s)) = b
                              /\ Head(s).what = "part" => Head(s).n = b + 1 /\ Leads(Tail(s), q, b + 1, e)
                              /\ Head(s).what # "part" => e = b /\ ~Has(Tail(s), q)
<1>. DEFINE t == Tail(s)
<1>0. /\ t \in Seq(Messages) /\ Head(s) = s[1] /\ s[1] \in Messages /\ 1 \in DOMAIN s
      /\ \A j \in DOMAIN t : j \in Nat \ {0} /\ j + 1 \in DOMAIN s /\ t[j] = s[j + 1]
      /\ \A i \in DOMAIN s : i # 1 => i \in Nat /\ i - 1 \in DOMAIN t /\ t[i - 1] = s[i]
      /\ \A i \in DOMAIN s : i \in Nat \ {0} /\ s[i] \in Messages
  BY TailPlaces
<1>. HIDE DEF t
<1>1. /\ b <= e
      /\ \A j \in DOMAIN s : s[j].of = q =>
           /\ b <= Num(s[j]) /\ s[j].n <= e /\ (s[j].what # "part" => s[j].n = e)
           /\ \A i \in 1..(j - 1) : s[i].of = q => s[i].what = "part" /\ s[i].n <= Num(s[j])
      /\ \A p \in (b + 1)..e : \E i \in DOMAIN s : s[i].of = q /\ s[i].what = "part" /\ s[i].n = p
  BY DEF Leads
<1>2. ASSUME NEW c \in {b, b + 1}, s[1].of = q => s[1].what = "part" /\ c = b + 1 /\ s[1].n = b + 1, s[1].of # q => c = b
      PROVE  Leads(t, q, c, e)
  <2>1. c <= e
    <3>1. CASE s[1].of = q BY <1>0, <1>1, <1>2, <3>1, NumType
    <3>2. CASE s[1].of # q BY <1>1, <1>2, <3>2
    <3>. QED BY <3>1, <3>2
  <2>2. ASSUME NEW j \in DOMAIN t, t[j].of = q
        PROVE  /\ c <= Num(t[j]) /\ t[j].n <= e /\ (t[j].what # "part" => t[j].n = e)
               /\ \A i \in 1..(j - 1) : t[i].of = q => t[i].what = "part" /\ t[i].n <= Num(t[j])
    <3>1. j \in Nat \ {0} /\ j + 1 \in DOMAIN s /\ t[j] = s[j + 1] /\ s[j + 1].of = q BY <1>0, <2>2
    <3>2. /\ b <= Num(s[j + 1]) /\ s[j + 1].n <= e /\ (s[j + 1].what # "part" => s[j + 1].n = e)
          /\ \A i \in 1..(j + 1 - 1) : s[i].of = q => s[i].what = "part" /\ s[i].n <= Num(s[j + 1])
      BY <1>1, <3>1
    <3>3. c <= Num(s[j + 1])
      <4>1. CASE s[1].of = q
        <5>1. s[1].n <= Num(s[j + 1]) BY <3>1, <3>2, <4>1
        <5>. QED BY <1>2, <4>1, <5>1
      <4>2. CASE s[1].of # q BY <1>2, <3>2, <4>2
      <4>. QED BY <4>1, <4>2
    <3>4. ASSUME NEW i \in 1..(j - 1), t[i].of = q PROVE t[i].what = "part" /\ t[i].n <= Num(t[j])
      <4>1. i + 1 \in 1..(j + 1 - 1) BY <3>1
      <4>2. i \in DOMAIN t BY <1>0, <3>1, <2>2
      <4>3. t[i] = s[i + 1] BY <1>0, <4>2
      <4>. QED BY <3>1, <3>2, <3>4, <4>1, <4>3
    <3>. QED BY <3>1, <3>2, <3>3, <3>4
  <2>3. ASSUME NEW p \in (c + 1)..e PROVE \E i \in DOMAIN t : t[i].of = q /\ t[i].what = "part" /\ t[i].n = p
    <3>1. p \in (b + 1)..e OBVIOUS
    <3>2. PICK i \in DOMAIN s : s[i].of = q /\ s[i].what = "part" /\ s[i].n = p BY <1>1, <3>1
    <3>3. i # 1
      <4>1. SUFFICES ASSUME i = 1 PROVE FALSE OBVIOUS
      <4>2. c = b + 1 /\ s[1].n = b + 1 BY <1>2, <3>2, <4>1
      <4>. QED BY <3>2, <4>1, <4>2
    <3>4. i - 1 \in DOMAIN t /\ t[i - 1] = s[i] BY <1>0, <3>3
    <3>. QED BY <3>2, <3>4
  <2>. QED BY <2>1, <2>2, <2>3 DEF Leads
<1>3. CASE s[1].of # q BY <1>0, <1>2, <1>3 DEF t
<1>4. CASE s[1].of = q /\ s[1].what = "part"
  <2>1. s[1].n - 1 = Num(s[1]) /\ s[1].n \in Nat BY <1>0, <1>4, NumType
  <2>2. b + 1 <= s[1].n /\ s[1].n <= e BY <1>0, <1>1, <1>4, <2>1
  <2>3. PICK i \in DOMAIN s : s[i].of = q /\ s[i].what = "part" /\ s[i].n = b + 1 BY <1>1, <2>1, <2>2
  <2>4. i = 1
    <3>1. SUFFICES ASSUME i # 1 PROVE FALSE OBVIOUS
    <3>2. i \in Nat /\ 1 \in 1..(i - 1) BY <1>0, <3>1
    <3>3. s[1].n <= Num(s[i]) BY <1>1, <1>4, <2>3, <3>2
    <3>4. Num(s[i]) = s[i].n - 1 BY <1>0, <2>3, NumType
    <3>5. Num(s[i]) = b BY <2>3, <3>4
    <3>6. s[1].n <= b BY <3>3, <3>5
    <3>. QED BY <2>1, <2>2, <3>6
  <2>5. s[1].n = b + 1 /\ Num(s[1]) = b BY <2>1, <2>3, <2>4
  <2>6. Leads(t, q, b + 1, e) BY <1>2, <1>4, <2>5
  <2>. QED BY <1>0, <1>4, <2>5, <2>6 DEF t
<1>5. CASE s[1].of = q /\ s[1].what # "part"
  <2>1. s[1].n = e /\ Num(s[1]) = e BY <1>0, <1>1, <1>5, NumType
  <2>2. ASSUME NEW i \in DOMAIN s, i # 1, s[i].of = q PROVE FALSE
    <3>1. i \in Nat /\ 1 \in 1..(i - 1) BY <1>0, <2>2
    <3>. QED BY <1>1, <1>5, <2>2, <3>1
  <2>3. e = b
    <3>1. SUFFICES ASSUME e # b PROVE FALSE OBVIOUS
    <3>2. b + 1 \in (b + 1)..e BY <1>1, <3>1
    <3>3. PICK i \in DOMAIN s : s[i].of = q /\ s[i].what = "part" BY <1>1, <3>2
    <3>. QED BY <1>5, <2>2, <3>3
  <2>4. ~Has(t, q)
    <3>1. SUFFICES ASSUME NEW j \in DOMAIN t, t[j].of = q PROVE FALSE BY DEF Has
    <3>. QED BY <1>0, <2>2, <3>1
  <2>. QED BY <1>0, <1>5, <2>1, <2>3, <2>4 DEF t
<1>. QED BY <1>3, <1>4, <1>5

(* Every step *)

\* At first nothing has been sent.
LEMMA AnswerInit == Init => AnswerInv
<1>. SUFFICES ASSUME Init PROVE AnswerInv OBVIOUS
<1>1. \A r \in Requests : turn[r].pc = "idle" /\ turn[r].chunk.of = None /\ chan[r].buf = <<>> /\ got[r].parts = 0
                          /\ got[r].whole /\ got[r].of = {} /\ got[r].end = "none"
  BY DEF Init, NoMessage, Message
<1>2. \A c \in Conns : reader[c].pc = "none" /\ socket[c].inbox = <<>> /\ socket[c].todo = <<>>
  BY DEF Init, NoSocket
<1>3. \A q : ~Has(<<>>, q) BY DEF Has
<1>4. active = None BY DEF Init
<1>5. \A q \in Requests : Private(q) /\ Unsent(q) BY <1>1, <1>2, <1>3, Bounds DEF Private, Unsent, At, InHand
<1>6. Chunks /\ Gots /\ Locked BY <1>1, <1>4 DEF Chunks, Gots, Locked, Armed
<1>7. DOMAIN <<>> = {} OBVIOUS
<1>8. Lines /\ Chans BY <1>1, <1>2, <1>7 DEF Lines, Chans
<1>. QED BY <1>1, <1>5, <1>6, <1>8 DEF AnswerInv, Turned, Sending

\* A turn stays excepted, and a reader that has left does not come back.
LEMMA ExceptedStay ==
  ASSUME TypeOK, Gots, Next
  PROVE  Excepted \subseteq Excepted' /\ Left \subseteq Left'
<1>. DEFINE Gone == {"shut", "drop", "exit"}
<1>1. ASSUME NEW q \in Requests, q \in Excepted PROVE q \in Excepted'
  <2>1. CASE got' = got /\ ctx' = ctx BY <1>1, <2>1 DEF Excepted
  <2>2. ASSUME NEW r \in Requests, Cancel(r) PROVE q \in Excepted'
    <3>1. got' = got /\ ctx' = [ctx EXCEPT ![r] = "cancelled"] /\ q \in DOMAIN ctx BY <2>2 DEF Cancel, TypeOK
    <3>. QED BY <1>1, <3>1 DEF Excepted
  <2>3. ASSUME NEW r \in Requests, Send(r) PROVE q \in Excepted'
    <3>1. ctx' = ctx /\ turn[r].pc = "send" BY <2>3 DEF Send
    <3>2. got[r].end = "none" BY <3>1 DEF Gots
    <3>3. CASE q # r
      <4>1. got'[q] = got[q] BY <2>3, <3>3 DEF Send, TypeOK
      <4>. QED BY <1>1, <3>1, <4>1 DEF Excepted
    <3>4. CASE q = r
      <4>1. got[q].of \subseteq got'[q].of BY <2>3, <3>4 DEF Send, TypeOK
      <4>. QED BY <1>1, <3>1, <3>2, <3>4, <4>1 DEF Excepted
    <3>. QED BY <3>3, <3>4
  <2>4. ASSUME NEW r \in Requests, Start(r) \/ Run(r) PROVE got' = got /\ ctx' = ctx
    BY <2>4 DEF Start, Run, Lock, Reuse, Dial, Refused, Unreachable, Arm, Written, NotWritten, ReadNext, ReadClosed, Stop, End
  <2>5. ASSUME NEW c \in Conns, Loop(c) \/ Break(c) \/ \E what \in {"part", "completed", "error"} : Answer(c, what)
        PROVE  got' = got /\ ctx' = ctx
    BY <2>5 DEF Loop, Receive, Put, Shut, Drop, Break, Answer
  <2>6. CloseSession => got' = got /\ ctx' = ctx BY DEF CloseSession
  <2>. QED BY <2>1, <2>2, <2>3, <2>4, <2>5, <2>6 DEF Next
<1>2. ASSUME NEW c \in Conns, reader[c].pc \in Gone PROVE reader'[c].pc \in Gone
  <2>1. CASE reader' = reader BY <1>2, <2>1
  <2>2. ASSUME NEW d \in Conns, Loop(d) PROVE reader'[c].pc \in Gone
    <3>1. CASE d # c
      <4>1. reader'[c] = reader[c]
        BY <2>2, <3>1 DEF TypeOK, Loop, Receive, Put, Shut, Drop, Capture, AfterPut
      <4>. QED BY <1>2, <4>1
    <3>2. CASE d = c
      <4>1. CASE Shut(c) BY <4>1 DEF Shut, TypeOK
      <4>2. CASE Drop(c) BY <4>2 DEF Drop, TypeOK
      <4>. QED BY <1>2, <2>2, <3>2, <4>1, <4>2 DEF Loop, Receive, Put
    <3>. QED BY <3>1, <3>2
  <2>3. ASSUME NEW r \in Requests, Dial(r) PROVE reader'[c].pc \in Gone
    <3>1. PICK d \in Conns \ Dialled : reader' = [reader EXCEPT ![d].pc = "read"] BY <2>3 DEF Dial, Connect
    <3>2. d # c BY <1>2, <3>1 DEF Dialled
    <3>3. reader'[c] = reader[c] BY <3>1, <3>2 DEF TypeOK
    <3>. QED BY <1>2, <3>3
  <2>4. ASSUME NEW r \in Requests, Start(r) \/ Send(r) \/ Cancel(r) \/ (Run(r) /\ ~Dial(r)) PROVE reader' = reader
    BY <2>4 DEF Start, Send, Cancel, Run, Lock, Reuse, Refused, Unreachable, Arm, Written, NotWritten, ReadNext, ReadClosed,
                Stop, End
  <2>5. CloseSession => reader' = reader BY DEF CloseSession
  <2>6. ASSUME NEW d \in Conns, Break(d) \/ \E what \in {"part", "completed", "error"} : Answer(d, what)
        PROVE  reader' = reader
    BY <2>6 DEF Break, Answer
  <2>. QED BY <2>1, <2>2, <2>3, <2>4, <2>5, <2>6 DEF Next
<1>. QED BY <1>1, <1>2 DEF Excepted, Left

\* How a turn's place changes, with the session's lock and channel.
LEMMA LockedNext == ASSUME TypeOK, Locked, Next PROVE Locked'
<1>0. turn \in [Requests -> [pc : Places, conn : 0..MaxConns, chunk : Messages]] /\ active \in 0..Turns BY DEF TypeOK
<1>1. ASSUME NEW r \in Requests, Start(r) \/ Run(r) \/ Send(r) \/ Cancel(r) PROVE Locked'
  <2>1. ASSUME holder' = holder, active' = active, \A q \in Requests : q # r => turn'[q] = turn[q],
               turn'[r].pc \in Armed \cup {"ensure", "arm"} => turn[r].pc \in Armed \cup {"ensure", "arm"},
               turn[r].pc \in Armed => turn'[r].pc \in Armed
        PROVE  Locked'
    BY <1>0, <2>1, Bounds DEF Locked
  <2>2. CASE Start(r)
    <3>1. Goto(r, "lock") BY <2>2 DEF Start
    <3>2. turn'[r].pc = "lock" /\ \A q \in Requests : q # r => turn'[q] = turn[q] BY <1>0, <3>1 DEF Goto
    <3>. QED BY <2>1, <2>2, <3>2 DEF Start, Armed
  <2>3. CASE Lock(r)
    <3>1. Goto(r, "ensure") /\ turn[r].pc = "lock" /\ holder = None /\ holder' = r /\ active' = active BY <2>3 DEF Lock
    <3>2. turn'[r].pc = "ensure" /\ \A q \in Requests : q # r => turn'[q] = turn[q] BY <1>0, <3>1 DEF Goto
    <3>3. \A q \in Requests : turn[q].pc \notin Armed \cup {"ensure", "arm"} BY <3>1, Bounds DEF Locked
    <3>4. active = None BY <1>0, <3>3, Bounds DEF Locked
    <3>. QED BY <3>1, <3>2, <3>3, <3>4 DEF Locked
  <2>4. CASE Refused(r)
    <3>1. Goto(r, "done") /\ turn[r].pc = "ensure" /\ holder' = holder /\ active' = active BY <2>4 DEF Refused
    <3>2. turn'[r].pc = "done" /\ \A q \in Requests : q # r => turn'[q] = turn[q] BY <1>0, <3>1 DEF Goto
    <3>. QED BY <2>1, <3>1, <3>2 DEF Armed
  <2>5. CASE Arm(r)
    <3>1. Goto(r, "write") /\ turn[r].pc = "arm" /\ holder' = holder /\ active' = r BY <2>5 DEF Arm
    <3>2. turn'[r].pc = "write" /\ \A q \in Requests : q # r => turn'[q] = turn[q] BY <1>0, <3>1 DEF Goto
    <3>. QED BY <3>1, <3>2 DEF Locked, Armed
  <2>6. CASE End(r)
    <3>1. turn[r].pc = "end" /\ holder' = None /\ turn' = [turn EXCEPT ![r].pc = "done", ![r].conn = None] /\ Clear(r)
      BY <2>6 DEF End
    <3>2. turn'[r].pc = "done" /\ \A q \in Requests : q # r => turn'[q] = turn[q] BY <1>0, <3>1
    <3>3. holder = r BY <3>1 DEF Locked, Armed
    <3>4. \A q \in Requests : q # r => turn[q].pc \notin Armed \cup {"ensure", "arm"} BY <3>3 DEF Locked
    <3>5. active' = None BY <1>0, <3>1, <3>4, Bounds DEF Clear, Locked
    <3>. QED BY <3>2, <3>4, <3>5 DEF Locked, Armed
  <2>7. CASE Reuse(r) \/ Dial(r)
    <3>1. PICK pc \in {"arm", "write again"} :
            (\E c : turn' = [turn EXCEPT ![r].pc = pc, ![r].conn = c]) /\ (turn[r].pc = "ensure" <=> pc = "arm")
            /\ turn[r].pc \in {"ensure", "ensure again"} /\ holder' = holder /\ active' = active
      <4>1. turn[r].pc \in {"ensure", "ensure again"} /\ holder' = holder /\ active' = active BY <2>7 DEF Reuse, Dial
      <4>2. CASE turn[r].pc = "ensure"
        <5>1. \E c : turn' = [turn EXCEPT ![r].pc = "arm", ![r].conn = c]
          BY <1>0, <2>7, <4>2 DEF Reuse, Dial, Connect
        <5>. QED BY <4>1, <4>2, <5>1
      <4>3. CASE turn[r].pc # "ensure"
        <5>1. \E c : turn' = [turn EXCEPT ![r].pc = "write again", ![r].conn = c]
          BY <1>0, <2>7, <4>3 DEF Reuse, Dial, Connect
        <5>. QED BY <4>1, <4>3, <5>1
      <4>. QED BY <4>2, <4>3
    <3>2. turn'[r].pc = pc /\ \A q \in Requests : q # r => turn'[q] = turn[q] BY <1>0, <3>1
    <3>. QED BY <2>1, <3>1, <3>2 DEF Armed
  <2>8. CASE Cancel(r)
    <3>1. UNCHANGED <<turn, holder, active>> BY <2>8 DEF Cancel
    <3>. QED BY <3>1 DEF Locked
  <2>9. CASE Unreachable(r) \/ Written(r) \/ NotWritten(r)
    <3>1. PICK pc \in {"end", "read", "ensure again"} : Goto(r, pc) BY <2>9 DEF Unreachable, Written, NotWritten
    <3>2. turn[r].pc \in Armed \cup {"ensure", "arm"} /\ holder' = holder /\ active' = active
      BY <2>9 DEF Unreachable, Written, NotWritten, Armed
    <3>3. turn'[r].pc = pc /\ \A q \in Requests : q # r => turn'[q] = turn[q] BY <1>0, <3>1 DEF Goto
    <3>. QED BY <2>1, <3>2, <3>3 DEF Armed
  <2>10. CASE ReadNext(r) \/ ReadClosed(r) \/ Send(r) \/ Stop(r)
    <3>1. turn' = turn \/ \E pc \in {"read", "send", "end"} : \E m : turn' = [turn EXCEPT ![r].pc = pc, ![r].chunk = m]
      BY <2>10 DEF ReadNext, ReadClosed, Send, Stop
    <3>2. turn[r].pc \in Armed /\ holder' = holder /\ active' = active BY <2>10 DEF ReadNext, ReadClosed, Send, Stop, Armed
    <3>3. turn'[r].pc \in Armed /\ \A q \in Requests : q # r => turn'[q] = turn[q] BY <1>0, <3>1, <3>2 DEF Armed
    <3>. QED BY <2>1, <3>2, <3>3
  <2>. QED BY <1>1, <2>2, <2>3, <2>4, <2>5, <2>6, <2>7, <2>8, <2>9, <2>10 DEF Run
<1>2. CASE CloseSession \/ \E c \in Conns : Loop(c) \/ Break(c) \/ \E what \in {"part", "completed", "error"} : Answer(c, what)
  <2>1. turn' = turn /\ holder' = holder BY <1>2 DEF CloseSession, Loop, Receive, Put, Shut, Drop, Break, Answer
  <2>2. active' = active \/ active' = None BY <1>2 DEF CloseSession, Loop, Receive, Put, Shut, Clear, Drop, Break, Answer
  <2>. QED BY <2>1, <2>2 DEF Locked
<1>. QED BY <1>1, <1>2 DEF Next

\* What a step leaves alone stays as it is.
LEMMA LinesStay ==
  ASSUME AnswerInv, Excepted \subseteq Excepted',
         \A c \in Conns : socket'[c].inbox = socket[c].inbox,
         \A c \in Conns : reader'[c] = reader[c] \/ reader'[c].pc # "put"
  PROVE  Lines'
<1>1. ASSUME NEW c \in Conns, reader'[c].pc = "put"
      PROVE  LET m == reader'[c].msg IN
               Parcel(m) /\ m.conn = c /\ (m.of \notin {reader'[c].ch, None} => m.of \in Excepted')
  <2>1. reader'[c] = reader[c] BY <1>1
  <2>. QED BY <1>1, <2>1 DEF AnswerInv, Lines
<1>. QED BY <1>1 DEF AnswerInv, Lines

LEMMA ChansStay ==
  ASSUME AnswerInv, Excepted \subseteq Excepted', Left \subseteq Left',
         \A r \in Requests : \A j \in DOMAIN chan'[r].buf : \E i \in DOMAIN chan[r].buf : chan'[r].buf[j] = chan[r].buf[i]
  PROVE  Chans'
  BY DEF AnswerInv, Chans, Fit

LEMMA ChunksStay ==
  ASSUME AnswerInv, Excepted \subseteq Excepted', Left \subseteq Left',
         \A r \in Requests : turn'[r] = turn[r] \/ (turn'[r].pc # "send" /\ turn'[r].chunk.of = None)
  PROVE  Chunks'
<1>. SUFFICES ASSUME NEW r \in Requests
              PROVE  /\ turn'[r].pc # "send" => turn'[r].chunk.of = None
                     /\ turn'[r].pc = "send" => /\ turn'[r].chunk.conn = turn'[r].conn
                                                /\ \/ turn'[r].chunk.what = "shut" /\ turn'[r].chunk.of = None
                                                   \/ Fit(turn[r].chunk, r)' /\ turn'[r] = turn[r]
  BY DEF Chunks, Fit
<1>1. /\ turn[r].pc # "send" => turn[r].chunk.of = None
      /\ turn[r].pc = "send" => /\ turn[r].chunk.conn = turn[r].conn
                                /\ (turn[r].chunk.what = "shut" /\ turn[r].chunk.of = None) \/ Fit(turn[r].chunk, r)
  BY DEF AnswerInv, Chunks
<1>. QED BY <1>1 DEF Fit

LEMMA GotsStay ==
  ASSUME AnswerInv, Excepted \subseteq Excepted', got' = got,
         \A r \in Requests : turn[r].pc \in {"end", "done"} => turn'[r].pc \in {"end", "done"}
  PROVE  Gots'
<1>. SUFFICES ASSUME NEW r \in Requests
              PROVE  /\ \A q \in got[r].of \ {r, None} : q \in Excepted'
                     /\ got[r].whole
                     /\ turn'[r].pc \notin {"end", "done"} => got[r].end = "none"
  BY DEF Gots
<1>1. /\ \A q \in got[r].of \ {r, None} : q \in Excepted
      /\ got[r].whole
      /\ turn[r].pc \notin {"end", "done"} => got[r].end = "none"
  BY DEF AnswerInv, Gots
<1>. QED BY <1>1

\* A turn whose own messages a step does not touch, unless it wipes a connection.
LEMMA Same ==
  ASSUME TypeOK, TypeOK', AnswerInv, NEW q \in Requests, Excepted \subseteq Excepted', Left \subseteq Left',
         \/ turn'[q] = turn[q]
         \/ /\ turn[q].pc \in Sending /\ turn'[q].pc \in Sending /\ turn'[q].conn = turn[q].conn
            /\ ~Taken(q) /\ ~Taken(q)',
         got'[q].parts = got[q].parts, Private(q) => Private(q)', active' = q => active = q,
         Has(chan'[q].buf, q) => Has(chan[q].buf, q), Ends(chan'[q].buf, q) => Ends(chan[q].buf, q),
         \A b, e \in Nat : Leads(chan[q].buf, q, b, e) => Leads(chan'[q].buf, q, b, e),
         \A j \in DOMAIN chan'[q].buf :
           chan'[q].buf[j].of = q => \E i \in DOMAIN chan[q].buf : chan'[q].buf[j] = chan[q].buf[i],
         \A c \in Conns : (InHand(c, q)' => InHand(c, q)) /\ (InHand(c, q) => reader'[c] = reader[c]),
         \A c \in Conns :
           \/ socket'[c].inbox = <<>> /\ socket'[c].todo = <<>>
           \/ /\ Has(socket'[c].inbox, q) => Has(socket[c].inbox, q)
              /\ Ends(socket'[c].inbox, q) => Ends(socket[c].inbox, q)
              /\ \A b, e \in Nat : Leads(socket[c].inbox, q, b, e) => Leads(socket'[c].inbox, q, b, e)
              /\ Has(socket'[c].todo, q) => Has(socket[c].todo, q)
              /\ \A n \in Nat : (\A k \in DOMAIN socket[c].todo : socket[c].todo[k].of = q => socket[c].todo[k].n = n)
                   => \A k \in DOMAIN socket'[c].todo : socket'[c].todo[k].of = q => socket'[c].todo[k].n = n
              /\ (\A j, k \in DOMAIN socket[c].todo : socket[c].todo[j].of = q /\ socket[c].todo[k].of = q => j = k)
                   => \A j, k \in DOMAIN socket'[c].todo : socket'[c].todo[j].of = q /\ socket'[c].todo[k].of = q => j = k
  PROVE  Turned(q)'
<1>1. Turned(q) BY DEF AnswerInv
<1>2. \A c \in Conns : (InHand(c, q)' <=> InHand(c, q)) /\ (InHand(c, q)' => reader'[c] = reader[c]) BY DEF InHand
<1>0. DOMAIN <<>> = {} /\ ~Has(<<>>, q) /\ ~Ends(<<>>, q)
  <2>1. DOMAIN <<>> = {} OBVIOUS
  <2>. QED BY <2>1 DEF Has, Ends
<1>3. \A c \in Conns : At(c, q)' => At(c, q) BY <1>0, <1>2 DEF At
<1>4. Base(q)' = Base(q) BY DEF Base, Taken
<1>5. CASE turn[q].pc \in Sending
  <2>1. PICK c \in Conns :
          /\ c = turn[q].conn /\ Private(q) /\ Flow(q, c) /\ Ended(q, c)
          /\ \A d \in Conns : At(d, q) => d = c
          /\ \A d \in Conns : InHand(d, q) => reader[d].ch = q
          /\ \A j \in DOMAIN chan[q].buf : chan[q].buf[j].of = q => chan[q].buf[j].conn = c
    BY <1>1, <1>5 DEF Turned, Sent
  <2>2. Flow(q, c)'
    <3>1. PICK e0 \in Nat, e1 \in Nat, e2 \in Nat :
            /\ Leads(chan[q].buf, q, Base(q), e0)
            /\ InHand(c, q) => reader[c].msg.n = e1
            /\ Leads(socket[c].inbox, q, e1, e2)
            /\ \A k \in DOMAIN socket[c].todo : socket[c].todo[k].of = q => socket[c].todo[k].n = e2
            /\ active = q => IF InHand(c, q) THEN Num(reader[c].msg) = e0 ELSE e1 = e0
      BY <2>1 DEF Flow
    <3>2. Base(q) \in Nat BY DEF Base, TypeOK
    <3>3. Leads(chan'[q].buf, q, Base(q)', e0) BY <1>4, <3>1, <3>2
    <3>4. InHand(c, q)' => reader'[c].msg.n = e1 BY <1>2, <3>1
    <3>5. \E f \in Nat : /\ Leads(socket'[c].inbox, q, e1, f)
                         /\ \A k \in DOMAIN socket'[c].todo : socket'[c].todo[k].of = q => socket'[c].todo[k].n = f
      <4>1. CASE socket'[c].inbox = <<>> /\ socket'[c].todo = <<>> BY <1>0, <4>1, LeadsNothing
      <4>2. CASE ~(socket'[c].inbox = <<>> /\ socket'[c].todo = <<>>) BY <3>1, <4>2
      <4>. QED BY <4>1, <4>2
    <3>6. PICK f \in Nat : /\ Leads(socket'[c].inbox, q, e1, f)
                           /\ \A k \in DOMAIN socket'[c].todo : socket'[c].todo[k].of = q => socket'[c].todo[k].n = f
      BY <3>5
    <3>7. active' = q => IF InHand(c, q)' THEN Num(reader'[c].msg) = e0 ELSE e1 = e0 BY <1>2, <3>1
    <3>. QED BY <3>3, <3>4, <3>6, <3>7 DEF Flow
  <2>3. Ended(q, c)'
    <3>1. Ends(chan'[q].buf, q) => ~At(c, q)' BY <1>3, <2>1 DEF Ended
    <3>2. InHand(c, q)' /\ reader'[c].msg.what # "part" => ~Has(socket'[c].inbox, q) /\ ~Has(socket'[c].todo, q)
      BY <1>0, <1>2, <2>1 DEF Ended
    <3>3. Ends(socket'[c].inbox, q) => ~Has(socket'[c].todo, q) BY <1>0, <2>1 DEF Ended
    <3>4. \A j, k \in DOMAIN socket'[c].todo : socket'[c].todo[j].of = q /\ socket'[c].todo[k].of = q => j = k
      BY <1>0, <2>1 DEF Ended
    <3>5. Taken(q)' => Taken(q) /\ turn'[q] = turn[q] BY DEF Taken
    <3>6. Taken(q)' => Num(turn'[q].chunk) = got'[q].parts BY <2>1, <3>5 DEF Ended
    <3>7. Taken(q)' /\ turn'[q].chunk.what # "part" => ~Has(chan'[q].buf, q) /\ ~At(c, q)' BY <1>3, <2>1, <3>5 DEF Ended
    <3>. QED BY <3>1, <3>2, <3>3, <3>4, <3>6, <3>7 DEF Ended
  <2>4. \A d \in Conns : InHand(d, q)' => reader'[d].ch = q BY <1>2, <2>1
  <2>5. \A j \in DOMAIN chan'[q].buf : chan'[q].buf[j].of = q => chan'[q].buf[j].conn = c BY <2>1
  <2>6. c = turn'[q].conn BY <2>1
  <2>7. Private(q)' BY <2>1
  <2>8. \A d \in Conns : At(d, q)' => d = c BY <1>3, <2>1
  <2>9. Sent(q)' BY <2>2, <2>3, <2>4, <2>5, <2>6, <2>7, <2>8 DEF Sent
  <2>10. turn'[q].pc \in Sending BY <1>5
  <2>. QED BY <2>9, <2>10 DEF Turned, Sending
<1>6. CASE turn[q].pc \in {"end", "done"}
  <2>1. turn'[q] = turn[q] BY <1>6 DEF Sending
  <2>2. Finished(q)' BY <1>1, <1>3, <1>6 DEF Turned, Finished
  <2>. QED BY <1>6, <2>1, <2>2 DEF Turned, Sending
<1>7. CASE turn[q].pc \notin Sending \cup {"end", "done"}
  <2>1. turn'[q] = turn[q] BY <1>7
  <2>2. Unsent(q)' BY <1>1, <1>3, <1>7 DEF Turned, Unsent
  <2>. QED BY <1>7, <2>1, <2>2 DEF Turned
<1>. QED BY <1>5, <1>6, <1>7

\* Steps that bring no message any further: at most a connection is wiped, a turn without a
\* request at the upstream moves or ends, and a channel stops being the active one.
LEMMA Quiet ==
  ASSUME TypeOK, TypeOK', AnswerInv, Locked', Excepted \subseteq Excepted', Left \subseteq Left', got' = got,
         \A r \in Requests : chan'[r].buf = chan[r].buf,
         \A c \in Conns : \/ socket'[c].inbox = socket[c].inbox /\ socket'[c].todo = socket[c].todo
                          \/ socket'[c].inbox = <<>> /\ socket'[c].todo = <<>>,
         \A c \in Conns : reader'[c] = reader[c] \/ (reader[c].pc # "put" /\ reader'[c].pc # "put"),
         \A r \in Requests : \/ turn'[r] = turn[r]
                             \/ /\ turn[r].pc \notin Sending \cup {"end", "done"} /\ turn'[r].pc \notin Sending
                                /\ turn'[r].chunk = turn[r].chunk,
         \A r \in Requests : turn[r].pc \in Sending /\ active' = r => active = r
  PROVE  AnswerInv'
<1>0. DOMAIN <<>> = {} /\ \A q : ~Has(<<>>, q) /\ ~Ends(<<>>, q)
  <2>1. DOMAIN <<>> = {} OBVIOUS
  <2>. QED BY <2>1 DEF Has, Ends
<1>1. Lines'
  <2>1. ASSUME NEW c \in Conns, NEW j \in DOMAIN socket'[c].inbox
        PROVE  Parcel(socket'[c].inbox[j]) /\ socket'[c].inbox[j].conn = c /\ socket'[c].inbox[j].of # None
    <3>1. socket'[c].inbox = socket[c].inbox BY <1>0, <2>1
    <3>. QED BY <2>1, <3>1 DEF AnswerInv, Lines
  <2>2. ASSUME NEW c \in Conns, reader'[c].pc = "put"
        PROVE  LET m == reader'[c].msg IN
                 Parcel(m) /\ m.conn = c /\ (m.of \notin {reader'[c].ch, None} => m.of \in Excepted')
    <3>1. reader'[c] = reader[c] BY <2>2
    <3>. QED BY <2>2, <3>1 DEF AnswerInv, Lines
  <2>. QED BY <2>1, <2>2 DEF Lines
<1>2. Chans' BY DEF AnswerInv, Chans, Fit
<1>3. Chunks'
  <2>. SUFFICES ASSUME NEW r \in Requests
                PROVE  /\ turn'[r].pc # "send" => turn'[r].chunk.of = None
                       /\ turn'[r].pc = "send" => /\ turn'[r].chunk.conn = turn'[r].conn
                                                  /\ \/ turn'[r].chunk.what = "shut" /\ turn'[r].chunk.of = None
                                                     \/ Fit(turn[r].chunk, r)' /\ turn'[r] = turn[r]
    BY DEF Chunks, Fit
  <2>1. /\ turn[r].pc # "send" => turn[r].chunk.of = None
        /\ turn[r].pc = "send" => /\ turn[r].chunk.conn = turn[r].conn
                                  /\ (turn[r].chunk.what = "shut" /\ turn[r].chunk.of = None) \/ Fit(turn[r].chunk, r)
    BY DEF AnswerInv, Chunks
  <2>2. CASE turn'[r] = turn[r] BY <2>1, <2>2 DEF Fit
  <2>3. CASE turn'[r] # turn[r] BY <2>1, <2>3 DEF Sending
  <2>. QED BY <2>2, <2>3
<1>4. Gots'
  <2>. SUFFICES ASSUME NEW r \in Requests
                PROVE  /\ \A q \in got[r].of \ {r, None} : q \in Excepted'
                       /\ got[r].whole
                       /\ turn'[r].pc \notin {"end", "done"} => got[r].end = "none"
    BY DEF Gots
  <2>1. /\ \A q \in got[r].of \ {r, None} : q \in Excepted
        /\ got[r].whole
        /\ turn[r].pc \notin {"end", "done"} => got[r].end = "none"
    BY DEF AnswerInv, Gots
  <2>. QED BY <2>1
<1>5. ASSUME NEW q \in Requests PROVE Turned(q)'
  <2>1. Turned(q) /\ q # None BY Bounds DEF AnswerInv
  <2>2. \A c \in Conns : /\ InHand(c, q)' <=> InHand(c, q)
                         /\ InHand(c, q)' => reader'[c] = reader[c]
    BY DEF InHand
  <2>3. \A c \in Conns : Has(socket'[c].inbox, q) => Has(socket[c].inbox, q) BY <1>0
  <2>4. \A c \in Conns : Has(socket'[c].todo, q) => Has(socket[c].todo, q) BY <1>0
  <2>5. \A c \in Conns : At(c, q)' => At(c, q) BY <2>2, <2>3, <2>4 DEF At
  <2>6. Private(q) => Private(q)'
    <3>1. ASSUME NEW r \in Requests, turn[r].chunk.of # q PROVE turn'[r].chunk.of # q BY <3>1
    <3>. QED BY <3>1 DEF Private
  <2>7. CASE turn'[q] = turn[q]
    <3>1. CASE turn[q].pc \in Sending
      <4>1. PICK c \in Conns :
              /\ c = turn[q].conn /\ Private(q) /\ Flow(q, c) /\ Ended(q, c)
              /\ \A d \in Conns : At(d, q) => d = c
              /\ \A d \in Conns : InHand(d, q) => reader[d].ch = q
              /\ \A j \in DOMAIN chan[q].buf : chan[q].buf[j].of = q => chan[q].buf[j].conn = c
        BY <2>1, <3>1 DEF Turned, Sent
      <4>2. Flow(q, c)'
        <5>1. PICK e0 \in Nat, e1 \in Nat, e2 \in Nat :
                /\ Leads(chan[q].buf, q, Base(q), e0)
                /\ InHand(c, q) => reader[c].msg.n = e1
                /\ Leads(socket[c].inbox, q, e1, e2)
                /\ \A k \in DOMAIN socket[c].todo : socket[c].todo[k].of = q => socket[c].todo[k].n = e2
                /\ active = q => IF InHand(c, q) THEN Num(reader[c].msg) = e0 ELSE e1 = e0
          BY <4>1 DEF Flow
        <5>2. Base(q)' = Base(q) BY <2>7 DEF Base, Taken
        <5>3. \E f \in Nat : /\ Leads(socket'[c].inbox, q, e1, f)
                             /\ \A k \in DOMAIN socket'[c].todo : socket'[c].todo[k].of = q => socket'[c].todo[k].n = f
          <6>1. CASE socket'[c].inbox = <<>> /\ socket'[c].todo = <<>> BY <1>0, <6>1, LeadsNothing
          <6>2. CASE socket'[c].inbox = socket[c].inbox /\ socket'[c].todo = socket[c].todo BY <5>1, <6>2
          <6>. QED BY <6>1, <6>2
        <5>4. PICK f \in Nat : /\ Leads(socket'[c].inbox, q, e1, f)
                               /\ \A k \in DOMAIN socket'[c].todo : socket'[c].todo[k].of = q => socket'[c].todo[k].n = f
          BY <5>3
        <5>5. Leads(chan'[q].buf, q, Base(q)', e0) BY <5>1, <5>2
        <5>6. InHand(c, q)' => reader'[c].msg.n = e1 BY <2>2, <5>1
        <5>7. active' = q => IF InHand(c, q)' THEN Num(reader'[c].msg) = e0 ELSE e1 = e0 BY <2>2, <3>1, <5>1
        <5>. QED BY <5>4, <5>5, <5>6, <5>7 DEF Flow
      <4>3. Ended(q, c)'
        <5>1. Ends(chan'[q].buf, q) => ~At(c, q)' BY <2>5, <4>1 DEF Ended
        <5>2. InHand(c, q)' /\ reader'[c].msg.what # "part" => ~Has(socket'[c].inbox, q) /\ ~Has(socket'[c].todo, q)
          BY <2>2, <2>3, <2>4, <4>1 DEF Ended
        <5>3. Ends(socket'[c].inbox, q) => ~Has(socket'[c].todo, q) BY <1>0, <2>4, <4>1 DEF Ended
        <5>4. \A j, k \in DOMAIN socket'[c].todo : socket'[c].todo[j].of = q /\ socket'[c].todo[k].of = q => j = k
          BY <1>0, <4>1 DEF Ended
        <5>5. Taken(q)' => Taken(q) /\ Num(turn'[q].chunk) = got'[q].parts BY <2>7, <4>1 DEF Ended, Taken
        <5>6. Taken(q)' /\ turn'[q].chunk.what # "part" => ~Has(chan'[q].buf, q) /\ ~At(c, q)'
          BY <2>5, <2>7, <4>1, <5>5 DEF Ended
        <5>. QED BY <5>1, <5>2, <5>3, <5>4, <5>5, <5>6 DEF Ended
      <4>4. \A d \in Conns : InHand(d, q)' => reader'[d].ch = q BY <2>2, <4>1
      <4>5. \A j \in DOMAIN chan'[q].buf : chan'[q].buf[j].of = q => chan'[q].buf[j].conn = c BY <4>1
      <4>6. c = turn'[q].conn BY <2>7, <4>1
      <4>7. Sent(q)' BY <2>5, <2>6, <4>1, <4>2, <4>3, <4>4, <4>5, <4>6 DEF Sent
      <4>. QED BY <2>7, <3>1, <4>7 DEF Turned, Sending
    <3>2. CASE turn[q].pc \in {"end", "done"}
      <4>1. Finished(q)' BY <2>1, <2>5, <3>2 DEF Turned, Finished
      <4>. QED BY <2>7, <3>2, <4>1 DEF Turned, Sending
    <3>3. CASE turn[q].pc \notin Sending \cup {"end", "done"}
      <4>1. Unsent(q)' BY <2>1, <2>5, <2>6, <3>3 DEF Turned, Unsent
      <4>. QED BY <2>7, <3>3, <4>1 DEF Turned
    <3>. QED BY <3>1, <3>2, <3>3
  <2>8. CASE turn'[q] # turn[q]
    <3>1. turn[q].pc \notin Sending \cup {"end", "done"} /\ turn'[q].pc \notin Sending BY <2>8
    <3>2. Unsent(q) BY <2>1, <3>1 DEF Turned
    <3>3. Unsent(q)' BY <2>5, <2>6, <3>2 DEF Unsent
    <3>4. Finished(q)' BY <2>5, <3>2 DEF Unsent, Finished
    <3>. QED BY <3>1, <3>3, <3>4 DEF Turned
  <2>. QED BY <2>7, <2>8
<1>. QED BY <1>1, <1>2, <1>3, <1>4, <1>5 DEF AnswerInv

\* The steps of that kind, and a stuttering step.
LEMMA QuietSteps ==
  ASSUME TypeOK, AnswerInv, Next,
         \/ CloseSession
         \/ \E c \in Conns : Break(c) \/ Shut(c) \/ Drop(c)
         \/ \E r \in Requests : \/ Start(r) \/ Lock(r) \/ Reuse(r) \/ Dial(r) \/ Refused(r) \/ Unreachable(r) \/ Arm(r)
                                \/ NotWritten(r) \/ Cancel(r)
  PROVE  AnswerInv'
<1>0. TypeOK' /\ Locked' /\ Excepted \subseteq Excepted' /\ Left \subseteq Left'
  BY TypeNext, LockedNext, ExceptedStay DEF AnswerInv
<1>1. /\ turn \in [Requests -> [pc : Places, conn : 0..MaxConns, chunk : Messages]]
      /\ chan \in [Requests -> [buf : Seq(Messages), closed : BOOLEAN]]
      /\ reader \in [Conns -> Readers]
      /\ socket \in [Conns -> [open : BOOLEAN, up : BOOLEAN, inbox : Seq(Messages), todo : Seq([of : Requests, n : Nat])]]
  BY DEF TypeOK, Sockets
<1>2. \A s \in [Conns -> [open : BOOLEAN, up : BOOLEAN, inbox : Seq(Messages), todo : Seq([of : Requests, n : Nat])]] :
        s = socket \/ (\E c \in Conns : s = [socket EXCEPT ![c] = NoSocket])
          => \A c \in Conns : \/ s[c].inbox = socket[c].inbox /\ s[c].todo = socket[c].todo
                              \/ s[c].inbox = <<>> /\ s[c].todo = <<>>
  <2>. SUFFICES ASSUME NEW s \in [Conns -> [open : BOOLEAN, up : BOOLEAN, inbox : Seq(Messages), todo : Seq([of : Requests, n : Nat])]],
                       s = socket \/ (\E c \in Conns : s = [socket EXCEPT ![c] = NoSocket]), NEW d \in Conns
                PROVE  \/ s[d].inbox = socket[d].inbox /\ s[d].todo = socket[d].todo
                       \/ s[d].inbox = <<>> /\ s[d].todo = <<>>
    OBVIOUS
  <2>1. s[d] = socket[d] \/ s[d] = NoSocket BY <1>1
  <2>. QED BY <2>1 DEF NoSocket
<1>3. socket' \in [Conns -> [open : BOOLEAN, up : BOOLEAN, inbox : Seq(Messages), todo : Seq([of : Requests, n : Nat])]]
  BY <1>0 DEF TypeOK, Sockets
<1>4. \A c \in Conns : Invalidate(c) => socket' = socket \/ (\E d \in Conns : socket' = [socket EXCEPT ![d] = NoSocket])
  BY DEF Invalidate
<1>5. ASSUME NEW r \in Requests, Start(r) \/ Lock(r) \/ Refused(r) \/ Unreachable(r) \/ Arm(r) \/ NotWritten(r)
      PROVE  AnswerInv'
  <2>1. PICK pc \in {"lock", "ensure", "done", "end", "write", "ensure again"} : Goto(r, pc)
    BY <1>5 DEF Start, Lock, Refused, Unreachable, Arm, NotWritten
  <2>2. turn[r].pc \in {"idle", "lock", "ensure", "ensure again", "arm", "write", "write again"}
    BY <1>5 DEF Start, Lock, Refused, Unreachable, Arm, NotWritten
  <2>3. turn'[r].pc = pc /\ turn'[r].chunk = turn[r].chunk /\ \A q \in Requests : q # r => turn'[q] = turn[q]
    BY <1>1, <2>1 DEF Goto
  <2>4. chan' = chan /\ reader' = reader /\ got' = got /\ (active' = active \/ active' = r)
    BY <1>5 DEF Start, Lock, Refused, Unreachable, Arm, NotWritten
  <2>5. socket' = socket \/ (\E d \in Conns : socket' = [socket EXCEPT ![d] = NoSocket])
    <3>1. CASE NotWritten(r)
      <4>1. Invalidate(turn[r].conn) /\ turn[r].conn \in Conns BY <3>1 DEF NotWritten, TypeOK, OnConn
      <4>. QED BY <1>4, <4>1
    <3>2. CASE ~NotWritten(r) BY <1>5, <3>2 DEF Start, Lock, Refused, Unreachable, Arm
    <3>. QED BY <3>1, <3>2
  <2>6. \A c \in Conns : \/ socket'[c].inbox = socket[c].inbox /\ socket'[c].todo = socket[c].todo
                         \/ socket'[c].inbox = <<>> /\ socket'[c].todo = <<>>
    BY <1>2, <1>3, <2>5
  <2>. QED BY <1>0, <2>2, <2>3, <2>4, <2>6, Quiet DEF Sending
<1>6. ASSUME NEW r \in Requests, Reuse(r) \/ Dial(r) PROVE AnswerInv'
  <2>1. turn[r].pc \in {"ensure", "ensure again"} BY <1>6 DEF Reuse, Dial
  <2>2. PICK pc \in {"arm", "write again"} : \E c : turn' = [turn EXCEPT ![r].pc = pc, ![r].conn = c]
    BY <1>1, <1>6 DEF Reuse, Dial, Connect
  <2>3. turn'[r].pc = pc /\ turn'[r].chunk = turn[r].chunk /\ \A q \in Requests : q # r => turn'[q] = turn[q]
    BY <1>1, <2>2
  <2>4. chan' = chan /\ got' = got /\ active' = active BY <1>6 DEF Reuse, Dial
  <2>5. \A c \in Conns : socket'[c].inbox = socket[c].inbox /\ socket'[c].todo = socket[c].todo
    <3>1. CASE Reuse(r) BY <3>1 DEF Reuse
    <3>2. CASE Dial(r)
      <4>1. PICK c \in Conns : socket' = [socket EXCEPT ![c].open = TRUE, ![c].up = TRUE] BY <3>2 DEF Dial, Connect
      <4>. QED BY <1>1, <4>1
    <3>. QED BY <1>6, <3>1, <3>2
  <2>6. \A c \in Conns : reader'[c] = reader[c] \/ (reader[c].pc # "put" /\ reader'[c].pc # "put")
    <3>1. CASE Reuse(r) BY <3>1 DEF Reuse
    <3>2. CASE Dial(r)
      <4>1. PICK c \in Conns \ Dialled : reader' = [reader EXCEPT ![c].pc = "read"] BY <3>2 DEF Dial, Connect
      <4>2. reader[c].pc = "none" BY <4>1 DEF Dialled
      <4>3. reader'[c].pc = "read" /\ \A d \in Conns : d # c => reader'[d] = reader[d] BY <1>1, <4>1 DEF Readers
      <4>. QED BY <4>2, <4>3
    <3>. QED BY <1>6, <3>1, <3>2
  <2>. QED BY <1>0, <2>1, <2>3, <2>4, <2>5, <2>6, Quiet DEF Sending
<1>7. ASSUME NEW r \in Requests, Cancel(r) PROVE AnswerInv'
  <2>1. UNCHANGED <<turn, chan, reader, socket, got, active>> BY <1>7 DEF Cancel
  <2>. QED BY <1>0, <2>1, Quiet
<1>8. CASE CloseSession
  <2>1. UNCHANGED <<turn, chan, reader, got, active>> BY <1>8 DEF CloseSession
  <2>2. socket' = socket \/ (\E d \in Conns : socket' = [socket EXCEPT ![d] = NoSocket])
    BY <1>8, Bounds DEF CloseSession, TypeOK
  <2>. QED BY <1>0, <1>2, <1>3, <2>1, <2>2, Quiet
<1>9. ASSUME NEW c \in Conns, Break(c) PROVE AnswerInv'
  <2>1. UNCHANGED <<turn, chan, reader, got, active>> BY <1>9 DEF Break
  <2>2. \A d \in Conns : socket'[d].inbox = socket[d].inbox /\ socket'[d].todo = socket[d].todo
    BY <1>1, <1>9 DEF Break
  <2>. QED BY <1>0, <2>1, <2>2, Quiet
<1>10. ASSUME NEW c \in Conns, Shut(c) \/ Drop(c) PROVE AnswerInv'
  <2>1. turn' = turn /\ got' = got BY <1>10 DEF Shut, Drop
  <2>2. PICK pc \in {"drop", "exit"} : reader' = [reader EXCEPT ![c].pc = pc] BY <1>10 DEF Shut, Drop
  <2>3. reader[c].pc # "put" BY <1>10 DEF Shut, Drop
  <2>4. reader'[c].pc = pc /\ \A d \in Conns : d # c => reader'[d] = reader[d] BY <1>1, <2>2 DEF Readers
  <2>5. active' = active \/ active' = None BY <1>10 DEF Shut, Drop, Clear
  <2>6. \A r \in Requests : chan'[r].buf = chan[r].buf
    <3>1. CASE chan' = chan BY <3>1
    <3>2. CASE chan' = [chan EXCEPT ![reader[c].ch].closed = TRUE] BY <1>1, <3>2
    <3>. QED BY <1>10, <3>1, <3>2 DEF Shut, Drop
  <2>7. socket' = socket \/ (\E d \in Conns : socket' = [socket EXCEPT ![d] = NoSocket])
    BY <1>4, <1>10, Bounds DEF Shut, Drop
  <2>8. \A d \in Conns : \/ socket'[d].inbox = socket[d].inbox /\ socket'[d].todo = socket[d].todo
                         \/ socket'[d].inbox = <<>> /\ socket'[d].todo = <<>>
    BY <1>2, <1>3, <2>7
  <2>9. \A r \in Requests : turn[r].pc \in Sending /\ active' = r => active = r BY <2>5, Bounds
  <2>. QED BY <1>0, <2>1, <2>3, <2>4, <2>6, <2>8, <2>9, Quiet
<1>. QED BY <1>5, <1>6, <1>7, <1>8, <1>9, <1>10

LEMMA Stutter == ASSUME TypeOK, AnswerInv, UNCHANGED vars PROVE AnswerInv'
<1>1. UNCHANGED <<turn, ctx, holder, active, chan, reader, socket, got>> BY DEF vars
<1>2. TypeOK' BY TypeNext
<1>3. Excepted' = Excepted /\ Left' = Left BY <1>1 DEF Excepted, Left
<1>4. Locked' BY <1>1 DEF AnswerInv, Locked
<1>. QED BY <1>1, <1>2, <1>3, <1>4, Quiet

\* The request goes to the upstream: its answer begins.
LEMMA WrittenAnswers == ASSUME TypeOK, AnswerInv, Next, NEW r \in Requests, Written(r) PROVE AnswerInv'
<1>. DEFINE Todos == [of : Requests, n : Nat]
            item  == [of |-> r, n |-> 0]
<1>0. TypeOK' /\ Locked' /\ Excepted \subseteq Excepted' /\ Left \subseteq Left'
  BY TypeNext, LockedNext, ExceptedStay DEF AnswerInv
<1>1. /\ turn \in [Requests -> [pc : Places, conn : 0..MaxConns, chunk : Messages]]
      /\ socket \in [Conns -> [open : BOOLEAN, up : BOOLEAN, inbox : Seq(Messages), todo : Seq(Todos)]]
  BY DEF TypeOK, Sockets
<1>2. UNCHANGED <<ctx, active, chan, reader, got>> /\ turn[r].pc \in {"write", "write again"} BY DEF Written
<1>3. turn'[r].pc = "read" /\ turn'[r].conn = turn[r].conn /\ turn'[r].chunk = turn[r].chunk
      /\ \A q \in Requests : q # r => turn'[q] = turn[q]
  BY <1>1 DEF Written, Goto
<1>4. PICK d \in Conns : d = turn[r].conn BY <1>2 DEF TypeOK, OnConn
<1>5. /\ \A c \in Conns : socket'[c].inbox = socket[c].inbox /\ (c # d => socket'[c].todo = socket[c].todo)
      /\ socket'[d].todo = socket[d].todo \/ socket'[d].todo = Append(socket[d].todo, item)
  BY <1>1, <1>4 DEF Written
<1>6. item \in Todos /\ socket[d].todo \in Seq(Todos) BY <1>1
<1>8. Unsent(r) BY <1>2 DEF AnswerInv, Turned, Sending
<1>9. turn[r].chunk.of = None BY <1>2 DEF AnswerInv, Chunks
<1>10. Lines' BY <1>0, <1>2, <1>5, LinesStay
<1>11. Chans' BY <1>0, <1>2, ChansStay
<1>12. Chunks' BY <1>0, <1>3, <1>9, ChunksStay
<1>13. Gots' BY <1>0, <1>2, <1>3, GotsStay
<1>14. \A q \in Requests : Private(q) => Private(q)' BY <1>2, <1>3 DEF Private
<1>15. ASSUME NEW q \in Requests, q # r PROVE Turned(q)'
  <2>1. ASSUME NEW c \in Conns
        PROVE  /\ Has(socket'[c].todo, q) => Has(socket[c].todo, q)
               /\ \A n \in Nat : (\A k \in DOMAIN socket[c].todo : socket[c].todo[k].of = q => socket[c].todo[k].n = n)
                    => \A k \in DOMAIN socket'[c].todo : socket'[c].todo[k].of = q => socket'[c].todo[k].n = n
               /\ (\A j, k \in DOMAIN socket[c].todo : socket[c].todo[j].of = q /\ socket[c].todo[k].of = q => j = k)
                    => \A j, k \in DOMAIN socket'[c].todo : socket'[c].todo[j].of = q /\ socket'[c].todo[k].of = q => j = k
    <3>1. CASE socket'[c].todo = socket[c].todo BY <3>1
    <3>2. CASE c = d /\ socket'[d].todo = Append(socket[d].todo, item)
      <4>1. /\ DOMAIN socket[d].todo = 1..Len(socket[d].todo) /\ Len(socket[d].todo) \in Nat
            /\ DOMAIN socket'[d].todo = 1..(Len(socket[d].todo) + 1)
            /\ \A j \in 1..Len(socket[d].todo) : socket'[d].todo[j] = socket[d].todo[j]
            /\ socket'[d].todo[Len(socket[d].todo) + 1] = item
        BY <1>6, <3>2, AppendPlaces
      <4>2. \A k \in DOMAIN socket'[d].todo : socket'[d].todo[k].of = q
              => k \in DOMAIN socket[d].todo /\ socket'[d].todo[k] = socket[d].todo[k]
        BY <1>15, <4>1
      <4>. QED BY <3>2, <4>2 DEF Has
    <3>. QED BY <1>5, <3>1, <3>2
  <2>2. \A c \in Conns : (InHand(c, q)' <=> InHand(c, q)) /\ reader'[c] = reader[c] BY <1>2 DEF InHand
  <2>. QED BY <1>0, <1>2, <1>3, <1>5, <1>14, <1>15, <2>1, <2>2, Same
<1>16. Turned(r)'
  <2>1. \A c \in Conns : ~InHand(c, r) /\ ~Has(socket[c].inbox, r) /\ ~Has(socket[c].todo, r) BY <1>8 DEF Unsent, At
  <2>2. \A c \in Conns : InHand(c, r)' <=> InHand(c, r) BY <1>2 DEF InHand
  <2>3. \A c \in Conns : c # d => ~At(c, r)' BY <1>5, <2>1, <2>2 DEF At
  <2>4. got'[r].parts = 0 /\ ~Has(chan'[r].buf, r) /\ Private(r)' BY <1>2, <1>8, <1>14 DEF Unsent
  <2>5. ~Taken(r)' BY <1>3 DEF Taken
  <2>6. Base(r)' = 0 BY <2>4, <2>5 DEF Base
  <2>7. \A k \in DOMAIN socket'[d].todo : socket'[d].todo[k].of = r
          => socket'[d].todo = Append(socket[d].todo, item) /\ k = Len(socket[d].todo) + 1 /\ socket'[d].todo[k].n = 0
    <3>1. CASE socket'[d].todo = socket[d].todo BY <2>1, <3>1 DEF Has
    <3>2. CASE socket'[d].todo = Append(socket[d].todo, item)
      <4>1. /\ DOMAIN socket[d].todo = 1..Len(socket[d].todo) /\ Len(socket[d].todo) \in Nat
            /\ DOMAIN socket'[d].todo = 1..(Len(socket[d].todo) + 1)
            /\ \A j \in 1..Len(socket[d].todo) : socket'[d].todo[j] = socket[d].todo[j]
            /\ socket'[d].todo[Len(socket[d].todo) + 1] = item
        BY <1>6, <3>2, AppendPlaces
      <4>2. \A j \in DOMAIN socket[d].todo : socket[d].todo[j].of # r BY <2>1 DEF Has
      <4>. QED BY <3>2, <4>1, <4>2
    <3>. QED BY <1>5, <3>1, <3>2
  <2>8. ~Has(socket'[d].inbox, r) BY <1>5, <2>1
  <2>9. Leads(chan'[r].buf, r, 0, 0) /\ Leads(socket'[d].inbox, r, 0, 0) BY <2>4, <2>8, LeadsNothing
  <2>10. ~InHand(d, r)' BY <2>1, <2>2
  <2>11. \A k \in DOMAIN socket'[d].todo : socket'[d].todo[k].of = r => socket'[d].todo[k].n = 0 BY <2>7
  <2>12. \E e0, e1, e2 \in Nat :
           /\ Leads(chan'[r].buf, r, Base(r)', e0)
           /\ InHand(d, r)' => reader'[d].msg.n = e1
           /\ Leads(socket'[d].inbox, r, e1, e2)
           /\ \A k \in DOMAIN socket'[d].todo : socket'[d].todo[k].of = r => socket'[d].todo[k].n = e2
           /\ active' = r => IF InHand(d, r)' THEN Num(reader'[d].msg) = e0 ELSE e1 = e0
    BY <2>6, <2>9, <2>10, <2>11
  <2>13. Flow(r, d)' BY <2>12 DEF Flow
  <2>14. ~Ends(chan'[r].buf, r) /\ ~Ends(socket'[d].inbox, r) BY <2>4, <2>8 DEF Has, Ends
  <2>15. \A j, k \in DOMAIN socket'[d].todo : socket'[d].todo[j].of = r /\ socket'[d].todo[k].of = r => j = k BY <2>7
  <2>16. Ended(r, d)' BY <2>5, <2>10, <2>14, <2>15 DEF Ended
  <2>17. \A j \in DOMAIN chan'[r].buf : chan'[r].buf[j].of = r => chan'[r].buf[j].conn = d BY <2>4 DEF Has
  <2>18. \A c \in Conns : ~InHand(c, r)' BY <2>1, <2>2
  <2>19. d = turn'[r].conn BY <1>3, <1>4
  <2>20. Sent(r)' BY <2>3, <2>4, <2>13, <2>16, <2>17, <2>18, <2>19 DEF Sent
  <2>. QED BY <1>3, <2>20 DEF Turned, Sending
<1>. QED BY <1>0, <1>10, <1>11, <1>12, <1>13, <1>15, <1>16 DEF AnswerInv

\* The upstream is cut off from the turn, or its caller goes.
LEMMA LeaveAnswers ==
  ASSUME TypeOK, AnswerInv, Next, NEW r \in Requests, ReadClosed(r) \/ Stop(r) \/ End(r)
  PROVE  AnswerInv'
<1>0. TypeOK' /\ Locked' /\ Excepted \subseteq Excepted' /\ Left \subseteq Left'
  BY TypeNext, LockedNext, ExceptedStay DEF AnswerInv
<1>1. /\ turn \in [Requests -> [pc : Places, conn : 0..MaxConns, chunk : Messages]]
      /\ chan \in [Requests -> [buf : Seq(Messages), closed : BOOLEAN]]
  BY DEF TypeOK
<1>2. UNCHANGED <<ctx, reader, socket, got>> /\ turn[r].pc \in {"read", "send", "end"} /\ active' \in {active, None}
  BY DEF ReadClosed, Stop, End, Clear
<1>3. DOMAIN <<>> = {} /\ \A q : ~Has(<<>>, q) /\ ~Ends(<<>>, q)
  <2>1. DOMAIN <<>> = {} OBVIOUS
  <2>. QED BY <2>1 DEF Has, Ends
<1>4. \A q \in Requests : chan'[q].buf = chan[q].buf \/ (q = r /\ turn[r].pc = "end" /\ chan'[q].buf = <<>>)
  BY <1>1 DEF ReadClosed, Stop, End
<1>5. (\A q \in Requests : q # r => turn'[q] = turn[q]) /\ turn'[r].chunk.of = None
  <2>1. CASE ReadClosed(r)
    <3>1. turn' = [turn EXCEPT ![r].pc = "send", ![r].chunk = Message(None, "shut", turn[r].conn, 0)]
      BY <2>1 DEF ReadClosed
    <3>. QED BY <1>1, <3>1 DEF Message
  <2>2. CASE Stop(r)
    <3>1. turn' = [turn EXCEPT ![r].pc = "end", ![r].chunk = NoMessage] BY <2>2 DEF Stop
    <3>. QED BY <1>1, <3>1 DEF NoMessage, Message
  <2>3. CASE End(r)
    <3>1. turn[r].chunk.of = None BY <2>3 DEF End, AnswerInv, Chunks
    <3>2. turn' = [turn EXCEPT ![r].pc = "done", ![r].conn = None] BY <2>3 DEF End
    <3>. QED BY <1>1, <3>1, <3>2
  <2>. QED BY <2>1, <2>2, <2>3
<1>6. Lines' BY <1>0, <1>2, LinesStay
<1>7. Chans' BY <1>0, <1>3, <1>4, ChansStay
<1>8. \A q \in Requests : Private(q) => Private(q)'
  <2>. SUFFICES ASSUME NEW q \in Requests, Private(q), NEW p \in Requests \ {q}
                PROVE  ~Has(chan'[p].buf, q) /\ turn'[p].chunk.of # q
    BY DEF Private
  <2>. QED BY <1>3, <1>4, <1>5, Bounds DEF Private
<1>9. \A q \in Requests, c \in Conns : (InHand(c, q)' <=> InHand(c, q)) /\ (At(c, q)' <=> At(c, q))
  BY <1>2 DEF InHand, At
<1>10. ASSUME NEW q \in Requests, q # r PROVE Turned(q)'
  <2>1. active' = q => active = q BY <1>2, Bounds
  <2>2. chan'[q].buf = chan[q].buf /\ turn'[q] = turn[q] BY <1>4, <1>5, <1>10
  <2>. QED BY <1>0, <1>2, <1>8, <1>9, <2>1, <2>2, Same
<1>11. CASE ReadClosed(r)
  <2>1. turn' = [turn EXCEPT ![r].pc = "send", ![r].chunk = Message(None, "shut", turn[r].conn, 0)]
        /\ turn[r].pc = "read" /\ active' = active /\ chan' = chan
    BY <1>11 DEF ReadClosed
  <2>2. turn'[r].pc = "send" /\ turn'[r].conn = turn[r].conn /\ turn'[r].chunk = Message(None, "shut", turn[r].conn, 0)
    BY <1>1, <2>1
  <2>3. turn'[r].chunk.what = "shut" /\ turn'[r].chunk.conn = turn'[r].conn BY <2>2 DEF Message
  <2>4. Chunks'
    <3>1. ASSUME NEW q \in Requests
          PROVE  /\ turn'[q].pc # "send" => turn'[q].chunk.of = None
                 /\ turn'[q].pc = "send" => /\ turn'[q].chunk.conn = turn'[q].conn
                                            /\ \/ turn'[q].chunk.what = "shut" /\ turn'[q].chunk.of = None
                                               \/ Fit(turn[q].chunk, q)' /\ turn'[q] = turn[q]
      <4>1. CASE q = r BY <1>5, <2>2, <2>3, <4>1
      <4>2. CASE q # r
        <5>1. /\ turn[q].pc # "send" => turn[q].chunk.of = None
              /\ turn[q].pc = "send" => /\ turn[q].chunk.conn = turn[q].conn
                                        /\ (turn[q].chunk.what = "shut" /\ turn[q].chunk.of = None) \/ Fit(turn[q].chunk, q)
          BY DEF AnswerInv, Chunks
        <5>. QED BY <1>0, <1>5, <4>2, <5>1 DEF Fit
      <4>. QED BY <4>1, <4>2
    <3>. QED BY <3>1 DEF Chunks, Fit
  <2>5. Gots'
    <3>1. \A q \in Requests : turn[q].pc \in {"end", "done"} => turn'[q].pc \in {"end", "done"} BY <1>5, <2>1
    <3>. QED BY <1>0, <1>2, <3>1, GotsStay
  <2>6. ~Taken(r) /\ ~Taken(r)' BY <1>5, <2>1, Bounds DEF Taken
  <2>7. Turned(r)'
    <3>1. turn[r].pc \in Sending /\ turn'[r].pc \in Sending /\ turn'[r].conn = turn[r].conn BY <2>1, <2>2 DEF Sending
    <3>. QED BY <1>0, <1>2, <1>8, <1>9, <2>1, <2>6, <3>1, Same
  <2>. QED BY <1>0, <1>6, <1>7, <1>10, <2>4, <2>5, <2>7 DEF AnswerInv
<1>12. CASE Stop(r) \/ End(r)
  <2>1. PICK pc \in {"end", "done"} : turn'[r].pc = pc
    <3>1. CASE Stop(r)
      <4>1. turn' = [turn EXCEPT ![r].pc = "end", ![r].chunk = NoMessage] BY <3>1 DEF Stop
      <4>. QED BY <1>1, <4>1
    <3>2. CASE End(r)
      <4>1. turn' = [turn EXCEPT ![r].pc = "done", ![r].conn = None] BY <3>2 DEF End
      <4>. QED BY <1>1, <4>1
    <3>. QED BY <1>12, <3>1, <3>2
  <2>2. Chunks'
    <3>1. \A q \in Requests : turn'[q] = turn[q] \/ (turn'[q].pc # "send" /\ turn'[q].chunk.of = None) BY <1>5, <2>1
    <3>. QED BY <1>0, <3>1, ChunksStay
  <2>3. Gots'
    <3>1. \A q \in Requests : turn[q].pc \in {"end", "done"} => turn'[q].pc \in {"end", "done"} BY <1>5, <2>1
    <3>. QED BY <1>0, <1>2, <3>1, GotsStay
  <2>4. Finished(r)'
    <3>1. CASE Stop(r)
      <4>1. r \in Excepted BY <3>1 DEF Stop, Excepted
      <4>. QED BY <1>0, <4>1 DEF Finished
    <3>2. CASE End(r)
      <4>1. Finished(r) BY <3>2 DEF End, AnswerInv, Turned
      <4>. QED BY <1>0, <1>9, <4>1 DEF Finished
    <3>. QED BY <1>12, <3>1, <3>2
  <2>5. Turned(r)' BY <2>1, <2>4 DEF Turned, Sending
  <2>. QED BY <1>0, <1>6, <1>7, <1>10, <2>2, <2>3, <2>5 DEF AnswerInv
<1>. QED BY <1>11, <1>12

\* A turn takes what its channel has next.
LEMMA ReadAnswers == ASSUME TypeOK, AnswerInv, Next, NEW r \in Requests, ReadNext(r) PROVE AnswerInv'
<1>0. TypeOK' /\ Locked' /\ Excepted \subseteq Excepted' /\ Left \subseteq Left'
  BY TypeNext, LockedNext, ExceptedStay DEF AnswerInv
<1>1. /\ turn \in [Requests -> [pc : Places, conn : 0..MaxConns, chunk : Messages]]
      /\ chan \in [Requests -> [buf : Seq(Messages), closed : BOOLEAN]]
      /\ socket \in [Conns -> [open : BOOLEAN, up : BOOLEAN, inbox : Seq(Messages), todo : Seq([of : Requests, n : Nat])]]
  BY DEF TypeOK, Sockets
<1>2. UNCHANGED <<ctx, active, reader, got>> /\ turn[r].pc = "read" /\ chan[r].buf # <<>> BY DEF ReadNext
<1>3. PICK s \in Seq(Messages) : s = chan[r].buf BY <1>1
<1>4. PICK ev \in Messages : ev = Head(s) BY <1>2, <1>3, HeadTail
<1>5. chan'[r].buf = Tail(s) /\ \A q \in Requests : q # r => chan'[q].buf = chan[q].buf
  <2>1. chan' = [chan EXCEPT ![r].buf = Tail(chan[r].buf)] BY DEF ReadNext
  <2>. QED BY <1>1, <1>3, <2>1
<1>6. /\ \A q : /\ Has(Tail(s), q) => Has(s, q)
                /\ ev.of = q => Has(s, q)
                /\ Ends(Tail(s), q) => Ends(s, q)
      /\ \A j \in DOMAIN Tail(s) : \E i \in DOMAIN s : Tail(s)[j] = s[i]
      /\ \E i \in DOMAIN s : ev = s[i]
  BY <1>2, <1>3, <1>4, HasTail
<1>7. \A q \in Requests : q # r => turn'[q] = turn[q] BY <1>1 DEF ReadNext
<1>8. \/ ev.conn # turn[r].conn /\ turn' = turn
      \/ ev.conn = turn[r].conn /\ turn'[r].pc = "send" /\ turn'[r].conn = turn[r].conn /\ turn'[r].chunk = ev
  <2>1. CASE ev.conn # turn[r].conn BY <1>3, <1>4, <2>1 DEF ReadNext
  <2>2. CASE ev.conn = turn[r].conn
    <3>1. turn' = [turn EXCEPT ![r].pc = "send", ![r].chunk = ev] BY <1>3, <1>4, <2>2 DEF ReadNext
    <3>. QED BY <1>1, <2>2, <3>1
  <2>. QED BY <2>1, <2>2
<1>9. \A c \in Conns : \/ socket'[c] = socket[c]
                       \/ ev.what = "error" /\ socket'[c].inbox = <<>> /\ socket'[c].todo = <<>>
  <2>1. CASE socket' = socket BY <2>1
  <2>2. CASE ev.what = "error" /\ Invalidate(ev.conn)
    <3>1. \A c \in Conns : socket'[c] = socket[c] \/ socket'[c] = NoSocket BY <1>1, <2>2 DEF Invalidate
    <3>. QED BY <2>2, <3>1 DEF NoSocket
  <2>. QED BY <1>3, <1>4, <2>1, <2>2 DEF ReadNext
<1>10. Fit(ev, r)
  <2>1. PICK i \in DOMAIN s : ev = s[i] BY <1>6
  <2>. QED BY <1>3, <2>1 DEF AnswerInv, Chans
<1>11. turn[r].chunk.of = None /\ ~Taken(r) BY <1>2 DEF AnswerInv, Chunks, Taken
<1>12. \A q \in Requests : Private(q) => Private(q)'
  <2>. SUFFICES ASSUME NEW q \in Requests, Private(q), NEW p \in Requests \ {q}
                PROVE  ~Has(chan'[p].buf, q) /\ turn'[p].chunk.of # q
    BY DEF Private
  <2>1. ~Has(chan[p].buf, q) /\ turn[p].chunk.of # q BY DEF Private
  <2>2. CASE p = r BY <1>3, <1>5, <1>6, <1>8, <2>1, <2>2
  <2>3. CASE p # r BY <1>5, <1>7, <2>1, <2>3
  <2>. QED BY <2>2, <2>3
<1>13. DOMAIN <<>> = {} /\ \A q : ~Has(<<>>, q) /\ ~Ends(<<>>, q)
  <2>1. DOMAIN <<>> = {} OBVIOUS
  <2>. QED BY <2>1 DEF Has, Ends
<1>14. Lines'
  <2>1. ASSUME NEW c \in Conns, NEW j \in DOMAIN socket'[c].inbox
        PROVE  Parcel(socket'[c].inbox[j]) /\ socket'[c].inbox[j].conn = c /\ socket'[c].inbox[j].of # None
    <3>1. socket'[c] = socket[c] BY <1>9, <1>13, <2>1
    <3>. QED BY <2>1, <3>1 DEF AnswerInv, Lines
  <2>2. ASSUME NEW c \in Conns, reader[c].pc = "put"
        PROVE  LET m == reader[c].msg IN
                 Parcel(m) /\ m.conn = c /\ (m.of \notin {reader[c].ch, None} => m.of \in Excepted')
    BY <1>0, <2>2 DEF AnswerInv, Lines
  <2>. QED BY <1>2, <2>1, <2>2 DEF Lines
<1>15. Chans'
  <2>1. \A q \in Requests : \A j \in DOMAIN chan'[q].buf : \E i \in DOMAIN chan[q].buf : chan'[q].buf[j] = chan[q].buf[i]
    <3>1. ASSUME NEW q \in Requests, NEW j \in DOMAIN chan'[q].buf
          PROVE  \E i \in DOMAIN chan[q].buf : chan'[q].buf[j] = chan[q].buf[i]
      <4>1. CASE q = r
        <5>1. chan'[q].buf = Tail(s) /\ chan[q].buf = s BY <1>3, <1>5, <4>1
        <5>. QED BY <1>6, <3>1, <5>1
      <4>2. CASE q # r BY <1>5, <3>1, <4>2
      <4>. QED BY <4>1, <4>2
    <3>. QED BY <3>1
  <2>. QED BY <1>0, <2>1, ChansStay
<1>16. Chunks'
  <2>1. ASSUME NEW q \in Requests
        PROVE  /\ turn'[q].pc # "send" => turn'[q].chunk.of = None
               /\ turn'[q].pc = "send" => /\ turn'[q].chunk.conn = turn'[q].conn
                                          /\ \/ turn'[q].chunk.what = "shut" /\ turn'[q].chunk.of = None
                                             \/ Fit(turn[q].chunk, q)' /\ turn'[q] = turn[q]
                                             \/ Fit(ev, q)' /\ turn'[q].chunk = ev
    <3>1. CASE q = r /\ turn'[r] # turn[r] BY <1>0, <1>8, <1>10, <3>1 DEF Fit
    <3>2. CASE turn'[q] = turn[q]
      <4>1. /\ turn[q].pc # "send" => turn[q].chunk.of = None
            /\ turn[q].pc = "send" => /\ turn[q].chunk.conn = turn[q].conn
                                      /\ (turn[q].chunk.what = "shut" /\ turn[q].chunk.of = None) \/ Fit(turn[q].chunk, q)
        BY DEF AnswerInv, Chunks
      <4>. QED BY <1>0, <3>2, <4>1 DEF Fit
    <3>. QED BY <1>7, <3>1, <3>2
  <2>. QED BY <2>1 DEF Chunks, Fit
<1>17. Gots'
  <2>1. \A q \in Requests : turn[q].pc \in {"end", "done"} => turn'[q].pc \in {"end", "done"} BY <1>2, <1>7
  <2>. QED BY <1>0, <1>2, <2>1, GotsStay
<1>18. \A q \in Requests, c \in Conns : InHand(c, q)' <=> InHand(c, q) BY <1>2 DEF InHand
<1>19. ASSUME NEW q \in Requests, q # r \/ ev.of # r PROVE Turned(q)'
  <2>1. \/ turn'[q] = turn[q]
        \/ /\ turn[q].pc \in Sending /\ turn'[q].pc \in Sending /\ turn'[q].conn = turn[q].conn
           /\ ~Taken(q) /\ ~Taken(q)'
    BY <1>2, <1>7, <1>8, <1>11, <1>19 DEF Sending, Taken
  <2>2. /\ Has(chan'[q].buf, q) => Has(chan[q].buf, q)
        /\ Ends(chan'[q].buf, q) => Ends(chan[q].buf, q)
        /\ \A b, e \in Nat : Leads(chan[q].buf, q, b, e) => Leads(chan'[q].buf, q, b, e)
        /\ \A j \in DOMAIN chan'[q].buf :
             chan'[q].buf[j].of = q => \E i \in DOMAIN chan[q].buf : chan'[q].buf[j] = chan[q].buf[i]
    <3>1. CASE q = r
      <4>1. \A b, e \in Nat : Leads(s, q, b, e) => Leads(Tail(s), q, b, e)
        BY <1>2, <1>3, <1>4, <1>19, <3>1, LeadsTail
      <4>2. chan'[q].buf = Tail(s) /\ chan[q].buf = s BY <1>3, <1>5, <3>1
      <4>. QED BY <1>6, <4>1, <4>2
    <3>2. CASE q # r BY <1>5, <3>2
    <3>. QED BY <3>1, <3>2
  <2>. QED BY <1>0, <1>2, <1>9, <1>12, <1>18, <2>1, <2>2, Same
<1>20. ASSUME ev.of = r PROVE Turned(r)'
  <2>1. PICK c \in Conns :
          /\ c = turn[r].conn /\ Private(r) /\ Flow(r, c) /\ Ended(r, c)
          /\ \A d \in Conns : At(d, r) => d = c
          /\ \A d \in Conns : InHand(d, r) => reader[d].ch = r
          /\ \A j \in DOMAIN chan[r].buf : chan[r].buf[j].of = r => chan[r].buf[j].conn = c
    BY <1>2 DEF AnswerInv, Turned, Sent, Sending
  <2>2. turn'[r].pc = "send" /\ turn'[r].conn = c /\ turn'[r].chunk = ev BY <1>3, <1>6, <1>8, <1>20, <2>1
  <2>3. Taken(r)' BY <1>20, <2>2 DEF Taken
  <2>4. \A d \in Conns : At(d, r)' => At(d, r) BY <1>9, <1>13, <1>18 DEF At
  <2>5. PICK e0 \in Nat, e1 \in Nat, e2 \in Nat :
          /\ Leads(s, r, got[r].parts, e0)
          /\ InHand(c, r) => reader[c].msg.n = e1
          /\ Leads(socket[c].inbox, r, e1, e2)
          /\ \A k \in DOMAIN socket[c].todo : socket[c].todo[k].of = r => socket[c].todo[k].n = e2
          /\ active = r => IF InHand(c, r) THEN Num(reader[c].msg) = e0 ELSE e1 = e0
    BY <1>3, <1>11, <2>1 DEF Flow, Base
  <2>6. got[r].parts \in Nat /\ got'[r].parts = got[r].parts BY <1>2 DEF TypeOK
  <2>7. /\ Num(ev) = got[r].parts
        /\ ev.what = "part" => Leads(Tail(s), r, got[r].parts + 1, e0)
        /\ ev.what # "part" => e0 = got[r].parts /\ ~Has(Tail(s), r)
    <3>1. PICK b \in Nat : b = got[r].parts BY <2>6
    <3>2. s # <<>> /\ Head(s).of = r /\ Leads(s, r, b, e0) BY <1>2, <1>3, <1>4, <1>20, <2>5, <3>1
    <3>3. Num(Head(s)) = b BY <3>2, LeadsTail
    <3>4. Head(s).what = "part" => Leads(Tail(s), r, b + 1, e0) BY <3>2, LeadsTail
    <3>5. Head(s).what # "part" => e0 = b /\ ~Has(Tail(s), r) BY <3>2, LeadsTail
    <3>. QED BY <1>4, <3>1, <3>3, <3>4, <3>5
  <2>8. Leads(Tail(s), r, Base(r)', e0)
    <3>1. CASE ev.what = "part"
      <4>1. Base(r)' = got[r].parts + 1 BY <2>2, <2>3, <2>6, <3>1 DEF Base
      <4>. QED BY <2>7, <3>1, <4>1
    <3>2. CASE ev.what # "part"
      <4>1. Base(r)' = got[r].parts BY <2>2, <2>6, <3>2 DEF Base
      <4>. QED BY <2>6, <2>7, <3>2, <4>1, LeadsNothing
    <3>. QED BY <3>1, <3>2
  <2>9. \E f \in Nat : /\ Leads(socket'[c].inbox, r, e1, f)
                       /\ \A k \in DOMAIN socket'[c].todo : socket'[c].todo[k].of = r => socket'[c].todo[k].n = f
    <3>1. CASE socket'[c].inbox = <<>> /\ socket'[c].todo = <<>> BY <1>13, <3>1, LeadsNothing
    <3>2. CASE socket'[c] = socket[c] BY <2>5, <3>2
    <3>. QED BY <1>9, <3>1, <3>2
  <2>10. PICK f \in Nat : /\ Leads(socket'[c].inbox, r, e1, f)
                          /\ \A k \in DOMAIN socket'[c].todo : socket'[c].todo[k].of = r => socket'[c].todo[k].n = f
    BY <2>9
  <2>11. Flow(r, c)'
    <3>1. Leads(chan'[r].buf, r, Base(r)', e0) BY <1>5, <2>8
    <3>2. InHand(c, r)' => reader'[c].msg.n = e1 BY <1>2, <1>18, <2>5
    <3>3. active' = r => IF InHand(c, r)' THEN Num(reader'[c].msg) = e0 ELSE e1 = e0 BY <1>2, <1>18, <2>5
    <3>. QED BY <2>10, <3>1, <3>2, <3>3 DEF Flow
  <2>12. ev.what # "part" => ~At(c, r)
    <3>1. ev.what # "part" => Ends(s, r) BY <1>6, <1>20 DEF Ends
    <3>. QED BY <1>3, <2>1, <3>1 DEF Ended
  <2>13. Ended(r, c)'
    <3>1. Ends(chan'[r].buf, r) => ~At(c, r)' BY <1>3, <1>5, <1>6, <2>1, <2>4 DEF Ended
    <3>2. InHand(c, r)' /\ reader'[c].msg.what # "part" => ~Has(socket'[c].inbox, r) /\ ~Has(socket'[c].todo, r)
      BY <1>2, <1>9, <1>13, <1>18, <2>1 DEF Ended
    <3>3. Ends(socket'[c].inbox, r) => ~Has(socket'[c].todo, r) BY <1>9, <1>13, <2>1 DEF Ended
    <3>4. \A j, k \in DOMAIN socket'[c].todo : socket'[c].todo[j].of = r /\ socket'[c].todo[k].of = r => j = k
      BY <1>9, <1>13, <2>1 DEF Ended
    <3>5. Num(turn'[r].chunk) = got'[r].parts BY <2>2, <2>6, <2>7
    <3>6. turn'[r].chunk.what # "part" => ~Has(chan'[r].buf, r) /\ ~At(c, r)' BY <1>5, <2>2, <2>4, <2>7, <2>12
    <3>. QED BY <3>1, <3>2, <3>3, <3>4, <3>5, <3>6 DEF Ended
  <2>14. \A d \in Conns : InHand(d, r)' => reader'[d].ch = r BY <1>2, <1>18, <2>1
  <2>15. \A j \in DOMAIN chan'[r].buf : chan'[r].buf[j].of = r => chan'[r].buf[j].conn = c BY <1>3, <1>5, <1>6, <2>1
  <2>16. \A d \in Conns : At(d, r)' => d = c BY <2>1, <2>4
  <2>17. c = turn'[r].conn BY <2>2
  <2>18. Sent(r)' BY <1>12, <2>1, <2>11, <2>13, <2>14, <2>15, <2>16, <2>17 DEF Sent
  <2>. QED BY <2>2, <2>18 DEF Turned, Sending
<1>. QED BY <1>0, <1>14, <1>15, <1>16, <1>17, <1>19, <1>20 DEF AnswerInv

\* The caller takes the chunk.
LEMMA SendAnswers == ASSUME TypeOK, AnswerInv, Next, NEW r \in Requests, Send(r) PROVE AnswerInv'
<1>0. TypeOK' /\ Locked' /\ Excepted \subseteq Excepted' /\ Left \subseteq Left'
  BY TypeNext, LockedNext, ExceptedStay DEF AnswerInv
<1>1. /\ turn \in [Requests -> [pc : Places, conn : 0..MaxConns, chunk : Messages]]
      /\ got \in [Requests -> [parts : Nat, end : Whats, of : SUBSET (0..Turns), whole : BOOLEAN]]
  BY DEF TypeOK
<1>2. UNCHANGED <<ctx, active, reader, chan, socket>> /\ turn[r].pc = "send" BY DEF Send
<1>3. PICK m \in Messages : m = turn[r].chunk BY <1>1
<1>4. m.conn = turn[r].conn /\ ((m.what = "shut" /\ m.of = None) \/ Fit(m, r)) BY <1>2, <1>3 DEF AnswerInv, Chunks
<1>5. PICK pc \in {"read", "end"} :
        (pc = "read" <=> m.what = "part") /\ turn' = [turn EXCEPT ![r].pc = pc, ![r].chunk = NoMessage]
  <2>1. CASE m.what = "part" BY <1>3, <2>1 DEF Send
  <2>2. CASE m.what # "part" BY <1>3, <2>2 DEF Send
  <2>. QED BY <2>1, <2>2
<1>6. turn'[r].pc = pc /\ turn'[r].conn = turn[r].conn /\ turn'[r].chunk.of = None
      /\ \A q \in Requests : q # r => turn'[q] = turn[q]
  BY <1>1, <1>5 DEF NoMessage, Message
<1>7. /\ \A q \in Requests : q # r => got'[q] = got[q]
      /\ m.what = "part" => /\ got'[r].of = got[r].of \cup {m.of} /\ got'[r].whole = got[r].whole /\ got'[r].end = got[r].end
                            /\ got'[r].parts = IF m.of = r THEN got[r].parts + 1 ELSE got[r].parts
      /\ m.what # "part" => /\ got'[r].of = got[r].of \cup {m.of} /\ got'[r].end = m.what
                            /\ got'[r].whole = (m.what = "completed" /\ m.of = r => got[r].parts = m.n)
  <2>1. \A q \in Requests : q # r => got'[q] = got[q] BY <1>1 DEF Send
  <2>2. CASE m.what = "part"
    <3>1. got' = [got EXCEPT ![r] = [got[r] EXCEPT !.of = got[r].of \cup {m.of},
                                       !.parts = IF m.of = r THEN got[r].parts + 1 ELSE got[r].parts]]
      BY <1>3, <2>2 DEF Send
    <3>. QED BY <1>1, <2>1, <2>2, <3>1
  <2>3. CASE m.what # "part"
    <3>1. got' = [got EXCEPT ![r] = [parts |-> 0, end |-> m.what, of |-> got[r].of \cup {m.of},
                                     whole |-> m.what = "completed" /\ m.of = r => got[r].parts = m.n]]
      BY <1>3, <2>3 DEF Send
    <3>. QED BY <1>1, <2>1, <2>3, <3>1
  <2>. QED BY <2>2, <2>3
<1>8. PICK c \in Conns :
        /\ c = turn[r].conn /\ Private(r) /\ Flow(r, c) /\ Ended(r, c)
        /\ \A d \in Conns : At(d, r) => d = c
        /\ \A d \in Conns : InHand(d, r) => reader[d].ch = r
        /\ \A j \in DOMAIN chan[r].buf : chan[r].buf[j].of = r => chan[r].buf[j].conn = c
  BY <1>2 DEF AnswerInv, Turned, Sent, Sending
<1>9. Taken(r) <=> m.of = r BY <1>2, <1>3 DEF Taken
<1>10. m.of = r => Num(m) = got[r].parts BY <1>3, <1>8, <1>9 DEF Ended
<1>11. m.of = r \/ m.of = None \/ m.of \in Excepted BY <1>4 DEF Fit
<1>12. Lines' BY <1>0, <1>2, LinesStay
<1>13. Chans' BY <1>0, <1>2, ChansStay
<1>14. Chunks'
  <2>1. \A q \in Requests : turn'[q] = turn[q] \/ (turn'[q].pc # "send" /\ turn'[q].chunk.of = None) BY <1>6
  <2>. QED BY <1>0, <2>1, ChunksStay
<1>15. Gots'
  <2>. SUFFICES ASSUME NEW q \in Requests
                PROVE  /\ \A p \in got'[q].of \ {q, None} : p \in Excepted'
                       /\ got'[q].whole
                       /\ turn'[q].pc \notin {"end", "done"} => got'[q].end = "none"
    BY DEF Gots
  <2>1. /\ \A p \in got[q].of \ {q, None} : p \in Excepted
        /\ got[q].whole
        /\ turn[q].pc \notin {"end", "done"} => got[q].end = "none"
    BY DEF AnswerInv, Gots
  <2>2. CASE q # r BY <1>0, <1>6, <1>7, <2>1, <2>2
  <2>3. CASE q = r
    <3>1. \A p \in got'[r].of \ {r, None} : p \in Excepted' BY <1>0, <1>7, <1>11, <2>1, <2>3
    <3>2. got'[r].whole
      <4>1. m.what # "part" /\ m.of = r => got[r].parts = m.n BY <1>10, NumType
      <4>. QED BY <1>7, <2>1, <2>3, <4>1
    <3>3. turn'[r].pc \notin {"end", "done"} => got'[r].end = "none" BY <1>2, <1>5, <1>6, <1>7, <2>1, <2>3
    <3>. QED BY <2>3, <3>1, <3>2, <3>3
  <2>. QED BY <2>2, <2>3
<1>16. \A q \in Requests, d \in Conns : (InHand(d, q)' <=> InHand(d, q)) /\ (At(d, q)' <=> At(d, q))
  BY <1>2 DEF InHand, At
<1>17. \A q \in Requests : Private(q) => Private(q)'
  <2>. SUFFICES ASSUME NEW q \in Requests, Private(q), NEW p \in Requests \ {q}
                PROVE  ~Has(chan'[p].buf, q) /\ turn'[p].chunk.of # q
    BY DEF Private
  <2>. QED BY <1>2, <1>6, Bounds DEF Private
<1>18. ASSUME NEW q \in Requests, q # r \/ (m.of # r /\ m.what = "part") PROVE Turned(q)'
  <2>1. \/ turn'[q] = turn[q]
        \/ /\ turn[q].pc \in Sending /\ turn'[q].pc \in Sending /\ turn'[q].conn = turn[q].conn
           /\ ~Taken(q) /\ ~Taken(q)'
    <3>1. ~Taken(r)' BY <1>6, Bounds DEF Taken
    <3>. QED BY <1>2, <1>5, <1>6, <1>9, <1>18, <3>1 DEF Sending
  <2>2. got'[q].parts = got[q].parts BY <1>7, <1>18
  <2>. QED BY <1>0, <1>2, <1>16, <1>17, <2>1, <2>2, Same
<1>19. CASE m.of = r /\ m.what = "part"
  <2>1. turn'[r].pc = "read" /\ turn'[r].conn = c BY <1>5, <1>6, <1>8, <1>19
  <2>2. ~Taken(r)' BY <2>1 DEF Taken
  <2>3. Base(r)' = got[r].parts + 1 BY <1>7, <1>19, <2>2 DEF Base
  <2>4. Base(r) = got[r].parts + 1 BY <1>3, <1>9, <1>19 DEF Base
  <2>5. Flow(r, c)'
    <3>1. PICK e0 \in Nat, e1 \in Nat, e2 \in Nat :
            /\ Leads(chan[r].buf, r, Base(r), e0)
            /\ InHand(c, r) => reader[c].msg.n = e1
            /\ Leads(socket[c].inbox, r, e1, e2)
            /\ \A k \in DOMAIN socket[c].todo : socket[c].todo[k].of = r => socket[c].todo[k].n = e2
            /\ active = r => IF InHand(c, r) THEN Num(reader[c].msg) = e0 ELSE e1 = e0
      BY <1>8 DEF Flow
    <3>2. Leads(chan'[r].buf, r, Base(r)', e0) BY <1>2, <2>3, <2>4, <3>1
    <3>. QED BY <1>2, <1>16, <3>1, <3>2 DEF Flow
  <2>6. Ended(r, c)' BY <1>2, <1>8, <1>16, <2>2 DEF Ended
  <2>7. c = turn'[r].conn BY <2>1
  <2>8. Private(r)' BY <1>8, <1>17
  <2>9. \A d \in Conns : At(d, r)' => d = c BY <1>8, <1>16
  <2>10. \A d \in Conns : InHand(d, r)' => reader'[d].ch = r BY <1>2, <1>8, <1>16
  <2>11. \A j \in DOMAIN chan'[r].buf : chan'[r].buf[j].of = r => chan'[r].buf[j].conn = c BY <1>2, <1>8
  <2>12. Sent(r)' BY <2>5, <2>6, <2>7, <2>8, <2>9, <2>10, <2>11 DEF Sent
  <2>13. Turned(r)' BY <2>1, <2>12 DEF Turned, Sending
  <2>. QED BY <1>0, <1>12, <1>13, <1>14, <1>15, <1>18, <2>13 DEF AnswerInv
<1>20. CASE m.what # "part"
  <2>1. turn'[r].pc = "end" BY <1>5, <1>6, <1>20
  <2>2. Finished(r)'
    <3>1. CASE m.of = r
      <4>1. ~At(c, r) BY <1>3, <1>8, <1>9, <1>20, <3>1 DEF Ended
      <4>. QED BY <1>8, <1>16, <4>1 DEF Finished
    <3>2. CASE m.of # r /\ m.of # None
      <4>1. m.of \in got'[r].of BY <1>7, <1>20
      <4>2. r \in Excepted' BY <3>2, <4>1 DEF Excepted
      <4>. QED BY <4>2 DEF Finished
    <3>3. CASE m.of = None
      <4>1. CASE m.what = "shut"
        <5>1. got'[r].end = "shut" BY <1>7, <1>20, <4>1
        <5>2. r \in Excepted' BY <5>1 DEF Excepted
        <5>. QED BY <5>2 DEF Finished
      <4>2. CASE m.what # "shut"
        <5>1. m.conn \in Left BY <1>4, <3>3, <4>2 DEF Fit, Parcel
        <5>2. c \in Left' BY <1>0, <1>4, <1>8, <5>1
        <5>. QED BY <1>8, <1>16, <5>2 DEF Finished
      <4>. QED BY <4>1, <4>2
    <3>. QED BY <3>1, <3>2, <3>3
  <2>3. Turned(r)' BY <2>1, <2>2 DEF Turned, Sending
  <2>. QED BY <1>0, <1>12, <1>13, <1>14, <1>15, <1>18, <2>3 DEF AnswerInv
<1>21. CASE m.of # r /\ m.what = "part" BY <1>0, <1>12, <1>13, <1>14, <1>15, <1>18, <1>21 DEF AnswerInv
<1>. QED BY <1>19, <1>20, <1>21

\* What is at a connection is of a turn that is being answered, or of one that is excepted.
LEMMA AtWhose ==
  ASSUME TypeOK, AnswerInv, NEW c \in Conns, c \notin Left, NEW q \in Requests, At(c, q)
  PROVE  /\ turn[q].pc \in Sending \/ (turn[q].pc \in {"end", "done"} /\ q \in Excepted)
         /\ turn[q].pc \in Sending /\ active # None => active = q
<1>1. turn[q].pc \in Sending \/ (turn[q].pc \in {"end", "done"} /\ q \in Excepted)
  BY DEF AnswerInv, Turned, Unsent, Finished
<1>2. ASSUME turn[q].pc \in Sending, active # None PROVE active = q
  <2>1. active \in Requests BY <1>2, Bounds DEF TypeOK
  <2>2. holder = active /\ holder = q BY <1>2, <2>1 DEF AnswerInv, Locked, Sending, Armed
  <2>. QED BY <2>2
<1>. QED BY <1>1, <1>2

\* A reader has read, and looks for the active channel.
LEMMA ReceiveAnswers == ASSUME TypeOK, AnswerInv, Next, NEW c \in Conns, Receive(c) PROVE AnswerInv'
<1>0. TypeOK' /\ Locked' /\ Excepted \subseteq Excepted' /\ Left \subseteq Left'
  BY TypeNext, LockedNext, ExceptedStay DEF AnswerInv
<1>1. /\ reader \in [Conns -> Readers] /\ active \in 0..Turns
      /\ socket \in [Conns -> [open : BOOLEAN, up : BOOLEAN, inbox : Seq(Messages), todo : Seq([of : Requests, n : Nat])]]
  BY DEF TypeOK, Sockets
<1>2. UNCHANGED <<turn, ctx, active, chan, got>> /\ reader[c].pc = "read" BY DEF Receive
<1>3. c \notin Left /\ \A q : ~InHand(c, q) BY <1>2 DEF Left, InHand
<1>4. PICK s \in Seq(Messages) : s = socket[c].inbox BY <1>1
<1>5. PICK m \in Messages :
        /\ Capture(c, m)
        /\ \/ s # <<>> /\ m = Head(s) /\ socket' = [socket EXCEPT ![c].inbox = Tail(s)]
           \/ m = Message(None, Broken, c, 0) /\ socket' = socket
  <2>1. CASE socket[c].open /\ s # <<>>
    <3>1. Head(s) \in Messages BY <2>1, HeadTail
    <3>. QED BY <1>4, <2>1, <3>1 DEF Receive
  <2>2. CASE ~(socket[c].open /\ s # <<>>)
    <3>1. Message(None, Broken, c, 0) \in Messages BY MessageType, Bounds DEF Whats
    <3>. QED BY <1>4, <2>2, <3>1 DEF Receive
  <2>. QED BY <2>1, <2>2
<1>6. /\ \A d \in Conns : d # c => reader'[d] = reader[d]
      /\ active # None => reader'[c].pc = "put" /\ reader'[c].ch = active /\ reader'[c].msg = m
      /\ active = None => reader'[c].pc \in {"read", "drop"}
  <2>1. CASE active # None
    <3>1. reader' = [reader EXCEPT ![c] = [pc |-> "put", ch |-> active, msg |-> m]] BY <1>5, <2>1 DEF Capture
    <3>. QED BY <1>1, <2>1, <3>1
  <2>2. CASE active = None
    <3>1. PICK pc \in {"read", "drop"} : reader' = [reader EXCEPT ![c] = [pc |-> pc, ch |-> None, msg |-> NoMessage]]
      BY <1>5, <2>2 DEF Capture, Resting
    <3>. QED BY <1>1, <2>2, <3>1
  <2>. QED BY <2>1, <2>2
<1>7. /\ \A d \in Conns : socket'[d].todo = socket[d].todo /\ (d # c => socket'[d].inbox = socket[d].inbox)
      /\ socket'[c].inbox = s \/ (s # <<>> /\ m = Head(s) /\ socket'[c].inbox = Tail(s))
      /\ m.of # None => s # <<>> /\ m = Head(s) /\ socket'[c].inbox = Tail(s)
  <2>1. CASE s # <<>> /\ m = Head(s) /\ socket' = [socket EXCEPT ![c].inbox = Tail(s)] BY <1>1, <2>1
  <2>2. CASE m = Message(None, Broken, c, 0) /\ socket' = socket BY <1>4, <2>2 DEF Message
  <2>. QED BY <1>5, <2>1, <2>2
<1>8. s # <<>> => /\ \A q : /\ Has(Tail(s), q) => Has(s, q)
                            /\ Head(s).of = q => Has(s, q)
                            /\ Ends(Tail(s), q) => Ends(s, q)
                  /\ \A j \in DOMAIN Tail(s) : \E i \in DOMAIN s : Tail(s)[j] = s[i]
                  /\ \E i \in DOMAIN s : Head(s) = s[i]
  BY HasTail
<1>9. Parcel(m) /\ m.conn = c
  <2>1. CASE m.of = None /\ m = Message(None, Broken, c, 0) BY <2>1, Bounds DEF Parcel, Message, Broken
  <2>2. CASE s # <<>> /\ m = Head(s)
    <3>1. PICK i \in DOMAIN s : m = s[i] BY <1>8, <2>2
    <3>. QED BY <1>4, <3>1 DEF AnswerInv, Lines
  <2>. QED BY <1>5, <2>1, <2>2 DEF Message
<1>10. m.of # None => m.of \in Requests /\ At(c, m.of)
  <2>1. m.of \in 0..Turns BY DEF Messages
  <2>2. m.of # None => Has(s, m.of) BY <1>7, <1>8
  <2>. QED BY <1>4, <2>1, <2>2, Bounds DEF At
<1>11. Lines'
  <2>1. ASSUME NEW d \in Conns, NEW j \in DOMAIN socket'[d].inbox
        PROVE  Parcel(socket'[d].inbox[j]) /\ socket'[d].inbox[j].conn = d /\ socket'[d].inbox[j].of # None
    <3>1. \E i \in DOMAIN socket[d].inbox : socket'[d].inbox[j] = socket[d].inbox[i]
      <4>1. CASE d = c /\ s # <<>> /\ socket'[c].inbox = Tail(s) BY <1>4, <1>8, <2>1, <4>1
      <4>2. CASE socket'[d].inbox = socket[d].inbox BY <2>1, <4>2
      <4>. QED BY <1>4, <1>7, <4>1, <4>2
    <3>. QED BY <3>1 DEF AnswerInv, Lines
  <2>2. ASSUME NEW d \in Conns, reader'[d].pc = "put"
        PROVE  LET n == reader'[d].msg IN
                 Parcel(n) /\ n.conn = d /\ (n.of \notin {reader'[d].ch, None} => n.of \in Excepted')
    <3>1. CASE d # c
      <4>1. reader'[d] = reader[d] BY <1>6, <3>1
      <4>. QED BY <1>0, <2>2, <4>1 DEF AnswerInv, Lines
    <3>2. CASE d = c
      <4>1. active # None BY <1>6, <2>2, <3>2
      <4>2. m.of \notin {active, None} => m.of \in Excepted BY <1>3, <1>10, <4>1, AtWhose
      <4>. QED BY <1>0, <1>6, <1>9, <3>2, <4>1, <4>2
    <3>. QED BY <3>1, <3>2
  <2>. QED BY <2>1, <2>2 DEF Lines
<1>12. Chans' BY <1>0, <1>2, ChansStay
<1>13. Chunks' BY <1>0, <1>2, ChunksStay
<1>14. Gots' BY <1>0, <1>2, GotsStay
<1>15. \A q \in Requests : Private(q) => Private(q)' BY <1>2 DEF Private
<1>16. /\ \A q, d : d \in Conns /\ d # c => (InHand(d, q)' <=> InHand(d, q))
       /\ \A q : InHand(c, q)' <=> active # None /\ m.of = q
  BY <1>6 DEF InHand
<1>17. ASSUME NEW q \in Requests, q # m.of PROVE Turned(q)'
  <2>1. \A d \in Conns : (InHand(d, q)' => InHand(d, q)) /\ (InHand(d, q) => reader'[d] = reader[d])
    BY <1>3, <1>6, <1>16, <1>17
  <2>2. ASSUME NEW d \in Conns
        PROVE  /\ Has(socket'[d].inbox, q) => Has(socket[d].inbox, q)
               /\ Ends(socket'[d].inbox, q) => Ends(socket[d].inbox, q)
               /\ \A b, e \in Nat : Leads(socket[d].inbox, q, b, e) => Leads(socket'[d].inbox, q, b, e)
    <3>1. CASE d = c /\ s # <<>> /\ m = Head(s) /\ socket'[c].inbox = Tail(s)
      <4>1. \A b, e \in Nat : Leads(s, q, b, e) => Leads(Tail(s), q, b, e) BY <1>17, <3>1, LeadsTail
      <4>. QED BY <1>4, <1>8, <3>1, <4>1
    <3>2. CASE socket'[d].inbox = socket[d].inbox BY <3>2
    <3>. QED BY <1>4, <1>7, <3>1, <3>2
  <2>. QED BY <1>0, <1>2, <1>7, <1>15, <2>1, <2>2, Same
<1>18. ASSUME NEW q \in Requests, q = m.of PROVE Turned(q)'
  <2>0. q # None /\ s # <<>> /\ m = Head(s) /\ socket'[c].inbox = Tail(s) BY <1>7, <1>18, Bounds
  <2>1. At(c, q) BY <1>10, <1>18, <2>0
  <2>2. \A d \in Conns : At(d, q)' => At(d, q)
    <3>1. \A d \in Conns : d # c => (At(d, q)' => At(d, q)) BY <1>7, <1>16 DEF At
    <3>. QED BY <2>1, <3>1
  <2>3. CASE turn[q].pc \in {"end", "done"} /\ q \in Excepted
    <3>1. Finished(q)' BY <1>0, <2>3 DEF Finished
    <3>. QED BY <1>2, <2>3, <3>1 DEF Turned, Sending
  <2>4. CASE turn[q].pc \in Sending
    <3>0. active # None => active = q BY <1>3, <2>1, <2>4, AtWhose
    <3>1. /\ c = turn[q].conn /\ Private(q) /\ Flow(q, c) /\ Ended(q, c)
          /\ \A d \in Conns : At(d, q) => d = c
          /\ \A d \in Conns : InHand(d, q) => reader[d].ch = q
          /\ \A j \in DOMAIN chan[q].buf : chan[q].buf[j].of = q => chan[q].buf[j].conn = c
      BY <2>1, <2>4 DEF AnswerInv, Turned, Sent
    <3>2. PICK e0 \in Nat, e1 \in Nat, e2 \in Nat :
            /\ Leads(chan[q].buf, q, Base(q), e0)
            /\ Leads(s, q, e1, e2)
            /\ \A k \in DOMAIN socket[c].todo : socket[c].todo[k].of = q => socket[c].todo[k].n = e2
            /\ active = q => e1 = e0
      BY <1>3, <1>4, <3>1 DEF Flow
    <3>3. Head(s).of = q BY <1>18, <2>0
    <3>4. Num(m) = e1 BY <2>0, <3>2, <3>3, LeadsTail
    <3>5. m.what = "part" => m.n = e1 + 1 /\ Leads(Tail(s), q, e1 + 1, e2) BY <2>0, <3>2, <3>3, LeadsTail
    <3>6. m.what # "part" => e2 = e1 /\ ~Has(Tail(s), q) BY <2>0, <3>2, <3>3, LeadsTail
    <3>7. m.n \in Nat /\ Leads(Tail(s), q, m.n, e2)
      <4>1. CASE m.what = "part" BY <3>5, <4>1, NumType
      <4>2. CASE m.what # "part"
        <5>1. m.n = e1 BY <3>4, <4>2, NumType
        <5>. QED BY <3>6, <4>2, <5>1, LeadsNothing
      <4>. QED BY <4>1, <4>2
    <3>8. Base(q)' = Base(q) /\ (Taken(q)' <=> Taken(q)) BY <1>2 DEF Base, Taken
    <3>9. Flow(q, c)'
      <4>1. Leads(chan'[q].buf, q, Base(q)', e0) BY <1>2, <3>2, <3>8
      <4>2. InHand(c, q)' => reader'[c].msg.n = m.n BY <1>6, <1>16
      <4>3. Leads(socket'[c].inbox, q, m.n, e2) BY <2>0, <3>7
      <4>4. \A k \in DOMAIN socket'[c].todo : socket'[c].todo[k].of = q => socket'[c].todo[k].n = e2 BY <1>7, <3>2
      <4>5. active' = q => IF InHand(c, q)' THEN Num(reader'[c].msg) = e0 ELSE m.n = e0
        BY <1>2, <1>6, <1>16, <1>18, <2>0, <3>2, <3>4
      <4>. QED BY <3>7, <4>1, <4>2, <4>3, <4>4, <4>5 DEF Flow
    <3>10. Ended(q, c)'
      <4>1. ~Ends(chan[q].buf, q) /\ ~(Taken(q) /\ turn[q].chunk.what # "part") BY <2>1, <3>1 DEF Ended
      <4>2. m.what # "part" => Ends(s, q)
        <5>1. PICK i \in DOMAIN s : m = s[i] BY <1>8, <2>0
        <5>. QED BY <1>18, <5>1 DEF Ends
      <4>3. InHand(c, q)' /\ reader'[c].msg.what # "part" => ~Has(socket'[c].inbox, q) /\ ~Has(socket'[c].todo, q)
        BY <1>4, <1>6, <1>7, <1>16, <2>0, <3>1, <3>6, <4>2 DEF Ended
      <4>4. Ends(socket'[c].inbox, q) => ~Has(socket'[c].todo, q) BY <1>4, <1>7, <1>8, <2>0, <3>1 DEF Ended
      <4>5. \A j, k \in DOMAIN socket'[c].todo : socket'[c].todo[j].of = q /\ socket'[c].todo[k].of = q => j = k
        BY <1>7, <3>1 DEF Ended
      <4>6. Taken(q)' => Num(turn'[q].chunk) = got'[q].parts BY <1>2, <3>1, <3>8 DEF Ended
      <4>. QED BY <1>2, <3>8, <4>1, <4>3, <4>4, <4>5, <4>6 DEF Ended
    <3>11. \A d \in Conns : InHand(d, q)' => reader'[d].ch = q BY <1>6, <1>16, <3>0, <3>1
    <3>12. Sent(q)' BY <1>2, <1>15, <2>2, <3>1, <3>9, <3>10, <3>11 DEF Sent
    <3>. QED BY <1>2, <2>4, <3>12 DEF Turned, Sending
  <2>. QED BY <1>3, <2>1, <2>3, <2>4, AtWhose
<1>. QED BY <1>0, <1>11, <1>12, <1>13, <1>14, <1>17, <1>18 DEF AnswerInv

\* A reader hands over what it has read, or lets it go.
LEMMA PutAnswers == ASSUME TypeOK, AnswerInv, Next, NEW c \in Conns, Put(c) PROVE AnswerInv'
<1>0. TypeOK' /\ Locked' /\ Excepted \subseteq Excepted' /\ Left \subseteq Left'
  BY TypeNext, LockedNext, ExceptedStay DEF AnswerInv
<1>1. /\ reader \in [Conns -> Readers]
      /\ chan \in [Requests -> [buf : Seq(Messages), closed : BOOLEAN]]
  BY DEF TypeOK
<1>2. UNCHANGED <<turn, ctx, active, socket, got>> /\ reader[c].pc = "put" BY DEF Put
<1>3. c \notin Left BY <1>2 DEF Left
<1>4. PICK m \in Messages, ch \in Requests : m = reader[c].msg /\ ch = reader[c].ch BY <1>2, ReaderParts
<1>5. PICK s \in Seq(Messages) : s = chan[ch].buf BY <1>1
<1>6. Parcel(m) /\ m.conn = c /\ (m.of \notin {ch, None} => m.of \in Excepted) BY <1>2, <1>4 DEF AnswerInv, Lines
<1>7. CASE UNCHANGED <<chan, reader>> BY <1>0, <1>2, <1>7, Quiet
<1>8. ASSUME AfterPut(c),
             \/ active = ch /\ chan' = [chan EXCEPT ![ch].buf = Append(s, m)]
             \/ (active # ch \/ m.what = Broken) /\ chan' = chan
      PROVE  AnswerInv'
  <2>1. /\ \A d \in Conns : d # c => reader'[d] = reader[d]
        /\ reader'[c].pc \in {"read", "shut"} /\ (m.what = Broken => reader'[c].pc = "shut")
    <3>1. CASE m.what = Broken
      <4>1. reader' = [reader EXCEPT ![c] = [pc |-> "shut", ch |-> ch, msg |-> NoMessage]]
        BY <1>4, <1>8, <3>1 DEF AfterPut
      <4>. QED BY <1>1, <4>1
    <3>2. CASE m.what # Broken
      <4>1. reader' = [reader EXCEPT ![c] = Resting] BY <1>4, <1>8, <3>2 DEF AfterPut
      <4>. QED BY <1>1, <3>2, <4>1 DEF Resting
    <3>. QED BY <3>1, <3>2
  <2>2. m.what = Broken => c \in Left' BY <2>1 DEF Left
  <2>3. /\ \A q \in Requests : q # ch => chan'[q].buf = chan[q].buf
        /\ chan'[ch].buf = s \/ (active = ch /\ chan'[ch].buf = Append(s, m))
        /\ active = ch /\ m.what # Broken => chan'[ch].buf = Append(s, m)
    <3>1. CASE (active # ch \/ m.what = Broken) /\ chan' = chan
      <4>1. chan'[ch].buf = s /\ \A q \in Requests : chan'[q].buf = chan[q].buf BY <1>5, <3>1
      <4>. QED BY <3>1, <4>1
    <3>2. CASE active = ch /\ chan' = [chan EXCEPT ![ch].buf = Append(s, m)]
      <4>1. chan'[ch].buf = Append(s, m) /\ \A q \in Requests : q # ch => chan'[q].buf = chan[q].buf
        BY <1>1, <3>2
      <4>. QED BY <3>2, <4>1
    <3>. QED BY <1>8, <3>1, <3>2
  <2>4. /\ \A q : /\ Has(Append(s, m), q) <=> Has(s, q) \/ m.of = q
                  /\ Ends(Append(s, m), q) <=> Ends(s, q) \/ (m.of = q /\ m.what # "part")
        /\ \A j \in DOMAIN Append(s, m) : Append(s, m)[j] = m \/ \E i \in DOMAIN s : Append(s, m)[j] = s[i]
    BY HasAppend
  <2>5. /\ \A q, d : d \in Conns /\ d # c => (InHand(d, q)' <=> InHand(d, q))
        /\ \A q : ~InHand(c, q)' /\ (InHand(c, q) <=> m.of = q)
    BY <1>2, <1>4, <2>1 DEF InHand
  <2>6. \A d \in Conns : \A q : At(d, q)' => At(d, q) BY <1>2, <2>5 DEF At
  <2>7. Lines'
    <3>1. \A d \in Conns : reader'[d] = reader[d] \/ reader'[d].pc # "put" BY <2>1
    <3>. QED BY <1>0, <1>2, <3>1, LinesStay
  <2>8. Chans'
    <3>1. ASSUME NEW q \in Requests, NEW j \in DOMAIN chan'[q].buf
          PROVE  /\ Parcel(chan'[q].buf[j]) /\ (chan'[q].buf[j].what = Broken => chan'[q].buf[j].conn \in Left')
                 /\ (chan'[q].buf[j].of \notin {q, None} => chan'[q].buf[j].of \in Excepted')
      <4>1. CASE \E i \in DOMAIN chan[q].buf : chan'[q].buf[j] = chan[q].buf[i]
        <5>1. PICK i \in DOMAIN chan[q].buf : chan'[q].buf[j] = chan[q].buf[i] BY <4>1
        <5>2. Fit(chan[q].buf[i], q) BY DEF AnswerInv, Chans
        <5>. QED BY <1>0, <5>1, <5>2 DEF Fit
      <4>2. CASE q = ch /\ chan'[q].buf[j] = m BY <1>0, <1>6, <2>2, <4>2
      <4>3. CASE q # ch BY <2>3, <3>1, <4>1, <4>3
      <4>4. CASE q = ch
        <5>1. CASE chan'[ch].buf = s BY <1>5, <3>1, <4>1, <4>4, <5>1
        <5>2. CASE chan'[ch].buf = Append(s, m) BY <1>5, <2>4, <3>1, <4>1, <4>2, <4>4, <5>2
        <5>. QED BY <2>3, <5>1, <5>2
      <4>. QED BY <4>3, <4>4
    <3>. QED BY <3>1 DEF Chans, Fit
  <2>9. Chunks' BY <1>0, <1>2, ChunksStay
  <2>10. Gots' BY <1>0, <1>2, GotsStay
  <2>11. \A q \in Requests : q # m.of \/ q = ch => (Private(q) => Private(q)')
    <3>. SUFFICES ASSUME NEW q \in Requests, q # m.of \/ q = ch, Private(q), NEW p \in Requests \ {q}
                  PROVE  ~Has(chan'[p].buf, q) /\ turn'[p].chunk.of # q
      BY DEF Private
    <3>1. ~Has(chan[p].buf, q) /\ turn[p].chunk.of # q BY DEF Private
    <3>2. CASE p # ch BY <1>2, <2>3, <3>1, <3>2
    <3>3. CASE p = ch BY <1>2, <1>5, <2>3, <2>4, <3>1, <3>3
    <3>. QED BY <3>2, <3>3
  <2>12. ASSUME NEW q \in Requests, q # m.of PROVE Turned(q)'
    <3>1. /\ Has(chan'[q].buf, q) => Has(chan[q].buf, q)
          /\ Ends(chan'[q].buf, q) => Ends(chan[q].buf, q)
          /\ \A b, e \in Nat : Leads(chan[q].buf, q, b, e) => Leads(chan'[q].buf, q, b, e)
          /\ \A j \in DOMAIN chan'[q].buf :
               chan'[q].buf[j].of = q => \E i \in DOMAIN chan[q].buf : chan'[q].buf[j] = chan[q].buf[i]
      <4>1. CASE chan'[q].buf = chan[q].buf BY <4>1
      <4>2. CASE chan[q].buf = s /\ chan'[q].buf = Append(s, m)
        <5>1. ASSUME NEW b \in Nat, NEW e \in Nat, Leads(s, q, b, e) PROVE Leads(Append(s, m), q, b, e)
          <6>1. Leads(Append(s, m), q, b, IF m.of = q THEN m.n ELSE e) BY <2>12, <5>1, LeadsAppend
          <6>. QED BY <2>12, <6>1
        <5>. QED BY <2>4, <2>12, <4>2, <5>1
      <4>. QED BY <1>5, <2>3, <4>1, <4>2
    <3>2. \A d \in Conns : (InHand(d, q)' => InHand(d, q)) /\ (InHand(d, q) => reader'[d] = reader[d])
      BY <2>1, <2>5, <2>12
    <3>. QED BY <1>0, <1>2, <2>11, <2>12, <3>1, <3>2, Same
  <2>13. ASSUME NEW q \in Requests, q = m.of PROVE Turned(q)'
    <3>1. InHand(c, q) /\ At(c, q) /\ m.what # Broken /\ q # None BY <1>6, <2>5, <2>13, Bounds DEF At, Parcel
    <3>2. CASE turn[q].pc \in {"end", "done"} /\ q \in Excepted
      <4>1. Finished(q)' BY <1>0, <3>2 DEF Finished
      <4>. QED BY <1>2, <3>2, <4>1 DEF Turned, Sending
    <3>3. CASE turn[q].pc \in Sending
      <4>1. /\ c = turn[q].conn /\ Private(q) /\ Flow(q, c) /\ Ended(q, c)
            /\ \A d \in Conns : At(d, q) => d = c
            /\ \A d \in Conns : InHand(d, q) => reader[d].ch = q
            /\ \A j \in DOMAIN chan[q].buf : chan[q].buf[j].of = q => chan[q].buf[j].conn = c
        BY <3>1, <3>3 DEF AnswerInv, Turned, Sent
      <4>2. q = ch BY <1>4, <3>1, <4>1
      <4>3. PICK b \in Nat : b = Base(q) BY DEF Base, TypeOK
      <4>4. PICK e0 \in Nat, e1 \in Nat, e2 \in Nat :
              /\ Leads(s, q, b, e0)
              /\ m.n = e1
              /\ Leads(socket[c].inbox, q, e1, e2)
              /\ \A k \in DOMAIN socket[c].todo : socket[c].todo[k].of = q => socket[c].todo[k].n = e2
              /\ active = q => Num(m) = e0
        BY <1>4, <1>5, <3>1, <4>1, <4>2, <4>3 DEF Flow
      <4>5. ~Ends(s, q) /\ ~(Taken(q) /\ turn[q].chunk.what # "part") BY <1>5, <3>1, <4>1, <4>2 DEF Ended
      <4>6. Base(q)' = b /\ (Taken(q)' <=> Taken(q)) BY <1>2, <4>3 DEF Base, Taken
      <4>7. \E f \in Nat : Leads(chan'[q].buf, q, b, f) /\ (active = q => f = e1)
        <5>1. CASE active = q
          <6>1. Leads(Append(s, m), q, b, IF m.of = q THEN m.n ELSE e0) BY <4>4, <4>5, <5>1, LeadsAppend
          <6>2. chan'[q].buf = Append(s, m) BY <2>3, <3>1, <4>2, <5>1
          <6>. QED BY <2>13, <4>4, <6>1, <6>2
        <5>2. CASE active # q BY <2>3, <4>2, <4>4, <5>2
        <5>. QED BY <5>1, <5>2
      <4>8. PICK f \in Nat : Leads(chan'[q].buf, q, b, f) /\ (active = q => f = e1) BY <4>7
      <4>9. Flow(q, c)'
        <5>1. Leads(chan'[q].buf, q, Base(q)', f) BY <4>6, <4>8
        <5>2. ~InHand(c, q)' BY <2>5
        <5>3. /\ Leads(socket'[c].inbox, q, e1, e2)
              /\ \A k \in DOMAIN socket'[c].todo : socket'[c].todo[k].of = q => socket'[c].todo[k].n = e2
          BY <1>2, <4>4
        <5>4. active' = q => e1 = f BY <1>2, <4>8
        <5>. QED BY <5>1, <5>2, <5>3, <5>4 DEF Flow
      <4>10. Ended(q, c)'
        <5>1. m.what # "part" => ~Has(socket[c].inbox, q) /\ ~Has(socket[c].todo, q) BY <1>4, <3>1, <4>1 DEF Ended
        <5>2. Ends(chan'[q].buf, q) => ~At(c, q)'
          <6>1. Ends(chan'[q].buf, q) => m.what # "part" BY <2>3, <2>4, <4>2, <4>5
          <6>. QED BY <1>2, <2>5, <5>1, <6>1 DEF At
        <5>3. ~InHand(c, q)' BY <2>5
        <5>4. Ends(socket'[c].inbox, q) => ~Has(socket'[c].todo, q) BY <1>2, <4>1 DEF Ended
        <5>5. \A j, k \in DOMAIN socket'[c].todo : socket'[c].todo[j].of = q /\ socket'[c].todo[k].of = q => j = k
          BY <1>2, <4>1 DEF Ended
        <5>6. Taken(q)' => Num(turn'[q].chunk) = got'[q].parts BY <1>2, <4>1, <4>6 DEF Ended
        <5>. QED BY <1>2, <4>5, <4>6, <5>2, <5>3, <5>4, <5>5, <5>6 DEF Ended
      <4>11. \A j \in DOMAIN chan'[q].buf : chan'[q].buf[j].of = q => chan'[q].buf[j].conn = c
        <5>. SUFFICES ASSUME NEW j \in DOMAIN chan'[q].buf, chan'[q].buf[j].of = q PROVE chan'[q].buf[j].conn = c
          OBVIOUS
        <5>1. CASE chan'[q].buf = s BY <1>5, <4>1, <4>2, <5>1
        <5>2. CASE chan'[q].buf = Append(s, m)
          <6>1. chan'[q].buf[j] = m \/ \E i \in DOMAIN s : chan'[q].buf[j] = s[i] BY <2>4, <5>2
          <6>. QED BY <1>5, <1>6, <4>1, <4>2, <6>1
        <5>. QED BY <2>3, <4>2, <5>1, <5>2
      <4>12. \A d \in Conns : InHand(d, q)' => reader'[d].ch = q BY <2>1, <2>5, <4>1
      <4>13. Sent(q)' BY <1>2, <2>6, <2>11, <4>1, <4>2, <4>9, <4>10, <4>11, <4>12 DEF Sent
      <4>. QED BY <1>2, <3>3, <4>13 DEF Turned, Sending
    <3>. QED BY <1>3, <3>1, <3>2, <3>3, AtWhose
  <2>. QED BY <1>0, <2>7, <2>8, <2>9, <2>10, <2>12, <2>13 DEF AnswerInv
<1>9. \/ UNCHANGED <<chan, reader>>
      \/ /\ AfterPut(c)
         /\ \/ active = ch /\ chan' = [chan EXCEPT ![ch].buf = Append(s, m)]
            \/ (active # ch \/ m.what = Broken) /\ chan' = chan
  BY <1>1, <1>4, <1>5 DEF Put, Done
<1>. QED BY <1>7, <1>8, <1>9

\* The upstream answers the first request of a connection.
LEMMA AnswerAnswers ==
  ASSUME TypeOK, AnswerInv, Next, NEW c \in Conns, NEW what \in {"part", "completed", "error"}, Answer(c, what)
  PROVE  AnswerInv'
<1>. DEFINE Todos == [of : Requests, n : Nat]
<1>0. TypeOK' /\ Locked' /\ Excepted \subseteq Excepted' /\ Left \subseteq Left'
  BY TypeNext, LockedNext, ExceptedStay DEF AnswerInv
<1>1. socket \in [Conns -> [open : BOOLEAN, up : BOOLEAN, inbox : Seq(Messages), todo : Seq(Todos)]]
  BY DEF TypeOK, Sockets
<1>2. UNCHANGED <<turn, ctx, active, chan, reader, got>> /\ socket[c].todo # <<>> BY DEF Answer
<1>3. PICK s \in Seq(Messages), t \in Seq(Todos) : s = socket[c].inbox /\ t = socket[c].todo BY <1>1
<1>4. PICK h \in Todos : h = Head(t) /\ h = t[1] /\ 1 \in DOMAIN t BY <1>2, <1>3, TailPlaces
<1>5. PICK n \in Nat : n = IF what = "part" THEN h.n + 1 ELSE h.n OBVIOUS
<1>6. PICK m \in Messages : m = Message(h.of, what, c, n)
  <2>1. Message(h.of, what, c, n) \in Messages BY MessageType, Bounds DEF Whats
  <2>. QED BY <2>1
<1>7. m.of = h.of /\ m.what = what /\ m.conn = c /\ m.n = n /\ m.of \in Requests /\ m.of # None BY <1>6, Bounds DEF Message
<1>8. Num(m) = h.n BY <1>5, <1>7, NumType
<1>9. PICK u : /\ socket' = [socket EXCEPT ![c].inbox = Append(s, m), ![c].todo = u]
               /\ what = "part" => u = <<[of |-> h.of, n |-> n]>> \o Tail(t)
               /\ what # "part" => u = Tail(t)
  <2>1. CASE what = "part"
    <3>1. socket' = [socket EXCEPT ![c].inbox = Append(s, m), ![c].todo = <<[of |-> h.of, n |-> n]>> \o Tail(t)]
      BY <1>1, <1>3, <1>4, <1>5, <1>6, <2>1 DEF Answer
    <3>. QED BY <2>1, <3>1
  <2>2. CASE what # "part"
    <3>1. socket' = [socket EXCEPT ![c].inbox = Append(s, m), ![c].todo = Tail(t)]
      BY <1>1, <1>3, <1>4, <1>5, <1>6, <2>2 DEF Answer
    <3>. QED BY <2>2, <3>1
  <2>. QED BY <2>1, <2>2
<1>10. /\ socket'[c].inbox = Append(s, m) /\ socket'[c].todo = u
       /\ \A d \in Conns : d # c => socket'[d] = socket[d]
  BY <1>1, <1>9
\* What is left to answer: an answer may be longer by a part, or is over.
<1>11. /\ \A q : q # h.of => /\ Has(u, q) => Has(t, q)
                             /\ \A x : (\A k \in DOMAIN t : t[k].of = q => t[k].n = x)
                                         => \A k \in DOMAIN u : u[k].of = q => u[k].n = x
                             /\ (\A j, k \in DOMAIN t : t[j].of = q /\ t[k].of = q => j = k)
                                  => \A j, k \in DOMAIN u : u[j].of = q /\ u[k].of = q => j = k
       /\ Has(t, h.of)
       /\ (\A j, k \in DOMAIN t : t[j].of = h.of /\ t[k].of = h.of => j = k)
            => /\ what # "part" => ~Has(u, h.of)
               /\ \A k \in DOMAIN u : u[k].of = h.of => u[k].n = n
               /\ \A j, k \in DOMAIN u : u[j].of = h.of /\ u[k].of = h.of => j = k
  <2>1. Has(t, h.of) BY <1>4 DEF Has
  <2>2. CASE what = "part"
    <3>1. PICK y \in Todos : y = [of |-> h.of, n |-> n] OBVIOUS
    <3>2. t \in Seq(Todos) /\ t # <<>> /\ u = <<y>> \o Tail(t) BY <1>2, <1>3, <1>9, <2>2, <3>1
    <3>3. DOMAIN u = DOMAIN t /\ u[1] = y /\ \A k \in DOMAIN t : k # 1 => u[k] = t[k]
      <4>1. /\ DOMAIN (<<y>> \o Tail(t)) = DOMAIN t /\ (<<y>> \o Tail(t))[1] = y
            /\ \A k \in DOMAIN t : k # 1 => (<<y>> \o Tail(t))[k] = t[k]
        BY <3>1, <3>2, TodoPlaces
      <4>. QED BY <3>2, <4>1
    <3>4. y.of = h.of /\ y.n = n BY <3>1
    <3>5. ASSUME NEW q, q # h.of, NEW k \in DOMAIN u, u[k].of = q PROVE k # 1 /\ k \in DOMAIN t /\ u[k] = t[k]
      BY <3>3, <3>4, <3>5
    <3>6. \A k \in DOMAIN u : k \in DOMAIN t /\ (u[k].of = h.of => t[k].of = h.of) BY <1>4, <3>3, <3>4
    <3>7. ASSUME \A j, k \in DOMAIN t : t[j].of = h.of /\ t[k].of = h.of => j = k
          PROVE  /\ \A k \in DOMAIN u : u[k].of = h.of => u[k].n = n
                 /\ \A j, k \in DOMAIN u : u[j].of = h.of /\ u[k].of = h.of => j = k
      <4>1. \A k \in DOMAIN u : u[k].of = h.of => k = 1 BY <1>4, <3>6, <3>7
      <4>. QED BY <3>3, <3>4, <4>1
    <3>8. \A q : q # h.of => (Has(u, q) => Has(t, q)) BY <3>5 DEF Has
    <3>9. ASSUME NEW q, q # h.of
          PROVE  /\ \A x : (\A k \in DOMAIN t : t[k].of = q => t[k].n = x)
                              => \A k \in DOMAIN u : u[k].of = q => u[k].n = x
                 /\ (\A j, k \in DOMAIN t : t[j].of = q /\ t[k].of = q => j = k)
                      => \A j, k \in DOMAIN u : u[j].of = q /\ u[k].of = q => j = k
      <4>1. \A k \in DOMAIN u : u[k].of = q => k \in DOMAIN t /\ u[k] = t[k] BY <3>5, <3>9
      <4>. QED BY <4>1
    <3>. QED BY <2>1, <2>2, <3>7, <3>8, <3>9
  <2>3. CASE what # "part"
    <3>0. t \in Seq(Todos) /\ t # <<>> /\ u = Tail(t) BY <1>2, <1>3, <1>9, <2>3
    <3>1. \A j \in DOMAIN u : j \in Nat \ {0} /\ j + 1 \in DOMAIN t /\ u[j] = t[j + 1]
      BY <3>0, TailPlaces
    <3>2. \A q : Has(u, q) => Has(t, q) BY <3>1 DEF Has
    <3>3. ASSUME NEW q, \A j, k \in DOMAIN t : t[j].of = q /\ t[k].of = q => j = k,
                 NEW j \in DOMAIN u, NEW k \in DOMAIN u, u[j].of = q, u[k].of = q
          PROVE  j = k
      <4>1. j + 1 = k + 1 BY <3>1, <3>3
      <4>. QED BY <3>1, <4>1
    <3>4. ASSUME \A j, k \in DOMAIN t : t[j].of = h.of /\ t[k].of = h.of => j = k, NEW j \in DOMAIN u, u[j].of = h.of
          PROVE  FALSE
      <4>1. j + 1 = 1 BY <1>4, <3>1, <3>4
      <4>. QED BY <3>1, <4>1
    <3>5. ASSUME NEW q, NEW x, \A k \in DOMAIN t : t[k].of = q => t[k].n = x,
                 NEW k \in DOMAIN u, u[k].of = q
          PROVE  u[k].n = x
      BY <3>1, <3>5
    <3>6. (\A j, k \in DOMAIN t : t[j].of = h.of /\ t[k].of = h.of => j = k)
            => /\ ~Has(u, h.of)
               /\ \A k \in DOMAIN u : u[k].of = h.of => u[k].n = n
               /\ \A j, k \in DOMAIN u : u[j].of = h.of /\ u[k].of = h.of => j = k
      BY <3>4 DEF Has
    <3>. QED BY <2>1, <2>3, <3>2, <3>3, <3>5, <3>6
  <2>. QED BY <2>2, <2>3
<1>12. /\ \A q : /\ Has(Append(s, m), q) <=> Has(s, q) \/ m.of = q
                 /\ Ends(Append(s, m), q) <=> Ends(s, q) \/ (m.of = q /\ m.what # "part")
       /\ \A j \in DOMAIN Append(s, m) : Append(s, m)[j] = m \/ \E i \in DOMAIN s : Append(s, m)[j] = s[i]
  BY HasAppend
<1>13. Lines'
  <2>1. Parcel(m) BY <1>7 DEF Parcel, Broken
  <2>2. ASSUME NEW d \in Conns, NEW j \in DOMAIN socket'[d].inbox
        PROVE  Parcel(socket'[d].inbox[j]) /\ socket'[d].inbox[j].conn = d /\ socket'[d].inbox[j].of # None
    <3>1. CASE \E i \in DOMAIN socket[d].inbox : socket'[d].inbox[j] = socket[d].inbox[i] BY <3>1 DEF AnswerInv, Lines
    <3>2. CASE d = c /\ socket'[d].inbox[j] = m BY <1>7, <2>1, <3>2
    <3>3. CASE d # c BY <1>10, <2>2, <3>1, <3>3
    <3>4. CASE d = c
      <4>1. socket'[d].inbox = Append(s, m) /\ socket[d].inbox = s BY <1>3, <1>10, <3>4
      <4>2. socket'[d].inbox[j] = m \/ \E i \in DOMAIN s : socket'[d].inbox[j] = s[i] BY <1>12, <2>2, <4>1
      <4>. QED BY <3>1, <3>2, <3>4, <4>1, <4>2
    <3>. QED BY <3>3, <3>4
  <2>3. ASSUME NEW d \in Conns, reader[d].pc = "put"
        PROVE  LET x == reader[d].msg IN
                 Parcel(x) /\ x.conn = d /\ (x.of \notin {reader[d].ch, None} => x.of \in Excepted')
    BY <1>0, <2>3 DEF AnswerInv, Lines
  <2>. QED BY <1>2, <2>2, <2>3 DEF Lines
<1>14. Chans' BY <1>0, <1>2, ChansStay
<1>15. Chunks' BY <1>0, <1>2, ChunksStay
<1>16. Gots' BY <1>0, <1>2, GotsStay
<1>17. \A q \in Requests : Private(q) => Private(q)' BY <1>2 DEF Private
<1>18. \A q, d : InHand(d, q)' <=> InHand(d, q) BY <1>2 DEF InHand
<1>19. ASSUME NEW q \in Requests, q # h.of PROVE Turned(q)'
  <2>1. ASSUME NEW d \in Conns
        PROVE  /\ Has(socket'[d].inbox, q) => Has(socket[d].inbox, q)
               /\ Ends(socket'[d].inbox, q) => Ends(socket[d].inbox, q)
               /\ \A b, e \in Nat : Leads(socket[d].inbox, q, b, e) => Leads(socket'[d].inbox, q, b, e)
    <3>1. CASE d # c BY <1>10, <3>1
    <3>2. CASE d = c
      <4>1. ASSUME NEW b \in Nat, NEW e \in Nat, Leads(s, q, b, e) PROVE Leads(Append(s, m), q, b, e)
        <5>1. Leads(Append(s, m), q, b, IF m.of = q THEN m.n ELSE e) BY <1>7, <1>19, <4>1, LeadsAppend
        <5>. QED BY <1>7, <1>19, <5>1
      <4>. QED BY <1>3, <1>7, <1>10, <1>12, <1>19, <3>2, <4>1
    <3>. QED BY <3>1, <3>2
  <2>2. ASSUME NEW d \in Conns
        PROVE  /\ Has(socket'[d].todo, q) => Has(socket[d].todo, q)
               /\ \A x \in Nat : (\A k \in DOMAIN socket[d].todo : socket[d].todo[k].of = q => socket[d].todo[k].n = x)
                    => \A k \in DOMAIN socket'[d].todo : socket'[d].todo[k].of = q => socket'[d].todo[k].n = x
               /\ (\A j, k \in DOMAIN socket[d].todo : socket[d].todo[j].of = q /\ socket[d].todo[k].of = q => j = k)
                    => \A j, k \in DOMAIN socket'[d].todo : socket'[d].todo[j].of = q /\ socket'[d].todo[k].of = q => j = k
    <3>1. CASE d # c BY <1>10, <3>1
    <3>2. CASE d = c
      <4>1. socket'[d].todo = u /\ socket[d].todo = t BY <1>3, <1>10, <3>2
      <4>2. /\ Has(u, q) => Has(t, q)
            /\ \A x : (\A k \in DOMAIN t : t[k].of = q => t[k].n = x) => \A k \in DOMAIN u : u[k].of = q => u[k].n = x
            /\ (\A j, k \in DOMAIN t : t[j].of = q /\ t[k].of = q => j = k)
                 => \A j, k \in DOMAIN u : u[j].of = q /\ u[k].of = q => j = k
        BY <1>11, <1>19
      <4>3. \A x \in Nat : (\A k \in DOMAIN t : t[k].of = q => t[k].n = x)
                             => \A k \in DOMAIN u : u[k].of = q => u[k].n = x
        BY <4>2
      <4>. QED BY <4>1, <4>2, <4>3
    <3>. QED BY <3>1, <3>2
  <2>. QED BY <1>0, <1>2, <1>17, <1>18, <2>1, <2>2, Same
<1>20. ASSUME NEW q \in Requests, q = h.of PROVE Turned(q)'
  <2>1. At(c, q) /\ Has(socket[c].todo, q) BY <1>3, <1>11, <1>20 DEF At
  <2>2. \A d \in Conns : At(d, q)' => At(d, q)
    <3>1. \A d \in Conns : d # c => (At(d, q)' <=> At(d, q)) BY <1>10, <1>18 DEF At
    <3>. QED BY <2>1, <3>1
  <2>3. CASE turn[q].pc \in {"end", "done"}
    <3>1. Finished(q)' BY <1>0, <2>2, <2>3 DEF AnswerInv, Turned, Finished
    <3>. QED BY <1>2, <2>3, <3>1 DEF Turned, Sending
  <2>4. CASE turn[q].pc \in Sending
    <3>1. /\ c = turn[q].conn /\ Private(q) /\ Flow(q, c) /\ Ended(q, c)
          /\ \A d \in Conns : At(d, q) => d = c
          /\ \A d \in Conns : InHand(d, q) => reader[d].ch = q
          /\ \A j \in DOMAIN chan[q].buf : chan[q].buf[j].of = q => chan[q].buf[j].conn = c
      BY <2>1, <2>4 DEF AnswerInv, Turned, Sent
    <3>2. PICK e0 \in Nat, e1 \in Nat, e2 \in Nat :
            /\ Leads(chan[q].buf, q, Base(q), e0)
            /\ InHand(c, q) => reader[c].msg.n = e1
            /\ Leads(s, q, e1, e2)
            /\ \A k \in DOMAIN t : t[k].of = q => t[k].n = e2
            /\ active = q => IF InHand(c, q) THEN Num(reader[c].msg) = e0 ELSE e1 = e0
      <4>1. PICK e0 \in Nat, e1 \in Nat, e2 \in Nat :
              /\ Leads(chan[q].buf, q, Base(q), e0)
              /\ InHand(c, q) => reader[c].msg.n = e1
              /\ Leads(socket[c].inbox, q, e1, e2)
              /\ \A k \in DOMAIN socket[c].todo : socket[c].todo[k].of = q => socket[c].todo[k].n = e2
              /\ active = q => IF InHand(c, q) THEN Num(reader[c].msg) = e0 ELSE e1 = e0
        BY <3>1 DEF Flow
      <4>. QED BY <1>3, <4>1
    <3>3. h.n = e2 /\ Num(m) = e2 BY <1>4, <1>8, <1>20, <3>2
    <3>4. ~Ends(s, q) /\ ~Ends(chan[q].buf, q) /\ ~(Taken(q) /\ turn[q].chunk.what # "part")
          /\ ~(InHand(c, q) /\ reader[c].msg.what # "part")
      BY <1>3, <2>1, <3>1 DEF Ended
    <3>5. /\ what # "part" => ~Has(u, q)
          /\ \A k \in DOMAIN u : u[k].of = q => u[k].n = n
          /\ \A j, k \in DOMAIN u : u[j].of = q /\ u[k].of = q => j = k
      <4>1. \A j, k \in DOMAIN t : t[j].of = q /\ t[k].of = q => j = k BY <1>3, <3>1 DEF Ended
      <4>. QED BY <1>11, <1>20, <4>1
    <3>6. Leads(Append(s, m), q, e1, n)
      <4>1. Leads(Append(s, m), q, e1, IF m.of = q THEN m.n ELSE e2) BY <3>2, <3>3, <3>4, LeadsAppend
      <4>. QED BY <1>7, <1>20, <4>1
    <3>7. Base(q)' = Base(q) /\ (Taken(q)' <=> Taken(q)) BY <1>2 DEF Base, Taken
    <3>8. Flow(q, c)'
      <4>1. Leads(chan'[q].buf, q, Base(q)', e0) BY <1>2, <3>2, <3>7
      <4>2. InHand(c, q)' => reader'[c].msg.n = e1 BY <1>2, <1>18, <3>2
      <4>3. /\ Leads(socket'[c].inbox, q, e1, n)
            /\ \A k \in DOMAIN socket'[c].todo : socket'[c].todo[k].of = q => socket'[c].todo[k].n = n
        BY <1>10, <3>5, <3>6
      <4>4. active' = q => IF InHand(c, q)' THEN Num(reader'[c].msg) = e0 ELSE e1 = e0 BY <1>2, <1>18, <3>2
      <4>. QED BY <4>1, <4>2, <4>3, <4>4 DEF Flow
    <3>9. Ended(q, c)'
      <4>1. Ends(socket'[c].inbox, q) => ~Has(socket'[c].todo, q) BY <1>7, <1>10, <1>12, <3>4, <3>5
      <4>2. \A j, k \in DOMAIN socket'[c].todo : socket'[c].todo[j].of = q /\ socket'[c].todo[k].of = q => j = k
        BY <1>10, <3>5
      <4>3. Taken(q)' => Num(turn'[q].chunk) = got'[q].parts BY <1>2, <3>1, <3>7 DEF Ended
      <4>4. ~Ends(chan'[q].buf, q) /\ ~(Taken(q)' /\ turn'[q].chunk.what # "part")
            /\ ~(InHand(c, q)' /\ reader'[c].msg.what # "part")
        BY <1>2, <1>18, <3>4, <3>7
      <4>. QED BY <4>1, <4>2, <4>3, <4>4 DEF Ended
    <3>10. \A d \in Conns : InHand(d, q)' => reader'[d].ch = q BY <1>2, <1>18, <3>1
    <3>11. Sent(q)' BY <1>2, <1>17, <2>2, <3>1, <3>8, <3>9, <3>10 DEF Sent
    <3>. QED BY <1>2, <2>4, <3>11 DEF Turned, Sending
  <2>5. turn[q].pc \in Sending \/ turn[q].pc \in {"end", "done"}
    BY <2>1 DEF AnswerInv, Turned, Unsent
  <2>. QED BY <2>3, <2>4, <2>5
<1>. QED BY <1>0, <1>13, <1>14, <1>15, <1>16, <1>19, <1>20 DEF AnswerInv

\* Every step keeps the invariant.
LEMMA AnswerNext == TypeOK /\ AnswerInv /\ [Next]_vars => AnswerInv'
<1>. SUFFICES ASSUME TypeOK, AnswerInv, [Next]_vars PROVE AnswerInv' OBVIOUS
<1>1. CASE UNCHANGED vars BY <1>1, Stutter
<1>2. CASE Next
  <2>1. ASSUME NEW r \in Requests, Start(r) \/ Run(r) \/ Send(r) \/ Cancel(r) PROVE AnswerInv'
    BY <1>2, <2>1, QuietSteps, WrittenAnswers, LeaveAnswers, ReadAnswers, SendAnswers DEF Run
  <2>2. ASSUME NEW c \in Conns, Loop(c) PROVE AnswerInv'
    BY <1>2, <2>2, QuietSteps, ReceiveAnswers, PutAnswers DEF Loop
  <2>3. ASSUME NEW c \in Conns, Break(c) \/ \E what \in {"part", "completed", "error"} : Answer(c, what) PROVE AnswerInv'
    BY <1>2, <2>3, QuietSteps, AnswerAnswers
  <2>4. CASE CloseSession BY <1>2, <2>4, QuietSteps
  <2>. QED BY <1>2, <2>1, <2>2, <2>3, <2>4 DEF Next
<1>. QED BY <1>1, <1>2

\* A turn of a Codex session is answered with the messages of its own answer, all of them,
\* unless a turn before it was cancelled, cut off or itself answered with another's
\* (readUpstreamLoop, readCodexWebsocketMessage and ExecuteStream): for any number of
\* turns, connections and parts and any capacity of the channels.
THEOREM AnswersWhole == Spec => []Answers
<1>1. TypeOK /\ AnswerInv => Answers
  <2>. SUFFICES ASSUME TypeOK, AnswerInv PROVE Answers OBVIOUS
  <2>1. WholeAnswer BY DEF AnswerInv, Gots, WholeAnswer
  <2>2. OwnAnswer
    <3>. SUFFICES ASSUME NEW r \in Requests, NEW q \in got[r].of \ {r, None}
                  PROVE  ctx[q] = "cancelled" \/ got[q].end = "shut" \/ ~(got[q].of \subseteq {q, None})
      BY DEF OwnAnswer
    <3>1. q \in Excepted BY DEF AnswerInv, Gots
    <3>. QED BY <3>1 DEF Excepted
  <2>. QED BY <2>1, <2>2 DEF Answers
<1>. QED BY <1>1, TypeInit, TypeNext, AnswerInit, AnswerNext, PTL DEF Spec
=============================================================================
