------------------------ MODULE StreamRequest_proofs ------------------------
(***************************************************************************)
(* TLAPS proofs about StreamRequest, for any credentials with any pools,   *)
(* limits and bounds: the client gets one whole stream, in order; every    *)
(* upstream call is marked once; a wait for a cooldown finds a credential. *)
(***************************************************************************)
EXTENDS StreamRequest, TLAPS

Reasons == Errors \cup {"none", "cancelled", "empty", "unavailable", "unknown", "ok", "invalid", "invalid_json"}
Errs    == Reasons \cup {"stream"}
Chunk   == [what : {"none", "payload", "empty", "error"}, call : Nat, no : Nat, error : Reasons]

Managers == [pc : {"idle", "pick", "open", "boot", "decide", "wait"}, by : {"none", "handler", "forwarder"},
             answer : Errs, attempt : Nat, tried : SUBSET Auths, auth : Auths \cup {"none"}, left : Int,
             last : Reasons, wake : Int, buf : Seq(Chunk)]
Streams  == [pc : {"none", "open", "ending", "closed"}, sent : Nat, drained : BOOLEAN]
Wrappers == [pc : {"none", "take", "emit", "close", "closed"}, buf : Seq(Chunk), live : BOOLEAN,
             failed : BOOLEAN, auth : Auths \cup {"none"}, chunk : Chunk]
Fwds     == [pc : {"none", "read", "data", "call", "err", "close", "exit"}, chunk : Chunk, error : Errs,
             sent : BOOLEAN, retries : Nat]
Convs    == [pc : {"none", "read", "send", "exit"}, chunk : Chunk]
Handlers == [pc : {"start", "call", "peek", "forward", "done"}, status : Errs,
             end : {"none", "done", "error", "gone"}]
Counts   == [made : Nat, oks : Nat, fails : Nat, empty : BOOLEAN]

TypeInv ==
  /\ client \in {"here", "gone"} /\ ctx \in {"live", "cancelled"} /\ now \in Nat /\ next \in [Auths -> Int]
  /\ manager \in Managers /\ up \in Streams /\ wrap \in Wrappers /\ fwd \in Fwds /\ errs \in Errs
  /\ conv \in Convs /\ handler \in Handlers /\ calls \in Counts /\ got \in Seq(Chunk)

------------------------------------------------------------------------------
(* The inductive invariant *)

\* The forwarder reads the stream, or is about to.
Reading == fwd.pc \in {"read", "data"} \/ manager.answer = "stream"
Flows   == fwd.pc \in {"read", "data"}

\* Who waits for the Manager, and that nobody calls it once a payload was passed on.
Owner ==
  /\ manager.pc # "idle" => manager.answer = "none"
  /\ manager.pc # "idle" \/ manager.answer # "none" =>
       (handler.pc = "call" /\ fwd.pc = "none") \/ fwd.pc = "call"
  /\ fwd.pc \in {"none", "call"} => ~fwd.sent
  /\ ~fwd.sent => got = <<>> /\ conv.pc = "none" /\ fwd.pc # "data" /\ handler.pc # "forward"
  /\ fwd.sent => wrap.live
  /\ handler.pc \in {"start", "call"} => fwd.pc = "none"
  /\ handler.pc = "peek" => got = <<>> /\ conv.pc = "none"
  /\ conv.pc # "none" => kind = "completions"
  /\ fwd.pc = "err" => fwd.error # "none"

\* While the Manager works, the wrapper of the stream before has nothing left to give or
\* to mark, and an upstream call that boots is not marked yet.
Old ==
  /\ manager.pc # "idle" => /\ ~wrap.live /\ wrap.buf = <<>> /\ wrap.pc # "emit"
                            /\ wrap.pc = "take" => wrap.failed
  /\ handler.pc = "start" => ~wrap.live /\ wrap.buf = <<>> /\ wrap.pc = "none"
  /\ manager.pc \in {"pick", "open"} => manager.buf = <<>>
  /\ manager.pc = "boot" => /\ manager.buf \in {<<>>, <<Empty>>} /\ up.sent = 0
                            /\ calls.oks = 0 /\ calls.fails = 0

\* The first payload of a stream is still to be passed on.
Unread == wrap.buf # <<>> \/ (wrap.pc = "emit" /\ wrap.chunk.what = "payload" /\ up.sent = 1)

\* What a wrapper holds: without a stream behind it an empty chunk or an error alone; with
\* one, the chunks the bootstrap has read, and later the stream's last.
Fails(c) == c.what = "error" /\ c.error # "none"
Shape == Reading =>
  /\ wrap.pc # "none"
  /\ wrap.pc \in {"close", "closed"} => wrap.buf = <<>>
  /\ wrap.pc = "emit" => wrap.chunk = Empty \/ wrap.chunk = Payload(calls.made, up.sent) \/ Fails(wrap.chunk)
  /\ ~wrap.live => /\ wrap.pc = "emit" => wrap.buf = <<>> /\ wrap.chunk.what # "payload"
                   /\ wrap.buf # <<>> => Len(wrap.buf) = 1 /\ (wrap.buf[1] = Empty \/ Fails(wrap.buf[1]))
  /\ wrap.live => /\ wrap.buf # <<>> => /\ up.sent = 1 /\ ~fwd.sent
                                        /\ \/ wrap.buf = <<Payload(calls.made, 1)>>
                                           \/ wrap.buf = <<Empty, Payload(calls.made, 1)>> /\ wrap.pc = "take"
                  /\ wrap.pc = "emit" => (wrap.buf # <<>> <=> wrap.chunk = Empty)
                  /\ ~fwd.sent /\ (wrap.pc \in {"take", "emit"} \/ ctx = "live") => Unread
  /\ wrap.pc = "emit" /\ wrap.chunk.what = "error" => wrap.failed

\* The number of payloads the wrapper has passed on.
Passed ==
  IF wrap.buf # <<>> \/ ~wrap.live THEN 0
  ELSE IF wrap.pc = "emit" /\ wrap.chunk.what = "payload" THEN up.sent - 1 ELSE up.sent

\* Between the wrapper and the client chunks are in order, and of one upstream call.
Order ==
  /\ \A i \in DOMAIN got : got[i].call = calls.made /\ (i > 1 => got[i].no > got[i - 1].no)
  /\ conv.pc = "send" => /\ conv.chunk.call = calls.made
                         /\ got # <<>> => conv.chunk.no > got[Len(got)].no
                         /\ Flows => conv.chunk.no <= Passed
  /\ fwd.pc = "data" => /\ fwd.chunk.call = calls.made
                        /\ conv.pc = "send" => fwd.chunk.no > conv.chunk.no
                        /\ got # <<>> => fwd.chunk.no > got[Len(got)].no
                        /\ fwd.chunk.no <= Passed
  /\ Flows /\ got # <<>> => got[Len(got)].no <= Passed

\* Without the converter, none is left out.
Counted == kind # "completions" =>
  /\ \A i \in DOMAIN got : got[i].no = i
  /\ fwd.pc = "data" => fwd.chunk.no = Len(got) + 1
  /\ Flows /\ (wrap.pc \in {"take", "emit"} \/ ctx = "live") =>
       Passed = Len(got) + (IF fwd.pc = "data" THEN 1 ELSE 0)

\* A stream that is read is marked a success when it ends, unless it failed: then its
\* error is still to be read.
Marks == Reading /\ ctx = "live" =>
  /\ wrap.failed => wrap.pc = "emit" /\ wrap.chunk.what = "error"
  /\ wrap.pc \in {"take", "emit"} /\ ~wrap.failed =>
       (calls.oks = 0 /\ calls.fails = 0) \/ (wrap.buf # <<>> /\ wrap.buf[1].what = "error")
  /\ wrap.pc \in {"close", "closed"} => calls.oks = 1 /\ calls.fails = 0 /\ (wrap.live => up.pc = "closed")

\* The whole of a stream that ended without an error.
Whole ==
  /\ wrap.pc = "closed" /\ wrap.buf = <<>> /\ calls.oks = 1 /\ calls.fails = 0
  /\ wrap.live => up.pc = "closed" /\ (kind # "completions" => Len(got) = up.sent)

\* How a response ends: while the client is there, nothing but the end of the stream or an
\* error ends it.
End ==
  /\ client = "here" /\ handler.pc # "done" => ctx = "live"
  /\ handler.pc = "done" => ctx = "cancelled"
  /\ handler.end = "done" => handler.pc = "done"
  /\ conv.pc = "exit" /\ ctx = "live" => fwd.pc = "exit"
  /\ ctx = "live" /\ fwd.pc \in {"close", "exit"} /\ errs = "none" => Whole
  /\ handler.end = "done" /\ client = "here" /\ got # <<>> => fwd.pc = "exit" /\ Whole

Inv == TypeInv /\ Owner /\ Old /\ Shape /\ Order /\ Counted /\ Marks /\ End

------------------------------------------------------------------------------
(* What the operators do to the records *)

LEMMA PairAppend == ASSUME NEW S, NEW x \in S, NEW y \in S PROVE Append(<<x>>, y) = <<x, y>>
<1>1. <<x>> \in Seq(S) /\ <<x, y>> \in Seq(S) OBVIOUS
<1>2. /\ Append(<<x>>, y) \in Seq(S) /\ Len(Append(<<x>>, y)) = 2
      /\ Append(<<x>>, y)[1] = x /\ Append(<<x>>, y)[2] = y
  BY <1>1
<1>3. ASSUME NEW s \in Seq(S), NEW t \in Seq(S), Len(s) = 2, Len(t) = 2, s[1] = t[1], s[2] = t[2]
      PROVE  s = t
  <2>1. s \in [1..Len(s) -> S] /\ t \in [1..Len(t) -> S] OBVIOUS
  <2>2. s \in [1..2 -> S] /\ t \in [1..2 -> S] BY <2>1, <1>3
  <2>3. \A i \in 1..2 : i = 1 \/ i = 2 OBVIOUS
  <2>. QED BY <1>3, <2>2, <2>3
<1>. QED BY <1>1, <1>2, <1>3

LEMMA PairTail == ASSUME NEW x, NEW y PROVE Tail(<<x, y>>) = <<y>>
  OBVIOUS

LEMMA LoneTail == ASSUME NEW S, NEW s \in Seq(S), Len(s) = 1 PROVE Tail(s) = <<>>
<1>1. Tail(s) \in Seq(S) /\ Len(Tail(s)) = 0 OBVIOUS
<1>2. \A t \in Seq(S) : Len(t) = 0 => t = <<>> OBVIOUS
<1>. QED BY <1>1, <1>2

LEMMA ChunkTypes ==
  /\ \A call, no \in Nat : Payload(call, no) \in Chunk
  /\ \A e \in Reasons : Failure(e) \in Chunk
  /\ Empty \in Chunk /\ NoChunk \in Chunk
  BY DEF Payload, Failure, Empty, NoChunk, Chunk, Reasons

LEMMA NoCallType == NoCall \in Managers
  BY DEF NoCall, Managers, Errs, Reasons

LEMMA ErrTypes == (\A e \in Errors : e \in Reasons /\ e # "none") /\ "stream" \notin Reasons
  BY StreamAssumption DEF Reasons

\* The numbers of the chunks between the wrapper and the client
LEMMA Numbers ==
  ASSUME TypeInv
  PROVE  /\ wrap.chunk.no \in Nat /\ fwd.chunk.no \in Nat /\ conv.chunk.no \in Nat /\ up.sent \in Nat
         /\ calls.made \in Nat /\ Len(got) \in Nat /\ \A i \in 1..Len(got) : got[i].no \in Nat
         /\ DOMAIN got = 1..Len(got) /\ (got # <<>> => Len(got) \in DOMAIN got /\ got[Len(got)].no \in Nat)
<1>1. \A c \in Chunk : c.no \in Nat BY DEF Chunk
<1>2. wrap.chunk \in Chunk /\ fwd.chunk \in Chunk /\ conv.chunk \in Chunk BY DEF TypeInv, Wrappers, Fwds, Convs
<1>3. up.sent \in Nat /\ calls.made \in Nat BY DEF TypeInv, Streams, Counts
<1>4. /\ Len(got) \in Nat /\ DOMAIN got = 1..Len(got) /\ \A i \in 1..Len(got) : got[i] \in Chunk
      /\ got # <<>> => Len(got) \in 1..Len(got)
  BY DEF TypeInv
<1>. QED BY <1>1, <1>2, <1>3, <1>4

LEMMA AnswerEffect ==
  ASSUME TypeInv, NEW x \in Errs, Answer(x)
  PROVE  manager' \in Managers /\ manager'.pc = "idle" /\ manager'.answer = x /\ manager'.buf = <<>>
<1>1. manager.by \in {"none", "handler", "forwarder"} BY DEF TypeInv, Managers
<1>2. manager' = [NoCall EXCEPT !.by = manager.by, !.answer = x] BY DEF Answer
<1>3. manager' \in Managers BY <1>1, <1>2, NoCallType DEF Managers
<1>4. manager'.pc = "idle" /\ manager'.answer = x /\ manager'.buf = <<>> BY <1>2 DEF NoCall
<1>. QED BY <1>3, <1>4

LEMMA CallEffect ==
  ASSUME NEW by \in {"handler", "forwarder"}, Call(by)
  PROVE  manager' \in Managers /\ manager'.pc = "pick" /\ manager'.answer = "none" /\ manager'.buf = <<>>
<1>1. manager' = [NoCall EXCEPT !.pc = "pick", !.by = by] BY DEF Call
<1>2. manager' \in Managers BY <1>1, NoCallType DEF Managers
<1>3. manager'.pc = "pick" /\ manager'.answer = "none" /\ manager'.buf = <<>> BY <1>1 DEF NoCall
<1>. QED BY <1>2, <1>3

LEMMA NextModelEffect ==
  ASSUME TypeInv, NEW e \in Reasons, NextModel(e)
  PROVE  manager' \in Managers /\ manager'.pc \in {"open", "pick"} /\ manager'.answer = manager.answer
         /\ manager'.buf = <<>>
<1>1. manager \in Managers BY DEF TypeInv
<1>2. PICK l \in {"open", "pick"} :
        manager' = [manager EXCEPT !.pc = l, !.left = manager.left - 1, !.last = e, !.buf = <<>>]
  BY DEF NextModel
<1>3. manager.left - 1 \in Int /\ <<>> \in Seq(Chunk) BY <1>1 DEF Managers
<1>5. manager' \in Managers BY <1>1, <1>2, <1>3 DEF Managers
<1>4. manager'.pc = l /\ manager'.answer = manager.answer /\ manager'.buf = <<>> BY <1>1, <1>2 DEF Managers
<1>. QED BY <1>4, <1>5

LEMMA NewCallEffect ==
  ASSUME TypeInv, NEW oks \in Nat, NEW fails \in Nat, NewCall(oks, fails)
  PROVE  calls' \in Counts /\ calls'.made = calls.made + 1 /\ calls'.oks = oks /\ calls'.fails = fails
<1>1. calls \in Counts BY DEF TypeInv
<1>. QED BY <1>1 DEF NewCall, Counts

LEMMA UntilInt == ASSUME TypeInv, NEW e, NEW hinted PROVE Until(e, hinted) \in Int
<1>1. now \in Nat /\ Horizon \in Nat BY StreamAssumption DEF TypeInv
<1>. QED BY <1>1 DEF Until, Hint

LEMMA MarkEffect ==
  ASSUME TypeInv, NEW a, NEW e, NEW hinted, MarkFailure(a, e, hinted)
  PROVE  next' \in [Auths -> Int] /\ calls' \in Counts /\ calls'.made = calls.made
<1>1. calls \in Counts /\ next \in [Auths -> Int] BY DEF TypeInv
<1>2. Until(e, hinted) \in Int BY UntilInt
<1>3. next' = [next EXCEPT ![a] = Until(e, hinted)] BY DEF MarkFailure
<1>4. next' \in [Auths -> Int] BY <1>1, <1>2, <1>3
<1>5. calls' = [calls EXCEPT !.fails = calls.fails + 1] BY DEF MarkFailure
<1>6. calls' \in Counts /\ calls'.made = calls.made BY <1>1, <1>5 DEF Counts
<1>. QED BY <1>4, <1>6

LEMMA SuccessEffect ==
  ASSUME TypeInv, NEW a, MarkSuccess(a)
  PROVE  /\ next' \in [Auths -> Int] /\ calls' \in Counts /\ calls'.made = calls.made
         /\ calls'.oks = calls.oks + 1 /\ calls'.fails = calls.fails
<1>1. calls \in Counts /\ next \in [Auths -> Int] BY DEF TypeInv
<1>2. next' = [next EXCEPT ![a] = 0] /\ 0 \in Int BY DEF MarkSuccess
<1>3. next' \in [Auths -> Int] BY <1>1, <1>2
<1>4. calls' = [calls EXCEPT !.oks = calls.oks + 1] BY DEF MarkSuccess
<1>5. calls' \in Counts /\ calls'.made = calls.made /\ calls'.oks = calls.oks + 1 /\ calls'.fails = calls.fails
  BY <1>1, <1>4 DEF Counts
<1>. QED BY <1>3, <1>5

LEMMA WrapEffect ==
  ASSUME TypeInv, NEW buf \in Seq(Chunk), NEW live \in BOOLEAN, Wrap(buf, live)
  PROVE  /\ wrap' \in Wrappers /\ wrap'.pc = "take" /\ wrap'.buf = buf /\ wrap'.live = live /\ ~wrap'.failed
         /\ manager' \in Managers /\ manager'.pc = "idle" /\ manager'.answer = "stream" /\ manager'.buf = <<>>
<1>1. manager.auth \in Auths \cup {"none"} BY DEF TypeInv, Managers
<1>2. wrap' = [NoWrap EXCEPT !.pc = "take", !.buf = buf, !.live = live, !.auth = manager.auth] BY DEF Wrap
<1>3. NoWrap \in Wrappers BY ChunkTypes DEF NoWrap, Wrappers
<1>4. wrap' \in Wrappers BY <1>1, <1>2, <1>3 DEF Wrappers
<1>5. wrap'.pc = "take" /\ wrap'.buf = buf /\ wrap'.live = live /\ ~wrap'.failed BY <1>2 DEF NoWrap
<1>6. Answer("stream") /\ "stream" \in Errs BY DEF Wrap, Errs
<1>. QED BY <1>4, <1>5, <1>6, AnswerEffect

\* What a reader of an upstream stream can get, and what is left of the stream.
LEMMA OffersEffect ==
  ASSUME TypeInv, NEW c \in Offers
  PROVE  /\ up.pc = "open" /\ c \in Chunk
         /\ c.what = "payload" => c = Payload(calls.made, up.sent + 1)
         /\ c.what # "payload" => Fails(c)
<1>1. up.pc = "open" /\ calls.made \in Nat /\ up.sent + 1 \in Nat BY DEF Offers, TypeInv, Counts, Streams
<1>2. CASE c = Payload(calls.made, up.sent + 1) BY <1>1, <1>2, ChunkTypes DEF Payload
<1>3. CASE \E e \in Errors \cup {"cancelled"} : c = Failure(e)
  <2>1. PICK e \in Errors \cup {"cancelled"} : c = Failure(e) BY <1>3
  <2>2. e \in Reasons /\ e # "none" BY ErrTypes DEF Reasons
  <2>. QED BY <1>1, <2>1, <2>2, ChunkTypes DEF Failure, Fails
<1>. QED BY <1>1, <1>2, <1>3 DEF Offers

LEMMA AfterEffect ==
  ASSUME TypeInv, NEW c
  PROVE  /\ After(c) \in Streams
         /\ After(c).sent = IF c.what = "payload" THEN up.sent + 1 ELSE up.sent
         /\ After(c).pc = IF c.what = "payload" THEN up.pc ELSE "ending"
  BY DEF After, TypeInv, Streams

------------------------------------------------------------------------------
(* The Manager *)

\* The Manager moves on: nobody reads a stream then, and no payload has got through.
LEMMA ManagerStep ==
  ASSUME Inv, TypeInv', manager.pc # "idle",
         UNCHANGED <<kind, client, ctx, wrap, fwd, errs, conv, handler, got>>,
         manager'.answer # "stream", manager'.pc # "idle" => manager'.answer = "none",
         manager'.pc \in {"pick", "open"} => manager'.buf = <<>>,
         manager'.pc = "boot" => /\ manager'.buf \in {<<>>, <<Empty>>} /\ up'.sent = 0
                                 /\ calls'.oks = 0 /\ calls'.fails = 0
  PROVE  Inv'
<1>1. fwd.pc \in {"none", "call"} /\ ~fwd.sent /\ got = <<>> /\ conv.pc = "none"
      /\ ((handler.pc = "call" /\ fwd.pc = "none") \/ fwd.pc = "call")
  BY DEF Inv, Owner
<1>2. Owner' BY <1>1 DEF Inv, Owner
<1>3. Old' BY DEF Inv, Old, Empty
<1>4. ~Reading' BY <1>1 DEF Reading
<1>5. Shape' /\ Marks' BY <1>4 DEF Shape, Marks
<1>6. Order' /\ Counted' BY <1>1 DEF Order, Counted, Flows
<1>7. End' BY <1>1 DEF Inv, End
<1>. QED BY <1>2, <1>3, <1>5, <1>6, <1>7 DEF Inv

\* The bootstrap wraps a stream: its first payload, an error, or the end of one without any.
LEMMA WrappedStep ==
  ASSUME Inv, TypeInv', manager.pc = "boot",
         UNCHANGED <<kind, client, ctx, fwd, errs, conv, handler, got>>, calls'.made = calls.made,
         manager'.pc = "idle", manager'.answer = "stream", manager'.buf = <<>>,
         wrap'.pc = "take", ~wrap'.failed, wrap'.buf # <<>>,
         wrap'.live => /\ up'.sent = 1
                       /\ wrap'.buf = <<Payload(calls.made, 1)>> \/ wrap'.buf = <<Empty, Payload(calls.made, 1)>>,
         ~wrap'.live => Len(wrap'.buf) = 1 /\ (wrap'.buf[1] = Empty \/ Fails(wrap'.buf[1])),
         wrap'.buf[1].what = "error" \/ (calls'.oks = 0 /\ calls'.fails = 0)
  PROVE  Inv'
<1>1. fwd.pc \in {"none", "call"} /\ ~fwd.sent /\ got = <<>> /\ conv.pc = "none"
      /\ ((handler.pc = "call" /\ fwd.pc = "none") \/ fwd.pc = "call") /\ handler.pc # "start"
  BY DEF Inv, Owner
<1>2. Owner' BY <1>1 DEF Inv, Owner
<1>3. Old' BY <1>1 DEF Old
<1>4. Shape' BY <1>1 DEF Shape, Unread
<1>5. Marks' BY DEF Marks
<1>6. Order' /\ Counted' BY <1>1 DEF Order, Counted, Flows
<1>7. End' BY <1>1 DEF Inv, End
<1>. QED BY <1>2, <1>3, <1>4, <1>5, <1>6, <1>7 DEF Inv

LEMMA PickStep == ASSUME Inv, Pick PROVE Inv'
<1>0. TypeInv /\ manager \in Managers BY DEF Inv, TypeInv
<1>1. PICK a \in Auths : manager' = [manager EXCEPT !.pc = "open", !.auth = a, !.tried = @ \cup {a},
                                                    !.left = PoolSize[a]]
  BY DEF Pick, Ready
<1>2. PoolSize[a] \in Int BY StreamAssumption
<1>3. manager' \in Managers BY <1>0, <1>1, <1>2 DEF Managers
<1>4. manager'.pc = "open" /\ manager'.answer = manager.answer /\ manager'.buf = manager.buf
  BY <1>0, <1>1 DEF Managers
<1>5. TypeInv' BY <1>0, <1>3 DEF Pick, TypeInv
<1>6. manager.answer = "none" /\ manager.buf = <<>> BY DEF Pick, Inv, Owner, Old
<1>. QED BY <1>4, <1>5, <1>6, ManagerStep DEF Pick

LEMMA NoPickStep == ASSUME Inv, NoPick PROVE Inv'
<1>0. TypeInv /\ manager \in Managers BY DEF Inv, TypeInv
<1>1. PICK e \in Reasons : manager' = [manager EXCEPT !.pc = "decide", !.last = e]
  BY <1>0 DEF NoPick, Managers, Reasons
<1>2. manager' \in Managers BY <1>0, <1>1 DEF Managers
<1>3. manager'.pc = "decide" /\ manager'.answer = manager.answer BY <1>0, <1>1 DEF Managers
<1>4. TypeInv' BY <1>0, <1>2 DEF NoPick, TypeInv
<1>5. manager.answer = "none" BY DEF NoPick, Inv, Owner
<1>. QED BY <1>3, <1>4, <1>5, ManagerStep DEF NoPick

LEMMA OpenFailsStep == ASSUME Inv, NEW e \in Errors, OpenFails(e) PROVE Inv'
<1>0. TypeInv /\ manager \in Managers /\ e \in Reasons BY ErrTypes DEF Inv, TypeInv
<1>1. calls' \in Counts
  <2>1. PICK fails \in {0, 1} : NewCall(0, fails) BY DEF OpenFails
  <2>. QED BY <1>0, <2>1, NewCallEffect
<1>2. next' \in [Auths -> Int]
  <2>1. next' = next \/ next' = [next EXCEPT ![manager.auth] = Until(e, TRUE)] BY DEF OpenFails
  <2>2. next \in [Auths -> Int] /\ Until(e, TRUE) \in Int BY <1>0, UntilInt DEF TypeInv
  <2>. QED BY <2>1, <2>2
<1>3. manager.answer = "none" BY DEF OpenFails, Inv, Owner
<1>4. /\ manager' \in Managers /\ manager'.answer # "stream"
      /\ manager'.pc \in {"idle", "decide", "open", "pick"}
      /\ manager'.pc # "idle" => manager'.answer = "none"
      /\ manager'.pc \in {"open", "pick"} => manager'.buf = <<>>
  <2>1. CASE Answer("cancelled") BY <1>0, <2>1, AnswerEffect DEF Errs, Reasons
  <2>2. CASE manager' = [manager EXCEPT !.pc = "decide", !.last = e]
    <3>1. manager' \in Managers BY <1>0, <2>2 DEF Managers
    <3>2. manager'.pc = "decide" /\ manager'.answer = "none" BY <1>0, <1>3, <2>2 DEF Managers
    <3>. QED BY <3>1, <3>2
  <2>3. CASE NextModel(e) BY <1>0, <1>3, <2>3, NextModelEffect
  <2>. QED BY <2>1, <2>2, <2>3 DEF OpenFails
<1>5. TypeInv' BY <1>0, <1>1, <1>2, <1>4 DEF OpenFails, TypeInv
<1>. QED BY <1>4, <1>5, ManagerStep DEF OpenFails

LEMMA OpenStep == ASSUME Inv, OpenAnswers \/ OpenCounts PROVE Inv'
<1>0. TypeInv BY DEF Inv
<1>1. PICK oks \in {0, 1} : NewCall(oks, 0) BY DEF OpenAnswers, OpenCounts
<1>2. calls' \in Counts BY <1>0, <1>1, NewCallEffect
<1>3. next' \in [Auths -> Int]
  <2>1. next' = next \/ next' = [next EXCEPT ![manager.auth] = 0] BY DEF OpenAnswers, OpenCounts
  <2>2. next \in [Auths -> Int] /\ 0 \in Int BY <1>0 DEF TypeInv
  <2>. QED BY <2>1, <2>2
<1>4. Answer("ok") /\ "ok" \in Errs BY DEF OpenAnswers, OpenCounts, Errs, Reasons
<1>5. manager' \in Managers /\ manager'.pc = "idle" /\ manager'.answer = "ok" BY <1>0, <1>4, AnswerEffect
<1>6. TypeInv' BY <1>0, <1>2, <1>3, <1>5 DEF OpenAnswers, OpenCounts, TypeInv
<1>. QED BY <1>5, <1>6, ManagerStep DEF OpenAnswers, OpenCounts

LEMMA OpenStreamStep == ASSUME Inv, OpenStream PROVE Inv'
<1>0. TypeInv /\ manager \in Managers BY DEF Inv, TypeInv
<1>1. calls' \in Counts /\ calls'.oks = 0 /\ calls'.fails = 0 BY <1>0, NewCallEffect DEF OpenStream
<1>2. manager' = [manager EXCEPT !.pc = "boot"] BY DEF OpenStream
<1>3. manager' \in Managers BY <1>0, <1>2 DEF Managers
<1>4. manager'.pc = "boot" /\ manager'.answer = manager.answer /\ manager'.buf = manager.buf
  BY <1>0, <1>2 DEF Managers
<1>5. up' \in Streams /\ up'.sent = 0 BY DEF OpenStream, Streams
<1>6. TypeInv' BY <1>0, <1>1, <1>3, <1>5 DEF OpenStream, TypeInv
<1>7. manager.answer = "none" /\ manager.buf = <<>> BY DEF OpenStream, Inv, Owner, Old
<1>. QED BY <1>1, <1>4, <1>5, <1>6, <1>7, ManagerStep DEF OpenStream

LEMMA DecideStep == ASSUME Inv, Decide PROVE Inv'
<1>0. TypeInv /\ manager \in Managers /\ manager.last \in Reasons /\ manager.answer = "none"
  BY DEF Inv, TypeInv, Managers, Decide, Owner
<1>1. ASSUME Answer(manager.last) PROVE Inv'
  <2>0. manager.last \in Errs /\ manager.last # "stream" BY <1>0, ErrTypes DEF Errs
  <2>1. manager' \in Managers /\ manager'.pc = "idle" /\ manager'.answer = manager.last
    BY <1>0, <1>1, <2>0, AnswerEffect
  <2>2. TypeInv' BY <1>0, <2>1 DEF Decide, TypeInv
  <2>. QED BY <2>0, <2>1, <2>2, ManagerStep DEF Decide
<1>2. ASSUME NEW w \in Waits, manager' = [manager EXCEPT !.pc = "wait", !.wake = now + w] PROVE Inv'
  <2>2. now + w \in Int BY <1>0 DEF Waits, TypeInv
  <2>3. manager' \in Managers BY <1>0, <1>2, <2>2 DEF Managers
  <2>4. manager'.pc = "wait" /\ manager'.answer = "none" BY <1>0, <1>2 DEF Managers
  <2>5. TypeInv' BY <1>0, <2>3 DEF Decide, TypeInv
  <2>. QED BY <2>4, <2>5, ManagerStep DEF Decide
<1>3. \/ Answer(manager.last)
      \/ \E w \in Waits : manager' = [manager EXCEPT !.pc = "wait", !.wake = now + w]
  BY DEF Decide
<1>. QED BY <1>1, <1>2, <1>3

LEMMA WakeStep == ASSUME Inv, Wake PROVE Inv'
<1>0. TypeInv /\ manager \in Managers BY DEF Inv, TypeInv
<1>1. /\ manager' \in Managers /\ manager'.answer # "stream" /\ manager'.pc \in {"idle", "pick"}
      /\ manager'.pc = "pick" => manager'.answer = "none" /\ manager'.buf = <<>>
  <2>1. CASE Answer("cancelled") BY <1>0, <2>1, AnswerEffect DEF Errs, Reasons
  <2>2. CASE manager' = [NoCall EXCEPT !.pc = "pick", !.by = manager.by, !.attempt = manager.attempt + 1]
    <3>1. manager.by \in {"none", "handler", "forwarder"} /\ manager.attempt + 1 \in Nat BY <1>0 DEF Managers
    <3>2. manager' \in Managers BY <2>2, <3>1, NoCallType DEF Managers
    <3>3. manager'.pc = "pick" /\ manager'.answer = "none" /\ manager'.buf = <<>> BY <2>2 DEF NoCall
    <3>. QED BY <3>2, <3>3
  <2>. QED BY <2>1, <2>2 DEF Wake
<1>2. TypeInv' BY <1>0, <1>1 DEF Wake, TypeInv
<1>. QED BY <1>1, <1>2, ManagerStep DEF Wake

\* Time passes, or another request marks a failure, while the Manager is between two calls.
LEMMA OthersStep == ASSUME Inv, Disturb \/ Tick PROVE Inv'
<1>0. TypeInv BY DEF Inv
<1>1. manager.pc \in {"pick", "decide", "wait"} BY DEF Disturb, Tick, Looking
<1>2. next' \in [Auths -> Int] /\ now' \in Nat
  <2>1. CASE Disturb
    <3>1. PICK a \in Auths, e \in Errors : next' = [next EXCEPT ![a] = Until(e, TRUE)] BY <2>1 DEF Disturb
    <3>. QED BY <1>0, <2>1, <3>1, UntilInt DEF Disturb, TypeInv
  <2>2. CASE Tick BY <1>0, <2>2 DEF Tick, TypeInv
  <2>. QED BY <2>1, <2>2
<1>3. TypeInv' BY <1>0, <1>2 DEF Disturb, Tick, TypeInv
<1>4. manager.answer = "none" /\ (manager.pc = "pick" => manager.buf = <<>>) BY <1>1 DEF Inv, Owner, Old
<1>. QED BY <1>1, <1>3, <1>4, ManagerStep DEF Disturb, Tick

------------------------------------------------------------------------------
(* The bootstrap *)

LEMMA BootPayloadStep == ASSUME Inv, BootPayload PROVE Inv'
<1>0. TypeInv /\ manager \in Managers /\ manager.pc = "boot" /\ manager.buf \in {<<>>, <<Empty>>} /\ up.sent = 0
      /\ calls.oks = 0 /\ calls.fails = 0 /\ manager.answer = "none" /\ calls.made \in Nat
  BY DEF Inv, TypeInv, BootPayload, Old, Owner, Counts
<1>1. CASE \E c \in {o \in Offers : o.what = "payload"} :
             up' = After(c) /\ Wrap(Append(manager.buf, c), TRUE)
  <2>1. PICK c \in Offers : c.what = "payload" /\ up' = After(c) /\ Wrap(Append(manager.buf, c), TRUE) BY <1>1
  <2>2. c = Payload(calls.made, 1) /\ c \in Chunk BY <1>0, <2>1, OffersEffect
  <2>3. up' \in Streams /\ up'.sent = 1 BY <1>0, <2>1, AfterEffect
  <2>4. PICK buf \in Seq(Chunk) : /\ buf = Append(manager.buf, c) /\ buf # <<>>
                                  /\ buf = <<Payload(calls.made, 1)>> \/ buf = <<Empty, Payload(calls.made, 1)>>
    <3>1. CASE manager.buf = <<>>
      <4>1. <<c>> \in Seq(Chunk) /\ <<c>> # <<>> BY <2>2
      <4>2. Append(<<>>, c) = <<c>> OBVIOUS
      <4>. QED BY <2>2, <3>1, <4>1, <4>2
    <3>2. CASE manager.buf = <<Empty>>
      <4>1. <<Empty, c>> \in Seq(Chunk) /\ <<Empty, c>> # <<>> BY <2>2, ChunkTypes
      <4>2. Append(<<Empty>>, c) = <<Empty, c>> BY <2>2, ChunkTypes, PairAppend
      <4>. QED BY <2>2, <3>2, <4>1, <4>2
    <3>. QED BY <1>0, <3>1, <3>2
  <2>5. Wrap(buf, TRUE) BY <2>1, <2>4
  <2>6. /\ wrap' \in Wrappers /\ wrap'.pc = "take" /\ wrap'.buf = buf /\ wrap'.live /\ ~wrap'.failed
        /\ manager' \in Managers /\ manager'.pc = "idle" /\ manager'.answer = "stream" /\ manager'.buf = <<>>
    BY <1>0, <2>5, WrapEffect
  <2>7. TypeInv' BY <1>0, <2>3, <2>6 DEF BootPayload, TypeInv
  <2>. QED BY <1>0, <2>3, <2>4, <2>6, <2>7, WrappedStep DEF BootPayload
<1>2. CASE manager.buf = <<>> /\ manager' = [manager EXCEPT !.buf = <<Empty>>] /\ UNCHANGED <<up, wrap>>
  <2>1. <<Empty>> \in Seq(Chunk) BY ChunkTypes
  <2>2. manager' \in Managers BY <1>0, <1>2, <2>1 DEF Managers
  <2>3. manager'.pc = "boot" /\ manager'.answer = "none" /\ manager'.buf = <<Empty>> BY <1>0, <1>2 DEF Managers
  <2>4. TypeInv' BY <1>0, <1>2, <2>2 DEF BootPayload, TypeInv
  <2>. QED BY <1>0, <1>2, <2>3, <2>4, ManagerStep DEF BootPayload
<1>. QED BY <1>1, <1>2 DEF BootPayload

LEMMA BootErrorStep == ASSUME Inv, BootError PROVE Inv'
<1>0. TypeInv /\ manager \in Managers /\ manager.pc = "boot" /\ up.sent = 0 /\ manager.answer = "none"
  BY DEF Inv, TypeInv, BootError, Old, Owner
<1>1. PICK c \in Offers : /\ c.what = "error"
         /\ CASE ctx = "cancelled" ->
                   /\ up' = [After(c) EXCEPT !.drained = TRUE]
                   /\ Answer("cancelled") /\ UNCHANGED <<next, calls, wrap>>
              [] ctx = "live" /\ c.error = "invalid" ->
                   /\ up' = [After(c) EXCEPT !.drained = TRUE]
                   /\ MarkFailure(manager.auth, c.error, TRUE)
                   /\ manager' = [manager EXCEPT !.pc = "decide", !.last = c.error]
                   /\ UNCHANGED wrap
              [] ctx = "live" /\ c.error # "invalid" /\ manager.left > 1 ->
                   /\ up' = [After(c) EXCEPT !.drained = TRUE]
                   /\ MarkFailure(manager.auth, c.error, TRUE)
                   /\ NextModel(c.error) /\ UNCHANGED wrap
              [] OTHER -> up' = After(c) /\ Wrap(<<c>>, FALSE) /\ UNCHANGED <<next, calls>>
  BY DEF BootError
<1>2. c \in Chunk /\ Fails(c) /\ c.error \in Reasons BY <1>0, <1>1, OffersEffect DEF Chunk
<1>3. After(c) \in Streams /\ [After(c) EXCEPT !.drained = TRUE] \in Streams
  <2>1. After(c) \in Streams BY <1>0, AfterEffect
  <2>. QED BY <2>1 DEF Streams
<1>4. CASE up' = After(c) /\ Wrap(<<c>>, FALSE) /\ UNCHANGED <<next, calls>>
  <2>1. PICK buf \in Seq(Chunk) : buf = <<c>> /\ buf # <<>> /\ Len(buf) = 1 /\ buf[1] = c
    <3>1. <<c>> \in Seq(Chunk) BY <1>2
    <3>. QED BY <3>1
  <2>2. /\ wrap' \in Wrappers /\ wrap'.pc = "take" /\ wrap'.buf = buf /\ ~wrap'.live /\ ~wrap'.failed
        /\ manager' \in Managers /\ manager'.pc = "idle" /\ manager'.answer = "stream" /\ manager'.buf = <<>>
    BY <1>0, <1>4, <2>1, WrapEffect
  <2>3. TypeInv' BY <1>0, <1>3, <1>4, <2>2 DEF BootError, TypeInv
  <2>. QED BY <1>0, <1>2, <1>4, <2>1, <2>2, <2>3, WrappedStep DEF BootError, Fails
<1>5. CASE /\ up' = [After(c) EXCEPT !.drained = TRUE] /\ UNCHANGED wrap
           /\ UNCHANGED <<next, calls>> \/ MarkFailure(manager.auth, c.error, TRUE)
           /\ \/ Answer("cancelled") \/ NextModel(c.error)
              \/ manager' = [manager EXCEPT !.pc = "decide", !.last = c.error]
  <2>1. next' \in [Auths -> Int] /\ calls' \in Counts BY <1>0, <1>5, MarkEffect DEF TypeInv
  <2>2. /\ manager' \in Managers /\ manager'.answer # "stream"
        /\ manager'.pc \in {"idle", "decide", "open", "pick"}
        /\ manager'.pc # "idle" => manager'.answer = "none"
        /\ manager'.pc \in {"open", "pick"} => manager'.buf = <<>>
    <3>1. CASE Answer("cancelled") BY <1>0, <3>1, AnswerEffect DEF Errs, Reasons
    <3>2. CASE manager' = [manager EXCEPT !.pc = "decide", !.last = c.error]
      <4>1. manager' \in Managers BY <1>0, <1>2, <3>2 DEF Managers
      <4>2. manager'.pc = "decide" /\ manager'.answer = "none" BY <1>0, <3>2 DEF Managers
      <4>. QED BY <4>1, <4>2
    <3>3. CASE NextModel(c.error) BY <1>0, <1>2, <3>3, NextModelEffect
    <3>. QED BY <1>5, <3>1, <3>2, <3>3
  <2>3. TypeInv' BY <1>0, <1>3, <1>5, <2>1, <2>2 DEF BootError, TypeInv
  <2>. QED BY <1>0, <1>5, <2>2, <2>3, ManagerStep DEF BootError
<1>. QED BY <1>1, <1>4, <1>5

LEMMA BootClosedStep == ASSUME Inv, BootClosed PROVE Inv'
<1>0. TypeInv /\ manager \in Managers /\ manager.pc = "boot" /\ manager.buf \in {<<>>, <<Empty>>} /\ up.sent = 0
      /\ calls.oks = 0 /\ calls.fails = 0 /\ manager.answer = "none"
  BY DEF Inv, TypeInv, BootClosed, Old, Owner
<1>1. CASE manager.buf # <<>>
  <2>1. Wrap(manager.buf, FALSE) /\ UNCHANGED <<next, calls>> /\ manager.buf = <<Empty>> BY <1>0, <1>1 DEF BootClosed
  <2>2. PICK buf \in Seq(Chunk) : buf = <<Empty>> /\ buf # <<>> /\ Len(buf) = 1 /\ buf[1] = Empty
    <3>1. <<Empty>> \in Seq(Chunk) BY ChunkTypes
    <3>. QED BY <3>1
  <2>3. /\ wrap' \in Wrappers /\ wrap'.pc = "take" /\ wrap'.buf = buf /\ ~wrap'.live /\ ~wrap'.failed
        /\ manager' \in Managers /\ manager'.pc = "idle" /\ manager'.answer = "stream" /\ manager'.buf = <<>>
    BY <1>0, <2>1, <2>2, WrapEffect
  <2>4. TypeInv' BY <1>0, <2>1, <2>3 DEF BootClosed, TypeInv
  <2>. QED BY <1>0, <2>1, <2>2, <2>3, <2>4, WrappedStep DEF BootClosed
<1>2. CASE manager.buf = <<>>
  <2>1. next' \in [Auths -> Int]
    <3>1. next \in [Auths -> Int] /\ Until("empty", FALSE) \in Int BY <1>0, UntilInt DEF TypeInv
    <3>2. next' = [next EXCEPT ![manager.auth] = Until("empty", FALSE)] BY <1>2 DEF BootClosed
    <3>. QED BY <3>1, <3>2
  <2>2. calls' \in Counts /\ calls'.made = calls.made
    <3>1. calls \in Counts /\ calls' = [calls EXCEPT !.fails = calls.fails + 1, !.empty = manager.left = 1]
      BY <1>0, <1>2 DEF BootClosed, TypeInv
    <3>2. (manager.left = 1) \in BOOLEAN /\ calls.fails + 1 \in Nat BY <3>1 DEF Counts
    <3>. QED BY <3>1, <3>2 DEF Counts
  <2>3. CASE NextModel("empty") /\ UNCHANGED wrap
    <3>1. "empty" \in Reasons BY DEF Reasons
    <3>2. manager' \in Managers /\ manager'.pc \in {"open", "pick"} /\ manager'.answer = "none" /\ manager'.buf = <<>>
      BY <1>0, <2>3, <3>1, NextModelEffect
    <3>3. TypeInv' BY <1>0, <2>1, <2>2, <2>3, <3>2 DEF BootClosed, TypeInv
    <3>. QED BY <1>0, <2>3, <3>2, <3>3, ManagerStep DEF BootClosed
  <2>4. CASE Wrap(<<Failure("empty")>>, FALSE)
    <3>1. Failure("empty") \in Chunk /\ Fails(Failure("empty")) 
      BY ChunkTypes DEF Reasons, Failure, Fails
    <3>2. PICK buf \in Seq(Chunk) : /\ buf = <<Failure("empty")>> /\ buf # <<>> /\ Len(buf) = 1
                                    /\ Fails(buf[1])
      <4>1. <<Failure("empty")>> \in Seq(Chunk) BY <3>1
      <4>. QED BY <3>1, <4>1
    <3>3. /\ wrap' \in Wrappers /\ wrap'.pc = "take" /\ wrap'.buf = buf /\ ~wrap'.live /\ ~wrap'.failed
          /\ manager' \in Managers /\ manager'.pc = "idle" /\ manager'.answer = "stream" /\ manager'.buf = <<>>
      BY <1>0, <2>4, <3>2, WrapEffect
    <3>4. TypeInv' BY <1>0, <2>1, <2>2, <3>3 DEF BootClosed, TypeInv
    <3>. QED BY <1>0, <2>2, <3>2, <3>3, <3>4, WrappedStep DEF BootClosed, Fails
  <2>. QED BY <1>2, <2>3, <2>4 DEF BootClosed
<1>. QED BY <1>1, <1>2

LEMMA BootGoneStep == ASSUME Inv, BootGone PROVE Inv'
<1>0. TypeInv /\ manager.pc = "boot" BY DEF Inv, BootGone
<1>1. Answer("cancelled") /\ "cancelled" \in Errs BY DEF BootGone, Errs, Reasons
<1>2. manager' \in Managers /\ manager'.pc = "idle" /\ manager'.answer = "cancelled" BY <1>0, <1>1, AnswerEffect
<1>3. up' \in Streams BY <1>0 DEF BootGone, TypeInv, Streams
<1>4. TypeInv' BY <1>0, <1>2, <1>3 DEF BootGone, TypeInv
<1>. QED BY <1>0, <1>2, <1>4, ManagerStep DEF BootGone

------------------------------------------------------------------------------
(* The upstream's end *)

\* Nothing but the upstream's side of a stream changes: it closes, or is drained.
LEMMA UpstreamStep ==
  ASSUME Inv, up' \in Streams, up'.sent = up.sent, up.pc = "closed" => up'.pc = "closed",
         UNCHANGED <<mode, kind, client, ctx, now, next, manager, wrap, fwd, errs, conv, handler, calm, calls, got>>
  PROVE  Inv'
<1>1. TypeInv' BY DEF Inv, TypeInv
<1>2. Owner' /\ Old' BY DEF Inv, Owner, Old
<1>3. Shape' BY DEF Inv, Shape, Reading, Unread, Payload, Empty, Fails
<1>4. Passed' = Passed BY DEF Passed
<1>5. Order' /\ Counted' BY <1>4 DEF Inv, Order, Counted, Flows
<1>6. Marks' BY DEF Inv, Marks, Reading
<1>7. End' BY DEF Inv, End, Whole
<1>. QED BY <1>1, <1>2, <1>3, <1>5, <1>6, <1>7 DEF Inv

LEMMA UpEndStep == ASSUME Inv, UpEnd \/ Drain PROVE Inv'
<1>1. up \in Streams BY DEF Inv, TypeInv
<1>2. PICK pc \in {"closed", "ending"} : up' = [up EXCEPT !.pc = pc] /\ (up.pc = "closed" => pc = "closed")
  BY DEF UpEnd, Drain
<1>3. up' \in Streams BY <1>1, <1>2 DEF Streams
<1>4. up'.sent = up.sent /\ (up.pc = "closed" => up'.pc = "closed") BY <1>1, <1>2 DEF Streams
<1>. QED BY <1>3, <1>4, UpstreamStep DEF UpEnd, Drain

------------------------------------------------------------------------------
(* The wrapper *)

LEMMA WrapGoneStep == ASSUME Inv, WrapGone PROVE Inv'
<1>0. TypeInv /\ wrap \in Wrappers /\ up \in Streams BY DEF Inv, TypeInv
<1>1. wrap' \in Wrappers
  <2>1. NoChunk \in Chunk /\ <<>> \in Seq(Chunk) BY ChunkTypes
  <2>2. wrap' = [wrap EXCEPT !.pc = "close", !.buf = <<>>, !.chunk = NoChunk] BY DEF WrapGone
  <2>. QED BY <1>0, <2>1, <2>2 DEF Wrappers
<1>2. wrap'.pc = "close" /\ wrap'.buf = <<>> /\ wrap'.live = wrap.live /\ wrap'.failed = wrap.failed
  BY <1>0 DEF WrapGone, Wrappers
<1>3. up' \in Streams /\ up'.sent = up.sent BY <1>0 DEF WrapGone, Streams
<1>4. /\ wrap.pc = "emit" /\ ctx = "cancelled" /\ manager.pc = "idle"
      /\ UNCHANGED <<mode, kind, client, ctx, now, next, manager, fwd, errs, conv, handler, calm, calls, got>>
  BY DEF WrapGone, Inv, Old
<1>5. TypeInv' BY <1>0, <1>1, <1>3, <1>4 DEF TypeInv
<1>6. Owner' BY <1>2, <1>4 DEF Inv, Owner
<1>7. Old' BY <1>2, <1>4 DEF Inv, Old
<1>8. Shape' BY <1>2, <1>4 DEF Inv, Shape, Reading
<1>9. Flows => Passed \in Int /\ Passed' >= Passed
  BY <1>0, <1>2, <1>3, <1>4 DEF Inv, Shape, Reading, Flows, Passed, Streams
<1>10. Order'
  <2>0. Flows => /\ conv.pc = "send" => conv.chunk.no <= Passed
                 /\ fwd.pc = "data" => fwd.chunk.no <= Passed
                 /\ got # <<>> => got[Len(got)].no <= Passed
    BY DEF Inv, Order, Flows
  <2>1. Flows => /\ conv.pc = "send" => conv.chunk.no <= Passed'
                 /\ fwd.pc = "data" => fwd.chunk.no <= Passed'
                 /\ got # <<>> => got[Len(got)].no <= Passed'
    <3>1. \A n \in Nat, i, j \in Int : n <= i /\ j >= i => n <= j OBVIOUS
    <3>2. conv.chunk.no \in Nat /\ fwd.chunk.no \in Nat /\ (got # <<>> => got[Len(got)].no \in Nat)
      BY <1>0, Numbers
    <3>3. Flows => Passed \in Int /\ Passed' \in Int /\ Passed' >= Passed
      BY <1>0, <1>2, <1>3, <1>9 DEF Passed, Streams
    <3>. QED BY <2>0, <3>1, <3>2, <3>3
  <2>. QED BY <1>4, <2>1 DEF Inv, Order, Flows
<1>11. Counted' BY <1>2, <1>4 DEF Inv, Counted, Flows
<1>12. Marks' BY <1>4 DEF Marks
<1>13. End' BY <1>4 DEF Inv, End, Whole
<1>. QED BY <1>5, <1>6, <1>7, <1>8, <1>10, <1>11, <1>12, <1>13 DEF Inv

LEMMA WrapEndStep == ASSUME Inv, WrapEnd PROVE Inv'
<1>0. TypeInv /\ wrap \in Wrappers /\ up \in Streams /\ calls \in Counts BY DEF Inv, TypeInv
<1>1. wrap' = [wrap EXCEPT !.pc = "close"] BY DEF WrapEnd
<1>2. wrap' \in Wrappers BY <1>0, <1>1 DEF Wrappers
<1>3. wrap'.pc = "close" /\ wrap'.buf = wrap.buf /\ wrap'.live = wrap.live /\ wrap'.failed = wrap.failed
  BY <1>0, <1>1 DEF Wrappers
<1>4. /\ wrap.pc = "take" /\ wrap.buf = <<>> /\ (wrap.live => up.pc = "closed")
      /\ UNCHANGED <<mode, kind, client, ctx, now, manager, up, fwd, errs, conv, handler, calm, got>>
      /\ (wrap.failed /\ UNCHANGED <<next, calls>>) \/ (~wrap.failed /\ MarkSuccess(wrap.auth))
  BY DEF WrapEnd
<1>5. next' \in [Auths -> Int] /\ calls' \in Counts /\ calls'.made = calls.made
  BY <1>0, <1>4, SuccessEffect DEF TypeInv
<1>6. wrap.failed => UNCHANGED calls BY <1>4
<1>7. ~wrap.failed => calls'.oks = calls.oks + 1 /\ calls'.fails = calls.fails BY <1>0, <1>4, SuccessEffect
<1>8. TypeInv' BY <1>0, <1>2, <1>4, <1>5 DEF TypeInv
<1>9. Owner' BY <1>3, <1>4 DEF Inv, Owner
<1>10. Old' BY <1>3, <1>4, <1>6 DEF Inv, Old
<1>11. Shape' BY <1>3, <1>4 DEF Inv, Shape, Reading, Unread
<1>12. Passed' = Passed BY <1>3, <1>4 DEF Passed
<1>13. Order' /\ Counted' BY <1>3, <1>4, <1>5, <1>12 DEF Inv, Order, Counted, Flows
<1>14. Marks' BY <1>0, <1>3, <1>4, <1>7 DEF Inv, Marks, Reading
<1>15. End' BY <1>3, <1>4 DEF Inv, End, Whole
<1>. QED BY <1>8, <1>9, <1>10, <1>11, <1>13, <1>14, <1>15 DEF Inv

LEMMA WrapCloseStep == ASSUME Inv, WrapClose PROVE Inv'
<1>0. TypeInv /\ wrap \in Wrappers BY DEF Inv, TypeInv
<1>1. wrap' = [wrap EXCEPT !.pc = "closed"] BY DEF WrapClose
<1>2. wrap' \in Wrappers BY <1>0, <1>1 DEF Wrappers
<1>3. wrap'.pc = "closed" /\ wrap'.buf = wrap.buf /\ wrap'.live = wrap.live /\ wrap'.failed = wrap.failed
  BY <1>0, <1>1 DEF Wrappers
<1>4. /\ wrap.pc = "close"
      /\ UNCHANGED <<mode, kind, client, ctx, now, next, manager, up, fwd, errs, conv, handler, calm, calls, got>>
  BY DEF WrapClose
<1>5. TypeInv' BY <1>0, <1>2, <1>4 DEF TypeInv
<1>6. Owner' BY <1>3, <1>4 DEF Inv, Owner
<1>7. Old' BY <1>3, <1>4 DEF Inv, Old
<1>8. Shape' BY <1>3, <1>4 DEF Inv, Shape, Reading, Unread
<1>9. Passed' = Passed BY <1>3, <1>4 DEF Passed
<1>10. Order' /\ Counted' BY <1>3, <1>4, <1>9 DEF Inv, Order, Counted, Flows
<1>11. Marks' BY <1>3, <1>4 DEF Inv, Marks, Reading
<1>12. End' BY <1>3, <1>4 DEF Inv, End, Whole
<1>. QED BY <1>5, <1>6, <1>7, <1>8, <1>10, <1>11, <1>12 DEF Inv

\* What the wrapper takes: the first of its buffer, or what its stream offers.
LEMMA WrapTakeEffect ==
  ASSUME Inv, WrapTake
  PROVE  \E c \in Chunk :
           /\ wrap' \in Wrappers /\ wrap'.pc = "emit" /\ wrap'.chunk = c /\ wrap'.live = wrap.live
           /\ wrap'.failed <=> wrap.failed \/ c.what = "error"
           /\ up' \in Streams /\ next' \in [Auths -> Int] /\ calls' \in Counts /\ calls'.made = calls.made
           /\ c.what # "error" \/ wrap.failed => calls' = calls
           /\ \/ wrap.buf # <<>> /\ c = wrap.buf[1] /\ wrap'.buf = Tail(wrap.buf) /\ up' = up
              \/ /\ wrap.buf = <<>> /\ wrap.live /\ wrap'.buf = <<>>
                 /\ c.what = "payload" => c = Payload(calls.made, up.sent + 1) /\ up'.sent = up.sent + 1
                 /\ c.what # "payload" => Fails(c) /\ up'.sent = up.sent
<1>0. TypeInv /\ wrap \in Wrappers /\ up \in Streams /\ wrap.buf \in Seq(Chunk) BY DEF Inv, TypeInv, Wrappers
<1>1. PICK c : /\ (wrap.buf # <<>> /\ c = Head(wrap.buf) /\ up' = up)
                    \/ (wrap.buf = <<>> /\ wrap.live /\ c \in Offers /\ up' = After(c))
               /\ wrap' = [wrap EXCEPT !.pc = "emit", !.chunk = c,
                                       !.buf = IF wrap.buf # <<>> THEN Tail(wrap.buf) ELSE wrap.buf,
                                       !.failed = wrap.failed \/ c.what = "error"]
               /\ (c.what = "error" /\ ~wrap.failed /\ MarkFailure(wrap.auth, c.error, FALSE))
                    \/ (~(c.what = "error" /\ ~wrap.failed) /\ UNCHANGED <<next, calls>>)
  BY DEF WrapTake
<1>2. c \in Chunk
  <2>1. CASE wrap.buf # <<>> BY <1>0, <1>1, <2>1
  <2>2. CASE wrap.buf = <<>> BY <1>0, <1>1, <2>2, OffersEffect
  <2>. QED BY <2>1, <2>2
<1>3. PICK rest \in Seq(Chunk) : rest = IF wrap.buf # <<>> THEN Tail(wrap.buf) ELSE wrap.buf
  <2>1. wrap.buf # <<>> => Tail(wrap.buf) \in Seq(Chunk) BY <1>0
  <2>. QED BY <1>0, <2>1
<1>4. PICK failed \in BOOLEAN : failed = (wrap.failed \/ c.what = "error") BY <1>0 DEF Wrappers
<1>5. wrap' = [wrap EXCEPT !.pc = "emit", !.chunk = c, !.buf = rest, !.failed = failed]
  BY <1>1, <1>3, <1>4
<1>6. wrap' \in Wrappers BY <1>0, <1>2, <1>5 DEF Wrappers
<1>7. wrap'.pc = "emit" /\ wrap'.chunk = c /\ wrap'.live = wrap.live /\ wrap'.buf = rest /\ wrap'.failed = failed
  BY <1>0, <1>5 DEF Wrappers
<1>8. next' \in [Auths -> Int] /\ calls' \in Counts /\ calls'.made = calls.made
  <2>1. CASE MarkFailure(wrap.auth, c.error, FALSE) BY <1>0, <2>1, MarkEffect
  <2>2. CASE UNCHANGED <<next, calls>> BY <1>0, <2>2 DEF TypeInv
  <2>. QED BY <1>1, <2>1, <2>2
<1>9. c.what # "error" \/ wrap.failed => calls' = calls BY <1>1
<1>10. CASE wrap.buf # <<>>
  <2>1. up' = up /\ c = Head(wrap.buf) BY <1>1, <1>10
  <2>2. c = wrap.buf[1] /\ rest = Tail(wrap.buf) BY <1>0, <1>3, <1>10, <2>1
  <2>. QED BY <1>0, <1>2, <1>4, <1>6, <1>7, <1>8, <1>9, <1>10, <2>1, <2>2
<1>11. CASE wrap.buf = <<>>
  <2>1. wrap.live /\ c \in Offers /\ up' = After(c) BY <1>1, <1>11
  <2>2. rest = <<>> BY <1>3, <1>11
  <2>3. /\ up' \in Streams
        /\ c.what = "payload" => c = Payload(calls.made, up.sent + 1) /\ up'.sent = up.sent + 1
        /\ c.what # "payload" => Fails(c) /\ up'.sent = up.sent
    BY <1>0, <2>1, OffersEffect, AfterEffect
  <2>. QED BY <1>2, <1>4, <1>6, <1>7, <1>8, <1>9, <1>11, <2>1, <2>2, <2>3
<1>. QED BY <1>10, <1>11

LEMMA WrapTakeStep == ASSUME Inv, WrapTake PROVE Inv'
<1>0. TypeInv /\ up.sent \in Nat /\ wrap.buf \in Seq(Chunk) BY DEF Inv, TypeInv, Streams, Wrappers
<1>1. PICK c \in Chunk :
           /\ wrap' \in Wrappers /\ wrap'.pc = "emit" /\ wrap'.chunk = c /\ wrap'.live = wrap.live
           /\ wrap'.failed <=> wrap.failed \/ c.what = "error"
           /\ up' \in Streams /\ next' \in [Auths -> Int] /\ calls' \in Counts /\ calls'.made = calls.made
           /\ c.what # "error" \/ wrap.failed => calls' = calls
           /\ \/ wrap.buf # <<>> /\ c = wrap.buf[1] /\ wrap'.buf = Tail(wrap.buf) /\ up' = up
              \/ /\ wrap.buf = <<>> /\ wrap.live /\ wrap'.buf = <<>>
                 /\ c.what = "payload" => c = Payload(calls.made, up.sent + 1) /\ up'.sent = up.sent + 1
                 /\ c.what # "payload" => Fails(c) /\ up'.sent = up.sent
  BY WrapTakeEffect
<1>2. /\ wrap.pc = "take"
      /\ UNCHANGED <<mode, kind, client, ctx, now, manager, fwd, errs, conv, handler, calm, got>>
  BY DEF WrapTake
<1>3. manager.pc = "idle" /\ handler.pc # "start" BY <1>1, <1>2 DEF Inv, Old
<1>4. TypeInv' BY <1>0, <1>1, <1>2 DEF TypeInv
<1>5. Owner' BY <1>1, <1>2 DEF Inv, Owner
<1>6. Old' BY <1>2, <1>3 DEF Old
<1>7. ASSUME Reading PROVE Shape' /\ Passed' = Passed /\ (wrap.buf # <<>> /\ wrap.buf[1].what = "error" => c.what = "error")
  <2>1. CASE wrap.buf # <<>> /\ ~wrap.live
    <3>0. Len(wrap.buf) = 1 /\ (wrap.buf[1] = Empty \/ Fails(wrap.buf[1])) BY <1>7, <2>1 DEF Inv, Shape
    <3>1. wrap'.buf = <<>> /\ (c = Empty \/ Fails(c)) BY <1>0, <1>1, <2>1, <3>0, LoneTail
    <3>2. Shape' BY <1>1, <1>2, <2>1, <3>1 DEF Shape, Fails, Empty
    <3>3. Passed' = Passed BY <1>1, <2>1 DEF Passed
    <3>. QED BY <1>1, <2>1, <3>2, <3>3
  <2>2. CASE wrap.buf = <<Payload(calls.made, 1)>> /\ wrap.live
    <3>1. up.sent = 1 /\ ~fwd.sent /\ wrap.buf # <<>> BY <1>2, <1>7, <2>2 DEF Inv, Shape
    <3>2. c = Payload(calls.made, 1) /\ wrap'.buf = <<>> /\ up' = up BY <1>1, <2>2, <3>1
    <3>3. Shape' BY <1>1, <1>2, <2>2, <3>1, <3>2 DEF Shape, Unread, Payload, Empty
    <3>4. Passed' = Passed BY <1>1, <2>2, <3>1, <3>2 DEF Passed, Payload
    <3>. QED BY <1>1, <3>1, <3>3, <3>4
  <2>3. CASE wrap.buf = <<Empty, Payload(calls.made, 1)>> /\ wrap.live
    <3>1. up.sent = 1 /\ ~fwd.sent /\ wrap.buf # <<>> BY <1>2, <1>7, <2>3 DEF Inv, Shape
    <3>2. c = Empty /\ wrap'.buf = <<Payload(calls.made, 1)>> /\ wrap'.buf # <<>> /\ up' = up
      <4>1. up' = up /\ c = wrap.buf[1] /\ wrap'.buf = Tail(wrap.buf) BY <1>1, <3>1
      <4>2. wrap'.buf = <<Payload(calls.made, 1)>> BY <2>3, <4>1, PairTail
      <4>3. c = Empty BY <2>3, <4>1
      <4>4. <<Payload(calls.made, 1)>> # <<>> OBVIOUS
      <4>5. wrap'.buf # <<>> BY <4>2, <4>4
      <4>. QED BY <4>1, <4>2, <4>3, <4>5
    <3>3. Shape' BY <1>1, <1>2, <2>3, <3>1, <3>2 DEF Shape, Unread, Empty
    <3>4. Passed' = Passed BY <1>1, <2>3, <3>1, <3>2 DEF Passed
    <3>. QED BY <1>1, <3>1, <3>3, <3>4
  <2>4. CASE wrap.buf = <<>>
    <3>0. wrap.live /\ fwd.sent BY <1>1, <1>2, <1>7, <2>4 DEF Inv, Shape, Unread
    <3>1. CASE c.what = "payload"
      <4>1. Shape' BY <1>1, <1>2, <2>4, <3>0, <3>1 DEF Shape, Unread, Payload, Empty
      <4>2. Passed' = Passed BY <1>0, <1>1, <1>2, <2>4, <3>0, <3>1 DEF Passed
      <4>. QED BY <2>4, <4>1, <4>2
    <3>2. CASE c.what # "payload"
      <4>1. Shape' BY <1>1, <1>2, <2>4, <3>0, <3>2 DEF Shape, Unread, Fails, Empty
      <4>2. Passed' = Passed BY <1>0, <1>1, <1>2, <2>4, <3>0, <3>2 DEF Passed
      <4>. QED BY <2>4, <4>1, <4>2
    <3>. QED BY <3>1, <3>2
  <2>. QED BY <1>2, <1>7, <2>1, <2>2, <2>3, <2>4 DEF Inv, Shape
<1>8. Shape' BY <1>2, <1>7 DEF Shape, Reading
<1>9. Order' BY <1>1, <1>2, <1>7 DEF Inv, Order, Flows, Reading
<1>10. Counted' BY <1>1, <1>2, <1>7 DEF Inv, Counted, Flows, Reading
<1>11. Marks' BY <1>1, <1>2, <1>7 DEF Inv, Marks, Reading
<1>12. End' BY <1>2 DEF Inv, End, Whole
<1>. QED BY <1>4, <1>5, <1>6, <1>8, <1>9, <1>10, <1>11, <1>12 DEF Inv

------------------------------------------------------------------------------
(* The forwarder *)

\* While the forwarder has a stream or an outcome of its own, the Manager rests.
LEMMA ManagerRests ==
  ASSUME Inv, fwd.pc \notin {"none", "call"}
  PROVE  manager.pc = "idle" /\ manager.answer = "none" /\ handler.pc \notin {"start", "call"}
  BY DEF Inv, Owner, TypeInv, Managers

\* The forwarder leaves its stream, with the client's part of it as it is.
LEMMA StopReading ==
  ASSUME Inv, fwd' \in Fwds, fwd'.sent = fwd.sent, fwd.pc \notin {"none", "call"},
         fwd'.pc \in {"err", "close", "exit"}, fwd'.pc = "err" => fwd'.error # "none",
         wrap' \in Wrappers, wrap'.live = wrap.live,
         UNCHANGED <<mode, kind, client, ctx, now, next, manager, up, conv, handler, calm, calls, got>>,
         errs' \in Errs, handler.pc # "start",
         conv.pc = "exit" /\ ctx = "live" => fwd'.pc = "exit",
         fwd.pc = "exit" => fwd'.pc = "exit" /\ Whole' = Whole,
         ctx = "live" /\ fwd'.pc \in {"close", "exit"} /\ errs' = "none" => Whole'
  PROVE  Inv'
<1>1. manager.pc = "idle" /\ manager.answer = "none" /\ handler.pc \notin {"start", "call"} BY ManagerRests
<1>2. TypeInv' BY DEF Inv, TypeInv
<1>3. Owner' BY <1>1 DEF Inv, Owner
<1>4. Old' BY <1>1 DEF Old
<1>5. ~Reading' /\ ~Flows' BY <1>1 DEF Reading, Flows
<1>6. Shape' /\ Marks' BY <1>5 DEF Shape, Marks
<1>7. Order' /\ Counted' BY <1>5 DEF Inv, Order, Counted
<1>8. End' BY DEF Inv, End
<1>. QED BY <1>2, <1>3, <1>4, <1>6, <1>7, <1>8 DEF Inv

LEMMA FwdReadError ==
  ASSUME Inv, fwd.pc = "read", wrap.pc = "emit", wrap.chunk.what = "error", CallsAgain(wrap.chunk.error),
         fwd' = [fwd EXCEPT !.pc = "call", !.retries = fwd.retries + 1], Call("forwarder"),
         wrap' \in Wrappers, wrap'.pc = "take", wrap'.buf = wrap.buf, wrap'.live = wrap.live,
         wrap'.failed = wrap.failed,
         UNCHANGED <<mode, kind, client, ctx, now, next, up, errs, conv, handler, calm, calls, got>>
  PROVE  Inv'
<1>0. TypeInv /\ fwd \in Fwds /\ ~fwd.sent BY DEF Inv, TypeInv, CallsAgain
<1>1. fwd' \in Fwds /\ fwd'.pc = "call" /\ ~fwd'.sent
  <2>1. fwd.retries + 1 \in Nat BY <1>0 DEF Fwds
  <2>2. fwd' \in Fwds BY <1>0, <2>1 DEF Fwds
  <2>. QED BY <1>0, <2>2 DEF Fwds
<1>2. manager' \in Managers /\ manager'.pc = "pick" /\ manager'.answer = "none" /\ manager'.buf = <<>>
  BY CallEffect
<1>3. got = <<>> /\ conv.pc = "none" /\ handler.pc \notin {"start", "call", "forward"}
  BY <1>0, ManagerRests DEF Inv, Owner
<1>4. wrap.failed /\ wrap.buf = <<>> /\ ~wrap.live
  <2>1. wrap.failed BY DEF Inv, Shape, Reading
  <2>2. ~wrap.live BY <1>0 DEF Inv, Shape, Reading, Unread, Empty
  <2>. QED BY <2>1, <2>2 DEF Inv, Shape, Reading
<1>5. TypeInv' BY <1>0, <1>1, <1>2 DEF TypeInv
<1>6. Owner' BY <1>1, <1>2, <1>3 DEF Inv, Owner
<1>7. Old' BY <1>2, <1>3, <1>4 DEF Old
<1>8. ~Reading' /\ ~Flows' BY <1>1, <1>2 DEF Reading, Flows
<1>9. Shape' /\ Marks' BY <1>8 DEF Shape, Marks
<1>10. Order' /\ Counted' BY <1>1, <1>3, <1>8 DEF Order, Counted
<1>11. End' BY <1>1, <1>3 DEF Inv, End
<1>. QED BY <1>5, <1>6, <1>7, <1>9, <1>10, <1>11 DEF Inv

LEMMA FwdReadPayload ==
  ASSUME Inv, fwd.pc = "read", wrap.pc = "emit", wrap.chunk.what = "payload",
         fwd' = [fwd EXCEPT !.pc = "data", !.chunk = wrap.chunk, !.sent = TRUE],
         wrap' \in Wrappers, wrap'.pc = "take", wrap'.buf = wrap.buf, wrap'.live = wrap.live,
         wrap'.failed = wrap.failed,
         UNCHANGED <<mode, kind, client, ctx, now, next, manager, up, errs, conv, handler, calm, calls, got>>
  PROVE  Inv'
<1>0. TypeInv /\ fwd \in Fwds /\ wrap.chunk \in Chunk /\ up.sent \in Nat
  BY DEF Inv, TypeInv, Wrappers, Streams
<1>1. fwd' \in Fwds /\ fwd'.pc = "data" /\ fwd'.sent /\ fwd'.chunk = wrap.chunk BY <1>0 DEF Fwds
<1>2. manager.pc = "idle" /\ manager.answer = "none" /\ handler.pc \notin {"start", "call"} BY ManagerRests
<1>3. wrap.live /\ wrap.buf = <<>> /\ wrap.chunk = Payload(calls.made, up.sent)
  <2>1. wrap.live BY DEF Inv, Shape, Reading
  <2>2. wrap.buf = <<>> BY <2>1 DEF Inv, Shape, Reading, Empty
  <2>3. wrap.chunk = Payload(calls.made, up.sent) BY DEF Inv, Shape, Reading, Empty, Fails
  <2>. QED BY <2>1, <2>2, <2>3
<1>4. fwd'.chunk.no = up.sent /\ fwd'.chunk.call = calls.made BY <1>1, <1>3 DEF Payload
<1>5. TypeInv' BY <1>0, <1>1 DEF TypeInv
<1>6. Owner' BY <1>1, <1>2, <1>3 DEF Inv, Owner
<1>7. Old' BY <1>2 DEF Old
<1>8. Shape' BY <1>1, <1>3 DEF Shape
<1>9. Passed = up.sent - 1 /\ Passed' = up.sent BY <1>3 DEF Passed
<1>10. Flows BY DEF Flows
<1>11. Order'
  <2>1. /\ conv.pc = "send" => conv.chunk.no <= up.sent - 1
        /\ got # <<>> => got[Len(got)].no <= up.sent - 1
    BY <1>9, <1>10 DEF Inv, Order
  <2>2. /\ conv.pc = "send" => conv.chunk.no <= up.sent /\ up.sent > conv.chunk.no
        /\ got # <<>> => got[Len(got)].no <= up.sent /\ up.sent > got[Len(got)].no
    BY <1>0, <2>1, Numbers
  <2>. QED BY <1>0, <1>1, <1>4, <1>9, <2>2 DEF Inv, Order
<1>12. Counted'
  <2>1. kind # "completions" => Passed = Len(got) + 0 BY <1>10 DEF Inv, Counted
  <2>2. kind # "completions" => up.sent = Len(got) + 1 BY <1>0, <1>9, <2>1, Numbers
  <2>. QED BY <1>1, <1>4, <1>9, <2>2 DEF Inv, Counted
<1>13. Marks' BY <1>3 DEF Inv, Marks, Reading
<1>14. End' BY <1>1 DEF Inv, End
<1>. QED BY <1>5, <1>6, <1>7, <1>8, <1>11, <1>12, <1>13, <1>14 DEF Inv

LEMMA FwdReadEmpty ==
  ASSUME Inv, fwd.pc = "read", wrap.pc = "emit", wrap.chunk.what = "empty",
         wrap' \in Wrappers, wrap'.pc = "take", wrap'.buf = wrap.buf, wrap'.live = wrap.live,
         wrap'.failed = wrap.failed,
         UNCHANGED <<mode, kind, client, ctx, now, next, manager, up, fwd, errs, conv, handler, calm, calls, got>>
  PROVE  Inv'
<1>1. manager.pc = "idle" /\ manager.answer = "none" /\ handler.pc \notin {"start", "call"} BY ManagerRests
<1>2. wrap.chunk = Empty BY DEF Inv, Shape, Reading, Payload, Fails
<1>3. TypeInv' BY DEF Inv, TypeInv
<1>4. Owner' BY DEF Inv, Owner
<1>5. Old' BY <1>1 DEF Old
<1>6. Shape' BY <1>2 DEF Inv, Shape, Reading, Unread
<1>7. Passed' = Passed BY <1>2 DEF Inv, Shape, Reading, Passed
<1>8. Order' BY <1>7 DEF Inv, Order, Flows
<1>9. Counted' BY <1>7 DEF Inv, Counted, Flows
<1>10. Marks' BY <1>2 DEF Inv, Marks, Reading
<1>11. End' BY DEF Inv, End
<1>. QED BY <1>3, <1>4, <1>5, <1>6, <1>8, <1>9, <1>10, <1>11 DEF Inv

LEMMA FwdReadStep == ASSUME Inv, FwdRead PROVE Inv'
<1>0. /\ TypeInv /\ fwd \in Fwds /\ wrap \in Wrappers /\ wrap.chunk \in Chunk /\ errs \in Errs
      /\ fwd.pc = "read" /\ wrap.pc = "emit"
  BY DEF Inv, TypeInv, FwdRead, Wrappers
<1>1. wrap' \in Wrappers /\ wrap'.pc = "take" /\ wrap'.buf = wrap.buf /\ wrap'.live = wrap.live
      /\ wrap'.failed = wrap.failed
  <2>1. wrap' = [wrap EXCEPT !.pc = "take", !.chunk = NoChunk] BY DEF FwdRead
  <2>2. wrap' \in Wrappers BY <1>0, <2>1, ChunkTypes DEF Wrappers
  <2>. QED BY <1>0, <2>1, <2>2 DEF Wrappers
<1>2. UNCHANGED <<mode, kind, client, ctx, now, next, up, errs, conv, handler, calm, calls, got>> BY DEF FwdRead
<1>3. CASE /\ wrap.chunk.what = "error" /\ CallsAgain(wrap.chunk.error) /\ Call("forwarder")
           /\ fwd' = [fwd EXCEPT !.pc = "call", !.retries = fwd.retries + 1]
  BY <1>0, <1>1, <1>2, <1>3, FwdReadError
<1>4. ASSUME NEW e \in Errs, e # "none", fwd' = [fwd EXCEPT !.pc = "err", !.error = e], UNCHANGED manager
      PROVE  Inv'
  <2>1. fwd' \in Fwds BY <1>0, <1>4 DEF Fwds
  <2>2. fwd'.pc = "err" /\ fwd'.error = e /\ fwd'.sent = fwd.sent BY <1>0, <1>4 DEF Fwds
  <2>3. handler.pc # "start" BY <1>0, ManagerRests
  <2>4. ~(conv.pc = "exit" /\ ctx = "live") BY <1>0 DEF Inv, End
  <2>. QED BY <1>0, <1>1, <1>2, <1>4, <2>1, <2>2, <2>3, <2>4, StopReading
<1>5. CASE wrap.chunk.what = "error" /\ fwd' = [fwd EXCEPT !.pc = "err", !.error = wrap.chunk.error] /\ UNCHANGED manager
  <2>1. wrap.chunk.error # "none" BY <1>0, <1>5 DEF Inv, Shape, Reading, Fails, Empty, Payload
  <2>2. wrap.chunk.error \in Errs BY <1>0 DEF Chunk, Errs
  <2>. QED BY <1>4, <1>5, <2>1, <2>2
<1>6. CASE fwd' = [fwd EXCEPT !.pc = "err", !.error = "invalid_json"] /\ UNCHANGED manager
  <2>1. "invalid_json" \in Errs BY DEF Errs, Reasons
  <2>. QED BY <1>4, <1>6, <2>1
<1>7. CASE /\ wrap.chunk.what = "payload" /\ UNCHANGED manager
           /\ fwd' = [fwd EXCEPT !.pc = "data", !.chunk = wrap.chunk, !.sent = TRUE]
  BY <1>0, <1>1, <1>2, <1>7, FwdReadPayload
<1>8. CASE wrap.chunk.what = "empty" /\ UNCHANGED <<fwd, manager>>
  BY <1>0, <1>1, <1>2, <1>8, FwdReadEmpty
<1>. QED BY <1>3, <1>5, <1>6, <1>7, <1>8 DEF FwdRead

\* The Manager has answered with a stream: nothing of it was passed on yet.
LEMMA FreshStream ==
  ASSUME Inv, manager.answer = "stream", ~fwd.sent, wrap.pc \in {"take", "emit"} \/ ctx = "live"
  PROVE  Passed = 0
  BY DEF Inv, Shape, Reading, Unread, Passed, TypeInv, Streams

LEMMA NoCallFacts == manager' = NoCall => manager' \in Managers /\ manager'.pc = "idle" /\ manager'.answer = "none"
<1>1. NoCall.pc = "idle" /\ NoCall.answer = "none" BY DEF NoCall
<1>. QED BY <1>1, NoCallType

LEMMA FwdReturnStep == ASSUME Inv, FwdReturn PROVE Inv'
<1>0. TypeInv /\ fwd \in Fwds /\ manager.answer \in Errs /\ manager.answer # "none" /\ fwd.pc = "call"
  BY DEF Inv, TypeInv, Managers, FwdReturn
<1>1. manager' \in Managers /\ manager'.pc = "idle" /\ manager'.answer = "none" BY NoCallFacts DEF FwdReturn
<1>2. /\ manager.pc = "idle" /\ ~fwd.sent /\ got = <<>> /\ conv.pc = "none"
      /\ handler.pc \notin {"start", "call", "forward"}
  BY <1>0 DEF Inv, Owner
<1>3. UNCHANGED <<mode, kind, client, ctx, now, next, up, wrap, errs, conv, handler, calm, calls, got>>
  BY DEF FwdReturn
<1>4. /\ fwd' \in Fwds /\ fwd'.sent = fwd.sent
      /\ \/ manager.answer = "stream" /\ fwd'.pc = "read"
         \/ manager.answer # "stream" /\ fwd'.pc = "err" /\ fwd'.error = manager.answer
  <2>1. CASE manager.answer = "stream"
    <3>1. fwd' = [fwd EXCEPT !.pc = "read"] BY <2>1 DEF FwdReturn
    <3>2. fwd' \in Fwds BY <1>0, <3>1 DEF Fwds
    <3>. QED BY <1>0, <2>1, <3>1, <3>2 DEF Fwds
  <2>2. CASE manager.answer # "stream"
    <3>1. fwd' = [fwd EXCEPT !.pc = "err", !.error = manager.answer] BY <2>2 DEF FwdReturn
    <3>2. fwd' \in Fwds BY <1>0, <3>1 DEF Fwds
    <3>. QED BY <1>0, <2>2, <3>1, <3>2 DEF Fwds
  <2>. QED BY <2>1, <2>2
<1>5. TypeInv' BY <1>0, <1>1, <1>3, <1>4 DEF TypeInv
<1>6. Owner' BY <1>0, <1>1, <1>2, <1>3, <1>4 DEF Inv, Owner
<1>7. Old' BY <1>1, <1>2, <1>3 DEF Old
<1>8. Reading' => manager.answer = "stream" /\ fwd'.pc = "read" BY <1>1, <1>4 DEF Reading
<1>9. Shape' BY <1>3, <1>4, <1>8 DEF Inv, Shape, Reading, Unread
<1>10. Order' BY <1>2, <1>3, <1>4 DEF Order
<1>11. Counted'
  <2>1. Passed' = Passed BY <1>3 DEF Passed
  <2>2. Flows' /\ (wrap.pc \in {"take", "emit"} \/ ctx = "live") => Passed = 0 /\ fwd'.pc = "read"
    BY <1>2, <1>4, FreshStream DEF Flows
  <2>3. Len(got) = 0 BY <1>2
  <2>. QED BY <1>2, <1>3, <1>4, <2>1, <2>2, <2>3 DEF Counted
<1>12. Marks' BY <1>3, <1>8 DEF Inv, Marks, Reading
<1>13. End' BY <1>2, <1>3, <1>4 DEF Inv, End
<1>. QED BY <1>5, <1>6, <1>7, <1>9, <1>10, <1>11, <1>12, <1>13 DEF Inv

LEMMA FwdStopStep == ASSUME Inv, FwdStop PROVE Inv'
<1>0. TypeInv /\ fwd \in Fwds /\ wrap \in Wrappers /\ errs \in Errs /\ fwd.pc \in {"read", "data", "err"}
  BY DEF Inv, TypeInv, FwdStop
<1>1. fwd' \in Fwds /\ fwd'.pc = "close" /\ fwd'.sent = fwd.sent
  <2>1. fwd' = [fwd EXCEPT !.pc = "close", !.chunk = NoChunk] BY DEF FwdStop
  <2>2. fwd' \in Fwds BY <1>0, <2>1, ChunkTypes DEF Fwds
  <2>. QED BY <1>0, <2>1, <2>2 DEF Fwds
<1>2. UNCHANGED <<mode, kind, client, ctx, now, next, manager, up, wrap, errs, conv, handler, calm, calls, got>>
  BY DEF FwdStop
<1>3. ctx = "live" => Whole
  <2>. SUFFICES ASSUME ctx = "live" PROVE Whole OBVIOUS
  <2>1. fwd.pc = "read" /\ wrap.pc = "closed" BY DEF FwdStop
  <2>2. wrap.buf = <<>> BY <2>1 DEF Inv, Shape, Reading
  <2>3. calls.oks = 1 /\ calls.fails = 0 /\ (wrap.live => up.pc = "closed") BY <2>1 DEF Inv, Marks, Reading
  <2>4. wrap.live => Passed = up.sent BY <2>1, <2>2 DEF Passed
  <2>5. kind # "completions" => Passed = Len(got) + 0 BY <2>1 DEF Inv, Counted, Flows
  <2>. QED BY <1>0, <2>1, <2>2, <2>3, <2>4, <2>5, Numbers DEF Whole
<1>4. Whole' = Whole BY <1>2 DEF Whole
<1>5. handler.pc # "start" /\ ~(conv.pc = "exit" /\ ctx = "live") BY <1>0, ManagerRests DEF Inv, End
<1>. QED BY <1>0, <1>1, <1>2, <1>3, <1>4, <1>5, StopReading

LEMMA FwdErrorStep == ASSUME Inv, FwdError PROVE Inv'
<1>0. TypeInv /\ fwd \in Fwds /\ wrap \in Wrappers /\ fwd.pc = "err" /\ fwd.error # "none"
  BY DEF Inv, TypeInv, FwdError, Owner
<1>1. fwd' \in Fwds /\ fwd'.pc = "close" /\ fwd'.sent = fwd.sent
  <2>1. fwd' = [fwd EXCEPT !.pc = "close", !.chunk = NoChunk] BY DEF FwdError
  <2>2. fwd' \in Fwds BY <1>0, <2>1, ChunkTypes DEF Fwds
  <2>. QED BY <1>0, <2>1, <2>2 DEF Fwds
<1>2. errs' = fwd.error /\ errs' \in Errs BY <1>0 DEF FwdError, Fwds
<1>3. handler.pc # "start" /\ ~(conv.pc = "exit" /\ ctx = "live") BY <1>0, ManagerRests DEF Inv, End
<1>. QED BY <1>0, <1>1, <1>2, <1>3, StopReading DEF FwdError

LEMMA FwdCloseStep == ASSUME Inv, FwdClose PROVE Inv'
<1>0. TypeInv /\ fwd \in Fwds /\ wrap \in Wrappers /\ errs \in Errs /\ fwd.pc = "close"
  BY DEF Inv, TypeInv, FwdClose
<1>1. fwd' \in Fwds /\ fwd'.pc = "exit" /\ fwd'.sent = fwd.sent
  <2>1. fwd' = [fwd EXCEPT !.pc = "exit"] BY DEF FwdClose
  <2>2. fwd' \in Fwds BY <1>0, <2>1 DEF Fwds
  <2>. QED BY <1>0, <2>1, <2>2 DEF Fwds
<1>2. Whole' = Whole BY DEF FwdClose, Whole
<1>3. ctx = "live" /\ errs = "none" => Whole BY <1>0 DEF Inv, End
<1>4. handler.pc # "start" BY <1>0, ManagerRests
<1>. QED BY <1>0, <1>1, <1>2, <1>3, <1>4, StopReading DEF FwdClose

------------------------------------------------------------------------------
(* The converter *)

\* Between the forwarder and the handler: the wrapper and the Manager are left alone.
LEMMA PassingOn ==
  ASSUME Inv, fwd' \in Fwds, fwd'.sent = fwd.sent, fwd'.pc = "read" \/ fwd' = fwd, fwd' # fwd => fwd.pc = "data",
         conv' \in Convs, got' \in Seq(Chunk), handler' \in Handlers, handler'.end = handler.end,
         handler'.pc = handler.pc \/ (handler.pc = "peek" /\ handler'.pc = "forward"),
         fwd.sent, handler'.pc = "peek" => got' = <<>> /\ conv'.pc = "none",
         conv'.pc # "none" => kind = "completions",
         handler.pc = "done" => got' = got,
         conv'.pc = "exit" /\ ctx = "live" => fwd'.pc = "exit",
         kind # "completions" /\ fwd.pc # "data" => got' = got,
         UNCHANGED <<mode, kind, client, ctx, now, next, manager, up, wrap, errs, calm, calls>>,
         Order', Counted'
  PROVE  Inv'
<1>1. TypeInv' BY DEF Inv, TypeInv
<1>2. manager.answer = "stream" \/ manager.pc # "idle" => fwd' = fwd BY DEF Inv, Owner, TypeInv, Managers
<1>3. Owner' BY DEF Inv, Owner
<1>4. Old' BY DEF Inv, Old
<1>5. Reading' => Reading BY DEF Reading
<1>6. Shape' BY <1>5 DEF Inv, Shape, Unread
<1>7. Marks' BY <1>5 DEF Inv, Marks
<1>8. fwd'.pc \in {"close", "exit"} => fwd' = fwd /\ fwd.pc # "data" BY DEF Fwds
<1>9. fwd'.pc \in {"close", "exit"} /\ Whole => Whole' BY <1>8 DEF Whole
<1>10. End' BY <1>8, <1>9 DEF Inv, End
<1>. QED BY <1>1, <1>3, <1>4, <1>6, <1>7, <1>10 DEF Inv

\* The forwarder has handed over its chunk.
LEMMA HandedOver ==
  ASSUME TypeInv, fwd' = [fwd EXCEPT !.pc = "read", !.chunk = NoChunk]
  PROVE  fwd' \in Fwds /\ fwd'.pc = "read" /\ fwd'.sent = fwd.sent
<1>1. fwd \in Fwds BY DEF TypeInv
<1>2. fwd' \in Fwds BY <1>1, ChunkTypes DEF Fwds
<1>. QED BY <1>1, <1>2 DEF Fwds

LEMMA ConvReadStep == ASSUME Inv, ConvRead PROVE Inv'
<1>0. TypeInv /\ conv \in Convs /\ fwd \in Fwds /\ fwd.chunk \in Chunk BY DEF Inv, TypeInv, Fwds
<1>1. /\ conv.pc = "read" /\ fwd.pc = "data" /\ fwd' = [fwd EXCEPT !.pc = "read", !.chunk = NoChunk]
      /\ UNCHANGED <<mode, kind, client, ctx, now, next, manager, up, wrap, errs, handler, calm, calls, got>>
  BY DEF ConvRead
<1>2. fwd' \in Fwds /\ fwd'.pc = "read" /\ fwd'.sent = fwd.sent BY <1>0, <1>1, HandedOver
<1>3. kind = "completions" /\ fwd.sent /\ handler.pc # "peek" BY <1>1 DEF Inv, Owner
<1>4. conv' \in Convs /\ (conv'.pc = "read" \/ (conv'.pc = "send" /\ conv'.chunk = fwd.chunk))
  <2>1. CASE conv' = [conv EXCEPT !.pc = "send", !.chunk = fwd.chunk]
    <3>1. conv' \in Convs BY <1>0, <2>1 DEF Convs
    <3>. QED BY <1>0, <2>1, <3>1 DEF Convs
  <2>. QED BY <1>0, <1>1, <2>1 DEF ConvRead
<1>5. Passed' = Passed BY <1>1 DEF Passed
<1>6. Order' BY <1>1, <1>2, <1>4, <1>5 DEF Inv, Order, Flows
<1>7. Counted' BY <1>1, <1>3 DEF Counted
<1>8. handler \in Handlers /\ got \in Seq(Chunk) BY <1>0 DEF TypeInv
<1>. QED BY <1>1, <1>2, <1>3, <1>4, <1>6, <1>7, <1>8, PassingOn

LEMMA ConvStopStep == ASSUME Inv, ConvStop PROVE Inv'
<1>0. TypeInv /\ fwd \in Fwds /\ handler \in Handlers /\ got \in Seq(Chunk) BY DEF Inv, TypeInv
<1>1. /\ conv.pc # "none"
      /\ UNCHANGED <<mode, kind, client, ctx, now, next, manager, up, wrap, fwd, errs, handler, calm, calls, got>>
  BY DEF ConvStop
<1>2. conv' \in Convs /\ conv'.pc = "exit" BY ChunkTypes DEF ConvStop, Convs
<1>3. fwd.sent /\ kind = "completions" /\ handler.pc # "peek" BY <1>1 DEF Inv, Owner
<1>4. ctx = "live" => fwd.pc = "exit" BY DEF ConvStop, Inv, End
<1>5. Passed' = Passed BY <1>1 DEF Passed
<1>6. Order' BY <1>1, <1>2, <1>5 DEF Inv, Order, Flows
<1>7. Counted' BY <1>1, <1>3 DEF Counted
<1>. QED BY <1>0, <1>1, <1>2, <1>3, <1>4, <1>6, <1>7, PassingOn

------------------------------------------------------------------------------
(* The handler and its client *)

LEMMA StartStep == ASSUME Inv, Start \/ StartUnknown PROVE Inv'
<1>0. TypeInv /\ handler \in Handlers /\ handler.pc = "start" /\ fwd \in Fwds
  BY DEF Inv, TypeInv, Start, StartUnknown
<1>1. handler' \in Handlers /\ handler'.pc = "call" /\ handler'.end = handler.end
  <2>1. handler' = [handler EXCEPT !.pc = "call"] BY DEF Start, StartUnknown
  <2>2. handler' \in Handlers BY <1>0, <2>1 DEF Handlers
  <2>. QED BY <1>0, <2>1, <2>2 DEF Handlers
<1>2. /\ manager' \in Managers /\ manager'.answer # "stream" /\ manager'.buf = <<>>
      /\ (manager'.pc = "pick" /\ manager'.answer = "none") \/ manager'.pc = "idle"
  <2>1. CASE Start BY <2>1, CallEffect DEF Start
  <2>2. CASE StartUnknown
    <3>1. manager' = [NoCall EXCEPT !.by = "handler", !.answer = "unknown"] BY <2>2 DEF StartUnknown
    <3>2. "unknown" \in Errs BY DEF Errs, Reasons
    <3>3. manager' \in Managers BY <3>1, <3>2, NoCallType DEF Managers
    <3>4. manager'.answer = "unknown" /\ manager'.buf = <<>> /\ manager'.pc = "idle" BY <3>1 DEF NoCall
    <3>. QED BY <3>3, <3>4
  <2>. QED BY <2>1, <2>2
<1>3. UNCHANGED <<mode, kind, client, ctx, now, next, up, wrap, fwd, errs, conv, calm, calls, got>>
  BY DEF Start, StartUnknown
<1>4. /\ fwd.pc = "none" /\ ~fwd.sent /\ got = <<>> /\ conv.pc = "none"
      /\ ~wrap.live /\ wrap.buf = <<>> /\ wrap.pc = "none"
  BY <1>0 DEF Inv, Owner, Old
<1>5. TypeInv' BY <1>0, <1>1, <1>2, <1>3 DEF TypeInv
<1>6. Owner' BY <1>1, <1>2, <1>3, <1>4 DEF Owner
<1>7. Old' BY <1>1, <1>2, <1>3, <1>4 DEF Old
<1>8. ~Reading' /\ ~Flows' BY <1>2, <1>3, <1>4 DEF Reading, Flows
<1>9. Shape' /\ Marks' BY <1>8 DEF Shape, Marks
<1>10. Order' /\ Counted' BY <1>3, <1>4, <1>8 DEF Order, Counted
<1>11. End' BY <1>0, <1>1, <1>3, <1>4 DEF Inv, End
<1>. QED BY <1>5, <1>6, <1>7, <1>9, <1>10, <1>11 DEF Inv

LEMMA FinishEffect ==
  ASSUME TypeInv, NEW end \in {"done", "error", "gone"}, NEW status \in Errs, Finish(end, status)
  PROVE  handler' \in Handlers /\ handler'.pc = "done" /\ handler'.end = end /\ ctx' = "cancelled"
  BY DEF Finish, TypeInv, Handlers

LEMMA RespondStep == ASSUME Inv, ReturnPlain \/ ReturnCount PROVE Inv'
<1>0. TypeInv /\ manager.answer \in Errs /\ handler.pc = "call" /\ Respond
  BY DEF Inv, TypeInv, Managers, ReturnPlain, ReturnCount, Respond
<1>1. manager' \in Managers /\ manager'.pc = "idle" /\ manager'.answer = "none" BY <1>0, NoCallFacts DEF Respond
<1>2. handler' \in Handlers /\ handler'.pc = "done" /\ ctx' = "cancelled"
  <2>1. "ok" \in Errs BY DEF Errs, Reasons
  <2>. QED BY <1>0, <2>1, FinishEffect DEF Respond
<1>3. UNCHANGED <<mode, kind, client, now, next, up, wrap, fwd, errs, conv, calm, calls, got>>
  BY <1>0 DEF Respond
<1>4. fwd.pc = "none" /\ ~fwd.sent /\ got = <<>> /\ conv.pc = "none" BY <1>0 DEF Inv, Owner
<1>5. TypeInv' BY <1>0, <1>1, <1>2, <1>3 DEF TypeInv
<1>6. Owner' BY <1>1, <1>2, <1>3, <1>4 DEF Owner
<1>7. Old' BY <1>1, <1>2 DEF Old
<1>8. ~Reading' /\ ~Flows' BY <1>1, <1>3, <1>4 DEF Reading, Flows
<1>9. Shape' /\ Marks' BY <1>8 DEF Shape, Marks
<1>10. Order' /\ Counted' BY <1>3, <1>4, <1>8 DEF Order, Counted
<1>11. End' BY <1>2, <1>3, <1>4 DEF End
<1>. QED BY <1>5, <1>6, <1>7, <1>9, <1>10, <1>11 DEF Inv

LEMMA ReturnStreamStep == ASSUME Inv, ReturnStream PROVE Inv'
<1>0. TypeInv /\ fwd \in Fwds /\ handler \in Handlers /\ manager.answer \in Errs /\ manager.answer # "none"
      /\ handler.pc = "call"
  BY DEF Inv, TypeInv, Managers, ReturnStream
<1>1. manager' \in Managers /\ manager'.pc = "idle" /\ manager'.answer = "none" BY NoCallFacts DEF ReturnStream
<1>2. handler' \in Handlers /\ handler'.pc = "peek" /\ handler'.end = handler.end
  <2>1. handler' = [handler EXCEPT !.pc = "peek"] BY DEF ReturnStream
  <2>2. handler' \in Handlers BY <1>0, <2>1 DEF Handlers
  <2>. QED BY <1>0, <2>1, <2>2 DEF Handlers
<1>3. UNCHANGED <<mode, kind, client, ctx, now, next, up, wrap, conv, calm, calls, got>> BY DEF ReturnStream
<1>4. manager.pc = "idle" /\ fwd.pc = "none" /\ ~fwd.sent /\ got = <<>> /\ conv.pc = "none"
  BY <1>0 DEF Inv, Owner
<1>5. /\ fwd' \in Fwds /\ fwd'.sent = fwd.sent /\ errs' \in Errs
      /\ \/ manager.answer = "stream" /\ fwd'.pc = "read"
         \/ manager.answer # "stream" /\ fwd'.pc = "none"
  <2>1. CASE manager.answer = "stream"
    <3>1. fwd' = [fwd EXCEPT !.pc = "read"] /\ errs' = errs BY <2>1 DEF ReturnStream
    <3>2. fwd' \in Fwds BY <1>0, <3>1 DEF Fwds
    <3>. QED BY <1>0, <2>1, <3>1, <3>2 DEF Fwds, TypeInv
  <2>2. CASE manager.answer # "stream" BY <1>0, <1>4, <2>2 DEF ReturnStream
  <2>. QED BY <2>1, <2>2
<1>6. TypeInv' BY <1>0, <1>1, <1>2, <1>3, <1>5 DEF TypeInv
<1>7. Owner' BY <1>1, <1>2, <1>3, <1>4, <1>5 DEF Inv, Owner
<1>8. Old' BY <1>1, <1>2 DEF Old
<1>9. Reading' => manager.answer = "stream" /\ fwd'.pc = "read" BY <1>1, <1>5 DEF Reading
<1>10. Shape' BY <1>3, <1>5, <1>9 DEF Inv, Shape, Reading, Unread
<1>11. Order' BY <1>3, <1>4, <1>5 DEF Order
<1>12. Counted'
  <2>1. Passed' = Passed BY <1>3 DEF Passed
  <2>2. Flows' /\ (wrap.pc \in {"take", "emit"} \/ ctx = "live") => Passed = 0 /\ fwd'.pc = "read"
    BY <1>4, <1>5, FreshStream DEF Flows
  <2>3. Len(got) = 0 BY <1>4
  <2>. QED BY <1>3, <1>4, <1>5, <2>1, <2>2, <2>3 DEF Counted
<1>13. Marks' BY <1>3, <1>9 DEF Inv, Marks, Reading
<1>14. End' BY <1>0, <1>2, <1>3, <1>4, <1>5 DEF Inv, End
<1>. QED BY <1>6, <1>7, <1>8, <1>10, <1>11, <1>12, <1>13, <1>14 DEF Inv

\* The response of a stream ends.
LEMMA EndStep ==
  ASSUME Inv, handler.pc \in {"peek", "forward"}, errs' \in Errs,
         NEW end \in {"done", "error", "gone"}, NEW status \in Errs, Finish(end, status),
         UNCHANGED <<mode, kind, client, now, next, manager, up, wrap, fwd, conv, calm, calls, got>>,
         end = "done" /\ client = "here" /\ got # <<>> => fwd.pc = "exit" /\ Whole
  PROVE  Inv'
<1>0. TypeInv BY DEF Inv
<1>1. handler' \in Handlers /\ handler'.pc = "done" /\ handler'.end = end /\ ctx' = "cancelled"
  BY <1>0, FinishEffect
<1>2. TypeInv' BY <1>0, <1>1 DEF TypeInv
<1>3. Owner' BY <1>1 DEF Inv, Owner
<1>4. Old' BY <1>1 DEF Inv, Old
<1>5. Shape' BY <1>1 DEF Inv, Shape, Reading, Unread
<1>6. Passed' = Passed /\ (Flows' <=> Flows) BY DEF Passed, Flows
<1>7. Order' BY <1>6 DEF Inv, Order
<1>8. Counted' BY <1>1, <1>6 DEF Inv, Counted
<1>9. Marks' BY <1>1 DEF Marks
<1>10. Whole' = Whole BY DEF Whole
<1>11. End' BY <1>1, <1>10 DEF End
<1>. QED BY <1>2, <1>3, <1>4, <1>5, <1>7, <1>8, <1>9, <1>11 DEF Inv

LEMMA ResponseEnds ==
  ASSUME Inv, PeekError \/ PeekClosed \/ ForwardError \/ ForwardEnd \/ HandlerGone PROVE Inv'
<1>0. errs \in Errs /\ "none" \in Errs /\ "ok" \in Errs BY DEF Inv, TypeInv, Errs, Reasons
<1>1. CASE PeekError BY <1>0, <1>1, EndStep DEF PeekError
<1>2. CASE PeekClosed
  <2>1. got = <<>> BY <1>2 DEF PeekClosed, Inv, Owner
  <2>. QED BY <1>0, <1>2, <2>1, EndStep DEF PeekClosed
<1>3. CASE ForwardError BY <1>0, <1>3, EndStep DEF ForwardError
<1>4. CASE ForwardEnd
  <2>1. errs = "none" /\ client = "here" => fwd.pc = "exit" /\ Whole BY <1>4 DEF ForwardEnd, Source, Inv, End
  <2>. QED BY <1>0, <1>4, <2>1, EndStep DEF ForwardEnd
<1>5. CASE HandlerGone BY <1>0, <1>5, EndStep DEF HandlerGone
<1>. QED BY <1>1, <1>2, <1>3, <1>4, <1>5

\* The client receives the next chunk.
LEMMA GotAppend ==
  ASSUME Inv, NEW c \in Chunk, c.call = calls.made, got # <<>> => c.no > got[Len(got)].no, got' = Append(got, c)
  PROVE  /\ got' \in Seq(Chunk) /\ got' # <<>> /\ Len(got') = Len(got) + 1 /\ got'[Len(got')] = c
         /\ \A i \in DOMAIN got' : got'[i].call = calls.made /\ (i > 1 => got'[i].no > got'[i - 1].no)
         /\ (\A i \in DOMAIN got : got[i].no = i) /\ c.no = Len(got) + 1 => \A i \in DOMAIN got' : got'[i].no = i
<1>0. got \in Seq(Chunk) BY DEF Inv, TypeInv
<1>1. /\ got' \in Seq(Chunk) /\ Len(got') = Len(got) + 1 /\ got'[Len(got) + 1] = c
      /\ \A i \in 1..Len(got) : got'[i] = got[i]
  BY <1>0
<1>2. got' # <<>> /\ DOMAIN got' = 1..(Len(got) + 1) /\ DOMAIN got = 1..Len(got) /\ Len(got) \in Nat
  BY <1>0, <1>1
<1>3. \A i \in DOMAIN got : got[i].call = calls.made /\ (i > 1 => got[i].no > got[i - 1].no) BY DEF Inv, Order
<1>4. \A i \in DOMAIN got' : i \in 1..Len(got) \/ i = Len(got) + 1 BY <1>2
<1>5. ASSUME NEW i \in 1..Len(got) PROVE got'[i].call = calls.made /\ (i > 1 => got'[i].no > got'[i - 1].no)
  <2>1. i > 1 => i - 1 \in 1..Len(got) BY <1>2
  <2>. QED BY <1>1, <1>2, <1>3, <2>1
<1>6. got'[Len(got) + 1].call = calls.made
      /\ (Len(got) + 1 > 1 => got'[Len(got) + 1].no > got'[Len(got) + 1 - 1].no)
  <2>1. Len(got) + 1 > 1 => Len(got) \in 1..Len(got) /\ got # <<>> /\ Len(got) + 1 - 1 = Len(got) BY <1>2
  <2>. QED BY <1>1, <2>1
<1>7. \A i \in DOMAIN got' : got'[i].call = calls.made /\ (i > 1 => got'[i].no > got'[i - 1].no)
  BY <1>4, <1>5, <1>6
<1>8. (\A i \in DOMAIN got : got[i].no = i) /\ c.no = Len(got) + 1 => \A i \in DOMAIN got' : got'[i].no = i
  BY <1>1, <1>2, <1>4
<1>. QED BY <1>1, <1>2, <1>7, <1>8

\* ... from the forwarder, when no converter is between them yet
LEMMA Delivered ==
  ASSUME Inv, fwd.pc = "data", conv.pc = "none", conv' \in Convs, conv'.pc # "send",
         conv'.pc = "none" \/ (conv'.pc = "read" /\ kind = "completions"),
         fwd' = [fwd EXCEPT !.pc = "read", !.chunk = NoChunk],
         got' = Append(got, fwd.chunk) \/ (kind = "completions" /\ got' = got),
         handler' \in Handlers, handler.pc # "done", handler'.end = handler.end, handler'.pc = "forward",
         handler.pc \in {"peek", "forward"},
         UNCHANGED <<mode, kind, client, ctx, now, next, manager, up, wrap, errs, calm, calls>>
  PROVE  Inv'
<1>0. TypeInv /\ got \in Seq(Chunk) /\ fwd.chunk \in Chunk BY DEF Inv, TypeInv, Fwds
<1>1. fwd' \in Fwds /\ fwd'.pc = "read" /\ fwd'.sent = fwd.sent BY <1>0, HandedOver
<1>2. fwd.sent BY DEF Inv, Owner
<1>3. Passed' = Passed /\ Flows /\ Flows' BY <1>1 DEF Passed, Flows
<1>4. /\ fwd.chunk.call = calls.made /\ fwd.chunk.no <= Passed
      /\ got # <<>> => fwd.chunk.no > got[Len(got)].no
  BY DEF Inv, Order
<1>5. got' = Append(got, fwd.chunk) =>
        /\ got' \in Seq(Chunk) /\ got' # <<>> /\ Len(got') = Len(got) + 1 /\ got'[Len(got')] = fwd.chunk
        /\ \A i \in DOMAIN got' : got'[i].call = calls.made /\ (i > 1 => got'[i].no > got'[i - 1].no)
        /\ (\A i \in DOMAIN got : got[i].no = i) /\ fwd.chunk.no = Len(got) + 1 => \A i \in DOMAIN got' : got'[i].no = i
  BY <1>0, <1>4, GotAppend
<1>6. Order' BY <1>1, <1>3, <1>4, <1>5 DEF Inv, Order
<1>7. Counted'
  <2>. SUFFICES ASSUME kind # "completions" PROVE Counted' BY DEF Counted
  <2>1. fwd.chunk.no = Len(got) + 1 /\ \A i \in DOMAIN got : got[i].no = i BY DEF Inv, Counted
  <2>2. wrap.pc \in {"take", "emit"} \/ ctx = "live" => Passed = Len(got) + 1 BY <1>3 DEF Inv, Counted
  <2>3. wrap.pc \in {"take", "emit"} \/ ctx = "live" => Passed' = Len(got') + 0 BY <1>0, <1>3, <1>5, <2>2, Numbers
  <2>. QED BY <1>1, <1>5, <2>1, <2>3 DEF Counted
<1>8. got' \in Seq(Chunk) BY <1>0, <1>5
<1>9. fwd \in Fwds /\ fwd' # fwd BY <1>0, <1>1 DEF TypeInv
<1>. QED BY <1>1, <1>2, <1>6, <1>7, <1>8, <1>9, PassingOn

LEMMA PeekChunkStep == ASSUME Inv, PeekChunk PROVE Inv'
<1>0. TypeInv /\ handler \in Handlers /\ conv \in Convs /\ conv.pc = "none" /\ handler.pc = "peek" /\ fwd.pc = "data"
  BY DEF Inv, TypeInv, PeekChunk, Owner
<1>1. handler' \in Handlers /\ handler'.pc = "forward" /\ handler'.end = handler.end
  <2>1. handler' = [handler EXCEPT !.pc = "forward", !.status = "ok"] /\ "ok" \in Errs
    BY DEF PeekChunk, Errs, Reasons
  <2>2. handler' \in Handlers BY <1>0, <2>1 DEF Handlers
  <2>. QED BY <1>0, <2>1, <2>2 DEF Handlers
<1>2. conv' \in Convs /\ (conv'.pc = "none" \/ (conv'.pc = "read" /\ kind = "completions"))
  <2>1. CASE kind = "completions"
    <3>1. conv' = [conv EXCEPT !.pc = "read"] BY <2>1 DEF PeekChunk
    <3>2. conv' \in Convs BY <1>0, <3>1 DEF Convs
    <3>. QED BY <1>0, <2>1, <3>1, <3>2 DEF Convs
  <2>2. CASE kind # "completions" BY <1>0, <2>2 DEF PeekChunk
  <2>. QED BY <2>1, <2>2
<1>. QED BY <1>0, <1>1, <1>2, Delivered DEF PeekChunk

LEMMA ForwardChunkStep == ASSUME Inv, ForwardChunk PROVE Inv'
<1>0. TypeInv /\ handler \in Handlers /\ conv \in Convs /\ fwd \in Fwds /\ handler.pc = "forward" /\ conv.chunk \in Chunk
  BY DEF Inv, TypeInv, ForwardChunk, Convs
<1>1. CASE conv.pc = "none"
  BY <1>0, <1>1, Delivered DEF ForwardChunk, Full, Source
<1>2. CASE conv.pc # "none"
  <2>1. /\ conv.pc = "send" /\ got' = Append(got, conv.chunk) /\ conv' = [conv EXCEPT !.pc = "read", !.chunk = NoChunk]
        /\ UNCHANGED <<mode, kind, client, ctx, now, next, manager, up, wrap, fwd, errs, handler, calm, calls>>
    BY <1>2 DEF ForwardChunk, Full, Source
  <2>2. conv' \in Convs BY <1>0, <2>1, ChunkTypes DEF Convs
  <2>3. conv'.pc = "read" BY <1>0, <2>1 DEF Convs
  <2>4. fwd.sent /\ kind = "completions" BY <1>2 DEF Inv, Owner
  <2>5. /\ conv.chunk.call = calls.made /\ (got # <<>> => conv.chunk.no > got[Len(got)].no)
        /\ Flows => conv.chunk.no <= Passed
        /\ fwd.pc = "data" => fwd.chunk.no > conv.chunk.no
    BY <2>1 DEF Inv, Order
  <2>6. /\ got' \in Seq(Chunk) /\ got' # <<>> /\ got'[Len(got')] = conv.chunk
        /\ \A i \in DOMAIN got' : got'[i].call = calls.made /\ (i > 1 => got'[i].no > got'[i - 1].no)
    BY <1>0, <2>1, <2>5, GotAppend
  <2>7. Passed' = Passed /\ (Flows' <=> Flows) BY <2>1 DEF Passed, Flows
  <2>8. Order' BY <2>1, <2>3, <2>5, <2>6, <2>7 DEF Inv, Order
  <2>9. Counted' BY <2>1, <2>4 DEF Counted
  <2>. QED BY <1>0, <2>1, <2>2, <2>3, <2>4, <2>6, <2>8, <2>9, PassingOn
<1>. QED BY <1>1, <1>2

LEMMA LeaveStep == ASSUME Inv, Leave \/ Propagate PROVE Inv'
<1>1. /\ client' = "gone" /\ ctx' \in {"live", "cancelled"} /\ (ctx' = "live" => ctx = "live")
      /\ handler.pc = "done" => ctx' = "cancelled"
      /\ UNCHANGED <<mode, kind, now, next, manager, up, wrap, fwd, errs, conv, handler, calm, calls, got>>
  BY DEF Inv, TypeInv, Leave, Propagate, End
<1>2. TypeInv' BY <1>1 DEF Inv, TypeInv
<1>3. Owner' BY <1>1 DEF Inv, Owner
<1>4. Old' BY <1>1 DEF Inv, Old
<1>5. Shape' BY <1>1 DEF Inv, Shape, Reading, Unread
<1>6. Passed' = Passed /\ (Flows' <=> Flows) BY <1>1 DEF Passed, Flows
<1>7. Order' BY <1>1, <1>6 DEF Inv, Order
<1>8. Counted' BY <1>1, <1>6 DEF Inv, Counted
<1>9. Marks' BY <1>1 DEF Inv, Marks, Reading
<1>10. Whole' = Whole BY <1>1 DEF Whole
<1>11. End' BY <1>1, <1>10 DEF Inv, End
<1>. QED BY <1>2, <1>3, <1>4, <1>5, <1>7, <1>8, <1>9, <1>11 DEF Inv

------------------------------------------------------------------------------
(* Together *)

LEMMA InvInit == Init => Inv
<1>. SUFFICES ASSUME Init PROVE Inv OBVIOUS
<1>0. /\ client = "here" /\ ctx = "live" /\ now = 0 /\ next = [a \in Auths |-> 0] /\ manager = NoCall
      /\ up = NoStream /\ wrap = NoWrap /\ fwd = NoFwd /\ conv = NoConv /\ errs = "none" /\ got = <<>>
      /\ handler = [pc |-> "start", status |-> "none", end |-> "none"]
      /\ calls = [made |-> 0, oks |-> 0, fails |-> 0, empty |-> FALSE]
  BY DEF Init
<1>1. "none" \in Errs /\ "none" \in Reasons BY DEF Errs, Reasons
<1>2. NoStream \in Streams /\ NoWrap \in Wrappers /\ NoFwd \in Fwds /\ NoConv \in Convs
  BY <1>1, ChunkTypes DEF NoStream, NoWrap, NoFwd, NoConv, Streams, Wrappers, Fwds, Convs
<1>3. handler \in Handlers /\ calls \in Counts BY <1>0, <1>1 DEF Handlers, Counts
<1>4. TypeInv BY <1>0, <1>1, <1>2, <1>3, NoCallType DEF TypeInv
<1>5. /\ manager.pc = "idle" /\ manager.answer = "none" /\ fwd.pc = "none" /\ ~fwd.sent /\ conv.pc = "none"
      /\ handler.pc = "start" /\ handler.end = "none" /\ ~wrap.live /\ wrap.buf = <<>> /\ wrap.pc = "none"
  BY <1>0 DEF NoCall, NoFwd, NoConv, NoWrap
<1>6. Owner /\ Old BY <1>0, <1>5 DEF Owner, Old
<1>7. Shape /\ Marks BY <1>5 DEF Shape, Marks, Reading
<1>8. Order /\ Counted BY <1>0, <1>5 DEF Order, Counted, Flows
<1>9. End BY <1>0, <1>5 DEF End
<1>. QED BY <1>4, <1>6, <1>7, <1>8, <1>9 DEF Inv

LEMMA InvNext == Inv /\ [Next]_vars => Inv'
<1>. SUFFICES ASSUME Inv, [Next]_vars PROVE Inv' OBVIOUS
<1>1. CASE UNCHANGED vars
  <2>1. UNCHANGED <<kind, client, ctx, now, next, manager, up, wrap, fwd, errs, conv, handler, calls, got>>
    BY <1>1 DEF vars
  <2>2. TypeInv' /\ Owner' /\ Old' BY <2>1 DEF Inv, TypeInv, Owner, Old
  <2>3. Shape' BY <2>1 DEF Inv, Shape, Reading, Unread
  <2>4. Passed' = Passed BY <2>1 DEF Passed
  <2>5. Order' /\ Counted' BY <2>1, <2>4 DEF Inv, Order, Counted, Flows
  <2>6. Marks' BY <2>1 DEF Inv, Marks, Reading
  <2>7. End' BY <2>1 DEF Inv, End, Whole
  <2>. QED BY <2>2, <2>3, <2>5, <2>6, <2>7 DEF Inv
<1>2. CASE Manage
  BY <1>2, PickStep, NoPickStep, DecideStep, WakeStep, BootClosedStep, BootGoneStep DEF Manage
<1>3. CASE Execute BY <1>3, OpenFailsStep, OpenStep, OpenStreamStep DEF Execute
<1>4. CASE Read BY <1>4, BootPayloadStep, BootErrorStep, WrapTakeStep DEF Read
<1>5. CASE Wrapper BY <1>5, WrapGoneStep, WrapEndStep, WrapCloseStep DEF Wrapper
<1>6. CASE Forward BY <1>6, FwdReadStep, FwdReturnStep, FwdStopStep, FwdErrorStep, FwdCloseStep DEF Forward
<1>7. CASE Convert BY <1>7, ConvReadStep, ConvStopStep DEF Convert
<1>8. CASE Handle
  BY <1>8, StartStep, RespondStep, ReturnStreamStep, PeekChunkStep, ForwardChunkStep, ResponseEnds DEF Handle
<1>9. CASE StartUnknown \/ UpEnd \/ Drain \/ Leave \/ Propagate \/ Disturb \/ Tick
  BY <1>9, StartStep, UpEndStep, LeaveStep, OthersStep
<1>. QED BY <1>1, <1>2, <1>3, <1>4, <1>5, <1>6, <1>7, <1>8, <1>9 DEF Next

\* Every state is of its type: what each goroutine holds, and where it stands.
THEOREM TypeCorrect == Spec => []TypeInv
<1>1. Inv => TypeInv BY DEF Inv
<1>. QED BY <1>1, InvInit, InvNext, PTL DEF Spec

\* One whole stream (wrapStreamResult, ExecuteStreamWithAuthManager, ForwardStream): for
\* every number of credentials, models and retries and every interleaving of the five
\* goroutines, the client's chunks are those of one upstream call, in order, and a clean
\* end after a chunk is the end of a stream that was marked a success.
THEOREM OneStream == Spec => []OneWholeStream
<1>1. Inv => OneWholeStream
  <2>. SUFFICES ASSUME Inv PROVE OneWholeStream OBVIOUS
  <2>1. \A i \in DOMAIN got : got[i].call = calls.made /\ (i > 1 => got[i].no > got[i - 1].no) BY DEF Inv, Order
  <2>2. kind # "completions" => \A i \in DOMAIN got : got[i].no = i BY DEF Inv, Counted
  <2>3. got # <<>> => wrap.live BY DEF Inv, Owner
  <2>4. handler.end = "done" /\ client = "here" /\ got # <<>> => Whole BY DEF Inv, End
  <2>. QED BY <2>1, <2>2, <2>3, <2>4 DEF OneWholeStream, Whole
<1>. QED BY <1>1, InvInit, InvNext, PTL DEF Spec

------------------------------------------------------------------------------
(* The marks of upstream calls *)

\* The last upstream call is not marked yet, but for an empty stream, which the bootstrap
\* has marked and whose error is still in the wrapper.
Unmarked ==
  /\ calls.oks = 0 /\ calls.fails = IF calls.empty THEN 1 ELSE 0
  /\ calls.empty => wrap.buf # <<>> /\ wrap.buf[1].what = "error"

\* Between two calls the last one is marked; a wrapper has marked its stream when it has
\* failed, and not before.
Between  == {"pick", "open", "decide", "wait"}
Accounts ==
  /\ manager.pc \in Between /\ calls.made > 0 /\ mode # "count" => Marked
  /\ manager.pc = "boot" => ~calls.empty
  /\ manager.pc \in {"open", "boot"} => manager.left >= 1
  /\ handler.pc = "start" => calls.made = 0
  /\ Reading => /\ wrap.pc = "take" => ~wrap.failed
                /\ wrap.pc = "emit" /\ wrap.failed => wrap.chunk.what = "error" /\ Marked
                /\ wrap.pc \in {"take", "emit"} /\ ~wrap.failed => Unmarked

\* The property is about one step of the Manager, so the lemmas are about every other too.
Fair == calls'.made # calls.made /\ calls.made > 0 /\ mode # "count" => Marked

\* The Manager moves on, while nobody reads a stream.
LEMMA ManagerAccounts ==
  ASSUME Inv, Accounts, manager.pc # "idle", UNCHANGED <<mode, wrap, fwd, handler>>, manager'.answer # "stream",
         manager'.pc \in Between /\ calls'.made > 0 /\ mode # "count" => Marked',
         manager'.pc = "boot" => ~calls'.empty, manager'.pc \in {"open", "boot"} => manager'.left >= 1
  PROVE  Accounts'
<1>1. fwd.pc \in {"none", "call"} /\ handler.pc # "start" BY DEF Inv, Owner
<1>2. ~Reading' BY <1>1 DEF Reading
<1>. QED BY <1>1, <1>2 DEF Accounts

\* A step that marks nothing, opens nothing and leaves the wrapper alone.
LEMMA QuietAccounts ==
  ASSUME Accounts, UNCHANGED <<mode, calls, wrap>>, manager' = manager \/ manager'.pc = "idle",
         Reading' => Reading, handler'.pc = "start" => handler.pc = "start"
  PROVE  Accounts'
<1>1. Unmarked' = Unmarked /\ Marked' = Marked BY DEF Unmarked, Marked
<1>. QED BY <1>1 DEF Accounts, Between

LEMMA OneFailure ==
  ASSUME NEW n, NewCall(0, n)
  PROVE  calls'.empty = FALSE /\ (n = 1 => Marked') /\ calls'.fails = n /\ calls'.oks = 0
<1>1. calls' = [made |-> calls.made + 1, oks |-> 0, fails |-> n, empty |-> FALSE] BY DEF NewCall
<1>2. calls'.empty = FALSE /\ calls'.fails = n /\ calls'.oks = 0 BY <1>1
<1>. QED BY <1>2 DEF Marked

LEMMA NextModelLeft ==
  ASSUME TypeInv, NEW e, NextModel(e)
  PROVE  manager'.pc \in {"open", "pick"} /\ (manager'.pc = "open" => manager'.left >= 1)
         /\ manager'.answer = manager.answer
<1>1. manager \in Managers BY DEF TypeInv
<1>2. manager' = [manager EXCEPT !.pc = IF manager.left > 1 THEN "open" ELSE "pick", !.left = manager.left - 1,
                                 !.last = e, !.buf = <<>>]
  BY DEF NextModel
<1>3. /\ manager'.pc = IF manager.left > 1 THEN "open" ELSE "pick"
      /\ manager'.left = manager.left - 1 /\ manager'.answer = manager.answer
  BY <1>1, <1>2 DEF Managers
<1>4. manager.left \in Int BY <1>1 DEF Managers
<1>. QED BY <1>3, <1>4

LEMMA MarkFailureMarks ==
  ASSUME TypeInv, NEW a, NEW e, NEW hinted, MarkFailure(a, e, hinted)
  PROVE  calls'.oks = calls.oks /\ calls'.fails = calls.fails + 1 /\ calls'.empty = calls.empty
<1>1. calls \in Counts /\ calls' = [calls EXCEPT !.fails = calls.fails + 1] BY DEF TypeInv, MarkFailure
<1>. QED BY <1>1 DEF Counts

LEMMA OpenAccounts ==
  ASSUME Inv, Accounts, (\E e \in Errors : OpenFails(e)) \/ OpenAnswers \/ OpenCounts \/ OpenStream
  PROVE  Accounts' /\ Fair
<1>0. TypeInv /\ manager \in Managers /\ manager.pc = "open" /\ manager.answer = "none"
  BY DEF Inv, TypeInv, Owner, OpenFails, OpenAnswers, OpenCounts, OpenStream
<1>1. Fair BY <1>0 DEF Accounts, Between, Fair
<1>2. ASSUME NEW e \in Errors, OpenFails(e) PROVE Accounts'
  <2>0. manager.left >= 1 BY <1>0 DEF Accounts
  <2>1. UNCHANGED <<mode, wrap, fwd, handler>> BY <1>2 DEF OpenFails
  <2>2. CASE ctx = "cancelled"
    <3>1. Answer("cancelled") /\ "cancelled" \in Errs BY <1>2, <2>2 DEF OpenFails, Errs, Reasons
    <3>2. manager'.pc = "idle" /\ manager'.answer = "cancelled" BY <1>0, <3>1, AnswerEffect
    <3>. QED BY <1>0, <2>1, <3>2, ManagerAccounts DEF Between
  <2>3. CASE ctx # "cancelled"
    <3>1. mode # "count" => Marked'
      <4>1. mode # "count" => NewCall(0, 1) BY <1>2, <2>3 DEF OpenFails
      <4>. QED BY <4>1, OneFailure
    <3>2. CASE manager' = [manager EXCEPT !.pc = "decide", !.last = e]
      <4>1. manager'.pc = "decide" /\ manager'.answer = "none" BY <1>0, <3>2 DEF Managers
      <4>. QED BY <1>0, <2>1, <3>1, <4>1, ManagerAccounts
    <3>3. CASE NextModel(e)
      <4>1. /\ manager'.pc \in {"open", "pick"} /\ manager'.answer = "none"
            /\ manager'.pc = "open" => manager'.left >= 1
        BY <1>0, <3>3, NextModelLeft
      <4>. QED BY <1>0, <2>1, <3>1, <4>1, ManagerAccounts
    <3>. QED BY <1>2, <2>3, <3>2, <3>3 DEF OpenFails
  <2>. QED BY <2>2, <2>3
<1>3. CASE OpenAnswers \/ OpenCounts
  <2>1. Answer("ok") /\ "ok" \in Errs BY <1>3 DEF OpenAnswers, OpenCounts, Errs, Reasons
  <2>2. manager'.pc = "idle" /\ manager'.answer = "ok" BY <1>0, <2>1, AnswerEffect
  <2>3. UNCHANGED <<mode, wrap, fwd, handler>> BY <1>3 DEF OpenAnswers, OpenCounts
  <2>4. manager'.pc \notin Between /\ manager'.pc \notin {"boot", "open"} /\ manager'.answer # "stream"
    BY <2>2 DEF Between
  <2>. QED BY <1>0, <1>1, <2>3, <2>4, ManagerAccounts
<1>4. CASE OpenStream
  <2>1. manager' = [manager EXCEPT !.pc = "boot"] BY <1>4 DEF OpenStream
  <2>2. manager'.pc = "boot" /\ manager'.answer = "none" /\ manager'.left = manager.left
    BY <1>0, <2>1 DEF Managers
  <2>3. calls'.empty = FALSE BY <1>4, OneFailure DEF OpenStream
  <2>4. manager.left >= 1 BY <1>0 DEF Accounts
  <2>5. UNCHANGED <<mode, wrap, fwd, handler>> BY <1>4 DEF OpenStream
  <2>6. manager'.pc \notin Between /\ manager'.answer # "stream" /\ manager'.left >= 1 BY <1>0, <2>2, <2>4 DEF Between
  <2>. QED BY <1>0, <1>1, <2>3, <2>5, <2>6, ManagerAccounts
<1>. QED BY <1>1, <1>2, <1>3, <1>4

\* The Manager between two calls.
LEMMA ManageAccounts ==
  ASSUME Inv, Accounts, Pick \/ NoPick \/ Decide \/ Wake \/ BootGone \/ Disturb \/ Tick
  PROVE  Accounts'
<1>0. TypeInv /\ manager \in Managers /\ manager.pc # "idle" /\ manager.answer = "none"
  BY DEF Inv, TypeInv, Owner, Pick, NoPick, Decide, Wake, BootGone, Disturb, Tick, Looking
<1>1. UNCHANGED <<mode, wrap, fwd, handler, calls>>
  BY DEF Pick, NoPick, Decide, Wake, BootGone, Disturb, Tick
<1>2. Marked' = Marked BY <1>1 DEF Marked
<1>3. manager.pc # "boot" => manager.pc \in Between BY <1>0 DEF Managers, Between
<1>4. CASE Pick
  <2>1. PICK a \in Auths : manager' = [manager EXCEPT !.pc = "open", !.auth = a,
                                       !.tried = manager.tried \cup {a}, !.left = PoolSize[a]]
    BY <1>4 DEF Pick, Ready
  <2>2. PoolSize[a] >= 1 BY StreamAssumption
  <2>3. manager'.pc = "open" /\ manager'.left = PoolSize[a] /\ manager'.answer = manager.answer
    BY <1>0, <2>1 DEF Managers
  <2>. QED BY <1>0, <1>1, <1>2, <1>3, <1>4, <2>2, <2>3, ManagerAccounts DEF Accounts, Pick
<1>5. ASSUME \/ \E l \in {"decide", "wait"} : manager'.pc = l /\ manager'.answer = manager.answer
             \/ manager'.pc \in {"pick", "idle"} /\ manager'.answer # "stream",
             manager'.pc # "idle" => manager.pc # "boot"
      PROVE  Accounts'
  BY <1>0, <1>1, <1>2, <1>3, <1>5, ManagerAccounts DEF Accounts, Between
<1>6. CASE NoPick
  <2>1. PICK e : manager' = [manager EXCEPT !.pc = "decide", !.last = e] BY <1>6 DEF NoPick
  <2>2. manager'.pc = "decide" /\ manager'.answer = manager.answer BY <1>0, <2>1 DEF Managers
  <2>. QED BY <1>5, <1>6, <2>2 DEF NoPick
<1>7. CASE Decide
  <2>1. CASE Answer(manager.last)
    <3>1. manager.last \in Errs /\ manager.last # "stream" BY <1>0, ErrTypes DEF Errs, Managers
    <3>2. manager'.pc = "idle" /\ manager'.answer = manager.last BY <1>0, <2>1, <3>1, AnswerEffect
    <3>. QED BY <1>5, <3>1, <3>2
  <2>2. ASSUME NEW w, manager' = [manager EXCEPT !.pc = "wait", !.wake = w] PROVE Accounts'
    <3>1. manager'.pc = "wait" /\ manager'.answer = manager.answer BY <1>0, <2>2 DEF Managers
    <3>. QED BY <1>5, <1>7, <3>1 DEF Decide
  <2>. QED BY <1>7, <2>1, <2>2 DEF Decide
<1>8. CASE Wake
  <2>1. CASE Answer("cancelled")
    <3>1. manager'.pc = "idle" /\ manager'.answer = "cancelled" BY <1>0, <2>1, AnswerEffect DEF Errs, Reasons
    <3>. QED BY <1>5, <3>1
  <2>2. CASE manager' = [NoCall EXCEPT !.pc = "pick", !.by = manager.by, !.attempt = manager.attempt + 1]
    <3>1. manager'.pc = "pick" /\ manager'.answer = "none" BY <2>2 DEF NoCall
    <3>. QED BY <1>5, <1>8, <3>1 DEF Wake
  <2>. QED BY <1>8, <2>1, <2>2 DEF Wake
<1>9. CASE BootGone
  <2>1. Answer("cancelled") /\ "cancelled" \in Errs BY <1>9 DEF BootGone, Errs, Reasons
  <2>2. manager'.pc = "idle" /\ manager'.answer = "cancelled" BY <1>0, <2>1, AnswerEffect
  <2>. QED BY <1>5, <2>2
<1>10. CASE Disturb \/ Tick
  <2>1. manager.pc \in {"pick", "decide", "wait"} /\ manager' = manager BY <1>10 DEF Disturb, Tick, Looking
  <2>. QED BY <1>0, <1>5, <2>1
<1>. QED BY <1>4, <1>6, <1>7, <1>8, <1>9, <1>10

\* A wrapper begins with an unmarked stream.
LEMMA WrappedAccounts ==
  ASSUME Inv, Accounts, UNCHANGED <<mode, fwd, handler>>, manager.pc = "boot",
         manager'.pc = "idle", wrap'.pc = "take", ~wrap'.failed, Unmarked'
  PROVE  Accounts'
<1>1. handler.pc # "start" BY DEF Inv, Owner
<1>. QED BY <1>1 DEF Accounts, Between

LEMMA BootAccounts ==
  ASSUME Inv, Accounts, BootPayload \/ BootError \/ BootClosed
  PROVE  Accounts' /\ calls'.made = calls.made
<1>0. /\ TypeInv /\ manager \in Managers /\ calls \in Counts /\ manager.pc = "boot" /\ manager.answer = "none"
      /\ calls.oks = 0 /\ calls.fails = 0 /\ calls.empty = FALSE /\ manager.left >= 1 /\ manager.left \in Int
      /\ manager.buf \in Seq(Chunk)
  BY DEF Inv, TypeInv, Old, Owner, Accounts, Managers, Counts, BootPayload, BootError, BootClosed
<1>1. UNCHANGED <<mode, fwd, handler>> BY DEF BootPayload, BootError, BootClosed
<1>2. ASSUME NEW buf \in Seq(Chunk), NEW live \in BOOLEAN, Wrap(buf, live), calls' = calls PROVE Accounts'
  <2>1. wrap'.pc = "take" /\ ~wrap'.failed /\ manager'.pc = "idle" BY <1>0, <1>2, WrapEffect
  <2>2. Unmarked' BY <1>0, <1>2 DEF Unmarked
  <2>. QED BY <1>0, <1>1, <2>1, <2>2, WrappedAccounts
<1>3. ASSUME UNCHANGED wrap, Marked', manager'.pc \in {"idle", "decide", "open", "pick"}, manager'.answer # "stream",
             manager'.pc = "open" => manager'.left >= 1
      PROVE  Accounts'
  BY <1>0, <1>1, <1>3, ManagerAccounts DEF Between
<1>4. CASE BootPayload
  <2>0. calls' = calls BY <1>4 DEF BootPayload
  <2>1. ASSUME NEW c \in Offers, Wrap(Append(manager.buf, c), TRUE) PROVE Accounts'
    <3>1. c \in Chunk BY <1>0, OffersEffect
    <3>2. Append(manager.buf, c) \in Seq(Chunk) BY <1>0, <3>1
    <3>. QED BY <1>2, <2>0, <2>1, <3>2
  <2>2. CASE manager' = [manager EXCEPT !.buf = <<Empty>>] /\ UNCHANGED wrap
    <3>1. manager'.pc = "boot" /\ manager'.answer = "none" /\ manager'.left = manager.left
      BY <1>0, <2>2 DEF Managers
    <3>. QED BY <1>0, <1>1, <2>0, <2>2, <3>1, ManagerAccounts DEF Between
  <2>. QED BY <1>4, <2>0, <2>1, <2>2 DEF BootPayload
<1>5. CASE BootError
  <2>1. PICK c \in Offers : /\ c.what = "error"
         /\ \/ ctx = "cancelled" /\ Answer("cancelled") /\ UNCHANGED <<next, calls, wrap>>
            \/ /\ MarkFailure(manager.auth, c.error, TRUE) /\ UNCHANGED wrap
               /\ \/ manager' = [manager EXCEPT !.pc = "decide", !.last = c.error]
                  \/ NextModel(c.error)
            \/ Wrap(<<c>>, FALSE) /\ UNCHANGED <<next, calls>>
    BY <1>5 DEF BootError
  <2>2. CASE ctx = "cancelled" /\ Answer("cancelled") /\ UNCHANGED <<next, calls, wrap>>
    <3>1. manager'.pc = "idle" /\ manager'.answer = "cancelled" BY <1>0, <2>2, AnswerEffect DEF Errs, Reasons
    <3>. QED BY <1>0, <1>1, <2>2, <3>1, ManagerAccounts DEF Between
  <2>3. CASE MarkFailure(manager.auth, c.error, TRUE) /\ UNCHANGED wrap
    <3>1. calls'.oks = 0 /\ calls'.fails = 1 /\ calls'.empty = FALSE /\ calls'.made = calls.made
      <4>1. calls'.oks = calls.oks /\ calls'.fails = calls.fails + 1 /\ calls'.empty = calls.empty
        BY <1>0, <2>3, MarkFailureMarks
      <4>2. calls'.made = calls.made BY <1>0, <2>3, MarkEffect
      <4>. QED BY <1>0, <4>1, <4>2
    <3>2. Marked' BY <3>1 DEF Marked
    <3>3. CASE manager' = [manager EXCEPT !.pc = "decide", !.last = c.error]
      <4>1. manager'.pc = "decide" /\ manager'.answer = "none" BY <1>0, <3>3 DEF Managers
      <4>. QED BY <1>3, <2>3, <3>1, <3>2, <4>1
    <3>4. CASE NextModel(c.error)
      <4>1. /\ manager'.pc \in {"open", "pick"} /\ manager'.answer = "none"
            /\ manager'.pc = "open" => manager'.left >= 1
        BY <1>0, <3>4, NextModelLeft
      <4>. QED BY <1>3, <2>3, <3>1, <3>2, <4>1
    <3>5. CASE Wrap(<<c>>, FALSE) /\ UNCHANGED <<next, calls>>
      BY <1>0, <3>1, <3>5
    <3>6. CASE ctx = "cancelled" /\ UNCHANGED <<next, calls, wrap>> BY <1>0, <3>1, <3>6
    <3>. QED BY <2>1, <3>3, <3>4, <3>5, <3>6
  <2>4. CASE Wrap(<<c>>, FALSE) /\ UNCHANGED <<next, calls>>
    <3>1. <<c>> \in Seq(Chunk)
      <4>1. c \in Chunk BY <1>0, OffersEffect
      <4>. QED BY <4>1
    <3>. QED BY <1>2, <2>4, <3>1
  <2>. QED BY <2>1, <2>2, <2>3, <2>4
<1>6. CASE BootClosed
  <2>1. CASE manager.buf # <<>> BY <1>0, <1>2, <1>6, <2>1 DEF BootClosed
  <2>2. CASE manager.buf = <<>>
    <3>1. calls' = [calls EXCEPT !.fails = calls.fails + 1, !.empty = manager.left = 1] BY <1>6, <2>2 DEF BootClosed
    <3>2. PICK empty \in BOOLEAN : empty = (manager.left = 1) OBVIOUS
    <3>3. calls' = [calls EXCEPT !.fails = calls.fails + 1, !.empty = empty] /\ (empty <=> manager.left = 1)
      BY <3>1, <3>2
    <3>4. calls'.made = calls.made /\ calls'.oks = 0 /\ calls'.fails = 1 /\ calls'.empty = empty
      BY <1>0, <3>3 DEF Counts
    <3>5. CASE manager.left > 1
      <4>1. NextModel("empty") /\ UNCHANGED wrap BY <1>6, <2>2, <3>5 DEF BootClosed
      <4>2. /\ manager'.pc \in {"open", "pick"} /\ manager'.answer = "none"
            /\ manager'.pc = "open" => manager'.left >= 1
        BY <1>0, <4>1, NextModelLeft
      <4>3. ~empty BY <3>3, <3>5
      <4>4. Marked' BY <3>4, <4>3 DEF Marked
      <4>. QED BY <1>3, <3>4, <4>1, <4>2, <4>4
    <3>6. CASE ~(manager.left > 1)
      <4>1. Wrap(<<Failure("empty")>>, FALSE) BY <1>6, <2>2, <3>6 DEF BootClosed
      <4>2. Failure("empty") \in Chunk /\ Failure("empty").what = "error" BY ChunkTypes DEF Reasons, Failure
      <4>3. PICK buf \in Seq(Chunk) : buf = <<Failure("empty")>> /\ buf # <<>> /\ buf[1].what = "error"
        <5>1. <<Failure("empty")>> \in Seq(Chunk) BY <4>2
        <5>. QED BY <4>2, <5>1
      <4>4. wrap'.pc = "take" /\ ~wrap'.failed /\ manager'.pc = "idle" /\ wrap'.buf = buf
        BY <1>0, <4>1, <4>3, WrapEffect
      <4>5. empty BY <1>0, <3>3, <3>6
      <4>6. Unmarked' BY <3>4, <4>3, <4>4, <4>5 DEF Unmarked
      <4>. QED BY <1>0, <1>1, <3>4, <4>4, <4>6, WrappedAccounts
    <3>. QED BY <3>5, <3>6
  <2>. QED BY <2>1, <2>2
<1>. QED BY <1>4, <1>5, <1>6

\* The wrapper marks its stream when it takes an error, or at its end.
LEMMA WrapAccounts ==
  ASSUME Inv, Accounts, WrapTake \/ WrapGone \/ WrapEnd \/ WrapClose
  PROVE  Accounts' /\ calls'.made = calls.made
<1>0. TypeInv /\ wrap \in Wrappers /\ calls \in Counts BY DEF Inv, TypeInv
<1>1. UNCHANGED <<mode, manager, fwd, handler>> BY DEF WrapTake, WrapGone, WrapEnd, WrapClose
<1>2. Reading' = Reading BY <1>1 DEF Reading
<1>3. manager.pc # "idle" => calls' = calls
  <2>. SUFFICES ASSUME manager.pc # "idle" PROVE calls' = calls OBVIOUS
  <2>1. ~wrap.live /\ wrap.buf = <<>> /\ wrap.pc # "emit" /\ (wrap.pc = "take" => wrap.failed) BY DEF Inv, Old
  <2>2. ~WrapTake BY <2>1 DEF WrapTake
  <2>. QED BY <2>1, <2>2 DEF WrapGone, WrapEnd, WrapClose
<1>4. handler.pc # "start"
  <2>1. handler.pc = "start" => ~wrap.live /\ wrap.buf = <<>> /\ wrap.pc = "none" BY DEF Inv, Old
  <2>. QED BY <2>1 DEF WrapTake, WrapGone, WrapEnd, WrapClose
<1>5. ASSUME Reading' =>
               /\ wrap'.pc = "take" => ~wrap'.failed
               /\ wrap'.pc = "emit" /\ wrap'.failed => wrap'.chunk.what = "error" /\ Marked'
               /\ wrap'.pc \in {"take", "emit"} /\ ~wrap'.failed => Unmarked'
      PROVE  Accounts'
  <2>1. manager.pc # "idle" => (Marked' <=> Marked) BY <1>3 DEF Marked
  <2>. QED BY <1>1, <1>3, <1>4, <1>5, <2>1 DEF Accounts, Between
<1>6. CASE WrapTake
  <2>1. PICK c \in Chunk :
           /\ wrap' \in Wrappers /\ wrap'.pc = "emit" /\ wrap'.chunk = c /\ wrap'.live = wrap.live
           /\ wrap'.failed <=> wrap.failed \/ c.what = "error"
           /\ up' \in Streams /\ next' \in [Auths -> Int] /\ calls' \in Counts /\ calls'.made = calls.made
           /\ c.what # "error" \/ wrap.failed => calls' = calls
           /\ \/ wrap.buf # <<>> /\ c = wrap.buf[1] /\ wrap'.buf = Tail(wrap.buf) /\ up' = up
              \/ /\ wrap.buf = <<>> /\ wrap.live /\ wrap'.buf = <<>>
                 /\ c.what = "payload" => c = Payload(calls.made, up.sent + 1) /\ up'.sent = up.sent + 1
                 /\ c.what # "payload" => Fails(c) /\ up'.sent = up.sent
    BY <1>6, WrapTakeEffect
  <2>2. ASSUME Reading PROVE /\ c.what = "error" => Marked'
                             /\ ~wrap.failed
                             /\ c.what # "error" => Unmarked'
    <3>1. wrap.pc = "take" BY <1>6 DEF WrapTake
    <3>2. ~wrap.failed /\ Unmarked BY <2>2, <3>1 DEF Accounts
    <3>3. CASE c.what = "error"
      <4>1. PICK e, a : MarkFailure(a, e, FALSE)
        <5>1. PICK d : /\ d = c
                       /\ d.what = "error" /\ ~wrap.failed => MarkFailure(wrap.auth, d.error, FALSE)
          <6>1. PICK d : /\ wrap' = [wrap EXCEPT !.pc = "emit", !.chunk = d,
                                       !.buf = IF wrap.buf # <<>> THEN Tail(wrap.buf) ELSE wrap.buf,
                                       !.failed = wrap.failed \/ d.what = "error"]
                         /\ d.what = "error" /\ ~wrap.failed => MarkFailure(wrap.auth, d.error, FALSE)
            BY <1>6 DEF WrapTake
          <6>2. wrap'.chunk = d BY <1>0, <6>1 DEF Wrappers
          <6>. QED BY <2>1, <6>1, <6>2
        <5>. QED BY <3>2, <3>3, <5>1
      <4>2. calls'.oks = calls.oks /\ calls'.fails = calls.fails + 1 /\ calls'.empty = calls.empty
        BY <1>0, <4>1, MarkFailureMarks
      <4>3. Marked' BY <3>2, <4>2 DEF Unmarked, Marked
      <4>. QED BY <3>2, <3>3, <4>3
    <3>4. CASE c.what # "error"
      <4>1. calls' = calls /\ ~calls.empty BY <2>1, <3>2, <3>4 DEF Unmarked
      <4>. QED BY <3>2, <3>4, <4>1 DEF Unmarked
    <3>. QED BY <3>3, <3>4
  <2>. QED BY <1>2, <1>5, <2>1, <2>2
<1>7. CASE WrapGone \/ WrapEnd \/ WrapClose
  <2>1. PICK l \in {"close", "closed"} : wrap'.pc = l
    <3>1. CASE WrapGone
      <4>1. wrap' = [wrap EXCEPT !.pc = "close", !.buf = <<>>, !.chunk = NoChunk] BY <3>1 DEF WrapGone
      <4>. QED BY <1>0, <4>1 DEF Wrappers
    <3>2. CASE WrapEnd
      <4>1. wrap' = [wrap EXCEPT !.pc = "close"] BY <3>2 DEF WrapEnd
      <4>. QED BY <1>0, <4>1 DEF Wrappers
    <3>3. CASE WrapClose
      <4>1. wrap' = [wrap EXCEPT !.pc = "closed"] BY <3>3 DEF WrapClose
      <4>. QED BY <1>0, <4>1 DEF Wrappers
    <3>. QED BY <1>7, <3>1, <3>2, <3>3
  <2>2. calls'.made = calls.made
    <3>1. CASE WrapEnd
      <4>1. calls' = calls \/ MarkSuccess(wrap.auth) BY <3>1 DEF WrapEnd
      <4>. QED BY <1>0, <4>1, SuccessEffect
    <3>2. CASE WrapGone \/ WrapClose BY <3>2 DEF WrapGone, WrapClose
    <3>. QED BY <1>7, <3>1, <3>2
  <2>. QED BY <1>5, <2>1, <2>2
<1>. QED BY <1>6, <1>7

\* The forwarder reads: an error that calls the Manager again is a marked one.
LEMMA FwdReadAccounts == ASSUME Inv, Accounts, FwdRead PROVE Accounts'
<1>0. TypeInv /\ wrap \in Wrappers /\ fwd \in Fwds /\ fwd.pc = "read" /\ wrap.pc = "emit" /\ Reading
  BY DEF Inv, TypeInv, FwdRead, Reading
<1>1. UNCHANGED <<mode, calls, handler>> BY DEF FwdRead
<1>2. wrap'.pc = "take" /\ wrap'.buf = wrap.buf /\ wrap'.failed = wrap.failed
  <2>1. wrap' = [wrap EXCEPT !.pc = "take", !.chunk = NoChunk] BY DEF FwdRead
  <2>. QED BY <1>0, <2>1 DEF Wrappers
<1>3. handler.pc # "start" /\ manager.pc = "idle" /\ manager.answer = "none" BY <1>0, ManagerRests
<1>4. CASE wrap.chunk.what = "error" /\ Call("forwarder") /\ fwd' = [fwd EXCEPT !.pc = "call", !.retries = fwd.retries + 1]
  <2>1. manager'.pc = "pick" /\ manager'.answer = "none" BY <1>4, CallEffect
  <2>2. fwd'.pc = "call" BY <1>0, <1>4 DEF Fwds
  <2>3. wrap.failed BY <1>0, <1>4 DEF Inv, Shape
  <2>4. Marked' BY <1>0, <1>1, <2>3 DEF Accounts, Marked
  <2>. QED BY <1>1, <1>3, <2>1, <2>2, <2>4 DEF Accounts, Reading
<1>5. CASE UNCHANGED manager /\ wrap.chunk.what # "error"
  <2>1. ~wrap.failed /\ Unmarked BY <1>0, <1>5 DEF Accounts
  <2>2. Unmarked' BY <1>1, <1>2, <2>1 DEF Unmarked
  <2>. QED BY <1>1, <1>2, <1>3, <1>5, <2>1, <2>2 DEF Accounts, Between
<1>6. ASSUME UNCHANGED manager, NEW e, fwd' = [fwd EXCEPT !.pc = "err", !.error = e] PROVE Accounts'
  <2>1. fwd'.pc = "err" BY <1>0, <1>6 DEF Fwds
  <2>. QED BY <1>1, <1>3, <1>6, <2>1 DEF Accounts, Between, Reading
<1>. QED BY <1>4, <1>5, <1>6 DEF FwdRead

LEMMA AccountsNext == ASSUME Inv, Accounts, [Next]_vars PROVE Accounts' /\ Fair
<1>0. fwd \in Fwds /\ handler \in Handlers BY DEF Inv, TypeInv
<1>1. CASE Execute BY <1>1, OpenAccounts DEF Execute
<1>2. CASE Pick \/ NoPick \/ Decide \/ Wake \/ BootGone \/ Disturb \/ Tick
  <2>1. calls' = calls BY <1>2 DEF Pick, NoPick, Decide, Wake, BootGone, Disturb, Tick
  <2>. QED BY <1>2, <2>1, ManageAccounts DEF Fair
<1>3. CASE BootPayload \/ BootError \/ BootClosed BY <1>3, BootAccounts DEF Fair
<1>4. CASE WrapTake \/ Wrapper BY <1>4, WrapAccounts DEF Wrapper, Fair
<1>5. CASE FwdRead
  <2>1. calls' = calls BY <1>5 DEF FwdRead
  <2>. QED BY <1>5, <2>1, FwdReadAccounts DEF Fair
<1>6. CASE Start
  <2>1. calls.made = 0 /\ calls' = calls /\ handler'.pc = "call" /\ fwd.pc = "none" /\ fwd' = fwd
    BY <1>0, <1>6 DEF Start, Accounts, Handlers, Inv, Owner
  <2>2. manager'.pc = "pick" /\ manager'.answer = "none" BY <1>6, CallEffect DEF Start
  <2>3. ~Reading' BY <2>1, <2>2 DEF Reading
  <2>. QED BY <2>1, <2>2, <2>3 DEF Accounts, Fair
<1>7. ASSUME UNCHANGED <<mode, calls, wrap>>, manager' = manager \/ manager'.pc = "idle", Reading' => Reading,
             handler'.pc = "start" => handler.pc = "start"
      PROVE  Accounts' /\ Fair
  BY <1>7, QuietAccounts DEF Fair
<1>8. CASE StartUnknown
  <2>1. manager' = [NoCall EXCEPT !.by = "handler", !.answer = "unknown"] BY <1>8 DEF StartUnknown
  <2>2. manager'.pc = "idle" /\ manager'.answer = "unknown" BY <2>1 DEF NoCall
  <2>. QED BY <1>7, <1>8, <2>2 DEF StartUnknown, Reading
<1>9. CASE FwdReturn
  <2>1. manager'.pc = "idle" /\ manager'.answer = "none" BY <1>9, NoCallFacts DEF FwdReturn
  <2>2. manager.answer # "stream" => fwd'.pc = "err"
    <3>1. manager.answer # "stream" => fwd' = [fwd EXCEPT !.pc = "err", !.error = manager.answer]
      BY <1>9 DEF FwdReturn
    <3>. QED BY <1>0, <3>1 DEF Fwds
  <2>. QED BY <1>7, <1>9, <2>1, <2>2 DEF FwdReturn, Reading
<1>10. CASE ReturnStream
  <2>1. manager'.pc = "idle" /\ manager'.answer = "none" BY <1>10, NoCallFacts DEF ReturnStream
  <2>2. handler'.pc = "peek" BY <1>0, <1>10 DEF ReturnStream, Handlers
  <2>3. manager.answer # "stream" => fwd' = fwd BY <1>10 DEF ReturnStream
  <2>. QED BY <1>7, <1>10, <2>1, <2>2, <2>3 DEF ReturnStream, Reading
<1>11. CASE ReturnPlain \/ ReturnCount
  <2>1. Respond BY <1>11 DEF ReturnPlain, ReturnCount
  <2>2. manager'.pc = "idle" /\ manager'.answer = "none" BY <2>1, NoCallFacts DEF Respond
  <2>3. handler'.pc = "done" BY <2>1 DEF Respond, Finish
  <2>. QED BY <1>7, <2>1, <2>2, <2>3 DEF Respond, Reading
<1>12. CASE FwdStop \/ FwdError \/ FwdClose
  <2>1. PICK l \in {"close", "exit"} : fwd'.pc = l BY <1>0, <1>12 DEF FwdStop, FwdError, FwdClose, Fwds
  <2>. QED BY <1>7, <1>12, <2>1 DEF FwdStop, FwdError, FwdClose, Reading
<1>13. CASE ConvRead \/ PeekChunk \/ ForwardChunk
  <2>1. fwd' = fwd \/ (fwd.pc = "data" /\ fwd'.pc = "read")
    BY <1>0, <1>13 DEF ConvRead, PeekChunk, ForwardChunk, Full, Fwds
  <2>2. handler' = handler \/ handler'.pc = "forward" BY <1>0, <1>13 DEF ConvRead, PeekChunk, ForwardChunk, Handlers
  <2>. QED BY <1>7, <1>13, <2>1, <2>2 DEF ConvRead, PeekChunk, ForwardChunk, Reading
<1>14. CASE PeekError \/ PeekClosed \/ ForwardError \/ ForwardEnd \/ HandlerGone
  <2>1. handler'.pc = "done" BY <1>14 DEF PeekError, PeekClosed, ForwardError, ForwardEnd, HandlerGone, Finish
  <2>. QED BY <1>7, <1>14, <2>1 DEF PeekError, PeekClosed, ForwardError, ForwardEnd, HandlerGone, Reading
<1>15. CASE ConvStop \/ UpEnd \/ Drain \/ Leave \/ Propagate
  BY <1>7, <1>15 DEF ConvStop, UpEnd, Drain, Leave, Propagate, Reading
<1>16. CASE UNCHANGED vars BY <1>7, <1>16 DEF vars, Reading
<1>. QED BY <1>1, <1>2, <1>3, <1>4, <1>5, <1>6, <1>8, <1>9, <1>10, <1>11, <1>12, <1>13, <1>14, <1>15, <1>16
         DEF Next, Manage, Read, Forward, Convert, Handle

LEMMA AccountsInit == Init => Accounts
<1>. SUFFICES ASSUME Init PROVE Accounts OBVIOUS
<1>1. manager.pc = "idle" /\ manager.answer = "none" /\ fwd.pc = "none" /\ calls.made = 0
  BY DEF Init, NoCall, NoFwd
<1>. QED BY <1>1 DEF Accounts, Between, Reading

\* Every upstream call of Execute and ExecuteStream is marked exactly once before the next
\* (MarkResult in conductor.go: by the bootstrap or by the wrapper), but an empty stream of
\* the last model, which is marked twice: for all pools, limits, errors and retries.
THEOREM MarkedOnce == Spec => Accounted
<1>1. Inv /\ Accounts /\ [Next]_vars => [calls'.made # calls.made /\ calls.made > 0 /\ mode # "count" => Marked]_vars
  BY AccountsNext DEF Fair
<1>2. Inv /\ Accounts /\ [Next]_vars => Accounts' BY AccountsNext
<1>. QED BY <1>1, <1>2, InvInit, InvNext, AccountsInit, PTL DEF Spec, Accounted

------------------------------------------------------------------------------
(* The wait for a cooldown *)

\* The timer does not end before the cooldown it was set for, unless another request has
\* moved that since.
Awaited ==
  /\ calm \in Int /\ calm <= Disturbances
  /\ manager.pc = "wait" /\ calm = Disturbances => \E a \in Auths : next[a] <= manager.wake

Rewarded == manager.pc = "wait" /\ manager'.pc = "pick" /\ calm = Disturbances => Ready' # {}

LEMMA AwaitedNext == ASSUME Inv, Awaited, [Next]_vars PROVE Awaited' /\ Rewarded
<1>0. TypeInv /\ manager \in Managers BY DEF Inv, TypeInv
<1>1. CASE Decide
  <2>1. calm' = calm /\ manager.pc = "decide" /\ next' = next BY <1>1 DEF Decide
  <2>2. CASE Answer(manager.last)
    <3>1. manager'.pc = "idle" BY <2>2 DEF Answer, NoCall
    <3>. QED BY <2>1, <3>1 DEF Awaited, Rewarded
  <2>3. ASSUME NEW w \in Waits, manager' = [manager EXCEPT !.pc = "wait", !.wake = now + w] PROVE Awaited' /\ Rewarded
    <3>1. PICK a \in Auths : w = next[a] - now BY DEF Waits
    <3>2. next[a] \in Int /\ now \in Nat BY <1>0 DEF TypeInv
    <3>3. manager'.wake = now + w /\ manager'.pc = "wait" BY <1>0, <2>3 DEF Managers
    <3>4. next[a] <= manager'.wake BY <3>1, <3>2, <3>3
    <3>. QED BY <2>1, <3>3, <3>4 DEF Awaited, Rewarded
  <2>. QED BY <1>1, <2>2, <2>3 DEF Decide
<1>2. CASE Wake
  <2>1. CASE now >= manager.wake
             /\ manager' = [NoCall EXCEPT !.pc = "pick", !.by = manager.by, !.attempt = manager.attempt + 1]
    <3>1. manager'.pc = "pick" /\ manager'.tried = {} BY <2>1 DEF NoCall
    <3>2. calm' = calm /\ next' = next /\ now' = now /\ manager.pc = "wait" BY <1>2 DEF Wake
    <3>3. ASSUME calm = Disturbances PROVE Ready' # {}
      <4>1. PICK a \in Auths : next[a] <= manager.wake BY <3>2, <3>3 DEF Awaited
      <4>2. next[a] \in Int /\ now \in Nat /\ manager.wake \in Int BY <1>0 DEF TypeInv, Managers
      <4>3. ~(next[a] > now) BY <2>1, <4>1, <4>2
      <4>4. a \in Ready' BY <3>1, <3>2, <4>3 DEF Ready, Blocked
      <4>. QED BY <4>4
    <3>. QED BY <3>1, <3>2, <3>3 DEF Awaited, Rewarded
  <2>2. CASE Answer("cancelled")
    <3>1. manager'.pc = "idle" BY <2>2 DEF Answer, NoCall
    <3>. QED BY <1>2, <3>1 DEF Awaited, Rewarded, Wake
  <2>. QED BY <1>2, <2>1, <2>2 DEF Wake
<1>3. CASE Disturb
  <2>1. calm' = calm - 1 /\ manager.pc = "wait" /\ manager' = manager BY <1>3 DEF Disturb
  <2>2. calm \in Int /\ calm <= Disturbances /\ Disturbances \in Nat BY StreamAssumption DEF Awaited
  <2>3. calm' \in Int /\ calm' <= Disturbances /\ calm' # Disturbances BY <2>1, <2>2
  <2>4. manager'.pc # "pick" BY <2>1
  <2>. QED BY <2>3, <2>4 DEF Awaited, Rewarded
\* No other step waits, nor moves a cooldown while the Manager does.
<1>4. ASSUME calm' = calm, manager'.pc # "wait" \/ (manager' = manager /\ next' = next), manager.pc # "wait" \/ manager' = manager
      PROVE  Awaited' /\ Rewarded
  BY <1>4 DEF Awaited, Rewarded
<1>5. manager.pc = "wait" => ~wrap.live /\ wrap.buf = <<>> /\ (wrap.pc = "take" => wrap.failed)
  BY DEF Inv, Old
<1>6. CASE WrapTake
  <2>1. manager.pc # "wait" BY <1>5, <1>6 DEF WrapTake
  <2>. QED BY <1>4, <1>6, <2>1 DEF WrapTake
<1>7. CASE WrapEnd
  <2>1. manager.pc = "wait" => next' = next BY <1>5, <1>7 DEF WrapEnd
  <2>. QED BY <1>4, <1>7, <2>1 DEF WrapEnd
<1>8. CASE Pick \/ NoPick \/ BootGone \/ Execute \/ BootPayload \/ BootError \/ BootClosed
  <2>1. manager.pc \in {"pick", "open", "boot"} /\ calm' = calm
    BY <1>8 DEF Pick, NoPick, BootGone, Execute, OpenFails, OpenAnswers, OpenCounts, OpenStream, BootPayload, BootError,
                BootClosed
  <2>2. manager'.pc # "wait"
    <3>1. \A x : Answer(x) => manager'.pc = "idle" BY DEF Answer, NoCall
    <3>2. \A e : NextModel(e) => manager'.pc # "wait" BY <1>0, NextModelLeft
    <3>3. \A buf, live : Wrap(buf, live) => manager'.pc = "idle" BY <3>1 DEF Wrap
    <3>4. \A l, e : manager' = [manager EXCEPT !.pc = l, !.last = e] => manager'.pc = l BY <1>0 DEF Managers
    <3>5. CASE Pick BY <1>0, <3>5 DEF Pick, Managers
    <3>6. CASE NoPick BY <1>0, <3>6 DEF NoPick, Managers
    <3>7. CASE BootGone BY <3>1, <3>7 DEF BootGone
    <3>8. ASSUME NEW e \in Errors, OpenFails(e) PROVE manager'.pc # "wait"
      <4>1. \/ Answer("cancelled") \/ NextModel(e)
            \/ manager' = [manager EXCEPT !.pc = "decide", !.last = e]
        BY <3>8, <1>0 DEF OpenFails, TypeInv
      <4>. QED BY <3>1, <3>2, <3>4, <4>1
    <3>9. CASE OpenAnswers \/ OpenCounts BY <3>1, <3>9 DEF OpenAnswers, OpenCounts
    <3>10. CASE OpenStream BY <1>0, <3>10 DEF OpenStream, Managers
    <3>11. CASE BootPayload
      <4>1. manager' = [manager EXCEPT !.buf = <<Empty>>] => manager'.pc = manager.pc BY <1>0 DEF Managers
      <4>. QED BY <2>1, <3>3, <3>11, <4>1 DEF BootPayload
    <3>12. CASE BootError
      <4>1. PICK c \in Offers :
              \/ Answer("cancelled") \/ NextModel(c.error) \/ Wrap(<<c>>, FALSE)
              \/ manager' = [manager EXCEPT !.pc = "decide", !.last = c.error]
        BY <3>12 DEF BootError
      <4>. QED BY <3>1, <3>2, <3>3, <3>4, <4>1
    <3>13. CASE BootClosed
      <4>1. Wrap(manager.buf, FALSE) \/ NextModel("empty") \/ Wrap(<<Failure("empty")>>, FALSE)
        BY <3>13 DEF BootClosed
      <4>. QED BY <3>2, <3>3, <4>1
    <3>. QED BY <1>8, <3>5, <3>6, <3>7, <3>8, <3>9, <3>10, <3>11, <3>12, <3>13 DEF Execute
  <2>. QED BY <1>4, <2>1, <2>2
<1>9. CASE FwdRead
  <2>1. manager.pc = "idle" BY <1>9, ManagerRests DEF FwdRead
  <2>2. manager' = manager \/ manager'.pc = "pick" BY <1>9, CallEffect DEF FwdRead
  <2>. QED BY <1>4, <1>9, <2>1, <2>2 DEF FwdRead
<1>10. CASE FwdReturn \/ ReturnStream \/ ReturnPlain \/ ReturnCount
  <2>1. manager' = NoCall /\ manager.answer # "none" /\ calm' = calm
    BY <1>10 DEF FwdReturn, ReturnStream, ReturnPlain, ReturnCount, Respond
  <2>2. manager.pc = "idle" BY <2>1 DEF Inv, Owner
  <2>. QED BY <1>4, <2>1, <2>2, NoCallFacts
<1>11. CASE Start \/ StartUnknown
  <2>1. manager.pc = "idle" /\ calm' = calm BY <1>11 DEF Start, StartUnknown, Inv, Owner
  <2>2. manager'.pc # "wait" BY <1>11 DEF Start, StartUnknown, Call, NoCall
  <2>. QED BY <1>4, <2>1, <2>2
<1>12. CASE UNCHANGED <<manager, next, calm>> BY <1>4, <1>12
<1>13. CASE \/ WrapGone \/ WrapClose \/ FwdStop \/ FwdError \/ FwdClose \/ Convert \/ PeekError \/ PeekChunk \/ PeekClosed
            \/ ForwardChunk \/ ForwardError \/ ForwardEnd \/ HandlerGone \/ UpEnd \/ Drain \/ Leave \/ Propagate \/ Tick
  BY <1>12, <1>13 DEF WrapGone, WrapClose, FwdStop, FwdError, FwdClose, Convert, ConvRead, ConvStop, PeekError, PeekChunk,
     PeekClosed, ForwardChunk, ForwardError, ForwardEnd, HandlerGone, UpEnd, Drain, Leave, Propagate, Tick
<1>14. CASE UNCHANGED vars BY <1>12, <1>14 DEF vars
<1>. QED BY <1>1, <1>2, <1>3, <1>6, <1>7, <1>8, <1>9, <1>10, <1>11, <1>13, <1>14
         DEF Next, Manage, Read, Wrapper, Forward, Handle

\* Waiting for a cooldown pays (closestCooldownWait, waitForCooldown): the round after it
\* finds a credential ready, unless another request has moved the cooldowns meanwhile.
THEOREM WaitFindsReady == Spec => WaitPays
<1>1. Init => Awaited BY StreamAssumption DEF Init, Awaited, NoCall
<1>2. Inv /\ Awaited /\ [Next]_vars => Awaited' BY AwaitedNext
<1>3. Inv /\ Awaited /\ [Next]_vars
        => [manager.pc = "wait" /\ manager'.pc = "pick" /\ calm = Disturbances => Ready' # {}]_vars
  BY AwaitedNext DEF Rewarded
<1>. QED BY <1>1, <1>2, <1>3, InvInit, InvNext, PTL DEF Spec, WaitPays
====
