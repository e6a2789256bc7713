--------------------------- MODULE StreamRequest ---------------------------
(***************************************************************************)
(* One client request from its HTTP handler to the upstream and back:      *)
(* sdk/api/handlers (the handlers, ExecuteStreamWithAuthManager,           *)
(* ForwardStream) over the Manager's Execute, ExecuteCount and             *)
(* ExecuteStream (sdk/cliproxy/auth/conductor.go), with their outer retry  *)
(* loop, the model pool of a credential and the bootstrap of a stream.     *)
(*                                                                         *)
(* A stream runs in five goroutines joined by unbuffered channels:         *)
(*   upstream (the executor) -> wrapper (wrapStreamResult) -> forwarder    *)
(*   (ExecuteStreamWithAuthManager) [-> converter] -> handler              *)
(* A send on such a channel is one step of both sides.  An upstream that   *)
(* nobody reads any more is drained by discardStreamChunks, or stays.      *)
(*                                                                         *)
(* Which of the ready credentials is picked, and what a marked result does *)
(* beyond its cooldown, is in Scheduler and Cooldown; the Manager here     *)
(* keeps the time each credential is blocked until.  Other requests may    *)
(* extend it.  Keep-alives of a stream change nothing and are left out.    *)
(***************************************************************************)
EXTENDS Naturals, Sequences, FiniteSets, Functions

CONSTANTS
  Auths,          \* credentials that serve the requested model
  PoolSize,       \* upstream models behind the model name, per credential
  RequestRetry,   \* request-retry of every credential (override or default)
  MaxCredentials, \* maxRetryCredentials; 0 is no limit
  MaxWait,        \* maxRetryInterval
  MaxBootstrap,   \* streaming.bootstrap-retries
  Kinds,          \* surfaces: "completions" converts, "responses" validates
  Modes,          \* "stream", "plain" (Execute), "count" (ExecuteCount)
  Errors,         \* how an upstream call may fail
  MaxPayloads,    \* bound on the payload chunks of one upstream stream
  Horizon,        \* bound on the clock
  Disturbances    \* bound on cooldowns set by other requests

ASSUME StreamAssumption ==
  /\ PoolSize \in [Auths -> Nat \ {0}] /\ RequestRetry \in [Auths -> Nat]
  /\ {MaxCredentials, MaxWait, MaxBootstrap, MaxPayloads, Horizon, Disturbances} \subseteq Nat
  /\ Modes \subseteq {"stream", "plain", "count"}
  /\ Kinds \subseteq {"claude", "completions", "responses"}
  /\ Errors \subseteq {"quota", "hinted", "server", "denied", "invalid", "network"}

VARIABLES
  mode, kind,  \* what the client asked for
  client,      \* "here" or "gone"
  ctx,         \* the request's context: "live" or "cancelled"
  now, next,   \* the clock; when each credential is usable again
  manager,     \* the Manager's call in progress
  up,          \* the upstream stream last opened
  wrap,        \* the wrapper of it
  fwd,         \* the forwarder
  errs,        \* the message in errChan, or "none"
  conv,        \* the converter of the completions surface
  handler,     \* the HTTP handler
  calm,        \* disturbances left
  calls,       \* history: upstream calls made, and the marks of the last one
  got          \* history: the chunks the client received

vars == <<mode, kind, client, ctx, now, next, manager, up, wrap, fwd, errs, conv,
          handler, calm, calls, got>>

\* The Manager is called by the handler, and again by the forwarder.
NoCall   == [pc |-> "idle", by |-> "none", answer |-> "none", attempt |-> 0, tried |-> {},
             auth |-> "none", left |-> 0, last |-> "none", wake |-> 0, buf |-> <<>>]
NoChunk  == [what |-> "none", call |-> 0, no |-> 0, error |-> "none"]
NoStream == [pc |-> "none", sent |-> 0, drained |-> FALSE]
NoWrap   == [pc |-> "none", buf |-> <<>>, live |-> FALSE, failed |-> FALSE, auth |-> "none",
             chunk |-> NoChunk]
NoFwd    == [pc |-> "none", chunk |-> NoChunk, error |-> "none", sent |-> FALSE, retries |-> 0]
NoConv   == [pc |-> "none", chunk |-> NoChunk]

\* A chunk: the no-th payload of an upstream call, an empty one, or an error.
Payload(call, no) == [what |-> "payload", call |-> call, no |-> no, error |-> "none"]
Failure(e)        == [what |-> "error", call |-> 0, no |-> 0, error |-> e]
Empty             == [what |-> "empty", call |-> 0, no |-> 0, error |-> "none"]

Init ==
  /\ mode \in Modes /\ kind \in Kinds /\ (mode # "stream" => kind = "responses")
  /\ client = "here" /\ ctx = "live"
  /\ now = 0 /\ next = [a \in Auths |-> 0]
  /\ manager = NoCall /\ up = NoStream /\ wrap = NoWrap /\ fwd = NoFwd /\ conv = NoConv
  /\ errs = "none"
  /\ handler = [pc |-> "start", status |-> "none", end |-> "none"]
  /\ calm = Disturbances
  /\ calls = [made |-> 0, oks |-> 0, fails |-> 0, empty |-> FALSE]
  /\ got = <<>>

------------------------------------------------------------------------------
(* The Manager: pickNextMixed, the upstream calls, MarkResult, the retry loop *)

\* MarkResult, as far as the cooldown of the model goes: a quota error blocks for
\* the time its Retry-After names or for the backoff, a server error for longer, a
\* denied one for good; an error without a status does not block.
Hint == 3
Until(e, hinted) ==
  CASE e = "hinted" /\ hinted      -> now + Hint
    [] e \in {"quota", "hinted"}   -> now + 1
    [] e = "server"                -> now + 2
    [] e = "denied"                -> Horizon + 1
    [] OTHER                       -> 0

\* the last upstream call is marked; NewCall begins the marks of another
NewCall(oks, fails) ==
  calls' = [made |-> calls.made + 1, oks |-> oks, fails |-> fails, empty |-> FALSE]

MarkFailure(a, e, hinted) ==
  /\ next'  = [next EXCEPT ![a] = Until(e, hinted)]
  /\ calls' = [calls EXCEPT !.fails = @ + 1]

MarkSuccess(a) ==
  /\ next'  = [next EXCEPT ![a] = 0]
  /\ calls' = [calls EXCEPT !.oks = @ + 1]

Call(by) == manager' = [NoCall EXCEPT !.pc = "pick", !.by = by]

\* the call returns to its caller
Answer(answer) == manager' = [NoCall EXCEPT !.by = manager.by, !.answer = answer]

\* Mutant: a cooldown that ends now still blocks.
Blocked_late(a) == next[a] >= now /\ next[a] > 0

Blocked(a) == next[a] > now
Ready      == {a \in Auths \ manager.tried : ~Blocked(a)}
Exhausted  == MaxCredentials > 0 /\ Cardinality(manager.tried) >= MaxCredentials

\* A ready credential is picked; its models are tried in turn.
Pick ==
  /\ manager.pc = "pick" /\ ~Exhausted
  /\ \E a \in Ready : manager' = [manager EXCEPT !.pc = "open", !.auth = a,
                                   !.tried = @ \cup {a}, !.left = PoolSize[a]]
  /\ UNCHANGED <<mode, kind, client, ctx, now, next, up, wrap, fwd, errs, conv, handler,
                 calm, calls, got>>

\* None is left: the round fails with the last error, or with that of the pick.
NoPick ==
  /\ manager.pc = "pick" /\ (Exhausted \/ Ready = {})
  /\ manager' = [manager EXCEPT !.pc = "decide",
                                !.last = IF @ = "none" THEN "unavailable" ELSE @]
  /\ UNCHANGED <<mode, kind, client, ctx, now, next, up, wrap, fwd, errs, conv, handler,
                 calm, calls, got>>

\* What follows a failed model: the next one, or the next credential.
NextModel(e) ==
  manager' = [manager EXCEPT !.pc = IF manager.left > 1 THEN "open" ELSE "pick",
                             !.left = @ - 1, !.last = e, !.buf = <<>>]

\* The executor is called and fails.  With the context gone nothing is marked, and
\* ExecuteCount tells only the hook.
OpenFails(e) ==
  /\ manager.pc = "open"
  /\ IF ctx = "cancelled" \/ mode = "count"
       THEN NewCall(0, 0) /\ UNCHANGED next
       ELSE NewCall(0, 1) /\ next' = [next EXCEPT ![manager.auth] = Until(e, TRUE)]
  /\ CASE ctx = "cancelled" -> Answer("cancelled")
       [] ctx = "live" /\ e = "invalid" ->
            manager' = [manager EXCEPT !.pc = "decide", !.last = e]
       [] OTHER -> NextModel(e)
  /\ UNCHANGED <<mode, kind, client, ctx, now, up, wrap, fwd, errs, conv, handler, calm, got>>

\* The executor answers a request without a stream ...
OpenAnswers ==
  /\ manager.pc = "open" /\ mode = "plain"
  /\ Answer("ok")
  /\ NewCall(1, 0) /\ next' = [next EXCEPT ![manager.auth] = 0]
  /\ UNCHANGED <<mode, kind, client, ctx, now, up, wrap, fwd, errs, conv, handler, calm, got>>

\* ... or counts its tokens, which leaves the credential's state alone.
OpenCounts ==
  /\ manager.pc = "open" /\ mode = "count"
  /\ Answer("ok")
  /\ NewCall(0, 0)
  /\ UNCHANGED <<mode, kind, client, ctx, now, next, up, wrap, fwd, errs, conv, handler, calm, got>>

\* The executor is called and returns a stream.
OpenStream ==
  /\ manager.pc = "open" /\ mode = "stream"
  /\ manager' = [manager EXCEPT !.pc = "boot"]
  /\ up' = [pc |-> "open", sent |-> 0, drained |-> FALSE]
  /\ NewCall(0, 0)
  /\ UNCHANGED <<mode, kind, client, ctx, now, next, wrap, fwd, errs, conv, handler, calm, got>>

\* closestCooldownWait: the soonest end of a cooldown among the credentials that
\* may still be retried.
Waits == {next[a] - now : a \in {b \in Auths : Blocked(b) /\ manager.attempt < RequestRetry[b]}}

\* shouldRetryAfterError: the round is repeated after that wait, or its error is
\* the answer.
Decide ==
  /\ manager.pc = "decide"
  /\ LET soon == {w \in Waits : w <= MaxWait /\ \A v \in Waits : w <= v}
     IN IF MaxWait = 0 \/ manager.last = "invalid" \/ soon = {}
          THEN Answer(manager.last)
          ELSE \E w \in soon : manager' = [manager EXCEPT !.pc = "wait", !.wake = now + w]
  /\ UNCHANGED <<mode, kind, client, ctx, now, next, up, wrap, fwd, errs, conv, handler,
                 calm, calls, got>>

\* waitForCooldown ends by its timer or with the context.
Wake ==
  /\ manager.pc = "wait"
  /\ \/ /\ now >= manager.wake
        /\ manager' = [NoCall EXCEPT !.pc = "pick", !.by = manager.by,
                                     !.attempt = manager.attempt + 1]
     \/ ctx = "cancelled" /\ Answer("cancelled")
  /\ UNCHANGED <<mode, kind, client, ctx, now, next, up, wrap, fwd, errs, conv, handler,
                 calm, calls, got>>

------------------------------------------------------------------------------
(* The upstream stream and its bootstrap: readStreamBootstrap, discardStreamChunks *)

\* What the executor's goroutine may hand to a reader next: a read of its body fails
\* once the context is gone.
Offers ==
  IF up.pc # "open" THEN {}
  ELSE (IF up.sent < MaxPayloads THEN {Payload(calls.made, up.sent + 1)} ELSE {})
       \cup {Failure(e) : e \in IF ctx = "live" THEN Errors ELSE {"cancelled"}}

\* the stream once it handed over a chunk; after an error it only closes
After(c) == IF c.what = "payload" THEN [up EXCEPT !.sent = @ + 1]
                                  ELSE [up EXCEPT !.pc = "ending"]

\* The executor's goroutine returns and closes its channel.
UpEnd ==
  /\ up.pc \in {"open", "ending"}
  /\ up' = [up EXCEPT !.pc = "closed"]
  /\ UNCHANGED <<mode, kind, client, ctx, now, next, manager, wrap, fwd, errs, conv, handler,
                 calm, calls, got>>

\* discardStreamChunks reads what nobody else will, to the end.
Drain ==
  /\ up.pc = "open" /\ up.drained
  /\ up' = [up EXCEPT !.pc = "ending"]
  /\ UNCHANGED <<mode, kind, client, ctx, now, next, manager, wrap, fwd, errs, conv, handler,
                 calm, calls, got>>

\* wrapStreamResult: a wrapper over the buffered chunks and then, if live, the stream
Wrap(buf, live) ==
  /\ wrap' = [NoWrap EXCEPT !.pc = "take", !.buf = buf, !.live = live, !.auth = manager.auth]
  /\ Answer("stream")

\* The bootstrap reads a payload: the stream has begun.  Empty chunks are kept.
BootPayload ==
  /\ manager.pc = "boot"
  /\ \/ \E c \in {o \in Offers : o.what = "payload"} :
           up' = After(c) /\ Wrap(Append(manager.buf, c), TRUE)
     \/ /\ up.pc = "open" /\ manager.buf = <<>>
        /\ manager' = [manager EXCEPT !.buf = <<Empty>>]
        /\ UNCHANGED <<up, wrap>>
  /\ UNCHANGED <<mode, kind, client, ctx, now, next, fwd, errs, conv, handler, calm, calls, got>>

\* The bootstrap reads an error.  The last model's is not marked here: it becomes
\* a stream of that error alone.
BootError ==
  /\ manager.pc = "boot"
  /\ \E c \in {o \in Offers : o.what = "error"} :
       LET e == c.error
       IN CASE ctx = "cancelled" ->
                 /\ up' = [After(c) EXCEPT !.drained = TRUE]
                 /\ Answer("cancelled") /\ UNCHANGED <<next, calls, wrap>>
            [] ctx = "live" /\ e = "invalid" ->
                 /\ up' = [After(c) EXCEPT !.drained = TRUE]
                 /\ MarkFailure(manager.auth, e, TRUE)
                 /\ manager' = [manager EXCEPT !.pc = "decide", !.last = e]
                 /\ UNCHANGED wrap
            [] ctx = "live" /\ e # "invalid" /\ manager.left > 1 ->
                 /\ up' = [After(c) EXCEPT !.drained = TRUE]
                 /\ MarkFailure(manager.auth, e, TRUE)
                 /\ NextModel(e) /\ UNCHANGED wrap
            [] OTHER ->
                 up' = After(c) /\ Wrap(<<c>>, FALSE) /\ UNCHANGED <<next, calls>>
  /\ UNCHANGED <<mode, kind, client, ctx, now, fwd, errs, conv, handler, calm, got>>

\* The stream closed before a payload.  Without any chunk that is a failure, marked
\* here; the last model's becomes a stream of that error, which marks it again.
BootClosed ==
  /\ manager.pc = "boot" /\ up.pc = "closed"
  /\ IF manager.buf # <<>>
       THEN Wrap(manager.buf, FALSE) /\ UNCHANGED <<next, calls>>
       ELSE /\ next' = [next EXCEPT ![manager.auth] = Until("empty", FALSE)]
            /\ calls' = [calls EXCEPT !.fails = @ + 1, !.empty = manager.left = 1]
            /\ IF manager.left > 1 THEN NextModel("empty") /\ UNCHANGED wrap
                                   ELSE Wrap(<<Failure("empty")>>, FALSE)
  /\ UNCHANGED <<mode, kind, client, ctx, now, up, fwd, errs, conv, handler, calm, got>>

\* The context ends while the bootstrap waits.
BootGone ==
  /\ manager.pc = "boot" /\ ctx = "cancelled"
  /\ up' = [up EXCEPT !.drained = TRUE]
  /\ Answer("cancelled")
  /\ UNCHANGED <<mode, kind, client, ctx, now, next, wrap, fwd, errs, conv, handler, calm,
                 calls, got>>

------------------------------------------------------------------------------
(* The wrapper: wrapStreamResult *)

\* It takes the next chunk; the first error is marked, without its Retry-After.
WrapTake ==
  /\ wrap.pc = "take"
  /\ \E c \in IF wrap.buf # <<>> THEN {Head(wrap.buf)} ELSE IF wrap.live THEN Offers ELSE {} :
       /\ IF wrap.buf # <<>> THEN UNCHANGED up ELSE up' = After(c)
       /\ wrap' = [wrap EXCEPT !.pc = "emit", !.chunk = c,
                               !.buf = IF @ # <<>> THEN Tail(@) ELSE @,
                               !.failed = @ \/ c.what = "error"]
       /\ IF c.what = "error" /\ ~wrap.failed THEN MarkFailure(wrap.auth, c.error, FALSE)
                                             ELSE UNCHANGED <<next, calls>>
  /\ UNCHANGED <<mode, kind, client, ctx, now, manager, fwd, errs, conv, handler, calm, got>>

\* Mutant: the rest is not discarded.
WrapGone_leaves ==
  /\ wrap.pc = "emit" /\ ctx = "cancelled"
  /\ wrap' = [wrap EXCEPT !.pc = "close", !.buf = <<>>, !.chunk = NoChunk]
  /\ UNCHANGED <<mode, kind, client, ctx, now, next, manager, up, fwd, errs, conv, handler,
                 calm, calls, got>>

\* The context ends while it offers a chunk: the rest is discarded, nothing is marked.
WrapGone ==
  /\ wrap.pc = "emit" /\ ctx = "cancelled"
  /\ wrap' = [wrap EXCEPT !.pc = "close", !.buf = <<>>, !.chunk = NoChunk]
  /\ up' = IF wrap.live THEN [up EXCEPT !.drained = TRUE] ELSE up
  /\ UNCHANGED <<mode, kind, client, ctx, now, next, manager, fwd, errs, conv, handler, calm,
                 calls, got>>

\* All chunks went through: a stream without an error is a success.
WrapEnd ==
  /\ wrap.pc = "take" /\ wrap.buf = <<>> /\ (wrap.live => up.pc = "closed")
  /\ wrap' = [wrap EXCEPT !.pc = "close"]
  /\ IF wrap.failed THEN UNCHANGED <<next, calls>> ELSE MarkSuccess(wrap.auth)
  /\ UNCHANGED <<mode, kind, client, ctx, now, manager, up, fwd, errs, conv, handler, calm, got>>

WrapClose ==
  /\ wrap.pc = "close"
  /\ wrap' = [wrap EXCEPT !.pc = "closed"]
  /\ UNCHANGED <<mode, kind, client, ctx, now, next, manager, up, fwd, errs, conv, handler,
                 calm, calls, got>>

------------------------------------------------------------------------------
(* The forwarder: the goroutine of ExecuteStreamWithAuthManager *)

bootstrapEligible(e) == e # "invalid"

\* Mutant: a stream is retried after its first payload too.
CallsAgain_midstream(e) == fwd.retries < MaxBootstrap /\ bootstrapEligible(e)

\* Mutant: the retries are not counted.
CallsAgain_unlimited(e) == ~fwd.sent /\ bootstrapEligible(e)

CallsAgain(e) == ~fwd.sent /\ fwd.retries < MaxBootstrap /\ bootstrapEligible(e)

\* It receives a chunk.  An error before any payload calls the Manager again, a few
\* times; a payload for the responses surface must be valid JSON.
FwdRead ==
  /\ fwd.pc = "read" /\ wrap.pc = "emit"
  /\ wrap' = [wrap EXCEPT !.pc = "take", !.chunk = NoChunk]
  /\ \/ /\ wrap.chunk.what = "error"
        /\ IF CallsAgain(wrap.chunk.error)
             THEN /\ fwd' = [fwd EXCEPT !.pc = "call", !.retries = @ + 1]
                  /\ Call("forwarder")
             ELSE /\ fwd' = [fwd EXCEPT !.pc = "err", !.error = wrap.chunk.error]
                  /\ UNCHANGED manager
     \/ /\ wrap.chunk.what = "payload"
        /\ fwd' = [fwd EXCEPT !.pc = "data", !.chunk = wrap.chunk, !.sent = TRUE]
        /\ UNCHANGED manager
     \/ /\ wrap.chunk.what = "payload" /\ kind = "responses"
        /\ fwd' = [fwd EXCEPT !.pc = "err", !.error = "invalid_json"]
        /\ UNCHANGED manager
     \/ /\ wrap.chunk.what = "empty"
        /\ UNCHANGED <<fwd, manager>>
  /\ UNCHANGED <<mode, kind, client, ctx, now, next, up, errs, conv, handler, calm, calls, got>>

\* The second call returns: its stream is read on, or its error is the outcome.
FwdReturn ==
  /\ fwd.pc = "call" /\ manager.answer # "none"
  /\ manager' = NoCall
  /\ fwd' = IF manager.answer = "stream" THEN [fwd EXCEPT !.pc = "read"]
            ELSE [fwd EXCEPT !.pc = "err", !.error = manager.answer]
  /\ UNCHANGED <<mode, kind, client, ctx, now, next, up, wrap, errs, conv, handler, calm,
                 calls, got>>

\* The stream is over, or the context ends while it reads, sends or reports.
FwdStop ==
  /\ \/ fwd.pc = "read" /\ wrap.pc = "closed"
     \/ fwd.pc \in {"read", "data", "err"} /\ ctx = "cancelled"
  /\ fwd' = [fwd EXCEPT !.pc = "close", !.chunk = NoChunk]
  /\ UNCHANGED <<mode, kind, client, ctx, now, next, manager, up, wrap, errs, conv, handler,
                 calm, calls, got>>

\* errChan has room for one message, so the error is left there.
FwdError ==
  /\ fwd.pc = "err"
  /\ errs' = fwd.error
  /\ fwd' = [fwd EXCEPT !.pc = "close", !.chunk = NoChunk]
  /\ UNCHANGED <<mode, kind, client, ctx, now, next, manager, up, wrap, conv, handler, calm,
                 calls, got>>

\* It returns: errChan is closed, then dataChan.
FwdClose ==
  /\ fwd.pc = "close"
  /\ fwd' = [fwd EXCEPT !.pc = "exit"]
  /\ UNCHANGED <<mode, kind, client, ctx, now, next, manager, up, wrap, errs, conv, handler,
                 calm, calls, got>>

------------------------------------------------------------------------------
(* The converter of /v1/completions: between dataChan and the handler *)

\* It receives a chunk; one that converts to nothing is dropped.
ConvRead ==
  /\ conv.pc = "read" /\ fwd.pc = "data"
  /\ fwd' = [fwd EXCEPT !.pc = "read", !.chunk = NoChunk]
  /\ \/ conv' = [conv EXCEPT !.pc = "send", !.chunk = fwd.chunk]
     \/ UNCHANGED conv
  /\ UNCHANGED <<mode, kind, client, ctx, now, next, manager, up, wrap, errs, handler, calm,
                 calls, got>>

\* dataChan is closed, or the handler has stopped it.
ConvStop ==
  /\ \/ conv.pc = "read" /\ fwd.pc = "exit"
     \/ conv.pc \in {"read", "send"} /\ handler.pc = "done"
  /\ conv' = [pc |-> "exit", chunk |-> NoChunk]
  /\ UNCHANGED <<mode, kind, client, ctx, now, next, manager, up, wrap, fwd, errs, handler,
                 calm, calls, got>>

------------------------------------------------------------------------------
(* The handler, and its client *)

\* The handler starts the request.
Start ==
  /\ handler.pc = "start"
  /\ Call("handler")
  /\ handler' = [handler EXCEPT !.pc = "call"]
  /\ UNCHANGED <<mode, kind, client, ctx, now, next, up, wrap, fwd, errs, conv, calm, calls, got>>

\* getRequestDetails knows no provider for the model.
StartUnknown ==
  /\ handler.pc = "start"
  /\ handler' = [handler EXCEPT !.pc = "call"]
  /\ manager' = [NoCall EXCEPT !.by = "handler", !.answer = "unknown"]
  /\ UNCHANGED <<mode, kind, client, ctx, now, next, up, wrap, fwd, errs, conv, calm, calls, got>>

\* The response ends, and the request's context with it.
Finish(end, status) ==
  /\ handler' = [pc |-> "done", end |-> end,
                 status |-> IF handler.status = "none" THEN status ELSE handler.status]
  /\ ctx' = "cancelled"

\* The Manager answers: its answer is the response ...
Respond ==
  /\ handler.pc = "call" /\ manager.answer # "none"
  /\ manager' = NoCall
  /\ IF manager.answer = "ok" THEN Finish("done", "ok") ELSE Finish("error", manager.answer)
  /\ UNCHANGED <<mode, kind, client, now, next, up, wrap, fwd, errs, conv, calm, calls, got>>

ReturnPlain == mode = "plain" /\ Respond
ReturnCount == mode = "count" /\ Respond

\* ... or, for a stream, the forwarder starts, and an error is left in errChan.
ReturnStream ==
  /\ handler.pc = "call" /\ manager.answer # "none" /\ mode = "stream"
  /\ manager' = NoCall
  /\ handler' = [handler EXCEPT !.pc = "peek"]
  /\ IF manager.answer = "stream"
       THEN fwd' = [fwd EXCEPT !.pc = "read"] /\ UNCHANGED errs
       ELSE errs' = manager.answer /\ UNCHANGED fwd
  /\ UNCHANGED <<mode, kind, client, ctx, now, next, up, wrap, conv, calm, calls, got>>

\* Before the first chunk: an error is answered with its status ...
PeekError ==
  /\ handler.pc = "peek" /\ errs # "none"
  /\ Finish("error", errs)
  /\ errs' = "none"
  /\ UNCHANGED <<mode, kind, client, now, next, manager, up, wrap, fwd, conv, calm, calls, got>>

\* ... a first chunk commits the response to a stream ...
PeekChunk ==
  /\ handler.pc = "peek" /\ fwd.pc = "data"
  /\ fwd' = [fwd EXCEPT !.pc = "read", !.chunk = NoChunk]
  /\ handler' = [handler EXCEPT !.pc = "forward", !.status = "ok"]
  /\ \/ got' = Append(got, fwd.chunk)
     \/ kind = "completions" /\ got' = got   \* it converts to nothing
  /\ conv' = IF kind = "completions" THEN [conv EXCEPT !.pc = "read"] ELSE conv
  /\ UNCHANGED <<mode, kind, client, ctx, now, next, manager, up, wrap, errs, calm, calls>>

\* ... and a closed dataChan is an empty stream.  Both may be there: select takes either.
PeekClosed ==
  /\ handler.pc = "peek" /\ fwd.pc = "exit"
  /\ Finish("done", "ok")
  /\ UNCHANGED <<mode, kind, client, now, next, manager, up, wrap, fwd, errs, conv, calm,
                 calls, got>>

\* The channel ForwardStream reads: dataChan, or the converter's.
Source == IF conv.pc = "none" THEN fwd ELSE conv
Full   == IF conv.pc = "none" THEN fwd.pc = "data" ELSE conv.pc = "send"

ForwardChunk ==
  /\ handler.pc = "forward" /\ Full
  /\ got' = Append(got, Source.chunk)
  /\ IF conv.pc = "none" THEN fwd' = [fwd EXCEPT !.pc = "read", !.chunk = NoChunk] /\ UNCHANGED conv
                         ELSE conv' = [conv EXCEPT !.pc = "read", !.chunk = NoChunk] /\ UNCHANGED fwd
  /\ UNCHANGED <<mode, kind, client, ctx, now, next, manager, up, wrap, errs, handler, calm, calls>>

\* An error in errChan ends the stream as soon as it is seen.
ForwardError ==
  /\ handler.pc = "forward" /\ errs # "none"
  /\ Finish("error", errs)
  /\ errs' = "none"
  /\ UNCHANGED <<mode, kind, client, now, next, manager, up, wrap, fwd, conv, calm, calls, got>>

\* The data channel is closed: a pending error is preferred to a clean end.
ForwardEnd ==
  /\ handler.pc = "forward" /\ Source.pc = "exit"
  /\ IF errs # "none" THEN Finish("error", errs) ELSE Finish("done", "ok")
  /\ errs' = "none"
  /\ UNCHANGED <<mode, kind, client, now, next, manager, up, wrap, fwd, conv, calm, calls, got>>

\* The client has gone.
HandlerGone ==
  /\ handler.pc \in {"peek", "forward"} /\ client = "gone"
  /\ Finish("gone", "none")
  /\ UNCHANGED <<mode, kind, client, now, next, manager, up, wrap, fwd, errs, conv, calm,
                 calls, got>>

Leave ==
  /\ client = "here" /\ handler.pc # "done"
  /\ client' = "gone"
  /\ UNCHANGED <<mode, kind, ctx, now, next, manager, up, wrap, fwd, errs, conv, handler, calm,
                 calls, got>>

\* GetContextWithCancel: the request's context ends with the client's.
Propagate ==
  /\ client = "gone" /\ ctx = "live"
  /\ ctx' = "cancelled"
  /\ UNCHANGED <<mode, kind, client, now, next, manager, up, wrap, fwd, errs, conv, handler,
                 calm, calls, got>>

\* The clock moves where the Manager looks at it next: elsewhere that changes nothing
\* this request reads.
Looking == manager.pc \in {"pick", "decide", "wait"}

\* Another request marks a failure of one of the credentials, while this one waits.
Disturb ==
  /\ calm > 0 /\ manager.pc = "wait"
  /\ \E a \in Auths, e \in Errors : next' = [next EXCEPT ![a] = Until(e, TRUE)]
  /\ calm' = calm - 1
  /\ UNCHANGED <<mode, kind, client, ctx, now, manager, up, wrap, fwd, errs, conv, handler,
                 calls, got>>

Tick ==
  /\ now < Horizon /\ Looking
  /\ now' = now + 1
  /\ UNCHANGED <<mode, kind, client, ctx, next, manager, up, wrap, fwd, errs, conv, handler,
                 calm, calls, got>>

------------------------------------------------------------------------------
Manage  == Pick \/ NoPick \/ Decide \/ Wake \/ BootClosed \/ BootGone
Execute == (\E e \in Errors : OpenFails(e)) \/ OpenAnswers \/ OpenCounts \/ OpenStream
Read    == BootPayload \/ BootError \/ WrapTake
Wrapper == WrapGone \/ WrapEnd \/ WrapClose
Forward == FwdRead \/ FwdReturn \/ FwdStop \/ FwdError \/ FwdClose
Convert == ConvRead \/ ConvStop
Handle  == Start \/ ReturnPlain \/ ReturnCount \/ ReturnStream
           \/ PeekError \/ PeekChunk \/ PeekClosed
           \/ ForwardChunk \/ ForwardError \/ ForwardEnd \/ HandlerGone

Next == Manage \/ Execute \/ Read \/ Wrapper \/ Forward \/ Convert \/ Handle
        \/ StartUnknown \/ UpEnd \/ Drain \/ Leave \/ Propagate \/ Disturb \/ Tick

\* The goroutines run.  An upstream may stall for as long as the client waits (its
\* HTTP client has no time-out); with the context gone it fails or ends.
Cancelled == ctx = "cancelled"
Fairness ==
  /\ WF_vars(Manage) /\ WF_vars(Wrapper) /\ WF_vars(Forward) /\ WF_vars(Convert)
  /\ WF_vars(Handle) /\ WF_vars(Propagate) /\ WF_vars(Tick)
  /\ WF_vars(Cancelled /\ Execute) /\ WF_vars(Cancelled /\ (Read \/ Drain))
  /\ WF_vars(wrap.buf # <<>> /\ WrapTake)
  /\ WF_vars(up.pc = "ending" /\ UpEnd)

Spec == Init /\ [][Next]_vars /\ Fairness

------------------------------------------------------------------------------
\* The client's chunks are those of one upstream stream, the last, in their order:
\* a request is never retried under a client that has seen a part of an answer.  A
\* response that ends cleanly after a chunk is the whole of a stream that ended
\* without an error and was marked a success before the end was written.
OneWholeStream ==
  /\ \A i \in DOMAIN got : got[i].call = calls.made /\ (i > 1 => got[i].no > got[i - 1].no)
  /\ kind # "completions" => \A i \in DOMAIN got : got[i].no = i
  /\ handler.end = "done" /\ client = "here" /\ got # <<>> =>
       /\ up.pc = "closed" /\ calls.oks = 1 /\ calls.fails = 0
       /\ kind # "completions" => Len(got) = up.sent

\* Every upstream call of Execute and ExecuteStream is marked exactly once before the
\* next begins: a stream by the bootstrap or by its wrapper, never by both and never
\* by none, whatever the retries of the Manager and of the forwarder.  The one
\* exception the code has is an empty stream of the last model, marked twice.
Marked == calls.oks + calls.fails = IF calls.empty THEN 2 ELSE 1

Accounted == [][calls'.made # calls.made /\ calls.made > 0 /\ mode # "count" => Marked]_vars

\* The upstream calls of one request are bounded by the settings alone: by the models
\* of every credential, once per round, in the rounds request-retry allows, once per
\* bootstrap; with maxRetryCredentials, by that many credentials a round.
Most(S)     == CHOOSE n \in S : \A k \in S : k <= n
Chosen      == {S \in SUBSET Auths : MaxCredentials > 0 => Cardinality(S) <= MaxCredentials}
PerRound    == Most({FoldFunctionOnSet(+, 0, PoolSize, S) : S \in Chosen})
Bounded     ==
  calls.made <= (1 + MaxBootstrap) * (1 + Most({RequestRetry[a] : a \in Auths})) * PerRound

\* Waiting for a cooldown pays: when no other request interfered, the round after it
\* finds a credential ready.
WaitPays ==
  [][manager.pc = "wait" /\ manager'.pc = "pick" /\ calm = Disturbances => Ready' # {}]_vars

\* Every upstream call is credited: marked once before the next, no more of them than the
\* limits allow, and the next round after a wait has one to make.
Credited == Accounted /\ []Bounded /\ WaitPays

\* Once the response has ended, or the client has left, everything the request started
\* ends: no goroutine stays behind a channel nobody reads, no upstream stays open, even
\* one that stalls.
Rest ==
  /\ handler.pc = "done" /\ manager.pc = "idle"
  /\ fwd.pc \in {"none", "exit"} /\ conv.pc \in {"none", "exit"}
  /\ wrap.pc \in {"none", "closed"} /\ up.pc \in {"none", "closed"}
AllReleased == (handler.pc = "done" \/ client = "gone") ~> Rest

\* The handlers' comment on the peek: the first chunk determines success or failure
\* before the headers are set.  So no clean end leaves an error unread.
ErrorTold == handler.end = "done" => errs = "none"

\* conductor.go: RetryAfter is the provider's hint.  A credential that failed with a
\* hint is left alone for as long as the hint says.
HintKept ==
  [][\A a \in Auths : wrap.pc = "take" /\ wrap'.chunk.error = "hinted" /\ a = wrap.auth
                        => next'[a] >= now + Hint]_vars
=============================================================================
