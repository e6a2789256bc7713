------------------------------ MODULE Executor ------------------------------
(***************************************************************************)
(* One request in a provider executor (internal/runtime/executor): what    *)
(* is asked of the upstream and how often, what the caller gets, and what  *)
(* the request's usageReporter hands to the usage queue.  The functions    *)
(* are of one build and differ in a few steps: StepsOf says in which.      *)
(*                                                                         *)
(* The translation of bodies is Translation's subject, and a consumer      *)
(* that leaves a stream is StreamRequest's: here it reads to the end.      *)
(* Only qwen keeps state from one request to the next, the times of its    *)
(* rate limiter.                                                           *)
(***************************************************************************)
EXTENDS Naturals, Sequences, FiniteSets

CONSTANTS
  Executors,
  RequestRetry,          \* the configured request-retry, which antigravity reads too
  MaxEvents,             \* bound: events of a stream
  PerMinute, Window,     \* qwenRateLimitPerMin, qwenRateLimitWindow
  MaxNow                 \* bound on the clock, which only qwen's limiter reads

VARIABLES
  exec, mode,            \* whose Execute ("whole"), ExecuteStream ("stream") or CountTokens ("count") runs
  pc,
  attempt, target,       \* antigravity: the round, and the base URL in it
  asked,                 \* history: the upstream's answers so far, in order
  err, hint,             \* what the call failed with, and the Retry-After it carries
  out,                   \* the last chunk given to the consumer
  record,                \* what the reporter published
  stage, events,         \* how far the upstream's stream is, and its events so far
  clock, stamps,         \* qwenRateLimiter
  admitted, refused      \* history: when requests passed the limiter; the last refusal

vars == <<exec, mode, pc, attempt, target, asked, err, hint, out, record, stage, events,
          clock, stamps, admitted, refused>>

(***************************************************************************)
(* What one function does, a record per Execute, ExecuteStream and         *)
(* CountTokens.                                                            *)
(***************************************************************************)
Whole ==
  [reads      |-> "whole",
   asks       |-> TRUE,    \* the upstream, and does not count by itself
   reports    |-> TRUE,    \* to the usage queue
   looksFirst |-> FALSE,   \* for a token, a key or a place to ask, before it has a reporter
   urls       |-> 1,       \* base URLs it may ask, one after the other
   rounds     |-> 1,       \* and how often
   delay      |-> FALSE,   \* reads from the body of a 429 when to come back
   hides      |-> FALSE,   \* an error body that breaks off hides the status
   passesTorn |-> FALSE,   \* and the next base URL is asked then
   passesFull |-> FALSE,   \* and when the upstream is without capacity, and in the next round
   completes  |-> FALSE,   \* fails when it finds no response.completed
   ensures    |-> FALSE,   \* makes sure of a record when the answer had no counts
   closes     |-> FALSE,   \* gives the translator "[DONE]" before it looks at the scanner's error
   early      |-> FALSE,   \* its upstream sends counts with the content too
   counts     |-> "all"]   \* which it parses: all, the last chunk's, or ("traced") that and
                           \* counts after the stop, known by the trace ID
Stream  == [Whole EXCEPT !.reads = "stream"]
Count   == [Whole EXCEPT !.reports = FALSE]
Counted == [Count EXCEPT !.asks = FALSE]

claudeExecute       == Whole
claudeExecuteStream == Stream
claudeCountTokens   == Count

codexExecute       == [Whole EXCEPT !.delay = TRUE, !.completes = TRUE]
codexCompact       == [Whole EXCEPT !.delay = TRUE, !.ensures = TRUE]
codexExecuteStream == [Stream EXCEPT !.delay = TRUE, !.hides = TRUE]
codexCountTokens   == Counted

geminiExecute       == Whole
geminiExecuteStream == [Stream EXCEPT !.closes = TRUE, !.early = TRUE, !.counts = "last"]
geminiCountTokens   == [Count EXCEPT !.hides = TRUE]

geminiCLIExecute       == [Whole EXCEPT !.looksFirst = TRUE, !.delay = TRUE, !.hides = TRUE]
geminiCLIExecuteStream == [Stream EXCEPT !.looksFirst = TRUE, !.delay = TRUE, !.hides = TRUE,
                                         !.closes = TRUE, !.early = TRUE]
geminiCLICountTokens   == [Count EXCEPT !.looksFirst = TRUE, !.delay = TRUE, !.hides = TRUE]

vertexAccount       == [Whole EXCEPT !.looksFirst = TRUE]
vertexKey           == Whole
vertexAccountStream == [Stream EXCEPT !.looksFirst = TRUE, !.closes = TRUE, !.early = TRUE]
vertexKeyStream     == [Stream EXCEPT !.closes = TRUE, !.early = TRUE]
vertexAccountCount  == [Count EXCEPT !.looksFirst = TRUE]
vertexKeyCount      == Count

\* The configured request-retry is read here too, beside the Manager's own use of it.
antigravityRetryAttempts == RequestRetry + 1

Antigravity(reads) ==
  [reads EXCEPT !.looksFirst = TRUE, !.urls = 2, !.rounds = antigravityRetryAttempts,
                !.delay = TRUE, !.hides = TRUE, !.passesFull = TRUE, !.ensures = TRUE]

antigravityExecute       == Antigravity(Whole)
antigravityClaude        == [Antigravity(Stream) EXCEPT !.passesTorn = TRUE, !.early = TRUE,
                                                        !.counts = "traced"]
antigravityExecuteStream == [antigravityClaude EXCEPT !.closes = TRUE]
antigravityCountTokens   == [Count EXCEPT !.looksFirst = TRUE, !.urls = 2, !.delay = TRUE,
                                          !.hides = TRUE]

iflowExecute       == [Whole EXCEPT !.looksFirst = TRUE, !.ensures = TRUE]
iflowExecuteStream == [Stream EXCEPT !.looksFirst = TRUE, !.ensures = TRUE]
iflowCountTokens   == Counted

kimiExecute       == Whole
kimiExecuteStream == [Stream EXCEPT !.closes = TRUE]
kimiCountTokens   == claudeCountTokens

qwenExecute       == [Whole EXCEPT !.delay = TRUE]
qwenExecuteStream == [Stream EXCEPT !.delay = TRUE, !.closes = TRUE]
qwenCountTokens   == Counted

compatExecute       == [Whole EXCEPT !.ensures = TRUE]
compatExecuteStream == [Stream EXCEPT !.ensures = TRUE]
compatCountTokens   == Counted

aistudioExecute       == Whole
aistudioExecuteStream == [Stream EXCEPT !.early = TRUE, !.counts = "last"]
aistudioCountTokens   == Count

\* antigravityClaude is called by Execute, and so is codexCompact.
StepsOf ==
  [claude            |-> [whole |-> claudeExecute, stream |-> claudeExecuteStream,
                          count |-> claudeCountTokens],
   codex             |-> [whole |-> codexExecute, stream |-> codexExecuteStream,
                          count |-> codexCountTokens],
   codexCompact      |-> [whole |-> codexCompact],
   gemini            |-> [whole |-> geminiExecute, stream |-> geminiExecuteStream,
                          count |-> geminiCountTokens],
   geminiCLI         |-> [whole |-> geminiCLIExecute, stream |-> geminiCLIExecuteStream,
                          count |-> geminiCLICountTokens],
   vertexAccount     |-> [whole |-> vertexAccount, stream |-> vertexAccountStream,
                          count |-> vertexAccountCount],
   vertexKey         |-> [whole |-> vertexKey, stream |-> vertexKeyStream,
                          count |-> vertexKeyCount],
   antigravity       |-> [whole |-> antigravityExecute, stream |-> antigravityExecuteStream,
                          count |-> antigravityCountTokens],
   antigravityClaude |-> [whole |-> antigravityClaude],
   iflow             |-> [whole |-> iflowExecute, stream |-> iflowExecuteStream,
                          count |-> iflowCountTokens],
   kimi              |-> [whole |-> kimiExecute, stream |-> kimiExecuteStream,
                          count |-> kimiCountTokens],
   qwen              |-> [whole |-> qwenExecute, stream |-> qwenExecuteStream,
                          count |-> qwenCountTokens],
   compat            |-> [whole |-> compatExecute, stream |-> compatExecuteStream,
                          count |-> compatCountTokens],
   aistudio          |-> [whole |-> aistudioExecute, stream |-> aistudioExecuteStream,
                          count |-> aistudioCountTokens]]

ExecutorAssumption ==
  /\ {RequestRetry, MaxEvents, MaxNow} \subseteq Nat
  /\ {PerMinute, Window} \subseteq Nat \ {0}
  /\ Executors \subseteq DOMAIN StepsOf

does == StepsOf[exec][mode]

\* Answers of the upstream: none, 429 (or qwen's 403) with and without a delay, 503 for want
\* of capacity, another error, an error whose body breaks off, 2xx.
Answers == {"down", "limited", "limited-bare", "capacity", "error", "torn", "ok"}

\* Mutant: a later record replaces the first.
Publish_last(detail) == detail

\* once.Do: the first record of a request is its only one.
Publish(detail) == IF record = "none" THEN detail ELSE record

\* trackFailure: what a call that ends with an error publishes.
Failed(how, after) ==
  /\ pc' = "done" /\ err' = how /\ hint' = after
  /\ record' = IF does.reports THEN Publish("failed") ELSE record

Limited == {"limited", "limited-bare"}

Init ==
  /\ exec \in Executors
  /\ mode \in DOMAIN StepsOf[exec]
  /\ pc = "begin" /\ attempt = 1 /\ target = 1 /\ asked = <<>>
  /\ err = "none" /\ hint = 0 /\ out = "nothing" /\ record = "none"
  /\ stage = "open" /\ events = 0
  /\ clock = 0 /\ stamps = <<>> /\ admitted = <<>> /\ refused = [at |-> 0, hint |-> 0]

limiterVars == <<clock, stamps, admitted, refused>>
streamVars  == <<out, stage, events>>

------------------------------------------------------------------------------
(* Before the upstream is asked *)

\* No token or key yet: the request fails before it has a reporter.
Refuse ==
  /\ pc = "begin" /\ does.looksFirst
  /\ pc' = "done" /\ err' = "refused"
  /\ UNCHANGED <<exec, mode, attempt, target, asked, hint, record, streamVars, limiterVars>>

Begin ==
  /\ pc = "begin" /\ (exec = "qwen" => mode = "count")
  /\ pc' = "build"
  /\ UNCHANGED <<exec, mode, attempt, target, asked, err, hint, record, streamVars, limiterVars>>

\* Mutant: a request leaves the window a moment too early.
Recent_early(seq, time) == SelectSeq(seq, LAMBDA t : t + Window > time + 1)

\* checkQwenRateLimit: the requests of the last window, and this one when there is room.
Recent(seq, time) == SelectSeq(seq, LAMBDA t : t + Window > time)

checkQwenRateLimit ==
  LET valid == Recent(stamps, clock)
      wait  == valid[1] + Window - clock
  IN
  /\ pc = "begin" /\ exec = "qwen" /\ mode # "count"
  /\ IF Len(valid) >= PerMinute
     THEN /\ pc' = "done" /\ err' = "throttled"
          /\ hint' = IF wait < 1 THEN 1 ELSE wait
          /\ refused' = [at |-> clock, hint |-> hint']
          /\ UNCHANGED <<stamps, admitted>>
     ELSE /\ pc' = "build" /\ stamps' = Append(valid, clock)
          /\ admitted' = Append(admitted, clock)
          /\ UNCHANGED <<err, hint, refused>>
  /\ UNCHANGED <<exec, mode, attempt, target, asked, record, streamVars, clock>>

\* The request cannot be built (its thinking configuration, its messages, its URL), or can.
CannotBuild ==
  /\ pc = "build"
  /\ Failed("build", 0)
  /\ UNCHANGED <<exec, mode, attempt, target, asked, streamVars, limiterVars>>

Build ==
  /\ pc = "build" /\ does.asks
  /\ pc' = "ask"
  /\ UNCHANGED <<exec, mode, attempt, target, asked, err, hint, record, streamVars, limiterVars>>

\* CountTokens by a tokenizer of our own.
CountHere ==
  /\ pc = "build" /\ ~does.asks
  /\ pc' = "done"
  /\ UNCHANGED <<exec, mode, attempt, target, asked, err, hint, record, streamVars, limiterVars>>

------------------------------------------------------------------------------
(* Asking *)

\* Answers after which antigravity asks its next base URL.
PassedOn(answer) ==
  \/ answer \in {"down"} \cup Limited
  \/ answer = "capacity" /\ does.passesFull
  \/ answer = "torn" /\ does.passesTorn

Answer(answer) ==
  /\ pc = "ask"
  /\ asked' = Append(asked, answer)
  /\ \/ /\ answer = "ok"
        /\ pc' = "body"
        /\ UNCHANGED <<attempt, target, err, hint, record>>
     \/ /\ target < does.urls /\ PassedOn(answer)
        /\ target' = target + 1
        /\ UNCHANGED <<pc, attempt, err, hint, record>>
     \/ /\ target = does.urls /\ answer = "capacity" /\ attempt < does.rounds
        /\ pc' = "wait"
        /\ UNCHANGED <<attempt, target, err, hint, record>>
     \/ /\ answer # "ok"
        /\ target < does.urls => ~PassedOn(answer)
        /\ ~(target = does.urls /\ answer = "capacity" /\ attempt < does.rounds)
        /\ Failed(CASE answer = "down" -> "io"
                    [] answer = "torn" -> IF does.hides THEN "io" ELSE "status"
                    [] OTHER -> "status",
                  IF answer = "limited" /\ does.delay THEN 1 ELSE 0)
        /\ UNCHANGED <<attempt, target>>
  /\ UNCHANGED <<exec, mode, streamVars, limiterVars>>

\* Mutant: the next round goes on at the base URL the last one ended with.
NextRound_same ==
  /\ pc = "wait"
  /\ pc' = "ask" /\ attempt' = attempt + 1
  /\ UNCHANGED <<exec, mode, target, asked, err, hint, record, streamVars, limiterVars>>

\* antigravityWait: the next round, from the first base URL.
NextRound ==
  /\ pc = "wait"
  /\ pc' = "ask" /\ attempt' = attempt + 1 /\ target' = 1
  /\ UNCHANGED <<exec, mode, asked, err, hint, record, streamVars, limiterVars>>

\* The caller's context ends while the upstream is asked, while a round is waited for, or
\* while a whole answer is read.
Cancel ==
  /\ pc \in {"ask", "wait"} \/ (pc = "body" /\ does.reads = "whole")
  /\ Failed("cancelled", 0)
  /\ UNCHANGED <<exec, mode, attempt, target, asked, streamVars, limiterVars>>

------------------------------------------------------------------------------
(* Answers *)

\* The answer is read as a whole, with token counts or without.
ReadWhole(counts) ==
  /\ pc = "body" /\ does.reads = "whole"
  /\ pc' = "done"
  /\ record' = IF ~does.reports THEN record
               ELSE IF counts # "none" THEN Publish(counts)
               ELSE IF does.ensures THEN Publish("uncounted") ELSE record
  /\ UNCHANGED <<exec, mode, attempt, target, asked, err, hint, streamVars, limiterVars>>

\* It breaks off, or codex finds no response.completed in it.
BrokenWhole(how) ==
  /\ pc = "body" /\ does.reads = "whole"
  /\ how = "incomplete" => does.completes
  /\ Failed(how, 0)
  /\ UNCHANGED <<exec, mode, attempt, target, asked, streamVars, limiterVars>>

\* ExecuteStream has returned and its goroutine reads on; antigravity-claude reads itself.
Streams == pc = "body" /\ does.reads = "stream"

\* A stream is content, then a stop, then the counts of the whole answer, which may come with
\* the stop; gemini's upstreams send counts with the content too.
NextStage(event) ==
  CASE event = "stop" -> "stopped"
    [] event \in {"stop+counts", "counts"} -> "counted"
    [] OTHER -> stage

MayCome(event) ==
  CASE event = "text" -> stage = "open"
    [] event = "text+counts" -> stage = "open" /\ does.early
    [] event \in {"stop", "stop+counts"} -> stage = "open"
    [] event = "counts" -> stage = "stopped"

\* The counts that get past FilterSSEUsageMetadata, to be parsed and published.
Counts(event) ==
  CASE event \in {"text", "stop"} -> "none"
    [] event = "text+counts" -> IF does.counts = "all" THEN "partial" ELSE "none"
    [] event = "stop+counts" -> "final"
    [] event = "counts" -> IF does.counts = "last" THEN "none" ELSE "final"

Event(event) ==
  /\ Streams /\ events < MaxEvents /\ MayCome(event)
  /\ events' = events + 1
  /\ stage' = NextStage(event)
  /\ record' = IF Counts(event) = "none" THEN record ELSE Publish(Counts(event))
  /\ out' = "data"
  /\ UNCHANGED <<exec, mode, pc, attempt, target, asked, err, hint, limiterVars>>

\* The scanner ends without an error.
EndStream ==
  /\ Streams
  /\ pc' = "done"
  /\ out' = IF does.closes THEN "closing" ELSE out
  /\ record' = IF does.ensures THEN Publish("uncounted") ELSE record
  /\ UNCHANGED <<exec, mode, attempt, target, asked, err, hint, stage, events, limiterVars>>

\* The scanner ends with an error, which is the consumer's last chunk; antigravity-claude is
\* the consumer of its own stream and returns it.
CutStream ==
  /\ Streams
  /\ out' = "error"
  /\ Failed("cut", 0)
  /\ UNCHANGED <<exec, mode, attempt, target, asked, stage, events, limiterVars>>

------------------------------------------------------------------------------
(* qwen's next request, by the same credential *)

Again ==
  /\ pc = "done" /\ exec = "qwen" /\ Len(admitted) < 2 * PerMinute
  /\ pc' = "begin" /\ asked' = <<>> /\ attempt' = 1 /\ target' = 1
  /\ err' = "none" /\ hint' = 0 /\ out' = "nothing" /\ record' = "none"
  /\ stage' = "open" /\ events' = 0
  /\ UNCHANGED <<exec, mode, limiterVars>>

Tick ==
  /\ exec = "qwen" /\ clock < MaxNow /\ pc \in {"begin", "done"}
  /\ clock' = clock + 1
  /\ UNCHANGED <<exec, mode, pc, attempt, target, asked, err, hint, record, streamVars,
                 stamps, admitted, refused>>

Events == {"text", "text+counts", "stop", "stop+counts", "counts"}

Next ==
  \/ Refuse \/ Begin \/ checkQwenRateLimit \/ CannotBuild \/ Build \/ CountHere
  \/ \E answer \in Answers : Answer(answer)
  \/ NextRound \/ Cancel
  \/ \E counts \in {"none", "final"} : ReadWhole(counts)
  \/ \E how \in {"io", "incomplete"} : BrokenWhole(how)
  \/ \E event \in Events : Event(event)
  \/ EndStream \/ CutStream
  \/ Again \/ Tick

Spec == Init /\ [][Next]_vars

------------------------------------------------------------------------------
TypeOK ==
  /\ exec \in Executors /\ mode \in DOMAIN StepsOf[exec]
  /\ pc \in {"begin", "build", "ask", "wait", "body", "done"}
  /\ attempt \in 1..does.rounds /\ target \in 1..does.urls
  /\ record \in {"none", "failed", "uncounted", "partial", "final"}
  /\ stage \in {"open", "stopped", "counted"}

\* The usage statistics agree with what the caller got, however often the upstream was asked:
\* a request is recorded as failed only when the caller got an error, and one that got an
\* error after it had a reporter is, unless the answer's tokens were counted before it broke
\* off.  The executors that see to it record each request that succeeds, and none that keeps
\* the counts of the last chunk only records those of an earlier one.
RecordAgrees ==
  pc = "done" =>
    /\ record = "failed" => err # "none"
    /\ err \notin {"none", "refused", "throttled"} /\ does.reports => record \in {"failed", "partial", "final"}
    /\ err \in {"refused", "throttled"} => record = "none"
    /\ err = "none" /\ does.ensures => record \in {"uncounted", "partial", "final"}
    /\ record = "partial" => does.counts = "all"
    /\ does.counts = "traced" /\ stage = "counted" => record = "final"

\* An upstream is asked again only while none has taken the request; a caller hears that there
\* is no capacity after every base URL has been asked in every round, and of a base URL that
\* cannot be reached or limits the rate after the others have been asked too.
FallsBack ==
  /\ \A i \in DOMAIN asked : asked[i] = "ok" => i = Len(asked)
  /\ (pc = "done" /\ err \in {"io", "status"} /\ asked[Len(asked)] # "ok") =>
       CASE asked[Len(asked)] = "capacity" /\ does.passesFull -> Len(asked) = does.urls * does.rounds
         [] asked[Len(asked)] \in {"down"} \cup Limited -> Len(asked) % does.urls = 0
         [] OTHER -> TRUE

\* qwen's limiter admits no more than PerMinute requests in any window, and a client that
\* waits for as long as it is told is admitted, if no other came before it.
LimiterExact ==
  /\ \A i \in DOMAIN admitted :
       Cardinality({j \in 1..i : admitted[j] + Window > admitted[i]}) <= PerMinute
  /\ (refused.hint > 0 /\ clock >= refused.at + refused.hint
      /\ admitted[Len(admitted)] <= refused.at) => Len(Recent(stamps, clock)) < PerMinute
=============================================================================
