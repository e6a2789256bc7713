--------------------------- MODULE MCTranslation ---------------------------
(***************************************************************************)
(* What becomes of a request and of its answer between the client and the  *)
(* upstream: the translators of either, the executors, and the cache of    *)
(* signatures that one of them fills.  A behaviour is about one of the     *)
(* four, "subject"; the others rest.                                       *)
(***************************************************************************)
EXTENDS Translation

CONSTANTS
  Subjects,
  Writers, Readers, Texts, Signatures, SignatureCacheTTL, Buckets, MaxNow,
  Executors, RequestRetry, MaxEvents, PerMinute, Window, MaxClock,
  RequestPairs, Functions, MaxParts, Habits

VARIABLES
  subject,
  now, current, entries, made, writer, reader, cleaner, known,
  exec, mode, pc, attempt, target, asked, err, hint, out, record, stage, events, clock,
  stamps, admitted, refused,
  systems, turns, route, style, source, request

Cache == INSTANCE SignatureCache
Exec  == INSTANCE Executor WITH MaxNow <- MaxClock
Req   == INSTANCE RequestTranslation

ASSUME CacheConstants    == Cache!CacheAssumption
ASSUME ExecutorConstants == Exec!ExecutorAssumption

\* Goroutines that look up are alike, and so are signatures and the functions of a conversation.
Symmetry == Permutations(Readers) \cup Permutations(Signatures) \cup Permutations(Functions)

GeminiFamily == {"gemini", "gemini-cli", "antigravity"}

\* The translators checked
MCPairs ==
  ((GeminiFamily \cup {"codex", "openai"}) \X {"claude"})
  \cup ((GeminiFamily \cup {"codex", "claude"}) \X {"chat"})
  \cup ((GeminiFamily \cup {"codex", "claude", "openai"}) \X {"gemini"})
  \cup ((GeminiFamily \cup {"claude", "openai"}) \X {"responses"})

\* The request translators checked: all but those that hand the request on as it is
MCRequestPairs ==
  ({"claude", "openai", "codex"} \X {"gemini", "gemini-cli"})
  \cup ((GeminiFamily \cup {"openai", "codex"}) \X {"claude"})
  \cup ((GeminiFamily \cup {"claude", "codex"}) \X {"chat"})
  \cup ((GeminiFamily \cup {"claude", "openai", "codex"}) \X {"responses"})
  \cup (GeminiFamily \X {"gemini"}) \cup {<<"gemini", "gemini-cli">>}

\* The executors checked
MCExecutors ==
  {"claude", "codex", "codexCompact", "gemini", "geminiCLI", "vertexAccount", "vertexKey",
   "antigravity", "antigravityClaude", "iflow", "kimi", "qwen", "compat", "aistudio"}

cacheVars == <<now, current, entries, made, writer, reader, cleaner, known>>
execVars  == <<exec, mode, pc, attempt, target, asked, err, hint, out, record, stage, events,
               clock, stamps, admitted, refused>>
reqVars   == <<systems, turns, route, style, source, request>>

\* Who is not the subject rests in one of its initial states.
JointInit ==
  /\ subject \in Subjects
  /\ Init /\ (subject # "translation" => pair = <<"gemini", "gemini">>)
  /\ Cache!Init
  /\ Exec!Init /\ (subject # "executor" => exec = "gemini" /\ mode = "whole")
  /\ Req!RequestInit /\ (subject # "request" => systems = 0)

JointNext ==
  \/ subject = "translation" /\ Next /\ UNCHANGED <<subject, cacheVars, execVars, reqVars>>
  \/ subject = "cache" /\ Cache!Next /\ UNCHANGED <<subject, vars, execVars, reqVars>>
  \/ subject = "executor" /\ Exec!Next /\ UNCHANGED <<subject, vars, cacheVars, reqVars>>
  \/ subject = "request" /\ Req!RequestNext /\ UNCHANGED <<subject, vars, cacheVars, execVars>>

JointSpec == JointInit /\ [][JointNext]_<<subject, vars, cacheVars, execVars, reqVars>>

------------------------------------------------------------------------------
\* Translation, as stated there: the events of an answer are a stream of the client's format,
\* and add up to the message the client would have got at once.
Answered == WellFormed /\ Same

\* SignatureCache, as stated there: a signature is found as long as it is valid, and an answer
\* is one that was valid while the lookup ran.
LookupsTrue       == Cache!FoundWhileValid /\ Cache!AnswersAreCurrent
OnlyExpiredPurged == Cache!OnlyExpiredPurged

\* Executor, as stated there: the usage record agrees with what the caller got; the next base
\* URL is asked when it helps, and the limiter refuses neither too little nor too much.
Executed == Exec!TypeOK /\ Exec!RecordAgrees /\ Exec!FallsBack /\ Exec!LimiterExact

\* RequestTranslation, as stated there: calls and results find each other in the upstream's
\* request; the upstream can take it, and reads in it the conversation the client had.
Paired     == Req!Paired
Understood == Req!Kept /\ Req!Shaped
=============================================================================
