-------------------------- MODULE MCModelRegistry --------------------------
(***************************************************************************)
(* The models: who serves them, as the registry keeps it, how much they    *)
(* are told to think, as the registry describes them, and how the          *)
(* conversation of a websocket client reaches one; and the lists of the    *)
(* configuration that clients and models come from, as edits and reloads   *)
(* leave them.  A behaviour is about one of the four, "subject".           *)
(***************************************************************************)
EXTENDS ModelRegistry, TLC

CONSTANTS c1, c2, c3, m1, m2, p1, p2, Subjects, Routes, WishedLevels, WishedBudgets, WishedTokens,
          Families, MaxEdits, SocketAuths, SocketTurns

VARIABLES
  subject, path, wish, suffix, talk, sent,
  family, conf, file, out, pc, input, held, timer, stage, loaded, hashed, hash, dirty,
  want, crossed, astray, returned, edits,
  at, last, output, pin, request, free, able, ready, known, done, turn, said, latest, rules, told,
  meant, heard, failed, torn

Think == INSTANCE ThinkingRequest
Config == INSTANCE ConfigEdits
Socket == INSTANCE ResponsesSocket

\* One list repeats a model; unregistering is an action of its own.
Repeated == {<<>>, <<m1>>, <<m2, m1, m1>>}
Lone == {<<m1>>}

Symmetry == Permutations(Clients) \cup Permutations(Providers)

------------------------------------------------------------------------------
(* Models as internal/registry/models/models.json describes their kinds *)

Model(min, max, zero, dynamic, levels, most) ==
  [user |-> FALSE, thinks |-> TRUE, min |-> min, max |-> max, zero |-> zero, dynamic |-> dynamic,
   levels |-> levels, most |-> most, claude |-> FALSE, switch |-> FALSE]

LowHigh  == <<"low", "high">>
LowToHigh == <<"low", "medium", "high">>

Plain   == [Model(0, 0, FALSE, FALSE, <<>>, 8192) EXCEPT !.thinks = FALSE]
User    == [Model(0, 0, FALSE, FALSE, <<>>, 0) EXCEPT !.thinks = FALSE, !.user = TRUE]
Sonnet  == Model(1024, 128000, TRUE, FALSE, <<>>, 64000)
Haiku   == Model(1024, 128000, FALSE, FALSE, <<>>, 8192)
Opus    == Model(1024, 128000, TRUE, FALSE, LowToHigh \o <<"max">>, 128000)
Flash   == Model(0, 24576, TRUE, TRUE, <<>>, 65536)
Pro     == Model(128, 32768, FALSE, TRUE, <<>>, 0)
Three   == Model(128, 32768, FALSE, TRUE, LowHigh, 65535)
Gpt     == Model(0, 0, FALSE, FALSE, LowToHigh, 128000)
GptNone == Model(0, 0, FALSE, FALSE, <<"none">> \o LowToHigh \o <<"xhigh">>, 128000)
Kimi    == Model(1024, 32000, TRUE, TRUE, <<>>, 32768)
Behind  == [Model(1024, 64000, TRUE, TRUE, <<>>, 64000) EXCEPT !.claude = TRUE]
Glm     == [Model(0, 0, FALSE, FALSE, <<"none", "auto", "minimal">> \o LowToHigh \o <<"xhigh">>, 0)
              EXCEPT !.switch = TRUE]

Formats == {"claude", "gemini", "chat", "responses"}

MCRoutes ==
  ({"claude"} \X Formats \X {Sonnet, Haiku, Opus, Plain, User})
  \cup ({"gemini"} \X Formats \X {Flash, Pro, Three, Plain, User})
  \cup ({"antigravity"} \X Formats \X {Three, Behind, Plain})
  \cup ({"codex"} \X Formats \X {Gpt, GptNone, Plain, User})
  \cup ({"openai"} \X Formats \X {Gpt, User})
  \cup ({"kimi"} \X (Formats \ {"claude"}) \X {Kimi, User})
  \cup ({"iflow"} \X Formats \X {Glm, User})

MCBudgets == {-1, 0, 1, 1024, 1025, 24577, 200000}

------------------------------------------------------------------------------
thinkVars  == <<path, wish, suffix, talk, sent>>
configVars == <<family, conf, file, out, pc, input, held, timer, stage, loaded, hashed, hash, dirty,
                want, crossed, astray, returned, edits>>
socketVars == <<at, last, output, pin, request, free, able, ready, known, done, turn, said, latest,
                rules, told, meant, heard, failed, torn>>

JointInit ==
  /\ subject \in Subjects
  /\ Init /\ Think!ThinkingInit /\ Config!EditInit /\ Socket!SocketInit
  /\ subject # "thinking" => path = CHOOSE r \in Routes : TRUE
  /\ subject # "config" => family = "api-keys" /\ DOMAIN file.at = {}
  /\ subject # "socket" => able = [a \in SocketAuths |-> TRUE]

JointNext ==
  \/ subject = "registry" /\ Next /\ UNCHANGED <<subject, thinkVars, configVars, socketVars>>
  \/ subject = "thinking" /\ Think!ThinkingNext /\ UNCHANGED <<subject, vars, configVars, socketVars>>
  \/ subject = "config" /\ Config!EditNext /\ UNCHANGED <<subject, vars, thinkVars, socketVars>>
  \/ subject = "socket" /\ Socket!SocketNext /\ UNCHANGED <<subject, vars, thinkVars, configVars>>

JointSpec == JointInit /\ [][JointNext]_<<subject, vars, thinkVars, configVars, socketVars>>

\* ThinkingRequest, as stated there: what a client asks for reaches the model, in a form it
\* takes; a suffix comes before the body, and more is never less.
Carried == Think!Carried /\ Think!MoreIsMore

\* ResponsesSocket, as stated there: an upstream is given the whole conversation that the client
\* means, and the client is told once how a turn ended.
Heard == Socket!Heard /\ Socket!ToldOnce

\* ConfigEdits, as stated there: memory and the file hold what the edits amount to, and what
\* a client is shown it can send back.
ConfigKept == Config!EditsKept /\ Config!PutBack

\* ConfigEdits, as stated there: an edit of an entry or a channel leaves the others alone.
OnlyNamed == Config!OnlyNamed
==============================================================================
