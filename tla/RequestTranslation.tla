------------------------- MODULE RequestTranslation -------------------------
(***************************************************************************)
(* A request on its way to the upstream.  A conversation goes on until its *)
(* client sends it, in its own format and style, and the request is        *)
(* translated into the upstream's format.                                  *)
(***************************************************************************)
EXTENDS RequestsToGemini, RequestsToOpenAI

CONSTANTS
  RequestPairs,      \* the translators: <<upstream format, client format>>
  Functions,         \* the names of functions
  MaxParts,          \* bound on the parts of a conversation
  Habits             \* what clients may do besides: leave calls "unanswered"

VARIABLES
  systems, turns,    \* the conversation: the number of its system texts, and its turns
  route, style,      \* once it is sent: the translator and the client's style
  source, request    \* the client's request, and the upstream's

requestVars == <<systems, turns, route, style, source, request>>

NotSent == <<"none", "none">>

Plain == [ids |-> "foreign", spelling |-> "camel", named |-> TRUE, results |-> "user",
          system |-> "system", signed |-> TRUE]

RequestInit ==
  /\ systems \in 0..2
  /\ turns = <<>>
  /\ route = NotSent /\ style = Plain
  /\ source = <<>> /\ request = <<>>

SystemTexts == [i \in 1..systems |-> Text(i - 3)]
Said        == Len(AllParts(turns))
OpenCalls   == IF turns = <<>> THEN <<>> ELSE Only(Last(turns).parts, {"call"})

\* The parts of a turn are numbered on.
Numbered(parts) == [i \in DOMAIN parts |-> IF parts[i].kind = "result" THEN parts[i]
                                           ELSE [parts[i] EXCEPT !.of = Said + i]]
New(kind) == <<Part(kind, 0, <<>>, <<>>)>>
CallOf(f) == <<Part("call", 0, <<>>, <<f>>)>>
ResultOf(call) == [call EXCEPT !.kind = "result"]

Takes(role, parts) ==
  /\ route = NotSent
  /\ parts # <<>> /\ Said + Len(parts) <= MaxParts
  /\ turns' = Append(turns, Message(role, Numbered(parts)))
  /\ UNCHANGED <<systems, route, style, source, request>>

\* The user answers the calls, in any order, and may go on.
User ==
  /\ turns # <<>> => Last(turns).role = "assistant"
  /\ \E results \in {Each(OpenCalls, ResultOf), Reverse(Each(OpenCalls, ResultOf))}
                      \cup (IF "unanswered" \in Habits THEN {<<>>} ELSE {}) :
       \E text \in {<<>>, New("text")}, image \in {<<>>, New("image")} :
         Takes("user", results \o text \o image)

Assistant ==
  /\ turns # <<>> /\ Last(turns).role = "user"
  /\ \E thinking \in {<<>>, New("thinking")}, text \in {<<>>, New("text")},
        calls \in {<<>>} \cup {CallOf(f) : f \in Functions}
                    \cup {CallOf(f) \o CallOf(g) : f \in Functions, g \in Functions} :
       Takes("assistant", thinking \o text \o calls)

------------------------------------------------------------------------------
(***************************************************************************)
(* The requests of the other formats as requests of the Claude API         *)
(* (internal/translator/claude).  Claude's system prompt is not used: the  *)
(* system texts become a user message.                                     *)
(***************************************************************************)
------------------------------------------------------------------------------
(* From chat completions *)

\* All system messages become one user message, at the place of the first; a developer's
\* message is no case at all.
SystemFirst(messages) ==
  LET system(i) == messages[i].role = "system"
      first(i)  == system(i) /\ \A j \in 1..i - 1 : ~system(j)
      texts     == AllParts(SelectSeq(messages, LAMBDA m : m.role = "system"))
  IN FlattenSeq([i \in DOMAIN messages |->
       CASE first(i)                        -> <<Message("user", Only(texts, {"text"}))>>
         [] system(i) /\ ~first(i)          -> <<>>
         [] messages[i].role = "developer"  -> <<>>
         [] OTHER                           -> <<messages[i]>>])

\* A message that is left without content is sent all the same.
ConvertOpenAIRequestToClaude(r) ==
  Translation(<<>>,
              Each(Roles(SystemFirst(r.messages), {"tool"}, "user"),
                   LAMBDA m : [m EXCEPT !.parts = Only(@, {"text", "image", "call", "result"})]),
              r.tools \ {"search"},
              IF r.choice = "none" THEN "unset" ELSE r.choice)

------------------------------------------------------------------------------
(* From the Responses API *)

\* Without instructions the first system item stands for them, and all system items are left out.
Instructions(r) ==
  LET system == SelectSeq(r.messages, LAMBDA m : m.role = "system")
  IN IF r.system # <<>> \/ system = <<>>
       THEN [texts |-> r.system, rest |-> r.messages]
       ELSE [texts |-> Head(system).parts,
             rest |-> SelectSeq(r.messages, LAMBDA m : m.role # "system")]

\* What the content is tells the role of a message: input text is the user's.
ItemToClaude(item) ==
  CASE item.role \in {"user", "system", "developer", "assistant"} ->
         One(IF item.role = "assistant" THEN "assistant" ELSE "user", Only(item.parts, {"text", "image"}))
    [] item.role = "function_call"        -> <<Message("assistant", item.parts)>>
    [] item.role = "function_call_output" -> <<Message("user", item.parts)>>
    [] OTHER -> <<>>

\* A tool of OpenAI's own is sent as one without a name, and the function a choice names is
\* looked for where chat completions have it.
ConvertOpenAIResponsesRequestToClaude(r) ==
  Translation(<<>>,
              One("user", Instructions(r).texts) \o EachFlat(Instructions(r).rest, ItemToClaude),
              {IF tool = "search" THEN "nameless" ELSE tool : tool \in r.tools},
              CASE r.choice = "none"  -> "unset"
                [] r.choice = "named" -> "nameless"
                [] OTHER              -> r.choice)

------------------------------------------------------------------------------
(* From Gemini and the Gemini CLI *)

\* A thought is a text like any other.  Each field is read in one spelling only: the tools'
\* in camel, the images and the choice in snake.
ThoughtsAsTexts(parts) ==
  Each(parts, LAMBDA part : IF part.kind = "thinking" THEN [part EXCEPT !.kind = "text"] ELSE part)

Read(r, parts) == ThoughtsAsTexts(Unlike(parts, IF r.spelling = "snake" THEN {} ELSE {"image"}))

GeminiContents(r) ==
  Roles(Roles(IDsInOrder(r.messages), {"model"}, "assistant"), {"function", "tool"}, "user")

GeminiToClaude(r, system) ==
  Translation(<<>>,
       One("user", system)
         \o NonEmpty(Each(GeminiContents(r), LAMBDA m : [m EXCEPT !.parts = Read(r, @)])),
       IF r.spelling = "camel" THEN r.tools \ {"search"} ELSE {},
       CASE r.spelling = "camel" -> "unset"
         [] r.choice = "named"   -> "required"
         [] OTHER                -> r.choice)

ConvertGeminiRequestToClaude(r) ==
  GeminiToClaude(r, IF r.spelling = "snake" THEN r.system ELSE <<>>)

\* The wrapped request, its system instruction respelled
ConvertGeminiCLIRequestToClaude(r) == GeminiToClaude(r, r.system)

------------------------------------------------------------------------------
(* What clients send *)

Styles(client) ==
  CASE client = "claude" -> {[Plain EXCEPT !.ids = ids, !.signed = signed] :
                               ids \in {"foreign", "counted", "counted two"}, signed \in BOOLEAN}
    [] client \in {"gemini", "gemini-cli"} ->
         {[Plain EXCEPT !.spelling = spelling, !.named = named, !.results = role] :
            spelling \in {"camel", "snake"}, named \in BOOLEAN, role \in {"user", "function"}}
    [] client = "chat" -> {[Plain EXCEPT !.system = role] : role \in {"system", "developer"}}
    [] client = "responses" ->
         {[Plain EXCEPT !.system = place] : place \in {"instructions", "system", "developer"}}

\* A client whose style makes no difference here has the plain one.
Differs(s) ==
  LET has(kind) == Only(AllParts(turns), {kind}) # <<>>
  IN /\ s.system # Plain.system => systems > 0
     /\ s.ids # Plain.ids => has("call")
     /\ s.signed # Plain.signed => has("thinking")
     /\ s.named # Plain.named \/ s.results # Plain.results => has("result")

\* The first request of a conversation shows what becomes of tools and their choice.
Asked ==
  IF Len(turns) > 1 \/ systems > 0 THEN {[tools |-> {}, choice |-> "unset"]}
  ELSE [tools : SUBSET {"function", "search"}, choice : {"unset", "auto", "none", "required", "named"}]

ClientRequest(client, asked, s) ==
  CASE client = "claude"                   -> ClaudeRequest(SystemTexts, turns, asked, s)
    [] client \in {"gemini", "gemini-cli"} -> GeminiRequest(SystemTexts, turns, asked, s)
    [] client = "chat"                     -> ChatRequest(SystemTexts, turns, asked, s)
    [] client = "responses"                -> ResponsesRequest(SystemTexts, turns, asked, s)

Converted(pair, r) ==
  CASE pair = <<"claude", "chat">>           -> ConvertOpenAIRequestToClaude(r)
    [] pair = <<"claude", "responses">>      -> ConvertOpenAIResponsesRequestToClaude(r)
    [] pair = <<"claude", "gemini">>         -> ConvertGeminiRequestToClaude(r)
    [] pair = <<"claude", "gemini-cli">>     -> ConvertGeminiCLIRequestToClaude(r)
    [] pair = <<"gemini", "claude">>         -> ConvertClaudeRequestToGemini(r)
    [] pair = <<"gemini", "chat">>           -> ConvertOpenAIRequestToGemini(r)
    [] pair = <<"gemini", "responses">>      -> ConvertOpenAIResponsesRequestToGemini(r)
    [] pair = <<"gemini", "gemini">>         -> ConvertGeminiRequestToGemini(r)
    [] pair = <<"gemini", "gemini-cli">>     -> ConvertGeminiCLIRequestToGemini(r)
    [] pair = <<"gemini-cli", "claude">>     -> ConvertClaudeRequestToCLI(r)
    [] pair = <<"gemini-cli", "chat">>       -> ConvertOpenAIRequestToGeminiCLI(r)
    [] pair = <<"gemini-cli", "responses">>  -> ConvertOpenAIResponsesRequestToGeminiCLI(r)
    [] pair = <<"gemini-cli", "gemini">>     -> ConvertGeminiRequestToGeminiCLI(r)
    [] pair = <<"antigravity", "claude">>    -> ConvertClaudeRequestToAntigravity(r)
    [] pair = <<"antigravity", "chat">>      -> ConvertOpenAIRequestToAntigravity(r)
    [] pair = <<"antigravity", "responses">> -> ConvertOpenAIResponsesRequestToAntigravity(r)
    [] pair = <<"antigravity", "gemini">>    -> ConvertGeminiRequestToAntigravity(r)
    [] pair = <<"openai", "claude">>         -> ConvertClaudeRequestToOpenAI(r)
    [] pair \in {"openai"} \X {"gemini", "gemini-cli"} -> ConvertGeminiRequestToOpenAI(r)
    [] pair = <<"openai", "responses">>      -> ConvertOpenAIResponsesRequestToOpenAIChatCompletions(r)
    [] pair = <<"codex", "claude">>          -> ConvertClaudeRequestToCodex(r)
    [] pair = <<"codex", "chat">>            -> ConvertOpenAIRequestToCodex(r)
    [] pair = <<"codex", "gemini">>          -> ConvertGeminiRequestToCodex(r)
    [] pair = <<"codex", "gemini-cli">>      -> ConvertGeminiCLIRequestToCodex(r)
    [] pair = <<"codex", "responses">>       -> ConvertOpenAIResponsesRequestToCodex(r)

\* A client without IDs answers in the order of the calls.
InCallOrder ==
  \A i \in DOMAIN turns : LET results == Only(turns[i].parts, {"result"}) IN
    results # <<>> => results = Each(Only(turns[i - 1].parts, {"call"}), ResultOf)

Send(pair) ==
  /\ route = NotSent /\ turns # <<>> /\ Last(turns).role = "user"
  /\ pair[2] \in {"gemini", "gemini-cli"} => InCallOrder
  /\ \E s \in Styles(pair[2]), asked \in Asked :
       /\ Differs(s)
       /\ LET r == ClientRequest(pair[2], asked, s)
          IN source' = r /\ request' = Converted(pair, r)
       /\ style' = s
  /\ route' = pair
  /\ UNCHANGED <<systems, turns>>

RequestNext == User \/ Assistant \/ \E pair \in RequestPairs : Send(pair)

RequestSpec == RequestInit /\ [][RequestNext]_requestVars

------------------------------------------------------------------------------
(* Who answers whom *)

Upstream   == route[1]
GeminiLike == {"gemini", "gemini-cli", "antigravity"}
Unanswered == \E i \in DOMAIN turns :
  turns[i].role = "user" /\ i > 1 /\ Only(turns[i].parts, {"result"}) = <<>>
    /\ Only(turns[i - 1].parts, {"call"}) # <<>>

Calls(m)   == Only(m.parts, {"call"})
Results(m) == Only(m.parts, {"result", "placeholder"})

\* By the IDs where there are any, else by the names in their order.
Answered(calls, results) ==
  LET with(parts, name) == SelectSeq(parts, LAMBDA part : part.name = name)
      ofs(parts)        == Each(parts, LAMBDA part : part.of)
  IN /\ Len(calls) = Len(results)
     /\ IF \A i \in DOMAIN calls : calls[i].id # <<>>
          THEN \A i \in DOMAIN calls : \E j \in DOMAIN results :
                 /\ \A k \in DOMAIN results : results[k].id = calls[i].id <=> k = j
                 /\ results[j].of = calls[i].of
          ELSE \A i \in DOMAIN calls :
                 ofs(with(calls, calls[i].name)) = ofs(with(results, calls[i].name))

\* The messages an upstream takes as one: Claude those of one side, chat completions the
\* results in a row, Codex the whole list.
Together(m, n) ==
  CASE Upstream = "claude" -> m.role = n.role
    [] Upstream = "openai" -> m.role = "tool" /\ n.role = "tool"
    [] OTHER               -> FALSE

Merged(messages, Joined(_, _)) ==
  FoldLeft(LAMBDA done, m : IF done # <<>> /\ Joined(Last(done), m)
                              THEN [done EXCEPT ![Len(done)].parts = @ \o m.parts] ELSE Append(done, m),
           <<>>, messages)

\* Calls are answered by the very next message, results answer the one before.
AnsweredNext(messages) ==
  \A i \in 0..Len(messages) :
    LET calls   == IF i = 0 THEN <<>> ELSE Calls(messages[i])
        results == IF i = Len(messages) THEN <<>> ELSE Results(messages[i + 1])
    IN Answered(calls, results)

WellPaired ==
  IF Upstream = "codex" THEN Answered(Calls(Message("", AllParts(request.messages))),
                                      Results(Message("", AllParts(request.messages))))
  ELSE AnsweredNext(Merged(request.messages, Together))

------------------------------------------------------------------------------
(* What the upstream reads *)

Side(m) == CASE m.role \in {"user", "tool", "function", "function_call_output"} -> "user"
             [] m.role \in {"assistant", "model", "function_call", "reasoning"} -> "assistant"
             [] OTHER -> "system"

SameSide(m, n) == m.role = n.role

\* The turns of a request, whatever roles and messages a format gives them
TurnsOf(messages, kinds) ==
  Merged(NonEmpty(Each(messages, LAMBDA m : Message(Side(m), SelectSeq(m.parts, LAMBDA part :
           part.of > 0 /\ part.kind \in kinds)))), SameSide)

SystemOf(r) == Each(r.system \o SelectSeq(AllParts(r.messages), LAMBDA part : part.of < 0),
                    LAMBDA part : part.of)

Kinds == {"text", "image", "thinking", "unsigned", "call", "result"}

Ofs(parts, kinds) == Each(Only(parts, kinds), LAMBDA part : part.of)

\* Turn by turn the same texts, images and calls in the same order, and the same results
SameTurns(one, other) ==
  /\ Len(one) = Len(other)
  /\ \A i \in DOMAIN one :
       /\ one[i].role = other[i].role
       /\ \A kinds \in {{"text"}, {"image"}, {"thinking", "unsigned"}, {"call"}} :
            Ofs(one[i].parts, kinds) = Ofs(other[i].parts, kinds)
       /\ ToSet(Ofs(one[i].parts, {"result"})) = ToSet(Ofs(other[i].parts, {"result"}))

------------------------------------------------------------------------------
(* Properties *)

Answers(i)    == i \in DOMAIN turns /\ Only(turns[i].parts, {"result"}) # <<>>
Answering     == \E i \in DOMAIN turns : Answers(i)
SeveralAtOnce == \E i \in DOMAIN turns : Len(Only(turns[i].parts, {"result"})) > 1

\* Two calls of one function are answered the other way round.
Crossed == \E i \in DOMAIN turns :
  LET results == Only(turns[i].parts, {"result"})
  IN \E j, k \in DOMAIN results :
       j < k /\ results[j].name = results[k].name /\ results[j].of > results[k].of

GeminiClients == {"gemini", "gemini-cli"}

\* Where calls and results are known not to find each other: OpenAI's upstream gets one ID for
\* all results of a Gemini client, and a message for each call of a Responses client; names are
\* read out of IDs that do not have them.
Mispairs ==
  \/ Unanswered /\ route \notin GeminiLike \X {"chat"}
  \/ SeveralAtOnce /\ route \in {"openai"} \X (GeminiClients \cup {"responses"})
  \/ ~style.named /\ route = <<"gemini", "gemini-cli">>
  \/ Crossed /\ route \in {"gemini", "gemini-cli"} \X {"claude"}
  \/ Answering /\ style.ids = "foreign" /\ route = <<"gemini", "claude">>
  \/ Answering /\ style.ids # "counted" /\ route = <<"gemini-cli", "claude">>

(***************************************************************************)
(* In the request that is sent up every call is followed by its own result *)
(* and every result answers a call, as the upstream reads them, except for *)
(* the cases above, which fail in each instance.                           *)
(***************************************************************************)
Paired == route # NotSent => (WellPaired <=> ~Mispairs)

\* What a translator leaves out: thinking of another provider's, images it does not read
Dropped ==
  (IF \/ route \in {"claude", "openai"} \X {"responses"}
      \/ route \in {"gemini", "gemini-cli", "codex"} \X {"claude"}
      \/ route = <<"antigravity", "claude">> /\ ~style.signed
      \/ route[2] = "chat"
     THEN {"thinking"} ELSE {})
  \cup
  (IF \/ route \in {"claude"} \X GeminiClients /\ style.spelling = "camel"
      \/ route \in {"openai"} \X GeminiClients /\ style.spelling = "snake"
      \/ route \in {"codex"} \X GeminiClients
     THEN {"image"} ELSE {})

\* What a turn says to the upstream: a Gemini client's thoughts are texts, and results are taken
\* alone where they are regrouped.
Heard(parts) ==
  LET kept == IF route \in {"gemini-cli", "antigravity"} \X {"gemini"} /\ Only(parts, {"result"}) # <<>>
                THEN Only(parts, {"result"}) ELSE Unlike(parts, Dropped)
  IN IF route \in {"claude", "openai", "codex"} \X GeminiClients THEN ThoughtsAsTexts(kept) ELSE kept

\* A Responses client's calls are answered one by one in Gemini's request.
OneByOne ==
  EachFlat([i \in DOMAIN turns |-> i], LAMBDA i :
    LET rest == Unlike(turns[i].parts, {"call", "result"})
    IN IF Answers(i + 1)
         THEN <<Message("assistant", rest)>>
                \o EachFlat(Only(turns[i].parts, {"call"}), LAMBDA call :
                      <<Message("assistant", <<call>>), Message("user", <<ResultOf(call)>>)>>)
         ELSE <<Message(turns[i].role, IF Answers(i) THEN rest ELSE turns[i].parts)>>)

Conversation == IF route \in GeminiLike \X {"responses"} THEN OneByOne ELSE turns

LosesSystem ==
  \/ systems > 0 /\ route = <<"claude", "chat">> /\ style.system = "developer"
  \/ systems = 2 /\ route = <<"claude", "responses">> /\ style.system = "system"
  \/ systems > 0 /\ route \in {"claude", "codex"} \X {"gemini"} /\ style.spelling = "camel"

\* Behind calls that nobody answered, results are given to other calls or to none.
Regroups == Unanswered /\ route \in {"gemini-cli", "antigravity"} \X {"gemini"}

(***************************************************************************)
(* The upstream reads the conversation the client had: the same turns in   *)
(* the same order with the same parts, but for what the translator leaves  *)
(* out, and the system texts, except where they are known to be lost.      *)
(***************************************************************************)
Kept ==
  route # NotSent =>
    /\ SystemOf(request) = Each(SystemTexts, LAMBDA part : part.of) <=> ~LosesSystem
    /\ Regroups \/ SameTurns(TurnsOf(request.messages, Kinds),
         TurnsOf(Each(Conversation, LAMBDA t : [t EXCEPT !.parts = Heard(@)]), Kinds))

LegalRoles ==
  CASE Upstream = "claude"     -> {"user", "assistant"}
    [] Upstream \in GeminiLike -> {"user", "model"}
    [] Upstream = "openai"     -> {"system", "user", "assistant", "tool"}
    [] Upstream = "codex"      -> {"developer", "user", "assistant", "function_call",
                                   "function_call_output", "reasoning"}

Acceptable ==
  /\ \A i \in DOMAIN request.messages : LET m == request.messages[i] IN
       /\ m.role \in LegalRoles
       /\ m.parts # <<>>
       /\ Side(m) = "assistant" => \A j \in DOMAIN m.parts : m.parts[j].of > 0
  /\ "nameless" \notin request.tools
  /\ request.choice \in {"unset", "auto", "none", "required", "named"}
  /\ request.choice \in {"required", "named"} /\ "function" \in source.tools =>
       "function" \in request.tools

DeveloperRole == style.system = "developer" /\ systems > 0
FunctionRole == style.results = "function" /\ Answering

TurnOf(role, kinds) ==
  \E i \in DOMAIN turns : turns[i].role = role /\ Unlike(turns[i].parts, kinds) = <<>>

\* Requests an upstream is known to get that it does not accept: roles Gemini and chat completions
\* do not know, messages without content, a second developer's text in the model's mouth, tools
\* and choices without a name, and a choice without its tools
Misshapes ==
  \/ route = <<"gemini", "responses">> /\ (DeveloperRole \/ Answering)
  \/ route \in {"gemini-cli", "antigravity"} \X {"responses"} /\ DeveloperRole /\ systems = 2
  \/ FunctionRole /\ route \in {<<"gemini", "gemini-cli">>} \cup ({"openai"} \X GeminiClients)
  \/ /\ FunctionRole /\ route \in {"codex"} \X GeminiClients
     /\ \E i \in DOMAIN turns : Answers(i) /\ Only(turns[i].parts, {"text"}) # <<>>
  \/ TurnOf("assistant", {"thinking"}) /\ route \in {"gemini", "gemini-cli"} \X {"claude"}
  \/ TurnOf("user", {"result"} \cup Dropped) /\ route \in {"openai"} \X GeminiClients
  \/ route = <<"claude", "responses">> /\ ("search" \in source.tools \/ source.choice = "named")
  \/ route = <<"openai", "responses">> /\ source.choice = "named"
  \/ /\ route \in {"claude"} \X GeminiClients /\ style.spelling = "snake"
     /\ "function" \in source.tools /\ source.choice \in {"required", "named"}

(***************************************************************************)
(* The request has the shape its upstream asks for: roles it knows, no     *)
(* message without content, no system text said by the assistant, tools    *)
(* and a choice of them it can use, except for the cases above.            *)
(***************************************************************************)
Shaped == route # NotSent => (Acceptable <=> ~Misshapes)
=============================================================================
