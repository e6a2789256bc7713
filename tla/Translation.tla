---------------------------- MODULE Translation ----------------------------
(***************************************************************************)
(* A streamed response on its way through a translator: the upstream sends *)
(* the chunks of its format, the executor hands each to the translator,    *)
(* and the events that come out reach a client of the format asked for.    *)
(*                                                                         *)
(* The upstreams are external: a chunk carries at most a piece or two, and *)
(* "response" is the whole of what was sent, which a request without       *)
(* streaming would have got at once.                                       *)
(***************************************************************************)
EXTENDS ToResponses

CONSTANTS
  Pairs,      \* the translators: <<upstream format, client format>>
  MaxBlocks,  \* bound on the blocks, parts or items of a response
  MaxPieces,  \* bound on the pieces of a block
  Quirks      \* what an upstream may do besides: send an "empty text" that ends nothing, or "no
                \* count" of the tokens, several texts "alike", its blocks in "any order", "two calls"

VARIABLES
  pair,       \* the translator of this response
  response,   \* history: what the upstream has sent
  state,      \* of the upstream: "before", "within", "finished", "over", "cut"
  p,          \* the translator's parameter
  client,     \* what the client has made of the events
  chunk       \* the last chunk sent

vars == <<pair, response, state, p, client, chunk>>

From == pair[1]
To   == pair[2]
Gemini == {"gemini", "gemini-cli", "antigravity"}

ParamInit ==
  CASE pair = <<"codex", "claude">> -> CodexToClaudeInit
    [] pair \in {<<"gemini", "claude">>, <<"gemini-cli", "claude">>} -> GeminiToClaudeInit
    [] pair = <<"antigravity", "claude">> -> AntigravityToClaudeInit
    [] pair = <<"openai", "claude">> -> OpenAIToClaudeInit
    [] pair = <<"codex", "chat">> -> CodexToChatInit
    [] pair = <<"claude", "chat">> -> ClaudeToChatInit
    [] pair \in Gemini \X {"chat"} -> GeminiToChatInit
    [] pair = <<"codex", "gemini">> -> CodexToGeminiInit
    [] pair = <<"claude", "gemini">> -> ClaudeToChatInit
    [] pair = <<"openai", "gemini">> -> OpenAIToGeminiInit
    [] pair \in Gemini \X {"gemini"} -> <<>>
    [] pair = <<"claude", "responses">> -> ClaudeToResponsesInit
    [] pair \in Gemini \X {"responses"} -> GeminiToResponsesInit
    [] pair = <<"openai", "responses">> -> OpenAIToResponsesInit

Translated(c) ==
  CASE pair = <<"codex", "claude">> -> CodexToClaude(p, c)
    [] pair = <<"gemini", "claude">> -> GeminiToClaude(p, c)
    [] pair = <<"gemini-cli", "claude">> -> GeminiCLIToClaude(p, c)
    [] pair = <<"antigravity", "claude">> -> AntigravityToClaude(p, c)
    [] pair = <<"openai", "claude">> -> OpenAIToClaude(p, c)
    [] pair = <<"codex", "chat">> -> CodexToChat(p, c)
    [] pair = <<"claude", "chat">> -> ClaudeToChat(p, c)
    [] pair = <<"gemini", "chat">> -> GeminiToChat(p, c)
    [] pair = <<"gemini-cli", "chat">> -> GeminiCLIToChat(p, c)
    [] pair = <<"antigravity", "chat">> -> AntigravityToChat(p, c)
    [] pair = <<"codex", "gemini">> -> CodexToGemini(p, c)
    [] pair = <<"claude", "gemini">> -> ClaudeToGemini(p, c)
    [] pair = <<"openai", "gemini">> -> OpenAIToGemini(p, c)
    [] pair = <<"gemini", "gemini">> -> GeminiToGemini(p, c)
    [] pair = <<"gemini-cli", "gemini">> -> GeminiCLIToGemini(p, c)
    [] pair = <<"antigravity", "gemini">> -> AntigravityToGemini(p, c)
    [] pair = <<"claude", "responses">> -> ClaudeToResponses(p, c)
    [] pair \in Gemini \X {"responses"} -> GeminiToResponses(p, c)
    [] pair = <<"openai", "responses">> -> OpenAIToResponses(p, c)

NothingSent ==
  CASE From = "codex" -> [items |-> <<>>, open |-> "none", reason |-> "none"]
    [] From = "claude" -> [blocks |-> <<>>, open |-> FALSE, stop |-> "none"]
    [] From \in Gemini -> [parts |-> <<>>, finish |-> "none", usage |-> FALSE]
    [] From = "openai" -> [text |-> 0, thinking |-> 0, calls |-> <<>>, finish |-> "none", usage |-> FALSE]

Init ==
  /\ pair \in Pairs
  /\ response = NothingSent
  /\ state = "before"
  /\ p = ParamInit /\ chunk = <<>>
  /\ client = CASE To = "claude" -> ClaudeWaits
                 [] To = "chat" -> ChatWaits
                 [] To = "gemini" -> GeminiWaits
                 [] To = "responses" -> ResponsesWaits

Sends(c) == chunk' = c

\* What a client makes of events
Sees(events) ==
  CASE To = "claude" -> FoldLeft(ClaudeSees, client, events)
    [] To = "chat" -> FoldLeft(ChatSees, client, events)
    [] To = "gemini" -> FoldLeft(GeminiSees, client, events)
    [] To = "responses" -> FoldLeft(ResponsesSees, client, events)

Hand(r) == p' = r.p /\ client' = Sees(r.out) /\ UNCHANGED pair

\* The executor's loop: translate, and send what comes out.
Feed == Hand(Translated(chunk'))

\* The plain order of a response: its thinking, its text, its calls.  These translators
\* keep less of another.
InOrder(sent, kind) ==
  \/ "any order" \in Quirks
  \/ To # "responses" /\ pair # <<"codex", "gemini">>
  \/ CASE kind = "thinking" -> sent \subseteq {"thinking"}
       [] kind = "text" -> sent \subseteq {"thinking", "text"}
       [] kind = "tool" -> TRUE
Kinds(parts) == {parts[i].kind : i \in DOMAIN parts}

------------------------------------------------------------------------------
(* Codex: the items one after the other, each with its parts or its arguments *)

CodexEvent(type, kind, n) == [type |-> type, kind |-> kind, n |-> n]
CodexItemOf(kind) == [kind |-> kind, n |-> 0, parts |-> <<>>]   \* parts: the pieces of each
Item == Last(response.items)

CodexStarts ==
  /\ state = "before"
  /\ state' = "within" /\ UNCHANGED response
  /\ Sends(CodexEvent("created", "none", 0))

CodexItem(kind) ==
  /\ state = "within" /\ response.open = "none" /\ Len(response.items) < MaxBlocks
  /\ InOrder(Kinds(response.items), kind)
  /\ response' = [response EXCEPT !.items = Append(@, CodexItemOf(kind)), !.open = "item"]
  /\ Sends(CodexEvent("item.added", kind, 0)) /\ UNCHANGED state

\* A part may be empty; there are no more parts than pieces.
CodexPart ==
  /\ state = "within" /\ Item.kind # "tool"
  /\ \/ response.open = "item" /\ Len(Item.parts) < MaxPieces
        /\ Sends(CodexEvent("part.added", Item.kind, 0))
        /\ response' = [response EXCEPT !.open = "part", !.items[Len(response.items)].parts = Append(@, 0)]
     \/ response.open = "part" /\ Sends(CodexEvent("part.done", Item.kind, Last(Item.parts)))
        /\ response' = [response EXCEPT !.open = "item"]
  /\ UNCHANGED state

Grown == [response EXCEPT !.items[Len(response.items)].n = @ + 1]
PartGrown == [Grown EXCEPT !.items[Len(response.items)].parts[Len(Item.parts)] = @ + 1]

CodexDelta ==
  /\ state = "within" /\ Item.n < MaxPieces
  /\ \/ Item.kind = "tool" /\ response.open = "item"
        /\ response' = Grown /\ Sends(CodexEvent("arguments.delta", "tool", 1))
     \/ response.open = "part"
        /\ response' = PartGrown /\ Sends(CodexEvent("text.delta", Item.kind, 1))
  /\ UNCHANGED state

\* The arguments are whole in the done event, and may come with it alone.
CodexArguments ==
  /\ state = "within" /\ response.open = "item" /\ Item.kind = "tool"
  /\ \E whole \in IF Item.n = 0 THEN {response, Grown} ELSE {response} :
       /\ response' = [whole EXCEPT !.open = "arguments"]
       /\ Sends(CodexEvent("arguments.done", "tool", Last(whole.items).n))
  /\ UNCHANGED state

CodexItemDone ==
  /\ state = "within"
  /\ response.open = IF Item.kind = "tool" THEN "arguments" ELSE "item"
  /\ response' = [response EXCEPT !.open = "none"]
  /\ Sends(CodexEvent("item.done", Item.kind, Item.n)) /\ UNCHANGED state

\* It may give a reason, one the translators know or another.
CodexCompleted ==
  /\ state = "within" /\ response.open = "none"
  /\ \E reason \in {"none", "stop", "max_tokens", "other"} :
       response' = [response EXCEPT !.reason = reason] /\ Sends(CodexEvent("completed", reason, 0))
  /\ state' = "over"

Codex ==
  /\ From = "codex"
  /\ \/ CodexStarts \/ \E kind \in {"text", "thinking", "tool"} : CodexItem(kind)
     \/ response.open # "none" /\ (CodexPart \/ CodexDelta \/ CodexArguments \/ CodexItemDone)
     \/ CodexCompleted

------------------------------------------------------------------------------
(* Claude: its blocks one after the other *)

ClaudeStarts ==
  /\ state = "before"
  /\ state' = "within" /\ UNCHANGED response
  /\ Sends(MessageStart)

Index == Len(response.blocks) - 1

ClaudeBlock(kind) ==
  /\ state = "within" /\ ~response.open /\ Len(response.blocks) < MaxBlocks
  /\ InOrder(Kinds(response.blocks), kind)
  /\ To = "responses" /\ "alike" \notin Quirks => kind = "tool" \/ kind \notin Kinds(response.blocks)
  /\ response' = [response EXCEPT !.blocks = Append(@, Sized(kind, 0)), !.open = TRUE]
  /\ Sends(BlockStart(Index + 1, kind)) /\ UNCHANGED state

\* The signature of a thinking block is an empty delta here.
ClaudeDelta ==
  /\ state = "within" /\ response.open
  /\ \E n \in {0, 1} :
       /\ Last(response.blocks).n + n <= MaxPieces
       /\ response' = [response EXCEPT !.blocks[Len(response.blocks)].n = @ + n]
       /\ Sends(BlockDelta(Index, Last(response.blocks).kind, n))
  /\ UNCHANGED state

ClaudeBlockStop ==
  /\ state = "within" /\ response.open
  /\ response' = [response EXCEPT !.open = FALSE]
  /\ Sends(BlockStop(Index)) /\ UNCHANGED state

ClaudeReason ==
  /\ state = "within" /\ ~response.open
  /\ \E stop \in IF Kind(response.blocks, "tool") # <<>> THEN {"tool_use"} ELSE {"end_turn", "max_tokens"} :
       response' = [response EXCEPT !.stop = stop] /\ Sends(MessageDelta(stop))
  /\ state' = "finished"

ClaudeStops ==
  /\ state = "finished"
  /\ state' = "over" /\ UNCHANGED response
  /\ Sends(MessageStop)

Claude ==
  /\ From = "claude"
  /\ \/ ClaudeStarts \/ \E kind \in {"text", "thinking", "tool"} : ClaudeBlock(kind)
     \/ ClaudeDelta \/ ClaudeBlockStop \/ ClaudeReason \/ ClaudeStops

------------------------------------------------------------------------------
(* Gemini and its relatives: parts, and with the last chunk the finish reason *)

GeminiEvent(parts, finish, usage, done) == [parts |-> parts, finish |-> finish, usage |-> usage, done |-> done]
Part(kind, n, named, signed) == [kind |-> kind, n |-> n, named |-> named, signed |-> signed]

\* The thinking that an Antigravity part signs is the one before it.
Signed(parts) == parts # <<>> /\ Last(parts).kind = "thinking"

AnyPart(sent, last) ==
  {Part("text", 1, TRUE, FALSE), Part("thinking", 1, TRUE, FALSE)}
  \cup {Part("tool", n, TRUE, FALSE) : n \in {0, 1}}
  \cup (IF From # "antigravity" \/ last \/ "empty text" \in Quirks THEN {Part("text", 0, TRUE, FALSE)} ELSE {})
  \cup (IF pair = <<"gemini", "claude">> /\ sent # <<>> /\ Last(sent).kind = "tool" /\ Last(sent).n < MaxPieces
          THEN {Part("tool", 1, FALSE, FALSE)} ELSE {})
  \cup (IF From = "antigravity" /\ Signed(sent) THEN {Part("thinking", 0, TRUE, TRUE)} ELSE {})

Parts(sent, last) == {part \in AnyPart(sent, last) : InOrder(Kinds(sent), part.kind)}

\* A call without a name goes on with the one before.
Received(parts, part) ==
  IF part.kind = "tool" /\ ~part.named
    THEN [parts EXCEPT ![Len(parts)].n = @ + 1]
    ELSE Append(parts, part)

\* The chat translators keep one text of a kind, and count one call, per chunk.
Fits(a, b) == To # "chat" \/ "alike" \in Quirks \/ a.kind # b.kind

Chunks(sent, last) ==
  LET first == Parts(sent, last)
  IN {<<>>} \cup {<<a>> : a \in first}
     \cup UNION {{<<a, b>> : b \in {q \in Parts(Received(sent, a), last) : Fits(a, q)}} : a \in first}

GeminiChunk(new, finish, usage) ==
  /\ state \in {"before", "within"}
  /\ Len(response.parts) + Len(new) <= MaxBlocks
  /\ response' = [parts |-> FoldLeft(Received, response.parts, new), finish |-> finish, usage |-> usage]
  /\ state' = IF finish = "none" THEN "within" ELSE "finished"
  /\ Sends(GeminiEvent(new, finish, usage, FALSE))

\* Antigravity may tell the usage after the reason; antigravity/chat needs it told.
GeminiUsage ==
  /\ From = "antigravity" /\ state = "finished" /\ ~response.usage
  /\ response' = [response EXCEPT !.usage = TRUE]
  /\ Sends(GeminiEvent(<<>>, "none", TRUE, FALSE)) /\ UNCHANGED state

\* The executor's own [DONE]: also after a scan error.
GeminiDone ==
  /\ state \in {"before", "within", "finished"}
  /\ state = "finished" => response.usage \/ To # "chat" \/ "no count" \in Quirks
  /\ state' = IF state = "finished" THEN "over" ELSE "cut"
  /\ Sends(GeminiEvent(<<>>, "none", FALSE, TRUE)) /\ UNCHANGED response

GeminiStep ==
  /\ From \in Gemini
  /\ \/ \E finish \in {"none", "STOP", "MAX_TOKENS"} :
          \E new \in Chunks(response.parts, finish # "none") :
            \E usage \in IF finish = "none" THEN {FALSE}
                         ELSE IF From = "antigravity" \/ "no count" \in Quirks THEN BOOLEAN ELSE {TRUE} :
              GeminiChunk(new, finish, usage)
     \/ GeminiUsage \/ GeminiDone

------------------------------------------------------------------------------
(* OpenAI chat completions *)

OpenAIEvent(delta, thinking, text, calls, finish, usage, done) ==
  [delta |-> delta, thinking |-> thinking, text |-> text, calls |-> calls, finish |-> finish,
   usage |-> usage, done |-> done]
Call(index, named, n) == [index |-> index, named |-> named, n |-> n]

SentKinds ==
  {kind \in {"text", "thinking"} : response[kind] > 0} \cup (IF response.calls = <<>> THEN {} ELSE {"tool"})

OpenAIText(kind) ==
  /\ state \in {"before", "within"} /\ response[kind] < MaxPieces
  /\ InOrder(SentKinds, kind)
  /\ response' = [response EXCEPT ![kind] = @ + 1]
  /\ state' = "within"
  /\ Sends(OpenAIEvent(TRUE, IF kind = "thinking" THEN 1 ELSE 0, IF kind = "text" THEN 1 ELSE 0, <<>>, "none", FALSE, FALSE))

\* openai/responses knows one call per response.
MaxCalls == IF To = "responses" /\ "two calls" \notin Quirks THEN 1 ELSE MaxBlocks

\* A chunk with a new call or with more of the arguments of one
OpenAICall ==
  /\ state \in {"before", "within"}
  /\ \E i \in 1..Len(response.calls) + 1, n \in {0, 1} :
       LET new == i > Len(response.calls)
       IN /\ IF new THEN i <= MaxCalls ELSE n = 1 /\ response.calls[i] < MaxPieces
          /\ response' = [response EXCEPT !.calls = IF new THEN Append(@, n) ELSE [@ EXCEPT ![i] = @ + 1]]
          /\ Sends(OpenAIEvent(TRUE, 0, 0, <<Call(i, new, n)>>, "none", FALSE, FALSE))
  /\ state' = "within"

OpenAIFinish(usage) ==
  /\ state = "within"
  /\ \E finish \in IF response.calls = <<>> THEN {"stop", "length"} ELSE {"tool_calls"} :
       /\ response' = [response EXCEPT !.finish = finish, !.usage = usage]
       /\ Sends(OpenAIEvent(TRUE, 0, 0, <<>>, finish, usage, FALSE))
  /\ state' = "finished"

\* A chunk of its own without choices
OpenAIUsage ==
  /\ state = "finished" /\ ~response.usage
  /\ response' = [response EXCEPT !.usage = TRUE]
  /\ Sends(OpenAIEvent(FALSE, 0, 0, <<>>, "none", TRUE, FALSE)) /\ UNCHANGED state

OpenAIDone ==
  /\ state = "finished"
  /\ state' = "over" /\ UNCHANGED response
  /\ Sends(OpenAIEvent(FALSE, 0, 0, <<>>, "none", FALSE, TRUE))

OpenAI ==
  /\ From = "openai"
  /\ \/ \E kind \in {"text", "thinking"} : OpenAIText(kind)
     \/ OpenAICall \/ \E usage \in BOOLEAN : OpenAIFinish(usage)
     \/ OpenAIUsage \/ OpenAIDone

------------------------------------------------------------------------------
Next == (Codex \/ Claude \/ GeminiStep \/ OpenAI) /\ Feed

Spec == Init /\ [][Next]_vars

------------------------------------------------------------------------------
(* The response in the client's format had it been asked for without streaming *)
WholeMessage ==
  CASE pair = <<"codex", "claude">> -> CodexToClaudeNonStream(response.items, response.reason)
    [] pair = <<"gemini", "claude">> -> GeminiToClaudeNonStream(response.parts, response.finish)
    [] pair = <<"gemini-cli", "claude">> -> GeminiCLIToClaudeNonStream(response.parts, response.finish)
    [] pair = <<"antigravity", "claude">> -> AntigravityToClaudeNonStream(response.parts, response.finish)
    [] pair = <<"openai", "claude">> ->
         OpenAIToClaudeNonStream([text |-> response.text, thinking |-> response.thinking,
                                  tools |-> response.calls, stop |-> "none"], response.finish)
    [] pair = <<"codex", "chat">> -> CodexToChatNonStream(response.items)
    [] pair = <<"claude", "chat">> -> ClaudeToChatNonStream(response.blocks, response.stop)
    [] pair \in Gemini \X {"chat"} -> GeminiToChatNonStream(response.parts, response.finish)
    [] pair = <<"codex", "gemini">> -> CodexToGeminiNonStream(response.items)
    [] pair = <<"claude", "gemini">> -> ClaudeToGeminiNonStream(response.blocks)
    [] pair = <<"openai", "gemini">> ->
         OpenAIToGeminiNonStream([text |-> response.text, thinking |-> response.thinking,
                                  tools |-> response.calls, stop |-> "none"], response.finish)
    [] pair \in Gemini \X {"gemini"} -> GeminiToGeminiNonStream(response.parts, response.finish)
    [] pair = <<"claude", "responses">> -> ClaudeToResponsesNonStream(response.blocks)
    [] pair \in Gemini \X {"responses"} -> GeminiToResponsesNonStream(response.parts)
    [] pair = <<"openai", "responses">> ->
         OpenAIToResponsesNonStream([text |-> response.text, thinking |-> response.thinking,
                                     tools |-> response.calls, stop |-> "none"])

\* A Responses client has it twice: from the deltas, and in the completed response.
Message ==
  CASE To = "claude" -> Assembled(client.blocks, client.stop)
    [] To = "chat" -> ChatMessage(client)
    [] To = "gemini" -> Assembled(client.parts, client.stop)
    [] To = "responses" -> Assembled(client.items, "none")
Complete ==
  CASE To \in {"chat", "gemini"} -> client.stop # "none"
    [] To = "claude" -> client.ended
    [] To = "responses" -> client.ended /\ client.output = Message

------------------------------------------------------------------------------
(* What a translation promises *)

\* Whatever the upstream sends in its format, and until its stream is cut, the events are a
\* stream of the client's format.
WellFormed == To # "gemini" /\ state # "cut" => ~client.bad

\* Nothing to show: no call, no thinking and no text
Empty == From \in Gemini /\ \A i \in DOMAIN response.parts :
           response.parts[i].kind = "text" /\ response.parts[i].n = 0

\* gemini-cli/claude tells the reason from the calls of the last chunk alone, gemini/chat
\* overrides it with that of a last chunk without one, and codex/chat has no reason of its
\* own without streaming.  Of a reason that Codex gives itself, codex/claude's stream passes on
\* two, and none after a call; its whole message passes on any.
ReasonDiffers ==
  \/ Message.tools # <<>> /\ pair \in {<<"gemini-cli", "claude">>, <<"gemini", "chat">>, <<"codex", "chat">>}
  \/ Message.tools = <<>> /\ pair = <<"codex", "gemini">>
  \/ pair = <<"codex", "claude">> /\ response.reason # "none" /\ (Message.tools # <<>> \/ response.reason = "other")

\* codex/chat keeps one part of a kind without streaming.
TextsDiffer ==
  \/ /\ pair = <<"codex", "chat">>
     /\ \E kind \in {"text", "thinking"} :
          LET items == Kind(response.items, kind)
          IN Len(FlattenSeq([i \in DOMAIN items |-> items[i].parts])) > 1
  \/ pair = <<"codex", "gemini">> /\ "thinking" \in Kinds(response.items)

\* openai_openai-responses_response.go:301: "Only emit item.added once per tool call".  So
\* each call of the response is an item of its own.
CallsAdded ==
  state = "over" /\ pair = <<"openai", "responses">> => Len(Message.tools) = Len(response.calls)

\* A client that streams ends up with the message that one that does not gets at once.
Same ==
  state = "over" /\ ~Empty =>
    /\ Complete \/ ReasonDiffers
    /\ ReasonDiffers \/ Message.stop = WholeMessage.stop
    /\ Message.tools = WholeMessage.tools
    /\ TextsDiffer \/ (Message.text = WholeMessage.text /\ Message.thinking = WholeMessage.thinking)
=============================================================================
