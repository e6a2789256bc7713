-------------------------- MODULE RequestsToOpenAI --------------------------
(***************************************************************************)
(* The requests of the other formats as requests of chat completions and   *)
(* of Codex, which takes those of the Responses API                        *)
(* (internal/translator/openai, codex).  A part of an item list that is no *)
(* message has the role of its type, as in Requests.                       *)
(***************************************************************************)
EXTENDS Requests

------------------------------------------------------------------------------
(* Chat completions, from Claude *)

\* The results come first, for they answer the assistant's message before; what else a message
\* has stays one message.
\* Mutant: a message with results is taken for them alone.
ClaudeToTurns_results(m) ==
  IF Only(m.parts, {"result"}) # <<>> THEN Apart("tool", Only(m.parts, {"result"}))
  ELSE One(m.role, Unlike(m.parts, {"result"}))
ClaudeToTurns(m) ==
  LET content == IF m.role = "assistant" THEN {"text", "image", "call", "thinking", "unsigned"}
                 ELSE {"text", "image"}
  IN Apart("tool", Only(m.parts, {"result"})) \o One(m.role, Only(m.parts, content))

\* Tools of Claude's own become functions, and a choice the code does not know becomes "auto".
ConvertClaudeRequestToOpenAI(r) ==
  Translation(<<>>, One("system", r.system) \o EachFlat(r.messages, ClaudeToTurns),
              {"function" : tool \in r.tools},
              IF r.choice = "none" THEN "auto" ELSE r.choice)

------------------------------------------------------------------------------
(* Chat completions, from Gemini and the Gemini CLI *)

\* Each result is answered with the ID of the last call there has been.
WithLastID(state, part) ==
  CASE part.kind = "call"   -> [parts |-> Append(state.parts, [part EXCEPT !.id = NewID(part)]),
                                last |-> NewID(part)]
    [] part.kind = "result" -> [state EXCEPT !.parts = Append(@,
                                  [part EXCEPT !.id = IF state.last = <<>> THEN NewID(part) ELSE state.last])]
    [] OTHER                -> [state EXCEPT !.parts = Append(@, part)]

\* A thought is a text like any other; images are read in the camel spelling only.
Content(r, parts) ==
  LET kinds == {"text", "thinking", "call"} \cup (IF r.spelling = "camel" THEN {"image"} ELSE {})
  IN Each(Only(parts, kinds), LAMBDA part :
       IF part.kind = "thinking" THEN [part EXCEPT !.kind = "text"] ELSE part)

\* The results go out first, and then the content's message, empty or not.
ContentToTurns(r, state, m) ==
  LET done == FoldLeft(WithLastID, [parts |-> <<>>, last |-> state.last], m.parts)
  IN [messages |-> state.messages \o Apart("tool", Only(done.parts, {"result"}))
                     \o <<Message(IF m.role = "model" THEN "assistant" ELSE m.role, Content(r, done.parts))>>,
      last     |-> done.last]

ConvertGeminiRequestToOpenAI(r) ==
  Translation(<<>>,
              One("system", r.system)
                \o FoldLeft(LAMBDA state, m : ContentToTurns(r, state, m),
                            [messages |-> <<>>, last |-> <<>>], r.messages).messages,
              IF r.spelling = "camel" THEN r.tools \ {"search"} ELSE {},
              CASE r.spelling = "snake" -> "unset"
                [] r.choice = "named"   -> "required"
                [] OTHER                -> r.choice)

------------------------------------------------------------------------------
(* Chat completions, from the Responses API *)

\* A developer speaks as the user, reasoning is dropped, and each call is a message of its own.
ItemToTurns(item) ==
  CASE item.role = "developer"            -> <<Message("user", item.parts)>>
    [] item.role \in {"system", "user", "assistant"} -> <<item>>
    [] item.role = "function_call"        -> <<Message("assistant", item.parts)>>
    [] item.role = "function_call_output" -> <<Message("tool", item.parts)>>
    [] OTHER -> <<>>

\* A choice that is an object is sent as the text of that object.
ConvertOpenAIResponsesRequestToOpenAIChatCompletions(r) ==
  Translation(<<>>, One("system", r.system) \o EachFlat(r.messages, ItemToTurns),
              r.tools \ {"search"},
              IF r.choice = "named" THEN "garbled" ELSE r.choice)

------------------------------------------------------------------------------
(* Codex, from Claude *)

\* The runs of a message: what is in it besides calls and results stays together between them.
Flushed(role, parts) ==
  LET place(part) == CASE part.kind = "call"   -> "function_call"
                       [] part.kind = "result" -> "function_call_output"
                       [] OTHER                -> role
      add(items, part) ==
        IF items # <<>> /\ Last(items).role = role /\ place(part) = role
          THEN [items EXCEPT ![Len(items)].parts = Append(@, part)]
          ELSE Append(items, Message(place(part), <<part>>))
  IN FoldLeft(add, <<>>, parts)

\* Where there are tools the choice is always "auto"; the client's is not read.
ConvertClaudeRequestToCodex(r) ==
  Translation(<<>>,
              One("developer", r.system)
                \o EachFlat(r.messages, LAMBDA m :
                     Flushed(m.role, Only(m.parts, {"text", "image", "call", "result"}))),
              r.tools,
              IF r.tools = {} THEN "unset" ELSE "auto")

------------------------------------------------------------------------------
(* Codex, from chat completions *)

\* Images are the user's alone, and an assistant's message without content is none.
TurnToItems(m) ==
  CASE m.role = "tool"      -> <<Message("function_call_output", m.parts)>>
    [] m.role = "assistant" -> One("assistant", Only(m.parts, {"text"}))
                                 \o Apart("function_call", Only(m.parts, {"call"}))
    [] OTHER -> <<Message(IF m.role = "system" THEN "developer" ELSE m.role,
                          Only(m.parts, IF m.role = "user" THEN {"text", "image"} ELSE {"text"}))>>

ConvertOpenAIRequestToCodex(r) ==
  Translation(<<>>, EachFlat(r.messages, TurnToItems), r.tools, r.choice)

------------------------------------------------------------------------------
(* Codex, from Gemini and the Gemini CLI *)

\* Every text is a message of its own, a thought too, and no image is read.
PartToItem(role, part) ==
  CASE part.kind \in {"text", "thinking"} -> <<Message(role, <<[part EXCEPT !.kind = "text"]>>)>>
    [] part.kind = "call"                 -> <<Message("function_call", <<part>>)>>
    [] part.kind = "result"               -> <<Message("function_call_output", <<part>>)>>
    [] OTHER -> <<>>

ContentToItems(m) ==
  EachFlat(m.parts, LAMBDA part : PartToItem(IF m.role = "model" THEN "assistant" ELSE m.role, part))

GeminiToCodex(r, system) ==
  Translation(<<>>,
              One("developer", system) \o EachFlat(IDsInOrder(r.messages), ContentToItems),
              IF r.spelling = "camel" THEN r.tools \ {"search"} ELSE {},
              IF r.tools = {} THEN "unset" ELSE "auto")

ConvertGeminiRequestToCodex(r) == GeminiToCodex(r, IF r.spelling = "snake" THEN r.system ELSE <<>>)

\* The wrapped request, its system instruction respelled
ConvertGeminiCLIRequestToCodex(r) == GeminiToCodex(r, r.system)

------------------------------------------------------------------------------
(* Codex, from the Responses API: the request goes on, without what Codex refuses. *)

ConvertOpenAIResponsesRequestToCodex(r) ==
  Translation(r.system, Roles(r.messages, {"system"}, "developer"), r.tools, r.choice)
=============================================================================
