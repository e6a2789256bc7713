-------------------------- MODULE RequestsToGemini --------------------------
(***************************************************************************)
(* The requests of the other formats as requests of Gemini, the Gemini CLI *)
(* and Antigravity (internal/translator/gemini, gemini-cli, antigravity),  *)
(* which share most of their code.  Of the three Antigravity alone keeps   *)
(* the IDs of calls for every client.                                      *)
(***************************************************************************)
EXTENDS Requests

Unidentified(parts) == Each(parts, LAMBDA part : [part EXCEPT !.id = <<>>])

ModelRoles(messages) == Roles(messages, {"assistant"}, "model")

------------------------------------------------------------------------------
(* From Claude *)

\* An ID loses so many segments at its end, if there are more.
NameOf(id, segments) ==
  IF Len(id) > segments THEN SubSeq(id, 1, Len(id) - segments) ELSE <<>>

toolNameFromClaudeToolUseID(id) == NameOf(id, 1)

FirstOf(name, other) == IF name # <<>> THEN name ELSE other

\* gemini/claude reads the name of a call and of its result out of the ID, where it finds one.
NamedByID(part, kinds) ==
  CASE part.kind \notin kinds -> part
    [] part.kind = "call"     -> [part EXCEPT !.name = FirstOf(toolNameFromClaudeToolUseID(part.id), @)]
    [] OTHER                  -> [part EXCEPT !.name = FirstOf(toolNameFromClaudeToolUseID(part.id), part.id)]

\* Both drop thinking, and send a message that has nothing else without parts.
ClaudeToGemini(r, named) ==
  Translation(r.system,
              ModelRoles(Each(r.messages, LAMBDA m :
                [m EXCEPT !.parts = Unidentified(Each(Only(@, {"text", "image", "call", "result"}),
                                                      LAMBDA part : NamedByID(part, named)))])),
              r.tools \ {"search"}, r.choice)

\* gemini-cli/claude leaves the call its name.
ConvertClaudeRequestToGemini(r) == ClaudeToGemini(r, {"call", "result"})
ConvertClaudeRequestToCLI(r)    == ClaudeToGemini(r, {"result"})

\* Antigravity looks the name up among the calls before the result.
CallsBefore(r, i) == Only(AllParts(SubSeq(r.messages, 1, i)), {"call"})
NameByID(calls, id) ==
  LET same == SelectSeq(calls, LAMBDA call : call.id = id)
  IN IF same # <<>> THEN Last(same).name ELSE FirstOf(NameOf(id, 2), id)

ThinkingFirst(m) ==
  IF m.role = "model"
    THEN [m EXCEPT !.parts = Only(@, {"thinking"}) \o Unlike(@, {"thinking"})] ELSE m

\* Unsigned thinking is dropped.
AntigravityParts(r, i) ==
  Each(Unlike(r.messages[i].parts, {"unsigned"}), LAMBDA part :
    IF part.kind = "result" THEN [part EXCEPT !.name = NameByID(CallsBefore(r, i), part.id)] ELSE part)

\* A message without parts is left out.
AntigravityContents(r) ==
  LET contents == [i \in DOMAIN r.messages |-> [r.messages[i] EXCEPT !.parts = AntigravityParts(r, i)]]
  IN NonEmpty(Each(ModelRoles(contents), ThinkingFirst))

ConvertClaudeRequestToAntigravity(r) ==
  Translation(r.system, AntigravityContents(r), r.tools \ {"search"}, r.choice)

------------------------------------------------------------------------------
(* From chat completions *)

\* The results go where the calls are: after them, in their order, from wherever they were,
\* and one is made up for a call that has none.  A result without a call is dropped.
ResultsFor(r, calls) ==
  LET results(id) == SelectSeq(AllParts(SelectSeq(r.messages, LAMBDA m : m.role = "tool")),
                               LAMBDA part : part.id = id)
      result(call) == IF results(call.id) # <<>> THEN Last(results(call.id))
                      ELSE [call EXCEPT !.kind = "placeholder"]
  IN Each(calls, LAMBDA call : [result(call) EXCEPT !.name = call.name])

SystemRoles == {"system", "developer"}

ChatMessage(r, m) ==
  CASE m.role \in SystemRoles -> IF Len(r.messages) > 1 THEN <<>> ELSE <<Message("user", m.parts)>>
    [] m.role = "user"        -> <<Message("user", Only(m.parts, {"text", "image"}))>>
    [] m.role = "assistant"   -> <<Message("model", Only(m.parts, {"text", "image", "call"}))>>
                                   \o One("user", ResultsFor(r, Only(m.parts, {"call"})))
    [] OTHER -> <<>>

\* A tool choice is not read.
ChatToGemini(r) ==
  Translation(IF Len(r.messages) > 1
                THEN AllParts(SelectSeq(r.messages, LAMBDA m : m.role \in SystemRoles)) ELSE <<>>,
              EachFlat(r.messages, LAMBDA m : ChatMessage(r, m)),
              r.tools \ {"search"}, "unset")

ConvertOpenAIRequestToAntigravity(r) == ChatToGemini(r)
ConvertOpenAIRequestToGemini(r) ==
  [ChatToGemini(r) EXCEPT !.messages = Each(@, LAMBDA m : [m EXCEPT !.parts = Unidentified(@)])]
ConvertOpenAIRequestToGeminiCLI(r) == ConvertOpenAIRequestToGemini(r)

------------------------------------------------------------------------------
(* Between Gemini and its relatives *)

\* A role that is neither becomes the other of the one before.
\* Mutant: any role goes on.
RolesFixed_lenient(contents) == contents
RolesFixed(contents) ==
  LET fixed(done, m) ==
        Append(done, [m EXCEPT !.role =
          CASE @ \in {"user", "model"}                          -> @
            [] done # <<>> /\ Last(done).role = "user"          -> "model"
            [] OTHER                                            -> "user"])
  IN FoldLeft(fixed, <<>>, contents)

Names(parts) == Each(Only(parts, {"call"}), LAMBDA call : call.name)

\* A result without a name gets that of the call with its number.
Backfilled(result, names, number) ==
  IF result.name = <<>> /\ number \in DOMAIN names THEN [result EXCEPT !.name = names[number]] ELSE result

WithNames(parts, names) ==
  [i \in DOMAIN parts |->
     IF parts[i].kind = "result"
       THEN Backfilled(parts[i], names, Len(Only(SubSeq(parts, 1, i), {"result"}))) ELSE parts[i]]

\* The calls are those of the content before.
backfillEmptyFunctionResponseNames(contents) ==
  LET names(i) == IF i > 1 /\ contents[i - 1].role = "model" THEN Names(contents[i - 1].parts) ELSE <<>>
  IN [i \in DOMAIN contents |->
        IF contents[i].role = "model" THEN contents[i]
        ELSE [contents[i] EXCEPT !.parts = WithNames(@, names(i))]]

\* The request is sent on as it is otherwise.
ConvertGeminiRequestToGemini(r) ==
  Translation(r.system, backfillEmptyFunctionResponseNames(RolesFixed(r.messages)), r.tools, r.choice)

ConvertGeminiCLIRequestToGemini(r) == Translation(r.system, r.messages, r.tools, r.choice)

\* The oldest group of calls is served as soon as there are results for all of it, by one
\* content; until then no younger one is.
Serve(state, names) ==
  IF state.waiting = <<>> /\ Len(state.results) >= Len(names)
    THEN [state EXCEPT !.contents = Append(@, Message("function",
                          WithNames(SubSeq(state.results, 1, Len(names)), names))),
                       !.results = SubSeq(@, Len(names) + 1, Len(@))]
    ELSE [state EXCEPT !.waiting = Append(@, names)]

\* A content with results is taken for its results alone.
Grouped(state, m) ==
  LET results == Only(m.parts, {"result"})
      names == IF m.role = "model" THEN Names(m.parts) ELSE <<>>
  IN IF results # <<>>
       THEN FoldLeft(Serve, [state EXCEPT !.results = @ \o results, !.waiting = <<>>], state.waiting)
       ELSE [state EXCEPT !.contents = Append(@, m),
                          !.waiting = @ \o (IF names = <<>> THEN <<>> ELSE <<names>>)]

\* At the end the groups left are served with what results are left, whoever waits before.
Remaining(state, names) == [Serve([state EXCEPT !.waiting = <<>>], names) EXCEPT !.waiting = <<>>]

fixCLIToolResponse(contents) ==
  LET state == FoldLeft(Grouped, [contents |-> <<>>, results |-> <<>>, waiting |-> <<>>], contents)
  IN FoldLeft(Remaining, [state EXCEPT !.waiting = <<>>], state.waiting).contents

ConvertGeminiRequestToAntigravity(r) ==
  Translation(r.system, RolesFixed(fixCLIToolResponse(r.messages)), r.tools, r.choice)

ConvertGeminiRequestToGeminiCLI(r) ==
  [ConvertGeminiRequestToAntigravity(r) EXCEPT !.messages = NonEmpty(@)]

------------------------------------------------------------------------------
(* From the Responses API *)

\* A run of calls and the run of outputs after it: each call is followed by its output, and
\* the outputs that answer none of them come last.
Interleaved(calls, outputs) ==
  LET of(call) == SelectSeq(outputs, LAMBDA o : o.parts[1].id = call.parts[1].id)
      called(o) == \E i \in DOMAIN calls : calls[i].parts[1].id = o.parts[1].id
  IN EachFlat(calls, LAMBDA call : <<call>> \o (IF of(call) = <<>> THEN <<>> ELSE <<Last(of(call))>>))
       \o SelectSeq(outputs, LAMBDA o : ~called(o))

\* The items after the last message or reasoning wait in calls and outputs.
Normalize(state, item) ==
  LET done == state.items \o Interleaved(state.calls, state.outputs)
  IN CASE item.role = "function_call" /\ state.outputs = <<>> -> [state EXCEPT !.calls = Append(@, item)]
       [] item.role = "function_call" /\ state.outputs # <<>> ->
            [items |-> done, calls |-> <<item>>, outputs |-> <<>>]
       [] item.role = "function_call_output" /\ state.calls # <<>> ->
            [state EXCEPT !.outputs = Append(@, item)]
       [] OTHER -> [items |-> Append(done, item), calls |-> <<>>, outputs |-> <<>>]

Normalized(items) ==
  LET state == FoldLeft(Normalize, [items |-> <<>>, calls |-> <<>>, outputs |-> <<>>], items)
  IN state.items \o Interleaved(state.calls, state.outputs)

\* An output has the name of the first call with its ID.
OutputNamed(r, part) ==
  LET calls == SelectSeq(Only(AllParts(r.messages), {"call"}), LAMBDA call : call.id = part.id)
  IN [part EXCEPT !.name = IF calls = <<>> THEN <<"unknown">> ELSE Head(calls).name]

\* A developer's message keeps its role, which Gemini does not know.
ItemToGemini(r, item) ==
  CASE item.role = "system"               -> <<>>
    [] item.role \in {"user", "developer"} -> One(item.role, Only(item.parts, {"text", "image"}))
    [] item.role = "assistant"            -> One("model", Only(item.parts, {"text", "image"}))
    [] item.role \in {"function_call", "reasoning"} -> <<Message("model", item.parts)>>
    [] item.role = "function_call_output" ->
         <<Message("function", Each(item.parts, LAMBDA part : OutputNamed(r, part)))>>

\* A tool choice is not read here either.
ConvertOpenAIResponsesRequestToGemini(r) ==
  Translation(r.system \o AllParts(SelectSeq(r.messages, LAMBDA m : m.role = "system")),
              EachFlat(Normalized(r.messages), LAMBDA item : ItemToGemini(r, item)),
              r.tools \ {"search"}, "unset")

ConvertOpenAIResponsesRequestToGeminiCLI(r) ==
  ConvertGeminiRequestToGeminiCLI(ConvertOpenAIResponsesRequestToGemini(r))
ConvertOpenAIResponsesRequestToAntigravity(r) ==
  ConvertGeminiRequestToAntigravity(ConvertOpenAIResponsesRequestToGemini(r))
=============================================================================
