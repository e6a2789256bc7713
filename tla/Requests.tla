------------------------------ MODULE Requests ------------------------------
(***************************************************************************)
(* A conversation as clients of the four formats send it.  A request       *)
(* carries the whole of it: system texts, then the turns of the user and   *)
(* of the assistant, whose calls the next user turn answers.               *)
(*                                                                         *)
(* A part is known by "of", its number in the conversation (a result has   *)
(* its call's, a system text a negative one): the formats do not carry it  *)
(* and no translator decides by it.  IDs and names are sequences of their  *)
(* dash-separated segments, for some translators read a name out of an ID. *)
(* What texts, arguments and results say is left out, and so is the effort *)
(* of thinking.                                                            *)
(***************************************************************************)
EXTENDS Integers, Sequences, SequencesExt

Part(kind, of, id, name) == [kind |-> kind, of |-> of, id |-> id, name |-> name]
Message(role, parts)     == [role |-> role, parts |-> parts]

Text(of) == Part("text", of, <<>>, <<>>)

Only(parts, kinds) == SelectSeq(parts, LAMBDA part : part.kind \in kinds)
Unlike(parts, kinds) == SelectSeq(parts, LAMBDA part : part.kind \notin kinds)
NonEmpty(messages) == SelectSeq(messages, LAMBDA m : m.parts # <<>>)

Each(s, Op(_))      == [i \in DOMAIN s |-> Op(s[i])]
EachFlat(s, Op(_))  == FlattenSeq(Each(s, Op))
AllParts(messages)  == FlattenSeq(Each(messages, LAMBDA m : m.parts))

As(parts, kind) == Each(parts, LAMBDA part : [part EXCEPT !.kind = kind])

Roles(messages, from, to) ==
  Each(messages, LAMBDA m : IF m.role \in from THEN [m EXCEPT !.role = to] ELSE m)

------------------------------------------------------------------------------
(***************************************************************************)
(* What a client sends.  "style" says what a client may choose: how the    *)
(* IDs of its calls look, which spelling a Gemini client uses and whether  *)
(* its results name their function, where an OpenAI client puts its system *)
(* texts, and whether thinking is signed.                                  *)
(***************************************************************************)

\* The translators give Claude clients IDs made of the function's name and one or two counters.
CallID(style, call) ==
  CASE style.ids = "counted"    -> call.name \o <<ToString(call.of)>>
    [] style.ids = "counted two" -> call.name \o <<"nano", ToString(call.of)>>
    [] style.ids = "foreign"    -> <<ToString(call.of)>>

Identified(style, parts) ==
  Each(parts, LAMBDA part :
    CASE part.kind = "call"   -> [part EXCEPT !.id = CallID(style, part)]
      [] part.kind = "result" -> [part EXCEPT !.id = CallID(style, part), !.name = <<>>]
      [] OTHER                -> part)

\* Gemini has no IDs; a result has its function's name, if the client puts it there.
Named(style, parts) ==
  Each(parts, LAMBDA part :
    IF part.kind = "result" /\ ~style.named THEN [part EXCEPT !.name = <<>>] ELSE part)

Marked(style, parts) ==
  Each(parts, LAMBDA part :
    IF part.kind = "thinking" /\ ~style.signed THEN [part EXCEPT !.kind = "unsigned"] ELSE part)

Request(system, messages, asked, style) ==
  [system |-> system, messages |-> messages, tools |-> asked.tools, choice |-> asked.choice,
   spelling |-> style.spelling]

One(role, parts) == NonEmpty(<<Message(role, parts)>>)
Apart(role, parts) == Each(parts, LAMBDA part : Message(role, <<part>>))

ClaudeRequest(system, turns, asked, style) ==
  Request(system,
          Each(turns, LAMBDA t : Message(t.role, Marked(style, Identified(style, t.parts)))),
          asked, style)

\* Results may come in a content of the role "function".
GeminiRole(style, t) ==
  CASE t.role = "assistant"                 -> "model"
    [] Only(t.parts, {"result"}) # <<>>     -> style.results
    [] OTHER                                -> t.role

GeminiRequest(system, turns, asked, style) ==
  Request(system,
          Each(turns, LAMBDA t : Message(GeminiRole(style, t), Named(style, t.parts))),
          asked, style)

ChatTurn(parts, role) ==
  IF role = "user"
    THEN Apart("tool", Only(parts, {"result"})) \o One("user", Unlike(parts, {"result"}))
    ELSE One("assistant", Unlike(parts, {"thinking"}))

ChatRequest(system, turns, asked, style) ==
  Request(<<>>,
          Apart(style.system, system)
            \o EachFlat(turns, LAMBDA t : ChatTurn(Identified(style, t.parts), t.role)),
          asked, style)

\* The input items: those that are no messages have the role of their type.
ResponsesTurn(parts, role) ==
  IF role = "user"
    THEN Apart("function_call_output", Only(parts, {"result"}))
           \o One("user", Unlike(parts, {"result"}))
    ELSE Apart("reasoning", Only(parts, {"thinking"})) \o One("assistant", Only(parts, {"text"}))
           \o Apart("function_call", Only(parts, {"call"}))

ResponsesRequest(system, turns, asked, style) ==
  LET first == IF style.system = "instructions" THEN SubSeq(system, 1, 1) ELSE <<>>
      role  == IF style.system = "instructions" THEN "system" ELSE style.system
  IN Request(first,
             Apart(role, SubSeq(system, Len(first) + 1, Len(system)))
               \o EachFlat(turns, LAMBDA t : ResponsesTurn(Identified(style, t.parts), t.role)),
             asked, style)

------------------------------------------------------------------------------
(***************************************************************************)
(* What several translators do alike.                                      *)
(***************************************************************************)

Translation(system, messages, tools, choice) ==
  [system |-> system, messages |-> messages, tools |-> tools, choice |-> choice]

\* A Gemini client's calls and results are paired in their order: a call gets a new ID, which
\* waits for the next result; a result that finds none waiting gets one of its own.
NewID(part) == <<"new", ToString(part.of)>>
\* Mutant: the next result gets the ID that waits last.
WithID_last(state, part) ==
  CASE part.kind = "call"   -> [parts |-> Append(state.parts, [part EXCEPT !.id = NewID(part)]),
                                waiting |-> <<NewID(part)>> \o state.waiting]
    [] part.kind = "result" -> [parts |-> Append(state.parts, [part EXCEPT !.id = Head(state.waiting)]),
                                waiting |-> Tail(state.waiting)]
    [] OTHER                -> [state EXCEPT !.parts = Append(@, part)]
WithID(state, part) ==
  CASE part.kind = "call" ->
         [parts |-> Append(state.parts, [part EXCEPT !.id = NewID(part)]),
          waiting |-> Append(state.waiting, NewID(part))]
    [] part.kind = "result" /\ state.waiting # <<>> ->
         [parts |-> Append(state.parts, [part EXCEPT !.id = Head(state.waiting)]),
          waiting |-> Tail(state.waiting)]
    [] part.kind = "result" /\ state.waiting = <<>> ->
         [state EXCEPT !.parts = Append(@, [part EXCEPT !.id = <<"new">> \o NewID(part)])]
    [] OTHER -> [state EXCEPT !.parts = Append(@, part)]

IDsInOrder(messages) ==
  FoldLeft(LAMBDA state, m :
             LET done == FoldLeft(WithID, [parts |-> <<>>, waiting |-> state.waiting], m.parts)
             IN [messages |-> Append(state.messages, [m EXCEPT !.parts = done.parts]),
                 waiting |-> done.waiting],
           [messages |-> <<>>, waiting |-> <<>>], messages).messages
=============================================================================
