---------------------------- MODULE ToResponses ----------------------------
(***************************************************************************)
(* The response translators to the OpenAI Responses format                 *)
(* (internal/translator/{claude,gemini,gemini-cli,antigravity,openai}/     *)
(* openai/responses), laid out as ToClaude is, and a client of that        *)
(* format.  Sequence numbers, output indices and the fields of the request *)
(* that are echoed are left out.                                           *)
(***************************************************************************)
EXTENDS ToChat

------------------------------------------------------------------------------
(* An item is added, gets deltas and is done; the completed response has the whole     *)
(* output again.  An item is known by its kind and a number.                           *)

NoOutput == Assembled(<<>>, "none")
ItemEvent(ev, kind, id, n) == [ev |-> ev, kind |-> kind, id |-> id, n |-> n, output |-> NoOutput]
Created == ItemEvent("created", "none", 0, 0)
\* output_item.added and its part; the delta; the ends of text, part and item
ItemAdded(kind, id) == ItemEvent("added", kind, id, 0)
ItemDelta(kind, id, n) == ItemEvent("delta", kind, id, n)
ItemDone(kind, id) == ItemEvent("done", kind, id, 0)
Completed(output) == [ItemEvent("completed", "none", 0, 0) EXCEPT !.output = output]

ResponsesWaits == [started |-> FALSE, items |-> <<>>, output |-> NoOutput, ended |-> FALSE, bad |-> FALSE]

ResponsesSees(c, e) ==
  LET same == {i \in DOMAIN c.items : c.items[i].kind = e.kind /\ c.items[i].id = e.id}
      open == {i \in DOMAIN c.items : c.items[i].open}
      grown(i) == IF i \in same THEN [c.items[i] EXCEPT !.n = @ + e.n] ELSE c.items[i]
      inPlace == CASE e.ev = "created" -> ~c.started
                   [] e.ev = "added" -> same = {}
                   [] e.ev \in {"delta", "done"} -> same \cap open # {}
                   [] e.ev = "completed" -> open = {}
      accepted ==
        CASE e.ev = "created" -> [c EXCEPT !.started = TRUE]
          [] e.ev = "added" ->
               [c EXCEPT !.items = Append(@, [kind |-> e.kind, id |-> e.id, n |-> 0, open |-> TRUE])]
          [] e.ev = "delta" -> [c EXCEPT !.items = [i \in DOMAIN @ |-> grown(i)]]
          [] e.ev = "done" -> [c EXCEPT !.items = [i \in DOMAIN @ |->
                                 IF i \in same THEN [@[i] EXCEPT !.open = FALSE] ELSE @[i]]]
          [] e.ev = "completed" -> [c EXCEPT !.output = e.output, !.ended = TRUE]
  IN IF (e.ev = "created" \/ c.started) /\ ~c.ended /\ inPlace THEN accepted
     ELSE [c EXCEPT !.bad = TRUE]

------------------------------------------------------------------------------
(* From Claude *)

\* inBlock: the kind of the open block; calls as in ClaudeToChat, but kept to the end
ClaudeToResponsesInit == [inBlock |-> "none", text |-> 0, thinking |-> 0, calls |-> <<>>]

\* All the text blocks are one item.
ClaudeItem(kind, index) == IF kind = "text" THEN 0 ELSE index

\* content_block_start: a thinking block starts the buffer of the thinking anew.
ClaudeItemAdded(p, c) ==
  Result([p EXCEPT !.inBlock = c.kind,
                   !.thinking = IF c.kind = "thinking" THEN 0 ELSE @,
                   !.calls = IF c.kind = "tool" THEN Append(@, 0) ELSE @],
         <<ItemAdded(c.kind, ClaudeItem(c.kind, c.index))>>)

\* content_block_delta
ClaudeItemDelta(p, c) ==
  Result(IF c.kind = "tool" THEN [p EXCEPT !.calls[Len(p.calls)] = @ + c.n] ELSE [p EXCEPT ![c.kind] = @ + c.n],
         <<ItemDelta(c.kind, ClaudeItem(c.kind, c.index), c.n)>>)

\* content_block_stop
ClaudeItemDone(p, c) ==
  Result([p EXCEPT !.inBlock = "none"], <<ItemDone(p.inBlock, ClaudeItem(p.inBlock, c.index))>>)

\* message_stop
ClaudeCompleted(p) ==
  Result(p, <<Completed([text |-> p.text, thinking |-> p.thinking, tools |-> p.calls, stop |-> "none"])>>)

ClaudeToResponses(p, c) ==
  CASE c.ev = "message_start" -> Result(ClaudeToResponsesInit, <<Created>>)
    [] c.ev = "content_block_start" -> ClaudeItemAdded(p, c)
    [] c.ev = "content_block_delta" -> ClaudeItemDelta(p, c)
    [] c.ev = "content_block_stop" -> ClaudeItemDone(p, c)
    [] c.ev = "message_stop" -> ClaudeCompleted(p)
    [] OTHER -> Nothing(p)

ClaudeToResponsesNonStream(blocks) == Assembled(blocks, "none")

------------------------------------------------------------------------------
(* From Gemini, and from the other two without their envelope *)

\* The reasoning and the message are each "none", "open" or "closed"; the calls are whole.
GeminiToResponsesInit ==
  [started |-> FALSE, reasoning |-> "none", message |-> "none", thinking |-> 0, text |-> 0, calls |-> <<>>]

\* finalizeReasoning
FinalizeReasoning(r) ==
  IF r.p.reasoning # "open" THEN r
  ELSE Plus([r EXCEPT !.p.reasoning = "closed"], <<ItemDone("thinking", 0)>>)

\* finalizeMessage
FinalizeMessage(r) ==
  IF r.p.message # "open" THEN r
  ELSE Plus([r EXCEPT !.p.message = "closed"], <<ItemDone("text", 0)>>)

\* A thought after the reasoning was closed is dropped, a text after the message was is not.
GeminiToResponsesPart(r, part) ==
  CASE part.kind = "thinking" ->
         IF r.p.reasoning = "closed" THEN r
         ELSE Plus([r EXCEPT !.p.reasoning = "open", !.p.thinking = @ + part.n],
                   (IF r.p.reasoning = "none" THEN <<ItemAdded("thinking", 0)>> ELSE <<>>)
                   \o (IF part.n > 0 THEN <<ItemDelta("thinking", 0, part.n)>> ELSE <<>>))
    [] part.kind = "text" ->
         IF part.n = 0 THEN r
         ELSE LET s == FinalizeReasoning(r)
              IN Plus([s EXCEPT !.p.message = IF @ = "none" THEN "open" ELSE @, !.p.text = @ + part.n],
                      (IF s.p.message = "none" THEN <<ItemAdded("text", 0)>> ELSE <<>>)
                      \o <<ItemDelta("text", 0, part.n)>>)
    [] part.kind = "tool" ->
         LET s == FinalizeMessage(FinalizeReasoning(r))
             id == Len(s.p.calls)
         IN Plus([s EXCEPT !.p.calls = Append(@, part.n)],
                 <<ItemAdded("tool", id), ItemDelta("tool", id, part.n), ItemDone("tool", id)>>)

\* The outputs are composed from what was kept.
GeminiCompleted(r) ==
  Plus(r, <<Completed([text |-> r.p.text, thinking |-> r.p.thinking, tools |-> r.p.calls, stop |-> "none"])>>)

GeminiToResponses(p, c) ==
  IF c.done THEN Nothing(p)
  ELSE LET start == Result([p EXCEPT !.started = TRUE], IF p.started THEN <<>> ELSE <<Created>>)
           r == FoldLeft(GeminiToResponsesPart, start, c.parts)
       IN IF c.finish = "none" THEN r ELSE GeminiCompleted(FinalizeMessage(FinalizeReasoning(r)))

GeminiToResponsesNonStream(parts) == Assembled(parts, "none")

------------------------------------------------------------------------------
(* From OpenAI chat completions *)

\* What is kept is kept per choice: of the calls, one.
OpenAIToResponsesInit ==
  [started |-> FALSE, reasoning |-> FALSE, buf |-> 0, thinking |-> 0,
   message |-> "none", text |-> 0, call |-> "none", args |-> 0]

\* stopReasoning
StopReasoning(r) ==
  IF ~r.p.reasoning THEN r
  ELSE Plus([r EXCEPT !.p.reasoning = FALSE, !.p.thinking = @ + r.p.buf, !.p.buf = 0],
            <<ItemDone("thinking", 0)>>)

OpenAIResponsesText(r, n) ==
  IF n = 0 THEN r
  ELSE LET s == StopReasoning(r)
       IN Plus([s EXCEPT !.p.message = IF @ = "none" THEN "open" ELSE @, !.p.text = @ + n],
               (IF s.p.message = "none" THEN <<ItemAdded("text", 0)>> ELSE <<>>) \o <<ItemDelta("text", 0, n)>>)

OpenAIResponsesReasoning(r, n) ==
  IF n = 0 THEN r
  ELSE Plus([r EXCEPT !.p.reasoning = TRUE, !.p.buf = @ + n],
            (IF r.p.reasoning THEN <<>> ELSE <<ItemAdded("thinking", 0)>>) \o <<ItemDelta("thinking", 0, n)>>)

\* The first call of the chunk, whatever its index
OpenAIResponsesCall(r, calls) ==
  IF calls = <<>> THEN r
  ELSE LET s == FinalizeMessage(StopReasoning(r))
           n == Head(calls).n
       IN Plus([s EXCEPT !.p.call = "open", !.p.args = @ + n],
               (IF s.p.call = "none" THEN <<ItemAdded("tool", 0)>> ELSE <<>>)
               \o (IF n > 0 THEN <<ItemDelta("tool", 0, n)>> ELSE <<>>))

OpenAICompleted(r) ==
  Plus(r, <<Completed([text |-> r.p.text, thinking |-> r.p.thinking, stop |-> "none",
                       tools |-> IF r.p.call = "none" THEN <<>> ELSE <<r.p.args>>])>>)

\* finish_reason: whatever is open is done.
OpenAIResponsesFinish(r) ==
  LET s == StopReasoning(FinalizeMessage(r))
  IN OpenAICompleted(IF s.p.call # "open" THEN s
                     ELSE Plus([s EXCEPT !.p.call = "closed"], <<ItemDone("tool", 0)>>))

\* The usage that comes after the reason is too late for the completed response.
OpenAIToResponses(p, c) ==
  IF c.done THEN Nothing(p)
  ELSE LET start == Result([p EXCEPT !.started = TRUE], IF p.started THEN <<>> ELSE <<Created>>)
           r == OpenAIResponsesCall(OpenAIResponsesReasoning(OpenAIResponsesText(start, c.text), c.thinking), c.calls)
       IN IF c.finish = "none" THEN r ELSE OpenAIResponsesFinish(r)

OpenAIToResponsesNonStream(message) == message
=============================================================================
