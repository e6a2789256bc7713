------------------------------- MODULE ToChat -------------------------------
(***************************************************************************)
(* The response translators to the OpenAI chat completions format          *)
(* (internal/translator/{codex,claude,gemini,gemini-cli,antigravity}/      *)
(* openai/chat-completions), laid out as ToClaude is, and a client of that *)
(* format.  Images are left out, and a response has one candidate.         *)
(***************************************************************************)
EXTENDS ToClaude

------------------------------------------------------------------------------
(* A chunk: pieces of the three kinds and perhaps a finish reason *)

ChatCall(index, new, n) == [index |-> index, new |-> new, n |-> n]
ChatChunk(text, thinking, calls, finish) ==
  [text |-> text, thinking |-> thinking, calls |-> calls, finish |-> finish]
ChatText(kind, n) == ChatChunk(IF kind = "text" THEN n ELSE 0, IF kind = "thinking" THEN n ELSE 0, <<>>, "none")
ChatCalls(calls) == ChatChunk(0, 0, calls, "none")
ChatFinish(finish) == ChatChunk(0, 0, <<>>, finish)

ChatWaits == [text |-> 0, thinking |-> 0, calls |-> <<>>, stop |-> "none", bad |-> FALSE]

\* A call starts with an index above those before it, and goes on with its own.
ChatSeesCall(c, call) ==
  LET same == {i \in DOMAIN c.calls : c.calls[i].index = call.index}
  IN CASE call.new /\ \A i \in DOMAIN c.calls : c.calls[i].index < call.index ->
            [c EXCEPT !.calls = Append(@, [index |-> call.index, n |-> call.n])]
       [] ~call.new /\ same # {} ->
            [c EXCEPT !.calls = [i \in DOMAIN @ |-> IF i \in same THEN [@[i] EXCEPT !.n = @ + call.n] ELSE @[i]]]
       [] OTHER -> [c EXCEPT !.bad = TRUE]

ChatSees(c, e) ==
  LET called == FoldLeft(ChatSeesCall, c, e.calls)
  IN [called EXCEPT !.text = @ + e.text, !.thinking = @ + e.thinking,
                    !.stop = IF e.finish = "none" THEN @ ELSE e.finish]

ChatMessage(c) ==
  [text |-> c.text, thinking |-> c.thinking, tools |-> [i \in DOMAIN c.calls |-> c.calls[i].n], stop |-> c.stop]

------------------------------------------------------------------------------
(* From Codex *)

CodexToChatInit == [index |-> -1, hasDelta |-> FALSE, announced |-> FALSE]

\* Every end of a thinking part adds a blank line to the thinking, which is no piece here.
CodexToChat(p, c) ==
  CASE c.type = "text.delta" -> Result(p, <<ChatText(c.kind, c.n)>>)
    [] c.type = "completed" -> Result(p, <<ChatFinish(IF p.index # -1 THEN "tool_calls" ELSE "stop")>>)
    [] c.type = "item.added" /\ c.kind = "tool" ->
         Result([index |-> p.index + 1, hasDelta |-> FALSE, announced |-> TRUE],
                <<ChatCalls(<<ChatCall(p.index + 1, TRUE, 0)>>)>>)
    [] c.type = "arguments.delta" ->
         Result([p EXCEPT !.hasDelta = TRUE], <<ChatCalls(<<ChatCall(p.index, FALSE, c.n)>>)>>)
    [] c.type = "arguments.done" /\ ~p.hasDelta -> Result(p, <<ChatCalls(<<ChatCall(p.index, FALSE, c.n)>>)>>)
    [] c.type = "item.done" /\ c.kind = "tool" /\ p.announced -> Nothing([p EXCEPT !.announced = FALSE])
    [] c.type = "item.done" /\ c.kind = "tool" /\ ~p.announced ->
         Result([p EXCEPT !.index = @ + 1], <<ChatCalls(<<ChatCall(p.index + 1, TRUE, c.n)>>)>>)
    [] OTHER -> Nothing(p)

\* The last item of a kind that has parts counts, of it the first part, and the reason is
\* "stop" whatever was called.
CodexToChatNonStream(items) ==
  LET said(kind) == SelectSeq(Kind(items, kind), LAMBDA i : i.parts # <<>>)
      last(kind) == IF said(kind) = <<>> THEN 0 ELSE Head(Last(said(kind)).parts)
  IN [Assembled(items, "stop") EXCEPT !.text = last("text"), !.thinking = last("thinking")]

------------------------------------------------------------------------------
(* From Claude: its blocks by index *)

\* Per index: the call that is open, and its arguments so far.
ClaudeToChatInit == [calls |-> <<>>]

\* mapAnthropicStopReasonToOpenAI
ChatReason(stop) ==
  CASE stop = "tool_use" -> "tool_calls"
    [] stop = "max_tokens" -> "length"
    [] OTHER -> "stop"

OpenCalls(p, index) == SelectSeq(p.calls, LAMBDA call : call.index = index)

\* A call is told when it ends, with its arguments whole and the index of its block.
ClaudeToChat(p, c) ==
  CASE c.ev = "message_start" -> Result(p, <<ChatText("text", 0)>>)
    [] c.ev = "content_block_start" /\ c.kind = "tool" ->
         Nothing([p EXCEPT !.calls = Append(@, [index |-> c.index, n |-> 0])])
    [] c.ev = "content_block_delta" /\ c.kind # "tool" /\ c.n > 0 -> Result(p, <<ChatText(c.kind, c.n)>>)
    [] c.ev = "content_block_delta" /\ c.kind = "tool" ->
         Nothing([p EXCEPT !.calls = [i \in DOMAIN @ |-> IF @[i].index = c.index THEN [@[i] EXCEPT !.n = @ + c.n] ELSE @[i]]])
    [] c.ev = "content_block_stop" /\ OpenCalls(p, c.index) # <<>> ->
         Result([p EXCEPT !.calls = SelectSeq(@, LAMBDA call : call.index # c.index)],
                <<ChatCalls(<<ChatCall(c.index, TRUE, OpenCalls(p, c.index)[1].n)>>)>>)
    [] c.ev = "message_delta" -> Result(p, <<ChatFinish(ChatReason(c.kind))>>)
    [] OTHER -> Nothing(p)

\* The executor streams for it too; the reason is "tool_calls" whenever there is a call.
ClaudeToChatNonStream(blocks, stop) ==
  Assembled(blocks, IF Kind(blocks, "tool") # <<>> THEN "tool_calls" ELSE ChatReason(stop))

------------------------------------------------------------------------------
(* From Gemini, the Gemini CLI and Antigravity: one chunk for each of theirs *)

GeminiToChatInit == [index |-> 0, saw |-> FALSE, finish |-> "none"]

\* Of several texts of a kind in a chunk the last one stays.  The first call of a chunk is
\* numbered from all those before, the next ones from those of the chunk.
GeminiToChatPart(r, part) ==
  IF part.kind = "tool"
    THEN LET n == Len(r.chunk.calls)
             index == IF n > 0 THEN n ELSE r.p.index
         IN [r EXCEPT !.p.index = @ + 1, !.p.saw = TRUE,
                      !.chunk.calls = Append(@, ChatCall(index, TRUE, part.n))]
    ELSE [r EXCEPT !.chunk[part.kind] = part.n]

GeminiToChatParts(p, parts) ==
  FoldLeft(GeminiToChatPart, [p |-> p, chunk |-> ChatChunk(0, 0, <<>>, "none")], parts)

GeminiReason(finish) ==
  CASE finish = "MAX_TOKENS" -> "max_tokens"
    [] finish = "STOP" -> "stop"
    [] OTHER -> "none"

Told(r, finish) == Result(r.p, <<[r.chunk EXCEPT !.finish = finish]>>)

\* A chunk with a call says "tool_calls" at once ...
GeminiToChat(p, c) ==
  IF c.done THEN Nothing(p)
  ELSE LET r == GeminiToChatParts(p, c.parts)
       IN Told(r, IF r.chunk.calls # <<>> THEN "tool_calls" ELSE GeminiReason(c.finish))

\* ... and with the Gemini CLI no reason follows it.
GeminiCLIToChat(p, c) ==
  IF c.done THEN Nothing(p)
  ELSE LET r == GeminiToChatParts(p, c.parts)
       IN Told(r, CASE r.chunk.calls # <<>> -> "tool_calls"
                    [] r.chunk.calls = <<>> /\ r.p.index = 0 -> GeminiReason(c.finish)
                    [] OTHER -> "none")

\* Antigravity's reason waits for the usage.
AntigravityToChat(p, c) ==
  IF c.done THEN Nothing(p)
  ELSE LET r == GeminiToChatParts([p EXCEPT !.finish = IF c.finish # "none" THEN c.finish ELSE @], c.parts)
       IN Told(r, IF r.p.finish = "none" \/ ~c.usage THEN "none"
                  ELSE IF r.p.saw THEN "tool_calls" ELSE GeminiReason(r.p.finish))

\* All three
GeminiToChatNonStream(parts, finish) ==
  Assembled(parts, IF Kind(parts, "tool") # <<>> THEN "tool_calls" ELSE GeminiReason(finish))

------------------------------------------------------------------------------
(***************************************************************************)
(* The response translators to the Gemini format (internal/translator/     *)
(* {codex,claude,openai,gemini,gemini-cli,antigravity}/gemini), laid out   *)
(* as ToClaude is, and a client of that format, which appends the parts of *)
(* the chunks and takes the last reason: no chunk is out of place for it.  *)
(***************************************************************************)
GeminiChunkOf(parts, finish) == [parts |-> parts, finish |-> finish]

GeminiWaits == [parts |-> <<>>, stop |-> "none"]

GeminiSees(c, e) ==
  [parts |-> c.parts \o e.parts, stop |-> IF e.finish = "none" THEN c.stop ELSE e.finish]

------------------------------------------------------------------------------
(* From Codex: a call is stored until the next chunk comes out *)

CodexToGeminiInit == [stored |-> GeminiChunkOf(<<>>, "none")]

\* A later call is stored with those before; what is stored is never cleared.
CodexToGemini(p, c) ==
  LET behind(chunk) == Result(p, IF p.stored.parts = <<>> THEN <<chunk>> ELSE <<p.stored, chunk>>)
  IN CASE c.type = "item.done" /\ c.kind = "tool" ->
            Nothing([stored |-> GeminiChunkOf(Append(p.stored.parts, Sized("tool", c.n)), "STOP")])
       [] c.type \in {"created", "completed"} -> behind(GeminiChunkOf(<<>>, "none"))
       [] c.type = "text.delta" -> behind(GeminiChunkOf(<<Sized(c.kind, c.n)>>, "none"))
       [] OTHER -> Nothing(p)

\* The thinking is looked for where the format does not have it.
CodexToGeminiNonStream(items) ==
  [Assembled(items, "STOP") EXCEPT !.thinking = 0]

------------------------------------------------------------------------------
(* From Claude: the calls that are open, as in ClaudeToChat *)

\* Whatever the reason, it is STOP.
ClaudeToGemini(p, c) ==
  CASE c.ev = "content_block_start" /\ c.kind = "tool" ->
         Nothing([p EXCEPT !.calls = Append(@, [index |-> c.index, n |-> 0])])
    [] c.ev = "content_block_delta" /\ c.kind = "tool" ->
         Nothing([p EXCEPT !.calls = [i \in DOMAIN @ |-> IF @[i].index = c.index THEN [@[i] EXCEPT !.n = @ + c.n] ELSE @[i]]])
    [] c.ev = "content_block_delta" /\ c.kind # "tool" ->
         Result(p, <<GeminiChunkOf(IF c.n = 0 THEN <<>> ELSE <<Sized(c.kind, c.n)>>, "none")>>)
    [] c.ev = "content_block_stop" /\ OpenCalls(p, c.index) # <<>> ->
         Result([p EXCEPT !.calls = SelectSeq(@, LAMBDA call : call.index # c.index)],
                <<GeminiChunkOf(<<Sized("tool", OpenCalls(p, c.index)[1].n)>>, "STOP")>>)
    [] c.ev = "message_delta" -> Result(p, <<GeminiChunkOf(<<>>, "STOP")>>)
    [] OTHER -> Nothing(p)

ClaudeToGeminiNonStream(blocks) == Assembled(blocks, "STOP")

------------------------------------------------------------------------------
(* From OpenAI: the calls wait for the finish reason *)

OpenAIToGeminiInit == [calls |-> <<>>]

\* mapOpenAIFinishReasonToGemini: also of a reason that is not there
OpenAIFinishToGemini(finish) == IF finish = "length" THEN "MAX_TOKENS" ELSE "STOP"

\* A chunk that has texts has nothing else, one with calls no reason, and one with neither
\* ends the response even when its finish reason is null: the field is there.  The calls
\* are emitted in the order of a map, here in theirs.
OpenAIToGemini(p, c) ==
  LET texts == (IF c.thinking > 0 THEN <<GeminiChunkOf(<<Sized("thinking", c.thinking)>>, "none")>> ELSE <<>>)
               \o (IF c.text > 0 THEN <<GeminiChunkOf(<<Sized("text", c.text)>>, "none")>> ELSE <<>>)
  IN CASE c.done -> Nothing(p)
       [] ~c.done /\ texts # <<>> -> Result(p, texts)
       [] ~c.done /\ texts = <<>> /\ c.calls # <<>> ->
            Nothing([calls |-> FoldLeft(LAMBDA calls, call :
                       IF call.index \in DOMAIN calls THEN [calls EXCEPT ![call.index] = @ + call.n]
                       ELSE Append(calls, call.n), p.calls, c.calls)])
       [] ~c.done /\ c.delta /\ texts = <<>> /\ c.calls = <<>> ->
            Result([calls |-> <<>>],
                   <<GeminiChunkOf([i \in DOMAIN p.calls |-> Sized("tool", p.calls[i])],
                                   OpenAIFinishToGemini(c.finish))>>)
       [] OTHER -> Nothing(p)   \* the usage alone

OpenAIToGeminiNonStream(message, finish) == [message EXCEPT !.stop = OpenAIFinishToGemini(finish)]

------------------------------------------------------------------------------
(* From Gemini as it is; from the other two without their envelope, which is left out *)

GeminiToGemini(p, c) ==
  IF c.done THEN Nothing(p)
  ELSE Result(p, <<GeminiChunkOf([i \in DOMAIN c.parts |-> Sized(c.parts[i].kind, c.parts[i].n)], c.finish)>>)
GeminiCLIToGemini(p, c) == GeminiToGemini(p, c)
AntigravityToGemini(p, c) == GeminiToGemini(p, c)

GeminiToGeminiNonStream(parts, finish) == Assembled(parts, finish)
==============================================================================
