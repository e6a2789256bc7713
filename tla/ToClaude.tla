------------------------------ MODULE ToClaude ------------------------------
(***************************************************************************)
(* The response translators to the Claude format (internal/translator/     *)
(* {codex,gemini,gemini-cli,openai,antigravity}/claude).  Each stream      *)
(* translator is called with the chunks of an upstream's stream and keeps  *)
(* a parameter p between the calls; it returns the parameter and the       *)
(* events it emits.  Each NonStream operator is the message of a whole     *)
(* response.  Identifiers, names, signatures and token counts are left     *)
(* out.                                                                    *)
(***************************************************************************)
EXTENDS Naturals, Integers, Sequences, SequencesExt

(* The messages of the formats, and a client of the Claude format: what it makes of the  *)
(* events of a stream, and whether they are a stream at all.  A text is its length in    *)
(* pieces.  A message is the pieces of its text and of its thinking, the pieces of the   *)
(* arguments of each tool call, and the reason it stopped.                               *)

Sized(kind, n) == [kind |-> kind, n |-> n]

\* The message of a sequence of blocks, or parts, of the three kinds
Kind(blocks, kind) == SelectSeq(blocks, LAMBDA b : b.kind = kind)
Pieces(blocks, kind) == FoldLeft(LAMBDA sum, b : sum + b.n, 0, Kind(blocks, kind))
Assembled(blocks, stop) ==
  [text     |-> Pieces(blocks, "text"),
   thinking |-> Pieces(blocks, "thinking"),
   tools    |-> [i \in 1..Len(Kind(blocks, "tool")) |-> Kind(blocks, "tool")[i].n],
   stop     |-> stop]

------------------------------------------------------------------------------
(* Claude: blocks are numbered from 0 in the order they start; a delta and a stop name *)
(* an open block.                                                                      *)

Event(ev, index, kind, n) == [ev |-> ev, index |-> index, kind |-> kind, n |-> n]
MessageStart == Event("message_start", 0, "none", 0)
BlockStart(index, kind) == Event("content_block_start", index, kind, 0)
BlockDelta(index, kind, n) == Event("content_block_delta", index, kind, n)
BlockStop(index) == Event("content_block_stop", index, "none", 0)
MessageDelta(stop) == Event("message_delta", 0, stop, 0)
MessageStop == Event("message_stop", 0, "none", 0)

ClaudeWaits == [started |-> FALSE, blocks |-> <<>>, stop |-> "none", ended |-> FALSE, bad |-> FALSE]

OpenBlock(c, index) == index + 1 \in DOMAIN c.blocks /\ c.blocks[index + 1].open

\* One more event; bad remembers that it was out of place.
ClaudeSees(c, e) ==
  LET accepted ==
        CASE e.ev = "message_start" -> [c EXCEPT !.started = TRUE]
          [] e.ev = "content_block_start" ->
               [c EXCEPT !.blocks = Append(@, [kind |-> e.kind, n |-> 0, open |-> TRUE])]
          [] e.ev = "content_block_delta" -> [c EXCEPT !.blocks[e.index + 1].n = @ + e.n]
          [] e.ev = "content_block_stop" -> [c EXCEPT !.blocks[e.index + 1].open = FALSE]
          [] e.ev = "message_delta" -> [c EXCEPT !.stop = e.kind]
          [] e.ev = "message_stop" -> [c EXCEPT !.ended = TRUE]
      inPlace ==
        CASE e.ev = "message_start" -> ~c.started
          [] e.ev = "content_block_start" -> e.index = Len(c.blocks) /\ c.stop = "none"
          [] e.ev = "content_block_delta" -> OpenBlock(c, e.index) /\ c.blocks[e.index + 1].kind = e.kind
          [] e.ev = "content_block_stop" -> OpenBlock(c, e.index)
          [] e.ev = "message_delta" -> c.stop = "none" /\ \A i \in DOMAIN c.blocks : ~c.blocks[i].open
          [] e.ev = "message_stop" -> c.stop # "none"
  IN IF (e.ev = "message_start" \/ c.started) /\ ~c.ended /\ inPlace THEN accepted
     ELSE [c EXCEPT !.bad = TRUE]

------------------------------------------------------------------------------

Result(p, out) == [p |-> p, out |-> out]
Nothing(p) == Result(p, <<>>)

------------------------------------------------------------------------------
(* From Codex: one event of the Responses stream per chunk *)

CodexToClaudeInit == [hasToolCall |-> FALSE, blockIndex |-> 0, hasDelta |-> FALSE]

\* The reason of a completed response: a call is one, of the others two are passed on.
CodexStop(p, reason) ==
  CASE p.hasToolCall -> "tool_use"
    [] ~p.hasToolCall /\ reason \in {"max_tokens", "stop"} -> reason
    [] OTHER -> "end_turn"

\* An item other than a function call is opened by its parts.
CodexToClaude(p, c) ==
  LET i == p.blockIndex
      next == [p EXCEPT !.blockIndex = @ + 1]
  IN CASE c.type = "created" -> Result(p, <<MessageStart>>)
       [] c.type = "part.added" -> Result(p, <<BlockStart(i, c.kind)>>)
       [] c.type = "text.delta" -> Result(p, <<BlockDelta(i, c.kind, c.n)>>)
       [] c.type = "part.done" -> Result(next, <<BlockStop(i)>>)
       [] c.type = "item.added" /\ c.kind = "tool" ->
            Result([p EXCEPT !.hasToolCall = TRUE, !.hasDelta = FALSE],
                   <<BlockStart(i, "tool"), BlockDelta(i, "tool", 0)>>)
       [] c.type = "arguments.delta" ->
            Result([p EXCEPT !.hasDelta = TRUE], <<BlockDelta(i, "tool", c.n)>>)
       [] c.type = "arguments.done" /\ ~p.hasDelta /\ c.n > 0 -> Result(p, <<BlockDelta(i, "tool", c.n)>>)
       [] c.type = "item.done" /\ c.kind = "tool" -> Result(next, <<BlockStop(i)>>)
       [] c.type = "completed" -> Result(p, <<MessageDelta(CodexStop(p, c.kind)), MessageStop>>)
       [] OTHER -> Nothing(p)

\* The items of the completed response, in their order, and any reason it gives
CodexToClaudeNonStream(items, reason) ==
  Assembled(items, CASE reason # "none" -> reason
                     [] reason = "none" /\ Kind(items, "tool") # <<>> -> "tool_use"
                     [] OTHER -> "end_turn")

------------------------------------------------------------------------------
(* From Gemini, and with two differences from the Gemini CLI: the parts of a chunk     *)

GeminiToClaudeInit == [hasFirst |-> FALSE, type |-> "none", index |-> 0, hasContent |-> FALSE,
                       usedTool |-> FALSE]

Plus(r, events) == [r EXCEPT !.out = @ \o events]

\* The open block is closed; its index is the next one's.
CloseBlock(r) ==
  IF r.p.type = "none" THEN r
  ELSE Plus([r EXCEPT !.p.index = @ + 1], <<BlockStop(r.p.index)>>)

OpenNext(r, kind) ==
  LET closed == CloseBlock(r)
  IN Plus([closed EXCEPT !.p.type = kind, !.p.hasContent = TRUE], <<BlockStart(closed.p.index, kind)>>)

\* The arguments of a call may be missing; a text is emitted even when it is empty.
PieceOf(r, part) ==
  IF part.kind = "tool" /\ part.n = 0 THEN r
  ELSE Plus(r, <<BlockDelta(r.p.index, part.kind, part.n)>>)

\* A call without a name goes on with the one before.
GeminiToClaudePart(r, part) ==
  LET seen == [r EXCEPT !.p.usedTool = @ \/ part.kind = "tool"]
  IN PieceOf(IF r.p.type = part.kind /\ (part.kind = "tool" => ~part.named) THEN seen
             ELSE OpenNext(seen, part.kind), part)

\* Every call of the Gemini CLI is one of its own.
GeminiCLIToClaudePart(r, part) ==
  LET seen == [r EXCEPT !.p.usedTool = @ \/ part.kind = "tool"]
  IN PieceOf(IF r.p.type = part.kind /\ part.kind # "tool" THEN seen ELSE OpenNext(seen, part.kind), part)

GeminiToClaudeStart(p) ==
  Result([p EXCEPT !.hasFirst = TRUE], IF p.hasFirst THEN <<>> ELSE <<MessageStart>>)

\* The final events need the finish reason and the count of the tokens in one chunk;
\* message_stop waits for [DONE].
GeminiToClaudeFinish(r, c) ==
  IF c.finish = "none" \/ ~c.usage \/ ~r.p.hasContent THEN r
  ELSE Plus(r, <<BlockStop(r.p.index),
                 MessageDelta(CASE r.p.usedTool -> "tool_use"
                                [] ~r.p.usedTool /\ c.finish = "MAX_TOKENS" -> "max_tokens"
                                [] OTHER -> "end_turn")>>)

GeminiToClaudeDone(p) == Result(p, IF p.hasContent THEN <<MessageStop>> ELSE <<>>)

GeminiToClaude(p, c) ==
  IF c.done THEN GeminiToClaudeDone(p)
  ELSE GeminiToClaudeFinish(FoldLeft(GeminiToClaudePart, GeminiToClaudeStart(p), c.parts), c)

\* usedTool is a variable of the call here: it forgets the chunks before.
GeminiCLIToClaude(p, c) ==
  IF c.done THEN GeminiToClaudeDone(p)
  ELSE LET start == GeminiToClaudeStart([p EXCEPT !.usedTool = FALSE])
       IN GeminiToClaudeFinish(FoldLeft(GeminiCLIToClaudePart, start, c.parts), c)

GeminiStop(parts, finish) ==
  CASE Kind(parts, "tool") # <<>> -> "tool_use"
    [] Kind(parts, "tool") = <<>> /\ finish = "MAX_TOKENS" -> "max_tokens"
    [] OTHER -> "end_turn"

\* All three: the texts are gathered until a part of another kind comes.
GeminiToClaudeNonStream(parts, finish) == Assembled(parts, GeminiStop(parts, finish))
GeminiCLIToClaudeNonStream(parts, finish) == GeminiToClaudeNonStream(parts, finish)
AntigravityToClaudeNonStream(parts, finish) == GeminiToClaudeNonStream(parts, finish)

------------------------------------------------------------------------------
(* From Antigravity: Gemini's parts with signatures, and a state for the end *)

AntigravityToClaudeInit ==
  [hasFirst |-> FALSE, type |-> "none", index |-> 0, hasContent |-> FALSE, usedTool |-> FALSE,
   finish |-> "none", usage |-> FALSE, sentFinal |-> FALSE]

\* A signature goes to the block of the current index, the text with it nowhere; an empty
\* text closes the block before it, opens none and leaves the type as it was, unless the
\* chunk has a finish reason.
AntigravityToClaudePart(r, part, finish) ==
  CASE part.kind = "thinking" /\ part.signed ->
         Plus([r EXCEPT !.p.hasContent = TRUE], <<BlockDelta(r.p.index, "thinking", 0)>>)
    [] part.kind = "text" /\ part.n = 0 ->
         IF finish # "none" THEN r ELSE IF r.p.type = "text" THEN PieceOf(r, part) ELSE CloseBlock(r)
    [] OTHER -> GeminiCLIToClaudePart(r, part)

\* appendFinalEvents: once, with something to end
AntigravityFinalEvents(r, force) ==
  IF r.p.sentFinal \/ (~r.p.usage /\ ~force) \/ ~r.p.hasContent THEN r
  ELSE Plus([r EXCEPT !.p.type = "none", !.p.sentFinal = TRUE],
            (IF r.p.type # "none" THEN <<BlockStop(r.p.index)>> ELSE <<>>)
            \o <<MessageDelta(CASE r.p.usedTool -> "tool_use"
                                [] ~r.p.usedTool /\ r.p.finish = "MAX_TOKENS" -> "max_tokens"
                                [] OTHER -> "end_turn")>>)

\* The finish reason and the usage may come in different chunks; [DONE] asks for neither.
AntigravityToClaude(p, c) ==
  IF c.done
    THEN IF ~p.hasContent THEN Nothing(p)
         ELSE Plus(AntigravityFinalEvents(Nothing(p), TRUE), <<MessageStop>>)
    ELSE LET r == FoldLeft(LAMBDA s, part : AntigravityToClaudePart(s, part, c.finish),
                           GeminiToClaudeStart(p), c.parts)
             noted == [r EXCEPT !.p.finish = IF c.finish # "none" THEN c.finish ELSE @,
                                !.p.usage = @ \/ c.usage]
         IN IF noted.p.usage /\ noted.p.finish # "none" THEN AntigravityFinalEvents(noted, FALSE) ELSE noted

------------------------------------------------------------------------------
(* From OpenAI chat completions: a delta of the three kinds per chunk *)

NoBlock == -1

OpenAIToClaudeInit ==
  [started |-> FALSE, text |-> NoBlock, thinking |-> NoBlock, next |-> 0,
   calls |-> <<>>,    \* per tool index: its block, the pieces of its arguments
   saw |-> FALSE, finish |-> "none", stopped |-> FALSE, deltaSent |-> FALSE, stopSent |-> FALSE]

\* stopTextContentBlock, stopThinkingContentBlock
StopOpen(r, kind) ==
  IF r.p[kind] = NoBlock THEN r
  ELSE Plus([r EXCEPT !.p[kind] = NoBlock], <<BlockStop(r.p[kind])>>)

\* A text, or a thought, opens its block and closes the other's.
OpenAITextDelta(r, kind, other, n) ==
  IF n = 0 THEN r
  ELSE LET alone == StopOpen(r, other)
           opened == IF alone.p[kind] # NoBlock THEN alone
                     ELSE Plus([alone EXCEPT !.p[kind] = alone.p.next, !.p.next = @ + 1],
                               <<BlockStart(alone.p.next, kind)>>)
       IN Plus(opened, <<BlockDelta(opened.p[kind], kind, n)>>)

\* A call has its block from its first chunk on; the block starts with the name, and its
\* arguments are kept for the end.  Tool indices are consecutive.
OpenAIToolDelta(r, call) ==
  LET known == call.index \in DOMAIN r.p.calls
      seen == [r EXCEPT !.p.saw = TRUE,
                        !.p.calls = IF known THEN [@ EXCEPT ![call.index].n = @ + call.n]
                                    ELSE Append(@, [block |-> r.p.next, n |-> call.n]),
                        !.p.next = IF known THEN @ ELSE @ + 1]
  IN IF ~call.named THEN seen
     ELSE Plus(StopOpen(StopOpen(seen, "thinking"), "text"),
               <<BlockStart(seen.p.calls[call.index].block, "tool")>>)

\* The calls get their arguments and are closed, in any order; here in theirs.
StopCalls(r) ==
  IF r.p.stopped THEN r
  ELSE Plus([r EXCEPT !.p.stopped = TRUE],
            FlattenSeq([i \in 1..Len(r.p.calls) |->
              (IF r.p.calls[i].n > 0 THEN <<BlockDelta(r.p.calls[i].block, "tool", r.p.calls[i].n)>> ELSE <<>>)
              \o <<BlockStop(r.p.calls[i].block)>>]))

StopBlocks(r) == StopCalls(StopOpen(StopOpen(r, "thinking"), "text"))

\* mapOpenAIFinishReasonToAnthropic
OpenAIStop(finish) ==
  CASE finish = "tool_calls" -> "tool_use"
    [] finish = "length" -> "max_tokens"
    [] OTHER -> "end_turn"

SendMessageDelta(r) ==
  Plus([r EXCEPT !.p.deltaSent = TRUE], <<MessageDelta(OpenAIStop(IF r.p.saw THEN "tool_calls" ELSE r.p.finish))>>)

SendMessageStop(r) ==
  IF r.p.stopSent THEN r ELSE Plus([r EXCEPT !.p.stopSent = TRUE], <<MessageStop>>)

OpenAIChunkToClaude(p, c) ==
  LET start == IF c.delta /\ ~p.started THEN Result([p EXCEPT !.started = TRUE], <<MessageStart>>)
               ELSE Nothing(p)
      content == OpenAITextDelta(OpenAITextDelta(start, "thinking", "text", c.thinking),
                                 "text", "thinking", c.text)
      called == FoldLeft(OpenAIToolDelta, content, c.calls)
      finished == IF c.finish = "none" THEN called
                  ELSE StopBlocks([called EXCEPT !.p.finish = c.finish])
  IN IF finished.p.finish = "none" \/ ~c.usage THEN finished
     ELSE SendMessageStop(SendMessageDelta(finished))

\* Mutant: the reason is left to the chunk with the usage, which may not come.
OpenAIDoneToClaude_silent(p) == SendMessageStop(StopBlocks(Nothing(p)))

\* convertOpenAIDoneToAnthropic
OpenAIDoneToClaude(p) ==
  LET r == StopBlocks(Nothing(p))
  IN SendMessageStop(IF p.finish # "none" /\ ~p.deltaSent THEN SendMessageDelta(r) ELSE r)

OpenAIToClaude(p, c) == IF c.done THEN OpenAIDoneToClaude(p) ELSE OpenAIChunkToClaude(p, c)

\* The text, then the thinking, then the calls: the order does not show here.
OpenAIToClaudeNonStream(message, finish) == [message EXCEPT !.stop = OpenAIStop(finish)]
=============================================================================
