-------------------------- MODULE ResponsesSocket --------------------------
(***************************************************************************)
(* The Responses API over a websocket (sdk/api/handlers/openai/            *)
(* openai_responses_websocket.go): a client sends turns, each with what it *)
(* adds to a conversation.  The handler hands a turn on as it is, with the *)
(* ID of the response it follows, when it takes the upstream for one that  *)
(* keeps conversations; else it puts the conversation together itself,     *)
(* from the last request and the output of its answer.                     *)
(*                                                                         *)
(* An input or an output is one item.  The Manager's choice of an auth and *)
(* its retries are StreamRequest's and Scheduler's: here any auth that is  *)
(* ready, or the pinned one, is tried any number of times, which holds for *)
(* models that several providers serve too.  The request's context is that *)
(* of a hijacked connection, which nothing cancels: that the client has    *)
(* gone shows in a read or a write.                                        *)
(***************************************************************************)
EXTENDS Naturals, Sequences, TLC

CONSTANTS
  SocketAuths,   \* auths of the model
  SocketTurns    \* bound on the turns of the client

None == "none"
Ids  == 1..SocketTurns        \* a response has the number of its turn
NoId == 0

VARIABLES
  at,        \* where the handler is: "reading", "picking", "forwarding" or "closed"
  last,      \* lastRequest; it does not exist before the first one
  output,    \* lastResponseOutput
  pin,       \* pinnedAuthID
  request,   \* the request of the turn: of which response, its input, its instructions
  free,      \* the turn began without a pin: what is selected may become one
  able,      \* per auth: its attribute or metadata "websockets"
  ready,     \* per auth: neither disabled nor cooling down for the model
  known,     \* per auth: the conversations its upstream connection keeps, by response
  done,      \* forwardResponsesWebsocket: completed
  turn,      \* client: turns sent
  said,      \* client: all it has sent and been answered
  latest,    \* client: the last response it got, and the conversation up to it
  rules,     \* client: the turn that last gave instructions
  told,      \* client: what it was told about its last turn
  meant,     \* history: the conversation the client means the turn to continue
  heard,     \* history: the conversation the upstream was given, and by which transport
  failed,    \* history: inputs of turns that were not answered
  torn       \* history: a request has gone out that lacks what came before

svars == <<at, last, output, pin, request, free, able, ready, known, done, turn, said, latest,
           rules, told, meant, heard, failed, torn>>

In(n)  == <<"in", n>>
Out(n) == <<"out", n>>

NoRequest == [exists |-> FALSE, prev |-> NoId, input |-> <<>>, text |-> FALSE, warm |-> FALSE, rules |-> 0]

NoTalk == [talk |-> <<>>, over |-> FALSE]
NoResponse == [id |-> NoId, talk |-> <<>>]

SocketInit ==
  /\ at = "reading" /\ last = NoRequest /\ output = <<>> /\ pin = None
  /\ request = NoRequest /\ free = TRUE
  /\ able \in [SocketAuths -> BOOLEAN] /\ ready = [a \in SocketAuths |-> TRUE]
  /\ known = [a \in SocketAuths |-> <<>>]
  /\ done = FALSE
  /\ turn = 0 /\ said = <<>> /\ latest = NoResponse /\ rules = 0 /\ told = <<>>
  /\ meant = <<>> /\ heard = NoTalk /\ failed = {} /\ torn = FALSE

------------------------------------------------------------------------------
(* Messages of the client *)

\* follows: it names the last response it got; form: that of its input.  It warms up, if at all,
\* with its first message.
Messages ==
  [type : {"create", "append"}, follows : {latest.id # NoId, FALSE}, form : {"array", "text", "absent"},
   model : BOOLEAN, warm : {turn = 0, FALSE}, rules : BOOLEAN]
  \cup [type : {"other"}, follows : {FALSE}, form : {"array"}, model : {TRUE}, warm : {FALSE}, rules : {FALSE}]

Added(msg) == IF msg.form = "absent" THEN <<>> ELSE <<In(turn + 1)>>

\* Whether the upstream is taken for one that keeps conversations: the pinned one; else, one
\* such auth that may be selected is enough.
ForModel == \E a \in SocketAuths : ready[a] /\ able[a]
Incremental == IF pin # None THEN able[pin] ELSE ForModel

Rules(msg) == IF msg.rules THEN turn + 1 ELSE last.rules

Create(msg) ==
  [exists |-> TRUE, prev |-> IF msg.follows THEN latest.id ELSE NoId, input |-> Added(msg),
   text |-> msg.form = "text", warm |-> msg.warm, rules |-> Rules(msg)]

Passed(msg) == msg.follows /\ Incremental

Joined(msg) == last.input \o output \o Added(msg)
Merged(msg) == [Create(msg) EXCEPT !.prev = NoId, !.input = Joined(msg)]

\* "unsupported websocket request type", "received before response.create", "missing model",
\* "requires array field: input" and "invalid previous response output", which is what the text
\* of a first input comes to.
Malformed(msg) ==
  \/ msg.type = "other"
  \/ ~last.exists /\ (msg.type = "append" \/ ~msg.model)
  \/ last.exists /\ (msg.form # "array" \/ (~Passed(msg) /\ last.text))

Normalized(msg) ==
  IF ~last.exists \/ Passed(msg) THEN Create(msg) ELSE Merged(msg)

Local(msg) == ~Incremental /\ ~last.exists /\ msg.warm

Meant(msg) == (IF msg.follows THEN latest.talk ELSE said) \o Added(msg)

WithError == Append(told, "error")

Refuse ==
  /\ at = "reading" /\ turn < SocketTurns
  /\ \E msg \in Messages : Malformed(msg)
  /\ turn' = turn + 1 /\ told' = <<"error">>
  /\ UNCHANGED <<at, last, output, pin, request, free, able, ready, known, done, said, latest,
                 rules, meant, heard, failed, torn>>

\* What the client has been told of is its own, whoever answered.
Accept(msg) ==
  /\ ~Malformed(msg)
  /\ turn' = turn + 1
  /\ rules' = IF msg.rules THEN turn' ELSE rules

\* The made-up answer to a request that continues what was said: an ID, and no output.
Synthetic(talk) == [id |-> turn + 1, talk |-> talk]

\* A prewarming request that no upstream needs to see.
Prewarm ==
  /\ at = "reading" /\ turn < SocketTurns
  /\ \E msg \in Messages :
       /\ Accept(msg) /\ Local(msg)
       /\ last' = [Normalized(msg) EXCEPT !.warm = FALSE]
       /\ output' = <<>>
       /\ said' = said \o Added(msg)
       /\ latest' = Synthetic(said')
  /\ told' = <<"completed">>
  /\ UNCHANGED <<at, pin, request, free, able, ready, known, done, meant, heard, failed, torn>>

Receive ==
  /\ at = "reading" /\ turn < SocketTurns
  /\ \E msg \in Messages :
       /\ Accept(msg) /\ ~Local(msg)
       /\ request' = Normalized(msg) /\ last' = request'
       /\ said' = said \o Added(msg)
       /\ meant' = Meant(msg)
       /\ torn' = (torn \/ (last.exists /\ ~Passed(msg) /\ last.prev # NoId))
  /\ at' = "picking" /\ free' = (pin = None) /\ done' = FALSE /\ told' = <<>>
  /\ UNCHANGED <<output, pin, able, ready, known, latest, heard, failed>>

------------------------------------------------------------------------------
(* The turn: an auth is selected and tried, its answer forwarded *)

\* The callback of the selection: an auth that keeps conversations is pinned when it is tried.
Select(a) ==
  /\ at = "picking" /\ ready[a]
  /\ pin # None /\ ~free => a = pin
  /\ pin' = IF free /\ able[a] THEN a ELSE pin

Knows(a) == request.prev = NoId \/ request.prev \in DOMAIN known[a]

Attempt(a) ==
  /\ Select(a)
  /\ \E down \in BOOLEAN : ready' = [ready EXCEPT ![a] = ~down]
  /\ UNCHANGED <<at, last, output, request, free, able, known, done, turn, said, latest, rules,
                 told, meant, heard, failed, torn>>

\* Over HTTP nothing is kept from one request to the next: the ID is not sent on.
Talk(a) ==
  (IF able[a] /\ request.prev # NoId THEN known[a][request.prev] ELSE <<>>) \o request.input

Serve(a) ==
  /\ Select(a)
  /\ able[a] => Knows(a)
  /\ heard' = [talk |-> Talk(a), over |-> able[a]]
  /\ torn' = (torn \/ (~able[a] /\ request.prev # NoId))
  /\ at' = "forwarding"
  /\ known' = [known EXCEPT ![a] = IF able[a] THEN (turn :> Talk(a)) @@ @ ELSE @]
  /\ UNCHANGED <<last, output, request, free, able, ready, done, turn, said, latest, rules,
                 told, meant, failed>>

\* What "response.completed" carries: a prewarming request that an upstream saw has no output.
Produced == IF request.warm /\ heard.over THEN <<>> ELSE <<Out(turn)>>

Complete ==
  /\ at = "forwarding" /\ ~done
  /\ done' = TRUE /\ told' = Append(told, "completed")
  /\ said' = said \o Produced
  /\ latest' = [id |-> turn, talk |-> meant \o Produced]
  /\ known' = [a \in SocketAuths |->
                 IF turn \in DOMAIN known[a] THEN [known[a] EXCEPT ![turn] = @ \o Produced] ELSE known[a]]
  /\ UNCHANGED <<at, last, output, pin, request, free, able, ready, turn, rules, meant, heard,
                 failed, torn>>

\* What the iteration of the loop kept to itself.
Forgotten ==
  /\ request' = NoRequest /\ free' = TRUE /\ done' = FALSE
  /\ meant' = <<>> /\ heard' = NoTalk

\* For the mutants: an answer that fails leaves the output of the one before it.
Turned_keeps ==
  /\ at' = "reading"
  /\ output' = IF done THEN Produced ELSE output
  /\ failed' = IF done THEN failed ELSE failed \cup {In(turn)}
  /\ Forgotten
  /\ UNCHANGED <<last, pin, able, ready, known, turn, said, latest, rules, torn>>

\* The next message is read; the output of an answer that was not completed is nothing.
Turned ==
  /\ at' = "reading"
  /\ output' = IF done THEN Produced ELSE <<>>
  /\ failed' = IF done THEN failed ELSE failed \cup {In(turn)}
  /\ Forgotten
  /\ UNCHANGED <<last, pin, able, ready, known, turn, said, latest, rules, torn>>

\* An error comes from the Manager or the stream, after the answer is complete too; or the
\* stream closes before it is: "stream closed before response.completed".
Fail ==
  /\ at \in {"picking", "forwarding"}
  /\ told' = WithError
  /\ Turned

Finish ==
  /\ at = "forwarding" /\ done
  /\ UNCHANGED told
  /\ Turned

\* The client goes.  All this was the session's; CloseExecutionSession ends its connections
\* to the upstreams.
Leave ==
  /\ at # "closed" /\ at' = "closed"
  /\ last' = NoRequest /\ output' = <<>> /\ pin' = None /\ known' = [a \in SocketAuths |-> <<>>]
  /\ Forgotten
  /\ turn' = SocketTurns /\ said' = <<>> /\ latest' = NoResponse /\ rules' = 0 /\ told' = <<>>
  /\ failed' = {} /\ torn' = FALSE
  /\ UNCHANGED <<able, ready>>

------------------------------------------------------------------------------
(* Meanwhile *)

\* Cooldowns begin and end, auths are disabled and enabled, the configuration changes
\* "websockets", a connection to an upstream breaks.  None of it is looked at while an answer is
\* forwarded, so it may as well happen after.
Elsewhere(a) ==
  /\ at \in {"reading", "picking"}
  /\ \/ \E b \in BOOLEAN : ready' = [ready EXCEPT ![a] = b] /\ UNCHANGED <<able, known>>
     \/ able' = [able EXCEPT ![a] = ~@] /\ UNCHANGED <<ready, known>>
     \/ known' = [known EXCEPT ![a] = <<>>] /\ UNCHANGED <<able, ready>>
  /\ UNCHANGED <<at, last, output, pin, request, free, done, turn, said, latest, rules, told,
                 meant, heard, failed, torn>>

SocketNext ==
  \/ Refuse \/ Prewarm \/ Receive \/ Complete \/ Fail \/ Finish \/ Leave
  \/ \E a \in SocketAuths : Attempt(a) \/ Serve(a) \/ Elsewhere(a)

SocketSpec == SocketInit /\ [][SocketNext]_svars

------------------------------------------------------------------------------
(* Properties *)

Answered(talk) == LET in(item) == item \notin failed IN SelectSeq(talk, in)

\* The upstream that answers a turn is given the conversation the client means: what was said
\* and answered before, in order and once, with the instructions given last.  Inputs of turns
\* that failed may be in it or not.  Except for two kinds of requests, after which the handler
\* does not find back: one with only what is new that is served over HTTP, and one put together
\* from such a request.
Heard ==
  at = "forwarding" /\ ~done =>
    /\ request.rules = rules
    /\ torn \/ Answered(heard.talk) = Answered(meant)

\* A turn is over once the client is told so, with a completed answer or an error, and nothing
\* but an error comes after a completed one.
ToldOnce ==
  at = "reading" /\ turn > 0 =>
    told \in {<<"completed">>, <<"error">>, <<"completed", "error">>}
==============================================================================
