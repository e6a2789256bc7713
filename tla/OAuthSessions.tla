---------------------------- MODULE OAuthSessions ----------------------------
(* Logging in to a provider through the management API.  A request         *)
(* registers a session, for a web client opens the provider's callback     *)
(* port, answers with the provider's page and leaves a goroutine behind    *)
(* that waits: for a file in which the server's callback route or the      *)
(* pasted redirect puts the code, or, for the device logins, for the       *)
(* provider to say that the user has agreed.  The client learns how it     *)
(* went by asking for the session.                                         *)
(*                                                                         *)
(* Time is counted in units of five minutes.  What stays on this machine   *)
(* takes no time; the provider may take any.                               *)
EXTENDS Naturals, FiniteSets

CONSTANTS
  Flows,      \* logins
  Plans,      \* which provider each of them is for
  MaxVisits,  \* callbacks delivered for one login, at most
  StartBy,    \* the last moment a login is requested
  MaxNow      \* bound on time

VARIABLES
  provider,   \* login -> provider
  web,        \* login -> requested from the web client: needs the callback port
  pc,         \* login -> what its goroutine does next
  until,      \* login -> when it gives up waiting
  got,        \* login -> what the callback file held
  saved,      \* the logins whose record was written
  session,    \* login -> its entry in the store of sessions
  forwarder,  \* provider -> login whose forwarder is in the table of ports
  listening,  \* the logins whose forwarder has its port open
  prev,       \* login -> the forwarder it is replacing
  file,       \* login -> its callback file
  visitor,    \* login -> the callback being delivered for it
  visits,     \* login -> callbacks delivered
  now

oauthVars == <<provider, web, pc, until, got, saved, session, forwarder, listening,
               prev, file, visitor, visits, now>>

Wait == 1       \* the goroutine waits five minutes for the file
TTL  == 2       \* a session lives ten

Callback == {"anthropic", "gemini", "codex", "antigravity", "iflow"}
NoFlow   == "none"

\* A plan says for each login which provider it is of.
OAuthAssumption ==
  /\ NoFlow \notin Flows
  /\ Plans \subseteq [Flows -> Callback \cup {"qwen", "kimi"}]

\* What a callback carries, and what a reader sees of a file just created.
Contents == {"code", "denied", "bare"}
HasError(c) == c = "denied"
HasState(c) == c # "empty"
HasCode(c)  == c = "code"

----------------------------------------------------------------------------
\* The store: every operation first drops what has expired.  A dropped entry is "gone" and
\* keeps the time it was good for, which nothing reads but the properties.
NoSession == [status |-> "gone", until |-> 0]

purgeExpiredLocked(s) ==
  [f \in Flows |-> IF now > s[f].until THEN [s[f] EXCEPT !.status = "gone"] ELSE s[f]]

Register(f) ==
  session' = [purgeExpiredLocked(session) EXCEPT ![f] = [status |-> "pending", until |-> now + TTL]]

SetError(f) ==
  LET s == purgeExpiredLocked(session)
  IN session' = IF s[f].status = "gone" THEN s
                ELSE [s EXCEPT ![f] = [status |-> "error", until |-> now + TTL]]

Complete(f) == session' = [purgeExpiredLocked(session) EXCEPT ![f].status = "gone"]

\* Mutant: completing a login ends the sessions of every provider.
CompleteProvider_all(p) ==
  session' = [f \in Flows |-> [purgeExpiredLocked(session)[f] EXCEPT !.status = "gone"]]

CompleteProvider(p) ==
  LET s == purgeExpiredLocked(session)
  IN session' = [f \in Flows |-> IF provider[f] = p THEN [s[f] EXCEPT !.status = "gone"] ELSE s[f]]

IsPending(f) == purgeExpiredLocked(session)[f].status = "pending"

\* What asking for the session answers.
GetAuthStatus(f) ==
  LET s == purgeExpiredLocked(session)[f].status
  IN IF s = "gone" THEN "ok" ELSE IF s = "pending" THEN "wait" ELSE "error"

----------------------------------------------------------------------------
Goto(f, where) == pc' = [pc EXCEPT ![f] = where]

\* The goroutine ends, and with it, for a web client, the forwarder.
Leave(f) == Goto(f, IF web[f] THEN "unpublish" ELSE "done")

Fail(f) == SetError(f) /\ Leave(f)

\* startCallbackForwarder: the forwarder in the table is taken out, and stopped; then the
\* port is opened, which fails while anybody has it; then the new one is put into the table.
TakePrev(f) ==
  /\ pc[f] = "replace"
  /\ prev' = [prev EXCEPT ![f] = forwarder[provider[f]]]
  /\ forwarder' = [forwarder EXCEPT ![provider[f]] = NoFlow]
  /\ Goto(f, IF forwarder[provider[f]] = NoFlow THEN "listen" ELSE "stopPrev")
  /\ UNCHANGED <<provider, web, until, got, saved, session, listening, file, visitor, visits, now>>

stopForwarderInstance(g) == listening' = listening \ {g}

StopPrev(f) ==
  /\ pc[f] = "stopPrev"
  /\ stopForwarderInstance(prev[f])
  /\ prev' = [prev EXCEPT ![f] = NoFlow]
  /\ Goto(f, "listen")
  /\ UNCHANGED <<provider, web, until, got, saved, session, forwarder, file, visitor, visits, now>>

PortTaken(f) == \E g \in listening : provider[g] = provider[f]

\* A port in use is answered with status 500, and the session stays as it is.
Refuse(f) ==
  /\ pc[f] = "listen" /\ PortTaken(f)
  /\ Goto(f, "refused")
  /\ UNCHANGED <<provider, web, until, got, saved, session, forwarder, listening, prev, file,
                 visitor, visits, now>>

Listen(f) ==
  /\ pc[f] = "listen" /\ ~PortTaken(f)
  /\ listening' = listening \cup {f}
  /\ Goto(f, "publish")
  /\ UNCHANGED <<provider, web, until, got, saved, session, forwarder, prev, file, visitor,
                 visits, now>>

Publish(f) ==
  /\ pc[f] = "publish"
  /\ forwarder' = [forwarder EXCEPT ![provider[f]] = f]
  /\ until' = [until EXCEPT ![f] = now + Wait]
  /\ Goto(f, "wait")
  /\ UNCHANGED <<provider, web, got, saved, session, listening, prev, file, visitor, visits, now>>

startCallbackForwarder(f) ==
  TakePrev(f) \/ StopPrev(f) \/ Refuse(f) \/ Listen(f) \/ Publish(f)

\* stopCallbackForwarderInstance: out of the table, if still in it, and then stopped.
Unpublished(f) ==
  IF forwarder[provider[f]] = f THEN [forwarder EXCEPT ![provider[f]] = NoFlow] ELSE forwarder

Unpublish(f) ==
  /\ pc[f] = "unpublish"
  /\ forwarder' = Unpublished(f)
  /\ Goto(f, "close")
  /\ UNCHANGED <<provider, web, until, got, saved, session, listening, prev, file, visitor,
                 visits, now>>

Close(f) ==
  /\ pc[f] = "close"
  /\ stopForwarderInstance(f)
  /\ Goto(f, "done")
  /\ UNCHANGED <<provider, web, until, got, saved, session, forwarder, prev, file, visitor,
                 visits, now>>

stopCallbackForwarderInstance(f) == Unpublish(f) \/ Close(f)

----------------------------------------------------------------------------
\* The steps of a login with a callback.
Request(f) ==
  /\ pc[f] = "idle" /\ now <= StartBy
  /\ Register(f)
  /\ \E w \in BOOLEAN :
       /\ web' = [web EXCEPT ![f] = w]
       /\ Goto(f, IF w THEN "replace" ELSE "wait")
  /\ until' = [until EXCEPT ![f] = now + Wait]
  /\ UNCHANGED <<provider, got, saved, forwarder, listening, prev, file, visitor, visits, now>>

\* A round of waiting: the session first, then the time, then the file, which is removed and
\* of which only as much is read as has been written.
Ended(f) ==
  /\ ~IsPending(f)
  /\ session' = purgeExpiredLocked(session)
  /\ Leave(f)
  /\ UNCHANGED <<got, file>>

GivesUp(f) ==
  /\ IsPending(f) /\ now > until[f]
  /\ Fail(f)
  /\ UNCHANGED <<got, file>>

Reads(f) ==
  /\ IsPending(f) /\ now <= until[f] /\ file[f] # "none"
  /\ got' = [got EXCEPT ![f] = file[f]]
  /\ file' = [file EXCEPT ![f] = "none"]
  /\ session' = purgeExpiredLocked(session)
  /\ Goto(f, "judge")

Poll(f) ==
  /\ pc[f] = "wait"
  /\ Ended(f) \/ GivesUp(f) \/ Reads(f)
  /\ UNCHANGED <<provider, web, until, saved, forwarder, listening, prev, visitor, visits, now>>

\* Who takes which callback: the providers differ in what they check, and a code that is
\* missing is found out by some only when the provider is asked.
AnthropicAccepts(c)   == ~HasError(c) /\ HasState(c)
GeminiAccepts(c)      == ~HasError(c) /\ HasCode(c)
CodexAccepts(c)       == ~HasError(c) /\ HasState(c)
AntigravityAccepts(c) == ~HasError(c) /\ HasCode(c)
IFlowAccepts(c)       == ~HasError(c) /\ HasState(c) /\ HasCode(c)

Judge(f, accepted) ==
  /\ pc[f] = "judge"
  /\ \/ accepted  /\ Goto(f, "exchange") /\ UNCHANGED session
     \/ ~accepted /\ Fail(f)
  /\ got' = [got EXCEPT ![f] = IF accepted /\ HasCode(got[f]) THEN "code" ELSE "none"]
  /\ UNCHANGED <<provider, web, until, saved, forwarder, listening, prev, file, visitor, visits, now>>

\* Mutant: a refusal leaves the login where it is.
Exchange_silent(f, next) ==
  /\ pc[f] = "exchange"
  /\ HasCode(got[f]) /\ Goto(f, next) /\ UNCHANGED session
  /\ got' = [got EXCEPT ![f] = "none"]
  /\ UNCHANGED <<provider, web, until, saved, forwarder, listening, prev, file, visitor, visits, now>>

\* The provider is asked for the tokens, the account and what else the record needs.
Exchange(f, next) ==
  /\ pc[f] = "exchange"
  /\ \/ HasCode(got[f]) /\ Goto(f, next) /\ UNCHANGED session
     \/ Fail(f)
  /\ got' = [got EXCEPT ![f] = "none"]
  /\ UNCHANGED <<provider, web, until, saved, forwarder, listening, prev, file, visitor, visits, now>>

\* Gemini: the project is set up, see GeminiOnboarding; "in progress" is asked again for ever.
Onboard(f) ==
  /\ pc[f] = "onboard"
  /\ \/ Goto(f, "save") /\ UNCHANGED session
     \/ Fail(f)
  /\ UNCHANGED <<provider, web, until, got, saved, forwarder, listening, prev, file, visitor,
                 visits, now>>

saveTokenRecord(f) ==
  /\ pc[f] = "save"
  /\ \/ saved' = saved \cup {f} /\ Goto(f, "complete") /\ UNCHANGED session
     \/ saved' = saved /\ Fail(f)
  /\ UNCHANGED <<provider, web, until, got, forwarder, listening, prev, file, visitor, visits, now>>

CompleteOwn(f, sweeps) ==
  /\ pc[f] = "complete"
  /\ Complete(f)
  /\ IF sweeps THEN Goto(f, "sweep") ELSE Leave(f)
  /\ UNCHANGED <<provider, web, until, got, saved, forwarder, listening, prev, file, visitor,
                 visits, now>>

Sweep(f) ==
  /\ pc[f] = "sweep"
  /\ CompleteProvider(provider[f])
  /\ Leave(f)
  /\ UNCHANGED <<provider, web, until, got, saved, forwarder, listening, prev, file, visitor,
                 visits, now>>

CallbackFlow(f, accepted, next) ==
  \/ Request(f) \/ startCallbackForwarder(f)
  \/ Poll(f) \/ Judge(f, accepted) \/ Exchange(f, next)
  \/ saveTokenRecord(f) \/ CompleteOwn(f, TRUE) \/ Sweep(f)
  \/ stopCallbackForwarderInstance(f)

RequestAnthropicToken(f) ==
  provider[f] = "anthropic" /\ CallbackFlow(f, AnthropicAccepts(got[f]), "save")
RequestGeminiCLIToken(f) ==
  provider[f] = "gemini" /\ (CallbackFlow(f, GeminiAccepts(got[f]), "onboard") \/ Onboard(f))
RequestCodexToken(f) ==
  provider[f] = "codex" /\ CallbackFlow(f, CodexAccepts(got[f]), "save")
RequestAntigravityToken(f) ==
  provider[f] = "antigravity" /\ CallbackFlow(f, AntigravityAccepts(got[f]), "save")
RequestIFlowToken(f) ==
  provider[f] = "iflow" /\ CallbackFlow(f, IFlowAccepts(got[f]), "save")

----------------------------------------------------------------------------
\* The device logins: the provider is asked, again and again, whether the user has agreed.
\* Sixty rounds of at most ten seconds for Qwen; a quarter of an hour for Kimi, or less when
\* the code is good for less.
QwenPatience == {2}
KimiPatience == {1, 3}

RequestDevice(f, patience) ==
  /\ pc[f] = "idle" /\ now <= StartBy
  /\ Register(f)
  /\ \E d \in patience : until' = [until EXCEPT ![f] = now + d]
  /\ Goto(f, "poll")
  /\ UNCHANGED <<provider, web, got, saved, forwarder, listening, prev, file, visitor, visits, now>>

\* The last answer may be for something else than time: denied, expired, broken.
PollForToken(f) ==
  /\ pc[f] = "poll"
  /\ \/ now <= until[f] /\ Goto(f, "save") /\ UNCHANGED session
     \/ Fail(f)
  /\ UNCHANGED <<provider, web, until, got, saved, forwarder, listening, prev, file, visitor,
                 visits, now>>

RequestQwenToken(f) ==
  /\ provider[f] = "qwen"
  /\ \/ RequestDevice(f, QwenPatience) \/ PollForToken(f)
     \/ saveTokenRecord(f) \/ CompleteOwn(f, FALSE)

RequestKimiToken(f) ==
  /\ provider[f] = "kimi"
  /\ \/ RequestDevice(f, KimiPatience) \/ PollForToken(f)
     \/ saveTokenRecord(f) \/ CompleteOwn(f, TRUE) \/ Sweep(f)

----------------------------------------------------------------------------
\* A callback.  The user's browser reaches the server's route, through any forwarder on the
\* provider's port when the login is a web client's, or the redirect is pasted, which has to
\* carry a code or an error.  Whoever brings it looks whether the session is pending, creates
\* the file, and fills it.
Answered(f) == provider[f] \in Callback /\ pc[f] \notin {"idle", "replace", "stopPrev", "listen", "publish", "refused"}

Reaches(f, c) == PortTaken(f) \/ c # "bare"

Nobody == [brings |-> "none", created |-> FALSE]

WriteOAuthCallbackFileForPendingSession(f, c) ==
  /\ Answered(f) /\ visits[f] < MaxVisits /\ visitor[f] = Nobody
  /\ Reaches(f, c)
  /\ session' = purgeExpiredLocked(session)
  /\ visits' = [visits EXCEPT ![f] = @ + 1]
  /\ visitor' = [visitor EXCEPT ![f] = IF IsPending(f) THEN [brings |-> c, created |-> FALSE]
                                                   ELSE Nobody]
  /\ UNCHANGED <<provider, web, pc, until, got, saved, forwarder, listening, prev, file, now>>

WriteOAuthCallbackFile(f) ==
  /\ visitor[f] # Nobody
  /\ \/ /\ ~visitor[f].created
        /\ file' = [file EXCEPT ![f] = "empty"]
        /\ visitor' = [visitor EXCEPT ![f].created = TRUE]
     \/ /\ visitor[f].created
        /\ file' = [file EXCEPT ![f] = IF @ = "empty" THEN visitor[f].brings ELSE @]
        /\ visitor' = [visitor EXCEPT ![f] = Nobody]
  /\ UNCHANGED <<provider, web, pc, until, got, saved, session, forwarder, listening, prev,
                 visits, now>>

----------------------------------------------------------------------------
OAuthInit ==
  /\ provider \in Plans
  /\ web       = [f \in Flows |-> FALSE]
  /\ pc        = [f \in Flows |-> "idle"]
  /\ until     = [f \in Flows |-> 0]
  /\ got       = [f \in Flows |-> "none"]
  /\ saved     = {}
  /\ session   = [f \in Flows |-> NoSession]
  /\ forwarder = [p \in Callback |-> NoFlow]
  /\ listening = {}
  /\ prev      = [f \in Flows |-> NoFlow]
  /\ file      = [f \in Flows |-> "none"]
  /\ visitor   = [f \in Flows |-> Nobody]
  /\ visits    = [f \in Flows |-> 0]
  /\ now       = 0

\* Five minutes pass only when nothing on this machine is left to do.
AtRest(f) ==
  /\ \/ pc[f] \in {"idle", "exchange", "onboard", "done", "refused"}
     \/ pc[f] \in {"wait", "poll"} /\ now <= until[f]
  /\ visitor[f] = Nobody

Pass ==
  /\ now < MaxNow
  /\ \A f \in Flows : AtRest(f)
  /\ now' = now + 1
  /\ UNCHANGED <<provider, web, pc, until, got, saved, session, forwarder, listening, prev,
                 file, visitor, visits>>

Login(f) ==
  \/ RequestAnthropicToken(f) \/ RequestGeminiCLIToken(f) \/ RequestCodexToken(f)
  \/ RequestAntigravityToken(f) \/ RequestIFlowToken(f)
  \/ RequestQwenToken(f) \/ RequestKimiToken(f)

OAuthNext ==
  \/ \E f \in Flows :
       \/ Login(f)
       \/ \E c \in Contents : WriteOAuthCallbackFileForPendingSession(f, c)
       \/ WriteOAuthCallbackFile(f)
  \/ Pass

OAuthSpec == OAuthInit /\ [][OAuthNext]_oauthVars

----------------------------------------------------------------------------
Swept(f) == \E g \in saved \ {f} : provider[g] = provider[f] /\ provider[f] # "qwen"
Lapsed(f) == now > session[f].until

\* What the client is told about a login is what happened to it.  "ok" means that its record
\* is written, that another login of the provider was completed and took its session away, or
\* that it asked too late; "error" means that nothing was written and nothing will be; and a
\* login whose callback can still come is never told anything but "wait", unless another one
\* of its provider was completed.
Told ==
  \A f \in Flows : pc[f] # "idle" =>
    /\ GetAuthStatus(f) = "ok" => f \in saved \/ Swept(f) \/ Lapsed(f)
    /\ GetAuthStatus(f) = "error" => f \notin saved /\ pc[f] \in {"unpublish", "close", "done"}
    /\ pc[f] \in {"replace", "stopPrev", "listen", "publish", "wait"} =>
         GetAuthStatus(f) = "wait" \/ Swept(f)

\* The table of forwarders and the open ports agree: a port is open for the login the table
\* names, or for one that is about to enter it or being stopped, and the login in the table
\* has its port open until it ends.  So no login that has ended leaves a port open, and none
\* that ends takes away the port of the one that came after it.
Owned ==
  /\ \A f \in listening :
       \/ forwarder[provider[f]] = f
       \/ pc[f] \in {"publish", "close"}
       \/ \E g \in Flows : prev[g] = f
  /\ \A p \in Callback : forwarder[p] # NoFlow =>
       forwarder[p] \in listening /\ pc[forwarder[p]] # "done"

\* Every login comes to an end, with its port closed, but a Gemini login whose project the
\* provider never finishes setting up.
Finishes ==
  []<>(\A f \in Flows : pc[f] \in {"idle", "done", "refused", "onboard"})
=============================================================================
