----------------------------- MODULE MCConductor ----------------------------
(***************************************************************************)
(* What the server does for several people at once: their requests, and    *)
(* operators beside them, in the Manager; their logins, in the management  *)
(* API; the project a Gemini login ends in.  A behaviour is about one of   *)
(* the three, "subject", and the others stay in an initial state.          *)
(***************************************************************************)
EXTENDS Conductor, TLC

CONSTANTS
  f1, f2,
  MaxVisits, StartBy, LoginEnd,
  Projects, Generated, Backends

VARIABLES
  subject,
  provider, web, at, until, got, saved, session, forwarder, listening, prev, file, visitor,
  visits, now,
  mode, stage, todo, asked, project, tierFree, activated, answers, enabled, record

Both(p) == (f1 :> p) @@ (f2 :> p)
Plans == {Both(p) : p \in {"anthropic", "gemini", "kimi"}}
         \cup {(f1 :> "codex") @@ (f2 :> "iflow"), (f1 :> "antigravity") @@ (f2 :> "qwen")}

Logins == INSTANCE OAuthSessions WITH Flows <- {f1, f2}, MaxNow <- LoginEnd, pc <- at

ASSUME LoginsAssumption == Logins!OAuthAssumption

Lists == {<<>>, <<"">>, <<"p1">>, <<"p1", "p2">>, <<"p1", "", "p1">>, <<"g1", "p1">>, <<"", "p1">>}

Onboarding == INSTANCE GeminiOnboarding

loginVars   == <<provider, web, at, until, got, saved, session, forwarder, listening, prev, file,
                 visitor, visits, now>>
onboardVars == <<mode, stage, todo, asked, project, tierFree, activated, answers, enabled, record>>

JointInit ==
  /\ subject \in {"requests", "login", "onboarding"}
  /\ Init /\ Logins!OAuthInit /\ Onboarding!OnboardInit
  /\ subject # "login" => provider = Both("kimi")
  /\ subject # "onboarding" => mode = "first"

JointNext ==
  \/ subject = "requests" /\ Next /\ UNCHANGED <<subject, loginVars, onboardVars>>
  \/ subject = "login" /\ Logins!OAuthNext /\ UNCHANGED <<subject, vars, onboardVars>>
  \/ subject = "onboarding" /\ Onboarding!OnboardNext /\ UNCHANGED <<subject, vars, loginVars>>

\* Some goroutine goes on, some provider answers or time passes, as long as any can; nobody has
\* to log in or to bring a callback, and Google may say "in progress" for ever.
LoginsAdvance ==
  \/ \E f \in {f1, f2} : at[f] \notin {"idle", "onboard"} /\ Logins!Login(f)
  \/ \E f \in {f1, f2} : Logins!WriteOAuthCallbackFile(f)
  \/ Logins!Pass

JointSpec ==
  /\ JointInit
  /\ [][JointNext]_<<subject, vars, loginVars, onboardVars>>
  /\ \A r \in Requests : WF_vars(subject = "requests" /\ Step(r) /\ Observe)
  /\ WF_loginVars(subject = "login" /\ LoginsAdvance)

------------------------------------------------------------------------------
\* OAuthSessions and GeminiOnboarding, as stated there: the client is told how its login went,
\* the callback ports are whose the table says, and a record names what was set up.
LoginsTrue == Logins!Told /\ Logins!Owned /\ Onboarding!Onboarded

\* OAuthSessions, as stated there: every login comes to an end.
LoginsEnd == Logins!Finishes
==============================================================================
