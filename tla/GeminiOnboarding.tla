-------------------------- MODULE GeminiOnboarding --------------------------
(* What happens between the tokens of a Gemini login and its record: which  *)
(* Google Cloud project, or projects, the record names.  Every call to      *)
(* Google may fail, which ends the login; a call that says "in progress"    *)
(* is repeated.                                                             *)
EXTENDS Sequences, FiniteSets, SequencesExt

CONSTANTS
  Projects,   \* projects of the user
  Generated,  \* those with the prefix gen-lang-client-: of a user who pays nothing
  Backends,   \* projects Google may put in their place
  Lists       \* what the list of the user's projects may be; "" is an entry without an ID

VARIABLES
  mode,       \* "first": none asked for; "named"; "all"; "googleOne"
  stage,      \* the next call
  todo,       \* the projects still to be set up
  asked,      \* the project the setup under way was asked for, "" when none
  project,    \* storage.ProjectID
  tierFree,   \* the tier Google names is FREE or LEGACY
  activated,  \* "all": the projects set up
  answers,    \* what Google answered for each project asked for
  enabled,    \* the projects whose service is on
  record      \* the projects and flags written, when they are

onboardVars == <<mode, stage, todo, asked, project, tierFree, activated, answers, enabled, record>>

NoRecord == [projects |-> <<>>, auto |-> FALSE]

\* The entries that are set up when all are asked for: a blank and a repeated one are left out.
Candidates(list) ==
  LET seen(i) == \E j \in 1..(i - 1) : list[j] = list[i]
  IN SelectSeq([i \in DOMAIN list |-> IF seen(i) THEN "" ELSE list[i]], LAMBDA p : p # "")

onboardRest == <<project, tierFree, activated, answers, enabled, record>>

End == stage' = "failed" /\ UNCHANGED <<todo, asked>>

\* Without a project the first of the list is asked for; with "ALL" all of them are.
fetchGCPProjects ==
  /\ stage = "list"
  /\ \/ End
     \/ \E list \in Lists :
          LET wanted == IF mode = "all" \/ list = <<>> THEN Candidates(list) ELSE <<list[1]>>
          IN IF wanted = <<>> \/ wanted[1] = "" THEN End
             ELSE /\ asked' = Head(wanted) /\ todo' = Tail(wanted)
                  /\ stage' = "load"
  /\ UNCHANGED <<mode, onboardRest>>

\* loadCodeAssist: the tier, and a project when none was asked for.
loadCodeAssist ==
  /\ stage = "load"
  /\ \/ End /\ UNCHANGED <<project, tierFree>>
     \/ \E free \in BOOLEAN, offered \in Backends \cup {""} :
          LET id == IF asked # "" THEN asked ELSE offered
          IN /\ tierFree' = free
             /\ project' = id
             /\ stage' = IF id = "" THEN "discover" ELSE "onboard"
             /\ UNCHANGED <<todo, asked>>
  /\ UNCHANGED <<mode, activated, answers, enabled, record>>

\* onboardUser without a project, for half a minute: Google makes one, or the user has to.
discover ==
  /\ stage = "discover"
  /\ \/ End /\ UNCHANGED project
     \/ \E made \in Backends :
          project' = made /\ stage' = "onboard" /\ UNCHANGED <<todo, asked>>
  /\ UNCHANGED <<mode, tierFree, activated, answers, enabled, record>>

\* The project kept when onboarding names one: the user's own, unless they pay nothing.
Final(named) ==
  IF named = "" THEN project
  ELSE IF asked = "" THEN named
  ELSE IF project \in Generated \/ tierFree THEN named ELSE project

\* onboardUser with the project, until it is done.
onboardUser ==
  /\ stage = "onboard"
  /\ \/ End /\ UNCHANGED <<project, activated, answers>>
     \/ \E named \in Backends \cup {"", project} :
          /\ project' = Final(named)
          /\ activated' = Append(activated, Final(named))
          /\ answers' = answers \cup {<<asked, named>>}
          /\ IF todo = <<>> THEN stage' = "enable" /\ UNCHANGED <<todo, asked>>
             ELSE stage' = "load" /\ asked' = Head(todo) /\ todo' = Tail(todo)
  /\ UNCHANGED <<mode, tierFree, enabled, record>>

\* The service is on, or is switched on, for every project the record will name.
Named == IF mode = "all" THEN activated ELSE <<project>>

checkCloudAPIIsEnabled ==
  /\ stage = "enable"
  /\ \E p \in ToSet(Named) \ enabled : enabled' = enabled \cup {p}
  /\ UNCHANGED <<mode, stage, todo, asked, project, tierFree, activated, answers, record>>

NotEnabled ==
  /\ stage = "enable" /\ ToSet(Named) \ enabled # {}
  /\ End
  /\ UNCHANGED <<mode, onboardRest>>

GeminiRecord ==
  /\ stage = "enable" /\ ToSet(Named) \subseteq enabled
  /\ record' = [projects |-> Named, auto |-> mode = "first"]
  /\ stage' = "recorded"
  /\ UNCHANGED <<mode, todo, asked, project, tierFree, activated, answers, enabled>>

OnboardInit ==
  /\ mode \in {"first", "named", "all", "googleOne"}
  /\ stage = IF mode \in {"first", "all"} THEN "list" ELSE "load"
  /\ IF mode = "named" THEN asked \in Projects ELSE asked = ""
  /\ todo = <<>> /\ project = "" /\ tierFree = FALSE
  /\ activated = <<>> /\ answers = {} /\ enabled = {} /\ record = NoRecord

OnboardNext ==
  \/ fetchGCPProjects \/ loadCodeAssist \/ discover \/ onboardUser
  \/ checkCloudAPIIsEnabled \/ NotEnabled \/ GeminiRecord

----------------------------------------------------------------------------
\* A record names only projects Google has set up and whose service is on, none blank; a
\* project the user has a say in is replaced only by what Google named for that very project;
\* and "all" leaves out no project of the list, nor takes one for another.
OwnProject(p, q) == q = p \/ <<p, q>> \in answers

Onboarded ==
  stage = "recorded" =>
    LET named == record.projects
    IN /\ named # <<>> /\ "" \notin ToSet(named) /\ ToSet(named) \subseteq enabled
       /\ record.auto => mode = "first"
       /\ mode # "googleOne" =>
            /\ Len(named) = Cardinality({a[1] : a \in answers})
            /\ \A q \in ToSet(named) : \E a \in answers : OwnProject(a[1], q)
            /\ \A a \in answers : \E q \in ToSet(named) : OwnProject(a[1], q)
=============================================================================
