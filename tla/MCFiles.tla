------------------------------ MODULE MCFiles ------------------------------
(***************************************************************************)
(* From files to auths, in three parts of which a behaviour shows one,     *)
(* "subject": the watcher with its dispatcher; the dispatcher alone, given *)
(* any updates at any time; and one auth on its way through the service.   *)
(* The others rest in an initial state.                                    *)
(***************************************************************************)
EXTENDS Watcher

CONSTANTS Subjects, c1, c2, Confs, MaxChanges, MaxCatalogs

VARIABLES subject, record, registry, sched, updates, catalog, changes, pc, job, torn

\* c2 excludes models of the files' provider and has another model prefix.
MCConfigs == {[id |-> c1, excluded |-> FALSE, prefix |-> FALSE], [id |-> c2, excluded |-> TRUE, prefix |-> TRUE]}

Alone == INSTANCE AuthDispatch
  WITH IDs <- Files \cup Keys, Auths <- [from : Contents, excluded : {FALSE}]
Lifecycle == INSTANCE AuthLifecycle WITH queue <- updates

ASSUME AloneConstants     == Alone!DispatchAssumption
ASSUME LifecycleConstants == Lifecycle!LifecycleAssumption

lifecycleVars == <<record, registry, sched, updates, catalog, changes, pc, job, torn>>

\* A watcher that rests
Rests ==
  /\ disk = [f \in Files |-> None] /\ events = <<>> /\ edits = 0
  /\ setting = CHOOSE c \in Configs : TRUE
  /\ config = setting /\ configHash = None
  /\ hash = disk /\ current = [i \in IDs |-> None] /\ runtime = [i \in Runtimes |-> None]
  /\ recent = {} /\ timer = FALSE
  /\ at = [w \in Workers |-> "idle"] /\ seen = [w \in Workers |-> None] /\ out = [w \in Workers |-> Empty]

AllInit ==
  /\ subject \in Subjects
  /\ IF subject = "watcher" THEN Init ELSE Rests /\ Alone!Init
  /\ Lifecycle!Init

AllNext ==
  \/ subject = "watcher" /\ Next /\ UNCHANGED <<subject, lifecycleVars>>
  \/ subject = "dispatcher" /\ Alone!Next /\ UNCHANGED <<subject, diskVars, watcherVars, workVars, lifecycleVars>>
  \/ subject = "lifecycle" /\ Lifecycle!Next /\ UNCHANGED <<subject, vars>>

\* What the code schedules; only the dispatcher's properties need it.
AllFairness ==
  /\ WF_dispatchVars(subject = "dispatcher" /\ Alone!Loop)
  /\ WF_dispatchVars(subject = "dispatcher" /\ Alone!Consume)
  /\ WF_dispatchVars(subject = "dispatcher" /\ Alone!Finish)

AllSpec == AllInit /\ [][AllNext]_<<subject, vars, lifecycleVars>> /\ AllFairness

------------------------------------------------------------------------------
\* Watcher: once all is handled, the service has the auths of the disk, and the
\* configuration in use is the file's.
FollowsFiles == subject = "watcher" => FollowsDisk /\ FollowsConfig

\* AuthDispatch: no update overtakes or replaces a later one of its ID.
LatestWins == subject = "dispatcher" => Alone!LatestWins

\* AuthDispatch: the last update of an ID gets to the service, and a dispatcher that is
\* stopped ends.
Settles == subject = "dispatcher" => Alone!Settles /\ Alone!Ends

\* AuthLifecycle: registry and scheduler follow the record.
TablesFollow == Lifecycle!RegistrationFollows /\ Lifecycle!SchedulerFollows
=============================================================================
