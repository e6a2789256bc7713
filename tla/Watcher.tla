------------------------------- MODULE Watcher -------------------------------
(***************************************************************************)
(* The watcher of the config file and the auth directory                   *)
(* (internal/watcher): file events are handled by one goroutine, config    *)
(* reloads by the goroutine of a debounce timer, and what runtime          *)
(* providers report by their own.  Each compares what it finds with the    *)
(* shadow copy currentAuths under clientsMutex, and hands the differences  *)
(* to the dispatcher (module AuthDispatch) after the mutex is released.    *)
(*                                                                         *)
(* A step is a critical section of clientsMutex or a look at the disk.  A  *)
(* file gives one auth, whose excluded models come from the configuration; *)
(* an entry of the config file gives one auth.  The auth directory stays   *)
(* the same, config files parse, and an auth file parses unless it is      *)
(* empty.  The user's edits are the environment's, and so are MaxEdits,    *)
(* Overlap and Hurried.                                                    *)
(***************************************************************************)
EXTENDS Naturals, Sequences, SequencesExt, FiniteSets

CONSTANTS
  Files, Keys, Runtimes,   \* IDs: auth files, entries of the config file, runtime auths
  Contents, Configs,       \* of an auth file, of the config file
  None, Blank,             \* no file, an empty file
  Reloaders, Main,         \* goroutines that reload; Main is the one that starts the watcher
  Capacity,                \* of the service's channel
  MaxEdits,                \* bound on the edits of files and of runtime auths
  Overlap,                 \* whether files are edited while a reload is under way
  Hurried                  \* whether a file is removed within a second of its last removal

ASSUME WatcherAssumption ==
  /\ Files \cap Keys = {} /\ Files \cap Runtimes = {} /\ Keys \cap Runtimes = {}
  /\ Contents \cap {None, Blank} = {} /\ None # Blank /\ None \notin Configs
  /\ \A c \in Configs : {"id", "excluded", "prefix"} \subseteq DOMAIN c /\ c.excluded \in BOOLEAN
  /\ Main \in Reloaders /\ Reloaders \cap Runtimes = {} /\ "processEvents" \notin Reloaders \cup Runtimes
  /\ Capacity \in Nat \ {0} /\ MaxEdits \in Nat /\ {Overlap, Hurried} \subseteq BOOLEAN

VARIABLES
  disk, setting, events,          \* auth files, the config file, fsnotify's events of auth files
  edits,                          \* edits so far
  config, configHash,             \* Watcher.config, lastConfigHash
  hash, current, runtime,         \* Watcher.lastAuthHashes, currentAuths, runtimeAuths
  recent,                         \* files whose lastRemoveTimes entry is less than a second old
  timer,                          \* whether configReloadTimer is set
  at, seen, out,                  \* goroutines: where they are, what they read, what they dispatch
  pending, order, loop, batch, queue, stop, applied, last   \* the dispatcher's (AuthDispatch)

diskVars     == <<disk, setting, events, edits>>
watcherVars  == <<config, configHash, hash, current, runtime, recent, timer>>
workVars     == <<at, seen, out>>
dispatchVars == <<pending, order, loop, batch, queue, stop, applied, last>>
vars         == <<diskVars, watcherVars, workVars, dispatchVars>>

IDs == Files \cup Keys \cup Runtimes

\* An auth: what it was made from, and the models its configuration excludes.
Auths == [from : Contents \cup Configs, excluded : BOOLEAN]

Dispatcher == INSTANCE AuthDispatch

ASSUME DispatcherConstants == Dispatcher!DispatchAssumption

Handler == "processEvents"
Workers == Reloaders \cup Runtimes \cup {Handler}

Empty == <<>>

------------------------------------------------------------------------------
(* What the synthesizers make of the disk *)

FileAuth(f, content, c) == [from |-> content, excluded |-> c.excluded]

ConfigAuth(c) == [from |-> c, excluded |-> FALSE]

Snapshot(c) ==
  [i \in {f \in Files : disk[f] \in Contents} \cup Keys |->
     IF i \in Keys THEN ConfigAuth(c) ELSE FileAuth(i, disk[i], c)]

------------------------------------------------------------------------------
(* The environment: edits of files *)

Reloading == timer \/ \E r \in Reloaders : at[r] # "idle"
Handling  == events # <<>> \/ \E p \in Workers \ Reloaders : at[p] # "idle"
Writing   == \E f \in Files : disk[f] = Blank

Unhurried(f) ==
  Hurried \/ (f \notin recent /\ \A k \in DOMAIN events : events[k] # [file |-> f, op |-> "remove"])

Edit == edits < MaxEdits /\ edits' = edits + 1

WriteFile(f, content) ==
  /\ Edit /\ (Overlap \/ ~Reloading)
  /\ disk[f] # content
  /\ disk' = [disk EXCEPT ![f] = content]
  /\ events' = Append(events, [file |-> f, op |-> "write"])
  /\ UNCHANGED <<setting, watcherVars, workVars, dispatchVars>>

RemoveFile(f) ==
  /\ Edit /\ (Overlap \/ ~Reloading) /\ Unhurried(f)
  /\ disk[f] # None
  /\ disk' = [disk EXCEPT ![f] = None]
  /\ events' = Append(events, [file |-> f, op |-> "remove"])
  /\ UNCHANGED <<setting, watcherVars, workVars, dispatchVars>>

\* An atomic replace, on the platforms that report it as a removal first.
ReplaceFile(f, content) ==
  /\ Edit /\ (Overlap \/ ~Reloading) /\ Unhurried(f)
  /\ disk[f] \notin {None, content}
  /\ disk' = [disk EXCEPT ![f] = content]
  /\ events' = events \o <<[file |-> f, op |-> "remove"], [file |-> f, op |-> "write"]>>
  /\ UNCHANGED <<setting, watcherVars, workVars, dispatchVars>>

\* Mutant: the timer is not set.
WriteConfig_unscheduled(c) ==
  /\ Edit /\ (Overlap \/ ~(Reloading \/ Handling \/ Writing))
  /\ setting # c
  /\ setting' = c
  /\ UNCHANGED <<disk, events, watcherVars, workVars, dispatchVars>>

\* The event of the config file only sets the timer, anew if it is set.
WriteConfig(c) ==
  /\ Edit /\ (Overlap \/ ~(Reloading \/ Handling \/ Writing))
  /\ setting # c
  /\ setting' = c
  /\ timer' = TRUE
  /\ UNCHANGED <<disk, events, config, configHash, hash, current, runtime, recent, workVars, dispatchVars>>

WindowEnds(f) ==
  /\ f \in recent
  /\ recent' = recent \ {f}
  /\ UNCHANGED <<diskVars, config, configHash, hash, current, runtime, timer, workVars, dispatchVars>>

------------------------------------------------------------------------------
(* processEvents *)

\* What a reload has to do: its dispatch is followed by Rehash unless it is the
\* one of start.
Task(force, reload) == [force |-> force, reload |-> reload, auths |-> Empty]

Goto(p, place) == at' = [at EXCEPT ![p] = place]
Hold(p, what) == seen' = [seen EXCEPT ![p] = what]

\* authFileUnchanged: the hash cache has what the file has.
Unchanged(f) == disk[f] \in Contents /\ hash[f] = disk[f]

TakeWrite ==
  /\ at[Handler] = "idle" /\ events # <<>> /\ Head(events).op = "write"
  /\ events' = Tail(events)
  /\ Goto(Handler, IF Unchanged(Head(events).file) THEN "idle" ELSE "read")
  /\ Hold(Handler, Head(events))
  /\ UNCHANGED <<disk, setting, edits, watcherVars, out, dispatchVars>>

\* A removal less than a second after the last one of that file is ignored.
TakeRemove ==
  /\ at[Handler] = "idle" /\ events # <<>> /\ Head(events).op = "remove"
  /\ events' = Tail(events)
  /\ Hold(Handler, Head(events))
  /\ IF Head(events).file \in recent
     THEN UNCHANGED <<recent, at>>
     ELSE recent' = recent \cup {Head(events).file} /\ Goto(Handler, "stat")
  /\ UNCHANGED <<disk, setting, edits, config, configHash, hash, current, runtime, timer, out, dispatchVars>>

\* 50 ms later: a file that is there again was replaced.
Stat ==
  /\ at[Handler] = "stat"
  /\ LET f == seen[Handler].file IN
     Goto(Handler, CASE Unchanged(f)                       -> "idle"
                     [] disk[f] # None /\ ~Unchanged(f)    -> "read"
                     [] disk[f] = None /\ hash[f] = None   -> "idle"
                     [] disk[f] = None /\ hash[f] # None   -> "drop")
  /\ UNCHANGED <<diskVars, watcherVars, seen, out, dispatchVars>>

\* addOrUpdateClient reads the file and gives up if it is gone or empty ...
Read ==
  /\ at[Handler] = "read"
  /\ LET f == seen[Handler].file IN
     IF disk[f] \in Contents
     THEN Goto(Handler, "update") /\ Hold(Handler, [file |-> f, content |-> disk[f]])
     ELSE Goto(Handler, "idle") /\ UNCHANGED seen
  /\ UNCHANGED <<diskVars, watcherVars, out, dispatchVars>>

\* ... and compares what it read with the caches under the mutex.
Update ==
  /\ at[Handler] = "update"
  /\ LET f    == seen[Handler].file
         auth == FileAuth(f, seen[Handler].content, config) IN
     IF hash[f] = seen[Handler].content
     THEN Goto(Handler, "idle") /\ UNCHANGED <<hash, current, out>>
     ELSE /\ hash' = [hash EXCEPT ![f] = seen[Handler].content]
          /\ current' = [current EXCEPT ![f] = auth]
          /\ out' = [out EXCEPT ![Handler] = IF current[f] = auth THEN Empty ELSE [i \in {f} |-> auth]]
          /\ Goto(Handler, "dispatch")
  /\ UNCHANGED <<diskVars, config, configHash, runtime, recent, timer, seen, dispatchVars>>

\* Mutant: the hash of a removed file stays.
Drop_hashStays ==
  /\ at[Handler] = "drop"
  /\ LET f == seen[Handler].file IN
     /\ current' = [current EXCEPT ![f] = None]
     /\ out' = [out EXCEPT ![Handler] = IF hash[f] = None THEN Empty ELSE [i \in {f} |-> None]]
     /\ Goto(Handler, "dispatch")
  /\ UNCHANGED <<diskVars, config, configHash, hash, runtime, recent, timer, seen, dispatchVars>>

\* removeClient
Drop ==
  /\ at[Handler] = "drop"
  /\ LET f == seen[Handler].file IN
     /\ hash' = [hash EXCEPT ![f] = None]
     /\ current' = [current EXCEPT ![f] = IF hash[f] = None THEN @ ELSE None]
     /\ out' = [out EXCEPT ![Handler] = IF hash[f] = None THEN Empty ELSE [i \in {f} |-> None]]
     /\ Goto(Handler, "dispatch")
  /\ UNCHANGED <<diskVars, config, configHash, runtime, recent, timer, seen, dispatchVars>>

HandleEvent == TakeWrite \/ TakeRemove \/ Stat \/ Read \/ Update \/ Drop

------------------------------------------------------------------------------
(* reloadConfigIfChanged, reloadConfig, reloadClients, refreshAuthState *)

\* start: the caches are filled from the directory under the mutex.
Rescan(r) ==
  /\ at[r] = "rescan"
  /\ hash' = [f \in Files |-> IF disk[f] \in Contents THEN disk[f] ELSE None]
  /\ Goto(r, "snapshot")
  /\ UNCHANGED <<diskVars, config, configHash, current, runtime, recent, timer, seen, out, dispatchVars>>

\* The timer fires, in a goroutine of its own.
Fire(r) ==
  /\ at[r] = "idle" /\ timer
  /\ timer' = FALSE
  /\ Goto(r, IF setting = configHash THEN "idle" ELSE "load")
  /\ UNCHANGED <<diskVars, config, configHash, hash, current, runtime, recent, seen, out, dispatchVars>>

LoadConfig(r) ==
  /\ at[r] = "load"
  /\ Hold(r, setting)
  /\ Goto(r, "set")
  /\ UNCHANGED <<diskVars, watcherVars, out, dispatchVars>>

\* What changed decides what the refresh has to do: providers whose exclusions
\* changed are affected, and a change of the prefix is one of those that force it.
SetConfig(r) ==
  /\ at[r] = "set"
  /\ config' = seen[r]
  /\ Hold(r, Task(config.prefix # seen[r].prefix, TRUE))
  /\ Goto(r, IF config.excluded # seen[r].excluded THEN "filter" ELSE "snapshot")
  /\ UNCHANGED <<diskVars, configHash, hash, current, runtime, recent, timer, out, dispatchVars>>

\* The auths of affected providers are forgotten, to be found new.
Filter(r) ==
  /\ at[r] = "filter"
  /\ current' = [i \in IDs |-> IF i \in Files THEN None ELSE current[i]]
  /\ Goto(r, "snapshot")
  /\ UNCHANGED <<diskVars, config, configHash, hash, runtime, recent, timer, seen, out, dispatchVars>>

\* refreshAuthState looks at the disk without the mutex ...
TakeSnapshot(r) ==
  /\ at[r] = "snapshot"
  /\ Hold(r, [seen[r] EXCEPT !.auths = Snapshot(config)])
  /\ Goto(r, "diff")
  /\ UNCHANGED <<diskVars, watcherVars, out, dispatchVars>>

NewState(auths) ==
  [i \in IDs |-> IF i \in Runtimes THEN runtime[i]
                 ELSE IF i \in DOMAIN auths THEN auths[i] ELSE None]

\* ... and takes what it saw for the new state under it.
Diff(r) ==
  /\ at[r] = "diff"
  /\ LET new == NewState(seen[r].auths)
         due == {i \in IDs : new[i] # current[i] \/ (seen[r].force /\ new[i] # None)} IN
     /\ current' = new
     /\ out' = [out EXCEPT ![r] = [i \in due |-> new[i]]]
  /\ Goto(r, "dispatch")
  /\ UNCHANGED <<diskVars, config, configHash, hash, runtime, recent, timer, seen, dispatchVars>>

\* The hash that is remembered is that of the file as it is after the reload.
Rehash(r) ==
  /\ at[r] = "rehash"
  /\ configHash' = setting
  /\ Goto(r, "idle")
  /\ UNCHANGED <<diskVars, config, hash, current, runtime, recent, timer, seen, out, dispatchVars>>

Reload(r) ==
  Rescan(r) \/ Fire(r) \/ LoadConfig(r) \/ SetConfig(r) \/ Filter(r) \/ TakeSnapshot(r) \/ Diff(r) \/ Rehash(r)

------------------------------------------------------------------------------
(* DispatchRuntimeAuthUpdate, and the dispatch of all *)

ReportRuntime(i, auth) ==
  /\ Edit /\ (Overlap \/ ~Reloading)
  /\ at[i] = "idle"
  /\ runtime[i] # auth
  /\ runtime' = [runtime EXCEPT ![i] = auth]
  /\ current' = [current EXCEPT ![i] = auth]
  /\ out' = [out EXCEPT ![i] = [j \in {i} |-> auth]]
  /\ Goto(i, "dispatch")
  /\ UNCHANGED <<disk, setting, events, config, configHash, hash, recent, timer, seen, dispatchVars>>

\* After the mutex is released, so that others may have dispatched before.
Dispatch(p) ==
  /\ at[p] = "dispatch"
  /\ Dispatcher!Enqueue(out[p])
  /\ out' = [out EXCEPT ![p] = Empty]
  /\ Goto(p, IF p \in Reloaders /\ seen[p].reload THEN "rehash" ELSE "idle")
  /\ UNCHANGED <<diskVars, watcherVars, seen>>

Deliver == (Dispatcher!Loop \/ Dispatcher!Consume) /\ UNCHANGED <<diskVars, watcherVars, workVars>>

------------------------------------------------------------------------------
Init ==
  /\ disk \in [Files -> Contents \cup {None}] /\ setting \in Configs /\ events = <<>>
  /\ edits = 0
  /\ config = setting /\ configHash = None
  /\ hash = [f \in Files |-> None]
  /\ current = [i \in IDs |-> None] /\ runtime = [i \in Runtimes |-> None]
  /\ recent = {} /\ timer = FALSE
  /\ at = [p \in Workers |-> IF p = Main THEN "rescan" ELSE "idle"]
  /\ seen = [p \in Workers |-> IF p = Main THEN Task(FALSE, FALSE) ELSE None]
  /\ out = [p \in Workers |-> Empty]
  /\ Dispatcher!Init

User ==
  \/ \E f \in Files : \/ \E content \in Contents \cup {Blank} : WriteFile(f, content)
                      \/ \E content \in Contents : ReplaceFile(f, content)
                      \/ RemoveFile(f) \/ WindowEnds(f)
  \/ \E c \in Configs : WriteConfig(c)
  \/ \E i \in Runtimes, auth \in Dispatcher!Values : ReportRuntime(i, auth)

System == HandleEvent \/ (\E r \in Reloaders : Reload(r)) \/ (\E p \in Workers : Dispatch(p)) \/ Deliver

Next == User \/ System

Spec == Init /\ [][Next]_vars

------------------------------------------------------------------------------
(* Properties *)

\* Every variable keeps its type, the dispatcher's as in AuthDispatch, and only
\* who is about to dispatch holds updates.
TypeOK ==
  /\ disk \in [Files -> Contents \cup {None, Blank}] /\ setting \in Configs
  /\ events \in Seq([file : Files, op : {"write", "remove"}]) /\ edits \in 0..MaxEdits
  /\ config \in Configs /\ configHash \in Configs \cup {None}
  /\ hash \in [Files -> Contents \cup {None}]
  /\ current \in [IDs -> Dispatcher!Values] /\ runtime \in [Runtimes -> Dispatcher!Values]
  /\ recent \subseteq Files /\ timer \in BOOLEAN
  /\ at \in [Workers -> {"idle", "stat", "read", "update", "drop", "rescan", "load", "set",
                         "filter", "snapshot", "diff", "dispatch", "rehash"}]
  /\ DOMAIN seen = Workers /\ DOMAIN out = Workers
  /\ \A p \in Workers : DOMAIN out[p] \subseteq IDs /\ (at[p] # "dispatch" => out[p] = Empty)
  /\ Dispatcher!TypeOK /\ stop = "no"

\* Every event has been handled, every reload is over, every update applied.
Quiescent ==
  /\ ~Reloading /\ ~Handling
  /\ order = <<>> /\ batch = <<>> /\ queue = <<>>

\* "Each filesystem or configuration event triggers a recomputation and a diff
\* against the previous snapshot" (docs/sdk-watcher.md), so that once all is
\* handled the service has exactly the auths of the disk, of the configuration in
\* use and of the runtime providers.  A file that is empty is being written.
FollowsDisk ==
  /\ TypeOK
  /\ Quiescent =>
       \A i \in IDs \ {f \in Files : disk[f] = Blank} : applied[i] = NewState(Snapshot(config))[i]

\* "Changes to config.yaml and auths/ are picked up automatically"
\* (docs/sdk-usage.md): once all is handled, the configuration in use is the one
\* of the file.
FollowsConfig == Quiescent => config = setting
==============================================================================
