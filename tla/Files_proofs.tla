---------------------------- MODULE Files_proofs ----------------------------
(***************************************************************************)
(* TLAPS proofs about MCFiles, for any files, keys, contents, capacity of  *)
(* the channel, goroutines and bounds that its assumptions admit: that the *)
(* tables of an auth follow its record (AuthLifecycle), that no update of  *)
(* an auth overtakes another (AuthDispatch), and that the service's auths  *)
(* follow the files (Watcher).                                             *)
(***************************************************************************)
EXTENDS MCFiles, Integers, FiniteSetTheorems, TLAPS

------------------------------------------------------------------------------
(* The tables of an auth: what each step keeps *)

\* Labels of the goroutines
Labels == {"idle", "remove", "store", "disable", "show", "hide", "resolve", "bind", "reread", "upsert", "read",
           "latest", "resolve again", "bind again", "unregister", "rebuild"}

\* What the watcher reports, what a goroutine can hold of the auth, its locals.
Reported == Lifecycle!File \cup {Lifecycle!Removal}
Held == Lifecycle!File \cup {Lifecycle!Absent, Lifecycle!Removal}
Jobs == [auth : Held, seen : 0..MaxCatalogs]

\* Where each goroutine can stand, and what it holds there.
Placed ==
  /\ record \in Lifecycle!File \cup {Lifecycle!Absent}
  /\ updates \in Seq(Reported)
  /\ catalog \in 1..MaxCatalogs
  /\ pc \in [Lifecycle!Procs -> Labels]
  /\ pc["consumer"] \in {"idle", "remove", "store", "disable", "show", "hide", "resolve", "bind", "reread", "upsert"}
  /\ pc["catalog"] \in {"idle", "read", "resolve", "bind", "latest", "resolve again", "bind again", "unregister", "reread", "upsert"}
  /\ pc["sync"] \in {"idle", "rebuild"}
  /\ job \in [Lifecycle!Procs -> Jobs]
  /\ \A p \in Lifecycle!Procs : pc[p] \in {"bind", "bind again"} => job[p].seen # 0
  /\ pc["consumer"] \in {"store", "disable"} => job["consumer"].auth \in Lifecycle!File
  /\ pc["consumer"] = "disable" => job["consumer"].auth.disabled
  /\ pc["consumer"] = "hide" => record.disabled
  /\ pc["consumer"] \in {"show", "resolve", "bind", "upsert"} => job["consumer"].auth = record

\* The registry has the models of the record and the catalog, or a goroutine that will register
\* them again is on its way; it goes wrong only where the tables are torn.
RegistryKept == "registry" \notin torn =>
  /\ pc["consumer"] = "disable" => registry = Lifecycle!NoModels
  /\ pc["consumer"] = "bind" => job["consumer"].seen = catalog
  /\ pc["catalog"] \in {"resolve again", "bind again"} => job["catalog"].auth = record /\ ~record.disabled
  /\ pc["catalog"] = "bind again" => job["catalog"].seen = catalog
  /\ pc["catalog"] = "unregister" => record.disabled
  /\ \/ registry = Lifecycle!Wanted
     \/ pc["consumer"] \in {"disable", "show", "resolve", "bind"}
     \/ pc["catalog"] = "read" /\ ~record.disabled
     \/ pc["catalog"] \in {"resolve", "bind", "latest", "resolve again", "bind again", "unregister"}

\* The scheduler has the entry of the record and the registry, or a goroutine that will refresh
\* it is on its way.
SchedulerKept == "scheduler" \notin torn =>
  /\ pc["catalog"] = "upsert" => job["catalog"].auth = record
  /\ pc["sync"] = "rebuild" => job["sync"].auth = record
  /\ \/ sched = Lifecycle!entry(record, registry)
     \/ pc["consumer"] \in {"disable", "show", "hide", "reread", "upsert"}
     \/ pc["catalog"] \in {"latest", "resolve again", "bind again", "unregister", "reread", "upsert"}

\* What the registry has, and the types of the tables.
Registered == [conf : Confs, catalog : 1..MaxCatalogs] \cup {Lifecycle!NoModels}

Tables ==
  /\ registry \in Registered
  /\ sched = Lifecycle!NoEntry \/ sched.conf \in Confs
  /\ torn \subseteq {"registry", "scheduler"}

\* The inductive invariant.
LInv == Placed /\ Tables /\ RegistryKept /\ SchedulerKept

\* The locals of a goroutine, and how a step changes them.
LEMMA JobParts ==
  ASSUME NEW j \in Jobs
  PROVE  j.auth \in Held /\ j.seen \in 0..MaxCatalogs
BY DEF Jobs

LEMMA JobHolds ==
  ASSUME NEW j \in Jobs, NEW a \in Held
  PROVE  [j EXCEPT !.auth = a] \in Jobs /\ [j EXCEPT !.auth = a].auth = a /\ [j EXCEPT !.auth = a].seen = j.seen
BY DEF Jobs

LEMMA JobSees ==
  ASSUME NEW j \in Jobs, NEW c \in 1..MaxCatalogs
  PROVE  [j EXCEPT !.seen = c] \in Jobs /\ [j EXCEPT !.seen = c].auth = j.auth /\ [j EXCEPT !.seen = c].seen = c /\ c # 0
<1>1. c \in 0..MaxCatalogs /\ c # 0 OBVIOUS
<1>. QED BY <1>1 DEF Jobs

LEMMA JobEnds == ASSUME Lifecycle!LifecycleAssumption PROVE Lifecycle!NoJob \in Jobs
<1>1. 0 \in 0..MaxCatalogs BY DEF Lifecycle!LifecycleAssumption
<1>2. Lifecycle!Absent \in Held BY DEF Held
<1>. QED BY <1>1, <1>2 DEF Lifecycle!NoJob, Jobs

\* An enabled auth comes from a file.
LEMMA HeldParts ==
  ASSUME NEW a \in Held
  PROVE  a.disabled \in BOOLEAN /\ (~a.disabled => a \in Lifecycle!File /\ a.conf \in Confs)
<1>1. CASE a \in Lifecycle!File BY <1>1 DEF Lifecycle!File
<1>2. CASE a = Lifecycle!Absent BY <1>2 DEF Lifecycle!Absent
<1>3. CASE a = Lifecycle!Removal BY <1>3 DEF Lifecycle!Removal
<1>. QED BY <1>1, <1>2, <1>3 DEF Held

\* A queue after an arrival, and after a departure.
LEMMA Appended == ASSUME NEW T, NEW q \in Seq(T), NEW x \in T PROVE Append(q, x) \in Seq(T)
OBVIOUS

LEMMA Taken == ASSUME NEW T, NEW q \in Seq(T), q # <<>> PROVE Head(q) \in T /\ Tail(q) \in Seq(T)
OBVIOUS

\* A removal disables the record.
LEMMA FileDisabled ==
  ASSUME NEW a \in Lifecycle!File \cup {Lifecycle!Absent}, a # Lifecycle!Absent
  PROVE  [a EXCEPT !.disabled = TRUE] \in Lifecycle!File /\ [a EXCEPT !.disabled = TRUE].disabled
BY DEF Lifecycle!File

\* An entry is empty or shows an auth of a file.
LEMMA EntryType ==
  ASSUME NEW a \in Held, NEW m
  PROVE  Lifecycle!entry(a, m) = Lifecycle!NoEntry \/ Lifecycle!entry(a, m).conf \in Confs
BY HeldParts DEF Lifecycle!entry

\* What a registration leaves.
LEMMA BoundType ==
  ASSUME NEW j \in Jobs, j.seen # 0
  PROVE  (IF j.auth.disabled THEN Lifecycle!NoModels ELSE [conf |-> j.auth.conf, catalog |-> j.seen]) \in Registered
<1>1. j.seen \in 1..MaxCatalogs BY JobParts
<1>2. ~j.auth.disabled => j.auth.conf \in Confs BY JobParts, HeldParts
<1>. QED BY <1>1, <1>2 DEF Registered

\* What a goroutine's step leaves of the others, and of its own.
LEMMA Finished ==
  ASSUME Lifecycle!LifecycleAssumption, Placed, NEW p \in Lifecycle!Procs, Lifecycle!Finish(p)
  PROVE  /\ pc' = [pc EXCEPT ![p] = "idle"] /\ job' \in [Lifecycle!Procs -> Jobs]
         /\ \A q \in Lifecycle!Procs : q # p => job'[q] = job[q]
BY JobEnds DEF Placed, Lifecycle!Finish, Lifecycle!Goto

LEMMA Holds ==
  ASSUME Placed, NEW p \in Lifecycle!Procs, NEW a \in Held, Lifecycle!Hold(p, a)
  PROVE  /\ job' \in [Lifecycle!Procs -> Jobs] /\ job'[p].auth = a /\ job'[p].seen = job[p].seen
         /\ \A q \in Lifecycle!Procs : q # p => job'[q] = job[q]
BY JobHolds DEF Placed, Lifecycle!Hold

\* A goroutine can hold the record.
LEMMA RecordHeld == ASSUME Placed PROVE record \in Held
BY DEF Placed, Held

\* One lemma per action: each keeps the four parts of the invariant.
LEMMA KeepChange ==
  ASSUME Lifecycle!LifecycleAssumption, LInv, NEW file \in Reported, Lifecycle!Change(file)
  PROVE  LInv'
<1>1. Placed'
  <2>1. updates' \in Seq(Reported) BY Appended DEF LInv, Placed, Lifecycle!Change
  <2>. QED BY <2>1 DEF LInv, Placed, Lifecycle!Change
<1>2. Tables' BY DEF LInv, Tables, Lifecycle!Change
<1>3. RegistryKept'
  BY DEF LInv, Placed, RegistryKept, Lifecycle!Change, Lifecycle!Procs, Lifecycle!Wanted,
    Lifecycle!NoModels
<1>4. SchedulerKept'
  BY DEF LInv, Placed, SchedulerKept, Lifecycle!Change, Lifecycle!Procs, Lifecycle!entry
<1>. QED BY <1>1, <1>2, <1>3, <1>4 DEF LInv

LEMMA KeepTake == ASSUME Lifecycle!LifecycleAssumption, LInv, Lifecycle!Take PROVE LInv'
<1>1. Placed'
  <2>1. Placed BY DEF LInv
  <2>2. PICK f \in Reported : f = Head(updates) BY <2>1, Taken DEF Placed, Lifecycle!Take
  <2>3. Tail(updates) \in Seq(Reported) BY <2>1, Taken DEF Placed, Lifecycle!Take
  <2>4. f \in Held /\ (f # Lifecycle!Removal => f \in Lifecycle!File) BY DEF Held, Reported
  <2>5. Lifecycle!Hold("consumer", f) /\ "consumer" \in Lifecycle!Procs
    BY <2>2 DEF Lifecycle!Take, Lifecycle!Procs
  <2>6. /\ job' \in [Lifecycle!Procs -> Jobs] /\ job'["consumer"].auth = f
        /\ \A q \in Lifecycle!Procs : q # "consumer" => job'[q] = job[q]
    BY <2>1, <2>4, <2>5, Holds
  <2>. QED
    BY <2>1, <2>2, <2>3, <2>4, <2>6 DEF Placed, Lifecycle!Take, Lifecycle!Goto, Lifecycle!Procs, Labels
<1>2. Tables' BY DEF LInv, Tables, Lifecycle!Take
<1>3. RegistryKept'
  BY DEF LInv, Placed, RegistryKept, Lifecycle!Take, Lifecycle!Goto, Lifecycle!Hold, Lifecycle!Procs,
    Lifecycle!Wanted, Lifecycle!NoModels
<1>4. SchedulerKept'
  BY DEF LInv, Placed, SchedulerKept, Lifecycle!Take, Lifecycle!Goto, Lifecycle!Hold, Lifecycle!Procs,
    Lifecycle!entry
<1>. QED BY <1>1, <1>2, <1>3, <1>4 DEF LInv

LEMMA KeepRemove == ASSUME Lifecycle!LifecycleAssumption, LInv, Lifecycle!Remove PROVE LInv'
<1>1. Placed'
  <2>1. Placed /\ "consumer" \in Lifecycle!Procs BY DEF LInv, Lifecycle!Procs
  <2>2. CASE record = Lifecycle!Absent
    <3>1. Lifecycle!Finish("consumer") BY <2>2 DEF Lifecycle!Remove
    <3>2. /\ pc' = [pc EXCEPT !["consumer"] = "idle"] /\ job' \in [Lifecycle!Procs -> Jobs]
          /\ \A q \in Lifecycle!Procs : q # "consumer" => job'[q] = job[q]
      BY <2>1, <3>1, Finished
    <3>. QED BY <2>1, <3>2 DEF Placed, Lifecycle!Remove, Lifecycle!Procs, Labels
  <2>3. CASE record # Lifecycle!Absent
    <3>1. PICK a \in Lifecycle!File : a = [record EXCEPT !.disabled = TRUE] /\ a.disabled
      BY <2>1, <2>3, FileDisabled DEF Placed
    <3>2. Lifecycle!Hold("consumer", a) /\ a \in Held BY <2>3, <3>1 DEF Lifecycle!Remove, Held
    <3>3. /\ job' \in [Lifecycle!Procs -> Jobs] /\ job'["consumer"].auth = a
          /\ \A q \in Lifecycle!Procs : q # "consumer" => job'[q] = job[q]
      BY <2>1, <3>2, Holds
    <3>. QED
      BY <2>1, <2>3, <3>1, <3>3 DEF Placed, Lifecycle!Remove, Lifecycle!Goto, Lifecycle!Procs, Labels
  <2>. QED BY <2>2, <2>3
<1>2. Tables' BY DEF LInv, Tables, Lifecycle!Remove, Registered
<1>0. \A q \in Lifecycle!Procs : q # "consumer" => job'[q] = job[q]
  BY DEF LInv, Placed, Lifecycle!Remove, Lifecycle!Hold, Lifecycle!Finish, Lifecycle!Procs
<1>g. pc' = [pc EXCEPT !["consumer"] = IF record = Lifecycle!Absent THEN "idle" ELSE "disable"]
  BY DEF Lifecycle!Remove, Lifecycle!Finish, Lifecycle!Goto
<1>h. record = Lifecycle!Absent => record.disabled BY DEF Lifecycle!Absent
<1>3. RegistryKept'
  BY <1>0, <1>g, <1>h DEF LInv, Placed, RegistryKept, Lifecycle!Remove, Lifecycle!Procs,
    Lifecycle!Wanted, Lifecycle!NoModels
<1>4. SchedulerKept'
  BY <1>0, <1>g, <1>h DEF LInv, Placed, SchedulerKept, Lifecycle!Remove, Lifecycle!Procs,
    Lifecycle!entry
<1>. QED BY <1>1, <1>2, <1>3, <1>4 DEF LInv

LEMMA KeepStore == ASSUME Lifecycle!LifecycleAssumption, LInv, Lifecycle!Store PROVE LInv'
<1>1. Placed'
  BY DEF LInv, Placed, Lifecycle!Store, Lifecycle!Goto, Lifecycle!Procs, Labels
<1>2. Tables' BY DEF LInv, Tables, Lifecycle!Store
<1>3. RegistryKept'
  BY DEF LInv, Placed, RegistryKept, Lifecycle!Store, Lifecycle!Goto, Lifecycle!HoldsForRegistry,
    Lifecycle!HoldsForScheduler, Lifecycle!Procs, Lifecycle!Wanted, Lifecycle!NoModels
<1>4. SchedulerKept'
  BY DEF LInv, Placed, SchedulerKept, Lifecycle!Store, Lifecycle!Goto, Lifecycle!HoldsForRegistry,
    Lifecycle!HoldsForScheduler, Lifecycle!Procs, Lifecycle!entry
<1>. QED BY <1>1, <1>2, <1>3, <1>4 DEF LInv

LEMMA KeepShow == ASSUME Lifecycle!LifecycleAssumption, LInv, Lifecycle!Show PROVE LInv'
<1>1. Placed'
  <2>1. Placed /\ "consumer" \in Lifecycle!Procs BY DEF LInv, Lifecycle!Procs
  <2>2. CASE pc["consumer"] = "hide"
    <3>1. Lifecycle!Finish("consumer") BY <2>2 DEF Lifecycle!Show
    <3>2. /\ pc' = [pc EXCEPT !["consumer"] = "idle"] /\ job' \in [Lifecycle!Procs -> Jobs]
          /\ \A q \in Lifecycle!Procs : q # "consumer" => job'[q] = job[q]
      BY <2>1, <3>1, Finished
    <3>. QED BY <2>1, <3>2 DEF Placed, Lifecycle!Show, Lifecycle!Procs, Labels
  <2>3. CASE pc["consumer"] = "show"
    BY <2>1, <2>3 DEF Placed, Lifecycle!Show, Lifecycle!Goto, Lifecycle!Procs, Labels
  <2>. QED BY <2>2, <2>3 DEF Lifecycle!Show
<1>2. Tables'
  <2>1. record \in Held BY RecordHeld DEF LInv
  <2>2. sched' = Lifecycle!NoEntry \/ sched'.conf \in Confs BY <2>1, EntryType DEF Lifecycle!Show
  <2>. QED BY <2>2 DEF LInv, Tables, Lifecycle!Show
<1>3. RegistryKept'
  BY DEF LInv, Placed, RegistryKept, Lifecycle!Show, Lifecycle!Goto, Lifecycle!Finish, Lifecycle!Procs,
    Lifecycle!Wanted, Lifecycle!NoModels
<1>4. SchedulerKept'
  BY DEF LInv, Placed, SchedulerKept, Lifecycle!Show, Lifecycle!Goto, Lifecycle!Finish, Lifecycle!Procs,
    Lifecycle!entry
<1>. QED BY <1>1, <1>2, <1>3, <1>4 DEF LInv

LEMMA KeepResolve ==
  ASSUME Lifecycle!LifecycleAssumption, LInv, NEW p \in {"consumer", "catalog"}, Lifecycle!Resolve(p)
  PROVE  LInv'
<1>1. Placed'
  <2>1. Placed /\ p \in Lifecycle!Procs BY DEF LInv, Lifecycle!Procs
  <2>2. catalog \in 1..MaxCatalogs /\ job[p] \in Jobs BY <2>1 DEF Placed
  <2>3. /\ job' \in [Lifecycle!Procs -> Jobs] /\ job'[p].auth = job[p].auth /\ job'[p].seen = catalog /\ catalog # 0
        /\ \A q \in Lifecycle!Procs : q # p => job'[q] = job[q]
    BY <2>1, <2>2, JobSees DEF Placed, Lifecycle!Resolve
  <2>. QED BY <2>1, <2>3 DEF Placed, Lifecycle!Resolve, Lifecycle!Goto, Lifecycle!Procs, Labels
<1>2. Tables' BY DEF LInv, Tables, Lifecycle!Resolve
<1>0. job'[p].auth = job[p].auth /\ job'[p].seen = catalog /\ \A q \in Lifecycle!Procs : q # p => job'[q] = job[q]
  BY JobSees DEF LInv, Placed, Lifecycle!Resolve, Lifecycle!Procs
<1>3. RegistryKept'
  BY <1>0 DEF LInv, Placed, RegistryKept, Lifecycle!Resolve, Lifecycle!Goto, Lifecycle!Procs,
    Lifecycle!Wanted, Lifecycle!NoModels
<1>4. SchedulerKept'
  BY <1>0 DEF LInv, Placed, SchedulerKept, Lifecycle!Resolve, Lifecycle!Goto, Lifecycle!Procs,
    Lifecycle!entry
<1>. QED BY <1>1, <1>2, <1>3, <1>4 DEF LInv

LEMMA KeepBind ==
  ASSUME Lifecycle!LifecycleAssumption, LInv, NEW p \in {"consumer", "catalog"}, Lifecycle!Bind(p)
  PROVE  LInv'
<1>1. Placed'
  BY DEF LInv, Placed, Lifecycle!Bind, Lifecycle!Goto, Lifecycle!Procs, Labels
<1>2. Tables'
  <2>1. job[p] \in Jobs /\ job[p].seen # 0 BY DEF LInv, Placed, Lifecycle!Bind, Lifecycle!Procs
  <2>2. registry' \in Registered BY <2>1, BoundType DEF Lifecycle!Bind
  <2>. QED BY <2>2 DEF LInv, Tables, Lifecycle!Bind
<1>3. RegistryKept'
  BY DEF LInv, Placed, RegistryKept, Lifecycle!Bind, Lifecycle!Goto, Lifecycle!Procs, Lifecycle!Wanted,
    Lifecycle!NoModels
<1>4. SchedulerKept'
  BY DEF LInv, Placed, SchedulerKept, Lifecycle!Bind, Lifecycle!Goto, Lifecycle!Procs, Lifecycle!entry
<1>. QED BY <1>1, <1>2, <1>3, <1>4 DEF LInv

LEMMA KeepReread ==
  ASSUME Lifecycle!LifecycleAssumption, LInv, NEW p \in {"consumer", "catalog"}, Lifecycle!Reread(p)
  PROVE  LInv'
<1>1. Placed'
  <2>1. Placed /\ p \in Lifecycle!Procs /\ record \in Held BY RecordHeld DEF LInv, Lifecycle!Procs
  <2>2. /\ job' \in [Lifecycle!Procs -> Jobs] /\ job'[p].auth = record
        /\ \A q \in Lifecycle!Procs : q # p => job'[q] = job[q]
    BY <2>1, Holds DEF Lifecycle!Reread
  <2>. QED BY <2>1, <2>2 DEF Placed, Lifecycle!Reread, Lifecycle!Goto, Lifecycle!Procs, Labels
<1>2. Tables' BY DEF LInv, Tables, Lifecycle!Reread
<1>0. job'[p].auth = record /\ \A q \in Lifecycle!Procs : q # p => job'[q] = job[q]
  BY RecordHeld, Holds DEF LInv, Lifecycle!Reread, Lifecycle!Procs
<1>3. RegistryKept'
  BY <1>0 DEF LInv, Placed, RegistryKept, Lifecycle!Reread, Lifecycle!Goto, Lifecycle!Procs,
    Lifecycle!Wanted, Lifecycle!NoModels
<1>4. SchedulerKept'
  BY <1>0 DEF LInv, Placed, SchedulerKept, Lifecycle!Reread, Lifecycle!Goto, Lifecycle!Procs,
    Lifecycle!entry
<1>. QED BY <1>1, <1>2, <1>3, <1>4 DEF LInv

LEMMA KeepUpsert ==
  ASSUME Lifecycle!LifecycleAssumption, LInv, NEW p \in {"consumer", "catalog"}, Lifecycle!Upsert(p)
  PROVE  LInv'
<1>1. Placed'
  <2>1. Placed /\ p \in Lifecycle!Procs BY DEF LInv, Lifecycle!Procs
  <2>2. /\ pc' = [pc EXCEPT ![p] = "idle"] /\ job' \in [Lifecycle!Procs -> Jobs]
        /\ \A q \in Lifecycle!Procs : q # p => job'[q] = job[q]
    BY <2>1, Finished DEF Lifecycle!Upsert
  <2>. QED BY <2>1, <2>2 DEF Placed, Lifecycle!Upsert, Lifecycle!Procs, Labels
<1>2. Tables'
  <2>1. job[p].auth \in Held BY JobParts DEF LInv, Placed, Lifecycle!Procs
  <2>2. sched' = Lifecycle!NoEntry \/ sched'.conf \in Confs BY <2>1, EntryType DEF Lifecycle!Upsert
  <2>. QED BY <2>2 DEF LInv, Tables, Lifecycle!Upsert
<1>3. RegistryKept'
  BY DEF LInv, Placed, RegistryKept, Lifecycle!Upsert, Lifecycle!Goto, Lifecycle!Finish,
    Lifecycle!Procs, Lifecycle!Wanted, Lifecycle!NoModels
<1>4. SchedulerKept'
  BY DEF LInv, Placed, SchedulerKept, Lifecycle!Upsert, Lifecycle!Goto, Lifecycle!Finish,
    Lifecycle!Procs, Lifecycle!entry
<1>. QED BY <1>1, <1>2, <1>3, <1>4 DEF LInv

LEMMA KeepPublish == ASSUME Lifecycle!LifecycleAssumption, LInv, Lifecycle!Publish PROVE LInv'
<1>1. Placed'
  <2>0. catalog \in 1..MaxCatalogs /\ MaxCatalogs \in Nat
    BY DEF LInv, Placed, Lifecycle!LifecycleAssumption
  <2>1. catalog' \in 1..MaxCatalogs BY <2>0 DEF Lifecycle!Publish
  <2>. QED BY <2>1 DEF LInv, Placed, Lifecycle!Publish, Lifecycle!Goto, Lifecycle!Procs, Labels
<1>2. Tables' BY DEF LInv, Tables, Lifecycle!Publish
<1>3. RegistryKept'
  BY DEF LInv, Placed, RegistryKept, Lifecycle!Publish, Lifecycle!Goto, Lifecycle!Procs,
    Lifecycle!Wanted, Lifecycle!NoModels
<1>4. SchedulerKept'
  BY DEF LInv, Placed, SchedulerKept, Lifecycle!Publish, Lifecycle!Goto, Lifecycle!Procs,
    Lifecycle!entry
<1>. QED BY <1>1, <1>2, <1>3, <1>4 DEF LInv

LEMMA KeepRead == ASSUME Lifecycle!LifecycleAssumption, LInv, Lifecycle!Read PROVE LInv'
<1>1. Placed'
  <2>1. Placed /\ "catalog" \in Lifecycle!Procs /\ record \in Held
    BY RecordHeld DEF LInv, Lifecycle!Procs
  <2>2. CASE record.disabled
    <3>1. /\ pc' = [pc EXCEPT !["catalog"] = "idle"] /\ job' \in [Lifecycle!Procs -> Jobs]
          /\ \A q \in Lifecycle!Procs : q # "catalog" => job'[q] = job[q]
      BY <2>1, <2>2, Finished DEF Lifecycle!Read
    <3>. QED BY <2>1, <3>1 DEF Placed, Lifecycle!Read, Lifecycle!Procs, Labels
  <2>3. CASE ~record.disabled
    <3>1. /\ job' \in [Lifecycle!Procs -> Jobs] /\ job'["catalog"].auth = record
          /\ \A q \in Lifecycle!Procs : q # "catalog" => job'[q] = job[q]
      BY <2>1, <2>3, Holds DEF Lifecycle!Read
    <3>. QED BY <2>1, <2>3, <3>1 DEF Placed, Lifecycle!Read, Lifecycle!Goto, Lifecycle!Procs, Labels
  <2>. QED BY <2>2, <2>3
<1>2. Tables' BY DEF LInv, Tables, Lifecycle!Read
<1>3. RegistryKept'
  BY DEF LInv, Placed, RegistryKept, Lifecycle!Read, Lifecycle!Goto, Lifecycle!Hold, Lifecycle!Finish,
    Lifecycle!Procs, Lifecycle!Wanted, Lifecycle!NoModels
<1>4. SchedulerKept'
  BY DEF LInv, Placed, SchedulerKept, Lifecycle!Read, Lifecycle!Goto, Lifecycle!Hold, Lifecycle!Finish,
    Lifecycle!Procs, Lifecycle!entry
<1>. QED BY <1>1, <1>2, <1>3, <1>4 DEF LInv

LEMMA KeepLatest == ASSUME Lifecycle!LifecycleAssumption, LInv, Lifecycle!Latest PROVE LInv'
<1>1. Placed'
  <2>1. Placed /\ "catalog" \in Lifecycle!Procs /\ record \in Held
    BY RecordHeld DEF LInv, Lifecycle!Procs
  <2>2. /\ job' \in [Lifecycle!Procs -> Jobs] /\ job'["catalog"].auth = record
        /\ \A q \in Lifecycle!Procs : q # "catalog" => job'[q] = job[q]
    BY <2>1, Holds DEF Lifecycle!Latest
  <2>. QED BY <2>1, <2>2 DEF Placed, Lifecycle!Latest, Lifecycle!Goto, Lifecycle!Procs, Labels
<1>2. Tables' BY DEF LInv, Tables, Lifecycle!Latest
<1>0. job'["catalog"].auth = record /\ \A q \in Lifecycle!Procs : q # "catalog" => job'[q] = job[q]
  BY RecordHeld, Holds DEF LInv, Lifecycle!Latest, Lifecycle!Procs
<1>3. RegistryKept'
  BY <1>0 DEF LInv, Placed, RegistryKept, Lifecycle!Latest, Lifecycle!Goto, Lifecycle!Procs,
    Lifecycle!Wanted, Lifecycle!NoModels
<1>4. SchedulerKept'
  BY <1>0 DEF LInv, Placed, SchedulerKept, Lifecycle!Latest, Lifecycle!Goto, Lifecycle!Procs,
    Lifecycle!entry
<1>. QED BY <1>1, <1>2, <1>3, <1>4 DEF LInv

LEMMA KeepUnregister == ASSUME Lifecycle!LifecycleAssumption, LInv, Lifecycle!Unregister PROVE LInv'
<1>1. Placed'
  BY DEF LInv, Placed, Lifecycle!Unregister, Lifecycle!Goto, Lifecycle!Procs, Labels
<1>2. Tables' BY DEF LInv, Tables, Lifecycle!Unregister, Registered
<1>3. RegistryKept'
  BY DEF LInv, Placed, RegistryKept, Lifecycle!Unregister, Lifecycle!Goto, Lifecycle!Procs,
    Lifecycle!Wanted, Lifecycle!NoModels
<1>4. SchedulerKept'
  BY DEF LInv, Placed, SchedulerKept, Lifecycle!Unregister, Lifecycle!Goto, Lifecycle!Procs,
    Lifecycle!entry
<1>. QED BY <1>1, <1>2, <1>3, <1>4 DEF LInv

LEMMA KeepSnapshot == ASSUME Lifecycle!LifecycleAssumption, LInv, Lifecycle!Snapshot PROVE LInv'
<1>1. Placed'
  <2>1. Placed /\ "sync" \in Lifecycle!Procs /\ record \in Held BY RecordHeld DEF LInv, Lifecycle!Procs
  <2>2. /\ job' \in [Lifecycle!Procs -> Jobs] /\ job'["sync"].auth = record
        /\ \A q \in Lifecycle!Procs : q # "sync" => job'[q] = job[q]
    BY <2>1, Holds DEF Lifecycle!Snapshot
  <2>. QED BY <2>1, <2>2 DEF Placed, Lifecycle!Snapshot, Lifecycle!Goto, Lifecycle!Procs, Labels
<1>2. Tables' BY DEF LInv, Tables, Lifecycle!Snapshot
<1>0. job'["sync"].auth = record /\ \A q \in Lifecycle!Procs : q # "sync" => job'[q] = job[q]
  BY RecordHeld, Holds DEF LInv, Lifecycle!Snapshot, Lifecycle!Procs
<1>3. RegistryKept'
  BY <1>0 DEF LInv, Placed, RegistryKept, Lifecycle!Snapshot, Lifecycle!Goto, Lifecycle!Procs,
    Lifecycle!Wanted, Lifecycle!NoModels
<1>4. SchedulerKept'
  BY <1>0 DEF LInv, Placed, SchedulerKept, Lifecycle!Snapshot, Lifecycle!Goto, Lifecycle!Procs,
    Lifecycle!entry
<1>. QED BY <1>1, <1>2, <1>3, <1>4 DEF LInv

LEMMA KeepRebuild == ASSUME Lifecycle!LifecycleAssumption, LInv, Lifecycle!Rebuild PROVE LInv'
<1>1. Placed'
  <2>1. Placed /\ "sync" \in Lifecycle!Procs BY DEF LInv, Lifecycle!Procs
  <2>2. /\ pc' = [pc EXCEPT !["sync"] = "idle"] /\ job' \in [Lifecycle!Procs -> Jobs]
        /\ \A q \in Lifecycle!Procs : q # "sync" => job'[q] = job[q]
    BY <2>1, Finished DEF Lifecycle!Rebuild
  <2>. QED BY <2>1, <2>2 DEF Placed, Lifecycle!Rebuild, Lifecycle!Procs, Labels
<1>2. Tables'
  <2>1. job["sync"].auth \in Held BY JobParts DEF LInv, Placed, Lifecycle!Procs
  <2>2. sched' = Lifecycle!NoEntry \/ sched'.conf \in Confs BY <2>1, EntryType DEF Lifecycle!Rebuild
  <2>. QED BY <2>2 DEF LInv, Tables, Lifecycle!Rebuild
<1>3. RegistryKept'
  BY DEF LInv, Placed, RegistryKept, Lifecycle!Rebuild, Lifecycle!Goto, Lifecycle!Finish,
    Lifecycle!Procs, Lifecycle!Wanted, Lifecycle!NoModels
<1>4. SchedulerKept'
  BY DEF LInv, Placed, SchedulerKept, Lifecycle!Rebuild, Lifecycle!Goto, Lifecycle!Finish,
    Lifecycle!Procs, Lifecycle!entry
<1>. QED BY <1>1, <1>2, <1>3, <1>4 DEF LInv

------------------------------------------------------------------------------
(* The theorem of the tables *)

LEMMA TablesInit == ASSUME Lifecycle!LifecycleAssumption, Lifecycle!Init PROVE LInv
<1>1. Lifecycle!NoJob \in Jobs BY JobEnds
<1>2. updates \in Seq(Reported) /\ catalog \in 1..MaxCatalogs
  BY DEF Lifecycle!Init, Lifecycle!LifecycleAssumption
<1>3. record.disabled /\ Lifecycle!entry(record, registry) = Lifecycle!NoEntry /\ Lifecycle!Wanted = Lifecycle!NoModels
  BY DEF Lifecycle!Init, Lifecycle!Absent, Lifecycle!entry, Lifecycle!Wanted
<1>4. Placed BY <1>1, <1>2 DEF Placed, Lifecycle!Init, Lifecycle!Procs, Labels
<1>5. Tables BY DEF Tables, Registered, Lifecycle!Init
<1>6. RegistryKept BY <1>3 DEF RegistryKept, Lifecycle!Init, Lifecycle!Procs
<1>7. SchedulerKept BY <1>3 DEF SchedulerKept, Lifecycle!Init, Lifecycle!Procs
<1>. QED BY <1>4, <1>5, <1>6, <1>7 DEF LInv

LEMMA TablesNext ==
  ASSUME Lifecycle!LifecycleAssumption, LInv, [Lifecycle!Next]_(Lifecycle!vars)
  PROVE  LInv'
<1>1. CASE UNCHANGED Lifecycle!vars
  <2>1. UNCHANGED <<record, registry, sched, updates, catalog, changes, pc, job, torn>>
    BY <1>1 DEF Lifecycle!vars
  <2>2. Placed' BY <2>1 DEF LInv, Placed
  <2>3. Tables' BY <2>1 DEF LInv, Tables
  <2>4. RegistryKept' BY <2>1 DEF LInv, RegistryKept, Lifecycle!Wanted
  <2>5. SchedulerKept' BY <2>1 DEF LInv, SchedulerKept
  <2>. QED BY <2>2, <2>3, <2>4, <2>5 DEF LInv
<1>2. ASSUME NEW file \in Lifecycle!File \cup {Lifecycle!Removal}, Lifecycle!Change(file) PROVE LInv'
  BY <1>2, KeepChange DEF Reported
<1>3. CASE Lifecycle!Consume BY <1>3, KeepTake, KeepRemove, KeepStore, KeepShow DEF Lifecycle!Consume
<1>4. CASE Lifecycle!Publish \/ Lifecycle!Refresh
  BY <1>4, KeepPublish, KeepRead, KeepLatest, KeepUnregister DEF Lifecycle!Refresh
<1>5. ASSUME NEW p \in {"consumer", "catalog"},
             Lifecycle!Resolve(p) \/ Lifecycle!Bind(p) \/ Lifecycle!Reread(p) \/ Lifecycle!Upsert(p)
      PROVE  LInv'
  BY <1>5, KeepResolve, KeepBind, KeepReread, KeepUpsert
<1>6. CASE Lifecycle!Snapshot \/ Lifecycle!Rebuild BY <1>6, KeepSnapshot, KeepRebuild
<1>. QED BY <1>1, <1>2, <1>3, <1>4, <1>5, <1>6 DEF Lifecycle!Next

\* Once nothing is on its way, no disjunct of the invariant is left but the tables.
LEMMA TablesTrue == ASSUME LInv PROVE TablesFollow
<1>1. Lifecycle!TypeOK BY DEF LInv, Placed, Tables, Registered, Lifecycle!TypeOK
<1>2. Lifecycle!Quiet => pc["consumer"] = "idle" /\ pc["catalog"] = "idle"
  BY DEF Lifecycle!Quiet, Lifecycle!Procs
<1>3. Lifecycle!Quiet /\ "registry" \notin torn => registry = Lifecycle!Wanted
  BY <1>2 DEF LInv, RegistryKept
<1>4. Lifecycle!Quiet /\ "scheduler" \notin torn => sched = Lifecycle!entry(record, registry)
  BY <1>2 DEF LInv, SchedulerKept
<1>. QED BY <1>1, <1>3, <1>4 DEF TablesFollow, Lifecycle!RegistrationFollows, Lifecycle!SchedulerFollows

\* Whatever the consumer of the watcher's queue, the catalog's callback and the scheduler's
\* rebuild interleave (handleAuthUpdate, registerModelsForAuth, refreshModelRegistrationForAuth,
\* RefreshSchedulerEntry, syncScheduler): once they are done, the registered models are those
\* of the record and the catalog and the scheduler's entry is that of both, unless one of the
\* three overlaps that are named tore them.  For any contents, changes and catalogs.
THEOREM TablesFollowRecord == AllSpec => []TablesFollow
<1>1. AllInit => LInv
  BY LifecycleConstants, TablesInit DEF AllInit
<1>2. LInv /\ [AllNext]_<<subject, vars, lifecycleVars>> => LInv'
  <2>. SUFFICES ASSUME LInv, [AllNext]_<<subject, vars, lifecycleVars>> PROVE LInv' OBVIOUS
  <2>1. [Lifecycle!Next]_(Lifecycle!vars) BY DEF AllNext, lifecycleVars, Lifecycle!vars
  <2>. QED BY <2>1, LifecycleConstants, TablesNext
<1>3. LInv => TablesFollow BY TablesTrue
<1>. QED BY <1>1, <1>2, <1>3, PTL DEF AllSpec

------------------------------------------------------------------------------
(* The dispatcher, for any IDs I and any values V of an update: the lemmas  *)
(* are cited of the watcher's dispatcher as well as of the one alone       *)

\* What an instance assumes, the types, and an initial state, as AuthDispatch has them.
Limits(I) == Capacity \in Nat \ {0} /\ IsFiniteSet(I)

Updating(I, V) == [id : I, auth : V]

Typing(I, V) ==
  /\ order \in Seq(I)
  /\ DOMAIN pending \subseteq I /\ \A i \in DOMAIN pending : pending[i] \in V
  /\ loop \in {"check", "asleep", "woken", "send", "done"}
  /\ loop = "send" <=> batch # <<>>
  /\ batch \in Seq(Updating(I, V)) /\ queue \in Seq(Updating(I, V)) /\ Len(queue) <= Capacity
  /\ stop \in {"no", "cancelled", "cleared", "gone"}
  /\ applied \in [I -> V] /\ last \in [I -> V]

Begins(I) ==
  /\ pending = <<>> /\ order = <<>> /\ loop = "check" /\ batch = <<>> /\ queue = <<>> /\ stop = "no"
  /\ applied = [i \in I |-> None] /\ last = applied

\* A step: somebody dispatches updates, or the dispatcher, the service or who stops it moves.
Offers(I, V, new) == DOMAIN new \subseteq I /\ (\A i \in DOMAIN new : new[i] \in V) /\ Alone!Enqueue(new)

Moves(I, V) == (\E new : Offers(I, V, new)) \/ Alone!Loop \/ Alone!Consume \/ Alone!Stop \/ UNCHANGED Alone!vars

\* The newest update in s of an ID, or what the service has of it, is its last one.
Agrees(I, s, app, lst) ==
  /\ \A k \in DOMAIN s : (\A j \in DOMAIN s : j > k => s[j].id # s[k].id) => s[k].auth = lst[s[k].id]
  /\ \A i \in I : (\A k \in DOMAIN s : s[k].id # i) => app[i] = lst[i]

\* The invariant: LatestWins of AuthDispatch.
Latest(I, V) == Typing(I, V) /\ Alone!Coalesced /\ (stop = "no" => Agrees(I, Alone!InFlight, applied, last))

\* What has left the buffer.
Ahead == queue \o batch

------------------------------------------------------------------------------
(* Lemmas on sequences and functions *)

\* Where the elements of a sequence and of its parts are.
LEMMA ConcatPlaces ==
  ASSUME NEW T, NEW s \in Seq(T), NEW t \in Seq(T)
  PROVE  /\ s \o t \in Seq(T) /\ DOMAIN (s \o t) = 1..(Len(s) + Len(t))
         /\ \A k \in DOMAIN s : k \in DOMAIN (s \o t) /\ (s \o t)[k] = s[k]
         /\ \A k \in DOMAIN t : Len(s) + k \in DOMAIN (s \o t) /\ (s \o t)[Len(s) + k] = t[k]
         /\ \A k \in DOMAIN (s \o t) : k \in DOMAIN s \/ (k - Len(s) \in DOMAIN t /\ k > Len(s))
  OBVIOUS

\* Nothing changes when an element goes from the head of one part to the end of the other.
LEMMA Shift ==
  ASSUME NEW T, NEW s \in Seq(T), NEW t \in Seq(T), t # <<>>
  PROVE  Append(s, Head(t)) \o Tail(t) = s \o t
<1>1. Head(t) \in T /\ Tail(t) \in Seq(T) /\ Len(t) \in Nat \ {0} OBVIOUS
<1>2. Append(s, Head(t)) \in Seq(T) /\ Len(Append(s, Head(t))) = Len(s) + 1 BY <1>1
<1>3. Len(Append(s, Head(t)) \o Tail(t)) = Len(s \o t) BY <1>1, <1>2
<1>4. \A i \in 1..Len(s \o t) : (Append(s, Head(t)) \o Tail(t))[i] = (s \o t)[i]
  <2>. TAKE i \in 1..Len(s \o t)
  <2>1. CASE i <= Len(s) BY <1>1, <1>2, <2>1
  <2>2. CASE i = Len(s) + 1 BY <1>1, <1>2, <2>2
  <2>3. CASE i > Len(s) + 1 BY <1>1, <1>2, <2>3
  <2>. QED BY <1>1, <2>1, <2>2, <2>3
<1>5. Append(s, Head(t)) \o Tail(t) \in Seq(T) /\ s \o t \in Seq(T) BY <1>1, <1>2
<1>. QED BY <1>3, <1>4, <1>5

\* The first element of two parts.
LEMMA HeadTailConcat ==
  ASSUME NEW T, NEW s \in Seq(T), s # <<>>, NEW t \in Seq(T)
  PROVE  s \o t \in Seq(T) /\ s \o t # <<>> /\ Head(s \o t) = Head(s) /\ Tail(s \o t) = Tail(s) \o t
<1>1. Tail(s) \in Seq(T) /\ Len(s) \in Nat \ {0} /\ Len(Tail(s)) = Len(s) - 1 OBVIOUS
<1>2. s \o t \in Seq(T) /\ Len(s \o t) = Len(s) + Len(t) /\ s \o t # <<>> BY <1>1
<1>3. Tail(s \o t) \in Seq(T) /\ Len(Tail(s \o t)) = Len(s) + Len(t) - 1 BY <1>1, <1>2
<1>4. Tail(s) \o t \in Seq(T) /\ Len(Tail(s) \o t) = Len(s) + Len(t) - 1 BY <1>1
<1>5. \A i \in 1..(Len(s) + Len(t) - 1) : Tail(s \o t)[i] = (Tail(s) \o t)[i]
  <2>. TAKE i \in 1..(Len(s) + Len(t) - 1)
  <2>1. Tail(s \o t)[i] = (s \o t)[i + 1] BY <1>1, <1>2, <1>3
  <2>2. CASE i <= Len(s) - 1 BY <1>1, <2>1, <2>2
  <2>3. CASE i > Len(s) - 1 BY <1>1, <2>1, <2>3
  <2>. QED BY <1>1, <2>2, <2>3
<1>6. Tail(s \o t) = Tail(s) \o t BY <1>3, <1>4, <1>5
<1>7. Head(s \o t) = Head(s) BY <1>1, <1>2
<1>. QED BY <1>2, <1>6, <1>7

\* What the buffer is after some updates.
LEMMA MergedPlaces ==
  ASSUME NEW f, NEW g
  PROVE  /\ DOMAIN Alone!Merged(f, g) = DOMAIN f \cup DOMAIN g
         /\ \A x \in DOMAIN f \cup DOMAIN g : Alone!Merged(f, g)[x] = IF x \in DOMAIN f THEN f[x] ELSE g[x]
  BY DEF Alone!Merged

\* A sequence of a set has each of its elements once.
LEMMA SeqOfSet ==
  ASSUME NEW S, IsFiniteSet(S), NEW s \in Alone!SetToSeqs(S)
  PROVE  s \in Seq(S) /\ Alone!ToSet(s) = S /\ Alone!IsInjective(s)
<1>1. Cardinality(S) \in Nat BY FS_CardinalityType
<1>0. Cardinality(S) = Alone!Cardinality(S) BY DEF Cardinality, Alone!Cardinality
<1>2. /\ s \in [1..Cardinality(S) -> S]
      /\ \A i, j \in 1..Cardinality(S) : i # j => s[i] # s[j]
  BY <1>0 DEF Alone!SetToSeqs, Alone!Injection, Alone!IsInjective
<1>3. s \in Seq(S) /\ DOMAIN s = 1..Cardinality(S) BY <1>1, <1>2
<1>4. Alone!IsInjective(s) BY <1>2, <1>3 DEF Alone!IsInjective
<1>5. s \in Injection(1..Cardinality(S), S) BY <1>2 DEF Injection, IsInjective
<1>6. Cardinality(1..Cardinality(S)) = Cardinality(S) BY <1>1, FS_Interval
<1>7. s \in Surjection(1..Cardinality(S), S) BY <1>5, <1>6, FS_Injection
<1>8. Alone!ToSet(s) = S BY <1>2, <1>3, <1>7 DEF Surjection, Alone!ToSet
<1>. QED BY <1>3, <1>4, <1>8

------------------------------------------------------------------------------
(* Lemmas on updates *)

\* An update keeps its fields.
LEMMA UpdateParts ==
  ASSUME NEW I, NEW V, NEW x \in Updating(I, V)
  PROVE  x.id \in I /\ x.auth \in V BY DEF Updating

\* What a buffer holds, in order.
Listed(o, p) == [k \in DOMAIN o |-> [id |-> o[k], auth |-> p[o[k]]]]

LEMMA ListedPlaces ==
  ASSUME NEW I, NEW V, NEW o \in Seq(I), NEW p, \A k \in DOMAIN o : p[o[k]] \in V
  PROVE  /\ Listed(o, p) \in Seq(Updating(I, V)) /\ DOMAIN Listed(o, p) = DOMAIN o
         /\ \A k \in DOMAIN o : Listed(o, p)[k].id = o[k] /\ Listed(o, p)[k].auth = p[o[k]]
<1>1. DOMAIN o = 1..Len(o) /\ Len(o) \in Nat OBVIOUS
<1>2. \A k \in DOMAIN o : o[k] \in I OBVIOUS
<1>3. \A k \in DOMAIN o : [id |-> o[k], auth |-> p[o[k]]] \in Updating(I, V) BY <1>2 DEF Updating
<1>4. Listed(o, p) \in [1..Len(o) -> Updating(I, V)] BY <1>1, <1>3 DEF Listed
<1>5. Listed(o, p) \in Seq(Updating(I, V)) BY <1>1, <1>4
<1>. QED BY <1>1, <1>5 DEF Listed

LEMMA UpdatesPlaces ==
  ASSUME NEW I, NEW V, Typing(I, V), Alone!Coalesced
  PROVE  /\ Alone!Updates = Listed(order, pending) /\ Alone!Updates \in Seq(Updating(I, V)) /\ DOMAIN Alone!Updates = DOMAIN order
         /\ \A k \in DOMAIN order : Alone!Updates[k].id = order[k] /\ Alone!Updates[k].auth = pending[order[k]]
<1>1. order \in Seq(I) /\ \A k \in DOMAIN order : pending[order[k]] \in V
  BY DEF Typing, Alone!Coalesced, Alone!ToSet
<1>2. Alone!Updates = Listed(order, pending) BY DEF Alone!Updates, Listed
<1>. QED BY <1>1, <1>2, ListedPlaces

\* The service applies the oldest update.
LEMMA AgreesTail ==
  ASSUME NEW I, NEW V, NEW s \in Seq(Updating(I, V)), s # <<>>, NEW app \in [I -> V], NEW lst, Agrees(I, s, app, lst)
  PROVE  Agrees(I, Tail(s), [app EXCEPT ![Head(s).id] = Head(s).auth], lst)
<1>1. PICK h \in Updating(I, V) : h = Head(s) /\ h = s[1] /\ 1 \in DOMAIN s OBVIOUS
<1>2. /\ \A k \in DOMAIN Tail(s) : k \in Nat \ {0} /\ k + 1 \in DOMAIN s /\ Tail(s)[k] = s[k + 1]
      /\ \A k \in DOMAIN s : k \in Nat \ {0} /\ (k # 1 => k - 1 \in DOMAIN Tail(s) /\ Tail(s)[k - 1] = s[k])
  OBVIOUS
<1>3. ASSUME NEW k \in DOMAIN Tail(s), \A j \in DOMAIN Tail(s) : j > k => Tail(s)[j].id # Tail(s)[k].id
      PROVE  Tail(s)[k].auth = lst[Tail(s)[k].id]
  <2>1. ASSUME NEW j \in DOMAIN s, j > k + 1 PROVE s[j].id # s[k + 1].id
    <3>1. j - 1 \in DOMAIN Tail(s) /\ Tail(s)[j - 1] = s[j] /\ j - 1 > k BY <1>2, <2>1
    <3>2. Tail(s)[k] = s[k + 1] BY <1>2
    <3>. QED BY <1>3, <3>1, <3>2
  <2>2. k + 1 \in DOMAIN s /\ Tail(s)[k] = s[k + 1] BY <1>2
  <2>. QED BY <2>1, <2>2 DEF Agrees
<1>4. ASSUME NEW i \in I, \A k \in DOMAIN Tail(s) : Tail(s)[k].id # i
      PROVE  [app EXCEPT ![h.id] = h.auth][i] = lst[i]
  <2>1. \A k \in DOMAIN s : k # 1 => s[k].id # i BY <1>2, <1>4
  <2>2. CASE i = h.id
    <3>1. \A j \in DOMAIN s : j > 1 => s[j].id # s[1].id BY <1>1, <2>1, <2>2
    <3>2. h.auth = lst[h.id] BY <1>1, <3>1 DEF Agrees
    <3>. QED BY <2>2, <3>2
  <2>3. CASE i # h.id
    <3>1. \A k \in DOMAIN s : s[k].id # i BY <1>1, <2>1, <2>3
    <3>2. app[i] = lst[i] BY <3>1 DEF Agrees
    <3>. QED BY <2>3, <3>2
  <2>. QED BY <2>2, <2>3
<1>. QED BY <1>1, <1>3, <1>4 DEF Agrees

\* Updates new are merged into the buffer, u before and v then: no ID loses its place, and
\* each is there once.
LEMMA AgreesMerged ==
  ASSUME NEW I, NEW V, NEW p \in Seq(Updating(I, V)), NEW u \in Seq(Updating(I, V)), NEW v \in Seq(Updating(I, V)),
         NEW new, NEW app, NEW lst, DOMAIN lst = I, DOMAIN new \subseteq I,
         Agrees(I, p \o u, app, lst),
         \A j, k \in DOMAIN u : u[j].id = u[k].id => j = k,
         \A j \in DOMAIN u : \E k \in DOMAIN v : v[k].id = u[j].id,
         \A i \in DOMAIN new : \E k \in DOMAIN v : v[k].id = i,
         \A k \in DOMAIN v : IF v[k].id \in DOMAIN new THEN v[k].auth = new[v[k].id]
                                                       ELSE \E j \in DOMAIN u : u[j] = v[k]
  PROVE  Agrees(I, p \o v, app, Alone!Merged(new, lst))
<1>. DEFINE s == p \o u
            t == p \o v
<1>1. /\ \A k \in DOMAIN p : k \in DOMAIN s /\ s[k] = p[k] /\ k \in DOMAIN t /\ t[k] = p[k] /\ k \in 1..Len(p)
      /\ \A k \in DOMAIN u : Len(p) + k \in DOMAIN s /\ s[Len(p) + k] = u[k] /\ k \in Nat \ {0}
      /\ \A k \in DOMAIN v : Len(p) + k \in DOMAIN t /\ t[Len(p) + k] = v[k] /\ k \in Nat \ {0}
      /\ Len(p) \in Nat
  BY ConcatPlaces
<1>2. /\ \A k \in DOMAIN s : k \in Nat /\ (k \in DOMAIN p \/ \E j \in DOMAIN u : k = Len(p) + j)
      /\ \A k \in DOMAIN t : k \in Nat /\ (k \in DOMAIN p \/ \E j \in DOMAIN v : k = Len(p) + j)
  <2>1. \A k \in DOMAIN s : k \in Nat /\ (k \in DOMAIN p \/ k - Len(p) \in DOMAIN u) BY ConcatPlaces
  <2>2. \A k \in DOMAIN t : k \in Nat /\ (k \in DOMAIN p \/ k - Len(p) \in DOMAIN v) BY ConcatPlaces
  <2>3. \A k \in Nat : k = Len(p) + (k - Len(p)) BY <1>1
  <2>. QED BY <2>1, <2>2, <2>3
<1>3. \A k \in DOMAIN p : p[k].id \in I BY UpdateParts
<1>4. \A k \in DOMAIN v : v[k].id \in I BY UpdateParts
<1>5. \A i \in I : Alone!Merged(new, lst)[i] = IF i \in DOMAIN new THEN new[i] ELSE lst[i]
  BY DEF Alone!Merged
<1>. HIDE DEF s, t
<1>6. ASSUME NEW k \in DOMAIN t, \A j \in DOMAIN t : j > k => t[j].id # t[k].id
      PROVE  t[k].auth = Alone!Merged(new, lst)[t[k].id]
  <2>1. CASE k \in DOMAIN p
    <3>1. \A j \in DOMAIN v : v[j].id # p[k].id
      <4>. TAKE j \in DOMAIN v
      <4>1. Len(p) + j \in DOMAIN t /\ t[Len(p) + j] = v[j] /\ Len(p) + j > k BY <1>1, <2>1
      <4>. QED BY <1>1, <1>6, <2>1, <4>1
    <3>2. p[k].id \notin DOMAIN new /\ \A j \in DOMAIN u : u[j].id # p[k].id BY <3>1
    <3>3. ASSUME NEW j \in DOMAIN s, j > k PROVE s[j].id # s[k].id
      <4>1. CASE j \in DOMAIN p BY <1>1, <1>6, <2>1, <3>3, <4>1
      <4>2. CASE \E i \in DOMAIN u : j = Len(p) + i BY <1>1, <2>1, <3>2, <4>2
      <4>. QED BY <1>2, <4>1, <4>2
    <3>4. p[k].auth = lst[p[k].id] BY <1>1, <2>1, <3>3 DEF Agrees, s
    <3>5. Alone!Merged(new, lst)[p[k].id] = lst[p[k].id] BY <1>3, <1>5, <2>1, <3>2
    <3>. QED BY <1>1, <2>1, <3>4, <3>5
  <2>2. ASSUME NEW m \in DOMAIN v, k = Len(p) + m PROVE t[k].auth = Alone!Merged(new, lst)[t[k].id]
    <3>1. t[k] = v[m] BY <1>1, <2>2
    <3>2. CASE v[m].id \in DOMAIN new BY <1>4, <1>5, <3>1, <3>2
    <3>3. CASE v[m].id \notin DOMAIN new
      <4>1. PICK j \in DOMAIN u : u[j] = v[m] BY <3>3
      <4>2. Len(p) + j \in DOMAIN s /\ s[Len(p) + j] = u[j] BY <1>1
      <4>3. ASSUME NEW i \in DOMAIN s, i > Len(p) + j PROVE s[i].id # u[j].id
        <5>1. i \notin DOMAIN p BY <1>1, <4>3
        <5>2. PICK n \in DOMAIN u : i = Len(p) + n BY <1>2, <5>1
        <5>3. n # j BY <4>3, <5>2, <1>1
        <5>. QED BY <1>1, <5>2, <5>3
      <4>4. u[j].auth = lst[u[j].id]
        <5>1. PICK n \in DOMAIN s : n = Len(p) + j BY <4>2
        <5>2. s[n] = u[j] /\ \A i \in DOMAIN s : i > n => s[i].id # s[n].id BY <4>2, <4>3, <5>1
        <5>. QED BY <5>2 DEF Agrees, s
      <4>5. Alone!Merged(new, lst)[v[m].id] = lst[v[m].id] BY <1>4, <1>5, <3>3
      <4>. QED BY <3>1, <4>1, <4>4, <4>5
    <3>. QED BY <3>2, <3>3
  <2>. QED BY <1>2, <2>1, <2>2
<1>7. ASSUME NEW i \in I, \A k \in DOMAIN t : t[k].id # i
      PROVE  app[i] = Alone!Merged(new, lst)[i]
  <2>1. \A k \in DOMAIN v : v[k].id # i BY <1>1, <1>7
  <2>2. i \notin DOMAIN new /\ \A k \in DOMAIN u : u[k].id # i BY <2>1
  <2>3. \A k \in DOMAIN s : s[k].id # i BY <1>1, <1>2, <1>7, <2>2
  <2>4. app[i] = lst[i] BY <2>3 DEF Agrees, s
  <2>5. Alone!Merged(new, lst)[i] = lst[i] BY <1>5, <2>2
  <2>. QED BY <2>4, <2>5
<1>. QED BY <1>6, <1>7 DEF Agrees, t

------------------------------------------------------------------------------
(* Types and the buffer *)

\* The dispatcher sleeps with an empty batch, and is woken or stays where it is.
LEMMA WakeType ==
  ASSUME NEW I, NEW V, Typing(I, V), Alone!Wake
  PROVE  loop' \in {"check", "asleep", "woken", "send", "done"} /\ (loop' = "send" <=> loop = "send")
  BY DEF Typing, Alone!Wake

\* What a dispatch makes of the buffer.
LEMMA Enqueued ==
  ASSUME NEW I, NEW V, Limits(I), Typing(I, V), Alone!Coalesced,
         NEW new, DOMAIN new \subseteq I, \A i \in DOMAIN new : new[i] \in V,
         NEW more \in Alone!SetToSeqs(DOMAIN new \ DOMAIN pending),
         order' = order \o more, pending' = Alone!Merged(new, pending)
  PROVE  /\ order' \in Seq(I) /\ DOMAIN pending' = DOMAIN new \cup DOMAIN pending
         /\ \A i \in DOMAIN pending' : pending'[i] = IF i \in DOMAIN new THEN new[i] ELSE pending[i]
         /\ \A i \in DOMAIN pending' : i \in I /\ pending'[i] \in V
         /\ Alone!Coalesced'
         /\ \A j \in DOMAIN order : j \in DOMAIN order' /\ order'[j] = order[j]
<1>. DEFINE S == DOMAIN new \ DOMAIN pending
<1>0. IsFiniteSet(I) BY DEF Limits
<1>1. IsFiniteSet(S) BY <1>0, FS_Subset
<1>2. more \in Seq(S) /\ Alone!ToSet(more) = S /\ Alone!IsInjective(more) BY <1>1, SeqOfSet
<1>3. order \in Seq(I) /\ more \in Seq(I) BY <1>2 DEF Typing
<1>4. order' \in Seq(I) /\ \A j \in DOMAIN order : j \in DOMAIN order' /\ order'[j] = order[j]
  BY <1>3, ConcatPlaces
<1>5. /\ DOMAIN pending' = DOMAIN new \cup DOMAIN pending
      /\ \A i \in DOMAIN pending' : pending'[i] = IF i \in DOMAIN new THEN new[i] ELSE pending[i]
  BY DEF Alone!Merged
<1>6. \A i \in DOMAIN pending' : i \in I /\ pending'[i] \in V
  BY <1>5 DEF Typing
<1>7. /\ \A j \in DOMAIN order : order[j] \in DOMAIN pending
      /\ \A i \in DOMAIN pending : \E j \in DOMAIN order : order[j] = i
      /\ \A j, k \in DOMAIN order : order[j] = order[k] => j = k
  BY DEF Alone!Coalesced, Alone!ToSet, Alone!IsInjective
<1>8. /\ \A j \in DOMAIN more : more[j] \in S
      /\ \A i \in S : \E j \in DOMAIN more : more[j] = i
      /\ \A j, k \in DOMAIN more : more[j] = more[k] => j = k
  BY <1>2 DEF Alone!ToSet, Alone!IsInjective
<1>9. /\ \A k \in DOMAIN more : Len(order) + k \in DOMAIN order' /\ order'[Len(order) + k] = more[k]
      /\ \A k \in DOMAIN order' : k \in DOMAIN order \/ (k - Len(order) \in DOMAIN more /\ k > Len(order))
      /\ DOMAIN order = 1..Len(order) /\ Len(order) \in Nat /\ DOMAIN order' \subseteq Nat /\ DOMAIN more \subseteq Nat
  BY <1>3, ConcatPlaces
<1>10. \A k \in DOMAIN order' : k \in DOMAIN order \/ \E j \in DOMAIN more : k = Len(order) + j /\ order'[k] = more[j]
  <2>. TAKE k \in DOMAIN order'
  <2>1. ASSUME k - Len(order) \in DOMAIN more
        PROVE  \E j \in DOMAIN more : k = Len(order) + j /\ order'[k] = more[j]
    <3>1. PICK j \in DOMAIN more : j = k - Len(order) BY <2>1
    <3>2. k = Len(order) + j BY <1>9, <3>1
    <3>. QED BY <1>9, <3>2
  <2>. QED BY <1>9, <2>1
<1>11. Alone!ToSet(order') = DOMAIN pending'
  <2>1. \A k \in DOMAIN order' : order'[k] \in DOMAIN pending' BY <1>4, <1>5, <1>7, <1>8, <1>10
  <2>2. \A i \in DOMAIN pending' : \E k \in DOMAIN order' : order'[k] = i
    <3>. TAKE i \in DOMAIN pending'
    <3>1. CASE i \in DOMAIN pending
      <4>1. PICK j \in DOMAIN order : order[j] = i BY <1>7, <3>1
      <4>. QED BY <1>4, <4>1
    <3>2. CASE i \in S
      <4>1. PICK j \in DOMAIN more : more[j] = i BY <1>8, <3>2
      <4>. QED BY <1>9, <4>1
    <3>. QED BY <1>5, <3>1, <3>2
  <2>. QED BY <2>1, <2>2 DEF Alone!ToSet
<1>12. ASSUME NEW j \in DOMAIN order', NEW k \in DOMAIN order', order'[j] = order'[k] PROVE j = k
  <2>1. CASE j \in DOMAIN order /\ k \in DOMAIN order BY <1>4, <1>7, <1>12, <2>1
  <2>2. CASE j \in DOMAIN order /\ k \notin DOMAIN order BY <1>4, <1>7, <1>8, <1>10, <1>12, <2>2
  <2>3. CASE j \notin DOMAIN order /\ k \in DOMAIN order BY <1>4, <1>7, <1>8, <1>10, <1>12, <2>3
  <2>4. CASE j \notin DOMAIN order /\ k \notin DOMAIN order BY <1>8, <1>10, <1>12, <2>4
  <2>. QED BY <2>1, <2>2, <2>3, <2>4
<1>. QED BY <1>4, <1>5, <1>6, <1>11, <1>12 DEF Alone!Coalesced, Alone!IsInjective

\* An empty buffer
LEMMA EmptyBuffer ==
  ASSUME NEW I, order' = <<>>, pending' = Alone!Empty
  PROVE  Alone!Coalesced' /\ order' \in Seq(I) /\ DOMAIN pending' = {}
  BY DEF Alone!Coalesced, Alone!Empty, Alone!ToSet, Alone!IsInjective

LEMMA TypeInit ==
  ASSUME NEW I, NEW V, Limits(I), None \in V, Begins(I)
  PROVE  Typing(I, V) /\ Alone!Coalesced
<1>1. order = <<>> /\ pending = <<>> BY DEF Begins
<1>2. Alone!Coalesced /\ DOMAIN pending = {} BY <1>1 DEF Alone!Coalesced, Alone!ToSet, Alone!IsInjective
<1>3. applied \in [I -> V] /\ last \in [I -> V] BY DEF Begins
<1>4. Len(<<>>) <= Capacity BY DEF Limits
<1>. QED BY <1>1, <1>2, <1>3, <1>4 DEF Begins, Typing

LEMMA TypeNext == ASSUME NEW I, NEW V, Limits(I), Typing(I, V), Alone!Coalesced, Moves(I, V)
  PROVE  Typing(I, V)' /\ Alone!Coalesced'
<1>1. CASE UNCHANGED Alone!vars BY <1>1 DEF Alone!vars, Typing, Alone!Coalesced
<1>2. ASSUME NEW new, Offers(I, V, new), ~UNCHANGED Alone!vars
      PROVE  Typing(I, V)' /\ Alone!Coalesced'
  <2>1. PICK more \in Alone!SetToSeqs(DOMAIN new \ DOMAIN pending) : order' = order \o more
    BY <1>2 DEF Offers, Alone!Enqueue
  <2>2. /\ pending' = Alone!Merged(new, pending) /\ last' = Alone!Merged(new, last) /\ Alone!Wake
        /\ UNCHANGED <<batch, queue, stop, applied>>
    BY <1>2 DEF Offers, Alone!Enqueue
  <2>3. DOMAIN new \subseteq I /\ \A i \in DOMAIN new : new[i] \in V BY <1>2 DEF Offers
  <2>4. /\ order' \in Seq(I) /\ Alone!Coalesced'
        /\ \A i \in DOMAIN pending' : i \in I /\ pending'[i] \in V
    BY <2>1, <2>2, <2>3, Enqueued
  <2>5. last' \in [I -> V] BY <2>2, <2>3 DEF Alone!Merged, Typing
  <2>6. loop' \in {"check", "asleep", "woken", "send", "done"} /\ (loop' = "send" <=> loop = "send")
    BY <2>2, WakeType
  <2>. QED BY <2>2, <2>4, <2>5, <2>6 DEF Typing
<1>3. CASE Alone!Sleep \/ Alone!Woken BY <1>3 DEF Alone!Sleep, Alone!Woken, Typing, Alone!Coalesced
<1>4. CASE Alone!TakeBatch
  <2>1. batch' \in Seq(Updating(I, V)) /\ batch' # <<>>
    <3>1. Alone!Updates \in Seq(Updating(I, V)) /\ DOMAIN Alone!Updates = DOMAIN order BY UpdatesPlaces
    <3>2. order \in Seq(I) /\ order # <<>> BY <1>4 DEF Alone!TakeBatch, Typing
    <3>3. 1 \in DOMAIN order BY <3>2
    <3>4. Alone!Updates # <<>> BY <3>1, <3>3
    <3>. QED BY <1>4, <3>1, <3>4 DEF Alone!TakeBatch
  <2>2. Alone!Coalesced' /\ order' \in Seq(I) /\ DOMAIN pending' = {}
    BY <1>4, EmptyBuffer DEF Alone!TakeBatch
  <2>. QED BY <1>4, <2>1, <2>2 DEF Alone!TakeBatch, Typing
<1>5. CASE Alone!Forward
  <2>1. batch \in Seq(Updating(I, V)) /\ batch # <<>> /\ queue \in Seq(Updating(I, V))
    BY <1>5 DEF Alone!Forward, Typing
  <2>2. /\ Head(batch) \in Updating(I, V) /\ Tail(batch) \in Seq(Updating(I, V)) /\ Len(batch) \in Nat \ {0}
        /\ Len(batch) = 1 <=> Tail(batch) = <<>>
    <3>1. Tail(batch) \in Seq(Updating(I, V)) /\ Len(Tail(batch)) = Len(batch) - 1 /\ Len(batch) \in Nat \ {0}
      BY <2>1
    <3>2. \A t \in Seq(Updating(I, V)) : Len(t) = 0 <=> t = <<>> OBVIOUS
    <3>3. Head(batch) \in Updating(I, V) BY <2>1
    <3>4. Len(Tail(batch)) = 0 <=> Tail(batch) = <<>> BY <3>1, <3>2
    <3>. QED BY <3>1, <3>3, <3>4
  <2>3. queue' \in Seq(Updating(I, V)) /\ Len(queue') = Len(queue) + 1 BY <1>5, <2>1, <2>2 DEF Alone!Forward
  <2>4. Len(queue') <= Capacity BY <1>5, <2>1, <2>3 DEF Alone!Forward, Limits
  <2>. QED BY <1>5, <2>2, <2>3, <2>4 DEF Alone!Forward, Typing, Alone!Coalesced
<1>6. CASE Alone!Abandon BY <1>6 DEF Alone!Abandon, Typing, Alone!Coalesced
<1>7. CASE Alone!Consume
  <2>1. queue \in Seq(Updating(I, V)) /\ queue # <<>> BY <1>7 DEF Alone!Consume, Typing
  <2>2. Head(queue) \in Updating(I, V) /\ Tail(queue) \in Seq(Updating(I, V)) /\ Len(Tail(queue)) = Len(queue) - 1 /\ Len(queue) \in Nat
    BY <2>1
  <2>3. Head(queue).auth \in V BY <2>2, UpdateParts
  <2>4. applied' \in [I -> V] BY <1>7, <2>3 DEF Alone!Consume, Typing
  <2>5. Len(queue') <= Capacity BY <1>7, <2>2 DEF Alone!Consume, Typing, Limits
  <2>. QED BY <1>7, <2>2, <2>4, <2>5 DEF Alone!Consume, Typing, Alone!Coalesced
<1>8. CASE Alone!Cancel \/ Alone!Forget
  BY <1>8 DEF Alone!Cancel, Alone!Forget, Typing, Alone!Coalesced
<1>9. CASE Alone!Clear
  <2>1. Alone!Coalesced' /\ order' \in Seq(I) /\ DOMAIN pending' = {}
    BY <1>9, EmptyBuffer DEF Alone!Clear
  <2>2. loop' \in {"check", "asleep", "woken", "send", "done"} /\ (loop' = "send" <=> loop = "send")
    BY <1>9, WakeType DEF Alone!Clear
  <2>. QED BY <1>9, <2>1, <2>2 DEF Alone!Clear, Typing
<1>10. CASE \E new : Offers(I, V, new) BY <1>1, <1>2, <1>10
<1>. QED
  BY <1>1, <1>3, <1>4, <1>5, <1>6, <1>7, <1>8, <1>9, <1>10 DEF Moves, Alone!Loop, Alone!Stop, Alone!Finish

------------------------------------------------------------------------------
(* No update overtakes or replaces a later one of its ID *)

\* What is on its way, in two parts.
LEMMA FlightParts ==
  ASSUME NEW I, NEW V, Typing(I, V), Alone!Coalesced
  PROVE  Ahead \in Seq(Updating(I, V)) /\ Alone!Updates \in Seq(Updating(I, V)) /\ Alone!InFlight = Ahead \o Alone!Updates /\ Alone!InFlight \in Seq(Updating(I, V))
<1>1. queue \in Seq(Updating(I, V)) /\ batch \in Seq(Updating(I, V)) BY DEF Typing
<1>2. Alone!Updates \in Seq(Updating(I, V)) BY UpdatesPlaces
<1>3. Ahead \in Seq(Updating(I, V)) BY <1>1 DEF Ahead
<1>4. Alone!InFlight = Ahead \o Alone!Updates BY DEF Alone!InFlight, Ahead
<1>. QED BY <1>2, <1>3, <1>4

\* The property, as Agrees states it.
LEMMA LatestIsAgreement == Alone!LatestWins <=> Latest(Files \cup Keys, Alone!Values)
<1>1. Alone!TypeOK <=> Typing(Files \cup Keys, Alone!Values)
  BY DEF Alone!TypeOK, Alone!Update, Typing, Updating
<1>. QED BY <1>1 DEF Alone!LatestWins, Alone!Newest, Latest, Agrees

\* A dispatch
LEMMA EnqueueAgrees ==
  ASSUME NEW I, NEW V, Limits(I), Typing(I, V), Alone!Coalesced, Agrees(I, Alone!InFlight, applied, last),
         NEW new, DOMAIN new \subseteq I, \A i \in DOMAIN new : new[i] \in V,
         Alone!Enqueue(new), ~UNCHANGED Alone!vars
  PROVE  Agrees(I, Alone!InFlight', applied', last')
<1>1. PICK more \in Alone!SetToSeqs(DOMAIN new \ DOMAIN pending) : order' = order \o more
  BY DEF Alone!Enqueue
<1>2. pending' = Alone!Merged(new, pending) /\ last' = Alone!Merged(new, last) /\ UNCHANGED <<batch, queue, applied>>
  BY DEF Alone!Enqueue
<1>3. /\ DOMAIN pending' = DOMAIN new \cup DOMAIN pending
      /\ \A i \in DOMAIN pending' : pending'[i] = IF i \in DOMAIN new THEN new[i] ELSE pending[i]
      /\ \A i \in DOMAIN pending' : i \in I /\ pending'[i] \in V
      /\ order' \in Seq(I) /\ Alone!Coalesced'
      /\ \A j \in DOMAIN order : j \in DOMAIN order' /\ order'[j] = order[j]
  BY <1>1, <1>2, Enqueued
<1>4. PICK u \in Seq(Updating(I, V)) : u = Alone!Updates BY UpdatesPlaces
<1>5. /\ DOMAIN u = DOMAIN order
      /\ \A k \in DOMAIN order : u[k].id = order[k] /\ u[k].auth = pending[order[k]]
  BY <1>4, UpdatesPlaces
<1>6. /\ \A k \in DOMAIN order' : order'[k] \in DOMAIN pending'
      /\ \A i \in DOMAIN pending' : \E k \in DOMAIN order' : order'[k] = i
  BY <1>3 DEF Alone!Coalesced, Alone!ToSet
<1>7. /\ Listed(order', pending') \in Seq(Updating(I, V)) /\ DOMAIN Listed(order', pending') = DOMAIN order'
      /\ \A k \in DOMAIN order' : Listed(order', pending')[k].id = order'[k] /\ Listed(order', pending')[k].auth = pending'[order'[k]]
  BY <1>3, <1>6, ListedPlaces
<1>8. PICK v \in Seq(Updating(I, V)) : v = Alone!Updates' /\ v = Listed(order', pending')
  BY <1>7 DEF Alone!Updates, Listed
<1>9. /\ DOMAIN v = DOMAIN order'
      /\ \A k \in DOMAIN order' : v[k].id = order'[k] /\ v[k].auth = pending'[order'[k]]
  BY <1>7, <1>8
<1>10. PICK p \in Seq(Updating(I, V)) : p = Ahead BY FlightParts
<1>11. Agrees(I, p \o u, applied, last) BY <1>4, <1>10, FlightParts
<1>12. /\ \A j \in DOMAIN order : order[j] \in DOMAIN pending
       /\ \A i \in DOMAIN pending : \E j \in DOMAIN order : order[j] = i
       /\ \A j, k \in DOMAIN order : order[j] = order[k] => j = k
  BY DEF Alone!Coalesced, Alone!ToSet, Alone!IsInjective
<1>13. \A j, k \in DOMAIN u : u[j].id = u[k].id => j = k BY <1>5, <1>12
<1>14. \A j \in DOMAIN u : \E k \in DOMAIN v : v[k].id = u[j].id BY <1>3, <1>5, <1>9
<1>15. \A i \in DOMAIN new : \E k \in DOMAIN v : v[k].id = i
  <2>. TAKE i \in DOMAIN new
  <2>1. PICK k \in DOMAIN order' : order'[k] = i BY <1>3, <1>6
  <2>. QED BY <1>9, <2>1
<1>16. ASSUME NEW k \in DOMAIN v
       PROVE  IF v[k].id \in DOMAIN new THEN v[k].auth = new[v[k].id] ELSE \E j \in DOMAIN u : u[j] = v[k]
  <2>1. v[k].id = order'[k] /\ v[k].auth = pending'[order'[k]] /\ order'[k] \in DOMAIN pending'
    BY <1>6, <1>9
  <2>2. CASE v[k].id \in DOMAIN new BY <1>3, <2>1, <2>2
  <2>3. CASE v[k].id \notin DOMAIN new
    <3>1. v[k].id \in DOMAIN pending /\ v[k].auth = pending[v[k].id] BY <1>3, <2>1, <2>3
    <3>2. PICK j \in DOMAIN order : order[j] = v[k].id BY <1>12, <3>1
    <3>3. u[j].id = v[k].id /\ u[j].auth = v[k].auth /\ j \in DOMAIN u BY <1>5, <3>1, <3>2
    <3>4. u[j] \in Updating(I, V) /\ v[k] \in Updating(I, V) BY <3>3
    <3>5. u[j] = v[k] BY <3>3, <3>4 DEF Updating
    <3>. QED BY <2>3, <3>3, <3>5
  <2>. QED BY <2>2, <2>3
<1>17. DOMAIN last = I BY DEF Typing
<1>18. Agrees(I, p \o v, applied, Alone!Merged(new, last))
  BY <1>11, <1>13, <1>14, <1>15, <1>16, <1>17, AgreesMerged
<1>19. Alone!InFlight' = p \o v
  <2>1. Ahead' = p BY <1>2, <1>10 DEF Ahead
  <2>2. Alone!InFlight' = Ahead' \o Alone!Updates' BY DEF Alone!InFlight, Ahead
  <2>. QED BY <1>8, <2>1, <2>2
<1>. QED BY <1>2, <1>18, <1>19

\* Every step
LEMMA LatestNext == ASSUME NEW I, NEW V, Limits(I), Latest(I, V), Moves(I, V)
  PROVE  Latest(I, V)'
<1>0. Typing(I, V) /\ Alone!Coalesced /\ Typing(I, V)' /\ Alone!Coalesced' BY TypeNext DEF Latest
<1>1. /\ queue \in Seq(Updating(I, V)) /\ batch \in Seq(Updating(I, V)) /\ Alone!Updates \in Seq(Updating(I, V))
      /\ Alone!InFlight = queue \o (batch \o Alone!Updates)
  <2>1. queue \in Seq(Updating(I, V)) /\ batch \in Seq(Updating(I, V)) /\ Alone!Updates \in Seq(Updating(I, V))
    BY <1>0, UpdatesPlaces DEF Typing
  <2>. QED BY <2>1 DEF Alone!InFlight
<1>. SUFFICES ASSUME stop' = "no" PROVE Agrees(I, Alone!InFlight', applied', last')
  BY <1>0 DEF Latest
<1>2. stop = "no"
  BY DEF Moves, Offers, Alone!Enqueue, Alone!Loop, Alone!Sleep, Alone!Woken, Alone!TakeBatch,
     Alone!Forward, Alone!Abandon, Alone!Consume, Alone!Stop, Alone!Finish, Alone!Cancel, Alone!Clear,
     Alone!Forget, Alone!vars
<1>3. Agrees(I, Alone!InFlight, applied, last) BY <1>2 DEF Latest
<1>4. CASE UNCHANGED Alone!vars BY <1>3, <1>4 DEF Alone!vars, Alone!InFlight, Alone!Updates
<1>5. ASSUME NEW new, Offers(I, V, new), ~UNCHANGED Alone!vars
      PROVE  Agrees(I, Alone!InFlight', applied', last')
  <2>1. DOMAIN new \subseteq I /\ (\A i \in DOMAIN new : new[i] \in V) /\ Alone!Enqueue(new)
    BY <1>5 DEF Offers
  <2>. QED BY <1>0, <1>3, <1>5, <2>1, EnqueueAgrees
<1>6. CASE Alone!Sleep \/ Alone!Woken
  BY <1>3, <1>6 DEF Alone!Sleep, Alone!Woken, Alone!InFlight, Alone!Updates
<1>7. CASE Alone!TakeBatch
  <2>1. batch = <<>> BY <1>0, <1>7 DEF Alone!TakeBatch, Typing
  <2>2. Alone!Updates' = <<>> /\ batch' = Alone!Updates /\ queue' = queue
    <3>1. Alone!Updates' = Listed(<<>>, pending') BY <1>7 DEF Alone!TakeBatch, Alone!Updates, Listed
    <3>. QED BY <1>7, <3>1 DEF Alone!TakeBatch, Listed
  <2>3. Alone!InFlight' = queue' \o batch' \o Alone!Updates' BY DEF Alone!InFlight
  <2>4. Alone!InFlight' = Alone!InFlight BY <1>1, <2>1, <2>2, <2>3
  <2>. QED BY <1>3, <1>7, <2>4 DEF Alone!TakeBatch
<1>8. CASE Alone!Forward
  <2>1. batch # <<>> BY <1>0, <1>8 DEF Alone!Forward, Typing
  <2>2. queue' = Append(queue, Head(batch)) /\ batch' = Tail(batch) /\ Alone!Updates' = Alone!Updates
    BY <1>8 DEF Alone!Forward, Alone!Updates
  <2>3. queue' \o batch' = queue \o batch BY <1>1, <2>1, <2>2, Shift
  <2>4. Alone!InFlight' = Alone!InFlight BY <2>2, <2>3 DEF Alone!InFlight
  <2>. QED BY <1>3, <1>8, <2>4 DEF Alone!Forward
<1>9. CASE Alone!Consume
  <2>1. queue # <<>> /\ queue' = Tail(queue) /\ batch' = batch /\ Alone!Updates' = Alone!Updates /\ last' = last
        /\ applied' = [applied EXCEPT ![Head(queue).id] = Head(queue).auth]
    BY <1>9 DEF Alone!Consume, Alone!Updates
  <2>2. Alone!InFlight \in Seq(Updating(I, V)) /\ Alone!InFlight # <<>> /\ Head(Alone!InFlight) = Head(queue)
        /\ Tail(Alone!InFlight) = Tail(queue) \o (batch \o Alone!Updates)
    <3>0. batch \o Alone!Updates \in Seq(Updating(I, V)) BY <1>1, ConcatPlaces
    <3>1. PICK r \in Seq(Updating(I, V)) : r = batch \o Alone!Updates BY <3>0
    <3>2. queue \o r \in Seq(Updating(I, V)) /\ queue \o r # <<>> /\ Head(queue \o r) = Head(queue) /\ Tail(queue \o r) = Tail(queue) \o r
      BY <1>1, <2>1, HeadTailConcat
    <3>. QED BY <1>1, <3>1, <3>2
  <2>3. Alone!InFlight' = Tail(Alone!InFlight)
    <3>1. Tail(queue) \in Seq(Updating(I, V)) BY <1>1, <2>1
    <3>2. Alone!InFlight' = Tail(queue) \o batch \o Alone!Updates BY <2>1 DEF Alone!InFlight
    <3>3. Tail(queue) \o batch \o Alone!Updates = Tail(queue) \o (batch \o Alone!Updates) BY <1>1, <3>1
    <3>. QED BY <2>2, <3>2, <3>3
  <2>4. applied \in [I -> V] BY <1>0 DEF Typing
  <2>. QED BY <1>3, <2>1, <2>2, <2>3, <2>4, AgreesTail
<1>10. CASE Alone!Abandon \/ Alone!Stop
  BY <1>2, <1>10 DEF Alone!Abandon, Alone!Cancelled, Alone!Stop, Alone!Finish, Alone!Cancel, Alone!Clear,
     Alone!Forget
<1>11. CASE \E new : Offers(I, V, new) BY <1>4, <1>5, <1>11
<1>. QED BY <1>4, <1>6, <1>7, <1>8, <1>9, <1>10, <1>11 DEF Moves, Alone!Loop
\* Nothing is on its way at first.
LEMMA LatestInit == ASSUME NEW I, NEW V, Limits(I), None \in V, Begins(I) PROVE Latest(I, V)
<1>1. Typing(I, V) /\ Alone!Coalesced BY TypeInit
<1>2. Alone!InFlight = <<>>
  <2>1. Alone!Updates = Listed(<<>>, pending) BY DEF Begins, Alone!Updates, Listed
  <2>2. Alone!Updates = <<>> BY <2>1 DEF Listed
  <2>. QED BY <2>2 DEF Begins, Alone!InFlight
<1>3. DOMAIN Alone!InFlight = {} BY <1>2
<1>. QED BY <1>1, <1>3 DEF Latest, Agrees, Begins

\* As long as the dispatcher is not stopped, the newest update on its way of an ID, or what
\* the service has of it if none is, is the last one that was dispatched: merging, batches
\* and a full channel neither reorder nor drop any (dispatchAuthUpdates, dispatchLoop and
\* consumeAuthUpdates), whatever any goroutines dispatch.
THEOREM NothingOvertaken == AllSpec => []LatestWins
<1>0. Limits(Files \cup Keys) /\ None \in Alone!Values
  BY AloneConstants DEF Alone!DispatchAssumption, Alone!IsFiniteSet, IsFiniteSet, Limits, Alone!Values
<1>1. AllInit => LatestWins
  <2>. SUFFICES ASSUME AllInit, subject = "dispatcher" PROVE Alone!LatestWins BY DEF LatestWins
  <2>1. Begins(Files \cup Keys) BY DEF AllInit, Alone!Init, Alone!Empty, Begins
  <2>. QED BY <1>0, <2>1, LatestInit, LatestIsAgreement
<1>2. LatestWins /\ [AllNext]_<<subject, vars, lifecycleVars>> => LatestWins'
  <2>0. Alone!LatestWins' <=> Latest(Files \cup Keys, Alone!Values)' BY LatestIsAgreement, PTL
  <2>. SUFFICES ASSUME LatestWins, [AllNext]_<<subject, vars, lifecycleVars>>, subject' = "dispatcher"
                PROVE  Latest(Files \cup Keys, Alone!Values)'
    BY <2>0 DEF LatestWins
  <2>1. subject = "dispatcher" BY DEF AllNext
  <2>2. Latest(Files \cup Keys, Alone!Values) BY <2>1, LatestIsAgreement DEF LatestWins
  <2>3. [Alone!Next]_(Alone!vars) BY <2>1 DEF AllNext, vars, dispatchVars, Alone!vars
  <2>4. Moves(Files \cup Keys, Alone!Values)
    <3>1. ASSUME NEW changed \in SUBSET (Files \cup Keys), NEW new \in [changed -> Alone!Values], Alone!Enqueue(new)
          PROVE  Offers(Files \cup Keys, Alone!Values, new)
      BY <3>1 DEF Offers
    <3>. QED BY <2>3, <3>1 DEF Alone!Next, Alone!Dispatch, Moves
  <2>. QED BY <1>0, <2>2, <2>4, LatestNext
<1>. QED BY <1>1, <1>2, PTL DEF AllSpec

------------------------------------------------------------------------------
(* The watcher: where everybody is *)

\* The user does not edit files while a reload is under way, nor remove one within a second of
\* its last removal.
Orderly == ~Overlap /\ ~Hurried

Event == [file : Files, op : {"write", "remove"}]

\* Where a goroutine can stand, and whose IDs it can have in hand.
Stations ==
  /\ disk \in [Files -> Contents \cup {None, Blank}] /\ setting \in Configs
  /\ events \in Seq(Event) /\ edits \in 0..MaxEdits
  /\ config \in Configs /\ configHash \in Configs \cup {None}
  /\ hash \in [Files -> Contents \cup {None}]
  /\ current \in [IDs -> Dispatcher!Values] /\ runtime \in [Runtimes -> Dispatcher!Values]
  /\ recent \subseteq Files /\ timer \in BOOLEAN
  /\ DOMAIN at = Workers /\ DOMAIN seen = Workers /\ DOMAIN out = Workers
  /\ at[Handler] \in {"idle", "stat", "read", "update", "drop", "dispatch"}
  /\ \A i \in Runtimes : at[i] \in {"idle", "dispatch"}
  /\ \A r \in Reloaders :
       at[r] \in {"idle", "rescan", "load", "set", "filter", "snapshot", "diff", "dispatch", "rehash"}
  /\ \A p \in Workers : at[p] # "dispatch" => out[p] = Empty
  /\ \A r \in Reloaders : DOMAIN out[r] \subseteq IDs
  /\ \A i \in Runtimes : DOMAIN out[i] \subseteq {i}
  /\ DOMAIN out[Handler] \subseteq Files
  /\ at[Handler] \in {"stat", "read", "update", "drop"} => seen[Handler].file \in Files
  /\ at[Handler] = "update" => seen[Handler].content \in Contents

\* One reload at a time, and no event and no empty file meanwhile.
Phases ==
  /\ Reloading => ~Handling /\ ~Writing
  /\ \A r, s \in Reloaders : at[r] # "idle" /\ at[s] # "idle" => r = s
  /\ timer => \A r \in Reloaders : at[r] = "idle"

\* Somebody reloads, and stands at one of some places.
Reloads(places) == \E r \in Reloaders : at[r] \in places

\* What a reload has in hand.
TaskOf(r) ==
  /\ at[r] = "set" => seen[r] = setting
  /\ at[r] \in {"rescan", "filter", "snapshot"} =>
       seen[r] \in [force : BOOLEAN, reload : BOOLEAN, auths : {Empty}]
  /\ at[r] = "diff" => seen[r].auths = Snapshot(config)
  /\ at[r] \in {"rescan", "filter", "snapshot", "diff", "dispatch"} /\ ~seen[r].reload =>
       configHash \in {None, config}

Tasks == \A r \in Reloaders : TaskOf(r)

\* The configuration in use is that of the file, or will be; and so is the hash.
Configured ==
  /\ config = setting \/ timer \/ Reloads({"load", "set"})
  /\ configHash \in {None, config} \/ Reloads({"filter", "snapshot", "diff", "dispatch", "rehash"})

\* Events: the last one of a file, if it is a write, finds the file, and no removal is ignored.
In(s, f) == \E k \in DOMAIN s : s[k].file = f

Sound(s, d, gone) ==
  /\ \A k \in DOMAIN s :
       /\ s[k].op = "write"
       /\ \A j \in DOMAIN s : j > k => s[j].file # s[k].file
       => d[s[k].file] # None
  /\ \A k \in DOMAIN s : s[k].op = "remove" =>
       s[k].file \notin gone /\ \A j \in DOMAIN s : s[j] = s[k] => j = k

\* What the handler is about to do is right, or an event will correct it.
Handled ==
  LET f == seen[Handler].file IN
  /\ at[Handler] = "update" => seen[Handler].content = disk[f] \/ In(events, f)
  /\ at[Handler] = "drop" => disk[f] = None \/ In(events, f)

\* The watcher knows what is in a file, or will.
Attended(f) ==
  /\ at[Handler] \in {"stat", "update", "drop"} \/ (at[Handler] = "read" /\ disk[f] # None)
  /\ seen[Handler].file = f

KnownOf(f) == disk[f] = Blank \/ hash[f] = disk[f] \/ In(events, f) \/ Attended(f)

Known == Reloads({"rescan"}) \/ \A f \in Files : KnownOf(f)

\* The shadow copy is what the hashes, the configuration and the runtime auths make.
Shadow ==
  [i \in IDs |-> IF i \in Runtimes THEN runtime[i]
                 ELSE IF i \in Keys THEN ConfigAuth(config)
                 ELSE IF hash[i] = None THEN None ELSE FileAuth(i, hash[i], config)]

Shadowed ==
  /\ current = Shadow \/ Reloads({"rescan", "filter", "snapshot", "diff"})
  /\ \A f \in Files : hash[f] = None => current[f] = None
  /\ Reloads({"rescan"}) => \A f \in Files : hash[f] = None

\* The last update of an ID is what the shadow copy has of it, or somebody has that in hand, or
\* a reload has forgotten the auth to find it new.
Filtered(i) == i \in Files /\ current[i] = None /\ hash[i] # None /\ Reloads({"snapshot", "diff"})

SentOf(i) ==
  /\ \A p \in Workers : i \in DOMAIN out[p] => out[p][i] = current[i]
  /\ (\A p \in Workers : i \notin DOMAIN out[p]) => last[i] = current[i] \/ Filtered(i)

Sent == \A i \in IDs : SentOf(i)

\* The inductive invariant: the watcher's part, and with the dispatcher's.
SInv ==
  /\ Stations /\ Phases /\ Tasks /\ Configured /\ Sound(events, disk, recent) /\ Handled /\ Known
  /\ Shadowed /\ Sent /\ stop = "no"

\* A step moves one goroutine.
Located == at = [p \in Workers |-> at[p]]

WInv == SInv /\ Located /\ Latest(IDs, Dispatcher!Values)

\* Who is who, and what is an auth.
LEMMA Kinds ==
  /\ Handler \in Workers /\ Handler \notin Reloaders /\ Handler \notin Runtimes
  /\ \A i \in Runtimes : i \in Workers /\ i \notin Reloaders /\ i # Handler /\ i \in IDs
  /\ \A r \in Reloaders : r \in Workers /\ r # Handler
  /\ \A f \in Files : f \in IDs /\ f \notin Keys /\ f \notin Runtimes
  /\ \A k \in Keys : k \in IDs /\ k \notin Files /\ k \notin Runtimes
  /\ \A p \in Workers : p \in Reloaders \/ p \in Runtimes \/ p = Handler
BY WatcherAssumption DEF Workers, Handler, IDs

LEMMA Made ==
  /\ \A f \in Files, content \in Contents, c \in Configs :
       FileAuth(f, content, c) \in Dispatcher!Values /\ FileAuth(f, content, c) # None
  /\ \A c \in Configs : ConfigAuth(c) \in Dispatcher!Values
  /\ None \in Dispatcher!Values /\ None \notin Contents /\ Blank \notin Contents /\ None # Blank /\ None \notin Configs
<1>1. None \notin Auths BY DispatcherConstants DEF Dispatcher!DispatchAssumption
<1>2. \A content \in Contents, c \in Configs : [from |-> content, excluded |-> c.excluded] \in Auths
  BY WatcherAssumption DEF Auths
<1>3. \A c \in Configs : [from |-> c, excluded |-> FALSE] \in Auths BY DEF Auths
<1>. QED BY <1>1, <1>2, <1>3, WatcherAssumption DEF FileAuth, ConfigAuth, Dispatcher!Values

------------------------------------------------------------------------------
(* Events *)

LEMMA EventParts == ASSUME NEW x \in Event PROVE x.file \in Files /\ x.op \in {"write", "remove"}
BY DEF Event

\* An event more, of a file that is written to or removed: the disk was d and is e.
Adds(x, s, d, e, gone) ==
  /\ \A g \in Files : g # x.file => e[g] = d[g]
  /\ x.op = "write" => e[x.file] # None
  /\ x.op = "remove" => x.file \notin gone /\ \A k \in DOMAIN s : s[k] # x

LEMMA SoundAppend ==
  ASSUME NEW s \in Seq(Event), NEW d, NEW e, NEW gone, Sound(s, d, gone), NEW x \in Event,
         Adds(x, s, d, e, gone)
  PROVE  /\ Append(s, x) \in Seq(Event) /\ Sound(Append(s, x), e, gone)
         /\ \A f : In(Append(s, x), f) <=> In(s, f) \/ x.file = f
<1>. DEFINE t == Append(s, x)
<1>0. /\ \A g \in Files : g # x.file => e[g] = d[g]
      /\ x.op = "write" => e[x.file] # None
      /\ x.op = "remove" => x.file \notin gone /\ \A k \in DOMAIN s : s[k] # x
  BY DEF Adds
<1>1. /\ t \in Seq(Event) /\ Len(s) \in Nat /\ DOMAIN s = 1..Len(s) /\ DOMAIN t = 1..(Len(s) + 1)
      /\ t[Len(s) + 1] = x /\ \A k \in DOMAIN s : t[k] = s[k]
  OBVIOUS
<1>2. /\ \A k \in DOMAIN t : k \in DOMAIN s \/ k = Len(s) + 1
      /\ \A k \in DOMAIN s : k \in DOMAIN t /\ Len(s) + 1 > k
      /\ Len(s) + 1 \in DOMAIN t
  BY <1>1
<1>3. \A k \in DOMAIN s : s[k].file \in Files BY EventParts
<1>. HIDE DEF t
<1>4. ASSUME NEW k \in DOMAIN t, t[k].op = "write", \A j \in DOMAIN t : j > k => t[j].file # t[k].file
      PROVE  e[t[k].file] # None
  <2>1. CASE k = Len(s) + 1 BY <1>0, <1>1, <1>4, <2>1
  <2>2. CASE k \in DOMAIN s
    <3>1. t[k] = s[k] /\ x.file # s[k].file BY <1>1, <1>2, <1>4, <2>2
    <3>2. \A j \in DOMAIN s : j > k => s[j].file # s[k].file BY <1>1, <1>2, <1>4, <2>2
    <3>3. d[s[k].file] # None BY <1>4, <2>2, <3>1, <3>2 DEF Sound
    <3>. QED BY <1>0, <1>3, <2>2, <3>1, <3>3
  <2>. QED BY <1>2, <2>1, <2>2
<1>5. ASSUME NEW k \in DOMAIN t, t[k].op = "remove"
      PROVE  t[k].file \notin gone /\ \A j \in DOMAIN t : t[j] = t[k] => j = k
  <2>1. CASE k = Len(s) + 1
    <3>1. x.op = "remove" /\ t[k] = x BY <1>1, <1>5, <2>1
    <3>2. \A j \in DOMAIN s : t[j] # x BY <1>0, <1>1, <3>1
    <3>. QED BY <1>0, <1>2, <2>1, <3>1, <3>2
  <2>2. CASE k \in DOMAIN s
    <3>1. t[k] = s[k] /\ s[k].op = "remove" BY <1>1, <1>5, <2>2
    <3>2. s[k].file \notin gone /\ \A j \in DOMAIN s : s[j] = s[k] => j = k BY <2>2, <3>1 DEF Sound
    <3>3. x # s[k] BY <1>0, <2>2, <3>1
    <3>. QED BY <1>1, <1>2, <2>2, <3>1, <3>2, <3>3
  <2>. QED BY <1>2, <2>1, <2>2
<1>6. Sound(t, e, gone) BY <1>4, <1>5 DEF Sound
<1>7. ASSUME NEW f PROVE In(t, f) <=> In(s, f) \/ x.file = f
  <2>1. ASSUME NEW k \in DOMAIN t, t[k].file = f PROVE In(s, f) \/ x.file = f BY <1>1, <1>2, <2>1 DEF In
  <2>2. ASSUME NEW k \in DOMAIN s, s[k].file = f PROVE In(t, f) BY <1>1, <1>2, <2>2 DEF In
  <2>3. ASSUME x.file = f PROVE In(t, f) BY <1>1, <1>2, <2>3 DEF In
  <2>. QED BY <2>1, <2>2, <2>3 DEF In
<1>. QED BY <1>1, <1>6, <1>7 DEF t

\* An event less.
LEMMA SoundTail ==
  ASSUME NEW s \in Seq(Event), NEW d, NEW gone, Sound(s, d, gone), s # <<>>
  PROVE  /\ Head(s) \in Event /\ Tail(s) \in Seq(Event) /\ Sound(Tail(s), d, gone)
         /\ \A f : In(s, f) => In(Tail(s), f) \/ Head(s).file = f
         /\ Head(s).op = "write" => d[Head(s).file] # None \/ In(Tail(s), Head(s).file)
         /\ Head(s).op = "remove" =>
              Head(s).file \notin gone /\ Sound(Tail(s), d, gone \cup {Head(s).file})
<1>. DEFINE t == Tail(s)
<1>1. /\ t \in Seq(Event) /\ Len(s) \in Nat \ {0} /\ DOMAIN s = 1..Len(s) /\ DOMAIN t = 1..(Len(s) - 1)
      /\ Head(s) = s[1] /\ \A k \in DOMAIN t : t[k] = s[k + 1]
  OBVIOUS
<1>2. /\ \A k \in DOMAIN t : k \in Nat /\ k + 1 \in DOMAIN s /\ k + 1 # 1
      /\ \A k \in DOMAIN s : k \in Nat /\ (k = 1 \/ (k - 1 \in DOMAIN t /\ t[k - 1] = s[k] /\ k > 1))
      /\ 1 \in DOMAIN s
  BY <1>1
<1>3. s[1] \in Event /\ \A k \in DOMAIN s : s[k] \in Event BY <1>1
<1>. HIDE DEF t
<1>4. ASSUME NEW k \in DOMAIN t, t[k].op = "write", \A j \in DOMAIN t : j > k => t[j].file # t[k].file
      PROVE  d[t[k].file] # None
  <2>1. t[k] = s[k + 1] /\ k + 1 \in DOMAIN s BY <1>1, <1>2
  <2>2. ASSUME NEW j \in DOMAIN s, j > k + 1 PROVE s[j].file # s[k + 1].file
    <3>1. j - 1 \in DOMAIN t /\ t[j - 1] = s[j] /\ j - 1 > k BY <1>2, <2>2
    <3>. QED BY <1>4, <2>1, <3>1
  <2>. QED BY <1>4, <2>1, <2>2 DEF Sound
<1>5. ASSUME NEW k \in DOMAIN t, t[k].op = "remove"
      PROVE  t[k].file \notin gone /\ (\A j \in DOMAIN t : t[j] = t[k] => j = k) /\ t[k] # s[1]
  <2>1. t[k] = s[k + 1] /\ k + 1 \in DOMAIN s /\ s[k + 1].op = "remove" BY <1>1, <1>2, <1>5
  <2>2. t[k].file \notin gone BY <2>1 DEF Sound
  <2>3. \A j \in DOMAIN s : s[j] = s[k + 1] => j = k + 1 BY <2>1 DEF Sound
  <2>4. \A j \in DOMAIN t : t[j] = t[k] => j = k
    <3>. TAKE j \in DOMAIN t
    <3>. HAVE t[j] = t[k]
    <3>1. j + 1 \in DOMAIN s /\ s[j + 1] = s[k + 1] BY <1>1, <1>2, <2>1
    <3>2. j + 1 = k + 1 BY <2>3, <3>1
    <3>. QED BY <1>2, <3>2
  <2>5. t[k] # s[1]
    <3>1. s[1] = s[k + 1] => 1 = k + 1 BY <1>2, <2>3
    <3>. QED BY <1>2, <2>1, <3>1
  <2>. QED BY <2>2, <2>4, <2>5
<1>6. Sound(t, d, gone) BY <1>4, <1>5 DEF Sound
<1>7. ASSUME NEW f, In(s, f) PROVE In(t, f) \/ s[1].file = f
  <2>1. PICK k \in DOMAIN s : s[k].file = f BY <1>7 DEF In
  <2>. QED BY <1>2, <2>1 DEF In
<1>8. ASSUME s[1].op = "write", ~In(t, s[1].file) PROVE d[s[1].file] # None
  <2>0. \A j \in DOMAIN t : t[j].file # s[1].file BY <1>8 DEF In
  <2>1. ASSUME NEW j \in DOMAIN s, j > 1 PROVE s[j].file # s[1].file
    <3>1. j - 1 \in DOMAIN t /\ t[j - 1] = s[j] BY <1>2, <2>1
    <3>. QED BY <2>0, <3>1
  <2>. QED BY <1>2, <1>8, <2>1 DEF Sound
<1>9. ASSUME s[1].op = "remove" PROVE s[1].file \notin gone /\ Sound(t, d, gone \cup {s[1].file})
  <2>1. s[1].file \notin gone BY <1>2, <1>9 DEF Sound
  <2>2. ASSUME NEW k \in DOMAIN t, t[k].op = "remove" PROVE t[k].file # s[1].file
    <3>1. t[k] \in Event /\ t[k] # s[1] BY <1>1, <1>2, <1>3, <1>5, <2>2
    <3>. QED BY <1>3, <1>9, <2>2, <3>1 DEF Event
  <2>3. \A k \in DOMAIN t : t[k].op = "remove" => t[k].file \notin gone \cup {s[1].file} /\ \A j \in DOMAIN t : t[j] = t[k] => j = k
    BY <1>5, <2>2
  <2>. QED BY <1>4, <2>1, <2>3 DEF Sound
<1>. QED BY <1>1, <1>3, <1>6, <1>7, <1>8, <1>9 DEF t

\* Less that was removed lately.
LEMMA SoundLater ==
  ASSUME NEW s, NEW d, NEW gone, NEW rest \in SUBSET gone, Sound(s, d, gone)
  PROVE  Sound(s, d, rest)
BY DEF Sound

------------------------------------------------------------------------------
(* When a reload is under way, and when none is *)

\* Nobody else does anything while a reload is under way, or is due.
LEMMA Resting ==
  ASSUME Stations, Phases, NEW r \in Reloaders, at[r] # "idle"
  PROVE  /\ ~timer /\ events = <<>> /\ \A f \in Files : disk[f] # Blank
         /\ \A p \in Workers : p # r => at[p] = "idle" /\ out[p] = Empty
<1>1. Reloading BY DEF Reloading
<1>2. ~Handling /\ ~Writing BY <1>1 DEF Phases
<1>3. \A p \in Workers \ Reloaders : at[p] = "idle" BY <1>2 DEF Handling
<1>4. \A s \in Reloaders : s # r => at[s] = "idle" BY DEF Phases
<1>5. \A p \in Workers : at[p] = "idle" => out[p] = Empty BY DEF Stations
<1>6. ~timer BY DEF Phases
<1>. QED BY <1>2, <1>3, <1>4, <1>5, <1>6 DEF Handling, Writing

LEMMA Waiting ==
  ASSUME Stations, Phases, timer
  PROVE  /\ events = <<>> /\ \A f \in Files : disk[f] # Blank
         /\ \A p \in Workers : at[p] = "idle" /\ out[p] = Empty
<1>1. Reloading BY DEF Reloading
<1>2. ~Handling /\ ~Writing BY <1>1 DEF Phases
<1>3. \A p \in Workers : at[p] = "idle" BY <1>2, Kinds DEF Handling, Phases
<1>4. \A p \in Workers : at[p] = "idle" => out[p] = Empty BY DEF Stations
<1>. QED BY <1>2, <1>3, <1>4 DEF Handling, Writing

\* What holds between reloads.
LEMMA Between ==
  ASSUME SInv, ~Reloading
  PROVE  /\ ~timer /\ \A r \in Reloaders : at[r] = "idle" /\ out[r] = Empty
         /\ config = setting /\ configHash \in {None, config}
         /\ current = Shadow /\ \A f \in Files : KnownOf(f)
         /\ \A i \in IDs : ~Filtered(i)
<1>1. ~timer /\ \A r \in Reloaders : at[r] = "idle" BY DEF SInv, Stations, Reloading
<1>2. \A p \in Workers : at[p] = "idle" => out[p] = Empty BY DEF SInv, Stations
<1>3. \A r \in Reloaders : out[r] = Empty BY <1>1, <1>2, Kinds
<1>4. config = setting /\ configHash \in {None, config} BY <1>1 DEF SInv, Configured, Reloads
<1>5. current = Shadow BY <1>1 DEF SInv, Shadowed, Reloads
<1>6. \A f \in Files : KnownOf(f) BY <1>1 DEF SInv, Known, Reloads
<1>7. \A i \in IDs : ~Filtered(i) BY <1>1 DEF Filtered, Reloads
<1>. QED BY <1>1, <1>3, <1>4, <1>5, <1>6, <1>7

\* Handler and runtime providers are at work only then.
LEMMA AtWork ==
  ASSUME SInv, (\E p \in Workers \ Reloaders : at[p] # "idle") \/ events # <<>>
  PROVE  ~Reloading
BY DEF SInv, Phases, Handling

\* A step of the user, of the handler or of a runtime provider between reloads.
LEMMA WorkFrame ==
  ASSUME SInv, ~Reloading, UNCHANGED <<setting, config, configHash, timer>>,
         \A r \in Reloaders : at'[r] = at[r]
  PROVE  Phases' /\ Tasks' /\ Configured'
<1>1. ~timer' /\ \A r \in Reloaders : at'[r] = "idle" BY Between
<1>2. Phases' BY <1>1 DEF Phases, Reloading
<1>3. Tasks'
  <2>. SUFFICES ASSUME NEW r \in Reloaders PROVE TaskOf(r)' BY DEF Tasks
  <2>. QED BY <1>1 DEF TaskOf
<1>4. Configured' BY Between DEF Configured
<1>. QED BY <1>2, <1>3, <1>4

\* A step of a reload.
LEMMA ReloadFrame ==
  ASSUME SInv, NEW r \in Reloaders, NEW place, timer \/ at[r] # "idle",
         UNCHANGED <<events, disk, recent, edits>>, Goto(r, place), ~timer'
  PROVE  /\ Phases' /\ Sound(events', disk', recent') /\ Handled'
         /\ events' = <<>> /\ \A f \in Files : disk'[f] # Blank
         /\ \A p \in Workers : p # r => at'[p] = "idle" /\ out[p] = Empty
         /\ at'[r] = place /\ at[Handler] = "idle" /\ DOMAIN at' = Workers
<1>1. /\ events = <<>> /\ \A f \in Files : disk[f] # Blank
      /\ \A p \in Workers : p # r => at[p] = "idle" /\ out[p] = Empty
  BY Resting, Waiting DEF SInv
<1>2. /\ \A p \in Workers : p # r => at'[p] = "idle"
      /\ at'[r] = place /\ at[Handler] = "idle" /\ at'[Handler] = "idle" /\ DOMAIN at' = Workers
  BY <1>1, Kinds DEF Goto, SInv, Stations
<1>3. Phases'
  <2>1. ~Handling' BY <1>1, <1>2 DEF Handling
  <2>2. ~Writing' BY <1>1 DEF Writing
  <2>3. \A p, s \in Reloaders : at'[p] # "idle" /\ at'[s] # "idle" => p = s BY <1>2, Kinds
  <2>. QED BY <2>1, <2>2, <2>3 DEF Phases
<1>4. Sound(events', disk', recent') BY <1>1 DEF Sound
<1>5. Handled' BY <1>2 DEF Handled
<1>. QED BY <1>1, <1>2, <1>3, <1>4, <1>5

\* What a reload does not touch.
LEMMA SnapshotSame == ASSUME UNCHANGED <<disk, config>> PROVE Snapshot(config)' = Snapshot(config)
BY DEF Snapshot, FileAuth

LEMMA ShadowSame == ASSUME UNCHANGED <<config, hash, runtime>> PROVE Shadow' = Shadow
BY DEF Shadow, FileAuth, ConfigAuth

------------------------------------------------------------------------------
(* The user's edits *)

LEMMA WatchWriteFile ==
  ASSUME SInv, Orderly, NEW f \in Files, NEW content \in Contents \cup {Blank}, WriteFile(f, content)
  PROVE  SInv'
<1>0. ~Reloading BY DEF Orderly, WriteFile
<1>. DEFINE x == [file |-> f, op |-> "write"]
<1>1. x \in Event /\ x.file = f /\ x.op = "write" BY DEF Event
<1>2. /\ disk' = [disk EXCEPT ![f] = content] /\ events' = Append(events, x) /\ edits' = edits + 1 /\ edits < MaxEdits
      /\ UNCHANGED <<setting, config, configHash, hash, current, runtime, recent, timer, at, seen, out, last, stop>>
  BY DEF WriteFile, Edit, watcherVars, workVars, dispatchVars
<1>3. /\ content # None /\ disk' \in [Files -> Contents \cup {None, Blank}] /\ disk'[f] = content
      /\ \A g \in Files : g # f => disk'[g] = disk[g]
  BY <1>2, Made DEF SInv, Stations
<1>. HIDE DEF x
<1>4. /\ events' \in Seq(Event) /\ Sound(events', disk', recent')
      /\ \A g : In(events', g) <=> In(events, g) \/ f = g
  <2>1. Adds(x, events, disk, disk', recent) BY <1>1, <1>2, <1>3 DEF Adds
  <2>2. events \in Seq(Event) /\ Sound(events, disk, recent) BY DEF SInv, Stations
  <2>. QED BY <1>1, <1>2, <2>1, <2>2, SoundAppend
<1>5. Stations'
  <2>1. edits' \in 0..MaxEdits BY <1>2, WatcherAssumption DEF SInv, Stations
  <2>. QED BY <1>2, <1>3, <1>4, <2>1 DEF SInv, Stations
<1>6. Phases' /\ Tasks' /\ Configured' BY <1>0, <1>2, WorkFrame
<1>7. Handled' BY <1>2, <1>3, <1>4 DEF SInv, Stations, Handled
<1>8. Known'
  <2>. SUFFICES ASSUME NEW g \in Files PROVE KnownOf(g)' BY DEF Known
  <2>1. CASE g = f BY <1>4, <2>1 DEF KnownOf
  <2>2. CASE g # f BY <1>0, <1>2, <1>3, <1>4, <2>2, Between DEF KnownOf, Attended
  <2>. QED BY <2>1, <2>2
<1>9. Shadowed' /\ Sent' BY <1>2, ShadowSame DEF SInv, Shadowed, Sent, SentOf, Filtered, Reloads
<1>. QED BY <1>2, <1>4, <1>5, <1>6, <1>7, <1>8, <1>9 DEF SInv

LEMMA WatchRemoveFile ==
  ASSUME SInv, Orderly, NEW f \in Files, RemoveFile(f)
  PROVE  SInv'
<1>0. ~Reloading BY DEF Orderly, RemoveFile
<1>. DEFINE x == [file |-> f, op |-> "remove"]
<1>1. x \in Event /\ x.file = f /\ x.op = "remove" BY DEF Event
<1>2. /\ disk' = [disk EXCEPT ![f] = None] /\ events' = Append(events, x) /\ edits' = edits + 1 /\ edits < MaxEdits
      /\ UNCHANGED <<setting, config, configHash, hash, current, runtime, recent, timer, at, seen, out, last, stop>>
      /\ f \notin recent /\ \A k \in DOMAIN events : events[k] # x
  BY DEF RemoveFile, Edit, Unhurried, Orderly, watcherVars, workVars, dispatchVars
<1>3. /\ disk' \in [Files -> Contents \cup {None, Blank}] /\ disk'[f] = None
      /\ \A g \in Files : g # f => disk'[g] = disk[g]
  BY <1>2 DEF SInv, Stations
<1>. HIDE DEF x
<1>4. /\ events' \in Seq(Event) /\ Sound(events', disk', recent')
      /\ \A g : In(events', g) <=> In(events, g) \/ f = g
  <2>1. Adds(x, events, disk, disk', recent) BY <1>1, <1>2, <1>3 DEF Adds
  <2>2. events \in Seq(Event) /\ Sound(events, disk, recent) BY DEF SInv, Stations
  <2>. QED BY <1>1, <1>2, <2>1, <2>2, SoundAppend
<1>5. Stations'
  <2>1. edits' \in 0..MaxEdits BY <1>2, WatcherAssumption DEF SInv, Stations
  <2>. QED BY <1>2, <1>3, <1>4, <2>1 DEF SInv, Stations
<1>6. Phases' /\ Tasks' /\ Configured' BY <1>0, <1>2, WorkFrame
<1>7. Handled' BY <1>2, <1>3, <1>4 DEF SInv, Stations, Handled
<1>8. Known'
  <2>. SUFFICES ASSUME NEW g \in Files PROVE KnownOf(g)' BY DEF Known
  <2>1. CASE g = f BY <1>4, <2>1 DEF KnownOf
  <2>2. CASE g # f BY <1>0, <1>2, <1>3, <1>4, <2>2, Between DEF KnownOf, Attended
  <2>. QED BY <2>1, <2>2
<1>9. Shadowed' /\ Sent' BY <1>2, ShadowSame DEF SInv, Shadowed, Sent, SentOf, Filtered, Reloads
<1>. QED BY <1>2, <1>4, <1>5, <1>6, <1>7, <1>8, <1>9 DEF SInv

LEMMA WatchReplaceFile ==
  ASSUME SInv, Orderly, NEW f \in Files, NEW content \in Contents, ReplaceFile(f, content)
  PROVE  SInv'
<1>0. ~Reloading BY DEF Orderly, ReplaceFile
<1>. DEFINE x == [file |-> f, op |-> "remove"]
            y == [file |-> f, op |-> "write"]
<1>1. x \in Event /\ x.file = f /\ x.op = "remove" /\ y \in Event /\ y.file = f /\ y.op = "write"
  BY DEF Event
<1>2. /\ disk' = [disk EXCEPT ![f] = content] /\ events' = events \o <<x, y>> /\ edits' = edits + 1 /\ edits < MaxEdits
      /\ UNCHANGED <<setting, config, configHash, hash, current, runtime, recent, timer, at, seen, out, last, stop>>
      /\ f \notin recent /\ \A k \in DOMAIN events : events[k] # x
  BY DEF ReplaceFile, Edit, Unhurried, Orderly, watcherVars, workVars, dispatchVars
<1>3. /\ content # None /\ disk' \in [Files -> Contents \cup {None, Blank}] /\ disk'[f] = content
      /\ \A g \in Files : g # f => disk'[g] = disk[g]
  BY <1>2, Made DEF SInv, Stations
<1>. HIDE DEF x, y
<1>a. /\ Append(events, x) \in Seq(Event) /\ Sound(Append(events, x), disk, recent)
      /\ \A g : In(Append(events, x), g) <=> In(events, g) \/ f = g
  <2>1. Adds(x, events, disk, disk, recent) BY <1>1, <1>2 DEF Adds
  <2>2. events \in Seq(Event) /\ Sound(events, disk, recent) BY DEF SInv, Stations
  <2>. QED BY <1>1, <2>1, <2>2, SoundAppend
<1>b. /\ Append(Append(events, x), y) \in Seq(Event) /\ Sound(Append(Append(events, x), y), disk', recent)
      /\ \A g : In(Append(Append(events, x), y), g) <=> In(Append(events, x), g) \/ f = g
  <2>1. Adds(y, Append(events, x), disk, disk', recent) BY <1>1, <1>3 DEF Adds
  <2>2. PICK t \in Seq(Event) : t = Append(events, x) BY <1>a
  <2>3. Sound(t, disk, recent) /\ Adds(y, t, disk, disk', recent) BY <1>a, <2>1, <2>2
  <2>4. /\ Append(t, y) \in Seq(Event) /\ Sound(Append(t, y), disk', recent)
        /\ \A g : In(Append(t, y), g) <=> In(t, g) \/ y.file = g
    BY <1>1, <2>3, SoundAppend
  <2>. QED BY <1>1, <2>2, <2>4
<1>c. events' = Append(Append(events, x), y) BY <1>1, <1>2 DEF SInv, Stations
<1>4. /\ events' \in Seq(Event) /\ Sound(events', disk', recent')
      /\ \A g : In(events', g) <=> In(events, g) \/ f = g
  BY <1>2, <1>a, <1>b, <1>c
<1>5. Stations'
  <2>1. edits' \in 0..MaxEdits BY <1>2, WatcherAssumption DEF SInv, Stations
  <2>. QED BY <1>2, <1>3, <1>4, <2>1 DEF SInv, Stations
<1>6. Phases' /\ Tasks' /\ Configured' BY <1>0, <1>2, WorkFrame
<1>7. Handled' BY <1>2, <1>3, <1>4 DEF SInv, Stations, Handled
<1>8. Known'
  <2>. SUFFICES ASSUME NEW g \in Files PROVE KnownOf(g)' BY DEF Known
  <2>1. CASE g = f BY <1>4, <2>1 DEF KnownOf
  <2>2. CASE g # f BY <1>0, <1>2, <1>3, <1>4, <2>2, Between DEF KnownOf, Attended
  <2>. QED BY <2>1, <2>2
<1>9. Shadowed' /\ Sent' BY <1>2, ShadowSame DEF SInv, Shadowed, Sent, SentOf, Filtered, Reloads
<1>. QED BY <1>2, <1>4, <1>5, <1>6, <1>7, <1>8, <1>9 DEF SInv

LEMMA WatchWriteConfig ==
  ASSUME SInv, Orderly, NEW c \in Configs, WriteConfig(c)
  PROVE  SInv'
<1>0. ~(Reloading \/ Handling \/ Writing) BY DEF Orderly, WriteConfig
<1>1. /\ setting' = c /\ timer' = TRUE /\ edits' = edits + 1 /\ edits < MaxEdits
      /\ UNCHANGED <<disk, events, config, configHash, hash, current, runtime, recent, at, seen, out, last, stop>>
  BY DEF WriteConfig, Edit, workVars, dispatchVars
<1>2. Stations'
  <2>1. edits' \in 0..MaxEdits BY <1>1, WatcherAssumption DEF SInv, Stations
  <2>. QED BY <1>1, <2>1 DEF SInv, Stations
<1>3. \A r \in Reloaders : at'[r] = "idle" BY <1>0, <1>1, Between
<1>4. Phases' BY <1>0, <1>1, <1>3 DEF Phases, Handling, Writing
<1>5. Tasks' BY <1>3 DEF Tasks, TaskOf
<1>6. Configured' BY <1>0, <1>1, Between DEF Configured
<1>7. Handled' BY <1>1 DEF SInv, Handled
<1>8. Known' BY <1>1 DEF SInv, Known, KnownOf, Attended, Reloads
<1>9. Shadowed' /\ Sent' BY <1>1, ShadowSame DEF SInv, Shadowed, Sent, SentOf, Filtered, Reloads
<1>. QED BY <1>1, <1>2, <1>4, <1>5, <1>6, <1>7, <1>8, <1>9 DEF SInv

LEMMA WatchWindow ==
  ASSUME SInv, NEW f \in Files, WindowEnds(f)
  PROVE  SInv'
<1>1. /\ recent' = recent \ {f}
      /\ UNCHANGED <<disk, setting, events, edits, config, configHash, hash, current, runtime, timer, at, seen, out, last, stop>>
  BY DEF WindowEnds, diskVars, workVars, dispatchVars
<1>2. Stations' BY <1>1 DEF SInv, Stations
<1>3. Sound(events', disk', recent')
  <2>1. recent' \in SUBSET recent BY <1>1
  <2>2. Sound(events, disk, recent') BY <2>1, SoundLater DEF SInv
  <2>. QED BY <1>1, <2>2
<1>4. Phases' BY <1>1 DEF SInv, Phases, Reloading, Handling, Writing
<1>5. Tasks' BY <1>1, SnapshotSame DEF SInv, Tasks, TaskOf
<1>6. Configured' BY <1>1 DEF SInv, Configured, Reloads
<1>7. Handled' BY <1>1 DEF SInv, Handled
<1>8. Known' BY <1>1 DEF SInv, Known, KnownOf, Attended, Reloads
<1>9. Shadowed' /\ Sent' BY <1>1, ShadowSame DEF SInv, Shadowed, Sent, SentOf, Filtered, Reloads
<1>. QED BY <1>1, <1>2, <1>3, <1>4, <1>5, <1>6, <1>7, <1>8, <1>9 DEF SInv

------------------------------------------------------------------------------
(* The handler of events *)

\* What a step of the handler that changes neither caches nor updates keeps.
LEMMA HandlerFrame ==
  ASSUME SInv, ~Reloading, NEW place, Goto(Handler, place),
         UNCHANGED <<setting, config, configHash, timer, hash, current, runtime, out, last>>
  PROVE  /\ Phases' /\ Tasks' /\ Configured' /\ Shadowed' /\ Sent'
         /\ DOMAIN at' = Workers /\ at'[Handler] = place /\ \A p \in Workers : p # Handler => at'[p] = at[p]
<1>1. DOMAIN at' = Workers /\ at'[Handler] = place /\ \A p \in Workers : p # Handler => at'[p] = at[p]
  BY Kinds DEF Goto, SInv, Stations
<1>2. \A r \in Reloaders : at'[r] = at[r] BY <1>1, Kinds
<1>3. Phases' /\ Tasks' /\ Configured' BY <1>2, WorkFrame
<1>4. Shadowed'
  <2>1. current' = Shadow' BY ShadowSame, Between
  <2>2. ~Reloads({"rescan"})' BY <1>2, Between DEF Reloads
  <2>. QED BY <2>1, <2>2 DEF SInv, Shadowed
<1>5. Sent' BY Between DEF SInv, Sent, SentOf
<1>. QED BY <1>1, <1>3, <1>4, <1>5

\* What the handler takes from the queue of events.
LEMMA Taking ==
  ASSUME SInv, at[Handler] = "idle", events # <<>>, events' = Tail(events), NEW gone,
         gone = recent \/ (gone = recent \cup {Head(events).file} /\ Head(events).op = "remove")
  PROVE  /\ Head(events).file \in Files /\ events' \in Seq(Event) /\ Sound(events', disk, gone)
         /\ Head(events).op = "write" => disk[Head(events).file] # None \/ In(events', Head(events).file)
         /\ Head(events).op = "remove" => Head(events).file \notin recent
         /\ ~Reloading /\ \A g \in Files : g # Head(events).file =>
              disk[g] = Blank \/ hash[g] = disk[g] \/ In(events', g)
<1>1. events \in Seq(Event) /\ Sound(events, disk, recent) BY DEF SInv, Stations
<1>2. /\ Head(events) \in Event /\ Tail(events) \in Seq(Event) /\ Sound(Tail(events), disk, recent)
      /\ \A f : In(events, f) => In(Tail(events), f) \/ Head(events).file = f
      /\ Head(events).op = "write" => disk[Head(events).file] # None \/ In(Tail(events), Head(events).file)
      /\ Head(events).op = "remove" =>
           Head(events).file \notin recent /\ Sound(Tail(events), disk, recent \cup {Head(events).file})
  BY <1>1, SoundTail
<1>3. ~Reloading BY AtWork
<1>4. \A g \in Files : disk[g] = Blank \/ hash[g] = disk[g] \/ In(events, g)
  BY <1>3, Between DEF KnownOf, Attended
<1>5. Head(events).file \in Files BY <1>2, EventParts
<1>. QED BY <1>2, <1>3, <1>4, <1>5

LEMMA WatchTakeWrite == ASSUME SInv, TakeWrite PROVE SInv'
<1>. DEFINE f == Head(events).file
<1>1. /\ f \in Files /\ events' \in Seq(Event) /\ Sound(events', disk, recent)
      /\ disk[f] # None \/ In(events', f)
      /\ ~Reloading /\ \A g \in Files : g # f => disk[g] = Blank \/ hash[g] = disk[g] \/ In(events', g)
  BY Taking DEF TakeWrite
<1>2. /\ Goto(Handler, IF Unchanged(f) THEN "idle" ELSE "read") /\ Hold(Handler, Head(events))
      /\ UNCHANGED <<disk, setting, edits, config, configHash, hash, current, runtime, recent, timer, out, last, stop>>
  BY DEF TakeWrite, watcherVars, dispatchVars
<1>. HIDE DEF f
<1>3. /\ DOMAIN at' = Workers /\ at'[Handler] = IF Unchanged(f) THEN "idle" ELSE "read"
      /\ \A p \in Workers : p # Handler => at'[p] = at[p]
      /\ Phases' /\ Tasks' /\ Configured' /\ Shadowed' /\ Sent'
  BY <1>1, <1>2, HandlerFrame
<1>4. DOMAIN seen' = Workers /\ seen'[Handler].file = f BY <1>2, Kinds DEF Hold, SInv, Stations, f
<1>5. at[Handler] = "idle" BY DEF TakeWrite
<1>6. Stations' BY <1>1, <1>2, <1>3, <1>4, <1>5, Kinds DEF SInv, Stations
<1>7. Handled' BY <1>3 DEF Handled
<1>8. Known'
  <2>. SUFFICES ASSUME NEW g \in Files PROVE KnownOf(g)' BY DEF Known
  <2>1. CASE g # f BY <1>1, <1>2, <2>1 DEF KnownOf
  <2>2. CASE g = f /\ Unchanged(f) BY <1>2, <2>2 DEF KnownOf, Unchanged
  <2>3. CASE g = f /\ ~Unchanged(f)
    <3>1. at'[Handler] = "read" BY <1>3, <2>3
    <3>. QED BY <1>1, <1>2, <1>4, <2>3, <3>1 DEF KnownOf, Attended
  <2>. QED BY <2>1, <2>2, <2>3
<1>. QED BY <1>1, <1>2, <1>3, <1>6, <1>7, <1>8 DEF SInv

LEMMA WatchTakeRemove == ASSUME SInv, TakeRemove PROVE SInv'
<1>. DEFINE f == Head(events).file
<1>1. /\ f \in Files /\ events' \in Seq(Event) /\ Sound(events', disk, recent \cup {f}) /\ f \notin recent
      /\ ~Reloading /\ \A g \in Files : g # f => disk[g] = Blank \/ hash[g] = disk[g] \/ In(events', g)
  BY Taking DEF TakeRemove
<1>2. /\ Goto(Handler, "stat") /\ Hold(Handler, Head(events)) /\ recent' = recent \cup {f}
      /\ UNCHANGED <<disk, setting, edits, config, configHash, hash, current, runtime, timer, out, last, stop>>
  BY <1>1 DEF TakeRemove, dispatchVars
<1>. HIDE DEF f
<1>3. /\ DOMAIN at' = Workers /\ at'[Handler] = "stat"
      /\ \A p \in Workers : p # Handler => at'[p] = at[p]
      /\ Phases' /\ Tasks' /\ Configured' /\ Shadowed' /\ Sent'
  BY <1>1, <1>2, HandlerFrame
<1>4. DOMAIN seen' = Workers /\ seen'[Handler].file = f BY <1>2, Kinds DEF Hold, SInv, Stations, f
<1>5. at[Handler] = "idle" BY DEF TakeRemove
<1>6. Stations' BY <1>1, <1>2, <1>3, <1>4, <1>5, Kinds DEF SInv, Stations
<1>7. Handled' BY <1>3 DEF Handled
<1>8. Known'
  <2>. SUFFICES ASSUME NEW g \in Files PROVE KnownOf(g)' BY DEF Known
  <2>1. CASE g # f BY <1>1, <1>2, <2>1 DEF KnownOf
  <2>2. CASE g = f BY <1>3, <1>4, <2>2 DEF KnownOf, Attended
  <2>. QED BY <2>1, <2>2
<1>. QED BY <1>1, <1>2, <1>3, <1>6, <1>7, <1>8 DEF SInv

LEMMA WatchStat == ASSUME SInv, Stat PROVE SInv'
<1>. DEFINE f == seen[Handler].file
            place == CASE Unchanged(f)                    -> "idle"
                       [] disk[f] # None /\ ~Unchanged(f) -> "read"
                       [] disk[f] = None /\ hash[f] = None   -> "idle"
                       [] disk[f] = None /\ hash[f] # None   -> "drop"
<1>1. /\ f \in Files /\ at[Handler] = "stat" /\ Goto(Handler, place)
      /\ UNCHANGED <<disk, events, setting, edits, config, configHash, hash, current, runtime, recent, timer, seen, out, last, stop>>
  BY DEF Stat, diskVars, watcherVars, dispatchVars, SInv, Stations
<1>2. ~Reloading BY <1>1, AtWork, Kinds
<1>3. \/ place = "idle" /\ hash[f] = disk[f]
      \/ place = "read" /\ disk[f] # None
      \/ place = "drop" /\ disk[f] = None
  BY Made DEF Unchanged
<1>. HIDE DEF place
<1>4. /\ DOMAIN at' = Workers /\ at'[Handler] = place /\ \A p \in Workers : p # Handler => at'[p] = at[p]
      /\ Phases' /\ Tasks' /\ Configured' /\ Shadowed' /\ Sent'
  BY <1>1, <1>2, HandlerFrame
<1>5. Stations' BY <1>1, <1>3, <1>4, Kinds DEF SInv, Stations
<1>6. Handled' BY <1>1, <1>3, <1>4 DEF Handled
<1>7. Known'
  <2>. SUFFICES ASSUME NEW g \in Files PROVE KnownOf(g)' BY DEF Known
  <2>1. KnownOf(g) BY <1>2, Between
  <2>2. CASE g # f BY <1>1, <2>1, <2>2 DEF KnownOf, Attended
  <2>3. CASE g = f BY <1>1, <1>3, <1>4, <2>3 DEF KnownOf, Attended
  <2>. QED BY <2>2, <2>3
<1>. QED BY <1>1, <1>4, <1>5, <1>6, <1>7 DEF SInv

LEMMA WatchRead == ASSUME SInv, Read PROVE SInv'
<1>. DEFINE f == seen[Handler].file
            place == IF disk[f] \in Contents THEN "update" ELSE "idle"
<1>1. /\ f \in Files /\ at[Handler] = "read" /\ Goto(Handler, place)
      /\ UNCHANGED <<disk, events, setting, edits, config, configHash, hash, current, runtime, recent, timer, out, last, stop>>
  BY DEF Read, diskVars, watcherVars, dispatchVars, SInv, Stations
<1>2. ~Reloading BY <1>1, AtWork, Kinds
<1>3. /\ DOMAIN seen' = Workers
      /\ place = "update" => disk[f] \in Contents /\ seen'[Handler] = [file |-> f, content |-> disk[f]]
  BY Kinds DEF Read, Hold, SInv, Stations
<1>4. place \in {"update", "idle"} /\ (place = "idle" => disk[f] \notin Contents) OBVIOUS
<1>. HIDE DEF place
<1>5. /\ DOMAIN at' = Workers /\ at'[Handler] = place /\ \A p \in Workers : p # Handler => at'[p] = at[p]
      /\ Phases' /\ Tasks' /\ Configured' /\ Shadowed' /\ Sent'
  BY <1>1, <1>2, HandlerFrame
<1>6. Stations' BY <1>1, <1>3, <1>4, <1>5, Kinds DEF SInv, Stations
<1>7. Handled' BY <1>1, <1>3, <1>4, <1>5 DEF Handled
<1>8. Known'
  <2>. SUFFICES ASSUME NEW g \in Files PROVE KnownOf(g)' BY DEF Known
  <2>1. KnownOf(g) BY <1>2, Between
  <2>2. CASE g # f BY <1>1, <2>1, <2>2 DEF KnownOf, Attended
  <2>3. CASE g = f /\ place = "update" BY <1>3, <1>5, <2>3 DEF KnownOf, Attended
  <2>4. CASE g = f /\ place = "idle"
    <3>1. disk[f] = Blank \/ disk[f] = None BY <1>1, <1>4, <2>4 DEF SInv, Stations
    <3>2. disk[f] = Blank \/ hash[f] = disk[f] \/ In(events, f)
      BY <1>1, <2>1, <2>4, <3>1 DEF KnownOf, Attended
    <3>. QED BY <1>1, <2>4, <3>2 DEF KnownOf
  <2>. QED BY <1>4, <2>2, <2>3, <2>4
<1>. QED BY <1>1, <1>5, <1>6, <1>7, <1>8 DEF SInv

\* An update of an ID comes into the hands of the goroutine that alone holds it.
LEMMA HandedOver ==
  ASSUME SInv, ~Reloading, NEW p \in Workers \ Reloaders, at[p] # "dispatch", NEW i \in IDs,
         (p = Handler /\ i \in Files) \/ (p = i /\ i \in Runtimes),
         NEW v, NEW u, (u = Empty /\ v = current[i]) \/ u = [j \in {i} |-> v],
         current' = [current EXCEPT ![i] = v], out' = [out EXCEPT ![p] = u], last' = last
  PROVE  /\ Sent' /\ DOMAIN out' = Workers /\ DOMAIN out'[p] \subseteq {i}
         /\ \A q \in Workers : q # p => out'[q] = out[q]
<1>1. DOMAIN u \subseteq {i} /\ (i \in DOMAIN u => u[i] = v) /\ (i \notin DOMAIN u => v = current[i])
  BY DEF Empty
<1>2. DOMAIN out' = Workers /\ out'[p] = u /\ \A q \in Workers : q # p => out'[q] = out[q]
  BY DEF SInv, Stations
<1>3. current'[i] = v /\ \A j \in IDs : j # i => current'[j] = current[j] BY DEF SInv, Stations
<1>4. out[p] = <<>> /\ DOMAIN out[p] = {} BY DEF SInv, Stations, Empty
<1>5. \A q \in Workers : q # p => i \notin DOMAIN out[q]
  <2>. SUFFICES ASSUME NEW q \in Workers, q # p PROVE i \notin DOMAIN out[q] OBVIOUS
  <2>1. CASE q \in Reloaders
    <3>1. out[q] = <<>> BY <2>1, Between DEF Empty
    <3>. QED BY <3>1
  <2>2. CASE q \in Runtimes BY <2>2, Kinds DEF SInv, Stations
  <2>3. CASE q = Handler BY <2>3, Kinds DEF SInv, Stations
  <2>. QED BY <2>1, <2>2, <2>3, Kinds
<1>6. \A j \in IDs : ~Filtered(j) /\ SentOf(j) BY Between DEF SInv, Sent
<1>7. ASSUME NEW j \in IDs PROVE SentOf(j)'
  <2>1. CASE j = i
    <3>1. \A q \in Workers : i \in DOMAIN out'[q] => out'[q][i] = current'[i] BY <1>1, <1>2, <1>3, <1>5
    <3>2. (\A q \in Workers : i \notin DOMAIN out'[q]) => last[i] = current'[i]
      <4>1. \A q \in Workers : i \notin DOMAIN out[q] BY <1>4, <1>5
      <4>2. last[i] = current[i] BY <1>6, <4>1 DEF SentOf
      <4>. QED BY <1>1, <1>2, <1>3, <4>2
    <3>. QED BY <2>1, <3>1, <3>2 DEF SentOf
  <2>2. CASE j # i
    <3>1. \A q \in Workers : j \in DOMAIN out'[q] <=> j \in DOMAIN out[q] BY <1>1, <1>2, <1>4, <2>2
    <3>2. \A q \in Workers : j \in DOMAIN out'[q] => out'[q] = out[q] BY <1>1, <1>2, <2>2
    <3>. QED BY <1>3, <1>6, <2>2, <3>1, <3>2 DEF SentOf
  <2>. QED BY <2>1, <2>2
<1>. QED BY <1>1, <1>2, <1>7 DEF Sent

LEMMA WatchUpdate == ASSUME SInv, Update PROVE SInv'
<1>. DEFINE f == seen[Handler].file
            content == seen[Handler].content
            auth == FileAuth(f, content, config)
<1>1. /\ f \in Files /\ content \in Contents /\ at[Handler] = "update"
      /\ content = disk[f] \/ In(events, f)
      /\ UNCHANGED <<disk, events, setting, edits, config, configHash, runtime, recent, timer, seen, last, stop>>
  BY DEF Update, diskVars, dispatchVars, SInv, Stations, Handled
<1>2. ~Reloading BY <1>1, AtWork, Kinds
<1>3. \A g \in Files : KnownOf(g) BY <1>2, Between
<1>4. CASE hash[f] = content
  <2>1. Goto(Handler, "idle") /\ UNCHANGED <<hash, current, out>> BY <1>4 DEF Update
  <2>2. /\ DOMAIN at' = Workers /\ at'[Handler] = "idle" /\ \A p \in Workers : p # Handler => at'[p] = at[p]
        /\ Phases' /\ Tasks' /\ Configured' /\ Shadowed' /\ Sent'
    BY <1>1, <1>2, <2>1, HandlerFrame
  <2>3. Stations' BY <1>1, <2>1, <2>2, Kinds DEF SInv, Stations
  <2>4. Handled' BY <2>2 DEF Handled
  <2>5. Known'
    <3>. SUFFICES ASSUME NEW g \in Files PROVE KnownOf(g)' BY DEF Known
    <3>1. CASE g # f BY <1>1, <1>3, <2>1, <3>1 DEF KnownOf, Attended
    <3>2. CASE g = f BY <1>1, <1>4, <2>1, <3>2 DEF KnownOf
    <3>. QED BY <3>1, <3>2
  <2>. QED BY <1>1, <2>2, <2>3, <2>4, <2>5 DEF SInv
<1>5. CASE hash[f] # content
  <2>1. /\ hash' = [hash EXCEPT ![f] = content] /\ current' = [current EXCEPT ![f] = auth]
        /\ out' = [out EXCEPT ![Handler] = IF current[f] = auth THEN Empty ELSE [i \in {f} |-> auth]]
        /\ Goto(Handler, "dispatch")
    BY <1>5 DEF Update
  <2>2. DOMAIN at' = Workers /\ at'[Handler] = "dispatch" /\ \A p \in Workers : p # Handler => at'[p] = at[p]
    BY <2>1, Kinds DEF Goto, SInv, Stations
  <2>3. auth \in Dispatcher!Values /\ auth # None /\ content # None
    <3>1. PICK c \in Configs : c = config BY DEF SInv, Stations
    <3>2. PICK v \in Contents : v = content BY <1>1
    <3>3. PICK g \in Files : g = f BY <1>1
    <3>4. FileAuth(g, v, c) \in Dispatcher!Values /\ FileAuth(g, v, c) # None BY Made
    <3>5. auth = FileAuth(g, v, c) BY <3>1, <3>2, <3>3 DEF FileAuth
    <3>6. content # None BY <3>2, Made
    <3>. HIDE DEF auth, content
    <3>. QED BY <3>4, <3>5, <3>6
  <2>4. /\ hash' \in [Files -> Contents \cup {None}] /\ hash'[f] = content /\ \A g \in Files : g # f => hash'[g] = hash[g]
        /\ current' \in [IDs -> Dispatcher!Values] /\ current'[f] = auth /\ \A i \in IDs : i # f => current'[i] = current[i]
    BY <1>1, <2>1, <2>3, Kinds DEF SInv, Stations
  <2>5. PICK u : u = IF current[f] = auth THEN Empty ELSE [i \in {f} |-> auth] OBVIOUS
  <2>6. /\ Sent' /\ DOMAIN out' = Workers /\ DOMAIN out'[Handler] \subseteq {f}
        /\ \A q \in Workers : q # Handler => out'[q] = out[q]
    <3>1. out' = [out EXCEPT ![Handler] = u] /\ ((u = Empty /\ auth = current[f]) \/ u = [i \in {f} |-> auth])
      BY <2>1, <2>5
    <3>2. Handler \in Workers \ Reloaders /\ f \in IDs /\ at[Handler] # "dispatch" BY <1>1, Kinds
    <3>. HIDE DEF auth, f
    <3>. QED BY <1>1, <1>2, <2>1, <3>1, <3>2, HandedOver
  <2>7. Phases' /\ Tasks' /\ Configured' BY <1>1, <1>2, <2>2, WorkFrame, Kinds
  <2>8. Stations' BY <1>1, <2>2, <2>4, <2>6, Kinds DEF SInv, Stations
  <2>9. Handled' BY <2>2 DEF Handled
  <2>10. Known'
    <3>. SUFFICES ASSUME NEW g \in Files PROVE KnownOf(g)' BY DEF Known
    <3>1. CASE g # f BY <1>1, <1>3, <2>4, <3>1 DEF KnownOf, Attended
    <3>2. CASE g = f BY <1>1, <2>4, <3>2 DEF KnownOf
    <3>. QED BY <3>1, <3>2
  <2>11. Shadowed'
    <3>1. current = Shadow BY <1>2, Between
    <3>2. \A i \in IDs : current'[i] = Shadow'[i]
      <4>. TAKE i \in IDs
      <4>1. CASE i = f BY <1>1, <2>3, <2>4, <4>1, Kinds DEF Shadow, FileAuth
      <4>2. CASE i # f
        <5>1. i \in Runtimes \/ i \in Keys \/ i \in Files BY DEF IDs
        <5>2. Shadow'[i] = Shadow[i] BY <1>1, <2>4, <4>2, <5>1 DEF Shadow, FileAuth, ConfigAuth
        <5>. QED BY <2>4, <3>1, <4>2, <5>2
      <4>. QED BY <4>1, <4>2
    <3>3. current' = Shadow' BY <2>4, <3>2 DEF Shadow
    <3>4. \A g \in Files : hash'[g] = None => current'[g] = None BY <2>3, <2>4, Kinds DEF SInv, Shadowed
    <3>5. ~Reloads({"rescan"})' BY <1>2, <2>2, Between, Kinds DEF Reloads
    <3>. QED BY <3>3, <3>4, <3>5 DEF Shadowed
  <2>. QED BY <1>1, <2>6, <2>7, <2>8, <2>9, <2>10, <2>11 DEF SInv
<1>. QED BY <1>4, <1>5

LEMMA WatchDrop == ASSUME SInv, Drop PROVE SInv'
<1>. DEFINE f == seen[Handler].file
<1>1. /\ f \in Files /\ at[Handler] = "drop" /\ (disk[f] = None \/ In(events, f))
      /\ UNCHANGED <<disk, events, setting, edits, config, configHash, runtime, recent, timer, seen, last, stop>>
  BY DEF Drop, diskVars, dispatchVars, SInv, Stations, Handled
<1>2. ~Reloading BY <1>1, AtWork, Kinds
<1>3. \A g \in Files : KnownOf(g) BY <1>2, Between
<1>4. hash[f] = None => current[f] = None BY <1>1 DEF SInv, Shadowed
<1>5. /\ hash' = [hash EXCEPT ![f] = None] /\ current' = [current EXCEPT ![f] = None]
      /\ out' = [out EXCEPT ![Handler] = IF hash[f] = None THEN Empty ELSE [i \in {f} |-> None]]
      /\ Goto(Handler, "dispatch")
  BY <1>4 DEF Drop
<1>6. DOMAIN at' = Workers /\ at'[Handler] = "dispatch" /\ \A p \in Workers : p # Handler => at'[p] = at[p]
  BY <1>5, Kinds DEF Goto, SInv, Stations
<1>7. /\ hash' \in [Files -> Contents \cup {None}] /\ hash'[f] = None /\ \A g \in Files : g # f => hash'[g] = hash[g]
      /\ current' \in [IDs -> Dispatcher!Values] /\ current'[f] = None /\ \A i \in IDs : i # f => current'[i] = current[i]
  BY <1>1, <1>5, Made, Kinds DEF SInv, Stations
<1>8. PICK u : u = IF hash[f] = None THEN Empty ELSE [i \in {f} |-> None] OBVIOUS
<1>9. /\ Sent' /\ DOMAIN out' = Workers /\ DOMAIN out'[Handler] \subseteq {f}
      /\ \A q \in Workers : q # Handler => out'[q] = out[q]
  <2>1. out' = [out EXCEPT ![Handler] = u] /\ ((u = Empty /\ None = current[f]) \/ u = [i \in {f} |-> None])
    BY <1>4, <1>5, <1>8
  <2>2. Handler \in Workers \ Reloaders /\ f \in IDs /\ at[Handler] # "dispatch" BY <1>1, Kinds
  <2>. HIDE DEF f
  <2>. QED BY <1>1, <1>2, <1>5, <2>1, <2>2, HandedOver
<1>10. Phases' /\ Tasks' /\ Configured' BY <1>1, <1>2, <1>6, WorkFrame, Kinds
<1>11. Stations' BY <1>1, <1>6, <1>7, <1>9, Kinds DEF SInv, Stations
<1>12. Handled' BY <1>6 DEF Handled
<1>13. Known'
  <2>. SUFFICES ASSUME NEW g \in Files PROVE KnownOf(g)' BY DEF Known
  <2>1. CASE g # f BY <1>1, <1>3, <1>7, <2>1 DEF KnownOf, Attended
  <2>2. CASE g = f BY <1>1, <1>7, <2>2 DEF KnownOf
  <2>. QED BY <2>1, <2>2
<1>14. Shadowed'
  <2>1. current = Shadow BY <1>2, Between
  <2>2. \A i \in IDs : current'[i] = Shadow'[i]
    <3>. TAKE i \in IDs
    <3>1. CASE i = f BY <1>1, <1>7, <3>1, Kinds DEF Shadow
    <3>2. CASE i # f
      <4>1. i \in Runtimes \/ i \in Keys \/ i \in Files BY DEF IDs
      <4>2. Shadow'[i] = Shadow[i] BY <1>1, <1>7, <3>2, <4>1 DEF Shadow, FileAuth, ConfigAuth
      <4>. QED BY <1>7, <2>1, <3>2, <4>2
    <3>. QED BY <3>1, <3>2
  <2>3. current' = Shadow' BY <1>7, <2>2 DEF Shadow
  <2>4. \A g \in Files : hash'[g] = None => current'[g] = None BY <1>7, Kinds DEF SInv, Shadowed
  <2>5. ~Reloads({"rescan"})' BY <1>2, <1>6, Between, Kinds DEF Reloads
  <2>. QED BY <2>3, <2>4, <2>5 DEF Shadowed
<1>. QED BY <1>1, <1>9, <1>10, <1>11, <1>12, <1>13, <1>14 DEF SInv

LEMMA WatchReport ==
  ASSUME SInv, Orderly, NEW i \in Runtimes, NEW auth \in Dispatcher!Values, ReportRuntime(i, auth)
  PROVE  SInv'
<1>0. ~Reloading BY DEF Orderly, ReportRuntime
<1>1. /\ at[i] = "idle" /\ edits' = edits + 1 /\ edits < MaxEdits
      /\ runtime' = [runtime EXCEPT ![i] = auth] /\ current' = [current EXCEPT ![i] = auth]
      /\ out' = [out EXCEPT ![i] = [j \in {i} |-> auth]] /\ Goto(i, "dispatch")
      /\ UNCHANGED <<disk, setting, events, config, configHash, hash, recent, timer, seen, last, stop>>
  BY DEF ReportRuntime, Edit, dispatchVars
<1>2. DOMAIN at' = Workers /\ at'[i] = "dispatch" /\ \A p \in Workers : p # i => at'[p] = at[p]
  BY <1>1, Kinds DEF Goto, SInv, Stations
<1>3. at'[Handler] = at[Handler] /\ \A r \in Reloaders : at'[r] = at[r] BY <1>2, Kinds
<1>4. /\ runtime' \in [Runtimes -> Dispatcher!Values] /\ runtime'[i] = auth
      /\ \A j \in Runtimes : j # i => runtime'[j] = runtime[j]
      /\ current' \in [IDs -> Dispatcher!Values] /\ current'[i] = auth
      /\ \A j \in IDs : j # i => current'[j] = current[j]
  BY <1>1, Kinds DEF SInv, Stations
<1>5. PICK u : u = [j \in {i} |-> auth] OBVIOUS
<1>6. /\ Sent' /\ DOMAIN out' = Workers /\ DOMAIN out'[i] \subseteq {i}
      /\ \A q \in Workers : q # i => out'[q] = out[q]
  BY <1>0, <1>1, <1>5, Kinds, HandedOver
<1>7. Phases' /\ Tasks' /\ Configured' BY <1>0, <1>1, <1>3, WorkFrame
<1>8. Stations'
  <2>1. edits' \in 0..MaxEdits BY <1>1, WatcherAssumption DEF SInv, Stations
  <2>2. \A j \in Runtimes : at'[j] \in {"idle", "dispatch"} /\ DOMAIN out'[j] \subseteq {j}
    BY <1>2, <1>6, Kinds DEF SInv, Stations
  <2>3. \A p \in Workers : at'[p] # "dispatch" => out'[p] = Empty BY <1>2, <1>6 DEF SInv, Stations
  <2>4. /\ DOMAIN out'[Handler] \subseteq Files /\ \A r \in Reloaders : DOMAIN out'[r] \subseteq IDs
    BY <1>6, Kinds DEF SInv, Stations
  <2>. QED BY <1>1, <1>2, <1>3, <1>4, <1>6, <2>1, <2>2, <2>3, <2>4 DEF SInv, Stations
<1>9. Handled' BY <1>1, <1>3 DEF SInv, Handled
<1>10. Known' BY <1>1, <1>3 DEF SInv, Known, KnownOf, Attended, Reloads
<1>11. Shadowed'
  <2>1. current = Shadow BY <1>0, Between
  <2>2. \A j \in IDs : current'[j] = Shadow'[j]
    <3>. TAKE j \in IDs
    <3>1. CASE j = i BY <1>4, <3>1 DEF Shadow
    <3>2. CASE j # i
      <4>1. Shadow'[j] = Shadow[j] BY <1>1, <1>4, <3>2 DEF Shadow, FileAuth, ConfigAuth
      <4>. QED BY <1>4, <2>1, <3>2, <4>1
    <3>. QED BY <3>1, <3>2
  <2>3. current' = Shadow' BY <1>4, <2>2 DEF Shadow
  <2>4. \A g \in Files : hash'[g] = None => current'[g] = None BY <1>1, <1>4, Kinds DEF SInv, Shadowed
  <2>5. ~Reloads({"rescan"})' BY <1>0, <1>3, Between DEF Reloads
  <2>. QED BY <2>3, <2>4, <2>5 DEF Shadowed
<1>. QED BY <1>1, <1>6, <1>7, <1>8, <1>9, <1>10, <1>11 DEF SInv

------------------------------------------------------------------------------
(* Reloads *)

\* While a reload is under way, and the directory has been scanned, no hash is stale.
LEMMA Scanned ==
  ASSUME SInv, NEW r \in Reloaders, timer \/ at[r] \notin {"idle", "rescan"}
  PROVE  \A f \in Files : hash[f] = disk[f]
<1>1. /\ events = <<>> /\ \A f \in Files : disk[f] # Blank
      /\ \A p \in Workers : at[p] = "idle" \/ p = r
      /\ timer => at[r] = "idle"
  BY Resting, Waiting, Kinds DEF SInv
<1>2. at[Handler] = "idle" /\ ~Reloads({"rescan"}) BY <1>1, Kinds DEF Reloads
<1>3. \A f \in Files : KnownOf(f) BY <1>2 DEF SInv, Known
<1>4. \A f : ~In(events, f) BY <1>1 DEF In
<1>. QED BY <1>1, <1>2, <1>3, <1>4 DEF KnownOf, Attended

\* A step of r leaves what the others have in hand.
Apart(r) ==
  /\ DOMAIN seen' = Workers /\ DOMAIN out' = Workers
  /\ \A p \in Workers : p # r => seen'[p] = seen[p] /\ out'[p] = out[p]

Places == {"idle", "rescan", "load", "set", "filter", "snapshot", "diff", "dispatch", "rehash"}

\* What is to be shown of a step of a reload.
LEMMA ReloadStep ==
  ASSUME SInv, NEW r \in Reloaders, NEW place \in Places, timer \/ at[r] # "idle", Goto(r, place),
         UNCHANGED <<disk, setting, events, edits, runtime, recent, stop>>, timer' = FALSE,
         config' \in Configs, configHash' \in Configs \cup {None},
         hash' \in [Files -> Contents \cup {None}], current' \in [IDs -> Dispatcher!Values],
         Apart(r), DOMAIN out'[r] \subseteq IDs, place # "dispatch" => out'[r] = Empty,
         \A f \in Files : hash'[f] = disk[f],
         TaskOf(r)', Configured', Shadowed', Sent'
  PROVE  SInv'
<1>1. /\ Phases' /\ Sound(events', disk', recent') /\ Handled'
      /\ at'[r] = place /\ DOMAIN at' = Workers /\ \A p \in Workers : p # r => at'[p] = at[p] /\ at'[p] = "idle"
  BY ReloadFrame, Kinds DEF Goto, SInv, Stations
<1>2. Stations'
  <2>1. /\ at'[Handler] = at[Handler] /\ seen'[Handler] = seen[Handler] /\ out'[Handler] = out[Handler]
        /\ \A i \in Runtimes : at'[i] = at[i] /\ out'[i] = out[i]
    BY <1>1, Kinds DEF Apart
  <2>2. \A q \in Reloaders : at'[q] \in Places /\ DOMAIN out'[q] \subseteq IDs
    BY <1>1, Kinds DEF SInv, Stations, Apart, Places
  <2>3. \A p \in Workers : at'[p] # "dispatch" => out'[p] = Empty BY <1>1 DEF SInv, Stations, Apart
  <2>. QED BY <1>1, <2>1, <2>2, <2>3 DEF SInv, Stations, Apart, Places
<1>3. Tasks'
  <2>. SUFFICES ASSUME NEW q \in Reloaders, q # r PROVE TaskOf(q)' BY DEF Tasks
  <2>1. at'[q] = "idle" BY <1>1, Kinds
  <2>. QED BY <2>1 DEF TaskOf
<1>4. Known' BY DEF Known, KnownOf
<1>. QED BY <1>1, <1>2, <1>3, <1>4 DEF SInv

\* When somebody reloads, nobody else does, and the timer is not set.
LEMMA Alike ==
  ASSUME SInv, NEW r \in Reloaders, at[r] # "idle"
  PROVE  /\ ~timer /\ \A places : "idle" \notin places => (Reloads(places) <=> at[r] \in places)
         /\ at[r] # "dispatch" => \A p \in Workers : out[p] = Empty
<1>1. ~timer /\ \A q \in Reloaders : q # r => at[q] = "idle" BY Resting, Kinds DEF SInv
<1>2. at[r] # "dispatch" => \A p \in Workers : out[p] = Empty BY Resting, Kinds DEF SInv, Stations
<1>. QED BY <1>1, <1>2 DEF Reloads

\* The same after a step of a reload.
LEMMA AlikeNext ==
  ASSUME SInv, NEW r \in Reloaders, NEW place, timer \/ at[r] # "idle", Goto(r, place)
  PROVE  /\ at'[r] = place /\ \A p \in Workers : p # r => at'[p] = "idle"
         /\ \A places : "idle" \notin places => ((\E q \in Reloaders : at'[q] \in places) <=> place \in places)
<1>1. \A p \in Workers : p # r => at[p] = "idle" BY Resting, Waiting DEF SInv
<1>2. at'[r] = place /\ \A p \in Workers : p # r => at'[p] = "idle"
  BY <1>1, Kinds DEF Goto, SInv, Stations
<1>. QED BY <1>2, Kinds

LEMMA WatchRescan == ASSUME SInv, NEW r \in Reloaders, Rescan(r) PROVE SInv'
<1>1. /\ at[r] = "rescan" /\ Goto(r, "snapshot")
      /\ hash' = [f \in Files |-> IF disk[f] \in Contents THEN disk[f] ELSE None]
      /\ UNCHANGED <<disk, setting, events, edits, config, configHash, current, runtime, recent, timer, seen, out, last, stop>>
  BY DEF Rescan, diskVars, dispatchVars
<1>2. /\ ~timer /\ \A places : "idle" \notin places => (Reloads(places) <=> at[r] \in places)
      /\ \A p \in Workers : out[p] = Empty
  BY <1>1, Alike
<1>3. /\ at'[r] = "snapshot"
      /\ \A places : "idle" \notin places => (Reloads(places)' <=> "snapshot" \in places)
  BY <1>1, AlikeNext DEF Reloads
<1>4. \A f \in Files : hash'[f] = disk[f] /\ hash'[f] \in Contents \cup {None}
  BY <1>1, Resting DEF SInv, Stations
<1>5. Reloads({"rescan"}) /\ \A f \in Files : hash[f] = None /\ current[f] = None
  BY <1>1, <1>2 DEF SInv, Shadowed
<1>6. TaskOf(r)' BY <1>1, <1>3 DEF SInv, Tasks, TaskOf
<1>7. Configured' BY <1>1, <1>2, <1>3 DEF SInv, Configured
<1>8. Shadowed' BY <1>1, <1>3, <1>5 DEF Shadowed
<1>9. Sent'
  <2>1. \A i \in IDs : ~Filtered(i) BY <1>5 DEF Filtered
  <2>. QED BY <1>1, <2>1 DEF SInv, Sent, SentOf
<1>10. Apart(r) /\ DOMAIN out'[r] = {} /\ out'[r] = Empty
  BY <1>1, <1>2, Kinds DEF SInv, Stations, Apart, Empty
<1>11. hash' \in [Files -> Contents \cup {None}] BY <1>1, <1>4
<1>. QED BY <1>1, <1>2, <1>4, <1>6, <1>7, <1>8, <1>9, <1>10, <1>11, ReloadStep DEF SInv, Stations, Places

LEMMA WatchFire == ASSUME SInv, NEW r \in Reloaders, Fire(r) PROVE SInv'
<1>. DEFINE place == IF setting = configHash THEN "idle" ELSE "load"
<1>1. /\ timer /\ timer' = FALSE /\ at[r] = "idle" /\ Goto(r, place)
      /\ UNCHANGED <<disk, setting, events, edits, config, configHash, hash, current, runtime, recent, seen, out, last, stop>>
  BY DEF Fire, diskVars, dispatchVars
<1>2. /\ \A p \in Workers : at[p] = "idle" /\ out[p] = Empty
      /\ \A places : "idle" \notin places => ~Reloads(places)
  BY <1>1, Waiting, Kinds DEF SInv, Reloads
<1>3. (place = "idle" /\ setting = configHash) \/ place = "load" OBVIOUS
<1>. HIDE DEF place
<1>4. /\ at'[r] = place
      /\ \A places : "idle" \notin places => (Reloads(places)' <=> place \in places)
  BY <1>1, AlikeNext DEF Reloads
<1>5. \A f \in Files : hash'[f] = disk[f] BY <1>1, Scanned
<1>6. TaskOf(r)' BY <1>3, <1>4 DEF TaskOf
<1>7. Configured'
  <2>1. configHash \in {None, config} BY <1>2 DEF SInv, Configured
  <2>2. setting # None BY Made DEF SInv, Stations
  <2>3. CASE place = "idle" BY <1>1, <1>3, <2>1, <2>2, <2>3 DEF Configured
  <2>4. CASE place = "load" BY <1>1, <1>4, <2>1, <2>4 DEF Configured
  <2>. QED BY <1>3, <2>3, <2>4
<1>8. Shadowed'
  <2>1. current = Shadow BY <1>2 DEF SInv, Shadowed
  <2>2. Shadow' = Shadow BY <1>1, ShadowSame
  <2>3. ~Reloads({"rescan"})' BY <1>3, <1>4
  <2>. QED BY <1>1, <2>1, <2>2, <2>3 DEF SInv, Shadowed
<1>9. Sent'
  <2>1. \A i \in IDs : ~Filtered(i) BY <1>2 DEF Filtered
  <2>. QED BY <1>1, <2>1 DEF SInv, Sent, SentOf
<1>10. Apart(r) /\ DOMAIN out'[r] = {} /\ out'[r] = Empty
  BY <1>1, <1>2, Kinds DEF SInv, Stations, Apart, Empty
<1>11. place \in Places BY <1>3 DEF Places
<1>. QED BY <1>1, <1>5, <1>6, <1>7, <1>8, <1>9, <1>10, <1>11, ReloadStep DEF SInv, Stations

LEMMA WatchLoad == ASSUME SInv, NEW r \in Reloaders, LoadConfig(r) PROVE SInv'
<1>1. /\ at[r] = "load" /\ Goto(r, "set") /\ seen' = [seen EXCEPT ![r] = setting]
      /\ UNCHANGED <<disk, setting, events, edits, config, configHash, hash, current, runtime, recent, timer, out, last, stop>>
  BY DEF LoadConfig, Hold, diskVars, watcherVars, dispatchVars
<1>2. /\ ~timer /\ \A places : "idle" \notin places => (Reloads(places) <=> at[r] \in places)
      /\ \A p \in Workers : out[p] = Empty
  BY <1>1, Alike
<1>3. /\ at'[r] = "set"
      /\ \A places : "idle" \notin places => (Reloads(places)' <=> "set" \in places)
  BY <1>1, AlikeNext DEF Reloads
<1>4. \A f \in Files : hash'[f] = disk[f] BY <1>1, Scanned
<1>5. DOMAIN seen' = Workers /\ seen'[r] = setting /\ \A p \in Workers : p # r => seen'[p] = seen[p]
  BY <1>1, Kinds DEF SInv, Stations
<1>6. TaskOf(r)' BY <1>1, <1>3, <1>5 DEF TaskOf
<1>7. Configured' BY <1>1, <1>2, <1>3 DEF SInv, Configured
<1>8. Shadowed' BY <1>1, <1>2, <1>3, ShadowSame DEF SInv, Shadowed
<1>9. Sent'
  <2>1. \A i \in IDs : ~Filtered(i) BY <1>1, <1>2 DEF Filtered
  <2>. QED BY <1>1, <2>1 DEF SInv, Sent, SentOf
<1>10. Apart(r) /\ DOMAIN out'[r] = {} /\ out'[r] = Empty
  BY <1>1, <1>2, <1>5, Kinds DEF SInv, Stations, Apart, Empty
<1>. QED BY <1>1, <1>2, <1>4, <1>6, <1>7, <1>8, <1>9, <1>10, ReloadStep DEF SInv, Stations, Places

LEMMA WatchSet == ASSUME SInv, NEW r \in Reloaders, SetConfig(r) PROVE SInv'
<1>. DEFINE place == IF config.excluded # seen[r].excluded THEN "filter" ELSE "snapshot"
            task == Task(config.prefix # seen[r].prefix, TRUE)
<1>1. /\ at[r] = "set" /\ Goto(r, place) /\ seen' = [seen EXCEPT ![r] = task] /\ config' = seen[r]
      /\ UNCHANGED <<disk, setting, events, edits, configHash, hash, current, runtime, recent, timer, out, last, stop>>
  BY DEF SetConfig, Hold, diskVars, dispatchVars
<1>2. /\ ~timer /\ \A places : "idle" \notin places => (Reloads(places) <=> at[r] \in places)
      /\ \A p \in Workers : out[p] = Empty
  BY <1>1, Alike
<1>3. place \in {"filter", "snapshot"} OBVIOUS
<1>4. task \in [force : BOOLEAN, reload : BOOLEAN, auths : {Empty}] /\ task.reload = TRUE BY DEF Task
<1>. HIDE DEF place, task
<1>5. /\ at'[r] = place
      /\ \A places : "idle" \notin places => (Reloads(places)' <=> place \in places)
  BY <1>1, AlikeNext DEF Reloads
<1>6. \A f \in Files : hash'[f] = disk[f] BY <1>1, Scanned
<1>7. DOMAIN seen' = Workers /\ seen'[r] = task /\ \A p \in Workers : p # r => seen'[p] = seen[p]
  BY <1>1, Kinds DEF SInv, Stations
<1>8. config' = setting /\ config' \in Configs BY <1>1 DEF SInv, Stations, Tasks, TaskOf
<1>9. TaskOf(r)' BY <1>3, <1>4, <1>5, <1>7 DEF TaskOf
<1>10. Configured' BY <1>1, <1>3, <1>5, <1>8 DEF Configured
<1>11. Shadowed'
  <2>1. Reloads({"rescan", "filter", "snapshot", "diff"})' /\ ~Reloads({"rescan"})' BY <1>3, <1>5
  <2>. QED BY <1>1, <2>1 DEF SInv, Shadowed
<1>12. Sent'
  <2>1. \A i \in IDs : ~Filtered(i) BY <1>1, <1>2 DEF Filtered
  <2>. QED BY <1>1, <2>1 DEF SInv, Sent, SentOf
<1>13. Apart(r) /\ DOMAIN out'[r] = {} /\ out'[r] = Empty
  BY <1>1, <1>2, <1>7, Kinds DEF SInv, Stations, Apart, Empty
<1>14. place \in Places BY <1>3 DEF Places
<1>. QED BY <1>1, <1>2, <1>6, <1>8, <1>9, <1>10, <1>11, <1>12, <1>13, <1>14, ReloadStep DEF SInv, Stations

LEMMA WatchFilter == ASSUME SInv, NEW r \in Reloaders, Filter(r) PROVE SInv'
<1>1. /\ at[r] = "filter" /\ Goto(r, "snapshot")
      /\ current' = [i \in IDs |-> IF i \in Files THEN None ELSE current[i]]
      /\ UNCHANGED <<disk, setting, events, edits, config, configHash, hash, runtime, recent, timer, seen, out, last, stop>>
  BY DEF Filter, diskVars, dispatchVars
<1>2. /\ ~timer /\ \A places : "idle" \notin places => (Reloads(places) <=> at[r] \in places)
      /\ \A p \in Workers : out[p] = Empty
  BY <1>1, Alike
<1>3. /\ at'[r] = "snapshot"
      /\ \A places : "idle" \notin places => (Reloads(places)' <=> "snapshot" \in places)
  BY <1>1, AlikeNext DEF Reloads
<1>4. \A f \in Files : hash'[f] = disk[f] BY <1>1, Scanned
<1>5. /\ current' \in [IDs -> Dispatcher!Values]
      /\ \A i \in IDs : current'[i] = IF i \in Files THEN None ELSE current[i]
  BY <1>1, Made DEF SInv, Stations
<1>6. TaskOf(r)' BY <1>1, <1>3 DEF SInv, Tasks, TaskOf
<1>7. Configured' BY <1>1, <1>2, <1>3 DEF SInv, Configured
<1>8. Shadowed' BY <1>3, <1>5, Kinds DEF Shadowed
<1>9. Sent'
  <2>. SUFFICES ASSUME NEW i \in IDs PROVE SentOf(i)' BY DEF Sent
  <2>1. \A p \in Workers : i \notin DOMAIN out[p] BY <1>2 DEF Empty
  <2>2. ~Filtered(i) BY <1>1, <1>2 DEF Filtered
  <2>3. last[i] = current[i] BY <2>1, <2>2 DEF SInv, Sent, SentOf
  <2>4. CASE i \in Files /\ hash[i] # None
    <3>1. Filtered(i)' BY <1>1, <1>3, <1>5, <2>4 DEF Filtered
    <3>. QED BY <1>1, <2>1, <3>1 DEF SentOf
  <2>5. CASE i \notin Files \/ hash[i] = None
    <3>1. last'[i] = current'[i] BY <1>1, <1>5, <2>3, <2>5 DEF SInv, Shadowed
    <3>. QED BY <1>1, <2>1, <3>1 DEF SentOf
  <2>. QED BY <2>4, <2>5
<1>10. Apart(r) /\ DOMAIN out'[r] = {} /\ out'[r] = Empty
  BY <1>1, <1>2, Kinds DEF SInv, Stations, Apart, Empty
<1>. QED BY <1>1, <1>2, <1>4, <1>5, <1>6, <1>7, <1>8, <1>9, <1>10, ReloadStep DEF SInv, Stations, Places

LEMMA WatchSnapshot == ASSUME SInv, NEW r \in Reloaders, TakeSnapshot(r) PROVE SInv'
<1>1. /\ at[r] = "snapshot" /\ Goto(r, "diff")
      /\ seen' = [seen EXCEPT ![r] = [seen[r] EXCEPT !.auths = Snapshot(config)]]
      /\ UNCHANGED <<disk, setting, events, edits, config, configHash, hash, current, runtime, recent, timer, out, last, stop>>
  BY DEF TakeSnapshot, Hold, diskVars, watcherVars, dispatchVars
<1>2. /\ ~timer /\ \A places : "idle" \notin places => (Reloads(places) <=> at[r] \in places)
      /\ \A p \in Workers : out[p] = Empty
  BY <1>1, Alike
<1>3. /\ at'[r] = "diff"
      /\ \A places : "idle" \notin places => (Reloads(places)' <=> "diff" \in places)
  BY <1>1, AlikeNext DEF Reloads
<1>4. \A f \in Files : hash'[f] = disk[f] BY <1>1, Scanned
<1>5. /\ DOMAIN seen' = Workers /\ seen'[r] = [seen[r] EXCEPT !.auths = Snapshot(config)]
      /\ \A p \in Workers : p # r => seen'[p] = seen[p]
  BY <1>1, Kinds DEF SInv, Stations
<1>6. /\ seen[r] \in [force : BOOLEAN, reload : BOOLEAN, auths : {Empty}]
      /\ ~seen[r].reload => configHash \in {None, config}
  BY <1>1 DEF SInv, Tasks, TaskOf
<1>7. seen'[r].auths = Snapshot(config) /\ seen'[r].reload = seen[r].reload
  <2>. PICK s : s = Snapshot(config) OBVIOUS
  <2>. QED BY <1>5, <1>6
<1>8. Snapshot(config)' = Snapshot(config) BY <1>1, SnapshotSame
<1>9. TaskOf(r)' BY <1>1, <1>3, <1>6, <1>7, <1>8 DEF TaskOf
<1>10. Configured' BY <1>1, <1>2, <1>3 DEF SInv, Configured
<1>11. Shadowed' BY <1>1, <1>3 DEF SInv, Shadowed
<1>12. Sent'
  <2>1. \A i \in IDs : Filtered(i) => Filtered(i)' BY <1>1, <1>3 DEF Filtered
  <2>. QED BY <1>1, <2>1 DEF SInv, Sent, SentOf
<1>13. Apart(r) /\ DOMAIN out'[r] = {} /\ out'[r] = Empty
  BY <1>1, <1>2, <1>5, Kinds DEF SInv, Stations, Apart, Empty
<1>. QED BY <1>1, <1>2, <1>4, <1>9, <1>10, <1>11, <1>12, <1>13, ReloadStep DEF SInv, Stations, Places

LEMMA WatchRehash == ASSUME SInv, NEW r \in Reloaders, Rehash(r) PROVE SInv'
<1>1. /\ at[r] = "rehash" /\ Goto(r, "idle") /\ configHash' = setting
      /\ UNCHANGED <<disk, setting, events, edits, config, hash, current, runtime, recent, timer, seen, out, last, stop>>
  BY DEF Rehash, diskVars, dispatchVars
<1>2. /\ ~timer /\ \A places : "idle" \notin places => (Reloads(places) <=> at[r] \in places)
      /\ \A p \in Workers : out[p] = Empty
  BY <1>1, Alike
<1>3. /\ at'[r] = "idle" /\ \A places : "idle" \notin places => ~Reloads(places)'
  BY <1>1, AlikeNext DEF Reloads
<1>4. \A f \in Files : hash'[f] = disk[f] BY <1>1, Scanned
<1>5. config = setting BY <1>1, <1>2 DEF SInv, Configured
<1>6. TaskOf(r)' BY <1>3 DEF TaskOf
<1>7. Configured' BY <1>1, <1>5 DEF Configured
<1>8. Shadowed' BY <1>1, <1>2, <1>3, ShadowSame DEF SInv, Shadowed
<1>9. Sent'
  <2>1. \A i \in IDs : ~Filtered(i) BY <1>1, <1>2 DEF Filtered
  <2>. QED BY <1>1, <2>1 DEF SInv, Sent, SentOf
<1>10. Apart(r) /\ DOMAIN out'[r] = {} /\ out'[r] = Empty
  BY <1>1, <1>2, Kinds DEF SInv, Stations, Apart, Empty
<1>. QED BY <1>1, <1>2, <1>4, <1>6, <1>7, <1>8, <1>9, <1>10, ReloadStep DEF SInv, Stations, Places

LEMMA WatchDiff == ASSUME SInv, NEW r \in Reloaders, Diff(r) PROVE SInv'
<1>. DEFINE new == NewState(Snapshot(config))
            due == {i \in IDs : new[i] # current[i] \/ (seen[r].force /\ new[i] # None)}
<1>0. at[r] = "diff" /\ seen[r].auths = Snapshot(config) BY DEF Diff, SInv, Tasks, TaskOf
<1>1. /\ Goto(r, "dispatch") /\ current' = new /\ out' = [out EXCEPT ![r] = [i \in due |-> new[i]]]
      /\ UNCHANGED <<disk, setting, events, edits, config, configHash, hash, runtime, recent, timer, seen, last, stop>>
  BY <1>0 DEF Diff, diskVars, dispatchVars
<1>2. /\ ~timer /\ \A places : "idle" \notin places => (Reloads(places) <=> at[r] \in places)
      /\ \A p \in Workers : out[p] = Empty
  BY <1>0, Alike
<1>3. /\ at'[r] = "dispatch"
      /\ \A places : "idle" \notin places => (Reloads(places)' <=> "dispatch" \in places)
  BY <1>0, <1>1, AlikeNext DEF Reloads
<1>4. \A f \in Files : hash[f] = disk[f] /\ disk[f] \in Contents \cup {None}
  BY <1>0, Scanned, Resting DEF SInv, Stations
<1>5. /\ DOMAIN new = IDs
      /\ \A i \in Runtimes : new[i] = runtime[i] /\ Shadow[i] = runtime[i] /\ runtime[i] \in Dispatcher!Values
      /\ \A k \in Keys : new[k] = ConfigAuth(config) /\ Shadow[k] = ConfigAuth(config)
      /\ \A f \in Files : /\ new[f] = IF hash[f] = None THEN None ELSE FileAuth(f, hash[f], config)
                          /\ Shadow[f] = new[f]
  <2>1. DOMAIN Snapshot(config) = {f \in Files : disk[f] \in Contents} \cup Keys BY DEF Snapshot
  <2>2. \A i \in Runtimes : new[i] = runtime[i] /\ Shadow[i] = runtime[i] /\ runtime[i] \in Dispatcher!Values
    BY Kinds DEF NewState, Shadow, SInv, Stations
  <2>3. \A k \in Keys : new[k] = ConfigAuth(config) /\ Shadow[k] = ConfigAuth(config)
    BY <2>1, Kinds DEF NewState, Shadow, Snapshot
  <2>4. ASSUME NEW f \in Files
        PROVE  /\ new[f] = IF hash[f] = None THEN None ELSE FileAuth(f, hash[f], config)
               /\ Shadow[f] = new[f]
    <3>1. f \in IDs /\ f \notin Keys /\ f \notin Runtimes BY Kinds
    <3>2. CASE disk[f] \in Contents
      <4>1. Snapshot(config)[f] = FileAuth(f, disk[f], config) BY <3>1, <3>2 DEF Snapshot
      <4>2. hash[f] # None BY <1>4, <3>2, Made
      <4>. QED BY <1>4, <2>1, <3>1, <3>2, <4>1, <4>2 DEF NewState, Shadow
    <3>3. CASE disk[f] = None
      <4>1. f \notin DOMAIN Snapshot(config) BY <2>1, <3>1, <3>3, Made
      <4>. QED BY <1>4, <3>1, <3>3, <4>1 DEF NewState, Shadow
    <3>. QED BY <1>4, <3>2, <3>3
  <2>5. DOMAIN new = IDs BY DEF NewState
  <2>. QED BY <2>2, <2>3, <2>4, <2>5
<1>6. new = Shadow /\ DOMAIN new = IDs
  <2>1. \A i \in IDs : new[i] = Shadow[i] BY <1>5 DEF IDs
  <2>. QED BY <2>1 DEF NewState, Shadow
<1>7. /\ \A f \in Files : hash[f] # None => new[f] # None
      /\ \A i \in IDs : new[i] \in Dispatcher!Values
  <2>1. config \in Configs BY DEF SInv, Stations
  <2>2. ASSUME NEW f \in Files, hash[f] # None PROVE new[f] # None /\ new[f] \in Dispatcher!Values
    <3>1. hash[f] \in Contents BY <1>4, <2>2
    <3>2. new[f] = FileAuth(f, hash[f], config) BY <1>5, <2>2
    <3>3. FileAuth(f, hash[f], config) # None /\ FileAuth(f, hash[f], config) \in Dispatcher!Values
      BY <2>1, <3>1, Made
    <3>. QED BY <3>2, <3>3
  <2>3. ASSUME NEW f \in Files, hash[f] = None PROVE new[f] \in Dispatcher!Values BY <1>5, <2>3, Made
  <2>4. \A k \in Keys : new[k] \in Dispatcher!Values BY <1>5, <2>1, Made
  <2>5. \A i \in Runtimes : new[i] \in Dispatcher!Values BY <1>5
  <2>. QED BY <2>2, <2>3, <2>4, <2>5 DEF IDs
<1>8. \A f \in Files : hash[f] = None => new[f] = None BY <1>5
<1>9. /\ DOMAIN out' = Workers /\ DOMAIN out'[r] = due /\ \A i \in due : out'[r][i] = new[i]
      /\ \A p \in Workers : p # r => out'[p] = out[p]
  BY <1>1, Kinds DEF SInv, Stations
<1>. HIDE DEF new
<1>10. current' \in [IDs -> Dispatcher!Values]
  <2>1. current' = [i \in IDs |-> new[i]] BY <1>1, <1>6 DEF Shadow
  <2>. QED BY <1>7, <2>1
<1>11. TaskOf(r)' BY <1>0, <1>1, <1>3 DEF SInv, Tasks, TaskOf
<1>12. Configured' BY <1>0, <1>1, <1>2, <1>3 DEF SInv, Configured
<1>13. Shadowed'
  <2>1. Shadow' = Shadow BY <1>1, ShadowSame
  <2>. QED BY <1>1, <1>3, <1>6, <1>8, <2>1 DEF Shadowed
<1>14. Sent'
  <2>. SUFFICES ASSUME NEW i \in IDs PROVE SentOf(i)' BY DEF Sent
  <2>1. \A p \in Workers : i \notin DOMAIN out[p] BY <1>2 DEF Empty
  <2>2. last[i] = current[i] \/ Filtered(i) BY <2>1 DEF SInv, Sent, SentOf
  <2>3. CASE i \in due
    <3>1. i \in DOMAIN out'[r] /\ out'[r][i] = current'[i] BY <1>1, <1>9, <2>3
    <3>2. \A p \in Workers : p # r => i \notin DOMAIN out'[p] BY <1>9, <2>1
    <3>. QED BY <3>1, <3>2, Kinds DEF SentOf
  <2>4. CASE i \notin due
    <3>1. new[i] = current[i] BY <2>4
    <3>2. ~Filtered(i) BY <1>7, <3>1 DEF Filtered
    <3>3. \A p \in Workers : i \notin DOMAIN out'[p] BY <1>9, <2>1, <2>4
    <3>. QED BY <1>1, <2>2, <3>1, <3>2, <3>3 DEF SentOf
  <2>. QED BY <2>3, <2>4
<1>15. Apart(r) BY <1>1, <1>9 DEF SInv, Stations, Apart
<1>16. DOMAIN out'[r] \subseteq IDs BY <1>9
<1>. HIDE DEF due
<1>. QED
  BY <1>0, <1>1, <1>2, <1>4, <1>10, <1>11, <1>12, <1>13, <1>14, <1>15, <1>16, ReloadStep DEF SInv,
     Stations, Places

------------------------------------------------------------------------------
(* The dispatch *)

\* The updates of a dispatch are the last ones of their IDs.
LEMMA EnqueueLast ==
  ASSUME stop = "no", DOMAIN last = IDs, NEW new, DOMAIN new \subseteq IDs, Dispatcher!Enqueue(new)
  PROVE  /\ stop' = "no"
         /\ \A i \in IDs : last'[i] = IF i \in DOMAIN new THEN new[i] ELSE last[i]
<1>1. CASE new = Dispatcher!Empty
  <2>1. UNCHANGED Dispatcher!vars /\ DOMAIN new = {} BY <1>1 DEF Dispatcher!Enqueue, Dispatcher!Empty
  <2>. QED BY <2>1 DEF Dispatcher!vars
<1>2. CASE new # Dispatcher!Empty
  <2>1. last' = Dispatcher!Merged(new, last) /\ stop' = stop BY <1>2 DEF Dispatcher!Enqueue
  <2>. QED BY <2>1 DEF Dispatcher!Merged
<1>. QED BY <1>1, <1>2

LEMMA DispatchSent ==
  ASSUME SInv, DOMAIN last = IDs, NEW p \in Workers, at[p] = "dispatch", Dispatcher!Enqueue(out[p]),
         out' = [out EXCEPT ![p] = Empty], current' = current,
         \A i \in IDs : ~Filtered(i)
  PROVE  /\ Sent' /\ stop' = "no" /\ DOMAIN out' = Workers /\ out'[p] = Empty /\ DOMAIN out'[p] = {}
         /\ \A q \in Workers : q # p => out'[q] = out[q]
<1>1. DOMAIN out[p] \subseteq IDs BY Kinds DEF SInv, Stations
<1>2. PICK new : new = out[p] OBVIOUS
<1>3. /\ stop' = "no"
      /\ \A i \in IDs : last'[i] = IF i \in DOMAIN new THEN new[i] ELSE last[i]
  BY <1>1, <1>2, EnqueueLast DEF SInv
<1>4. /\ DOMAIN out' = Workers /\ out'[p] = Empty /\ DOMAIN out'[p] = {}
      /\ \A q \in Workers : q # p => out'[q] = out[q]
  BY DEF SInv, Stations, Empty
<1>5. Sent'
  <2>. SUFFICES ASSUME NEW i \in IDs PROVE SentOf(i)' BY DEF Sent
  <2>1. /\ \A q \in Workers : i \in DOMAIN out[q] => out[q][i] = current[i]
        /\ (\A q \in Workers : i \notin DOMAIN out[q]) => last[i] = current[i]
    BY DEF SInv, Sent, SentOf
  <2>2. ASSUME \A q \in Workers : i \notin DOMAIN out'[q] PROVE last'[i] = current'[i]
    <3>1. CASE i \in DOMAIN new BY <1>2, <1>3, <2>1, <3>1
    <3>2. CASE i \notin DOMAIN new
      <4>1. \A q \in Workers : i \notin DOMAIN out[q] BY <1>2, <1>4, <2>2, <3>2
      <4>. QED BY <1>3, <2>1, <3>2, <4>1
    <3>. QED BY <3>1, <3>2
  <2>3. \A q \in Workers : i \in DOMAIN out'[q] => out'[q][i] = current'[i] BY <1>4, <2>1
  <2>. QED BY <2>2, <2>3 DEF SentOf
<1>. QED BY <1>3, <1>4, <1>5

LEMMA WatchDispatch == ASSUME SInv, DOMAIN last = IDs, NEW p \in Workers, Dispatch(p) PROVE SInv'
<1>. DEFINE place == IF p \in Reloaders /\ seen[p].reload THEN "rehash" ELSE "idle"
<1>1. /\ at[p] = "dispatch" /\ Dispatcher!Enqueue(out[p]) /\ out' = [out EXCEPT ![p] = Empty] /\ Goto(p, place)
      /\ UNCHANGED <<disk, setting, events, edits, config, configHash, hash, current, runtime, recent, timer, seen>>
  BY DEF Dispatch, diskVars, watcherVars
<1>2. /\ place \in {"rehash", "idle"}
      /\ p \notin Reloaders => place = "idle"
      /\ p \in Reloaders /\ ~seen[p].reload => place = "idle"
      /\ p \in Reloaders /\ seen[p].reload => place = "rehash"
  OBVIOUS
<1>. HIDE DEF place
<1>3. \A i \in IDs : ~Filtered(i)
  <2>1. CASE p \in Reloaders BY <1>1, <2>1, Alike DEF Filtered
  <2>2. CASE p \notin Reloaders BY <1>1, <2>2, AtWork, Between
  <2>. QED BY <2>1, <2>2
<1>4. /\ Sent' /\ stop' = "no" /\ DOMAIN out' = Workers /\ out'[p] = Empty /\ DOMAIN out'[p] = {}
      /\ \A q \in Workers : q # p => out'[q] = out[q]
  BY <1>1, <1>3, DispatchSent
<1>5. DOMAIN at' = Workers /\ at'[p] = place /\ \A q \in Workers : q # p => at'[q] = at[q]
  BY <1>1 DEF Goto, SInv, Stations
<1>6. CASE p \notin Reloaders
  <2>0. ~Reloading BY <1>1, <1>6, AtWork
  <2>1. at'[p] = "idle" /\ \A r \in Reloaders : at'[r] = at[r] BY <1>2, <1>5, <1>6, Kinds
  <2>2. Phases' /\ Tasks' /\ Configured' BY <1>1, <2>0, <2>1, WorkFrame
  <2>3. Stations'
    <3>1. at'[Handler] \in {"idle", "stat", "read", "update", "drop", "dispatch"} /\ DOMAIN out'[Handler] \subseteq Files
      BY <1>2, <1>4, <1>5, <1>6, Kinds DEF SInv, Stations
    <3>2. \A i \in Runtimes : at'[i] \in {"idle", "dispatch"} /\ DOMAIN out'[i] \subseteq {i}
      BY <1>4, <1>5, <2>1, Kinds DEF SInv, Stations
    <3>3. \A r \in Reloaders : at'[r] = at[r] /\ DOMAIN out'[r] \subseteq IDs
      BY <1>4, <1>6, <2>1, Kinds DEF SInv, Stations
    <3>4. \A q \in Workers : at'[q] # "dispatch" => out'[q] = Empty BY <1>4, <1>5 DEF SInv, Stations
    <3>5. at'[Handler] \in {"stat", "read", "update", "drop"} => at'[Handler] = at[Handler]
      BY <1>5, <2>1, Kinds
    <3>. QED BY <1>1, <1>4, <1>5, <3>1, <3>2, <3>3, <3>4, <3>5 DEF SInv, Stations
  <2>4. Handled'
    <3>1. at'[Handler] = "idle" \/ at'[Handler] = at[Handler] BY <1>5, <2>1, Kinds
    <3>. QED BY <1>1, <3>1 DEF SInv, Handled
  <2>5. Known'
    <3>. SUFFICES ASSUME NEW g \in Files PROVE KnownOf(g)' BY DEF Known
    <3>1. KnownOf(g) BY <2>0, Between
    <3>2. at[Handler] = "dispatch" \/ at'[Handler] = at[Handler] BY <1>1, <1>5, Kinds
    <3>. QED BY <1>1, <3>1, <3>2 DEF KnownOf, Attended
  <2>6. Shadowed'
    <3>1. current' = Shadow' BY <1>1, <2>0, Between, ShadowSame
    <3>2. ~Reloads({"rescan"})' BY <2>0, <2>1, Between DEF Reloads
    <3>. QED BY <1>1, <3>1, <3>2 DEF SInv, Shadowed
  <2>. QED BY <1>1, <1>4, <2>2, <2>3, <2>4, <2>5, <2>6 DEF SInv
<1>7. CASE p \in Reloaders
  <2>1. ~timer /\ \A places : "idle" \notin places => (Reloads(places) <=> at[p] \in places)
    BY <1>1, <1>7, Alike
  <2>2. at'[p] = place /\ \A places : "idle" \notin places => (Reloads(places)' <=> place \in places)
    BY <1>1, <1>7, AlikeNext DEF Reloads
  <2>3. \A f \in Files : hash'[f] = disk[f] BY <1>1, <1>7, Scanned
  <2>4. TaskOf(p)' BY <1>2, <2>2 DEF TaskOf
  <2>5. Configured'
    <3>1. config = setting BY <1>1, <2>1 DEF SInv, Configured
    <3>2. ~seen[p].reload => configHash \in {None, config} BY <1>1, <1>7 DEF SInv, Tasks, TaskOf
    <3>. QED BY <1>1, <1>2, <1>7, <2>2, <3>1, <3>2 DEF Configured
  <2>6. Shadowed'
    <3>1. current = Shadow BY <1>1, <2>1 DEF SInv, Shadowed
    <3>2. Shadow' = Shadow BY <1>1, ShadowSame
    <3>3. ~Reloads({"rescan"})' BY <1>2, <2>2
    <3>. QED BY <1>1, <3>1, <3>2, <3>3 DEF SInv, Shadowed
  <2>7. Apart(p) BY <1>1, <1>4 DEF SInv, Stations, Apart
  <2>8. place \in Places BY <1>2 DEF Places
  <2>9. stop' = stop BY <1>4 DEF SInv
  <2>. QED
    BY <1>1, <1>4, <1>7, <2>1, <2>3, <2>4, <2>5, <2>6, <2>7, <2>8, <2>9, ReloadStep DEF SInv, Stations
<1>. QED BY <1>6, <1>7

\* The dispatcher and the service change nothing of the watcher's.
LEMMA WatchIdle ==
  ASSUME SInv, UNCHANGED <<diskVars, watcherVars, workVars, last, stop>>
  PROVE  SInv'
<1>1. UNCHANGED <<disk, setting, events, edits, config, configHash, hash, current, runtime, recent, timer, at, seen, out, last, stop>>
  BY DEF diskVars, watcherVars, workVars
<1>2. Stations' BY <1>1 DEF SInv, Stations
<1>3. Phases' BY <1>1 DEF SInv, Phases, Reloading, Handling, Writing
<1>4. Tasks' BY <1>1, SnapshotSame DEF SInv, Tasks, TaskOf
<1>5. Configured' BY <1>1 DEF SInv, Configured, Reloads
<1>6. Sound(events', disk', recent') BY <1>1 DEF SInv
<1>7. Handled' BY <1>1 DEF SInv, Handled
<1>8. Known' BY <1>1 DEF SInv, Known, KnownOf, Attended, Reloads
<1>9. Shadowed' /\ Sent' BY <1>1, ShadowSame DEF SInv, Shadowed, Sent, SentOf, Filtered, Reloads
<1>. QED BY <1>1, <1>2, <1>3, <1>4, <1>5, <1>6, <1>7, <1>8, <1>9 DEF SInv

LEMMA WatchDeliver == ASSUME SInv, Deliver PROVE SInv'
<1>1. UNCHANGED <<last, stop>>
  BY DEF Deliver, Dispatcher!Loop, Dispatcher!Sleep, Dispatcher!Woken, Dispatcher!TakeBatch,
     Dispatcher!Forward,
     Dispatcher!Abandon, Dispatcher!Consume
<1>. QED BY <1>1, WatchIdle DEF Deliver

------------------------------------------------------------------------------
(* The watcher's dispatcher is one of the dispatchers above *)

LEMMA Bounded == Limits(IDs) /\ None \in Dispatcher!Values
BY DispatcherConstants DEF Dispatcher!DispatchAssumption, Dispatcher!IsFiniteSet, IsFiniteSet, Limits,
   Dispatcher!Values

LEMMA SameInit == ASSUME Dispatcher!Init PROVE Begins(IDs)
BY DEF Dispatcher!Init, Dispatcher!Empty, Begins

LEMMA SameEnqueue == ASSUME NEW new, Dispatcher!Enqueue(new) PROVE Alone!Enqueue(new)
<1>1. \A S : Dispatcher!SetToSeqs(S) = Alone!SetToSeqs(S)
  BY DEF Dispatcher!SetToSeqs, Alone!SetToSeqs, Dispatcher!Injection, Alone!Injection,
     Dispatcher!IsInjective, Alone!IsInjective, Dispatcher!Cardinality, Alone!Cardinality
<1>. QED
  BY <1>1 DEF Dispatcher!Enqueue, Alone!Enqueue, Dispatcher!Merged, Alone!Merged, Dispatcher!Wake,
     Alone!Wake,
     Dispatcher!Empty, Alone!Empty, Dispatcher!vars, Alone!vars

LEMMA SameLoop == ASSUME Dispatcher!Loop \/ Dispatcher!Consume PROVE Alone!Loop \/ Alone!Consume
BY DEF Dispatcher!Loop, Dispatcher!Sleep, Dispatcher!Woken, Dispatcher!TakeBatch, Dispatcher!Forward,
     Dispatcher!Abandon, Dispatcher!Consume, Dispatcher!Cancelled, Dispatcher!Updates, Dispatcher!Empty,
     Alone!Loop, Alone!Sleep, Alone!Woken, Alone!TakeBatch, Alone!Forward, Alone!Abandon, Alone!Consume,
     Alone!Cancelled, Alone!Updates, Alone!Empty

LEMMA SameDispatch ==
  ASSUME SInv, NEW p \in Workers, Dispatch(p)
  PROVE  Moves(IDs, Dispatcher!Values)
<1>1. Alone!Enqueue(out[p]) BY SameEnqueue DEF Dispatch
<1>2. DOMAIN out[p] \subseteq IDs BY Kinds DEF SInv, Stations
<1>3. \A i \in DOMAIN out[p] : out[p][i] \in Dispatcher!Values BY <1>2 DEF SInv, Sent, SentOf, Stations
<1>. QED BY <1>1, <1>2, <1>3 DEF Moves, Offers

------------------------------------------------------------------------------
(* The whole *)

LEMMA WatchInit == ASSUME Init PROVE WInv
<1>1. Latest(IDs, Dispatcher!Values) BY Bounded, SameInit, LatestInit DEF Init
<1>2. /\ disk \in [Files -> Contents \cup {None}] /\ setting \in Configs /\ events = <<>> /\ edits = 0
      /\ config = setting /\ configHash = None /\ hash = [f \in Files |-> None]
      /\ current = [i \in IDs |-> None] /\ runtime = [i \in Runtimes |-> None] /\ recent = {} /\ timer = FALSE
      /\ at = [p \in Workers |-> IF p = Main THEN "rescan" ELSE "idle"]
      /\ seen = [p \in Workers |-> IF p = Main THEN Task(FALSE, FALSE) ELSE None]
      /\ out = [p \in Workers |-> <<>>]
      /\ stop = "no" /\ last = [i \in IDs |-> None]
  BY DEF Init, Dispatcher!Init, Empty
<1>3. Main \in Reloaders /\ Main \in Workers /\ Main # Handler /\ Main \notin Runtimes
  BY WatcherAssumption, Kinds
<1>4. /\ at[Main] = "rescan" /\ \A p \in Workers : p # Main => at[p] = "idle"
      /\ seen[Main] = Task(FALSE, FALSE) /\ \A p \in Workers : out[p] = <<>> /\ DOMAIN out[p] = {}
  BY <1>2, <1>3
<1>5. Stations
  <2>1. at[Handler] = "idle" /\ (\A i \in Runtimes : at[i] = "idle") /\ \A r \in Reloaders : at[r] \in {"idle", "rescan"}
    BY <1>3, <1>4, Kinds
  <2>2. \A r \in Workers : DOMAIN out[r] = {} /\ out[r] = Empty BY <1>4 DEF Empty
  <2>3. edits \in 0..MaxEdits BY <1>2, WatcherAssumption
  <2>4. current \in [IDs -> Dispatcher!Values] /\ runtime \in [Runtimes -> Dispatcher!Values]
    BY <1>2, Bounded
  <2>5. disk \in [Files -> Contents \cup {None, Blank}] BY <1>2
  <2>6. hash \in [Files -> Contents \cup {None}] BY <1>2
  <2>7. events \in Seq(Event) /\ recent \subseteq Files /\ timer \in BOOLEAN /\ config \in Configs
    <3>1. events = <<>> /\ recent = {} /\ timer = FALSE /\ config = setting /\ setting \in Configs BY <1>2
    <3>2. events \in Seq(Event) BY <3>1
    <3>. QED BY <3>1, <3>2
  <2>8. DOMAIN at = Workers /\ DOMAIN seen = Workers /\ DOMAIN out = Workers BY <1>2
  <2>9. /\ \A r \in Reloaders : DOMAIN out[r] \subseteq IDs
        /\ \A i \in Runtimes : DOMAIN out[i] \subseteq {i}
        /\ DOMAIN out[Handler] \subseteq Files
    BY <2>2, Kinds
  <2>10. configHash \in Configs \cup {None} BY <1>2
  <2>. QED BY <1>2, <2>1, <2>2, <2>3, <2>4, <2>5, <2>6, <2>7, <2>8, <2>9, <2>10 DEF Stations
<1>6. Phases
  <2>1. ~Handling BY <1>2, <1>3, <1>4 DEF Handling
  <2>2. ~Writing
    <3>1. \A f \in Files : disk[f] \in Contents \cup {None} BY <1>2
    <3>. QED BY <3>1, Made DEF Writing
  <2>. QED BY <1>2, <1>3, <1>4, <2>1, <2>2, Kinds DEF Phases
<1>7. Tasks
  <2>. SUFFICES ASSUME NEW r \in Reloaders PROVE TaskOf(r) BY DEF Tasks
  <2>1. CASE r = Main
    <3>0. Task(FALSE, FALSE) \in [force : BOOLEAN, reload : BOOLEAN, auths : {Empty}] BY DEF Task
    <3>1. seen[r] \in [force : BOOLEAN, reload : BOOLEAN, auths : {Empty}] BY <1>4, <2>1, <3>0
    <3>. QED BY <1>2, <1>4, <2>1, <3>1 DEF TaskOf
  <2>2. CASE r # Main BY <1>4, <2>2, Kinds DEF TaskOf
  <2>. QED BY <2>1, <2>2
<1>8. Configured BY <1>2 DEF Configured
<1>9. Sound(events, disk, recent) BY <1>2 DEF Sound
<1>10. Handled BY <1>3, <1>4, Kinds DEF Handled
<1>11. Reloads({"rescan"}) BY <1>3, <1>4 DEF Reloads
<1>12. Known BY <1>11 DEF Known
<1>13. Shadowed
  <2>1. Reloads({"rescan", "filter", "snapshot", "diff"}) BY <1>3, <1>4 DEF Reloads
  <2>. QED BY <1>2, <2>1, Kinds DEF Shadowed
<1>14. Sent
  <2>1. \A i \in IDs : last[i] = current[i] BY <1>2
  <2>. QED BY <1>4, <2>1 DEF Sent, SentOf
<1>15. Located BY <1>2 DEF Located
<1>. QED BY <1>1, <1>2, <1>5, <1>6, <1>7, <1>8, <1>9, <1>10, <1>12, <1>13, <1>14, <1>15 DEF WInv, SInv

LEMMA WatchHandle == ASSUME SInv, HandleEvent PROVE SInv'
BY WatchTakeWrite, WatchTakeRemove, WatchStat, WatchRead, WatchUpdate, WatchDrop DEF HandleEvent

LEMMA WatchReload == ASSUME SInv, NEW r \in Reloaders, Reload(r) PROVE SInv'
BY WatchRescan, WatchFire, WatchLoad, WatchSet, WatchFilter, WatchSnapshot, WatchDiff,
   WatchRehash DEF Reload

LEMMA WatchUser == ASSUME SInv, Orderly, User PROVE SInv'
BY WatchWriteFile, WatchReplaceFile, WatchRemoveFile, WatchWindow, WatchWriteConfig, WatchReport DEF User

\* Everything but a dispatch and a delivery leaves the dispatcher alone.
LEMMA Undisturbed ==
  ASSUME User \/ HandleEvent \/ \E r \in Reloaders : Reload(r)
  PROVE  UNCHANGED dispatchVars
BY DEF User, WriteFile, ReplaceFile, RemoveFile, WindowEnds, WriteConfig, ReportRuntime, HandleEvent,
   TakeWrite,
     TakeRemove, Stat, Read, Update, Drop, Reload, Rescan, Fire, LoadConfig, SetConfig, Filter, TakeSnapshot,
     Diff, Rehash

\* Whoever moves, moves alone.
LEMMA Moved == ASSUME Next PROVE UNCHANGED at \/ \E p, place : Goto(p, place)
<1>1. CASE User
  BY <1>1 DEF User, WriteFile, ReplaceFile, RemoveFile, WindowEnds, WriteConfig, ReportRuntime, workVars
<1>2. CASE HandleEvent BY <1>2 DEF HandleEvent, TakeWrite, TakeRemove, Stat, Read, Update, Drop
<1>3. CASE \E r \in Reloaders : Reload(r)
  BY <1>3 DEF Reload, Rescan, Fire, LoadConfig, SetConfig, Filter, TakeSnapshot, Diff, Rehash
<1>4. CASE \E p \in Workers : Dispatch(p) BY <1>4 DEF Dispatch
<1>5. CASE Deliver BY <1>5 DEF Deliver, workVars
<1>. QED BY <1>1, <1>2, <1>3, <1>4, <1>5 DEF Next, System

LEMMA LocatedNext == ASSUME SInv, Located, [Next]_vars PROVE Located'
<1>1. CASE UNCHANGED at BY <1>1 DEF Located
<1>2. ASSUME NEW p, NEW place, Goto(p, place) PROVE Located'
  <2>1. at' = [q \in Workers |-> IF q = p THEN place ELSE at[q]] BY <1>2 DEF Goto, SInv, Stations
  <2>. QED BY <2>1 DEF Located
<1>. QED BY <1>1, <1>2, Moved DEF vars, workVars

LEMMA WatchNext == ASSUME WInv, Orderly, [Next]_vars PROVE WInv'
<1>0. SInv /\ Located /\ Latest(IDs, Dispatcher!Values) /\ DOMAIN last = IDs BY DEF WInv, Latest, Typing
<1>1. SInv'
  <2>1. CASE User BY <1>0, <2>1, WatchUser
  <2>2. CASE HandleEvent BY <1>0, <2>2, WatchHandle
  <2>3. ASSUME NEW r \in Reloaders, Reload(r) PROVE SInv' BY <1>0, <2>3, WatchReload
  <2>4. ASSUME NEW p \in Workers, Dispatch(p) PROVE SInv' BY <1>0, <2>4, WatchDispatch
  <2>5. CASE Deliver BY <1>0, <2>5, WatchDeliver
  <2>6. CASE UNCHANGED vars
    <3>1. UNCHANGED <<diskVars, watcherVars, workVars, last, stop>> BY <2>6 DEF vars, dispatchVars
    <3>. QED BY <1>0, <3>1, WatchIdle
  <2>. QED BY <2>1, <2>2, <2>3, <2>4, <2>5, <2>6 DEF Next, System
<1>2. Moves(IDs, Dispatcher!Values)
  <2>1. CASE UNCHANGED dispatchVars BY <2>1 DEF dispatchVars, Moves, Alone!vars
  <2>2. ASSUME NEW p \in Workers, Dispatch(p)
        PROVE  Moves(IDs, Dispatcher!Values) BY <1>0, <2>2, SameDispatch
  <2>3. CASE Deliver BY <2>3, SameLoop DEF Deliver, Moves
  <2>4. UNCHANGED vars => UNCHANGED dispatchVars BY DEF vars
  <2>. QED BY <2>1, <2>2, <2>3, <2>4, Undisturbed DEF Next, System
<1>3. Latest(IDs, Dispatcher!Values)' BY <1>0, <1>2, Bounded, LatestNext
<1>4. Located' BY <1>0, LocatedNext
<1>. QED BY <1>1, <1>3, <1>4 DEF WInv

\* Nothing is on its way: the service has the last updates.
LEMMA Arrived ==
  ASSUME Latest(IDs, Dispatcher!Values), stop = "no", order = <<>>, batch = <<>>, queue = <<>>
  PROVE  \A i \in IDs : applied[i] = last[i]
<1>1. Alone!InFlight = <<>>
  <2>1. Alone!Updates = <<>> BY DEF Alone!Updates
  <2>. QED BY <2>1 DEF Alone!InFlight
<1>. QED BY <1>1 DEF Latest, Agrees

LEMMA WatchTrue == ASSUME WInv PROVE FollowsDisk /\ FollowsConfig
<1>0. SInv /\ Located /\ Latest(IDs, Dispatcher!Values) BY DEF WInv
<1>1. TypeOK
  <2>1. Dispatcher!TypeOK BY <1>0 DEF Latest, Typing, Updating, Dispatcher!TypeOK, Dispatcher!Update
  <2>2. at \in [Workers -> {"idle", "stat", "read", "update", "drop", "rescan", "load", "set",
                            "filter", "snapshot", "diff", "dispatch", "rehash"}]
    <3>1. \A p \in Workers : at[p] \in {"idle", "stat", "read", "update", "drop", "rescan", "load", "set",
                                        "filter", "snapshot", "diff", "dispatch", "rehash"}
      BY <1>0, Kinds DEF SInv, Stations
    <3>. QED BY <1>0, <3>1 DEF Located
  <2>3. \A p \in Workers : DOMAIN out[p] \subseteq IDs /\ (at[p] # "dispatch" => out[p] = Empty)
    BY <1>0, Kinds DEF SInv, Stations
  <2>. QED BY <1>0, <2>1, <2>2, <2>3 DEF TypeOK, SInv, Stations, Event
<1>. SUFFICES ASSUME Quiescent
              PROVE  /\ config = setting
                     /\ \A i \in IDs \ {f \in Files : disk[f] = Blank} : applied[i] = NewState(Snapshot(config))[i]
  BY <1>1 DEF FollowsDisk, FollowsConfig
<1>2. ~Reloading /\ ~Handling BY DEF Quiescent
<1>3. /\ config = setting /\ current = Shadow /\ \A i \in IDs : ~Filtered(i)
      /\ \A f \in Files : KnownOf(f)
  BY <1>0, <1>2, Between
<1>4. /\ events = <<>> /\ at[Handler] = "idle" /\ \A p \in Workers : out[p] = <<>>
  <2>1. events = <<>> /\ \A p \in Workers \ Reloaders : at[p] = "idle" BY <1>2 DEF Handling
  <2>2. \A p \in Workers : at[p] = "idle" BY <1>0, <1>2, <2>1, Between
  <2>. QED BY <1>0, <2>1, <2>2, Kinds DEF SInv, Stations, Empty
<1>5. \A f \in Files : disk[f] = Blank \/ hash[f] = disk[f] BY <1>3, <1>4 DEF KnownOf, Attended, In
<1>6. ASSUME NEW i \in IDs, i \notin {f \in Files : disk[f] = Blank}
      PROVE  applied[i] = NewState(Snapshot(config))[i]
  <2>1. applied[i] = last[i] BY <1>0, Arrived DEF Quiescent, SInv
  <2>2. last[i] = current[i]
    <3>1. \A p \in Workers : i \notin DOMAIN out[p] BY <1>4
    <3>. QED BY <1>0, <1>3, <3>1 DEF SInv, Sent, SentOf
  <2>3. Shadow[i] = NewState(Snapshot(config))[i]
    <3>0. DOMAIN Snapshot(config) = {f \in Files : disk[f] \in Contents} \cup Keys BY DEF Snapshot
    <3>1. CASE i \in Runtimes BY <3>1 DEF Shadow, NewState
    <3>2. CASE i \in Keys BY <3>0, <3>2, Kinds DEF Shadow, NewState, Snapshot
    <3>3. CASE i \in Files
      <4>1. i \notin Keys /\ i \notin Runtimes BY <3>3, Kinds
      <4>2. hash[i] = disk[i] /\ disk[i] \in Contents \cup {None}
        BY <1>0, <1>5, <1>6, <3>3 DEF SInv, Stations
      <4>3. CASE disk[i] \in Contents
        <5>1. Snapshot(config)[i] = FileAuth(i, disk[i], config) BY <3>3, <4>1, <4>3 DEF Snapshot
        <5>2. hash[i] # None BY <4>2, <4>3, Made
        <5>. QED BY <3>0, <3>3, <4>1, <4>2, <4>3, <5>1, <5>2 DEF Shadow, NewState
      <4>4. CASE disk[i] = None
        <5>1. i \notin DOMAIN Snapshot(config) BY <3>0, <4>1, <4>4, Made
        <5>. QED BY <4>1, <4>2, <4>4, <5>1 DEF Shadow, NewState
      <4>. QED BY <4>2, <4>3, <4>4
    <3>. QED BY <3>1, <3>2, <3>3 DEF IDs
  <2>. QED BY <1>3, <2>1, <2>2, <2>3
<1>. QED BY <1>3, <1>6

\* If the user edits no file while a reload is under way, and removes none within a second of
\* its last removal, then whenever every event is handled, no reload is due and nothing is on
\* its way, the service has exactly the auths of the files, of the configuration in use and
\* of the runtime providers, and that configuration is the file's: whatever the goroutines of
\* internal/watcher (processEvents, the debounce timer's, the runtime providers' and the
\* dispatcher's) did in whatever order with the caches under clientsMutex.
THEOREM ServiceFollowsFiles ==
  ASSUME ~Overlap, ~Hurried
  PROVE  AllSpec => []FollowsFiles
<1>. DEFINE Inv == subject = "watcher" => WInv
<1>0. Orderly BY DEF Orderly
<1>1. AllInit => Inv BY WatchInit DEF AllInit
<1>2. Inv /\ [AllNext]_<<subject, vars, lifecycleVars>> => Inv'
  <2>. SUFFICES ASSUME Inv, [AllNext]_<<subject, vars, lifecycleVars>>, subject' = "watcher" PROVE WInv'
    OBVIOUS
  <2>1. subject = "watcher" BY DEF AllNext
  <2>2. [Next]_vars BY <2>1 DEF AllNext
  <2>. QED BY <1>0, <2>1, <2>2, WatchNext
<1>3. Inv => FollowsFiles BY WatchTrue DEF FollowsFiles
<1>. QED BY <1>1, <1>2, <1>3, PTL DEF AllSpec
=============================================================================
