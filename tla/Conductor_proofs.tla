-------------------------- MODULE Conductor_proofs --------------------------
(***************************************************************************)
(* TLAPS proofs about Conductor, for any finite sets of requests and       *)
(* operators, any auths, models and outcomes, and any bound on the         *)
(* credentials a request tries; and about OAuthSessions, which MCConductor *)
(* composes with it, for any logins (finitely or infinitely many), any     *)
(* plan of providers that satisfies OAuthAssumption, any number of         *)
(* callbacks and any bounds on time: the ports are those of the table, and *)
(* a client is told what happened.                                         *)
(***************************************************************************)
EXTENDS Conductor, FiniteSetTheorems, TLAPS

Labels == {"idle", "pick", "repick", "rebuild", "execute", "handoff", "marks", "suspend", "done", "refused", "store"}
Telling == {"handoff", "marks", "suspend"}

Jobs == [auth : Auths \cup {NoAuth}, model : Models \cup {"none"}, tried : SUBSET Auths,
         outcome : Outcomes \cup {"none"}, rec : Record, snapshot : {<<>>} \cup [Auths -> Record]]

TypeInv ==
  /\ TypeOK
  /\ job \in [Procs -> Jobs]
  /\ pc \in [Procs -> Labels]
  /\ \A r \in Requests : /\ pc[r] # "store"
                         /\ pc[r] # "idle" => job[r].model \in Models
                         /\ pc[r] \in Telling \cup {"execute"} => job[r].auth \in Auths
                         /\ pc[r] \in Telling => job[r].outcome \in Outcomes
                         /\ pc[r] = "rebuild" => job[r].snapshot \in [Auths -> Record]
  /\ \A o \in Operators : /\ pc[o] \in {"idle", "store", "handoff"}
                          /\ pc[o] # "idle" => job[o].auth \in Auths
  /\ usable \in [Requests -> SUBSET Auths]
  /\ overlapped \in [Auths -> SUBSET {"scheduler", "registry"}]

------------------------------------------------------------------------------
(* Records and jobs *)

LEMMA RecordParts ==
  ASSUME NEW rec \in Record
  PROVE  rec.disabled \in BOOLEAN /\ rec.last \in [Models -> Outcomes \cup {"success"}]
         /\ rec.exceeded \in [Models -> BOOLEAN]
  BY DEF Record

LEMMA FreshRecord == Fresh \in Record /\ NoEntry \in Record /\ NoEntry.disabled /\ ~Fresh.disabled
<1>1. Fresh \in Record /\ ~Fresh.disabled BY DEF Fresh, Record
<1>2. NoEntry \in Record /\ NoEntry.disabled BY <1>1 DEF NoEntry, Record
<1>. QED BY <1>1, <1>2

LEMMA EntryRecord ==
  ASSUME NEW rec \in Record
  PROVE  entry(rec) \in Record /\ (entry(rec).disabled => entry(rec) = NoEntry)
         /\ \A m \in Models : Serves(rec, m) => Serves(entry(rec), m)
  BY FreshRecord DEF entry, Serves

LEMMA RecordedRecord ==
  ASSUME NEW rec \in Record, NEW m \in Models, NEW o \in Outcomes
  PROVE  /\ recorded(rec, m, o) \in Record
         /\ recorded(rec, m, o).exceeded =
              [rec.exceeded EXCEPT ![m] = IF o = "success" THEN FALSE ELSE o = "quota" \/ rec.exceeded[m]]
  BY DEF recorded, Record

LEMMA NoJobType == NoJob \in Jobs
<1>1. NoAuth \in Auths \cup {NoAuth} /\ "none" \in Models \cup {"none"} /\ {} \in SUBSET Auths
      /\ "none" \in Outcomes \cup {"none"} /\ <<>> \in {<<>>} \cup [Auths -> Record]
  OBVIOUS
<1>. QED BY <1>1, FreshRecord DEF NoJob, Jobs

LEMMA Parts ==
  ASSUME TypeInv, NEW p \in Procs
  PROVE  /\ job[p] \in Jobs
         /\ job[p] \in [auth : Auths \cup {NoAuth}, model : Models \cup {"none"}, tried : SUBSET Auths,
                        outcome : Outcomes \cup {"none"}, rec : Record, snapshot : {<<>>} \cup [Auths -> Record]]
         /\ job[p].rec \in Record /\ pc[p] \in Labels
  BY DEF TypeInv, Jobs

LEMMA Tables ==
  ASSUME TypeInv
  PROVE  /\ auths \in [Auths -> Record] /\ sched \in [Auths -> Record]
         /\ marks \subseteq Auths \X Models /\ suspended \in [Auths \X Models -> {"none", "quota", "denied"}]
         /\ \A a \in Auths : sched[a].disabled => sched[a] = NoEntry
  BY DEF TypeInv, TypeOK

\* What the processes have in common: p moves to l, and the histories are kept.
LEMMA Moved ==
  ASSUME TypeInv, NEW p \in Procs, NEW l \in Labels, Goto(p, l)
  PROVE  pc'[p] = l /\ pc' \in [Procs -> Labels] /\ \A q \in Procs : q # p => pc'[q] = pc[q]
  BY DEF TypeInv, Goto

LEMMA TypeStep ==
  ASSUME TypeInv, NEW p \in Procs, NEW l \in Labels, Goto(p, l), Observe,
         job' \in [Procs -> Jobs], \A q \in Procs : q # p => job'[q] = job[q], TypeOK',
         p \in Requests => /\ l # "store"
                           /\ l # "idle" => job'[p].model \in Models
                           /\ l \in Telling \cup {"execute"} => job'[p].auth \in Auths
                           /\ l \in Telling => job'[p].outcome \in Outcomes
                           /\ l = "rebuild" => job'[p].snapshot \in [Auths -> Record],
         p \in Operators => /\ l \in {"idle", "store", "handoff"}
                            /\ l # "idle" => job'[p].auth \in Auths
  PROVE  TypeInv'
<1>1. pc'[p] = l /\ pc' \in [Procs -> Labels] /\ \A q \in Procs : q # p => pc'[q] = pc[q] BY Moved
<1>2. usable' \in [Requests -> SUBSET Auths]
  <2>1. UsableFor(p)' \subseteq Auths /\ \A r \in Requests : UsableFor(r)' \subseteq Auths BY DEF UsableFor
  <2>2. \A r \in Requests : usable[r] \subseteq Auths BY DEF TypeInv
  <2>. QED BY <2>1, <2>2 DEF Observe
<1>3. overlapped' \in [Auths -> SUBSET {"scheduler", "registry"}]
  <2>1. \A a \in Auths : overlapped[a] \subseteq {"scheduler", "registry"} BY DEF TypeInv
  <2>. QED BY <2>1 DEF Observe
<1>4. ASSUME NEW r \in Requests
      PROVE  /\ pc'[r] # "store"
             /\ pc'[r] # "idle" => job'[r].model \in Models
             /\ pc'[r] \in Telling \cup {"execute"} => job'[r].auth \in Auths
             /\ pc'[r] \in Telling => job'[r].outcome \in Outcomes
             /\ pc'[r] = "rebuild" => job'[r].snapshot \in [Auths -> Record]
  <2>1. r \in Procs BY DEF Procs
  <2>2. CASE r = p BY <1>1, <2>2
  <2>3. CASE r # p BY <1>1, <2>1, <2>3 DEF TypeInv
  <2>. QED BY <2>2, <2>3
<1>5. ASSUME NEW o \in Operators
      PROVE  pc'[o] \in {"idle", "store", "handoff"} /\ (pc'[o] # "idle" => job'[o].auth \in Auths)
  <2>1. o \in Procs BY DEF Procs
  <2>2. CASE o = p BY <1>1, <2>2
  <2>3. CASE o # p BY <1>1, <2>1, <2>3 DEF TypeInv
  <2>. QED BY <2>2, <2>3
<1>. QED BY <1>1, <1>2, <1>3, <1>4, <1>5 DEF TypeInv

\* At most one process hands a record of an auth over, or reports on it, unless that is
\* noted.
LEMMA AtMostOne ==
  ASSUME NEW S, IsFiniteSet(S), ~(Cardinality(S) > 1)
  PROVE  \A p, q \in S : p = q
<1>. SUFFICES ASSUME NEW p \in S, NEW q \in S, p # q PROVE FALSE OBVIOUS
<1>1. IsFiniteSet({p}) /\ Cardinality({p}) = 1 BY FS_Singleton
<1>2. IsFiniteSet({p} \cup {q}) /\ Cardinality({p} \cup {q}) = 2
  <2>1. q \notin {p} OBVIOUS
  <2>2. Cardinality({p} \cup {q}) = Cardinality({p}) + 1 BY <1>1, <2>1, FS_AddElement
  <2>. QED BY <1>1, <2>2, FS_AddElement
<1>3. Cardinality({p} \cup {q}) <= Cardinality(S) BY FS_Subset
<1>4. Cardinality(S) \in Nat BY FS_CardinalityType
<1>. QED BY <1>2, <1>3, <1>4

LEMMA Single ==
  ASSUME TypeInv, Observe, NEW a \in Auths
  PROVE  /\ overlapped[a] \subseteq overlapped'[a]
         /\ "scheduler" \notin overlapped'[a] =>
              \A p, q \in Procs : HandsOver(p, a)' /\ HandsOver(q, a)' => p = q
         /\ "registry" \notin overlapped'[a] =>
              \A p, q \in Procs : Reports(p, a)' /\ Reports(q, a)' => p = q
<1>0. IsFiniteSet(Procs) BY ConductorAssumption, FS_Union DEF Procs
<1>1. overlapped'[a] = overlapped[a]
       \cup (IF Cardinality({p \in Procs : HandsOver(p, a)'}) > 1 THEN {"scheduler"} ELSE {})
       \cup (IF Cardinality({p \in Procs : Reports(p, a)'}) > 1 THEN {"registry"} ELSE {})
  BY DEF Observe
<1>2. IsFiniteSet({p \in Procs : HandsOver(p, a)'}) BY <1>0, FS_Subset
<1>3. IsFiniteSet({p \in Procs : Reports(p, a)'}) BY <1>0, FS_Subset
<1>4. ASSUME "scheduler" \notin overlapped'[a], NEW p \in Procs, NEW q \in Procs, HandsOver(p, a)', HandsOver(q, a)'
      PROVE  p = q
  <2>1. ~(Cardinality({x \in Procs : HandsOver(x, a)'}) > 1) BY <1>1, <1>4
  <2>. QED BY <1>2, <1>4, <2>1, AtMostOne
<1>5. ASSUME "registry" \notin overlapped'[a], NEW p \in Procs, NEW q \in Procs, Reports(p, a)', Reports(q, a)'
      PROVE  p = q
  <2>1. ~(Cardinality({x \in Procs : Reports(x, a)'}) > 1) BY <1>1, <1>5
  <2>. QED BY <1>3, <1>5, <2>1, AtMostOne
<1>. QED BY <1>1, <1>4, <1>5

------------------------------------------------------------------------------
(* The inductive invariant *)

\* The scheduler has the record of a, or the one process that hands it over does.
SchedAt(a) ==
  /\ \A p, q \in Procs : HandsOver(p, a) /\ HandsOver(q, a) => p = q
  /\ (\A p \in Procs : ~HandsOver(p, a)) => sched[a] = entry(auths[a])
  /\ \A r \in Requests : /\ pc[r] = "handoff" /\ job[r].auth = a => job[r].rec = auths[a]
                         /\ pc[r] = "rebuild" => job[r].snapshot[a] = auths[a]

\* The registry agrees with the record of a, but for the result that is on its way.
Agree(a, m)  == <<a, m>> \in marks <=> auths[a].exceeded[m]
Held(a, m)   == <<a, m>> \in marks => suspended[<<a, m>>] # "none"
Marking(a, m) == \E r \in Requests : Reports(r, a) /\ pc[r] # "suspend" /\ job[r].model = m
Holding(a, m) == \E r \in Requests : Reports(r, a) /\ pc[r] = "suspend" /\ job[r].model = m /\ job[r].outcome = "quota"

RegAt(a) ==
  /\ \A p, q \in Procs : Reports(p, a) /\ Reports(q, a) => p = q
  /\ \A m \in Models : (~Marking(a, m) => Agree(a, m)) /\ (~Holding(a, m) => Held(a, m))
  /\ \A r \in Requests : Reports(r, a) =>
       /\ job[r].outcome = "success" => ~auths[a].exceeded[job[r].model]
       /\ job[r].outcome = "quota" => auths[a].exceeded[job[r].model]
       /\ job[r].outcome \notin {"success", "quota"} => Agree(a, job[r].model)
  /\ \A o \in Operators : Reports(o, a) => job[o].rec.exceeded = auths[a].exceeded

\* What a request that is about to be refused has seen of the auths usable all along.
RefusalAt(r) ==
  /\ pc[r] = "rebuild" => \A a \in usable[r] : Serves(job[r].snapshot[a], job[r].model)
  /\ pc[r] = "repick" => \A a \in usable[r] : Serves(sched[a], job[r].model)
  /\ pc[r] = "refused" => Exhausted(r) \/ usable[r] \ job[r].tried = {}

Inv ==
  /\ TypeInv
  /\ \A a \in Auths : ("scheduler" \notin overlapped[a] => SchedAt(a)) /\ ("registry" \notin overlapped[a] => RegAt(a))
  /\ \A r \in Requests : RefusalAt(r)

LEMMA InvInit == Init => Inv
<1>. SUFFICES ASSUME Init PROVE Inv OBVIOUS
<1>1. \A p \in Procs : pc[p] = "idle" /\ job[p] = NoJob BY DEF Init
<1>2. \A a \in Auths : auths[a] = Fresh /\ sched[a] = Fresh /\ marks = {} BY DEF Init
<1>3. TypeOK BY FreshRecord DEF Init, TypeOK
<1>4. TypeInv
  BY <1>1, <1>3, NoJobType DEF Init, TypeInv, Labels, Telling, Procs
<1>5. ASSUME NEW a \in Auths PROVE SchedAt(a)
  BY <1>1, <1>2, FreshRecord DEF SchedAt, HandsOver, entry, Procs
<1>6. ASSUME NEW a \in Auths PROVE RegAt(a)
  <2>1. \A p \in Procs : ~Reports(p, a) BY <1>1 DEF Reports
  <2>2. \A m \in Models : Agree(a, m) /\ Held(a, m) BY <1>2 DEF Agree, Held, Fresh
  <2>. QED BY <2>1, <2>2 DEF RegAt, Procs
<1>7. ASSUME NEW r \in Requests PROVE RefusalAt(r) BY <1>1 DEF RefusalAt, Procs
<1>. QED BY <1>4, <1>5, <1>6, <1>7 DEF Inv

------------------------------------------------------------------------------
(* What a step leaves alone *)

\* p hands nothing of a over, and the records of a stay.
LEMMA SchedStays ==
  ASSUME TypeInv, NEW a \in Auths, SchedAt(a), NEW p \in Procs,
         \A q \in Procs : q # p => job'[q] = job[q] /\ pc'[q] = pc[q],
         ~HandsOver(p, a), ~HandsOver(p, a)', auths'[a] = auths[a], sched'[a] = sched[a]
  PROVE  SchedAt(a)'
<1>1. \A q \in Procs : HandsOver(q, a)' <=> HandsOver(q, a) BY DEF HandsOver
<1>2. (\A q \in Procs : ~HandsOver(q, a)') => sched'[a] = entry(auths'[a]) BY <1>1 DEF SchedAt
<1>3. ASSUME NEW r \in Requests
      PROVE  /\ pc'[r] = "handoff" /\ job'[r].auth = a => job'[r].rec = auths'[a]
             /\ pc'[r] = "rebuild" => job'[r].snapshot[a] = auths'[a]
  <2>1. r \in Procs BY DEF Procs
  <2>2. CASE r = p BY <2>2 DEF HandsOver
  <2>3. CASE r # p BY <2>1, <2>3 DEF SchedAt
  <2>. QED BY <2>2, <2>3
<1>. QED BY <1>1, <1>2, <1>3 DEF SchedAt, entry

\* p reports nothing on a, and neither the record nor the registry changes.
LEMMA RegStays ==
  ASSUME TypeInv, NEW a \in Auths, RegAt(a), NEW p \in Procs,
         \A q \in Procs : q # p => job'[q] = job[q] /\ pc'[q] = pc[q],
         Reports(p, a)' <=> Reports(p, a),
         Reports(p, a) => job'[p] = job[p] /\ (pc'[p] = "suspend" <=> pc[p] = "suspend"),
         auths'[a].exceeded = auths[a].exceeded,
         \A m \in Models : /\ <<a, m>> \in marks' <=> <<a, m>> \in marks
                           /\ suspended'[<<a, m>>] = suspended[<<a, m>>]
  PROVE  RegAt(a)'
<1>1. \A q \in Procs : /\ Reports(q, a)' <=> Reports(q, a)
                       /\ Reports(q, a) => job'[q] = job[q] /\ (pc'[q] = "suspend" <=> pc[q] = "suspend")
  <2>. SUFFICES ASSUME NEW q \in Procs, q # p PROVE Reports(q, a)' <=> Reports(q, a) OBVIOUS
  <2>. QED BY DEF Reports
<1>2. \A m \in Models : (Marking(a, m)' <=> Marking(a, m)) /\ (Holding(a, m)' <=> Holding(a, m))
  <2>1. \A r \in Requests : r \in Procs BY DEF Procs
  <2>. QED BY <1>1, <2>1 DEF Marking, Holding
<1>3. \A m \in Models : (Agree(a, m)' <=> Agree(a, m)) /\ (Held(a, m)' <=> Held(a, m)) BY DEF Agree, Held
<1>4. \A m \in Models : (~Marking(a, m)' => Agree(a, m)') /\ (~Holding(a, m)' => Held(a, m)')
  BY <1>2, <1>3 DEF RegAt
<1>5. ASSUME NEW r \in Requests, Reports(r, a)'
      PROVE  /\ job'[r].outcome = "success" => ~auths'[a].exceeded[job'[r].model]
             /\ job'[r].outcome = "quota" => auths'[a].exceeded[job'[r].model]
             /\ job'[r].outcome \notin {"success", "quota"} => Agree(a, job[r].model)'
  <2>1. r \in Procs BY DEF Procs
  <2>2. Reports(r, a) /\ job'[r] = job[r] BY <1>1, <1>5, <2>1
  <2>3. job[r].model \in Models BY <2>2 DEF TypeInv, Reports
  <2>. QED BY <1>3, <2>2, <2>3 DEF RegAt, Agree
<1>6. ASSUME NEW o \in Operators, Reports(o, a)' PROVE job'[o].rec.exceeded = auths'[a].exceeded
  BY <1>1, <1>6 DEF RegAt, Procs
<1>7. \A q, s \in Procs : Reports(q, a)' /\ Reports(s, a)' => q = s BY <1>1 DEF RegAt
<1>. QED BY <1>4, <1>5, <1>6, <1>7 DEF RegAt

\* A request that another process leaves alone.
LEMMA RefusalStays ==
  ASSUME TypeInv, Observe, NEW r \in Requests, RefusalAt(r), pc'[r] = pc[r], job'[r] = job[r]
  PROVE  RefusalAt(r)'
<1>1. pc[r] # "idle" => usable'[r] \subseteq usable[r] BY DEF Observe
<1>2. pc[r] = "repick" => \A a \in usable'[r] : sched'[a] = sched[a] BY DEF Observe
<1>3. Exhausted(r)' <=> Exhausted(r) BY DEF Exhausted
<1>. QED BY <1>1, <1>2, <1>3 DEF RefusalAt

\* The step of p keeps the invariant when it does so for each auth, and for p.
LEMMA InvStep ==
  ASSUME Inv, Observe, NEW p \in Procs, TypeInv',
         \A q \in Procs : q # p => job'[q] = job[q] /\ pc'[q] = pc[q],
         \A a \in Auths : SchedAt(a) /\ (\A q, s \in Procs : HandsOver(q, a)' /\ HandsOver(s, a)' => q = s)
                            => SchedAt(a)',
         \A a \in Auths : RegAt(a) /\ (\A q, s \in Procs : Reports(q, a)' /\ Reports(s, a)' => q = s)
                            => RegAt(a)',
         p \in Requests => RefusalAt(p)'
  PROVE  Inv'
<1>1. ASSUME NEW a \in Auths
      PROVE  ("scheduler" \notin overlapped'[a] => SchedAt(a)') /\ ("registry" \notin overlapped'[a] => RegAt(a)')
  <2>1. TypeInv BY DEF Inv
  <2>2. overlapped[a] \subseteq overlapped'[a] BY <2>1, Single
  <2>3. "scheduler" \notin overlapped'[a] => \A q, s \in Procs : HandsOver(q, a)' /\ HandsOver(s, a)' => q = s
    BY <2>1, Single
  <2>4. "registry" \notin overlapped'[a] => \A q, s \in Procs : Reports(q, a)' /\ Reports(s, a)' => q = s
    BY <2>1, Single
  <2>5. "scheduler" \notin overlapped'[a] => SchedAt(a) BY <2>2 DEF Inv
  <2>6. "registry" \notin overlapped'[a] => RegAt(a) BY <2>2 DEF Inv
  <2>. QED BY <2>3, <2>4, <2>5, <2>6
<1>2. ASSUME NEW r \in Requests PROVE RefusalAt(r)'
  <2>1. r \in Procs BY DEF Procs
  <2>. QED BY <2>1, RefusalStays DEF Inv
<1>. QED BY <1>1, <1>2 DEF Inv

Busy == {"rebuild", "handoff", "marks", "suspend", "store"}

\* A step that touches none of the tables.
LEMMA Quiet ==
  ASSUME Inv, Observe, NEW r \in Requests, TypeInv',
         \A q \in Procs : q # r => job'[q] = job[q] /\ pc'[q] = pc[q],
         pc[r] \notin Busy, pc'[r] \notin Busy, UNCHANGED <<auths, sched, marks, suspended>>,
         RefusalAt(r)'
  PROVE  Inv'
<1>1. r \in Procs /\ TypeInv BY DEF Procs, Inv
<1>2. \A a \in Auths : ~HandsOver(r, a) /\ ~HandsOver(r, a)' /\ ~Reports(r, a) /\ ~Reports(r, a)'
  BY DEF HandsOver, Reports, Busy
<1>3. \A a \in Auths : SchedAt(a) => SchedAt(a)' BY <1>1, <1>2, SchedStays
<1>4. \A a \in Auths : RegAt(a) => RegAt(a)' BY <1>1, <1>2, RegStays
<1>. QED BY <1>1, <1>3, <1>4, InvStep

------------------------------------------------------------------------------
(* A request's picks *)

LEMMA ArriveStep ==
  ASSUME Inv, NEW r \in Requests, NEW m \in Models, Arrive(r, m), Observe
  PROVE  Inv'
<1>0. TypeInv /\ r \in Procs BY DEF Inv, Procs
<1>1. Goto(r, "pick") /\ UNCHANGED <<auths, sched, marks, suspended>> /\ pc[r] = "idle" BY DEF Arrive
<1>2. [NoJob EXCEPT !.model = m] \in Jobs /\ [NoJob EXCEPT !.model = m].model = m
  BY NoJobType DEF Jobs
<1>3. job' \in [Procs -> Jobs] /\ job'[r].model = m /\ \A q \in Procs : q # r => job'[q] = job[q]
  BY <1>0, <1>2 DEF Arrive, TypeInv
<1>4. TypeOK' BY <1>0, <1>1 DEF TypeInv, TypeOK
<1>5. r \notin Operators BY ConductorAssumption
<1>6. TypeInv' BY <1>0, <1>1, <1>3, <1>4, <1>5, TypeStep DEF Labels, Telling
<1>7. pc'[r] = "pick" /\ \A q \in Procs : q # r => pc'[q] = pc[q] BY <1>0, <1>1, Moved DEF Labels
<1>8. RefusalAt(r)' BY <1>7 DEF RefusalAt
<1>. QED BY <1>1, <1>3, <1>6, <1>7, <1>8, Quiet DEF Busy

LEMMA PickStep ==
  ASSUME Inv, NEW r \in Requests, Pick(r), Observe
  PROVE  Inv'
<1>0. TypeInv /\ r \in Procs BY DEF Inv, Procs
<1>1. Goto(r, "execute") /\ UNCHANGED <<auths, sched, marks, suspended>> /\ pc[r] \in {"pick", "repick"}
  BY DEF Pick
<1>2. PICK a \in Auths : job' = [job EXCEPT ![r].auth = a, ![r].tried = @ \cup {a}] BY DEF Pick, Ready
<1>3. job \in [Procs -> [auth : Auths \cup {NoAuth}, model : Models \cup {"none"}, tried : SUBSET Auths,
                         outcome : Outcomes \cup {"none"}, rec : Record, snapshot : {<<>>} \cup [Auths -> Record]]]
  BY <1>0 DEF TypeInv, Jobs
<1>4. job' \in [Procs -> Jobs] BY <1>0, <1>2, <1>3 DEF Jobs
<1>5. job'[r].auth = a /\ job'[r].model = job[r].model BY <1>0, <1>2, <1>3
<1>6. \A q \in Procs : q # r => job'[q] = job[q] BY <1>2, <1>3
<1>7. TypeOK' BY <1>0, <1>1 DEF TypeInv, TypeOK
<1>8. r \notin Operators /\ job[r].model \in Models BY <1>0, <1>1, ConductorAssumption DEF TypeInv
<1>9. TypeInv' BY <1>0, <1>1, <1>4, <1>5, <1>6, <1>7, <1>8, TypeStep DEF Labels, Telling
<1>10. pc'[r] = "execute" /\ \A q \in Procs : q # r => pc'[q] = pc[q] BY <1>0, <1>1, Moved DEF Labels
<1>11. RefusalAt(r)' BY <1>10 DEF RefusalAt
<1>. QED BY <1>1, <1>6, <1>9, <1>10, <1>11, Quiet DEF Busy

\* The request leaves, or is refused: with credentials left, every auth it has not tried
\* looked blocked, and so none of them was usable all along.
LEMMA LeaveStep ==
  ASSUME Inv, NEW r \in Requests, Refuse(r) \/ Cancel(r), Observe
  PROVE  Inv'
<1>0. TypeInv /\ r \in Procs BY DEF Inv, Procs
<1>1. PICK l \in {"refused", "done"} : Goto(r, l) BY DEF Refuse, Cancel
<1>2. UNCHANGED <<auths, sched, marks, suspended, job>> /\ pc[r] \in {"pick", "repick", "execute"}
  BY DEF Refuse, Cancel
<1>3. TypeOK' /\ job' \in [Procs -> Jobs] BY <1>0, <1>2 DEF TypeInv, TypeOK
<1>4. r \notin Operators /\ job[r].model \in Models BY <1>0, <1>2, ConductorAssumption DEF TypeInv
<1>5. TypeInv' BY <1>0, <1>1, <1>2, <1>3, <1>4, TypeStep DEF Labels, Telling
<1>6. pc'[r] = l /\ \A q \in Procs : q # r => pc'[q] = pc[q] BY <1>0, <1>1, Moved DEF Labels
<1>7. RefusalAt(r)'
  <2>. SUFFICES ASSUME l = "refused" PROVE Exhausted(r)' \/ usable'[r] \ job'[r].tried = {}
    BY <1>6 DEF RefusalAt
  <2>1. Refuse(r) BY <1>0, <1>6, Moved DEF Cancel, Labels
  <2>2. CASE Exhausted(r) BY <1>2, <2>2 DEF Exhausted
  <2>3. CASE pc[r] = "repick" /\ Ready(r) = {}
    <3>1. usable'[r] \subseteq usable[r] BY <1>6, <2>3 DEF Observe
    <3>2. \A a \in usable[r] : a \in Auths /\ Serves(sched[a], job[r].model)
      BY <1>0, <2>3 DEF Inv, RefusalAt, TypeInv
    <3>. QED BY <1>2, <2>3, <3>1, <3>2 DEF Ready
  <2>. QED BY <2>1, <2>2, <2>3 DEF Refuse
<1>. QED BY <1>1, <1>2, <1>5, <1>6, <1>7, Quiet DEF Busy

LEMMA ReturnStep ==
  ASSUME Inv, NEW r \in Requests, Return(r), Observe
  PROVE  Inv'
<1>0. TypeInv /\ r \in Procs BY DEF Inv, Procs
<1>1. Goto(r, "idle") /\ UNCHANGED <<auths, sched, marks, suspended>> /\ pc[r] \in {"done", "refused"}
  BY DEF Return
<1>2. job' \in [Procs -> Jobs] /\ \A q \in Procs : q # r => job'[q] = job[q]
  BY <1>0, NoJobType DEF Return, TypeInv
<1>3. TypeOK' BY <1>0, <1>1 DEF TypeInv, TypeOK
<1>4. r \notin Operators BY ConductorAssumption
<1>5. TypeInv' BY <1>0, <1>1, <1>2, <1>3, <1>4, TypeStep DEF Labels, Telling
<1>6. pc'[r] = "idle" /\ \A q \in Procs : q # r => pc'[q] = pc[q] BY <1>0, <1>1, Moved DEF Labels
<1>7. RefusalAt(r)' BY <1>6 DEF RefusalAt
<1>. QED BY <1>1, <1>2, <1>5, <1>6, <1>7, Quiet DEF Busy

\* The snapshot is what the Manager holds, and an auth usable all along is usable in it.
LEMMA SnapshotStep ==
  ASSUME Inv, NEW r \in Requests, Snapshot(r), Observe
  PROVE  Inv'
<1>0. TypeInv /\ r \in Procs BY DEF Inv, Procs
<1>1. Goto(r, "rebuild") /\ UNCHANGED <<auths, sched, marks, suspended>> /\ pc[r] = "pick" BY DEF Snapshot
<1>2. job \in [Procs -> [auth : Auths \cup {NoAuth}, model : Models \cup {"none"}, tried : SUBSET Auths,
                         outcome : Outcomes \cup {"none"}, rec : Record, snapshot : {<<>>} \cup [Auths -> Record]]]
  BY <1>0 DEF TypeInv, Jobs
<1>3. auths \in [Auths -> Record] /\ job' = [job EXCEPT ![r].snapshot = auths] BY <1>0, Tables DEF Snapshot
<1>4. job' \in [Procs -> Jobs] BY <1>0, <1>2, <1>3 DEF Jobs
<1>5. job'[r].snapshot = auths /\ job'[r].model = job[r].model BY <1>0, <1>2, <1>3
<1>6. \A q \in Procs : q # r => job'[q] = job[q] BY <1>2, <1>3
<1>7. TypeOK' BY <1>0, <1>1 DEF TypeInv, TypeOK
<1>8. r \notin Operators /\ job[r].model \in Models BY <1>0, <1>1, ConductorAssumption DEF TypeInv
<1>9. TypeInv' BY <1>0, <1>1, <1>3, <1>4, <1>5, <1>6, <1>7, <1>8, TypeStep DEF Labels, Telling
<1>10. pc'[r] = "rebuild" /\ \A q \in Procs : q # r => pc'[q] = pc[q] BY <1>0, <1>1, Moved DEF Labels
<1>11. RefusalAt(r)'
  <2>1. usable'[r] \subseteq UsableFor(r)' BY <1>1, <1>10 DEF Observe
  <2>2. \A a \in usable'[r] : Serves(auths[a], job'[r].model) BY <1>1, <2>1 DEF UsableFor
  <2>. QED BY <1>5, <1>10, <2>2 DEF RefusalAt
<1>12. ASSUME NEW a \in Auths, SchedAt(a), \A q, s \in Procs : HandsOver(q, a)' /\ HandsOver(s, a)' => q = s
       PROVE  SchedAt(a)'
  <2>1. HandsOver(r, a)' BY <1>10 DEF HandsOver
  <2>2. \A q \in Requests : q # r => pc'[q] # "rebuild" /\ ~(pc'[q] = "handoff" /\ job'[q].auth = a)
    BY <1>0, <1>12, <2>1 DEF HandsOver, Procs
  <2>. QED BY <1>0, <1>1, <1>5, <1>10, <1>12, <2>1, <2>2 DEF SchedAt
<1>13. ASSUME NEW a \in Auths, RegAt(a) PROVE RegAt(a)'
  <2>1. ~Reports(r, a) /\ ~Reports(r, a)' BY <1>1, <1>10 DEF Reports
  <2>. QED BY <1>0, <1>1, <1>6, <1>10, <1>13, <2>1, RegStays
<1>. QED BY <1>0, <1>6, <1>9, <1>10, <1>11, <1>12, <1>13, InvStep

\* The rebuilt scheduler is what the Manager holds: the snapshot was not overtaken, as no
\* other process had a record of the auth to hand over.
LEMMA RebuildStep ==
  ASSUME Inv, NEW r \in Requests, Rebuild(r), Observe
  PROVE  Inv'
<1>0. TypeInv /\ r \in Procs BY DEF Inv, Procs
<1>1. Goto(r, "repick") /\ UNCHANGED <<auths, marks, suspended>> /\ pc[r] = "rebuild" BY DEF Rebuild
<1>2. job \in [Procs -> [auth : Auths \cup {NoAuth}, model : Models \cup {"none"}, tried : SUBSET Auths,
                         outcome : Outcomes \cup {"none"}, rec : Record, snapshot : {<<>>} \cup [Auths -> Record]]]
  BY <1>0 DEF TypeInv, Jobs
<1>3. job' = [job EXCEPT ![r].snapshot = <<>>] BY DEF Rebuild
<1>4. job' \in [Procs -> Jobs] BY <1>0, <1>2, <1>3 DEF Jobs
<1>5. job'[r].model = job[r].model BY <1>0, <1>2, <1>3
<1>6. \A q \in Procs : q # r => job'[q] = job[q] BY <1>2, <1>3
<1>7. job[r].snapshot \in [Auths -> Record] /\ job[r].model \in Models BY <1>0, <1>1 DEF TypeInv
<1>8. \A a \in Auths : sched'[a] = entry(job[r].snapshot[a]) BY DEF Rebuild
<1>9. TypeOK'
  <2>1. \A a \in Auths : sched'[a] \in Record /\ (sched'[a].disabled => sched'[a] = NoEntry)
    BY <1>7, <1>8, EntryRecord
  <2>2. sched' \in [Auths -> Record] BY <2>1 DEF Rebuild
  <2>. QED BY <1>0, <1>1, <2>1, <2>2 DEF TypeInv, TypeOK
<1>10. r \notin Operators BY ConductorAssumption
<1>11. TypeInv' BY <1>0, <1>1, <1>4, <1>5, <1>6, <1>7, <1>9, <1>10, TypeStep DEF Labels, Telling
<1>12. pc'[r] = "repick" /\ \A q \in Procs : q # r => pc'[q] = pc[q] BY <1>0, <1>1, Moved DEF Labels
<1>13. RefusalAt(r)'
  <2>1. usable'[r] \subseteq usable[r] /\ usable[r] \subseteq Auths
    BY <1>0, <1>1, <1>12 DEF Observe, TypeInv
  <2>2. \A a \in usable[r] : Serves(job[r].snapshot[a], job[r].model) BY <1>1 DEF Inv, RefusalAt
  <2>3. \A a \in usable[r] : Serves(sched'[a], job[r].model) BY <1>7, <1>8, <2>1, <2>2, EntryRecord
  <2>. QED BY <1>5, <1>12, <2>1, <2>3 DEF RefusalAt
<1>14. ASSUME NEW a \in Auths, SchedAt(a) PROVE SchedAt(a)'
  <2>1. HandsOver(r, a) /\ ~HandsOver(r, a)' BY <1>1, <1>12 DEF HandsOver
  <2>2. \A q \in Procs : ~HandsOver(q, a)'
    <3>. SUFFICES ASSUME NEW q \in Procs, q # r PROVE ~HandsOver(q, a)' BY <2>1
    <3>1. ~HandsOver(q, a) BY <1>0, <1>14, <2>1 DEF SchedAt
    <3>. QED BY <1>6, <1>12, <3>1 DEF HandsOver
  <2>3. sched'[a] = entry(auths'[a]) BY <1>1, <1>8, <1>14 DEF SchedAt
  <2>. QED BY <2>2, <2>3 DEF SchedAt, HandsOver, Procs, entry
<1>15. ASSUME NEW a \in Auths, RegAt(a) PROVE RegAt(a)'
  <2>1. ~Reports(r, a) /\ ~Reports(r, a)' BY <1>1, <1>12 DEF Reports
  <2>. QED BY <1>0, <1>1, <1>6, <1>12, <1>15, <2>1, RegStays
<1>. QED BY <1>0, <1>6, <1>11, <1>12, <1>13, <1>14, <1>15, InvStep

------------------------------------------------------------------------------
(* A result *)

\* A step of a request that reports on one auth leaves the others alone.
LEMMA OtherAuth ==
  ASSUME TypeInv, NEW r \in Requests, NEW a \in Auths, job[r].auth # a, job'[r].auth = job[r].auth,
         pc[r] # "rebuild", pc'[r] # "rebuild",
         \A q \in Procs : q # r => job'[q] = job[q] /\ pc'[q] = pc[q],
         auths'[a] = auths[a], sched'[a] = sched[a],
         \A m \in Models : /\ <<a, m>> \in marks' <=> <<a, m>> \in marks
                           /\ suspended'[<<a, m>>] = suspended[<<a, m>>]
  PROVE  (SchedAt(a) => SchedAt(a)') /\ (RegAt(a) => RegAt(a)')
<1>1. r \in Procs BY DEF Procs
<1>2. ~HandsOver(r, a) /\ ~HandsOver(r, a)' /\ ~Reports(r, a) /\ ~Reports(r, a)' BY DEF HandsOver, Reports
<1>3. SchedAt(a) => SchedAt(a)' BY <1>1, <1>2, SchedStays
<1>4. RegAt(a) => RegAt(a)' BY <1>1, <1>2, RegStays
<1>. QED BY <1>3, <1>4

\* The record changes with the result in hand: the other tables are the request's to tell.
LEMMA MarkStep ==
  ASSUME Inv, NEW r \in Requests, NEW o \in Outcomes, Mark(r, o), Observe
  PROVE  Inv'
<1>0. TypeInv /\ r \in Procs BY DEF Inv, Procs
<1>1. Goto(r, "handoff") /\ UNCHANGED <<sched, marks, suspended>> /\ pc[r] = "execute" BY DEF Mark
<1>2. job \in [Procs -> [auth : Auths \cup {NoAuth}, model : Models \cup {"none"}, tried : SUBSET Auths,
                         outcome : Outcomes \cup {"none"}, rec : Record, snapshot : {<<>>} \cup [Auths -> Record]]]
  BY <1>0 DEF TypeInv, Jobs
<1>3. PICK a \in Auths : a = job[r].auth BY <1>0, <1>1 DEF TypeInv
<1>4. PICK m \in Models : m = job[r].model BY <1>0, <1>1 DEF TypeInv
<1>5. auths \in [Auths -> Record] BY <1>0, Tables
<1>6. PICK new \in Record : /\ new = recorded(auths[a], m, o)
                            /\ new.exceeded = [auths[a].exceeded EXCEPT ![m] =
                                 IF o = "success" THEN FALSE ELSE o = "quota" \/ auths[a].exceeded[m]]
  <2>1. auths[a] \in Record BY <1>5
  <2>2. /\ recorded(auths[a], m, o) \in Record
        /\ recorded(auths[a], m, o).exceeded = [auths[a].exceeded EXCEPT ![m] =
             IF o = "success" THEN FALSE ELSE o = "quota" \/ auths[a].exceeded[m]]
    BY <2>1, RecordedRecord
  <2>. QED BY <2>2
<1>7. auths' = [auths EXCEPT ![a] = new] BY <1>3, <1>4, <1>6 DEF Mark
<1>8. auths' \in [Auths -> Record] /\ auths'[a] = new /\ \A b \in Auths : b # a => auths'[b] = auths[b]
  BY <1>5, <1>7
<1>9. job' = [job EXCEPT ![r].outcome = o, ![r].rec = new] BY <1>3, <1>8 DEF Mark
<1>10. job' \in [Procs -> Jobs] BY <1>0, <1>2, <1>9 DEF Jobs
<1>11. /\ job'[r].auth = a /\ job'[r].model = m /\ job'[r].outcome = o /\ job'[r].rec = new
       /\ job'[r].snapshot = job[r].snapshot
  BY <1>0, <1>2, <1>3, <1>4, <1>9
<1>12. \A q \in Procs : q # r => job'[q] = job[q] BY <1>2, <1>9
<1>13. TypeOK' BY <1>0, <1>1, <1>8 DEF TypeInv, TypeOK
<1>14. r \notin Operators BY ConductorAssumption
<1>15. TypeInv' BY <1>0, <1>1, <1>10, <1>11, <1>12, <1>13, <1>14, TypeStep DEF Labels, Telling
<1>16. pc'[r] = "handoff" /\ \A q \in Procs : q # r => pc'[q] = pc[q] BY <1>0, <1>1, Moved DEF Labels
<1>17. RefusalAt(r)' BY <1>16 DEF RefusalAt
<1>18. ASSUME NEW b \in Auths, b # a PROVE (SchedAt(b) => SchedAt(b)') /\ (RegAt(b) => RegAt(b)')
  BY <1>0, <1>1, <1>3, <1>8, <1>11, <1>12, <1>16, <1>18, OtherAuth
<1>19. ASSUME SchedAt(a), \A q, s \in Procs : HandsOver(q, a)' /\ HandsOver(s, a)' => q = s
       PROVE  SchedAt(a)'
  <2>1. HandsOver(r, a)' BY <1>11, <1>16 DEF HandsOver
  <2>2. \A q \in Requests : q # r => pc'[q] # "rebuild" /\ ~(pc'[q] = "handoff" /\ job'[q].auth = a)
    BY <1>0, <1>19, <2>1 DEF HandsOver, Procs
  <2>. QED BY <1>0, <1>8, <1>11, <1>16, <1>19, <2>1, <2>2 DEF SchedAt
<1>20. ASSUME RegAt(a), \A q, s \in Procs : Reports(q, a)' /\ Reports(s, a)' => q = s
       PROVE  RegAt(a)'
  <2>1. Reports(r, a)' /\ ~Reports(r, a) BY <1>1, <1>11, <1>16 DEF Reports
  <2>2. \A q \in Procs : q # r => ~Reports(q, a)' /\ ~Reports(q, a)
    <3>. SUFFICES ASSUME NEW q \in Procs, q # r PROVE ~Reports(q, a)' /\ ~Reports(q, a) OBVIOUS
    <3>1. ~Reports(q, a)' BY <1>0, <1>20, <2>1
    <3>. QED BY <1>12, <1>16, <3>1 DEF Reports
  <2>3. \A q \in Requests : ~Reports(q, a) BY <2>1, <2>2 DEF Procs
  <2>4. \A n \in Models : Agree(a, n) /\ Held(a, n) BY <1>20, <2>3 DEF RegAt, Marking, Holding
  <2>5. \A n \in Models : n # m => new.exceeded[n] = auths[a].exceeded[n]
    BY <1>5, <1>6, RecordParts
  <2>6. new.exceeded[m] = IF o = "success" THEN FALSE ELSE o = "quota" \/ auths[a].exceeded[m]
    BY <1>5, <1>6, RecordParts
  <2>7. Marking(a, m)' BY <1>11, <1>16, <2>1 DEF Marking
  <2>8. \A n \in Models : (~Marking(a, n)' => Agree(a, n)') /\ Held(a, n)'
    BY <1>1, <1>8, <2>4, <2>5, <2>7 DEF Agree, Held
  <2>9. ASSUME NEW q \in Requests, Reports(q, a)'
        PROVE  /\ job'[q].outcome = "success" => ~auths'[a].exceeded[job'[q].model]
               /\ job'[q].outcome = "quota" => auths'[a].exceeded[job'[q].model]
               /\ job'[q].outcome \notin {"success", "quota"} => Agree(a, job[q].model)'
    <3>1. q = r BY <2>2, <2>9 DEF Procs
    <3>. QED BY <1>1, <1>4, <1>8, <1>11, <2>4, <2>6, <3>1 DEF Agree
  <2>10. \A q \in Operators : ~Reports(q, a)' BY <1>14, <2>2 DEF Procs
  <2>. QED BY <1>20, <2>8, <2>9, <2>10 DEF RegAt
<1>21. ASSUME NEW b \in Auths
       PROVE  /\ SchedAt(b) /\ (\A q, s \in Procs : HandsOver(q, b)' /\ HandsOver(s, b)' => q = s) => SchedAt(b)'
              /\ RegAt(b) /\ (\A q, s \in Procs : Reports(q, b)' /\ Reports(s, b)' => q = s) => RegAt(b)'
  <2>1. CASE b = a BY <1>19, <1>20, <2>1
  <2>2. CASE b # a BY <1>18, <2>2
  <2>. QED BY <2>1, <2>2
<1>. QED BY <1>0, <1>12, <1>15, <1>16, <1>17, <1>21, InvStep

\* The scheduler is given the record as it stands.
LEMMA HandoffStep ==
  ASSUME Inv, NEW r \in Requests, Handoff(r), Observe
  PROVE  Inv'
<1>0. TypeInv /\ r \in Procs BY DEF Inv, Procs
<1>1. Goto(r, "marks") /\ UNCHANGED <<auths, marks, suspended, job>> /\ pc[r] = "handoff" BY DEF Handoff
<1>2. PICK a \in Auths : a = job[r].auth BY <1>0, <1>1 DEF TypeInv, Telling
<1>3. PICK rec \in Record : rec = job[r].rec BY <1>0, Parts
<1>4. sched \in [Auths -> Record] BY <1>0, Tables
<1>5. entry(rec) \in Record /\ (entry(rec).disabled => entry(rec) = NoEntry) BY EntryRecord
<1>6. sched' = [sched EXCEPT ![a] = entry(rec)] BY <1>2, <1>3 DEF Handoff
<1>7. sched' \in [Auths -> Record] /\ sched'[a] = entry(rec) /\ \A b \in Auths : b # a => sched'[b] = sched[b]
  BY <1>4, <1>5, <1>6
<1>8. TypeOK' BY <1>0, <1>1, <1>5, <1>7 DEF TypeInv, TypeOK
<1>9. r \notin Operators /\ job[r].model \in Models /\ job[r].outcome \in Outcomes /\ job \in [Procs -> Jobs]
  BY <1>0, <1>1, ConductorAssumption DEF TypeInv, Telling
<1>10. TypeInv' BY <1>0, <1>1, <1>2, <1>8, <1>9, TypeStep DEF Labels, Telling
<1>11. pc'[r] = "marks" /\ \A q \in Procs : q # r => pc'[q] = pc[q] BY <1>0, <1>1, Moved DEF Labels
<1>12. RefusalAt(r)' BY <1>11 DEF RefusalAt
<1>13. ASSUME NEW b \in Auths, b # a PROVE (SchedAt(b) => SchedAt(b)') /\ (RegAt(b) => RegAt(b)')
  BY <1>0, <1>1, <1>2, <1>7, <1>11, <1>13, OtherAuth
<1>14. ASSUME SchedAt(a) PROVE SchedAt(a)'
  <2>1. HandsOver(r, a) /\ ~HandsOver(r, a)' BY <1>1, <1>2, <1>11 DEF HandsOver
  <2>2. \A q \in Procs : ~HandsOver(q, a)'
    <3>. SUFFICES ASSUME NEW q \in Procs, q # r PROVE ~HandsOver(q, a)' BY <2>1
    <3>1. ~HandsOver(q, a) BY <1>0, <1>14, <2>1 DEF SchedAt
    <3>. QED BY <1>1, <1>11, <3>1 DEF HandsOver
  <2>3. rec = auths[a] BY <1>1, <1>2, <1>3, <1>14 DEF SchedAt
  <2>4. sched'[a] = entry(auths'[a]) BY <1>1, <1>7, <2>3
  <2>. QED BY <2>2, <2>4 DEF SchedAt, HandsOver, Procs, entry
<1>15. ASSUME RegAt(a) PROVE RegAt(a)'
  <2>1. Reports(r, a) /\ Reports(r, a)' BY <1>1, <1>2, <1>11 DEF Reports
  <2>. QED BY <1>0, <1>1, <1>11, <1>15, <2>1, RegStays
<1>16. ASSUME NEW b \in Auths PROVE (SchedAt(b) => SchedAt(b)') /\ (RegAt(b) => RegAt(b)')
  <2>1. CASE b = a BY <1>14, <1>15, <2>1
  <2>2. CASE b # a BY <1>13, <2>2
  <2>. QED BY <2>1, <2>2
<1>. QED BY <1>0, <1>1, <1>10, <1>11, <1>12, <1>16, InvStep

\* The mark now is what the record says.
LEMMA MarkQuotaStep ==
  ASSUME Inv, NEW r \in Requests, MarkQuota(r), Observe
  PROVE  Inv'
<1>0. TypeInv /\ r \in Procs BY DEF Inv, Procs
<1>1. Goto(r, "suspend") /\ UNCHANGED <<auths, sched, suspended, job>> /\ pc[r] = "marks" BY DEF MarkQuota
<1>2. PICK a \in Auths : a = job[r].auth BY <1>0, <1>1 DEF TypeInv, Telling
<1>3. PICK m \in Models : m = job[r].model BY <1>0, <1>1 DEF TypeInv
<1>4. PICK o \in Outcomes : o = job[r].outcome BY <1>0, <1>1 DEF TypeInv, Telling
<1>5. marks \subseteq Auths \X Models BY <1>0, Tables
<1>6. marks' = CASE o = "success" -> marks \ {<<a, m>>}
                 [] o = "quota"   -> marks \cup {<<a, m>>}
                 [] OTHER         -> marks
  BY <1>2, <1>3, <1>4 DEF MarkQuota
<1>7. /\ marks' \subseteq Auths \X Models
      /\ \A b \in Auths, n \in Models : <<b, n>> # <<a, m>> => (<<b, n>> \in marks' <=> <<b, n>> \in marks)
  BY <1>5, <1>6
<1>8. TypeOK' BY <1>0, <1>1, <1>7 DEF TypeInv, TypeOK
<1>9. r \notin Operators /\ job \in [Procs -> Jobs] BY <1>0, ConductorAssumption DEF TypeInv
<1>10. TypeInv' BY <1>0, <1>1, <1>2, <1>3, <1>4, <1>8, <1>9, TypeStep DEF Labels, Telling
<1>11. pc'[r] = "suspend" /\ \A q \in Procs : q # r => pc'[q] = pc[q] BY <1>0, <1>1, Moved DEF Labels
<1>12. RefusalAt(r)' BY <1>11 DEF RefusalAt
<1>13. ASSUME NEW b \in Auths, b # a PROVE (SchedAt(b) => SchedAt(b)') /\ (RegAt(b) => RegAt(b)')
  <2>1. \A n \in Models : <<b, n>> \in marks' <=> <<b, n>> \in marks BY <1>7, <1>13
  <2>. QED BY <1>0, <1>1, <1>2, <1>11, <1>13, <2>1, OtherAuth
<1>14. ASSUME SchedAt(a) PROVE SchedAt(a)'
  <2>1. ~HandsOver(r, a) /\ ~HandsOver(r, a)' BY <1>1, <1>11 DEF HandsOver
  <2>. QED BY <1>0, <1>1, <1>11, <1>14, <2>1, SchedStays
<1>15. ASSUME RegAt(a) PROVE RegAt(a)'
  <2>1. Reports(r, a) /\ Reports(r, a)' BY <1>1, <1>2, <1>11 DEF Reports
  <2>2. \A q \in Procs : q # r => ~Reports(q, a)' /\ ~Reports(q, a)
    <3>. SUFFICES ASSUME NEW q \in Procs, q # r PROVE ~Reports(q, a)' /\ ~Reports(q, a) OBVIOUS
    <3>1. ~Reports(q, a) BY <1>0, <1>15, <2>1 DEF RegAt
    <3>. QED BY <1>1, <1>11, <3>1 DEF Reports
  <2>3. \A n \in Models : n # m => Agree(a, n) /\ Held(a, n)
    <3>. SUFFICES ASSUME NEW n \in Models, n # m PROVE Agree(a, n) /\ Held(a, n) OBVIOUS
    <3>1. ~Marking(a, n) /\ ~Holding(a, n) BY <1>3, <2>2 DEF Marking, Holding, Procs
    <3>. QED BY <1>15, <3>1 DEF RegAt
  <2>4. /\ o = "success" => ~auths[a].exceeded[m]
        /\ o = "quota" => auths[a].exceeded[m]
        /\ o \notin {"success", "quota"} => Agree(a, m)
    BY <1>3, <1>4, <1>15, <2>1 DEF RegAt
  <2>5. Agree(a, m)' BY <1>1, <1>6, <2>4 DEF Agree
  <2>6. \A n \in Models : n # m => Agree(a, n)' /\ Held(a, n)' BY <1>1, <1>7, <2>3 DEF Agree, Held
  <2>7. ~Holding(a, m) BY <1>1, <2>2 DEF Holding, Procs
  <2>8. Held(a, m) BY <1>15, <2>7 DEF RegAt
  <2>9. ~Holding(a, m)' => Held(a, m)'
    <3>. SUFFICES ASSUME o # "quota" PROVE Held(a, m)' BY <1>1, <1>3, <1>4, <1>11, <2>1 DEF Holding
    <3>. QED BY <1>1, <1>6, <2>8 DEF Held
  <2>10. \A n \in Models : (~Marking(a, n)' => Agree(a, n)') /\ (~Holding(a, n)' => Held(a, n)')
    <3>. SUFFICES ASSUME NEW n \in Models
                  PROVE  (~Marking(a, n)' => Agree(a, n)') /\ (~Holding(a, n)' => Held(a, n)')
      OBVIOUS
    <3>1. CASE n = m BY <2>5, <2>9, <3>1
    <3>2. CASE n # m BY <2>6, <3>2
    <3>. QED BY <3>1, <3>2
  <2>11. ASSUME NEW q \in Requests, Reports(q, a)'
         PROVE  /\ job'[q].outcome = "success" => ~auths'[a].exceeded[job'[q].model]
                /\ job'[q].outcome = "quota" => auths'[a].exceeded[job'[q].model]
                /\ job'[q].outcome \notin {"success", "quota"} => Agree(a, job[q].model)'
    <3>1. q = r BY <2>2, <2>11 DEF Procs
    <3>. QED BY <1>1, <1>3, <1>4, <2>4, <2>5, <3>1 DEF Agree
  <2>12. \A q \in Operators : ~Reports(q, a)' BY <1>9, <2>2 DEF Procs
  <2>13. \A q, s \in Procs : Reports(q, a)' /\ Reports(s, a)' => q = s BY <2>2
  <2>. QED BY <2>10, <2>11, <2>12, <2>13 DEF RegAt
<1>16. ASSUME NEW b \in Auths PROVE (SchedAt(b) => SchedAt(b)') /\ (RegAt(b) => RegAt(b)')
  <2>1. CASE b = a BY <1>14, <1>15, <2>1
  <2>2. CASE b # a BY <1>13, <2>2
  <2>. QED BY <2>1, <2>2
<1>. QED BY <1>0, <1>1, <1>10, <1>11, <1>12, <1>16, InvStep

\* The last of a result: a marked auth is now suspended.
LEMMA SuspendStep ==
  ASSUME Inv, NEW r \in Requests, Suspend(r), Observe
  PROVE  Inv'
<1>0. TypeInv /\ r \in Procs BY DEF Inv, Procs
<1>1. UNCHANGED <<auths, sched, marks, job>> /\ pc[r] = "suspend" BY DEF Suspend
<1>2. PICK l \in {"done", "pick"} : Goto(r, l) BY DEF Suspend
<1>3. PICK a \in Auths : a = job[r].auth BY <1>0, <1>1 DEF TypeInv, Telling
<1>4. PICK m \in Models : m = job[r].model BY <1>0, <1>1 DEF TypeInv
<1>5. PICK o \in Outcomes : o = job[r].outcome BY <1>0, <1>1 DEF TypeInv, Telling
<1>6. PICK am \in Auths \X Models : am = <<a, m>> OBVIOUS
<1>7. suspended \in [Auths \X Models -> {"none", "quota", "denied"}] BY <1>0, Tables
<1>8. suspended' = CASE o = "success" -> [suspended EXCEPT ![am] = "none"]
                     [] o \in {"quota", "denied"} ->
                          [suspended EXCEPT ![am] = IF suspended[am] = "none" THEN o ELSE suspended[am]]
                     [] OTHER -> suspended
  BY <1>3, <1>4, <1>5, <1>6 DEF Suspend
<1>9. /\ suspended' \in [Auths \X Models -> {"none", "quota", "denied"}]
      /\ \A x \in Auths \X Models : x # am => suspended'[x] = suspended[x]
      /\ o = "quota" => suspended'[am] # "none"
      /\ o \notin {"success", "quota", "denied"} => suspended'[am] = suspended[am]
      /\ o = "denied" => suspended'[am] # "none"
  <2>1. CASE o = "success" BY <1>7, <1>8, <2>1
  <2>2. CASE o \in {"quota", "denied"}
    <3>1. suspended' = [suspended EXCEPT ![am] = IF suspended[am] = "none" THEN o ELSE suspended[am]]
      BY <1>8, <2>2
    <3>. QED BY <1>7, <2>2, <3>1
  <2>3. CASE o \notin {"success", "quota", "denied"} BY <1>7, <1>8, <2>3
  <2>. QED BY <2>1, <2>2, <2>3
<1>10. TypeOK' BY <1>0, <1>1, <1>9 DEF TypeInv, TypeOK
<1>11. r \notin Operators /\ job \in [Procs -> Jobs] BY <1>0, ConductorAssumption DEF TypeInv
<1>12. TypeInv' BY <1>0, <1>1, <1>2, <1>4, <1>10, <1>11, TypeStep DEF Labels, Telling
<1>13. pc'[r] = l /\ \A q \in Procs : q # r => pc'[q] = pc[q] BY <1>0, <1>2, Moved DEF Labels
<1>14. RefusalAt(r)' BY <1>13 DEF RefusalAt
<1>15. ASSUME NEW b \in Auths, b # a PROVE (SchedAt(b) => SchedAt(b)') /\ (RegAt(b) => RegAt(b)')
  <2>1. \A n \in Models : suspended'[<<b, n>>] = suspended[<<b, n>>] BY <1>6, <1>9, <1>15
  <2>. QED BY <1>0, <1>1, <1>3, <1>13, <1>15, <2>1, OtherAuth
<1>16. ASSUME SchedAt(a) PROVE SchedAt(a)'
  <2>1. ~HandsOver(r, a) /\ ~HandsOver(r, a)' BY <1>1, <1>13 DEF HandsOver
  <2>. QED BY <1>0, <1>1, <1>13, <1>16, <2>1, SchedStays
<1>17. ASSUME RegAt(a) PROVE RegAt(a)'
  <2>1. Reports(r, a) /\ ~Reports(r, a)' BY <1>1, <1>3, <1>13 DEF Reports
  <2>2. \A q \in Procs : ~Reports(q, a)' /\ (q # r => ~Reports(q, a))
    <3>. SUFFICES ASSUME NEW q \in Procs, q # r PROVE ~Reports(q, a)' /\ ~Reports(q, a) BY <2>1
    <3>1. ~Reports(q, a) BY <1>0, <1>17, <2>1 DEF RegAt
    <3>. QED BY <1>1, <1>13, <3>1 DEF Reports
  <2>3. \A n \in Models : Agree(a, n)
    <3>. SUFFICES ASSUME NEW n \in Models PROVE Agree(a, n) OBVIOUS
    <3>1. ~Marking(a, n) BY <1>1, <2>2 DEF Marking, Procs
    <3>. QED BY <1>17, <3>1 DEF RegAt
  <2>4. \A n \in Models : ~(n = m /\ o = "quota") => Held(a, n)
    <3>. SUFFICES ASSUME NEW n \in Models, ~(n = m /\ o = "quota") PROVE Held(a, n) OBVIOUS
    <3>1. ~Holding(a, n) BY <1>4, <1>5, <2>2 DEF Holding, Procs
    <3>. QED BY <1>17, <3>1 DEF RegAt
  <2>5. o = "success" => ~auths[a].exceeded[m] BY <1>4, <1>5, <1>17, <2>1 DEF RegAt
  <2>6. \A n \in Models : Agree(a, n)' BY <1>1, <2>3 DEF Agree
  <2>7. ASSUME NEW n \in Models, n # m PROVE Held(a, n)'
    <3>1. suspended'[<<a, n>>] = suspended[<<a, n>>] BY <1>6, <1>9, <2>7
    <3>. QED BY <1>1, <2>4, <2>7, <3>1 DEF Held
  <2>8. Held(a, m)'
    <3>1. CASE o = "success" BY <1>1, <2>3, <2>5, <3>1 DEF Agree, Held
    <3>2. CASE o \in {"quota", "denied"} BY <1>6, <1>9, <3>2 DEF Held
    <3>3. CASE o \notin {"success", "quota", "denied"} BY <1>1, <1>6, <1>9, <2>4, <3>3 DEF Held
    <3>. QED BY <3>1, <3>2, <3>3
  <2>. QED BY <2>2, <2>6, <2>7, <2>8 DEF RegAt, Procs
<1>18. ASSUME NEW b \in Auths PROVE (SchedAt(b) => SchedAt(b)') /\ (RegAt(b) => RegAt(b)')
  <2>1. CASE b = a BY <1>16, <1>17, <2>1
  <2>2. CASE b # a BY <1>15, <2>2
  <2>. QED BY <2>1, <2>2
<1>. QED BY <1>0, <1>1, <1>12, <1>13, <1>14, <1>18, InvStep

------------------------------------------------------------------------------
(* An operator *)

LEMMA ReadStep ==
  ASSUME Inv, NEW o \in Operators, NEW a \in Auths, NEW disabled \in BOOLEAN, Read(o, a, disabled), Observe
  PROVE  Inv'
<1>0. TypeInv /\ o \in Procs /\ o \notin Requests BY ConductorAssumption DEF Inv, Procs
<1>1. Goto(o, "store") /\ UNCHANGED <<auths, sched, marks, suspended>> /\ pc[o] = "idle" BY DEF Read
<1>2. auths[a] \in Record BY <1>0, Tables
<1>3. PICK rec \in Record : rec = [auths[a] EXCEPT !.disabled = disabled] /\ rec.exceeded = auths[a].exceeded
  <2>1. [auths[a] EXCEPT !.disabled = disabled] \in Record BY <1>2 DEF Record
  <2>2. [auths[a] EXCEPT !.disabled = disabled].exceeded = auths[a].exceeded BY <1>2 DEF Record
  <2>. QED BY <2>1, <2>2
<1>4. PICK j \in Jobs : j = [NoJob EXCEPT !.auth = a, !.rec = rec] /\ j.auth = a /\ j.rec = rec
  <2>1. [NoJob EXCEPT !.auth = a, !.rec = rec] \in Jobs BY NoJobType DEF Jobs
  <2>2. [NoJob EXCEPT !.auth = a, !.rec = rec].auth = a /\ [NoJob EXCEPT !.auth = a, !.rec = rec].rec = rec
    BY NoJobType DEF Jobs
  <2>. QED BY <2>1, <2>2
<1>5. job' = [job EXCEPT ![o] = j] BY <1>3, <1>4 DEF Read
<1>6. job' \in [Procs -> Jobs] /\ job'[o] = j /\ \A q \in Procs : q # o => job'[q] = job[q]
  BY <1>0, <1>5 DEF TypeInv
<1>7. TypeOK' BY <1>0, <1>1 DEF TypeInv, TypeOK
<1>8. TypeInv' BY <1>0, <1>1, <1>4, <1>6, <1>7, TypeStep DEF Labels
<1>9. pc'[o] = "store" /\ \A q \in Procs : q # o => pc'[q] = pc[q] BY <1>0, <1>1, Moved DEF Labels
<1>10. ASSUME NEW b \in Auths, SchedAt(b) PROVE SchedAt(b)'
  <2>1. ~HandsOver(o, b) /\ ~HandsOver(o, b)' BY <1>1, <1>9 DEF HandsOver
  <2>. QED BY <1>0, <1>1, <1>6, <1>9, <1>10, <2>1, SchedStays
<1>11. ASSUME NEW b \in Auths, RegAt(b), \A q, s \in Procs : Reports(q, b)' /\ Reports(s, b)' => q = s
       PROVE  RegAt(b)'
  <2>1. ~Reports(o, b) BY <1>0, <1>1 DEF Reports
  <2>2. Reports(o, b)' <=> b = a BY <1>0, <1>4, <1>6, <1>9 DEF Reports
  <2>3. CASE b # a BY <1>0, <1>1, <1>6, <1>9, <1>11, <2>1, <2>2, <2>3, RegStays
  <2>4. CASE b = a
    <3>1. \A q \in Procs : q # o => ~Reports(q, b)' /\ ~Reports(q, b)
      <4>. SUFFICES ASSUME NEW q \in Procs, q # o PROVE ~Reports(q, b)' /\ ~Reports(q, b) OBVIOUS
      <4>1. ~Reports(q, b)' BY <1>0, <1>11, <2>2, <2>4
      <4>. QED BY <1>6, <1>9, <4>1 DEF Reports
    <3>2. \A n \in Models : Agree(b, n) /\ Held(b, n)
      BY <1>11, <2>1, <3>1 DEF RegAt, Marking, Holding, Procs
    <3>3. \A n \in Models : Agree(b, n)' /\ Held(b, n)' BY <1>1, <3>2 DEF Agree, Held
    <3>4. \A q \in Requests : ~Reports(q, b)' BY <1>0, <3>1 DEF Procs
    <3>5. \A q \in Operators : Reports(q, b)' => job'[q].rec.exceeded = auths'[b].exceeded
      BY <1>1, <1>3, <1>4, <1>6, <2>4, <3>1 DEF Procs
    <3>. QED BY <1>11, <3>3, <3>4, <3>5 DEF RegAt
  <2>. QED BY <2>3, <2>4
<1>. QED BY <1>0, <1>6, <1>8, <1>9, <1>10, <1>11, InvStep

LEMMA StoreStep ==
  ASSUME Inv, NEW o \in Operators, Store(o), Observe
  PROVE  Inv'
<1>0. TypeInv /\ o \in Procs /\ o \notin Requests BY ConductorAssumption DEF Inv, Procs
<1>1. Goto(o, "handoff") /\ UNCHANGED <<sched, marks, suspended, job>> /\ pc[o] = "store" BY DEF Store
<1>2. PICK a \in Auths : a = job[o].auth BY <1>0, <1>1 DEF TypeInv
<1>3. PICK rec \in Record : rec = job[o].rec BY <1>0, Parts
<1>4. auths \in [Auths -> Record] BY <1>0, Tables
<1>5. auths' = [auths EXCEPT ![a] = rec] BY <1>2, <1>3 DEF Store
<1>6. auths' \in [Auths -> Record] /\ auths'[a] = rec /\ \A b \in Auths : b # a => auths'[b] = auths[b]
  BY <1>4, <1>5
<1>7. TypeOK' BY <1>0, <1>1, <1>6 DEF TypeInv, TypeOK
<1>8. job \in [Procs -> Jobs] BY <1>0 DEF TypeInv
<1>9. TypeInv' BY <1>0, <1>1, <1>2, <1>7, <1>8, TypeStep DEF Labels
<1>10. pc'[o] = "handoff" /\ \A q \in Procs : q # o => pc'[q] = pc[q] BY <1>0, <1>1, Moved DEF Labels
<1>11. ASSUME NEW b \in Auths, SchedAt(b), \A q, s \in Procs : HandsOver(q, b)' /\ HandsOver(s, b)' => q = s
       PROVE  SchedAt(b)'
  <2>1. HandsOver(o, b)' <=> b = a BY <1>0, <1>1, <1>2, <1>10 DEF HandsOver
  <2>2. ~HandsOver(o, b) BY <1>0, <1>1 DEF HandsOver
  <2>3. CASE b # a BY <1>0, <1>1, <1>6, <1>10, <1>11, <2>1, <2>2, <2>3, SchedStays
  <2>4. CASE b = a
    <3>1. \A q \in Requests : q # o => pc'[q] # "rebuild" /\ ~(pc'[q] = "handoff" /\ job'[q].auth = b)
      BY <1>0, <1>11, <2>1, <2>4 DEF HandsOver, Procs
    <3>. QED BY <1>0, <1>11, <2>1, <2>4, <3>1 DEF SchedAt
  <2>. QED BY <2>3, <2>4
<1>12. ASSUME NEW b \in Auths, RegAt(b) PROVE RegAt(b)'
  <2>1. ~Reports(o, b)' BY <1>0, <1>10 DEF Reports
  <2>2. Reports(o, b) <=> b = a BY <1>0, <1>1, <1>2 DEF Reports
  <2>3. CASE b # a BY <1>0, <1>1, <1>6, <1>10, <1>12, <2>1, <2>2, <2>3, RegStays
  <2>4. CASE b = a
    <3>1. \A q \in Procs : ~Reports(q, b)' /\ (q # o => ~Reports(q, b))
      <4>. SUFFICES ASSUME NEW q \in Procs, q # o PROVE ~Reports(q, b)' /\ ~Reports(q, b) BY <2>1
      <4>1. ~Reports(q, b) BY <1>0, <1>12, <2>2, <2>4 DEF RegAt
      <4>. QED BY <1>1, <1>10, <4>1 DEF Reports
    <3>2. \A n \in Models : Agree(b, n) /\ Held(b, n)
      BY <1>0, <1>12, <3>1 DEF RegAt, Marking, Holding, Procs
    <3>3. auths'[b].exceeded = auths[b].exceeded BY <1>3, <1>2, <1>6, <1>12, <2>2, <2>4 DEF RegAt
    <3>4. \A n \in Models : Agree(b, n)' /\ Held(b, n)' BY <1>1, <3>2, <3>3 DEF Agree, Held
    <3>. QED BY <3>1, <3>4 DEF RegAt, Procs
  <2>. QED BY <2>3, <2>4
<1>. QED BY <1>0, <1>1, <1>9, <1>10, <1>11, <1>12, InvStep

LEMMA ShowStep ==
  ASSUME Inv, NEW o \in Operators, Show(o), Observe
  PROVE  Inv'
<1>0. TypeInv /\ o \in Procs /\ o \notin Requests BY ConductorAssumption DEF Inv, Procs
<1>1. Goto(o, "idle") /\ UNCHANGED <<auths, marks, suspended>> /\ pc[o] = "handoff" BY DEF Show
<1>2. PICK a \in Auths : a = job[o].auth BY <1>0, <1>1 DEF TypeInv
<1>3. auths[a] \in Record /\ sched \in [Auths -> Record] BY <1>0, Tables
<1>4. entry(auths[a]) \in Record /\ (entry(auths[a]).disabled => entry(auths[a]) = NoEntry)
  BY <1>3, EntryRecord
<1>5. sched' = [sched EXCEPT ![a] = entry(auths[a])] BY <1>2 DEF Show
<1>6. sched' \in [Auths -> Record] /\ sched'[a] = entry(auths[a]) /\ \A b \in Auths : b # a => sched'[b] = sched[b]
  BY <1>3, <1>4, <1>5
<1>7. TypeOK' BY <1>0, <1>1, <1>4, <1>6 DEF TypeInv, TypeOK
<1>8. job' \in [Procs -> Jobs] /\ \A q \in Procs : q # o => job'[q] = job[q]
  BY <1>0, NoJobType DEF Show, TypeInv
<1>9. TypeInv' BY <1>0, <1>1, <1>7, <1>8, TypeStep DEF Labels
<1>10. pc'[o] = "idle" /\ \A q \in Procs : q # o => pc'[q] = pc[q] BY <1>0, <1>1, Moved DEF Labels
<1>11. ASSUME NEW b \in Auths, SchedAt(b) PROVE SchedAt(b)'
  <2>1. ~HandsOver(o, b)' BY <1>10 DEF HandsOver
  <2>2. HandsOver(o, b) <=> b = a BY <1>1, <1>2 DEF HandsOver
  <2>3. CASE b # a BY <1>0, <1>1, <1>6, <1>8, <1>10, <1>11, <2>1, <2>2, <2>3, SchedStays
  <2>4. CASE b = a
    <3>1. \A q \in Procs : ~HandsOver(q, b)'
      <4>. SUFFICES ASSUME NEW q \in Procs, q # o PROVE ~HandsOver(q, b)' BY <2>1
      <4>1. ~HandsOver(q, b) BY <1>0, <1>11, <2>2, <2>4 DEF SchedAt
      <4>. QED BY <1>8, <1>10, <4>1 DEF HandsOver
    <3>2. sched'[b] = entry(auths'[b]) BY <1>1, <1>6, <2>4
    <3>. QED BY <3>1, <3>2 DEF SchedAt, HandsOver, Procs, entry
  <2>. QED BY <2>3, <2>4
<1>12. ASSUME NEW b \in Auths, RegAt(b) PROVE RegAt(b)'
  <2>1. ~Reports(o, b) /\ ~Reports(o, b)' BY <1>0, <1>1, <1>10 DEF Reports
  <2>. QED BY <1>0, <1>1, <1>8, <1>10, <1>12, <2>1, RegStays
<1>. QED BY <1>0, <1>8, <1>9, <1>10, <1>11, <1>12, InvStep

------------------------------------------------------------------------------
(* The theorems *)

LEMMA InvNext == Inv /\ [Next]_vars => Inv'
<1>. SUFFICES ASSUME Inv, [Next]_vars PROVE Inv' OBVIOUS
<1>1. CASE Next
  <2>1. Observe BY <1>1 DEF Next
  <2>2. ASSUME NEW r \in Requests, NEW m \in Models, Arrive(r, m) PROVE Inv' BY <2>1, <2>2, ArriveStep
  <2>3. ASSUME NEW r \in Requests, Step(r) PROVE Inv'
    <3>1. CASE Pick(r) BY <2>1, <3>1, PickStep
    <3>2. CASE Snapshot(r) BY <2>1, <3>2, SnapshotStep
    <3>3. CASE Rebuild(r) BY <2>1, <3>3, RebuildStep
    <3>4. CASE Refuse(r) \/ Cancel(r) BY <2>1, <3>4, LeaveStep
    <3>5. ASSUME NEW outcome \in Outcomes, Mark(r, outcome) PROVE Inv' BY <2>1, <3>5, MarkStep
    <3>6. CASE Handoff(r) BY <2>1, <3>6, HandoffStep
    <3>7. CASE MarkQuota(r) BY <2>1, <3>7, MarkQuotaStep
    <3>8. CASE Suspend(r) BY <2>1, <3>8, SuspendStep
    <3>9. CASE Return(r) BY <2>1, <3>9, ReturnStep
    <3>. QED BY <2>3, <3>1, <3>2, <3>3, <3>4, <3>5, <3>6, <3>7, <3>8, <3>9 DEF Step
  <2>4. ASSUME NEW o \in Operators, NEW a \in Auths, NEW disabled \in BOOLEAN, Read(o, a, disabled)
        PROVE  Inv'
    BY <2>1, <2>4, ReadStep
  <2>5. ASSUME NEW o \in Operators, Store(o) \/ Show(o) PROVE Inv' BY <2>1, <2>5, StoreStep, ShowStep
  <2>. QED BY <1>1, <2>2, <2>3, <2>4, <2>5 DEF Next
<1>2. CASE UNCHANGED vars
  BY <1>2 DEF vars, Inv, TypeInv, TypeOK, SchedAt, RegAt, RefusalAt, HandsOver, Reports, Agree, Held,
     Marking,
              Holding, Exhausted, entry
<1>. QED BY <1>1, <1>2

\* Whatever the processes do and however their steps interleave, the scheduler and the
\* registry hold what the Manager holds for every auth of which no two handoffs, or
\* reports, overlapped: no path of a result, a resynchronisation or an operator's change
\* leaves a table behind (Manager.MarkResult, syncScheduler, Manager.Update).
THEOREM TablesCorrect == Spec => []TablesInStep
<1>1. Inv => TablesInStep
  <2>. SUFFICES ASSUME Inv PROVE TablesInStep OBVIOUS
  <2>1. InStep BY DEF Inv, TypeInv, InStep, SchedAt
  <2>2. ASSUME NEW a \in Auths, "registry" \notin overlapped[a], \A p \in Procs : ~Reports(p, a), NEW m \in Models
        PROVE  Agree(a, m) /\ Held(a, m)
    BY <2>2 DEF Inv, RegAt, Marking, Holding, Procs
  <2>3. RegistryInStep BY <2>2 DEF RegistryInStep, Agree, Held
  <2>. QED BY <2>1, <2>3 DEF TablesInStep
<1>. QED BY InvInit, InvNext, <1>1, PTL DEF Spec

\* A request that may still try credentials is refused only when no auth it has not tried
\* was usable all along and left alone by the others between its two picks: the retry
\* after syncScheduler makes up for any scheduler that is behind (pickNextMixed).
THEOREM RefusalCorrect == Spec => []RefusalJustified
<1>1. Inv => RefusalJustified BY DEF Inv, RefusalAt, RefusalJustified
<1>. QED BY InvInit, InvNext, <1>1, PTL DEF Spec

------------------------------------------------------------------------------
(* OAuthSessions *)

CONSTANTS Flows, Plans, MaxVisits, StartBy, MaxNow

VARIABLES
  provider, web, at, until, got, saved, session, forwarder, listening, prev, file, visitor,
  visits, now

Logins == INSTANCE OAuthSessions WITH pc <- at

Providers   == Logins!Callback \cup {"qwen", "kimi"}
Starting == {"replace", "stopPrev", "listen", "publish"}
Running  == {"wait", "judge", "exchange", "onboard", "save", "complete", "sweep"}
Ending   == {"unpublish", "close", "done"}
LoginLabels == {"idle", "poll", "refused"} \cup Starting \cup Running \cup Ending
Sessions == [status : {"gone", "pending", "error"}, until : Nat]

\* What the proofs need of the types; the assumption is carried along.
LoginTypes ==
  /\ Logins!OAuthAssumption
  /\ provider \in [Flows -> Providers]
  /\ web \in [Flows -> BOOLEAN]
  /\ at \in [Flows -> LoginLabels]
  /\ until \in [Flows -> Nat]
  /\ saved \subseteq Flows
  /\ session \in [Flows -> Sessions]
  /\ forwarder \in [Logins!Callback -> Flows \cup {Logins!NoFlow}]
  /\ listening \subseteq Flows
  /\ prev \in [Flows -> Flows \cup {Logins!NoFlow}]
  /\ now \in Nat

\* Only a web client's login with a callback opens a port.
FromWeb == \A f \in Flows : /\ web[f] => provider[f] \in Logins!Callback
                            /\ at[f] \in Starting \cup {"unpublish", "close"} => web[f]

\* A port is open from listen to close, for one login of the provider at a time, and the
\* table, or the one that replaces it, names it from publish on.
Ports ==
  /\ \A f \in listening : web[f] /\ at[f] \in {"publish", "unpublish", "close"} \cup Running
  /\ \A f, g \in listening : provider[f] = provider[g] => f = g
  /\ \A f \in Flows : at[f] = "publish" => f \in listening
  /\ \A p \in Logins!Callback : forwarder[p] # Logins!NoFlow =>
       /\ forwarder[p] \in listening /\ provider[forwarder[p]] = p
       /\ at[forwarder[p]] \in Running \cup {"unpublish"}
  /\ \A f \in listening : \/ forwarder[provider[f]] = f
                          \/ at[f] \in {"publish", "close"}
                          \/ \E g \in Flows : prev[g] = f
  /\ \A g \in Flows : prev[g] # Logins!NoFlow =>
       /\ at[g] = "stopPrev" /\ web[prev[g]]
       /\ at[prev[g]] \in Running \cup Ending
       /\ forwarder[provider[prev[g]]] # prev[g]

OInv == LoginTypes /\ FromWeb /\ Ports

------------------------------------------------------------------------------
(* The store of sessions *)

\* What an operation may do to a session it is not about: nothing, or drop it when it is over.
Purged(s, f) == IF now > s[f].until THEN [s[f] EXCEPT !.status = "gone"] ELSE s[f]

LEMMA PurgeKeeps ==
  ASSUME LoginTypes, NEW s, s = Logins!purgeExpiredLocked(session)
  PROVE  /\ s \in [Flows -> Sessions]
         /\ \A f \in Flows : /\ s[f].until = session[f].until
                             /\ s[f].status = IF now > session[f].until THEN "gone" ELSE session[f].status
<1>1. ASSUME NEW f \in Flows
      PROVE  /\ Purged(session, f) \in Sessions
             /\ Purged(session, f).until = session[f].until
             /\ Purged(session, f).status = IF now > session[f].until THEN "gone" ELSE session[f].status
  <2>1. PICK e \in Sessions : e = session[f] BY DEF LoginTypes
  <2>2. [e EXCEPT !.status = "gone"] \in Sessions /\ [e EXCEPT !.status = "gone"].until = e.until
        /\ [e EXCEPT !.status = "gone"].status = "gone"
    BY DEF Sessions
  <2>. QED BY <2>1, <2>2 DEF Purged
<1>2. s = [f \in Flows |-> Purged(session, f)] BY DEF Logins!purgeExpiredLocked, Purged
<1>. QED BY <1>1, <1>2

LEMMA SessionMade ==
  ASSUME NEW t \in Nat, NEW status \in {"gone", "pending", "error"}
  PROVE  LET e == [status |-> status, until |-> t + Logins!TTL]
         IN  e \in Sessions /\ e.status = status /\ e.until = t + Logins!TTL
<1>1. t + Logins!TTL \in Nat BY DEF Logins!TTL
<1>2. PICK u \in Nat : u = t + Logins!TTL BY <1>1
<1>3. [status |-> status, until |-> u] \in Sessions BY DEF Sessions
<1>. QED BY <1>2, <1>3

LEMMA SessionDropped ==
  ASSUME NEW e \in Sessions
  PROVE  LET d == [e EXCEPT !.status = "gone"]
         IN  d \in Sessions /\ d.status = "gone" /\ d.until = e.until
BY DEF Sessions

\* The session of a login after one of the operations.
Stays(f) ==
  /\ session'[f].until = session[f].until
  /\ session'[f].status = session[f].status \/ (session'[f].status = "gone" /\ now > session[f].until)

LEMMA StoreKept ==
  ASSUME LoginTypes, session' = session \/ session' = Logins!purgeExpiredLocked(session)
  PROVE  session' \in [Flows -> Sessions] /\ \A f \in Flows : Stays(f)
<1>1. CASE session' = session BY <1>1 DEF LoginTypes, Stays
<1>2. CASE session' = Logins!purgeExpiredLocked(session) BY <1>2, PurgeKeeps DEF Stays
<1>. QED BY <1>1, <1>2

LEMMA StoreRegister ==
  ASSUME LoginTypes, NEW f \in Flows, Logins!Register(f)
  PROVE  /\ session' \in [Flows -> Sessions]
         /\ session'[f].status = "pending" /\ session'[f].until = now + Logins!TTL
         /\ \A g \in Flows \ {f} : Stays(g)
<1>1. PICK s : s = Logins!purgeExpiredLocked(session) OBVIOUS
<1>2. /\ s \in [Flows -> Sessions]
      /\ \A g \in Flows : /\ s[g].until = session[g].until
                          /\ s[g].status = IF now > session[g].until THEN "gone" ELSE session[g].status
  BY <1>1, PurgeKeeps
<1>3. PICK e \in Sessions : /\ e = [status |-> "pending", until |-> now + Logins!TTL]
                             /\ e.status = "pending" /\ e.until = now + Logins!TTL
  <2>1. PICK t \in Nat : t = now BY DEF LoginTypes
  <2>. QED BY <2>1, SessionMade
<1>4. session' = [s EXCEPT ![f] = e] BY <1>1, <1>3 DEF Logins!Register
<1>5. \A g \in Flows \ {f} : session'[g] = s[g] BY <1>2, <1>4
<1>6. session'[f] = e BY <1>2, <1>4
<1>7. session' \in [Flows -> Sessions] BY <1>2, <1>4
<1>. QED BY <1>2, <1>3, <1>5, <1>6, <1>7 DEF Stays

LEMMA StoreError ==
  ASSUME LoginTypes, NEW f \in Flows, Logins!SetError(f)
  PROVE  /\ session' \in [Flows -> Sessions]
         /\ session'[f].status = "error" \/ Stays(f)
         /\ \A g \in Flows \ {f} : Stays(g)
<1>1. PICK s : s = Logins!purgeExpiredLocked(session) OBVIOUS
<1>2. /\ s \in [Flows -> Sessions]
      /\ \A g \in Flows : /\ s[g].until = session[g].until
                          /\ s[g].status = IF now > session[g].until THEN "gone" ELSE session[g].status
  BY <1>1, PurgeKeeps
<1>3. PICK e \in Sessions : /\ e = [status |-> "error", until |-> now + Logins!TTL]
                             /\ e.status = "error" /\ e.until = now + Logins!TTL
  <2>1. PICK t \in Nat : t = now BY DEF LoginTypes
  <2>. QED BY <2>1, SessionMade
<1>4. session' = (IF s[f].status = "gone" THEN s ELSE [s EXCEPT ![f] = e]) BY <1>1, <1>3 DEF Logins!SetError
<1>5. CASE s[f].status = "gone" BY <1>2, <1>4, <1>5 DEF Stays
<1>6. CASE s[f].status # "gone"
  <2>1. session' = [s EXCEPT ![f] = e] BY <1>4, <1>6
  <2>2. \A g \in Flows \ {f} : session'[g] = s[g] BY <1>2, <2>1
  <2>3. session'[f] = e BY <1>2, <2>1
  <2>4. session' \in [Flows -> Sessions] BY <1>2, <2>1
  <2>. QED BY <1>2, <1>3, <2>2, <2>3, <2>4 DEF Stays
<1>. QED BY <1>5, <1>6

LEMMA StoreComplete ==
  ASSUME LoginTypes, NEW f \in Flows, Logins!Complete(f)
  PROVE  /\ session' \in [Flows -> Sessions]
         /\ session'[f].status = "gone" /\ session'[f].until = session[f].until
         /\ \A g \in Flows \ {f} : Stays(g)
<1>1. PICK s : s = Logins!purgeExpiredLocked(session) OBVIOUS
<1>2. /\ s \in [Flows -> Sessions]
      /\ \A g \in Flows : /\ s[g].until = session[g].until
                          /\ s[g].status = IF now > session[g].until THEN "gone" ELSE session[g].status
  BY <1>1, PurgeKeeps
<1>3. PICK e \in Sessions : e = s[f] BY <1>2
<1>4. PICK d \in Sessions : d = [e EXCEPT !.status = "gone"] /\ d.status = "gone" /\ d.until = e.until
  BY SessionDropped
<1>5. session' = [s EXCEPT ![f] = d] BY <1>1, <1>3, <1>4 DEF Logins!Complete
<1>6. \A g \in Flows \ {f} : session'[g] = s[g] BY <1>2, <1>5
<1>7. session'[f] = d BY <1>2, <1>5
<1>8. session' \in [Flows -> Sessions] BY <1>2, <1>5
<1>. QED BY <1>2, <1>3, <1>4, <1>6, <1>7, <1>8 DEF Stays

LEMMA StoreSweep ==
  ASSUME LoginTypes, NEW p, Logins!CompleteProvider(p)
  PROVE  /\ session' \in [Flows -> Sessions]
         /\ \A g \in Flows : /\ session'[g].until = session[g].until
                             /\ Stays(g) \/ (session'[g].status = "gone" /\ provider[g] = p)
<1>1. PICK s : s = Logins!purgeExpiredLocked(session) OBVIOUS
<1>2. /\ s \in [Flows -> Sessions]
      /\ \A g \in Flows : /\ s[g].until = session[g].until
                          /\ s[g].status = IF now > session[g].until THEN "gone" ELSE session[g].status
  BY <1>1, PurgeKeeps
<1>3. session' = [g \in Flows |-> IF provider[g] = p THEN [s[g] EXCEPT !.status = "gone"] ELSE s[g]]
  BY <1>1 DEF Logins!CompleteProvider
<1>4. ASSUME NEW g \in Flows
      PROVE  /\ session'[g] \in Sessions /\ session'[g].until = session[g].until
             /\ Stays(g) \/ (session'[g].status = "gone" /\ provider[g] = p)
  <2>1. PICK e \in Sessions : e = s[g] BY <1>2
  <2>2. PICK d \in Sessions : d = [e EXCEPT !.status = "gone"] /\ d.status = "gone" /\ d.until = e.until
    BY SessionDropped
  <2>3. session'[g] = IF provider[g] = p THEN d ELSE e BY <1>3, <2>1, <2>2
  <2>. QED BY <1>2, <2>1, <2>2, <2>3 DEF Stays
<1>5. session' \in [Flows -> Sessions]
  <2>1. \E S : session' = S /\ DOMAIN S = Flows /\ S \in [Flows -> Sessions] BY <1>3, <1>4
  <2>. QED BY <2>1
<1>. QED BY <1>4, <1>5

------------------------------------------------------------------------------
(* The steps of a login, by what they do to it *)

Leaving(f) == IF web[f] THEN "unpublish" ELSE "done"
Goes(f, from, to) == at[f] \in from /\ \E l \in to : at' = [at EXCEPT ![f] = l]
Still == UNCHANGED <<provider, web, until, forwarder, listening, prev, now>>

Asks(f) ==
  /\ Logins!Register(f)
  /\ \E w \in BOOLEAN, u \in Nat, l \in {"replace", "wait", "poll"} :
       /\ web' = [web EXCEPT ![f] = w] /\ until' = [until EXCEPT ![f] = u]
       /\ Goes(f, {"idle"}, {l})
       /\ w = (l = "replace") /\ (w => provider[f] \in Logins!Callback) /\ (l = "wait" => u = now + Logins!Wait)
  /\ UNCHANGED <<provider, saved, forwarder, listening, prev, now>>

Advances(f) ==
  /\ session' = session \/ session' = Logins!purgeExpiredLocked(session)
  /\ Goes(f, {"wait", "judge", "exchange", "onboard", "poll"}, {"judge", "exchange", "onboard", "save", Leaving(f)})
  /\ Still /\ saved' = saved

Fails(f) ==
  /\ Logins!SetError(f)
  /\ Goes(f, {"wait", "judge", "exchange", "onboard", "poll", "save"}, {Leaving(f)})
  /\ Still /\ saved' = saved

Saves(f) ==
  /\ Goes(f, {"save"}, {"complete"}) /\ saved' = saved \cup {f}
  /\ Still /\ session' = session

Completes(f) ==
  /\ Logins!Complete(f) /\ Goes(f, {"complete"}, {"sweep", Leaving(f)})
  /\ Still /\ saved' = saved

Sweeps(f) ==
  /\ Logins!CompleteProvider(provider[f]) /\ Goes(f, {"sweep"}, {Leaving(f)}) /\ provider[f] # "qwen"
  /\ Still /\ saved' = saved

OfPorts(f) == Logins!startCallbackForwarder(f) \/ Logins!stopCallbackForwarderInstance(f)

Works(f) == Advances(f) \/ Fails(f) \/ Saves(f) \/ Completes(f) \/ Sweeps(f)

\* A callback is delivered, or nothing happens.
Delivers ==
  /\ session' = session \/ session' = Logins!purgeExpiredLocked(session)
  /\ at' = at /\ saved' = saved /\ Still

\* The steps that the providers share.
LEMMA FlowKinds ==
  ASSUME LoginTypes, NEW f \in Flows, provider[f] # "qwen"
  PROVE  /\ Logins!Poll(f) => Works(f)
         /\ \A accepted \in BOOLEAN : Logins!Judge(f, accepted) => Works(f)
         /\ \A next \in {"save", "onboard"} : Logins!Exchange(f, next) => Works(f)
         /\ Logins!Onboard(f) => Works(f)
         /\ Logins!PollForToken(f) => Works(f)
         /\ Logins!saveTokenRecord(f) => Works(f)
         /\ Logins!CompleteOwn(f, TRUE) => Works(f)
         /\ Logins!Sweep(f) => Works(f)
<1>1. Logins!Poll(f) => Advances(f) \/ Fails(f)
  BY DEF Logins!Poll, Logins!Ended, Logins!GivesUp, Logins!Reads, Logins!Fail, Logins!Leave, Logins!Goto,
     Advances, Fails, Goes, Leaving, Still
<1>2. \A accepted \in BOOLEAN : Logins!Judge(f, accepted) => Advances(f) \/ Fails(f)
  BY DEF Logins!Judge, Logins!Fail, Logins!Leave, Logins!Goto, Advances, Fails, Goes, Leaving, Still
<1>3. \A next \in {"save", "onboard"} : Logins!Exchange(f, next) => Advances(f) \/ Fails(f)
  BY DEF Logins!Exchange, Logins!Fail, Logins!Leave, Logins!Goto, Advances, Fails, Goes, Leaving, Still
<1>4. Logins!Onboard(f) => Advances(f) \/ Fails(f)
  BY DEF Logins!Onboard, Logins!Fail, Logins!Leave, Logins!Goto, Advances, Fails, Goes, Leaving, Still
<1>5. Logins!PollForToken(f) => Advances(f) \/ Fails(f)
  BY DEF Logins!PollForToken, Logins!Fail, Logins!Leave, Logins!Goto, Advances, Fails, Goes, Leaving, Still
<1>6. Logins!saveTokenRecord(f) => Saves(f) \/ Fails(f)
  BY DEF Logins!saveTokenRecord, Logins!Fail, Logins!Leave, Logins!Goto, Saves, Fails, Goes, Leaving, Still
<1>7. Logins!CompleteOwn(f, TRUE) => Completes(f)
  BY DEF Logins!CompleteOwn, Logins!Goto, Completes, Goes, Leaving, Still
<1>8. Logins!Sweep(f) => Sweeps(f)
  BY DEF Logins!Sweep, Logins!Leave, Logins!Goto, Sweeps, Goes, Leaving, Still
<1>. QED BY <1>1, <1>2, <1>3, <1>4, <1>5, <1>6, <1>7, <1>8 DEF Works

LEMMA QwenKinds ==
  ASSUME LoginTypes, NEW f \in Flows
  PROVE  Logins!PollForToken(f) \/ Logins!saveTokenRecord(f) \/ Logins!CompleteOwn(f, FALSE) => Works(f)
<1>1. Logins!PollForToken(f) => Advances(f) \/ Fails(f)
  BY DEF Logins!PollForToken, Logins!Fail, Logins!Leave, Logins!Goto, Advances, Fails, Goes, Leaving, Still
<1>2. Logins!saveTokenRecord(f) => Saves(f) \/ Fails(f)
  BY DEF Logins!saveTokenRecord, Logins!Fail, Logins!Leave, Logins!Goto, Saves, Fails, Goes, Leaving, Still
<1>3. Logins!CompleteOwn(f, FALSE) => Completes(f)
  BY DEF Logins!CompleteOwn, Logins!Leave, Logins!Goto, Completes, Goes, Leaving, Still
<1>. QED BY <1>1, <1>2, <1>3 DEF Works

LEMMA AskKinds ==
  ASSUME LoginTypes, NEW f \in Flows
  PROVE  /\ Logins!Request(f) /\ provider[f] \in Logins!Callback => Asks(f)
         /\ \A patience \in {Logins!QwenPatience, Logins!KimiPatience} :
              provider[f] \in {"qwen", "kimi"} /\ Logins!RequestDevice(f, patience) /\ ~web[f]
                => Asks(f)
<1>0. now + Logins!Wait \in Nat BY DEF LoginTypes, Logins!Wait
<1>1. ASSUME Logins!Request(f), provider[f] \in Logins!Callback PROVE Asks(f)
  <2>1. PICK w \in BOOLEAN : web' = [web EXCEPT ![f] = w] /\ Logins!Goto(f, IF w THEN "replace" ELSE "wait")
    BY <1>1 DEF Logins!Request
  <2>2. PICK l \in {"replace", "wait", "poll"} : l = IF w THEN "replace" ELSE "wait" BY <2>1
  <2>3. w = (l = "replace") BY <2>1, <2>2
  <2>4. PICK u \in Nat : u = now + Logins!Wait BY <1>0
  <2>5. until' = [until EXCEPT ![f] = u] /\ Logins!Register(f) /\ at[f] = "idle"
        /\ UNCHANGED <<provider, saved, forwarder, listening, prev, now>>
    BY <1>1, <2>4 DEF Logins!Request
  <2>6. Goes(f, {"idle"}, {l}) BY <2>1, <2>2, <2>5 DEF Logins!Goto, Goes
  <2>. QED BY <1>1, <2>1, <2>2, <2>3, <2>4, <2>5, <2>6 DEF Asks
<1>2. ASSUME NEW patience \in {Logins!QwenPatience, Logins!KimiPatience}, Logins!RequestDevice(f, patience), ~web[f]
      PROVE  Asks(f)
  <2>1. PICK d \in patience : until' = [until EXCEPT ![f] = now + d] BY <1>2 DEF Logins!RequestDevice
  <2>2. d \in Nat BY <2>1 DEF Logins!QwenPatience, Logins!KimiPatience
  <2>3. PICK u \in Nat : u = now + d BY <2>2 DEF LoginTypes
  <2>4. PICK w \in BOOLEAN : w = FALSE OBVIOUS
  <2>5. web' = [web EXCEPT ![f] = w]
    <3>1. web' = web BY <1>2 DEF Logins!RequestDevice
    <3>2. web = [web EXCEPT ![f] = w] BY <1>2, <2>4 DEF LoginTypes
    <3>. QED BY <3>1, <3>2
  <2>6. /\ Logins!Register(f) /\ Goes(f, {"idle"}, {"poll"})
        /\ UNCHANGED <<provider, saved, forwarder, listening, prev, now>>
    BY <1>2 DEF Logins!RequestDevice, Goes, Logins!Goto
  <2>7. until' = [until EXCEPT ![f] = u] BY <2>1, <2>3
  <2>. QED BY <2>4, <2>5, <2>6, <2>7 DEF Asks
<1>. QED BY <1>1, <1>2

LEMMA StepKinds ==
  ASSUME LoginTypes, FromWeb, [Logins!OAuthNext]_Logins!oauthVars
  PROVE  Delivers \/ Logins!Pass \/ \E f \in Flows : Asks(f) \/ OfPorts(f) \/ Works(f)
<1>1. ASSUME NEW f \in Flows, NEW accepted \in BOOLEAN, NEW next \in {"save", "onboard"},
             provider[f] \in Logins!Callback, Logins!CallbackFlow(f, accepted, next)
      PROVE  Asks(f) \/ OfPorts(f) \/ Works(f)
  <2>1. provider[f] # "qwen" BY <1>1 DEF Logins!Callback
  <2>2. Logins!Request(f) => Asks(f) BY <1>1, AskKinds
  <2>3. (\/ Logins!Poll(f) \/ Logins!Judge(f, accepted) \/ Logins!Exchange(f, next)
         \/ Logins!saveTokenRecord(f) \/ Logins!CompleteOwn(f, TRUE) \/ Logins!Sweep(f))
        => Works(f)
    BY <2>1, FlowKinds
  <2>. QED BY <1>1, <2>2, <2>3 DEF Logins!CallbackFlow, OfPorts
<1>2. ASSUME NEW f \in Flows, Logins!Login(f) PROVE Asks(f) \/ OfPorts(f) \/ Works(f)
  <2>1. CASE Logins!RequestAnthropicToken(f)
    <3>1. Logins!AnthropicAccepts(got[f]) \in BOOLEAN
      BY DEF Logins!AnthropicAccepts, Logins!HasError, Logins!HasState
    <3>. QED BY <1>1, <2>1, <3>1 DEF Logins!RequestAnthropicToken, Logins!Callback
  <2>2. CASE Logins!RequestGeminiCLIToken(f)
    <3>1. Logins!GeminiAccepts(got[f]) \in BOOLEAN
      BY DEF Logins!GeminiAccepts, Logins!HasError, Logins!HasCode
    <3>2. provider[f] = "gemini" BY <2>2 DEF Logins!RequestGeminiCLIToken
    <3>3. Logins!Onboard(f) => Works(f) BY <3>2, FlowKinds
    <3>. QED BY <1>1, <2>2, <3>1, <3>2, <3>3 DEF Logins!RequestGeminiCLIToken, Logins!Callback
  <2>3. CASE Logins!RequestCodexToken(f)
    <3>1. Logins!CodexAccepts(got[f]) \in BOOLEAN
      BY DEF Logins!CodexAccepts, Logins!HasError, Logins!HasState
    <3>. QED BY <1>1, <2>3, <3>1 DEF Logins!RequestCodexToken, Logins!Callback
  <2>4. CASE Logins!RequestAntigravityToken(f)
    <3>1. Logins!AntigravityAccepts(got[f]) \in BOOLEAN
      BY DEF Logins!AntigravityAccepts, Logins!HasError, Logins!HasCode
    <3>. QED BY <1>1, <2>4, <3>1 DEF Logins!RequestAntigravityToken, Logins!Callback
  <2>5. CASE Logins!RequestIFlowToken(f)
    <3>1. Logins!IFlowAccepts(got[f]) \in BOOLEAN
      BY DEF Logins!IFlowAccepts, Logins!HasError, Logins!HasState, Logins!HasCode
    <3>. QED BY <1>1, <2>5, <3>1 DEF Logins!RequestIFlowToken, Logins!Callback
  <2>6. CASE Logins!RequestQwenToken(f)
    <3>1. provider[f] = "qwen" /\ ~web[f] BY <2>6 DEF Logins!RequestQwenToken, FromWeb, Logins!Callback
    <3>2. Logins!RequestDevice(f, Logins!QwenPatience) => Asks(f) BY <3>1, AskKinds
    <3>. QED BY <2>6, <3>2, QwenKinds DEF Logins!RequestQwenToken
  <2>7. CASE Logins!RequestKimiToken(f)
    <3>1. provider[f] = "kimi" /\ ~web[f] BY <2>7 DEF Logins!RequestKimiToken, FromWeb, Logins!Callback
    <3>2. Logins!RequestDevice(f, Logins!KimiPatience) => Asks(f) BY <3>1, AskKinds
    <3>3. Logins!PollForToken(f) \/ Logins!saveTokenRecord(f) \/ Logins!CompleteOwn(f, TRUE) \/ Logins!Sweep(f) => Works(f)
      BY <3>1, FlowKinds
    <3>. QED BY <2>7, <3>2, <3>3 DEF Logins!RequestKimiToken
  <2>. QED BY <1>2, <2>1, <2>2, <2>3, <2>4, <2>5, <2>6, <2>7 DEF Logins!Login
<1>3. ASSUME NEW f \in Flows, NEW c \in Logins!Contents, Logins!WriteOAuthCallbackFileForPendingSession(f, c)
      PROVE  Delivers
  BY <1>3 DEF Logins!WriteOAuthCallbackFileForPendingSession, Delivers, Still
<1>4. ASSUME NEW f \in Flows, Logins!WriteOAuthCallbackFile(f) PROVE Delivers
  BY <1>4 DEF Logins!WriteOAuthCallbackFile, Delivers, Still
<1>5. CASE UNCHANGED Logins!oauthVars BY <1>5 DEF Logins!oauthVars, Delivers, Still
<1>. QED BY <1>2, <1>3, <1>4, <1>5 DEF Logins!OAuthNext

------------------------------------------------------------------------------
(* The ports *)

LEMMA OwnedInit == Logins!OAuthAssumption /\ Logins!OAuthInit => OInv
<1>. SUFFICES ASSUME Logins!OAuthAssumption, Logins!OAuthInit PROVE OInv OBVIOUS
<1>1. provider \in [Flows -> Providers] BY DEF Logins!OAuthAssumption, Logins!OAuthInit, Providers
<1>2. Logins!NoSession \in Sessions BY DEF Logins!NoSession, Sessions
<1>3. LoginTypes BY <1>1, <1>2 DEF Logins!OAuthInit, LoginTypes, LoginLabels
<1>4. FromWeb BY DEF Logins!OAuthInit, FromWeb, Starting
<1>5. Ports BY DEF Logins!OAuthInit, Ports
<1>. QED BY <1>3, <1>4, <1>5 DEF OInv

\* Steps that touch neither the table nor the ports keep them, if the login they are of has
\* no part in the change of a port before or after.
LEMMA OwnedKept ==
  ASSUME OInv, NEW f \in Flows, UNCHANGED <<provider, forwarder, listening, prev, now>>,
         session' \in [Flows -> Sessions], saved' \subseteq Flows, until' \in [Flows -> Nat],
         web' \in [Flows -> BOOLEAN], \A g \in Flows \ {f} : web'[g] = web[g],
         at' \in [Flows -> LoginLabels], \A g \in Flows \ {f} : at'[g] = at[g],
         web'[f] => provider[f] \in Logins!Callback,
         at'[f] \in Starting \cup {"unpublish", "close"} => web'[f],
         \/ at[f] = "idle" /\ at'[f] # "publish"
         \/ /\ at[f] \in Running \cup {"poll"} /\ web'[f] = web[f]
            /\ at'[f] \in Running \cup {Leaving(f)}
  PROVE  OInv'
<1>0. LoginTypes /\ FromWeb /\ Ports BY DEF OInv
<1>1. LoginTypes' BY <1>0 DEF LoginTypes
<1>2. FromWeb' BY <1>0 DEF FromWeb
<1>3. \A g \in listening : web'[g] /\ at'[g] \in {"publish", "unpublish", "close"} \cup Running
  BY <1>0 DEF Ports, LoginTypes, Leaving, Running
<1>4. \A g \in Flows : at'[g] = "publish" => g \in listening BY <1>0 DEF Ports, Running, Leaving
<1>5. \A p \in Logins!Callback : forwarder[p] # Logins!NoFlow =>
        /\ forwarder[p] \in listening /\ provider[forwarder[p]] = p
        /\ at'[forwarder[p]] \in Running \cup {"unpublish"}
  <2>. SUFFICES ASSUME NEW p \in Logins!Callback, forwarder[p] # Logins!NoFlow
                PROVE  /\ forwarder[p] \in listening /\ provider[forwarder[p]] = p
                       /\ at'[forwarder[p]] \in Running \cup {"unpublish"}
    OBVIOUS
  <2>1. PICK g \in Flows : g = forwarder[p] BY <1>0 DEF LoginTypes
  <2>2. g \in listening /\ provider[g] = p /\ at[g] \in Running \cup {"unpublish"} /\ web[g]
    BY <1>0, <2>1 DEF Ports
  <2>3. CASE g = f
    <3>1. at[f] # "idle" BY <2>2, <2>3 DEF Running
    <3>. QED BY <2>1, <2>2, <2>3, <3>1 DEF Leaving
  <2>4. CASE g # f BY <2>1, <2>2, <2>4
  <2>. QED BY <2>3, <2>4
<1>6. \A g \in listening : \/ forwarder[provider[g]] = g
                           \/ at'[g] \in {"publish", "close"}
                           \/ \E h \in Flows : prev[h] = g
  <2>. SUFFICES ASSUME NEW g \in listening PROVE \/ forwarder[provider[g]] = g
                                                 \/ at'[g] \in {"publish", "close"}
                                                 \/ \E h \in Flows : prev[h] = g
    OBVIOUS
  <2>1. g \in Flows BY <1>0 DEF LoginTypes
  <2>2. g = f => at[f] \notin {"publish", "close"} BY DEF Running
  <2>3. \/ forwarder[provider[g]] = g
        \/ at[g] \in {"publish", "close"}
        \/ \E h \in Flows : prev[h] = g
    BY <1>0 DEF Ports
  <2>. QED BY <2>1, <2>2, <2>3
<1>7. \A g \in Flows : prev[g] # Logins!NoFlow =>
        /\ at'[g] = "stopPrev" /\ web'[prev[g]]
        /\ at'[prev[g]] \in Running \cup Ending
        /\ forwarder[provider[prev[g]]] # prev[g]
  <2>. SUFFICES ASSUME NEW g \in Flows, prev[g] # Logins!NoFlow
                PROVE  /\ at'[g] = "stopPrev" /\ web'[prev[g]]
                       /\ at'[prev[g]] \in Running \cup Ending
                       /\ forwarder[provider[prev[g]]] # prev[g]
    OBVIOUS
  <2>1. PICK h \in Flows : h = prev[g] BY <1>0 DEF LoginTypes
  <2>2. at[g] = "stopPrev" /\ web[h] /\ at[h] \in Running \cup Ending /\ forwarder[provider[h]] # h
    BY <1>0, <2>1 DEF Ports
  <2>3. g # f BY <2>2 DEF Running
  <2>4. CASE h = f
    <3>1. at[f] # "idle" BY <2>2, <2>4 DEF Running, Ending
    <3>2. at'[f] \in Running \cup Ending BY <3>1 DEF Leaving, Ending
    <3>. QED BY <2>1, <2>2, <2>3, <2>4, <3>1, <3>2
  <2>5. CASE h # f BY <2>1, <2>2, <2>3, <2>5
  <2>. QED BY <2>4, <2>5
<1>8. \A g, h \in listening : provider[g] = provider[h] => g = h BY <1>0 DEF Ports
<1>9. Ports' BY <1>3, <1>4, <1>5, <1>6, <1>7, <1>8 DEF Ports
<1>. QED BY <1>1, <1>2, <1>9 DEF OInv

LEMMA OwnedAsks == ASSUME OInv, NEW f \in Flows, Asks(f) PROVE OInv'
<1>0. LoginTypes BY DEF OInv
<1>1. PICK w \in BOOLEAN, u \in Nat, l \in {"replace", "wait", "poll"} :
        /\ web' = [web EXCEPT ![f] = w] /\ until' = [until EXCEPT ![f] = u]
        /\ Goes(f, {"idle"}, {l})
        /\ w = (l = "replace") /\ (w => provider[f] \in Logins!Callback)
  BY DEF Asks
<1>2. at[f] = "idle" /\ at' = [at EXCEPT ![f] = l] BY <1>1 DEF Goes
<1>3. session' \in [Flows -> Sessions] BY <1>0, StoreRegister DEF Asks
<1>4. l \in LoginLabels /\ l # "publish" BY DEF LoginLabels, Starting, Running
<1>5. /\ web' \in [Flows -> BOOLEAN] /\ web'[f] = w /\ \A g \in Flows \ {f} : web'[g] = web[g]
      /\ at' \in [Flows -> LoginLabels] /\ at'[f] = l /\ \A g \in Flows \ {f} : at'[g] = at[g]
      /\ until' \in [Flows -> Nat]
  BY <1>0, <1>1, <1>2, <1>4 DEF LoginTypes
<1>6. saved' \subseteq Flows /\ UNCHANGED <<provider, forwarder, listening, prev, now>>
  BY <1>0 DEF Asks, LoginTypes
<1>7. at'[f] \in Starting \cup {"unpublish", "close"} => web'[f] BY <1>1, <1>5 DEF Starting
<1>. QED BY <1>1, <1>2, <1>3, <1>4, <1>5, <1>6, <1>7, OwnedKept

LEMMA WorksGoes ==
  ASSUME LoginTypes, NEW f \in Flows, Works(f)
  PROVE  /\ session' \in [Flows -> Sessions] /\ saved' \subseteq Flows /\ Still
         /\ at[f] \in Running \cup {"poll"} /\ at'[f] \in Running \cup {Leaving(f)}
         /\ at' \in [Flows -> LoginLabels] /\ \A g \in Flows \ {f} : at'[g] = at[g]
<1>1. Still /\ saved' \subseteq Flows
  BY DEF Works, Advances, Fails, Saves, Completes, Sweeps, LoginTypes
<1>2. session' \in [Flows -> Sessions]
  <2>1. CASE Advances(f) BY <2>1, StoreKept DEF Advances
  <2>2. CASE Fails(f) BY <2>2, StoreError DEF Fails
  <2>3. CASE Saves(f) BY <2>3 DEF Saves, LoginTypes
  <2>4. CASE Completes(f) BY <2>4, StoreComplete DEF Completes
  <2>5. CASE Sweeps(f) BY <2>5, StoreSweep DEF Sweeps
  <2>. QED BY <2>1, <2>2, <2>3, <2>4, <2>5 DEF Works
<1>3. at[f] \in Running \cup {"poll"} /\ \E l \in Running \cup {Leaving(f)} : at' = [at EXCEPT ![f] = l]
  BY DEF Works, Advances, Fails, Saves, Completes, Sweeps, Goes, Running
<1>4. PICK l \in Running \cup {Leaving(f)} : at' = [at EXCEPT ![f] = l] BY <1>3
<1>5. l \in LoginLabels BY DEF LoginLabels, Leaving, Ending
<1>6. at' \in [Flows -> LoginLabels] /\ at'[f] = l /\ \A g \in Flows \ {f} : at'[g] = at[g]
  BY <1>4, <1>5 DEF LoginTypes
<1>. QED BY <1>1, <1>2, <1>3, <1>6

LEMMA OwnedWorks == ASSUME OInv, NEW f \in Flows, Works(f) PROVE OInv'
<1>0. LoginTypes /\ FromWeb BY DEF OInv
<1>1. /\ session' \in [Flows -> Sessions] /\ saved' \subseteq Flows /\ Still
      /\ at[f] \in Running \cup {"poll"} /\ at'[f] \in Running \cup {Leaving(f)}
      /\ at' \in [Flows -> LoginLabels] /\ \A g \in Flows \ {f} : at'[g] = at[g]
  BY <1>0, WorksGoes
<1>2. UNCHANGED <<provider, forwarder, listening, prev, now>> /\ web' = web /\ until' = until
  BY <1>1 DEF Still
<1>3. at'[f] \in Starting \cup {"unpublish", "close"} => web'[f]
  BY <1>1, <1>2 DEF Running, Starting, Leaving
<1>4. web'[f] => provider[f] \in Logins!Callback BY <1>0, <1>2 DEF FromWeb
<1>5. web' \in [Flows -> BOOLEAN] /\ until' \in [Flows -> Nat] BY <1>0, <1>2 DEF LoginTypes
<1>. QED BY <1>1, <1>2, <1>3, <1>4, <1>5, OwnedKept

\* What a step of the port leaves alone.
LEMMA PortRest ==
  ASSUME OInv, NEW f \in Flows, OfPorts(f)
  PROVE  /\ UNCHANGED <<provider, web, saved, session, now>> /\ until' \in [Flows -> Nat]
         /\ at[f] \in Starting \cup {"unpublish", "close"} /\ web[f] /\ provider[f] \in Logins!Callback
         /\ at' \in [Flows -> LoginLabels] /\ at'[f] \in {"refused", "wait", "close", "done"} \cup Starting
         /\ \A g \in Flows \ {f} : at'[g] = at[g] /\ until'[g] = until[g]
<1>0. LoginTypes /\ FromWeb BY DEF OInv
<1>1. UNCHANGED <<provider, web, saved, session, now>> /\ at[f] \in Starting \cup {"unpublish", "close"}
  BY DEF OfPorts, Logins!startCallbackForwarder, Logins!stopCallbackForwarderInstance, Logins!TakePrev,
     Logins!StopPrev, Logins!Refuse, Logins!Listen,
     Logins!Publish, Logins!Unpublish, Logins!Close, Starting
<1>2. until' = until \/ until' = [until EXCEPT ![f] = now + Logins!Wait]
  BY DEF OfPorts, Logins!startCallbackForwarder, Logins!stopCallbackForwarderInstance, Logins!TakePrev,
     Logins!StopPrev, Logins!Refuse, Logins!Listen,
     Logins!Publish, Logins!Unpublish, Logins!Close
<1>3. PICK u \in Nat : u = now + Logins!Wait BY <1>0 DEF LoginTypes, Logins!Wait
<1>4. until' \in [Flows -> Nat] /\ \A g \in Flows \ {f} : until'[g] = until[g]
  BY <1>0, <1>2, <1>3 DEF LoginTypes
<1>5. \E l \in {"refused", "wait", "close", "done"} \cup Starting : at' = [at EXCEPT ![f] = l]
  BY DEF OfPorts, Logins!startCallbackForwarder, Logins!stopCallbackForwarderInstance, Logins!TakePrev,
     Logins!StopPrev, Logins!Refuse, Logins!Listen,
     Logins!Publish, Logins!Unpublish, Logins!Close, Logins!Goto, Starting
<1>6. PICK l \in {"refused", "wait", "close", "done"} \cup Starting : at' = [at EXCEPT ![f] = l] BY <1>5
<1>7. l \in LoginLabels BY DEF LoginLabels, Running, Ending
<1>8. at' \in [Flows -> LoginLabels] /\ at'[f] = l /\ \A g \in Flows \ {f} : at'[g] = at[g]
  BY <1>0, <1>6, <1>7 DEF LoginTypes
<1>9. web[f] /\ provider[f] \in Logins!Callback BY <1>0, <1>1 DEF FromWeb
<1>. QED BY <1>1, <1>4, <1>8, <1>9

\* The table gives the old forwarder to the login that replaces it.
LEMMA OwnedTakePrev == ASSUME OInv, NEW f \in Flows, Logins!TakePrev(f) PROVE OInv'
<1>0. LoginTypes /\ FromWeb /\ Ports BY DEF OInv
<1>10. /\ UNCHANGED <<provider, web, saved, session, now>> /\ until' \in [Flows -> Nat]
      /\ web[f] /\ provider[f] \in Logins!Callback
      /\ at' \in [Flows -> LoginLabels] /\ \A g \in Flows \ {f} : at'[g] = at[g]
  BY PortRest DEF OfPorts, Logins!startCallbackForwarder
<1>1. PICK p \in Logins!Callback : p = provider[f] BY <1>10
<1>2. PICK old \in Flows \cup {Logins!NoFlow} : old = forwarder[p] BY <1>0 DEF LoginTypes
<1>3. /\ at[f] = "replace" /\ prev' = [prev EXCEPT ![f] = old] /\ forwarder' = [forwarder EXCEPT ![p] = Logins!NoFlow]
      /\ at' = [at EXCEPT ![f] = IF old = Logins!NoFlow THEN "listen" ELSE "stopPrev"] /\ listening' = listening
  BY <1>1, <1>2 DEF Logins!TakePrev, Logins!Goto
<1>4. /\ prev' \in [Flows -> Flows \cup {Logins!NoFlow}] /\ prev'[f] = old
      /\ \A g \in Flows \ {f} : prev'[g] = prev[g]
      /\ forwarder' \in [Logins!Callback -> Flows \cup {Logins!NoFlow}] /\ forwarder'[p] = Logins!NoFlow
      /\ \A q \in Logins!Callback \ {p} : forwarder'[q] = forwarder[q]
      /\ at'[f] = IF old = Logins!NoFlow THEN "listen" ELSE "stopPrev"
  BY <1>0, <1>3 DEF LoginTypes
<1>5. LoginTypes' BY <1>0, <1>10, <1>3, <1>4 DEF LoginTypes
<1>6. FromWeb' BY <1>0, <1>10 DEF FromWeb
<1>7. f \notin listening BY <1>0, <1>3 DEF Ports, Running
<1>8. prev[f] = Logins!NoFlow /\ \A g \in Flows : prev[g] # f
  <2>1. prev[f] = Logins!NoFlow BY <1>0, <1>3 DEF Ports
  <2>2. \A g \in Flows : prev[g] # f
    <3>. SUFFICES ASSUME NEW g \in Flows, prev[g] = f PROVE FALSE OBVIOUS
    <3>1. f # Logins!NoFlow BY <1>0 DEF LoginTypes, Logins!OAuthAssumption
    <3>. QED BY <1>0, <1>3, <3>1 DEF Ports, Running, Ending
  <2>. QED BY <2>1, <2>2
<1>9. Ports'
  <2>1. \A g \in listening : web'[g] /\ at'[g] \in {"publish", "unpublish", "close"} \cup Running
    BY <1>0, <1>10, <1>7 DEF Ports, LoginTypes
  <2>2. \A g, h \in listening : provider'[g] = provider'[h] => g = h BY <1>0, <1>10 DEF Ports
  <2>3. \A g \in Flows : at'[g] = "publish" => g \in listening BY <1>0, <1>10, <1>4 DEF Ports
  <2>4. \A q \in Logins!Callback : forwarder'[q] # Logins!NoFlow =>
          /\ forwarder'[q] \in listening /\ provider'[forwarder'[q]] = q
          /\ at'[forwarder'[q]] \in Running \cup {"unpublish"}
    <3>. SUFFICES ASSUME NEW q \in Logins!Callback, forwarder'[q] # Logins!NoFlow
                  PROVE  /\ forwarder'[q] \in listening /\ provider'[forwarder'[q]] = q
                         /\ at'[forwarder'[q]] \in Running \cup {"unpublish"}
      OBVIOUS
    <3>1. q # p /\ forwarder'[q] = forwarder[q] BY <1>4
    <3>2. PICK g \in Flows : g = forwarder[q] BY <1>0, <3>1 DEF LoginTypes
    <3>3. g \in listening /\ provider[g] = q /\ at[g] \in Running \cup {"unpublish"}
      BY <1>0, <3>1, <3>2 DEF Ports
    <3>. QED BY <1>10, <1>7, <3>1, <3>2, <3>3
  <2>5. \A g \in listening : \/ forwarder'[provider'[g]] = g
                             \/ at'[g] \in {"publish", "close"}
                             \/ \E h \in Flows : prev'[h] = g
    <3>. SUFFICES ASSUME NEW g \in listening PROVE \/ forwarder'[provider'[g]] = g
                                                   \/ at'[g] \in {"publish", "close"}
                                                   \/ \E h \in Flows : prev'[h] = g
      OBVIOUS
    <3>0. g \in Flows /\ g # f /\ provider[g] \in Logins!Callback
      BY <1>0, <1>7 DEF LoginTypes, Ports, FromWeb
    <3>1. CASE forwarder[provider[g]] = g
      <4>1. CASE provider[g] = p BY <1>2, <1>4, <3>1, <4>1
      <4>2. CASE provider[g] # p BY <1>10, <1>4, <3>0, <3>1, <4>2
      <4>. QED BY <4>1, <4>2
    <3>2. CASE at[g] \in {"publish", "close"} BY <1>10, <3>0, <3>2
    <3>3. CASE \E h \in Flows : prev[h] = g
      <4>1. PICK h \in Flows : prev[h] = g BY <3>3
      <4>2. h # f BY <1>0, <1>8, <3>0, <4>1 DEF LoginTypes, Logins!OAuthAssumption
      <4>. QED BY <1>4, <4>1, <4>2
    <3>. QED BY <1>0, <3>1, <3>2, <3>3 DEF Ports
  <2>6. \A g \in Flows : prev'[g] # Logins!NoFlow =>
          /\ at'[g] = "stopPrev" /\ web'[prev'[g]]
          /\ at'[prev'[g]] \in Running \cup Ending
          /\ forwarder'[provider'[prev'[g]]] # prev'[g]
    <3>. SUFFICES ASSUME NEW g \in Flows, prev'[g] # Logins!NoFlow
                  PROVE  /\ at'[g] = "stopPrev" /\ web'[prev'[g]]
                         /\ at'[prev'[g]] \in Running \cup Ending
                         /\ forwarder'[provider'[prev'[g]]] # prev'[g]
      OBVIOUS
    <3>1. CASE g = f
      <4>1. old \in Flows /\ old # Logins!NoFlow /\ prev'[g] = old BY <1>4, <3>1
      <4>2. old \in listening /\ provider[old] = p /\ at[old] \in Running \cup {"unpublish"}
        BY <1>0, <1>2, <4>1 DEF Ports
      <4>3. web[old] BY <1>0, <4>2 DEF Ports
      <4>4. old # f BY <1>7, <4>2
      <4>. QED BY <1>10, <1>4, <3>1, <4>1, <4>2, <4>3, <4>4 DEF Ending
    <3>2. CASE g # f
      <4>1. prev'[g] = prev[g] BY <1>4, <3>2
      <4>2. PICK h \in Flows : h = prev[g] BY <1>0, <4>1 DEF LoginTypes
      <4>3. at[g] = "stopPrev" /\ web[h] /\ at[h] \in Running \cup Ending /\ forwarder[provider[h]] # h
        BY <1>0, <4>1, <4>2 DEF Ports
      <4>4. h # f /\ provider[h] \in Logins!Callback BY <1>0, <1>8, <4>2, <4>3 DEF FromWeb
      <4>5. forwarder'[provider[h]] # h
        <5>1. h # Logins!NoFlow BY <4>1, <4>2
        <5>. QED BY <1>4, <4>3, <4>4, <5>1
      <4>. QED BY <1>10, <3>2, <4>1, <4>2, <4>3, <4>4, <4>5
    <3>. QED BY <3>1, <3>2
  <2>. QED BY <1>10, <1>3, <2>1, <2>2, <2>3, <2>4, <2>5, <2>6 DEF Ports
<1>. QED BY <1>5, <1>6, <1>9 DEF OInv

LEMMA OwnedStopPrev == ASSUME OInv, NEW f \in Flows, Logins!StopPrev(f) PROVE OInv'
<1>0. LoginTypes /\ FromWeb /\ Ports BY DEF OInv
<1>1. /\ UNCHANGED <<provider, web, saved, session, now>> /\ until' \in [Flows -> Nat]
      /\ web[f] /\ provider[f] \in Logins!Callback
      /\ at' \in [Flows -> LoginLabels] /\ \A g \in Flows \ {f} : at'[g] = at[g]
  BY PortRest DEF OfPorts, Logins!startCallbackForwarder
<1>2. PICK old \in Flows \cup {Logins!NoFlow} : old = prev[f] BY <1>0 DEF LoginTypes
<1>3. /\ at[f] = "stopPrev" /\ prev' = [prev EXCEPT ![f] = Logins!NoFlow] /\ forwarder' = forwarder
      /\ at' = [at EXCEPT ![f] = "listen"] /\ listening' = listening \ {old}
  BY <1>2 DEF Logins!StopPrev, Logins!stopForwarderInstance, Logins!Goto
<1>4. /\ prev' \in [Flows -> Flows \cup {Logins!NoFlow}] /\ prev'[f] = Logins!NoFlow
      /\ \A g \in Flows \ {f} : prev'[g] = prev[g]
      /\ at'[f] = "listen"
  BY <1>0, <1>3 DEF LoginTypes
<1>5. LoginTypes' BY <1>0, <1>1, <1>3, <1>4 DEF LoginTypes
<1>6. FromWeb' BY <1>0, <1>1 DEF FromWeb
<1>7. f \notin listening /\ \A g \in Flows : prev[g] # f
  <2>1. f \notin listening BY <1>0, <1>3 DEF Ports, Running
  <2>2. \A g \in Flows : prev[g] # f
    <3>. SUFFICES ASSUME NEW g \in Flows, prev[g] = f PROVE FALSE OBVIOUS
    <3>1. f # Logins!NoFlow BY <1>0 DEF LoginTypes, Logins!OAuthAssumption
    <3>. QED BY <1>0, <1>3, <3>1 DEF Ports, Running, Ending
  <2>. QED BY <2>1, <2>2
<1>8. old # Logins!NoFlow => at[old] \in Running \cup Ending /\ forwarder[provider[old]] # old
  BY <1>0, <1>2 DEF Ports
<1>9. old \notin Flows \/ at[old] # "publish"
  BY <1>0, <1>8 DEF Running, Ending, LoginTypes, Logins!OAuthAssumption
<1>11. Ports'
  <2>1. \A g \in listening' : web'[g] /\ at'[g] \in {"publish", "unpublish", "close"} \cup Running
    BY <1>0, <1>1, <1>3, <1>7 DEF Ports, LoginTypes
  <2>2. \A g, h \in listening' : provider'[g] = provider'[h] => g = h BY <1>0, <1>1, <1>3 DEF Ports
  <2>3. \A g \in Flows : at'[g] = "publish" => g \in listening' BY <1>0, <1>1, <1>3, <1>4, <1>9 DEF Ports
  <2>4. \A q \in Logins!Callback : forwarder'[q] # Logins!NoFlow =>
          /\ forwarder'[q] \in listening' /\ provider'[forwarder'[q]] = q
          /\ at'[forwarder'[q]] \in Running \cup {"unpublish"}
    <3>. SUFFICES ASSUME NEW q \in Logins!Callback, forwarder'[q] # Logins!NoFlow
                  PROVE  /\ forwarder'[q] \in listening' /\ provider'[forwarder'[q]] = q
                         /\ at'[forwarder'[q]] \in Running \cup {"unpublish"}
      OBVIOUS
    <3>2. PICK g \in Flows : g = forwarder[q] /\ g # Logins!NoFlow BY <1>0, <1>3 DEF LoginTypes
    <3>3. g \in listening /\ provider[g] = q /\ at[g] \in Running \cup {"unpublish"} BY <1>0, <3>2 DEF Ports
    <3>4. g # old BY <1>8, <3>2, <3>3
    <3>. QED BY <1>1, <1>3, <1>7, <3>2, <3>3, <3>4
  <2>5. \A g \in listening' : \/ forwarder'[provider'[g]] = g
                              \/ at'[g] \in {"publish", "close"}
                              \/ \E h \in Flows : prev'[h] = g
    <3>. SUFFICES ASSUME NEW g \in listening' PROVE \/ forwarder'[provider'[g]] = g
                                                    \/ at'[g] \in {"publish", "close"}
                                                    \/ \E h \in Flows : prev'[h] = g
      OBVIOUS
    <3>0. g \in listening /\ g \in Flows /\ g # f /\ g # old BY <1>0, <1>3, <1>7 DEF LoginTypes
    <3>1. CASE \E h \in Flows : prev[h] = g
      <4>1. PICK h \in Flows : prev[h] = g BY <3>1
      <4>2. h # f BY <1>2, <3>0, <4>1
      <4>. QED BY <1>4, <4>1, <4>2
    <3>. QED BY <1>0, <1>1, <1>3, <3>0, <3>1 DEF Ports
  <2>6. \A g \in Flows : prev'[g] # Logins!NoFlow =>
          /\ at'[g] = "stopPrev" /\ web'[prev'[g]]
          /\ at'[prev'[g]] \in Running \cup Ending
          /\ forwarder'[provider'[prev'[g]]] # prev'[g]
    <3>. SUFFICES ASSUME NEW g \in Flows, prev'[g] # Logins!NoFlow
                  PROVE  /\ at'[g] = "stopPrev" /\ web'[prev'[g]]
                         /\ at'[prev'[g]] \in Running \cup Ending
                         /\ forwarder'[provider'[prev'[g]]] # prev'[g]
      OBVIOUS
    <3>1. g # f /\ prev'[g] = prev[g] BY <1>4
    <3>2. PICK h \in Flows : h = prev[g] BY <1>0, <3>1 DEF LoginTypes
    <3>3. at[g] = "stopPrev" /\ web[h] /\ at[h] \in Running \cup Ending /\ forwarder[provider[h]] # h
      BY <1>0, <3>1, <3>2 DEF Ports
    <3>4. h # f BY <1>7, <3>2
    <3>. QED BY <1>1, <1>3, <3>1, <3>2, <3>3, <3>4
  <2>. QED BY <1>1, <1>3, <2>1, <2>2, <2>3, <2>4, <2>5, <2>6 DEF Ports
<1>. QED BY <1>5, <1>6, <1>11 DEF OInv

\* A login whose label changes outside of a port's life: nothing else does.
LEMMA OwnedRefuse == ASSUME OInv, NEW f \in Flows, Logins!Refuse(f) PROVE OInv'
<1>0. LoginTypes /\ FromWeb /\ Ports BY DEF OInv
<1>1. /\ UNCHANGED <<provider, web, saved, session, now>> /\ until' \in [Flows -> Nat]
      /\ at' \in [Flows -> LoginLabels] /\ \A g \in Flows \ {f} : at'[g] = at[g]
  BY PortRest DEF OfPorts, Logins!startCallbackForwarder
<1>2. at[f] = "listen" /\ at' = [at EXCEPT ![f] = "refused"] /\ UNCHANGED <<forwarder, listening, prev>>
  BY DEF Logins!Refuse, Logins!Goto
<1>3. at'[f] = "refused" BY <1>0, <1>2 DEF LoginTypes
<1>4. LoginTypes' BY <1>0, <1>1, <1>2 DEF LoginTypes
<1>5. FromWeb' BY <1>0, <1>1, <1>3 DEF FromWeb, Starting
<1>6. f \notin listening /\ prev[f] = Logins!NoFlow BY <1>0, <1>2 DEF Ports, Running
<1>7. \A g \in Flows : prev[g] = f => f = Logins!NoFlow BY <1>0, <1>2 DEF Ports, Running, Ending
<1>8. \A g \in Flows : prev[g] # f BY <1>0, <1>7 DEF LoginTypes, Logins!OAuthAssumption
<1>9. \A g \in listening : g \in Flows /\ g # f /\ at'[g] = at[g] BY <1>0, <1>1, <1>6 DEF LoginTypes
<1>11. \A g \in Flows : prev[g] # Logins!NoFlow => at'[g] = at[g] /\ at'[prev[g]] = at[prev[g]]
  BY <1>0, <1>1, <1>6, <1>8 DEF LoginTypes
<1>12. \A q \in Logins!Callback : forwarder[q] # Logins!NoFlow => at'[forwarder[q]] = at[forwarder[q]]
  BY <1>0, <1>9 DEF Ports
<1>13. Ports' BY <1>0, <1>1, <1>2, <1>3, <1>9, <1>11, <1>12 DEF Ports
<1>. QED BY <1>4, <1>5, <1>13 DEF OInv

LEMMA OwnedListen == ASSUME OInv, NEW f \in Flows, Logins!Listen(f) PROVE OInv'
<1>0. LoginTypes /\ FromWeb /\ Ports BY DEF OInv
<1>1. /\ UNCHANGED <<provider, web, saved, session, now>> /\ until' \in [Flows -> Nat] /\ web[f]
      /\ at' \in [Flows -> LoginLabels] /\ \A g \in Flows \ {f} : at'[g] = at[g]
  BY PortRest DEF OfPorts, Logins!startCallbackForwarder
<1>2. /\ at[f] = "listen" /\ at' = [at EXCEPT ![f] = "publish"] /\ UNCHANGED <<forwarder, prev>>
      /\ listening' = listening \cup {f} /\ \A g \in listening : provider[g] # provider[f]
  BY DEF Logins!Listen, Logins!Goto, Logins!PortTaken
<1>3. at'[f] = "publish" BY <1>0, <1>2 DEF LoginTypes
<1>4. LoginTypes' BY <1>0, <1>1, <1>2 DEF LoginTypes
<1>5. FromWeb' BY <1>0, <1>1, <1>3 DEF FromWeb
<1>6. f \notin listening /\ prev[f] = Logins!NoFlow BY <1>0, <1>2 DEF Ports, Running
<1>7. \A g \in Flows : prev[g] = f => f = Logins!NoFlow BY <1>0, <1>2 DEF Ports, Running, Ending
<1>8. \A g \in Flows : prev[g] # f BY <1>0, <1>7 DEF LoginTypes, Logins!OAuthAssumption
<1>9. \A g \in listening : g \in Flows /\ g # f /\ at'[g] = at[g] BY <1>0, <1>1, <1>6 DEF LoginTypes
<1>11. \A g \in Flows : prev[g] # Logins!NoFlow => at'[g] = at[g] /\ at'[prev[g]] = at[prev[g]]
  BY <1>0, <1>1, <1>6, <1>8 DEF LoginTypes
<1>12. \A q \in Logins!Callback : forwarder[q] # Logins!NoFlow => at'[forwarder[q]] = at[forwarder[q]]
  BY <1>0, <1>9 DEF Ports
<1>13. Ports'
  <2>1. \A g \in listening' : web'[g] /\ at'[g] \in {"publish", "unpublish", "close"} \cup Running
    BY <1>0, <1>1, <1>2, <1>3, <1>9 DEF Ports
  <2>2. \A g, h \in listening' : provider'[g] = provider'[h] => g = h BY <1>0, <1>1, <1>2 DEF Ports
  <2>3. \A g \in Flows : at'[g] = "publish" => g \in listening' BY <1>0, <1>1, <1>2 DEF Ports
  <2>4. \A q \in Logins!Callback : forwarder'[q] # Logins!NoFlow =>
          /\ forwarder'[q] \in listening' /\ provider'[forwarder'[q]] = q
          /\ at'[forwarder'[q]] \in Running \cup {"unpublish"}
    BY <1>0, <1>1, <1>2, <1>12 DEF Ports
  <2>5. \A g \in listening' : \/ forwarder'[provider'[g]] = g
                              \/ at'[g] \in {"publish", "close"}
                              \/ \E h \in Flows : prev'[h] = g
    BY <1>0, <1>1, <1>2, <1>3, <1>9 DEF Ports
  <2>6. \A g \in Flows : prev'[g] # Logins!NoFlow =>
          /\ at'[g] = "stopPrev" /\ web'[prev'[g]]
          /\ at'[prev'[g]] \in Running \cup Ending
          /\ forwarder'[provider'[prev'[g]]] # prev'[g]
    BY <1>0, <1>1, <1>2, <1>11 DEF Ports
  <2>. QED BY <2>1, <2>2, <2>3, <2>4, <2>5, <2>6 DEF Ports
<1>. QED BY <1>4, <1>5, <1>13 DEF OInv

\* The port is the only one of its provider, so the table has nobody else in this place.
LEMMA OwnedPublish == ASSUME OInv, NEW f \in Flows, Logins!Publish(f) PROVE OInv'
<1>0. LoginTypes /\ FromWeb /\ Ports BY DEF OInv
<1>1. /\ UNCHANGED <<provider, web, saved, session, now>> /\ until' \in [Flows -> Nat] /\ web[f]
      /\ provider[f] \in Logins!Callback
      /\ at' \in [Flows -> LoginLabels] /\ \A g \in Flows \ {f} : at'[g] = at[g]
  BY PortRest DEF OfPorts, Logins!startCallbackForwarder
<1>2. PICK p \in Logins!Callback : p = provider[f] BY <1>1
<1>3. /\ at[f] = "publish" /\ at' = [at EXCEPT ![f] = "wait"] /\ UNCHANGED <<listening, prev>>
      /\ forwarder' = [forwarder EXCEPT ![p] = f]
  BY <1>2 DEF Logins!Publish, Logins!Goto
<1>4. /\ at'[f] = "wait" /\ forwarder' \in [Logins!Callback -> Flows \cup {Logins!NoFlow}] /\ forwarder'[p] = f
      /\ \A q \in Logins!Callback \ {p} : forwarder'[q] = forwarder[q]
  BY <1>0, <1>3 DEF LoginTypes
<1>5. LoginTypes' BY <1>0, <1>1, <1>3, <1>4 DEF LoginTypes
<1>6. FromWeb' BY <1>0, <1>1, <1>4 DEF FromWeb, Starting
<1>7. f \in listening /\ prev[f] = Logins!NoFlow /\ f # Logins!NoFlow
  BY <1>0, <1>3 DEF Ports, LoginTypes, Logins!OAuthAssumption
<1>8. \A g \in Flows : prev[g] # f BY <1>0, <1>3, <1>7 DEF Ports, Running, Ending
<1>9. forwarder[p] = Logins!NoFlow
  <2>. SUFFICES ASSUME forwarder[p] # Logins!NoFlow PROVE FALSE OBVIOUS
  <2>1. forwarder[p] \in listening /\ provider[forwarder[p]] = p /\ at[forwarder[p]] \in Running \cup {"unpublish"}
    BY <1>0 DEF Ports
  <2>2. forwarder[p] = f BY <1>0, <1>2, <1>7, <2>1 DEF Ports
  <2>. QED BY <1>3, <2>1, <2>2 DEF Running
<1>11. Ports'
  <2>1. \A g \in listening' : web'[g] /\ at'[g] \in {"publish", "unpublish", "close"} \cup Running
    BY <1>0, <1>1, <1>3, <1>4 DEF Ports, Running, LoginTypes
  <2>2. \A g, h \in listening' : provider'[g] = provider'[h] => g = h BY <1>0, <1>1, <1>3 DEF Ports
  <2>3. \A g \in Flows : at'[g] = "publish" => g \in listening' BY <1>0, <1>1, <1>3, <1>4 DEF Ports
  <2>4. \A q \in Logins!Callback : forwarder'[q] # Logins!NoFlow =>
          /\ forwarder'[q] \in listening' /\ provider'[forwarder'[q]] = q
          /\ at'[forwarder'[q]] \in Running \cup {"unpublish"}
    <3>. SUFFICES ASSUME NEW q \in Logins!Callback, forwarder'[q] # Logins!NoFlow
                  PROVE  /\ forwarder'[q] \in listening' /\ provider'[forwarder'[q]] = q
                         /\ at'[forwarder'[q]] \in Running \cup {"unpublish"}
      OBVIOUS
    <3>1. CASE q = p BY <1>1, <1>2, <1>3, <1>4, <1>7, <3>1 DEF Running
    <3>2. CASE q # p
      <4>1. PICK g \in Flows : g = forwarder[q] /\ forwarder'[q] = g /\ g # Logins!NoFlow
        BY <1>0, <1>4, <3>2 DEF LoginTypes
      <4>2. g \in listening /\ provider[g] = q /\ at[g] \in Running \cup {"unpublish"}
        BY <1>0, <4>1 DEF Ports
      <4>3. g # f BY <1>2, <3>2, <4>2
      <4>. QED BY <1>1, <1>3, <4>1, <4>2, <4>3
    <3>. QED BY <3>1, <3>2
  <2>5. \A g \in listening' : \/ forwarder'[provider'[g]] = g
                              \/ at'[g] \in {"publish", "close"}
                              \/ \E h \in Flows : prev'[h] = g
    <3>. SUFFICES ASSUME NEW g \in listening PROVE \/ forwarder'[provider'[g]] = g
                                                   \/ at'[g] \in {"publish", "close"}
                                                   \/ \E h \in Flows : prev'[h] = g
      BY <1>3
    <3>1. CASE g = f BY <1>1, <1>2, <1>4, <3>1
    <3>2. CASE g # f
      <4>1. g \in Flows /\ provider[g] \in Logins!Callback /\ provider[g] # p
        BY <1>0, <1>2, <1>7, <3>2 DEF LoginTypes, Ports, FromWeb
      <4>. QED BY <1>0, <1>1, <1>3, <1>4, <3>2, <4>1 DEF Ports
    <3>. QED BY <3>1, <3>2
  <2>6. \A g \in Flows : prev'[g] # Logins!NoFlow =>
          /\ at'[g] = "stopPrev" /\ web'[prev'[g]]
          /\ at'[prev'[g]] \in Running \cup Ending
          /\ forwarder'[provider'[prev'[g]]] # prev'[g]
    <3>. SUFFICES ASSUME NEW g \in Flows, prev[g] # Logins!NoFlow
                  PROVE  /\ at'[g] = "stopPrev" /\ web'[prev[g]]
                         /\ at'[prev[g]] \in Running \cup Ending
                         /\ forwarder'[provider'[prev[g]]] # prev[g]
      BY <1>3
    <3>1. PICK h \in Flows : h = prev[g] BY <1>0 DEF LoginTypes
    <3>2. at[g] = "stopPrev" /\ web[h] /\ at[h] \in Running \cup Ending /\ forwarder[provider[h]] # h
      BY <1>0, <3>1 DEF Ports
    <3>3. g # f /\ h # f /\ provider[h] \in Logins!Callback BY <1>0, <1>3, <1>8, <3>1, <3>2 DEF FromWeb
    <3>4. forwarder'[provider[h]] # h BY <1>4, <3>2, <3>3
    <3>. QED BY <1>1, <3>1, <3>2, <3>3, <3>4
  <2>. QED BY <2>1, <2>2, <2>3, <2>4, <2>5, <2>6 DEF Ports
<1>. QED BY <1>5, <1>6, <1>11 DEF OInv

LEMMA OwnedUnpublish == ASSUME OInv, NEW f \in Flows, Logins!Unpublish(f) PROVE OInv'
<1>0. LoginTypes /\ FromWeb /\ Ports BY DEF OInv
<1>1. /\ UNCHANGED <<provider, web, saved, session, now>> /\ until' \in [Flows -> Nat] /\ web[f]
      /\ provider[f] \in Logins!Callback
      /\ at' \in [Flows -> LoginLabels] /\ \A g \in Flows \ {f} : at'[g] = at[g]
  BY PortRest DEF OfPorts, Logins!stopCallbackForwarderInstance
<1>2. PICK p \in Logins!Callback : p = provider[f] BY <1>1
<1>3. /\ at[f] = "unpublish" /\ at' = [at EXCEPT ![f] = "close"] /\ UNCHANGED <<listening, prev>>
      /\ forwarder' = IF forwarder[p] = f THEN [forwarder EXCEPT ![p] = Logins!NoFlow] ELSE forwarder
  BY <1>2 DEF Logins!Unpublish, Logins!Unpublished, Logins!Goto
<1>4. /\ at'[f] = "close" /\ forwarder' \in [Logins!Callback -> Flows \cup {Logins!NoFlow}]
      /\ \A q \in Logins!Callback : forwarder'[q] = IF forwarder[q] = f /\ q = p THEN Logins!NoFlow ELSE forwarder[q]
  BY <1>0, <1>3 DEF LoginTypes
<1>5. LoginTypes' BY <1>0, <1>1, <1>3, <1>4 DEF LoginTypes
<1>6. FromWeb' BY <1>0, <1>1, <1>4 DEF FromWeb
<1>7. f # Logins!NoFlow BY <1>0 DEF LoginTypes, Logins!OAuthAssumption
<1>8. prev[f] = Logins!NoFlow BY <1>0, <1>3 DEF Ports
<1>9. \A q \in Logins!Callback : forwarder[q] = f => q = p BY <1>0, <1>2, <1>7 DEF Ports
<1>11. Ports'
  <2>1. \A g \in listening' : web'[g] /\ at'[g] \in {"publish", "unpublish", "close"} \cup Running
    BY <1>0, <1>1, <1>3, <1>4 DEF Ports, LoginTypes
  <2>2. \A g, h \in listening' : provider'[g] = provider'[h] => g = h BY <1>0, <1>1, <1>3 DEF Ports
  <2>3. \A g \in Flows : at'[g] = "publish" => g \in listening' BY <1>0, <1>1, <1>3, <1>4 DEF Ports
  <2>4. \A q \in Logins!Callback : forwarder'[q] # Logins!NoFlow =>
          /\ forwarder'[q] \in listening' /\ provider'[forwarder'[q]] = q
          /\ at'[forwarder'[q]] \in Running \cup {"unpublish"}
    <3>. SUFFICES ASSUME NEW q \in Logins!Callback, forwarder'[q] # Logins!NoFlow
                  PROVE  /\ forwarder'[q] \in listening' /\ provider'[forwarder'[q]] = q
                         /\ at'[forwarder'[q]] \in Running \cup {"unpublish"}
      OBVIOUS
    <3>1. PICK g \in Flows : g = forwarder[q] /\ forwarder'[q] = g /\ g # Logins!NoFlow
      BY <1>0, <1>4 DEF LoginTypes
    <3>2. g \in listening /\ provider[g] = q /\ at[g] \in Running \cup {"unpublish"} BY <1>0, <3>1 DEF Ports
    <3>3. g # f BY <1>4, <1>7, <1>9, <3>1
    <3>. QED BY <1>1, <1>3, <3>1, <3>2, <3>3
  <2>5. \A g \in listening' : \/ forwarder'[provider'[g]] = g
                              \/ at'[g] \in {"publish", "close"}
                              \/ \E h \in Flows : prev'[h] = g
    <3>. SUFFICES ASSUME NEW g \in listening PROVE \/ forwarder'[provider'[g]] = g
                                                   \/ at'[g] \in {"publish", "close"}
                                                   \/ \E h \in Flows : prev'[h] = g
      BY <1>3
    <3>1. CASE g = f BY <1>4, <3>1
    <3>2. CASE g # f
      <4>1. g \in Flows /\ provider[g] \in Logins!Callback BY <1>0 DEF LoginTypes, Ports, FromWeb
      <4>. QED BY <1>0, <1>1, <1>3, <1>4, <3>2, <4>1 DEF Ports
    <3>. QED BY <3>1, <3>2
  <2>6. \A g \in Flows : prev'[g] # Logins!NoFlow =>
          /\ at'[g] = "stopPrev" /\ web'[prev'[g]]
          /\ at'[prev'[g]] \in Running \cup Ending
          /\ forwarder'[provider'[prev'[g]]] # prev'[g]
    <3>. SUFFICES ASSUME NEW g \in Flows, prev[g] # Logins!NoFlow
                  PROVE  /\ at'[g] = "stopPrev" /\ web'[prev[g]]
                         /\ at'[prev[g]] \in Running \cup Ending
                         /\ forwarder'[provider'[prev[g]]] # prev[g]
      BY <1>3
    <3>1. PICK h \in Flows : h = prev[g] BY <1>0 DEF LoginTypes
    <3>2. at[g] = "stopPrev" /\ web[h] /\ at[h] \in Running \cup Ending /\ forwarder[provider[h]] # h
      BY <1>0, <3>1 DEF Ports
    <3>3. g # f /\ provider[h] \in Logins!Callback /\ h # Logins!NoFlow
      BY <1>0, <1>3, <3>1, <3>2 DEF FromWeb
    <3>4. forwarder'[provider[h]] # h BY <1>4, <3>2, <3>3
    <3>5. at'[h] \in Running \cup Ending BY <1>1, <1>4, <3>2 DEF Ending
    <3>. QED BY <1>1, <3>1, <3>2, <3>3, <3>4, <3>5
  <2>. QED BY <2>1, <2>2, <2>3, <2>4, <2>5, <2>6 DEF Ports
<1>. QED BY <1>5, <1>6, <1>11 DEF OInv

LEMMA OwnedClose == ASSUME OInv, NEW f \in Flows, Logins!Close(f) PROVE OInv'
<1>0. LoginTypes /\ FromWeb /\ Ports BY DEF OInv
<1>1. /\ UNCHANGED <<provider, web, saved, session, now>> /\ until' \in [Flows -> Nat]
      /\ at' \in [Flows -> LoginLabels] /\ \A g \in Flows \ {f} : at'[g] = at[g]
  BY PortRest DEF OfPorts, Logins!stopCallbackForwarderInstance
<1>2. /\ at[f] = "close" /\ at' = [at EXCEPT ![f] = "done"] /\ UNCHANGED <<forwarder, prev>>
      /\ listening' = listening \ {f}
  BY DEF Logins!Close, Logins!stopForwarderInstance, Logins!Goto
<1>3. at'[f] = "done" BY <1>0, <1>2 DEF LoginTypes
<1>4. LoginTypes' BY <1>0, <1>1, <1>2 DEF LoginTypes
<1>5. FromWeb' BY <1>0, <1>1, <1>3 DEF FromWeb, Starting
<1>6. prev[f] = Logins!NoFlow BY <1>0, <1>2 DEF Ports
<1>7. \A g \in listening' : g \in listening /\ g \in Flows /\ g # f /\ at'[g] = at[g]
  BY <1>0, <1>1, <1>2 DEF LoginTypes
<1>8. \A q \in Logins!Callback : forwarder[q] # Logins!NoFlow =>
        forwarder[q] \in listening' /\ at'[forwarder[q]] = at[forwarder[q]]
  <2>. SUFFICES ASSUME NEW q \in Logins!Callback, forwarder[q] # Logins!NoFlow
                PROVE  forwarder[q] \in listening' /\ at'[forwarder[q]] = at[forwarder[q]]
    OBVIOUS
  <2>1. forwarder[q] \in listening /\ at[forwarder[q]] \in Running \cup {"unpublish"} BY <1>0 DEF Ports
  <2>2. forwarder[q] # f BY <1>2, <2>1 DEF Running
  <2>. QED BY <1>2, <1>7, <2>1, <2>2
<1>9. \A g \in Flows : prev[g] # Logins!NoFlow => at'[g] = "stopPrev" /\ at'[prev[g]] \in Running \cup Ending
  <2>. SUFFICES ASSUME NEW g \in Flows, prev[g] # Logins!NoFlow
                PROVE  at'[g] = "stopPrev" /\ at'[prev[g]] \in Running \cup Ending
    OBVIOUS
  <2>1. PICK h \in Flows : h = prev[g] BY <1>0 DEF LoginTypes
  <2>2. at[g] = "stopPrev" /\ at[h] \in Running \cup Ending BY <1>0, <2>1 DEF Ports
  <2>3. g # f BY <1>6
  <2>. QED BY <1>1, <1>3, <2>1, <2>2, <2>3 DEF Ending
<1>11. Ports'
  <2>1. \A g \in listening' : web'[g] /\ at'[g] \in {"publish", "unpublish", "close"} \cup Running
    BY <1>0, <1>1, <1>7 DEF Ports
  <2>2. \A g, h \in listening' : provider'[g] = provider'[h] => g = h BY <1>0, <1>1, <1>7 DEF Ports
  <2>3. \A g \in Flows : at'[g] = "publish" => g \in listening' BY <1>0, <1>1, <1>2, <1>3 DEF Ports
  <2>4. \A q \in Logins!Callback : forwarder'[q] # Logins!NoFlow =>
          /\ forwarder'[q] \in listening' /\ provider'[forwarder'[q]] = q
          /\ at'[forwarder'[q]] \in Running \cup {"unpublish"}
    BY <1>0, <1>1, <1>2, <1>8 DEF Ports
  <2>5. \A g \in listening' : \/ forwarder'[provider'[g]] = g
                              \/ at'[g] \in {"publish", "close"}
                              \/ \E h \in Flows : prev'[h] = g
    BY <1>0, <1>1, <1>2, <1>7 DEF Ports
  <2>6. \A g \in Flows : prev'[g] # Logins!NoFlow =>
          /\ at'[g] = "stopPrev" /\ web'[prev'[g]]
          /\ at'[prev'[g]] \in Running \cup Ending
          /\ forwarder'[provider'[prev'[g]]] # prev'[g]
    BY <1>0, <1>1, <1>2, <1>9 DEF Ports
  <2>. QED BY <2>1, <2>2, <2>3, <2>4, <2>5, <2>6 DEF Ports
<1>. QED BY <1>4, <1>5, <1>11 DEF OInv

LEMMA OwnedStep == OInv /\ [Logins!OAuthNext]_Logins!oauthVars => OInv'
<1>. SUFFICES ASSUME OInv, [Logins!OAuthNext]_Logins!oauthVars PROVE OInv' OBVIOUS
<1>0. LoginTypes /\ FromWeb /\ Ports BY DEF OInv
<1>1. CASE Delivers
  <2>1. session' \in [Flows -> Sessions] BY <1>0, <1>1, StoreKept DEF Delivers
  <2>2. at' = at /\ saved' = saved /\ UNCHANGED <<provider, web, until, forwarder, listening, prev, now>>
    BY <1>1 DEF Delivers, Still
  <2>. QED BY <1>0, <2>1, <2>2 DEF OInv, LoginTypes, FromWeb, Ports
<1>2. CASE Logins!Pass
  <2>1. now' = now + 1 /\ UNCHANGED <<provider, web, at, until, saved, session, forwarder, listening, prev>>
    BY <1>2 DEF Logins!Pass
  <2>2. now' \in Nat BY <1>0, <2>1 DEF LoginTypes
  <2>3. LoginTypes' BY <1>0, <2>1, <2>2 DEF LoginTypes
  <2>4. FromWeb' /\ Ports' BY <1>0, <2>1 DEF FromWeb, Ports
  <2>. QED BY <2>3, <2>4 DEF OInv
<1>3. ASSUME NEW f \in Flows, OfPorts(f) PROVE OInv'
  BY <1>3, OwnedTakePrev, OwnedStopPrev, OwnedRefuse, OwnedListen, OwnedPublish, OwnedUnpublish, OwnedClose
     DEF OfPorts, Logins!startCallbackForwarder, Logins!stopCallbackForwarderInstance
<1>. QED BY <1>0, <1>1, <1>2, <1>3, OwnedAsks, OwnedWorks, StepKinds

LEMMA OwnedAlways == Logins!OAuthAssumption /\ Logins!OAuthSpec => []OInv
<1>. QED BY OwnedInit, OwnedStep, PTL DEF Logins!OAuthSpec

\* A port is open for the login the table names, or for one about to enter it or being
\* stopped, and a login the table names has its port open (startCallbackForwarder and
\* stopCallbackForwarderInstance in auth_files.go): the part Owned of LoginsTrue.
THEOREM PortsOwned == Logins!OAuthAssumption /\ Logins!OAuthSpec => []Logins!Owned
<1>1. OInv => Logins!Owned
  <2>. SUFFICES ASSUME OInv PROVE Logins!Owned OBVIOUS
  <2>1. Ports BY DEF OInv
  <2>. QED BY <2>1 DEF Ports, Logins!Owned, Running
<1>. QED BY <1>1, OwnedAlways, PTL

------------------------------------------------------------------------------
(* What the client is told *)

\* The state of a login and its session: a record is written on the way to completion only;
\* a session that is over was completed, taken away or outlived; one in error is of a login
\* that wrote nothing and is ending; and one that waits for its callback outlasts the wait.
Truly(f) ==
  /\ at[f] \in {"complete", "sweep"} => f \in saved
  /\ f \in saved => at[f] \in {"complete", "sweep"} \cup Ending
  /\ session[f].status = "gone" => at[f] = "idle" \/ f \in saved \/ Logins!Swept(f) \/ Logins!Lapsed(f)
  /\ session[f].status = "error" => f \notin saved /\ at[f] \in Ending
  /\ at[f] \in Starting => session[f].until = now + Logins!TTL
  /\ at[f] = "wait" => session[f].until = until[f] + Logins!Wait /\ now <= session[f].until

TInv == \A f \in Flows : Truly(f)

\* A session as an operation about another login leaves it.
Spared(f) ==
  /\ session'[f].until = session[f].until
  /\ session'[f].status = session[f].status
       \/ (session'[f].status = "gone" /\ (Logins!Lapsed(f) \/ f \in saved \/ Logins!Swept(f)))

LEMMA TrulyKept ==
  ASSUME LoginTypes, NEW f \in Flows, Truly(f), Spared(f), at'[f] = at[f], until'[f] = until[f],
         provider' = provider, now' = now, f \in saved' <=> f \in saved, saved \subseteq saved'
  PROVE  Truly(f)'
<1>1. Logins!Lapsed(f)' <=> Logins!Lapsed(f) BY DEF Spared, Logins!Lapsed
<1>2. Logins!Swept(f) => Logins!Swept(f)' BY DEF Logins!Swept
<1>3. session'[f].status = "gone" => at'[f] = "idle" \/ f \in saved' \/ Logins!Swept(f)' \/ Logins!Lapsed(f)'
  BY <1>1, <1>2 DEF Truly, Spared
<1>4. session'[f].status = "error" => f \notin saved' /\ at'[f] \in Ending BY DEF Truly, Spared
<1>. QED BY <1>3, <1>4 DEF Truly, Spared

LEMMA StaysSpared == ASSUME NEW f \in Flows, Stays(f) PROVE Spared(f)
BY DEF Stays, Spared, Logins!Lapsed

LEMMA ToldInit == Logins!OAuthInit => TInv
BY DEF Logins!OAuthInit, TInv, Truly, Logins!NoSession, Starting, Ending

LEMMA ToldAsks == ASSUME OInv, TInv, NEW f \in Flows, Asks(f) PROVE TInv'
<1>0. LoginTypes BY DEF OInv
<1>1. /\ session' \in [Flows -> Sessions]
      /\ session'[f].status = "pending" /\ session'[f].until = now + Logins!TTL
      /\ \A g \in Flows \ {f} : Stays(g)
  BY <1>0, StoreRegister DEF Asks
<1>2. PICK u \in Nat, l \in {"replace", "wait", "poll"} :
        until' = [until EXCEPT ![f] = u] /\ Goes(f, {"idle"}, {l}) /\ (l = "wait" => u = now + Logins!Wait)
  BY DEF Asks
<1>3. at[f] = "idle" /\ at' = [at EXCEPT ![f] = l] BY <1>2 DEF Goes
<1>4. /\ at'[f] = l /\ until'[f] = u
      /\ \A g \in Flows \ {f} : at'[g] = at[g] /\ until'[g] = until[g]
  BY <1>0, <1>2, <1>3 DEF LoginTypes
<1>5. provider' = provider /\ saved' = saved /\ now' = now BY DEF Asks
<1>6. ASSUME NEW g \in Flows \ {f} PROVE Truly(g)'
  <2>1. Truly(g) /\ Spared(g) BY <1>1, StaysSpared DEF TInv
  <2>. QED BY <1>0, <1>4, <1>5, <2>1, TrulyKept
<1>7. Truly(f)'
  <2>1. f \notin saved BY <1>3 DEF TInv, Truly, Ending
  <2>2. now \in Nat /\ now + Logins!TTL = now + Logins!Wait + Logins!Wait /\ now <= now + Logins!TTL
    BY <1>0 DEF LoginTypes, Logins!TTL, Logins!Wait
  <2>3. l = "wait" => session'[f].until = until'[f] + Logins!Wait /\ now' <= session'[f].until
    BY <1>1, <1>2, <1>4, <1>5, <2>2
  <2>. QED BY <1>1, <1>4, <1>5, <2>1, <2>3 DEF Truly
<1>. QED BY <1>6, <1>7 DEF TInv

LEMMA ToldWorks == ASSUME OInv, TInv, NEW f \in Flows, Works(f) PROVE TInv'
<1>0. LoginTypes /\ Truly(f) BY DEF OInv, TInv
<1>1. /\ Still /\ at[f] \in Running \cup {"poll"} /\ at'[f] \in Running \cup {Leaving(f)}
      /\ at' \in [Flows -> LoginLabels] /\ \A g \in Flows \ {f} : at'[g] = at[g]
  BY <1>0, WorksGoes
<1>2. UNCHANGED <<provider, web, until, now>> /\ Leaving(f) \in Ending BY <1>1 DEF Still, Leaving, Ending
<1>3. saved \subseteq saved' /\ \A g \in Flows \ {f} : g \in saved' <=> g \in saved
  BY DEF Works, Advances, Fails, Saves, Completes, Sweeps
<1>4. Logins!Swept(f) => Logins!Swept(f)' BY <1>2, <1>3 DEF Logins!Swept
<1>5. \A g \in Flows \ {f} : Spared(g)
  <2>1. CASE Advances(f) BY <1>0, <2>1, StoreKept, StaysSpared DEF Advances
  <2>2. CASE Fails(f) BY <1>0, <2>2, StoreError, StaysSpared DEF Fails
  <2>3. CASE Saves(f) BY <2>3 DEF Saves, Spared
  <2>4. CASE Completes(f) BY <1>0, <2>4, StoreComplete, StaysSpared DEF Completes
  <2>5. CASE Sweeps(f)
    <3>1. f \in saved /\ provider[f] # "qwen" BY <1>0, <2>5 DEF Sweeps, Goes, Truly
    <3>2. \A g \in Flows : /\ session'[g].until = session[g].until
                           /\ Stays(g) \/ (session'[g].status = "gone" /\ provider[g] = provider[f])
      BY <1>0, <2>5, StoreSweep DEF Sweeps
    <3>3. \A g \in Flows \ {f} : provider[g] = provider[f] => Logins!Swept(g) BY <3>1 DEF Logins!Swept
    <3>. QED BY <3>2, <3>3, StaysSpared DEF Spared
  <2>. QED BY <2>1, <2>2, <2>3, <2>4, <2>5 DEF Works
<1>6. \A g \in Flows \ {f} : Truly(g)'
  <2>. SUFFICES ASSUME NEW g \in Flows \ {f} PROVE Truly(g)' OBVIOUS
  <2>1. Truly(g) BY DEF TInv
  <2>. QED BY <1>0, <1>1, <1>2, <1>3, <1>5, <2>1, TrulyKept
<1>7. Truly(f)'
  <2>0. session[f].status # "error" BY <1>0, <1>1 DEF Truly, Running, Ending
  <2>1. CASE Advances(f)
    <3>1. Stays(f) BY <1>0, <2>1, StoreKept DEF Advances
    <3>2. /\ at[f] \in {"wait", "judge", "exchange", "onboard", "poll"} /\ saved' = saved
          /\ at'[f] \in {"judge", "exchange", "onboard", "save"} \cup Ending
      BY <1>0, <1>2, <2>1 DEF Advances, Goes, LoginTypes
    <3>3. f \notin saved BY <1>0, <3>2 DEF Truly, Ending
    <3>4. session'[f].status = "gone" => Logins!Swept(f) \/ Logins!Lapsed(f)
      BY <1>0, <3>1, <3>2, <3>3 DEF Truly, Stays, Logins!Lapsed
    <3>5. Logins!Lapsed(f) => Logins!Lapsed(f)' BY <1>2, <3>1 DEF Logins!Lapsed, Stays
    <3>. QED BY <1>4, <2>0, <3>1, <3>2, <3>3, <3>4, <3>5 DEF Truly, Stays, Starting, Ending
  <2>2. CASE Fails(f)
    <3>1. session'[f].status = "error" \/ Stays(f) BY <1>0, <2>2, StoreError DEF Fails
    <3>2. /\ at[f] \in {"wait", "judge", "exchange", "onboard", "poll", "save"} /\ saved' = saved
          /\ at'[f] \in Ending
      BY <1>0, <1>2, <2>2 DEF Fails, Goes, LoginTypes
    <3>3. f \notin saved BY <1>0, <3>2 DEF Truly, Ending
    <3>4. session'[f].status = "gone" => Logins!Swept(f)' \/ Logins!Lapsed(f)'
      <4>. SUFFICES ASSUME session'[f].status = "gone" PROVE Logins!Swept(f)' \/ Logins!Lapsed(f)' OBVIOUS
      <4>1. Stays(f) BY <3>1
      <4>2. Logins!Swept(f) \/ Logins!Lapsed(f) BY <1>0, <3>2, <3>3, <4>1 DEF Truly, Stays, Logins!Lapsed
      <4>3. Logins!Lapsed(f) => Logins!Lapsed(f)' BY <1>2, <4>1 DEF Logins!Lapsed, Stays
      <4>. QED BY <1>4, <4>2, <4>3
    <3>. QED BY <3>2, <3>3, <3>4 DEF Truly, Starting, Ending
  <2>3. CASE Saves(f)
    <3>1. at'[f] = "complete" /\ f \in saved' /\ session' = session
      BY <1>0, <2>3 DEF Saves, Goes, LoginTypes
    <3>. QED BY <2>0, <3>1 DEF Truly, Starting, Ending
  <2>4. CASE Completes(f)
    <3>1. session'[f].status = "gone" BY <1>0, <2>4, StoreComplete DEF Completes
    <3>2. at[f] = "complete" /\ at'[f] \in {"sweep"} \cup Ending /\ saved' = saved
      BY <1>0, <1>2, <2>4 DEF Completes, Goes, LoginTypes
    <3>3. f \in saved' BY <1>0, <3>2 DEF Truly
    <3>. QED BY <3>1, <3>2, <3>3 DEF Truly, Starting, Ending
  <2>5. CASE Sweeps(f)
    <3>1. at[f] = "sweep" /\ at'[f] \in Ending /\ saved' = saved
      BY <1>0, <1>2, <2>5 DEF Sweeps, Goes, LoginTypes
    <3>2. Stays(f) \/ session'[f].status = "gone" BY <1>0, <2>5, StoreSweep DEF Sweeps
    <3>3. f \in saved' /\ session'[f].status # "error" BY <1>0, <2>0, <3>1, <3>2 DEF Truly, Stays
    <3>. QED BY <3>1, <3>3 DEF Truly, Starting, Ending
  <2>. QED BY <2>1, <2>2, <2>3, <2>4, <2>5 DEF Works
<1>. QED BY <1>6, <1>7 DEF TInv

LEMMA ToldPorts == ASSUME OInv, TInv, NEW f \in Flows, OfPorts(f) PROVE TInv'
<1>0. LoginTypes /\ Truly(f) BY DEF OInv, TInv
<1>1. /\ UNCHANGED <<provider, web, saved, session, now>>
      /\ \A g \in Flows \ {f} : at'[g] = at[g] /\ until'[g] = until[g]
  BY PortRest
<1>2. \A g \in Flows \ {f} : Truly(g)'
  <2>. SUFFICES ASSUME NEW g \in Flows \ {f} PROVE Truly(g)' OBVIOUS
  <2>1. Truly(g) /\ Spared(g) BY <1>1 DEF TInv, Spared
  <2>. QED BY <1>0, <1>1, <2>1, TrulyKept
<1>3. \/ at[f] \in Starting /\ at'[f] \in Starting \cup {"refused"}
      \/ at[f] \in Starting /\ at'[f] = "wait" /\ until'[f] = now + Logins!Wait
      \/ at[f] \in Ending /\ at'[f] \in Ending
  BY <1>0 DEF OfPorts, Logins!startCallbackForwarder, Logins!stopCallbackForwarderInstance,
     Logins!TakePrev, Logins!StopPrev, Logins!Refuse, Logins!Listen,
     Logins!Publish, Logins!Unpublish, Logins!Close, Logins!Goto, LoginTypes, Starting, Ending
<1>4. (Logins!Swept(f) => Logins!Swept(f)') /\ (Logins!Lapsed(f) => Logins!Lapsed(f)')
  BY <1>1 DEF Logins!Swept, Logins!Lapsed
<1>5. Truly(f)'
  <2>1. CASE at[f] \in Starting /\ at'[f] \in Starting \cup {"refused"}
    BY <1>0, <1>1, <1>4, <2>1 DEF Truly, Starting, Ending
  <2>2. CASE at[f] \in Starting /\ at'[f] = "wait" /\ until'[f] = now + Logins!Wait
    <3>1. now \in Nat /\ now + Logins!TTL = now + Logins!Wait + Logins!Wait /\ now <= now + Logins!TTL
      BY <1>0 DEF LoginTypes, Logins!TTL, Logins!Wait
    <3>2. session'[f].until = until'[f] + Logins!Wait /\ now' <= session'[f].until
      BY <1>0, <1>1, <2>2, <3>1 DEF Truly
    <3>. QED BY <1>0, <1>1, <1>4, <2>2, <3>2 DEF Truly, Starting, Ending
  <2>3. CASE at[f] \in Ending /\ at'[f] \in Ending
    BY <1>0, <1>1, <1>4, <2>3 DEF Truly, Starting, Ending
  <2>. QED BY <1>3, <2>1, <2>2, <2>3
<1>. QED BY <1>2, <1>5 DEF TInv

\* Time passes for a login that waits only while its wait is not over.
LEMMA ToldPass == ASSUME OInv, TInv, Logins!Pass PROVE TInv'
<1>0. LoginTypes BY DEF OInv
<1>1. now' = now + 1 /\ UNCHANGED <<provider, at, until, saved, session>> /\ now \in Nat
  BY <1>0 DEF Logins!Pass, LoginTypes
<1>2. ASSUME NEW f \in Flows PROVE Truly(f)'
  <2>1. Truly(f) /\ Logins!AtRest(f) BY DEF TInv, Logins!Pass
  <2>2. at[f] \notin Starting BY <2>1 DEF Logins!AtRest, Starting
  <2>3. PICK e \in Sessions : e = session[f] BY <1>0 DEF LoginTypes
  <2>4. e.until \in Nat /\ until[f] \in Nat BY <1>0 DEF Sessions, LoginTypes
  <2>5. at[f] = "wait" => now <= until[f] BY <2>1 DEF Logins!AtRest
  <2>6. at[f] = "wait" => session[f].until = until[f] + Logins!Wait /\ now + 1 <= session[f].until
    BY <1>1, <2>1, <2>4, <2>5 DEF Truly, Logins!Wait
  <2>7. (Logins!Swept(f) => Logins!Swept(f)') /\ (Logins!Lapsed(f) => Logins!Lapsed(f)')
    BY <1>1, <2>3, <2>4 DEF Logins!Swept, Logins!Lapsed
  <2>. QED BY <1>1, <2>1, <2>2, <2>6, <2>7 DEF Truly
<1>. QED BY <1>2 DEF TInv

LEMMA ToldDelivers == ASSUME OInv, TInv, Delivers PROVE TInv'
<1>0. LoginTypes BY DEF OInv
<1>1. UNCHANGED <<provider, at, until, now, saved>> BY DEF Delivers, Still
<1>2. \A f \in Flows : Stays(f) BY <1>0, StoreKept DEF Delivers
<1>3. ASSUME NEW f \in Flows PROVE Truly(f)'
  <2>1. Truly(f) /\ Spared(f) BY <1>2, StaysSpared DEF TInv
  <2>. QED BY <1>0, <1>1, <2>1, TrulyKept
<1>. QED BY <1>3 DEF TInv

LEMMA ToldStep == OInv /\ TInv /\ [Logins!OAuthNext]_Logins!oauthVars => TInv'
<1>. SUFFICES ASSUME OInv, TInv, [Logins!OAuthNext]_Logins!oauthVars PROVE TInv' OBVIOUS
<1>1. Delivers \/ Logins!Pass \/ \E f \in Flows : Asks(f) \/ OfPorts(f) \/ Works(f) BY StepKinds DEF OInv
<1>. QED BY <1>1, ToldDelivers, ToldPass, ToldAsks, ToldPorts, ToldWorks

LEMMA ToldFromTruly == OInv /\ TInv => Logins!Told
<1>. SUFFICES ASSUME OInv, TInv, NEW f \in Flows, at[f] # "idle"
              PROVE  /\ Logins!GetAuthStatus(f) = "ok" => f \in saved \/ Logins!Swept(f) \/ Logins!Lapsed(f)
                     /\ Logins!GetAuthStatus(f) = "error" => f \notin saved /\ at[f] \in {"unpublish", "close", "done"}
                     /\ at[f] \in {"replace", "stopPrev", "listen", "publish", "wait"} =>
                          Logins!GetAuthStatus(f) = "wait" \/ Logins!Swept(f)
  BY DEF Logins!Told
<1>0. LoginTypes /\ Truly(f) BY DEF OInv, TInv
<1>1. PICK s \in [Flows -> Sessions] : s = Logins!purgeExpiredLocked(session) BY <1>0, PurgeKeeps
<1>2. s[f].status = IF now > session[f].until THEN "gone" ELSE session[f].status BY <1>0, <1>1, PurgeKeeps
<1>3. Logins!GetAuthStatus(f) = IF s[f].status = "gone" THEN "ok" ELSE IF s[f].status = "pending" THEN "wait" ELSE "error"
  BY <1>1 DEF Logins!GetAuthStatus
<1>4. s[f].status \in {"gone", "pending", "error"} BY DEF Sessions
<1>5. s[f].status = "gone" => f \in saved \/ Logins!Swept(f) \/ Logins!Lapsed(f)
  BY <1>0, <1>2 DEF Truly, Logins!Lapsed
<1>6. s[f].status = "error" => f \notin saved /\ at[f] \in Ending BY <1>0, <1>2 DEF Truly
<1>7. at[f] \in Starting \cup {"wait"} => s[f].status = "pending" \/ Logins!Swept(f)
  <2>. SUFFICES ASSUME at[f] \in Starting \cup {"wait"}
       PROVE  s[f].status = "pending" \/ Logins!Swept(f) OBVIOUS
  <2>1. f \notin saved BY <1>0 DEF Truly, Starting, Ending
  <2>2. PICK e \in Sessions : e = session[f] BY <1>0 DEF LoginTypes
  <2>3. now \in Nat /\ e.until \in Nat BY <1>0 DEF Sessions, LoginTypes
  <2>4. now <= session[f].until BY <1>0, <2>2, <2>3 DEF Truly, Logins!TTL
  <2>5. ~Logins!Lapsed(f) BY <2>2, <2>3, <2>4 DEF Logins!Lapsed
  <2>6. s[f].status # "error" BY <1>6 DEF Starting, Ending
  <2>. QED BY <1>4, <1>5, <2>1, <2>5, <2>6
<1>. QED BY <1>3, <1>4, <1>5, <1>6, <1>7 DEF Starting, Ending

\* What the client is told about a login is what happened to it: "ok" is told of a login
\* whose record is written, or whose session another login of the provider took away, or
\* that ended too late; "error" of one that wrote nothing and will not; and "wait" for as
\* long as the callback can come (oauth_sessions.go and the login goroutines of
\* auth_files.go): the part Told of LoginsTrue.
THEOREM ClientIsTold == Logins!OAuthAssumption /\ Logins!OAuthSpec => []Logins!Told
<1>1. Logins!OAuthAssumption /\ Logins!OAuthInit => OInv /\ TInv BY OwnedInit, ToldInit
<1>2. OInv /\ TInv /\ [Logins!OAuthNext]_Logins!oauthVars => TInv' BY ToldStep
<1>. QED BY <1>1, <1>2, OwnedAlways, ToldFromTruly, PTL DEF Logins!OAuthSpec
==============================================================================
