--------------------------- MODULE Cooldown_proofs ---------------------------
(***************************************************************************)
(* Proofs about module Cooldown, for every set of models, every choice of  *)
(* durations and every clock.  TypeOK is not inductive alone: the shift in *)
(* nextQuotaCooldown is only known to be a cooldown up to MaxLevel, so the *)
(* types and the bound on the levels are proved together (LInv).           *)
(* AggregateAgrees needs the relation between the aggregated times and the *)
(* times of the model states (AInv).                                       *)
(* BackoffKept needs what a backoff level says of the last cooldown that   *)
(* was granted (GInv).                                                     *)
(***************************************************************************)
EXTENDS Cooldown, TLAPS, WellFoundedInduction

Levels == 0 .. MaxLevel

BoundedQuota == [exceeded : BOOLEAN, recoverAt : Nat, level : Levels]
BoundedState == [status : Statuses, unavailable : BOOLEAN, nextRetry : Nat,
                 lastError : BOOLEAN, quota : BoundedQuota]
BoundedAuth  == [disabled : BOOLEAN, noCooling : BOOLEAN, status : Statuses,
                 unavailable : BOOLEAN, nextRetry : Nat, lastError : BOOLEAN,
                 quota : BoundedQuota, known : SUBSET Models,
                 state : [Models -> BoundedState]]

HintType == Nat \cup {NoHint}

\* The types, with every backoff level at or below the capped one.
LInv ==
  /\ auth \in BoundedAuth
  /\ now \in Nat \ {ZeroTime}
  /\ granted \in [Models -> Int]
  /\ named \in BOOLEAN

------------------------------------------------------------------------------
(* Operators on sets of times and levels *)

LEMMA EarliestIsLeast ==
  ASSUME NEW S \in SUBSET Nat
  PROVE  /\ Earliest(S) \in Nat
         /\ S # {} => Earliest(S) \in S /\ \A u \in S : Earliest(S) <= u
<1>1. CASE S = {}
  BY <1>1 DEF Earliest, ZeroTime
<1>2. CASE S # {}
  <2>1. \E t \in S : \A u \in S : ~(<<u, t>> \in OpToRel(<, Nat))
    BY <1>2, NatLessThanWellFounded, WFMin
  <2>2. PICK t \in S : \A u \in S : ~(<<u, t>> \in OpToRel(<, Nat))
    BY <2>1
  <2>3. \A u \in S : ~(u < t)
    BY <2>2 DEF OpToRel
  <2>4. \A u \in S : t <= u
    BY <2>3
  <2> QED
    BY <1>2, <2>4 DEF Earliest
<1> QED
  BY <1>1, <1>2

LEMMA HighestIsLevel ==
  ASSUME NEW S \in SUBSET Levels
  PROVE  Highest(S) \in Levels
<1> USE LevelAssumption
<1>1. CASE S = {}
  BY <1>1 DEF Highest, Levels
<1>2. CASE S # {}
  <2> DEFINE Gaps == {MaxLevel - l : l \in S}
  <2> MaxLevel \in Nat
    OBVIOUS
  <2>0. \A l \in S : l \in Nat /\ l <= MaxLevel
    BY DEF Levels
  <2>1. Gaps \in SUBSET Nat /\ Gaps # {}
    BY <1>2, <2>0
  <2> HIDE DEF Gaps
  <2>2. PICK g \in Gaps : \A h \in Gaps : g <= h
    BY <2>1, EarliestIsLeast
  <2>3. PICK l \in S : g = MaxLevel - l
    BY DEF Gaps
  <2>4. \A k \in S : MaxLevel - k \in Gaps
    BY DEF Gaps
  <2>5. \A k \in S : k <= l
    BY <2>0, <2>2, <2>3, <2>4
  <2> QED
    BY <1>2, <2>5 DEF Highest
<1> QED
  BY <1>1, <1>2

------------------------------------------------------------------------------
(* Operators on the record *)

LEMMA NextQuotaCooldownType ==
  ASSUME NEW prevLevel \in Levels, NEW d \in BOOLEAN
  PROVE  /\ nextQuotaCooldown(prevLevel, d).cooldown \in 0 .. QuotaMax
         /\ nextQuotaCooldown(prevLevel, d).level \in Levels
<1> USE LevelAssumption, CooldownAssumption
<1>1. ShiftedBase(prevLevel) \in Nat /\ ShiftedBase(prevLevel) >= QuotaBase
  BY DEF Levels
<1>2. prevLevel = MaxLevel => ShiftedBase(prevLevel) >= QuotaMax
  OBVIOUS
<1> QED
  BY <1>1, <1>2 DEF nextQuotaCooldown, Levels

LEMMA QuotaAfter429Type ==
  ASSUME NEW q \in BoundedQuota, NEW hint \in HintType, NEW d \in BOOLEAN, NEW t \in Nat
  PROVE  quotaAfter429(q, hint, d, t) \in BoundedQuota
<1>1. q.level \in Levels
  BY DEF BoundedQuota
<1> DEFINE next == nextQuotaCooldown(q.level, d)
<1>2. next.cooldown \in Nat /\ next.level \in Levels
  BY <1>1, NextQuotaCooldownType, CooldownAssumption
<1> HIDE DEF next
<1>3. CASE hint # NoHint
  BY <1>1, <1>3 DEF quotaAfter429, BoundedQuota, HintType
<1>4. CASE hint = NoHint
  BY <1>2, <1>4 DEF quotaAfter429, BoundedQuota, ZeroTime, next
<1> QED
  BY <1>3, <1>4

LEMMA RetryAfterFailureType ==
  ASSUME NEW code, NEW d \in BOOLEAN, NEW t \in Nat, NEW prior \in Nat
  PROVE  retryAfterFailure(code, d, t, prior) \in Nat
BY CooldownAssumption DEF retryAfterFailure, ZeroTime

LEMMA FreshModelStateType == FreshModelState \in BoundedState
BY LevelAssumption
   DEF FreshModelState, NoQuota, BoundedState, BoundedQuota, Levels, Statuses, ZeroTime

LEMMA EnsureModelStateType ==
  ASSUME NEW a \in BoundedAuth, NEW m \in Models
  PROVE  ensureModelState(a, m) \in BoundedAuth
BY FreshModelStateType DEF ensureModelState, BoundedAuth

LEMMA ClearedType ==
  ASSUME NEW s \in BoundedState, NEW t \in Nat
  PROVE  cleared(s, t) \in BoundedState
BY DEF cleared, BoundedState, ZeroTime

LEMMA AggregatedType ==
  ASSUME NEW a \in BoundedAuth, NEW t \in Nat
  PROVE  updateAggregatedAvailability(a, t) \in BoundedAuth
<1> DEFINE cooling  == {k \in a.known : a.state[k].status # "disabled"
                                        /\ StillCooling(a.state[k], t)}
           retries  == {a.state[m].nextRetry : m \in cooling}
           exceeded == {m \in a.known : a.state[m].quota.exceeded}
           recovers == {a.state[m].quota.recoverAt : m \in exceeded} \ {ZeroTime}
           levels   == {a.state[m].quota.level : m \in exceeded}
           all      == \A m \in a.known : stateUnavailable(a.state[m], t)
           states   == [m \in Models |-> IF m \in a.known THEN cleared(a.state[m], t)
                                                          ELSE a.state[m]]
<1>1. \A m \in Models : a.state[m] \in BoundedState
  BY DEF BoundedAuth
<1>2. states \in [Models -> BoundedState]
  BY <1>1, ClearedType
<1>3. retries \in SUBSET Nat /\ recovers \in SUBSET Nat /\ levels \in SUBSET Levels
  BY <1>1 DEF BoundedAuth, BoundedState, BoundedQuota
<1>4. Earliest(retries) \in Nat /\ Earliest(recovers) \in Nat /\ Highest(levels) \in Levels
  BY <1>3, EarliestIsLeast, HighestIsLevel
<1>5. all \in BOOLEAN
  OBVIOUS
<1> HIDE DEF retries, recovers, levels, states, all
<1>6. [exceeded |-> exceeded # {}, recoverAt |-> Earliest(recovers),
       level |-> Highest(levels)] \in BoundedQuota
  BY <1>4 DEF BoundedQuota
<1> DEFINE quota == [exceeded |-> exceeded # {}, recoverAt |-> Earliest(recovers),
                     level |-> Highest(levels)]
<1> HIDE DEF quota
<1>7. CASE a.known = {}
  BY <1>7 DEF updateAggregatedAvailability
<1>8. CASE a.known # {}
  <2>1. updateAggregatedAvailability(a, t) =
          [a EXCEPT !.state = states, !.unavailable = all,
                    !.nextRetry = IF all THEN Earliest(retries) ELSE ZeroTime,
                    !.quota = quota]
    BY <1>8 DEF updateAggregatedAvailability, states, all, retries, recovers, levels, quota
  <2> DEFINE retry == IF all THEN Earliest(retries) ELSE ZeroTime
  <2>2. quota \in BoundedQuota /\ retry \in Nat
    BY <1>4, <1>6 DEF quota, ZeroTime
  <2> HIDE DEF retry, cooling, exceeded
  <2>3. [a EXCEPT !.state = states, !.unavailable = all, !.nextRetry = retry,
                  !.quota = quota] \in BoundedAuth
    BY <1>2, <1>5, <2>2 DEF BoundedAuth
  <2> QED
    BY <2>1, <2>3 DEF retry
<1> QED
  BY <1>7, <1>8

LEMMA AfterModelSuccessType ==
  ASSUME NEW a \in BoundedAuth, NEW m \in Models, NEW t \in Nat
  PROVE  afterModelSuccess(a, m, t) \in BoundedAuth
<1> DEFINE reset == resetModelState(ensureModelState(a, m), m)
<1>1. reset \in BoundedAuth
  BY EnsureModelStateType, FreshModelStateType DEF resetModelState, BoundedAuth
<1> HIDE DEF reset
<1>2. updateAggregatedAvailability(reset, t) \in BoundedAuth
  BY <1>1, AggregatedType
<1> QED
  BY <1>2 DEF afterModelSuccess, reset, BoundedAuth, Statuses

LEMMA FailedStateType ==
  ASSUME NEW s \in BoundedState, NEW code, NEW hint \in HintType, NEW d \in BOOLEAN,
         NEW t \in Nat
  PROVE  failedState(s, code, hint, d, t) \in BoundedState
<1>1. s.quota \in BoundedQuota
  BY DEF BoundedState
<1> DEFINE quota == IF code = "quota" THEN quotaAfter429(s.quota, hint, d, t) ELSE s.quota
           retry == IF code = "quota" THEN quota.recoverAt
                    ELSE retryAfterFailure(code, d, t, ZeroTime)
<1>2. quota \in BoundedQuota
  BY <1>1, QuotaAfter429Type
<1>3. retry \in Nat
  BY <1>2, RetryAfterFailureType DEF BoundedQuota, ZeroTime
<1>4. failedState(s, code, hint, d, t) =
        [s EXCEPT !.unavailable = TRUE, !.status = "error", !.lastError = TRUE,
                  !.quota = quota, !.nextRetry = retry]
  BY DEF failedState
<1> HIDE DEF quota, retry
<1> QED
  BY <1>2, <1>3, <1>4 DEF BoundedState, Statuses

LEMMA AfterModelFailureType ==
  ASSUME NEW a \in BoundedAuth, NEW m \in Models, NEW code, NEW hint \in HintType,
         NEW t \in Nat
  PROVE  afterModelFailure(a, m, code, hint, t) \in BoundedAuth
<1> DEFINE known == ensureModelState(a, m)
           after == failedState(known.state[m], code, hint, a.noCooling, t)
           failed == [known EXCEPT !.state[m] = after, !.lastError = TRUE, !.status = "error"]
<1>1. known \in BoundedAuth /\ a.noCooling \in BOOLEAN
  BY EnsureModelStateType DEF BoundedAuth
<1> HIDE DEF known
<1>2. after \in BoundedState
  BY <1>1, FailedStateType DEF BoundedAuth
<1> HIDE DEF after
<1>3. failed \in BoundedAuth
  BY <1>1, <1>2 DEF BoundedAuth, Statuses
<1>4. afterModelFailure(a, m, code, hint, t) = updateAggregatedAvailability(failed, t)
  BY DEF afterModelFailure, known, after
<1> QED
  BY <1>3, <1>4, AggregatedType

LEMMA ApplyAuthFailureStateType ==
  ASSUME NEW a \in BoundedAuth, NEW code, NEW hint \in HintType, NEW t \in Nat
  PROVE  applyAuthFailureState(a, code, hint, t) \in BoundedAuth
<1> DEFINE quota == IF code = "quota" THEN quotaAfter429(a.quota, hint, a.noCooling, t)
                    ELSE a.quota
           retry == IF code = "quota" THEN quota.recoverAt
                    ELSE retryAfterFailure(code, a.noCooling, t, a.nextRetry)
<1>1. quota \in BoundedQuota
  BY QuotaAfter429Type DEF BoundedAuth
<1>2. retry \in Nat
  BY <1>1, RetryAfterFailureType DEF BoundedAuth, BoundedQuota
<1>3. applyAuthFailureState(a, code, hint, t) =
        [a EXCEPT !.unavailable = TRUE, !.status = "error", !.lastError = TRUE,
                  !.quota = quota, !.nextRetry = retry]
  BY DEF applyAuthFailureState
<1> HIDE DEF quota, retry
<1> QED
  BY <1>1, <1>2, <1>3 DEF BoundedAuth, Statuses

------------------------------------------------------------------------------
(* Types and levels *)

LEMMA LInvInit == Init => LInv
<1> SUFFICES ASSUME Init PROVE LInv
  OBVIOUS
<1>1. NewAuth(NoCooling) \in BoundedAuth
  BY FreshModelStateType, LevelAssumption, RunAssumption
     DEF NewAuth, BoundedAuth, BoundedQuota, NoQuota, Levels, Statuses, ZeroTime
<1> QED
  BY <1>1 DEF Init, LInv, ZeroTime

LEMMA LInvNext == LInv /\ [Next]_vars => LInv'
<1> SUFFICES ASSUME LInv, [Next]_vars PROVE LInv'
  OBVIOUS
<1> USE DEF LInv
<1>1. ASSUME NEW m \in Models, Succeed(m) PROVE LInv'
  BY <1>1, AfterModelSuccessType DEF Succeed
<1>2. ASSUME NEW m \in Models, NEW code \in Codes, NEW hint \in Hints \cup {NoHint},
             Fail(m, code, hint)
      PROVE  LInv'
  <2>1. hint \in HintType
    BY RunAssumption DEF HintType
  <2>2. auth' \in BoundedAuth /\ now' = now
    BY <1>2, <2>1, AfterModelFailureType DEF Fail
  <2>3. auth'.state[m].quota.recoverAt - now \in Int
    BY <2>2 DEF BoundedAuth, BoundedState, BoundedQuota
  <2>4. granted' \in [Models -> Int]
    BY <1>2, <2>3 DEF Fail
  <2> QED
    BY <1>2, <2>2, <2>4 DEF Fail
<1>3. CASE SucceedWhole
  <2>1. NoQuota \in BoundedQuota
    BY LevelAssumption DEF BoundedQuota, NoQuota, Levels, ZeroTime
  <2>2. clearAuthStateOnSuccess(auth) \in BoundedAuth
    BY <2>1 DEF clearAuthStateOnSuccess, BoundedAuth, Statuses, ZeroTime
  <2> QED
    BY <1>3, <2>2 DEF SucceedWhole
<1>4. ASSUME NEW code \in Codes, NEW hint \in Hints \cup {NoHint}, FailWhole(code, hint)
      PROVE  LInv'
  <2>1. hint \in HintType
    BY RunAssumption DEF HintType
  <2> QED
    BY <1>4, <2>1, ApplyAuthFailureStateType DEF FailWhole
<1>5. ASSUME NEW d \in BOOLEAN, SetDisabled(d) PROVE LInv'
  BY <1>5 DEF SetDisabled, BoundedAuth, Statuses
<1>6. CASE Tick
  BY <1>6 DEF Tick, ZeroTime
<1>7. CASE UNCHANGED vars
  BY <1>7 DEF vars
<1> QED
  BY <1>1, <1>2, <1>3, <1>4, <1>5, <1>6, <1>7 DEF Next

LEMMA LInvImplies == LInv => TypeOK /\ LevelBounded
<1> SUFFICES ASSUME LInv PROVE TypeOK /\ LevelBounded
  OBVIOUS
<1> USE LevelAssumption
<1>1. BoundedQuota \subseteq QuotaState
  BY DEF BoundedQuota, QuotaState, Levels
<1>2. BoundedState \subseteq ModelState
  BY <1>1 DEF BoundedState, ModelState
<1>3. BoundedAuth \subseteq Auth
  <2> SUFFICES ASSUME NEW a \in BoundedAuth PROVE a \in Auth
    OBVIOUS
  <2>1. a.state \in [Models -> ModelState] /\ a.quota \in QuotaState
    BY <1>1, <1>2 DEF BoundedAuth
  <2> QED
    BY <2>1 DEF BoundedAuth, Auth
<1>4. LevelBounded
  BY DEF LInv, LevelBounded, BoundedAuth, BoundedState, BoundedQuota, Levels
<1> QED
  BY <1>3, <1>4 DEF LInv, TypeOK

\* The record of an auth, the clock and the cooldowns keep their types.
THEOREM TypeCorrect == Spec => []TypeOK
<1>1. LInv => TypeOK
  BY LInvImplies
<1> QED
  BY <1>1, LInvInit, LInvNext, PTL DEF Spec

\* No sequence of results drives a backoff level past the capped one, so the
\* shift in nextQuotaCooldown never leaves the range of an int.
THEOREM LevelsBounded == Spec => []LevelBounded
<1>1. LInv => LevelBounded
  BY LInvImplies
<1> QED
  BY <1>1, LInvInit, LInvNext, PTL DEF Spec

------------------------------------------------------------------------------
(* The aggregate *)

\* What updateAggregatedAvailability establishes and time preserves: an
\* unavailable auth carries the least retry time of its models, all of them
\* cooling; an available one has a model that is not.
Aggregated(a, t) ==
  a.known # {} =>
    /\ \A m \in a.known : a.state[m].status # "disabled"
    /\ a.unavailable =>
         /\ \A m \in a.known : a.state[m].unavailable /\ a.state[m].nextRetry >= a.nextRetry
         /\ \E m \in a.known : a.state[m].nextRetry = a.nextRetry
    /\ ~a.unavailable => \E m \in a.known : ~StillCooling(a.state[m], t)

AInv == named => Aggregated(auth, now)

LEMMA AggregateEstablishes ==
  ASSUME NEW a \in BoundedAuth, NEW t \in Nat,
         \A m \in a.known : a.state[m].status # "disabled"
  PROVE  Aggregated(updateAggregatedAvailability(a, t), t)
<1> SUFFICES ASSUME a.known # {}
             PROVE  Aggregated(updateAggregatedAvailability(a, t), t)
  BY DEF updateAggregatedAvailability, Aggregated
<1> DEFINE b       == updateAggregatedAvailability(a, t)
           cooling == {k \in a.known : a.state[k].status # "disabled"
                                       /\ StillCooling(a.state[k], t)}
           retries == {a.state[m].nextRetry : m \in cooling}
           all     == \A m \in a.known : stateUnavailable(a.state[m], t)
<1>1. /\ b.known = a.known
      /\ b.unavailable = all
      /\ b.nextRetry = IF all THEN Earliest(retries) ELSE ZeroTime
      /\ \A m \in a.known : b.state[m] = cleared(a.state[m], t)
  BY DEF updateAggregatedAvailability, BoundedAuth
<1> HIDE DEF b
<1>2. \A m \in a.known : a.state[m] \in BoundedState
  BY DEF BoundedAuth
<1>3. \A m \in a.known : b.state[m].status # "disabled"
  BY <1>1, <1>2 DEF cleared, BoundedState
<1>4. CASE all
  <2>1. \A m \in a.known : StillCooling(a.state[m], t)
    BY <1>4 DEF stateUnavailable
  <2>2. \A m \in a.known : b.state[m] = a.state[m]
    BY <1>1, <2>1 DEF cleared
  <2>3. cooling = a.known
    BY <2>1
  <2>4. retries \in SUBSET Nat /\ retries # {}
    BY <1>2, <2>3 DEF BoundedState
  <2>5. Earliest(retries) \in retries /\ \A u \in retries : Earliest(retries) <= u
    BY <2>4, EarliestIsLeast
  <2>6. \A m \in a.known : a.state[m].nextRetry \in retries
    BY <2>3
  <2>7. b.nextRetry \in retries /\ \A u \in retries : b.nextRetry <= u
    BY <1>1, <1>4, <2>5
  <2>8. \A m \in a.known : b.state[m].unavailable /\ b.state[m].nextRetry >= b.nextRetry
    BY <2>1, <2>2, <2>6, <2>7 DEF StillCooling
  <2>9. \E m \in a.known : b.state[m].nextRetry = b.nextRetry
    BY <2>2, <2>3, <2>7
  <2> HIDE DEF all
  <2> QED
    BY <1>1, <1>3, <1>4, <2>8, <2>9 DEF Aggregated, b
<1>5. CASE ~all
  <2>1. PICK m \in a.known : ~stateUnavailable(a.state[m], t)
    BY <1>5
  <2>2. ~StillCooling(b.state[m], t)
    BY <1>1, <1>2, <2>1 DEF cleared, stateUnavailable, StillCooling, BoundedState
  <2> HIDE DEF all
  <2> QED
    BY <1>1, <1>3, <1>5, <2>2 DEF Aggregated, b
<1> QED
  BY <1>4, <1>5

LEMMA AggregatedLater ==
  ASSUME NEW a \in BoundedAuth, NEW t \in Nat, Aggregated(a, t)
  PROVE  Aggregated(a, t + 1)
<1>1. \A m \in a.known : a.state[m].nextRetry \in Nat
  BY DEF BoundedAuth, BoundedState
<1> QED
  BY <1>1 DEF Aggregated, StillCooling

LEMMA AInvInit == Init => AInv
BY DEF Init, AInv, Aggregated, NewAuth

LEMMA AInvNext == LInv /\ AInv /\ [Next]_vars => AInv'
<1> SUFFICES ASSUME LInv, AInv, [Next]_vars, named' PROVE Aggregated(auth, now)'
  BY DEF AInv
<1>n. named /\ Aggregated(auth, now)
  BY DEF AInv, Next, Succeed, Fail, SucceedWhole, FailWhole, SetDisabled, Tick, vars
<1>0. auth \in BoundedAuth /\ now \in Nat /\ \A m \in auth.known : auth.state[m].status # "disabled"
  BY <1>n DEF LInv, Aggregated
<1>1. ASSUME NEW m \in Models, Succeed(m) PROVE Aggregated(auth, now)'
  <2> DEFINE reset == resetModelState(ensureModelState(auth, m), m)
  <2>1. reset \in BoundedAuth
    BY <1>n, <1>0, EnsureModelStateType, FreshModelStateType DEF resetModelState, BoundedAuth
  <2>2. \A k \in reset.known : reset.state[k].status # "disabled"
    BY <1>0 DEF resetModelState, ensureModelState, FreshModelState, BoundedAuth
  <2> HIDE DEF reset
  <2> DEFINE b == updateAggregatedAvailability(reset, now)
  <2>3. Aggregated(b, now) /\ b \in BoundedAuth
    BY <1>n, <1>0, <2>1, <2>2, AggregateEstablishes, AggregatedType
  <2>4. auth' = b \/ auth' = [b EXCEPT !.lastError = FALSE, !.status = "active"]
    BY <1>1 DEF Succeed, afterModelSuccess, reset
  <2> HIDE DEF b
  <2>5. /\ auth'.known = b.known /\ auth'.state = b.state
        /\ auth'.unavailable = b.unavailable /\ auth'.nextRetry = b.nextRetry
    BY <2>3, <2>4 DEF BoundedAuth
  <2> QED
    BY <1>1, <2>3, <2>5 DEF Succeed, Aggregated
<1>2. ASSUME NEW m \in Models, NEW code \in Codes, NEW hint \in Hints \cup {NoHint},
             Fail(m, code, hint)
      PROVE  Aggregated(auth, now)'
  <2> DEFINE known  == ensureModelState(auth, m)
             after  == failedState(known.state[m], code, hint, auth.noCooling, now)
             failed == [known EXCEPT !.state[m] = after, !.lastError = TRUE,
                                     !.status = "error"]
  <2>1. hint \in HintType
    BY RunAssumption DEF HintType
  <2>2. known \in BoundedAuth /\ auth.noCooling \in BOOLEAN
    BY <1>n, <1>0, EnsureModelStateType DEF BoundedAuth
  <2>3. \A k \in known.known : known.state[k].status # "disabled"
    BY <1>0 DEF ensureModelState, FreshModelState, BoundedAuth
  <2> HIDE DEF known
  <2>4. after \in BoundedState
    BY <1>n, <1>0, <2>1, <2>2, FailedStateType DEF BoundedAuth
  <2>5. after.status = "error"
    BY <2>2 DEF failedState, BoundedAuth, BoundedState
  <2> HIDE DEF after
  <2>6. failed \in BoundedAuth
    BY <2>2, <2>4 DEF BoundedAuth, Statuses
  <2>7. \A k \in failed.known : failed.state[k].status # "disabled"
    BY <2>2, <2>3, <2>5 DEF BoundedAuth
  <2>8. auth' = updateAggregatedAvailability(failed, now) /\ now' = now
    BY <1>2 DEF Fail, afterModelFailure, known, after
  <2> HIDE DEF failed
  <2> QED
    BY <1>n, <1>0, <2>6, <2>7, <2>8, AggregateEstablishes
<1>3. CASE SucceedWhole
  BY <1>3 DEF SucceedWhole
<1>4. ASSUME NEW code \in Codes, NEW hint \in Hints \cup {NoHint}, FailWhole(code, hint)
      PROVE  Aggregated(auth, now)'
  BY <1>4 DEF FailWhole
<1>5. ASSUME NEW d \in BOOLEAN, SetDisabled(d) PROVE Aggregated(auth, now)'
  <2>1. /\ auth'.known = auth.known /\ auth'.state = auth.state /\ now' = now
        /\ auth'.unavailable = auth.unavailable /\ auth'.nextRetry = auth.nextRetry
    BY <1>n, <1>0, <1>5 DEF SetDisabled, BoundedAuth
  <2> QED
    BY <1>n, <2>1 DEF Aggregated
<1>6. CASE Tick
  BY <1>n, <1>0, <1>6, AggregatedLater DEF Tick
<1>7. CASE UNCHANGED vars
  BY <1>n, <1>7 DEF vars
<1> QED
  BY <1>1, <1>2, <1>3, <1>4, <1>5, <1>6, <1>7 DEF Next

LEMMA AInvImplies == LInv /\ AInv => AggregateAgrees
<1> SUFFICES ASSUME LInv, AInv, named, auth.known # {}
             PROVE  isAuthBlocked(auth, now).reason # "none"
                      <=> \A m \in auth.known : Blocked(m)
  BY DEF AggregateAgrees
<1>1. CASE auth.disabled \/ auth.status = "disabled"
  BY <1>1 DEF isAuthBlocked, Blocked, isAuthBlockedForModel, Disabled
<1>2. CASE ~(auth.disabled \/ auth.status = "disabled")
  <2>1. isAuthBlocked(auth, now).reason # "none" <=> StillCooling(auth, now)
    BY <1>2 DEF isAuthBlocked, blockOf
  <2>2. \A m \in auth.known : Blocked(m) <=> StillCooling(auth.state[m], now)
    BY <1>2 DEF Blocked, isAuthBlockedForModel, blockOf, AInv, Aggregated
  <2>3. now \in Nat /\ auth.nextRetry \in Nat
        /\ \A m \in auth.known : auth.state[m].nextRetry \in Nat
    BY DEF LInv, BoundedAuth, BoundedState
  <2>4. StillCooling(auth, now) <=> \A m \in auth.known : StillCooling(auth.state[m], now)
    BY <2>3 DEF AInv, Aggregated, StillCooling
  <2> QED
    BY <2>1, <2>2, <2>4
<1> QED
  BY <1>1, <1>2

\* As long as every result names its model, as all of the Manager's own do, the
\* auth-level view agrees with the model states in every reachable state.
THEOREM AggregateCorrect == Spec => []AggregateAgrees
<1>1. Init => LInv /\ AInv
  BY LInvInit, AInvInit
<1>2. LInv /\ AInv /\ [Next]_vars => (LInv /\ AInv)'
  BY LInvNext, AInvNext
<1>3. LInv /\ AInv => AggregateAgrees
  BY AInvImplies
<1> QED
  BY <1>1, <1>2, <1>3, PTL DEF Spec

------------------------------------------------------------------------------
(* Backoff *)

\* The cooldown nextQuotaCooldown computes at a level, when cooling is not disabled.
Cooling(level) ==
  LET shifted == ShiftedBase(level)
      longer  == IF shifted < QuotaBase THEN QuotaBase ELSE shifted
  IN  IF longer >= QuotaMax THEN QuotaMax ELSE longer

\* A model has a state of its own only once a result named it, and the last cooldown
\* it was given is not longer than the one its level stands for.
Remembered(m) ==
  /\ m \notin auth.known => auth.state[m] = FreshModelState /\ granted[m] = 0
  /\ 0 <= granted[m] /\ granted[m] <= Cooling(auth.state[m].quota.level)

GInv == \A m \in Models : Remembered(m)

\* Cooling(level) is between the base and the maximum, and grows with the level.
LEMMA CoolingGrows ==
  ASSUME NEW l \in Levels
  PROVE  /\ Cooling(l) \in Nat \ {0} /\ Cooling(l) <= QuotaMax
         /\ \A k \in Levels : k <= l => Cooling(k) <= Cooling(l)
<1> USE LevelAssumption, CooldownAssumption
<1>1. \A k \in Levels : ShiftedBase(k) \in Nat /\ ShiftedBase(k) >= QuotaBase
  BY DEF Levels
<1>2. \A k \in Levels : k <= l => ShiftedBase(k) <= ShiftedBase(l)
  BY DEF Levels
<1>3. \A k \in Levels : Cooling(k) = IF ShiftedBase(k) >= QuotaMax THEN QuotaMax ELSE ShiftedBase(k)
  BY <1>1 DEF Cooling
<1>4. QuotaMax \in Nat /\ QuotaMax > 0 /\ QuotaBase > 0
  OBVIOUS
<1>5. Cooling(l) \in Nat \ {0} /\ Cooling(l) <= QuotaMax
  <2>1. CASE ShiftedBase(l) >= QuotaMax
    BY <1>3, <1>4, <2>1
  <2>2. CASE ~(ShiftedBase(l) >= QuotaMax)
    BY <1>1, <1>3, <1>4, <2>2
  <2> QED
    BY <2>1, <2>2
<1>6. ASSUME NEW k \in Levels, k <= l PROVE Cooling(k) <= Cooling(l)
  <2>1. ShiftedBase(k) <= ShiftedBase(l) /\ ShiftedBase(k) \in Nat /\ ShiftedBase(l) \in Nat
    BY <1>1, <1>2, <1>6
  <2>2. /\ Cooling(k) = IF ShiftedBase(k) >= QuotaMax THEN QuotaMax ELSE ShiftedBase(k)
        /\ Cooling(l) = IF ShiftedBase(l) >= QuotaMax THEN QuotaMax ELSE ShiftedBase(l)
    BY <1>3
  <2> QED
    BY <1>4, <2>1, <2>2
<1> QED
  BY <1>5, <1>6

\* What a 429 without a hint grants, and what it remembers.
LEMMA NextGranted ==
  ASSUME NEW l \in Levels
  PROVE  /\ nextQuotaCooldown(l, FALSE).cooldown = Cooling(l)
         /\ nextQuotaCooldown(l, FALSE).level >= l
         /\ nextQuotaCooldown(l, FALSE).level \in Levels
<1> USE LevelAssumption, CooldownAssumption
<1>1. nextQuotaCooldown(l, FALSE).level \in Levels
  BY NextQuotaCooldownType
<1>2. nextQuotaCooldown(l, FALSE).level >= l
  <2>1. l \in Nat
    BY DEF Levels
  <2> DEFINE next == nextQuotaCooldown(l, FALSE).level
  <2>2. next = l \/ next = l + 1
    BY DEF nextQuotaCooldown
  <2> HIDE DEF next
  <2>3. next >= l
    BY <2>1, <2>2
  <2> QED
    BY <2>3 DEF next
<1>3. nextQuotaCooldown(l, FALSE).cooldown = Cooling(l)
  BY DEF nextQuotaCooldown, Cooling
<1> QED
  BY <1>1, <1>2, <1>3

\* Aggregation keeps every model's quota, and leaves a fresh model fresh.
LEMMA AggregatedKeeps ==
  ASSUME NEW a \in BoundedAuth, NEW t \in Nat, NEW m \in Models
  PROVE  LET b == updateAggregatedAvailability(a, t) IN
         /\ b.known = a.known
         /\ b.state[m].quota = a.state[m].quota
         /\ a.state[m] = FreshModelState \/ m \notin a.known => b.state[m] = a.state[m]
<1> DEFINE b == updateAggregatedAvailability(a, t)
<1>1. CASE a.known = {}
  BY <1>1 DEF updateAggregatedAvailability
<1>2. CASE a.known # {}
  <2>1. b.known = a.known /\ (b.state[m] = IF m \in a.known THEN cleared(a.state[m], t) ELSE a.state[m])
    BY <1>2 DEF updateAggregatedAvailability, BoundedAuth
  <2>2. a.state[m] \in BoundedState
    BY DEF BoundedAuth
  <2>3. cleared(a.state[m], t).quota = a.state[m].quota
    BY <2>2 DEF cleared, BoundedState
  <2>4. a.state[m] = FreshModelState => cleared(a.state[m], t) = a.state[m]
    BY DEF cleared, FreshModelState
  <2> QED
    BY <2>1, <2>3, <2>4
<1> QED
  BY <1>1, <1>2

\* A result on a model leaves the others' memory alone; a success empties its own.
LEMMA SuccessKeeps ==
  ASSUME NEW a \in BoundedAuth, NEW t \in Nat, NEW r \in Models, NEW m \in Models,
         m \notin a.known => a.state[m] = FreshModelState
  PROVE  LET b == afterModelSuccess(a, r, t) IN
         /\ b.known = a.known \cup {r}
         /\ m = r => b.state[m] = FreshModelState
         /\ m # r => b.state[m].quota = a.state[m].quota
         /\ m \notin b.known => b.state[m] = FreshModelState
<1> DEFINE reset == resetModelState(ensureModelState(a, r), r)
           agg   == updateAggregatedAvailability(reset, t)
           b     == afterModelSuccess(a, r, t)
<1>1. reset \in BoundedAuth
  BY EnsureModelStateType, FreshModelStateType DEF resetModelState, BoundedAuth
<1>2. /\ reset.known = a.known \cup {r}
      /\ reset.state[r] = FreshModelState
      /\ m # r => reset.state[m] = a.state[m]
  BY FreshModelStateType DEF resetModelState, ensureModelState, BoundedAuth
<1> HIDE DEF reset
<1>3. /\ agg \in BoundedAuth /\ agg.known = reset.known /\ agg.state[m].quota = reset.state[m].quota
      /\ reset.state[m] = FreshModelState \/ m \notin reset.known => agg.state[m] = reset.state[m]
  BY <1>1, AggregatedKeeps, AggregatedType
<1>4. b = agg \/ b = [agg EXCEPT !.lastError = FALSE, !.status = "active"]
  BY DEF afterModelSuccess, reset
<1> HIDE DEF agg, b
<1>5. b.known = agg.known /\ b.state = agg.state
  BY <1>3, <1>4 DEF BoundedAuth
<1> QED
  BY <1>2, <1>3, <1>5 DEF b

LEMMA FailureKeeps ==
  ASSUME NEW a \in BoundedAuth, NEW t \in Nat, NEW r \in Models, NEW m \in Models,
         NEW code, NEW hint \in HintType,
         m \notin a.known => a.state[m] = FreshModelState
  PROVE  LET b == afterModelFailure(a, r, code, hint, t) IN
         /\ b.known = a.known \cup {r}
         /\ m = r => b.state[m].quota = failedState(a.state[m], code, hint, a.noCooling, t).quota
         /\ m # r => b.state[m].quota = a.state[m].quota
         /\ m \notin b.known => b.state[m] = FreshModelState
<1> DEFINE known  == ensureModelState(a, r)
           after  == failedState(known.state[r], code, hint, a.noCooling, t)
           failed == [known EXCEPT !.state[r] = after, !.lastError = TRUE, !.status = "error"]
<1>1. /\ known \in BoundedAuth /\ a.noCooling \in BOOLEAN
      /\ known.known = a.known \cup {r}
      /\ known.state[m] = a.state[m]
  <2>1. known \in BoundedAuth /\ a.noCooling \in BOOLEAN
    BY EnsureModelStateType DEF BoundedAuth
  <2>2. CASE r \in a.known
    BY <2>1, <2>2 DEF ensureModelState
  <2>3. CASE r \notin a.known
    <3>1. known = [a EXCEPT !.known = @ \cup {r}, !.state[r] = FreshModelState]
      BY <2>3 DEF ensureModelState
    <3>2. known.known = a.known \cup {r} /\ known.state = [a.state EXCEPT ![r] = FreshModelState]
      BY <3>1 DEF BoundedAuth
    <3>3. a.state \in [Models -> BoundedState]
      BY DEF BoundedAuth
    <3> QED
      BY <2>1, <2>3, <3>2, <3>3
  <2> QED
    BY <2>2, <2>3
<1> HIDE DEF known
<1>2. after \in BoundedState
  BY <1>1, FailedStateType DEF BoundedAuth
<1>3. m = r => after = failedState(a.state[m], code, hint, a.noCooling, t)
  BY <1>1
<1> HIDE DEF after
<1>4. /\ failed \in BoundedAuth
      /\ failed.known = a.known \cup {r}
      /\ m = r => failed.state[m] = after
      /\ m # r => failed.state[m] = a.state[m]
  BY <1>1, <1>2 DEF BoundedAuth, Statuses
<1>5. afterModelFailure(a, r, code, hint, t) = updateAggregatedAvailability(failed, t)
  BY DEF afterModelFailure, known, after
<1> HIDE DEF failed
<1>6. LET b == updateAggregatedAvailability(failed, t) IN
      /\ b.known = failed.known
      /\ b.state[m].quota = failed.state[m].quota
      /\ m \notin failed.known => b.state[m] = failed.state[m]
  BY <1>4, AggregatedKeeps
<1> QED
  BY <1>3, <1>4, <1>5, <1>6

\* What a failure makes of a model's quota: a level that does not fall, and, for a
\* 429 that is cooled down, the cooldown of the level before.
LEMMA QuotaAfterFailure ==
  ASSUME NEW s \in BoundedState, NEW code, NEW hint \in HintType, NEW d \in BOOLEAN, NEW t \in Nat
  PROVE  LET q == failedState(s, code, hint, d, t).quota IN
         /\ q.level \in Levels /\ q.level >= s.quota.level
         /\ s.quota.exceeded => q.exceeded
         /\ code = "quota" /\ hint = NoHint /\ ~d =>
              q.recoverAt = t + Cooling(s.quota.level)
<1> DEFINE q == failedState(s, code, hint, d, t).quota
           l == s.quota.level
<1>1. s.quota \in BoundedQuota /\ l \in Levels /\ l \in Nat
  BY LevelAssumption DEF BoundedState, BoundedQuota, Levels
<1>2. q = IF code = "quota" THEN quotaAfter429(s.quota, hint, d, t) ELSE s.quota
  BY DEF failedState, BoundedState
<1> HIDE DEF q
<1> SUFFICES /\ q.level \in Levels /\ q.level >= l
             /\ s.quota.exceeded => q.exceeded
             /\ code = "quota" /\ hint = NoHint /\ ~d => q.recoverAt = t + Cooling(l)
  BY DEF q
<1>3. CASE code # "quota"
  BY <1>1, <1>2, <1>3
<1>4. CASE code = "quota" /\ hint # NoHint
  BY <1>1, <1>2, <1>4 DEF quotaAfter429
<1>a. CASE code = "quota" /\ hint = NoHint
  <2> DEFINE next == nextQuotaCooldown(l, d)
  <2>1. /\ q.exceeded /\ q.level = next.level
        /\ q.recoverAt = IF next.cooldown > 0 THEN t + next.cooldown ELSE ZeroTime
    BY <1>2, <1>a DEF quotaAfter429
  <2>2. CASE d
    <3>1. next.level = l
      BY <2>2 DEF nextQuotaCooldown
    <3> HIDE DEF next
    <3> QED
      BY <1>1, <2>1, <2>2, <3>1
  <2>3. CASE ~d
    <3>1. next = nextQuotaCooldown(l, FALSE)
      BY <2>3
    <3> HIDE DEF next
    <3>2. next.cooldown = Cooling(l) /\ next.level >= l /\ next.level \in Levels
      BY <1>1, <3>1, NextGranted
    <3>3. Cooling(l) > 0
      BY <1>1, CoolingGrows
    <3> QED
      BY <2>1, <3>2, <3>3
  <2> QED
    BY <2>2, <2>3
<1> QED
  BY <1>3, <1>4, <1>a

LEMMA GInvInit == Init => GInv
<1> SUFFICES ASSUME Init, NEW m \in Models PROVE Remembered(m)
  BY DEF GInv
<1>1. 0 \in Levels /\ NoQuota.level = 0
  BY LevelAssumption DEF Levels, NoQuota
<1>2. auth.state[m] = FreshModelState /\ granted[m] = 0 /\ auth.state[m].quota.level = 0
  BY <1>1 DEF Init, NewAuth, FreshModelState
<1>3. Cooling(0) \in Nat
  BY <1>1, CoolingGrows
<1> QED
  BY <1>2, <1>3 DEF Remembered

\* A step on a model's memory: a cooldown it grants is not shorter than the last
\* one, and what it remembers is forgotten only as a whole.
Kept(m) ==
  /\ granted'[m] # 0 => granted'[m] >= granted[m] /\ granted'[m] <= QuotaMax
  /\ auth.state[m].quota.exceeded /\ auth'.state[m] # FreshModelState =>
       /\ auth'.state[m].quota.exceeded
       /\ auth'.state[m].quota.level >= auth.state[m].quota.level

\* A step that changes neither the model's state nor its cooldown.
LEMMA MemoryUntouched ==
  ASSUME LInv, NEW m \in Models, Remembered(m),
         m \in auth.known => m \in auth'.known,
         m \notin auth'.known => auth'.state[m] = FreshModelState,
         auth'.state[m].quota = auth.state[m].quota, granted'[m] = granted[m]
  PROVE  Remembered(m)' /\ Kept(m)
<1>1. auth.state[m].quota.level \in Levels /\ auth.state[m].quota.level \in Int /\ granted[m] \in Int
  BY LevelAssumption DEF LInv, BoundedAuth, BoundedState, BoundedQuota, Levels
<1>2. Cooling(auth.state[m].quota.level) \in Nat /\ Cooling(auth.state[m].quota.level) <= QuotaMax
  BY <1>1, CoolingGrows
<1>3. Remembered(m)'
  BY DEF Remembered
<1>4. granted[m] <= QuotaMax /\ granted[m] >= granted[m]
  BY <1>1, <1>2, CooldownAssumption DEF Remembered
<1> QED
  BY <1>1, <1>3, <1>4 DEF Kept

LEMMA GInvNext == LInv /\ GInv /\ [Next]_vars => \A m \in Models : Remembered(m)' /\ Kept(m)
<1> SUFFICES ASSUME LInv, GInv, [Next]_vars, NEW m \in Models
             PROVE  Remembered(m)' /\ Kept(m)
  OBVIOUS
<1>0. /\ Remembered(m) /\ auth \in BoundedAuth /\ now \in Nat /\ granted \in [Models -> Int]
      /\ auth.state[m] \in BoundedState /\ auth.noCooling \in BOOLEAN
      /\ m \notin auth.known => auth.state[m] = FreshModelState
  BY DEF GInv, LInv, Remembered, BoundedAuth
<1>1. ASSUME NEW r \in Models, Succeed(r) PROVE Remembered(m)' /\ Kept(m)
  <2>1. /\ auth'.known = auth.known \cup {r}
        /\ m = r => auth'.state[m] = FreshModelState
        /\ m # r => auth'.state[m].quota = auth.state[m].quota
        /\ m \notin auth'.known => auth'.state[m] = FreshModelState
    BY <1>0, <1>1, SuccessKeeps DEF Succeed
  <2>2. granted' = [granted EXCEPT ![r] = 0]
    BY <1>1 DEF Succeed
  <2>3. CASE m # r
    BY <1>0, <2>1, <2>2, <2>3, MemoryUntouched
  <2>4. CASE m = r
    <3>1. granted'[m] = 0 /\ auth'.state[m] = FreshModelState
      BY <1>0, <2>1, <2>2, <2>4
    <3>2. FreshModelState.quota.level = 0 /\ 0 \in Levels
      BY LevelAssumption DEF FreshModelState, NoQuota, Levels
    <3>3. Cooling(0) \in Nat
      BY <3>2, CoolingGrows
    <3> QED
      BY <3>1, <3>2, <3>3 DEF Remembered, Kept
  <2> QED
    BY <2>3, <2>4
<1>2. ASSUME NEW r \in Models, NEW code \in Codes, NEW hint \in Hints \cup {NoHint},
             Fail(r, code, hint)
      PROVE  Remembered(m)' /\ Kept(m)
  <2>1. hint \in HintType
    BY RunAssumption DEF HintType
  <2>2. /\ auth'.known = auth.known \cup {r}
        /\ m = r => auth'.state[m].quota
                      = failedState(auth.state[m], code, hint, auth.noCooling, now).quota
        /\ m # r => auth'.state[m].quota = auth.state[m].quota
        /\ m \notin auth'.known => auth'.state[m] = FreshModelState
    BY <1>0, <1>2, <2>1, FailureKeeps DEF Fail
  <2>3. granted' = IF code = "quota" /\ hint = NoHint /\ ~auth.noCooling
                   THEN [granted EXCEPT ![r] = auth'.state[r].quota.recoverAt - now]
                   ELSE granted
    BY <1>2 DEF Fail
  <2>4. CASE m # r
    BY <1>0, <2>2, <2>3, <2>4, MemoryUntouched
  <2>5. CASE m = r
    <3> DEFINE old == auth.state[m].quota
               new == auth'.state[m].quota
    <3>1. /\ new.level \in Levels /\ new.level >= old.level
          /\ old.exceeded => new.exceeded
          /\ code = "quota" /\ hint = NoHint /\ ~auth.noCooling =>
               new.recoverAt = now + Cooling(old.level)
      BY <1>0, <2>1, <2>2, <2>5, QuotaAfterFailure
    <3>2. old.level \in Levels
      BY <1>0 DEF BoundedState, BoundedQuota
    <3>3. granted[m] \in Int /\ 0 <= granted[m] /\ granted[m] <= Cooling(old.level)
      BY <1>0 DEF Remembered
    <3>4. \/ granted'[m] = granted[m]
          \/ granted'[m] = new.recoverAt - now /\ new.recoverAt = now + Cooling(old.level)
      BY <1>0, <2>3, <2>5, <3>1
    <3>5. m \in auth'.known
      BY <2>2, <2>5
    <3> HIDE DEF old, new
    <3>6. /\ Cooling(old.level) \in Nat /\ Cooling(new.level) \in Nat
          /\ Cooling(old.level) <= Cooling(new.level) /\ Cooling(old.level) <= QuotaMax
      <4>1. old.level <= new.level
        BY <3>1, <3>2, LevelAssumption DEF Levels
      <4> QED
        BY <3>1, <3>2, <4>1, CoolingGrows
    <3>7. /\ 0 <= granted'[m] /\ granted'[m] <= Cooling(new.level)
          /\ granted'[m] >= granted[m] /\ granted'[m] <= QuotaMax
      BY <1>0, <3>3, <3>4, <3>6, CooldownAssumption
    <3> QED
      BY <3>1, <3>5, <3>7 DEF Remembered, Kept, old, new
  <2> QED
    BY <2>4, <2>5
<1>3. ASSUME UNCHANGED granted, auth'.known = auth.known, auth'.state = auth.state
      PROVE  Remembered(m)' /\ Kept(m)
  BY <1>0, <1>3, MemoryUntouched
<1>4. CASE SucceedWhole
  BY <1>0, <1>3, <1>4 DEF SucceedWhole, clearAuthStateOnSuccess, BoundedAuth
<1>5. ASSUME NEW code \in Codes, NEW hint \in Hints \cup {NoHint}, FailWhole(code, hint)
      PROVE  Remembered(m)' /\ Kept(m)
  BY <1>0, <1>3, <1>5 DEF FailWhole, applyAuthFailureState, BoundedAuth
<1>6. ASSUME NEW d \in BOOLEAN, SetDisabled(d) PROVE Remembered(m)' /\ Kept(m)
  BY <1>0, <1>3, <1>6 DEF SetDisabled, BoundedAuth
<1>7. CASE Tick \/ UNCHANGED vars
  BY <1>3, <1>7 DEF Tick, vars
<1> QED
  BY <1>1, <1>2, <1>4, <1>5, <1>6, <1>7 DEF Next

\* Whatever results come in between, a model's cooldowns do not shrink and its
\* exhaustion is not forgotten until it succeeds (nextQuotaCooldown and MarkResult
\* in sdk/cliproxy/auth/conductor.go).
THEOREM MemoryKept == Spec => BackoffKept
<1>1. Init => LInv /\ GInv
  BY LInvInit, GInvInit
<1>2. LInv /\ GInv /\ [Next]_vars => (LInv /\ GInv)'
  BY LInvNext, GInvNext DEF GInv
<1>3. LInv /\ GInv /\ [Next]_vars =>
        [\A m \in Models :
           granted'[m] # 0 => granted'[m] >= granted[m] /\ granted'[m] <= QuotaMax]_vars
  BY GInvNext DEF Kept
<1>4. LInv /\ GInv /\ [Next]_vars =>
        [\A m \in Models :
           auth.state[m].quota.exceeded /\ auth'.state[m] # FreshModelState =>
             /\ auth'.state[m].quota.exceeded
             /\ auth'.state[m].quota.level >= auth.state[m].quota.level]_vars
  BY GInvNext DEF Kept
<1> QED
  BY <1>1, <1>2, <1>3, <1>4, PTL DEF Spec, BackoffKept, BackoffGrows, QuotaRemembered
==============================================================================
