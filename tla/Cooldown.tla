------------------------------ MODULE Cooldown ------------------------------
(***************************************************************************)
(* One credential ("auth") inside the Manager: its availability record,    *)
(* the functions the Manager applies to it when an execution result comes  *)
(* in (sdk/cliproxy/auth/conductor.go) and when a selector asks whether it *)
(* may serve a model (sdk/cliproxy/auth/selector.go), and its life:        *)
(* results arrive, time passes, an operator disables and enables it.       *)
(* Every action is one critical section of the Manager's mutex; what       *)
(* happens outside of it is the subject of module Conductor.               *)
(*                                                                         *)
(* Times are naturals in some unit; ZeroTime is Go's time.Time{}, and no   *)
(* operator is applied at a "now" of zero.  Messages, timestamps that only *)
(* document a change (UpdatedAt) and the text of errors are left out; what *)
(* stays of an error is whether LastError is set.                          *)
(***************************************************************************)
EXTENDS Integers

CONSTANTS
  Models,             \* model identifiers results are recorded under
  QuotaBase,          \* quotaBackoffBase: first quota cooldown
  QuotaMax,           \* quotaBackoffMax: longest quota cooldown
  TransientCooldown,  \* cooldown after 408, 500, 502, 503, 504
  DeniedCooldown,     \* cooldown after 401, 402, 403
  NotFoundCooldown,   \* cooldown after 404
  IntWidth,           \* width of Go's int, in bits
  MaxLevel            \* the backoff level at which the cooldown is capped

Wrapped(n) ==
  LET r == n % 2^IntWidth
  IN  IF r >= 2^(IntWidth - 1) THEN r - 2^IntWidth ELSE r

\* quotaBackoffBase * time.Duration(1<<prevLevel), in two's complement.
ShiftedBase(level) == Wrapped(QuotaBase * 2^level)

ASSUME CooldownAssumption ==
  /\ QuotaBase \in Nat \ {0}
  /\ QuotaMax \in Nat /\ QuotaBase <= QuotaMax
  /\ TransientCooldown \in Nat \ {0}
  /\ DeniedCooldown \in Nat \ {0}
  /\ NotFoundCooldown \in Nat \ {0}

\* The values of quotaBackoffBase and quotaBackoffMax make the capped level
\* come before the width of an int is exceeded, and the cooldowns grow until
\* then.  (1s * 2^11 is past 30min, far below 2^63 ns.)
ASSUME LevelAssumption ==
  /\ MaxLevel \in Nat
  /\ \A l \in 0 .. MaxLevel : ShiftedBase(l) \in Nat /\ ShiftedBase(l) >= QuotaBase
  /\ \A l \in 0 .. MaxLevel : \A k \in 0 .. l : ShiftedBase(k) <= ShiftedBase(l)
  /\ ShiftedBase(MaxLevel) >= QuotaMax

ZeroTime == 0
NoHint   == -1                      \* Result.RetryAfter = nil

Codes == {"denied", "not_found", "quota", "transient", "other"}

NoQuota == [exceeded |-> FALSE, recoverAt |-> ZeroTime, level |-> 0]

FreshModelState ==
  [status |-> "active", unavailable |-> FALSE, nextRetry |-> ZeroTime,
   lastError |-> FALSE, quota |-> NoQuota]

QuotaState == [exceeded : BOOLEAN, recoverAt : Nat, level : Nat]
Statuses   == {"active", "error", "disabled"}
ModelState == [status : Statuses, unavailable : BOOLEAN, nextRetry : Nat,
               lastError : BOOLEAN, quota : QuotaState]

\* ModelStates is a map: "known" holds its keys, "state" its values there.
Auth == [disabled : BOOLEAN, noCooling : BOOLEAN, status : Statuses,
         unavailable : BOOLEAN, nextRetry : Nat, lastError : BOOLEAN,
         quota : QuotaState, known : SUBSET Models, state : [Models -> ModelState]]

NewAuth(noCooling) ==
  [disabled |-> FALSE, noCooling |-> noCooling, status |-> "active",
   unavailable |-> FALSE, nextRetry |-> ZeroTime, lastError |-> FALSE,
   quota |-> NoQuota, known |-> {}, state |-> [m \in Models |-> FreshModelState]]

\* Mutant: the comparison with the earliest retry the wrong way round.
Earliest_latest(times) ==
  IF times = {} THEN ZeroTime
  ELSE CHOOSE t \in times : \A u \in times : u <= t

\* The least member of a set of times, the zero time when there is none.
Earliest(times) ==
  IF times = {} THEN ZeroTime
  ELSE CHOOSE t \in times : \A u \in times : t <= u

Highest(levels) ==
  IF levels = {} THEN 0
  ELSE CHOOSE l \in levels : \A k \in levels : k <= l

------------------------------------------------------------------------------
(* Quota backoff *)

\* Mutant: the level keeps growing once the cooldown is capped.
nextQuotaCooldown_unfrozen(prevLevel, disableCooling) ==
  LET shifted  == ShiftedBase(prevLevel)
      cooldown == IF shifted < QuotaBase THEN QuotaBase ELSE shifted
  IN  IF disableCooling THEN [cooldown |-> 0, level |-> prevLevel]
      ELSE IF cooldown >= QuotaMax THEN [cooldown |-> QuotaMax, level |-> prevLevel + 1]
      ELSE [cooldown |-> cooldown, level |-> prevLevel + 1]

\* nextQuotaCooldown: the cooldown and the level stored with it.  Levels are
\* never negative here, so the code's clamp of prevLevel is left out.
nextQuotaCooldown(prevLevel, disableCooling) ==
  LET shifted  == ShiftedBase(prevLevel)
      cooldown == IF shifted < QuotaBase THEN QuotaBase ELSE shifted
  IN  IF disableCooling THEN [cooldown |-> 0, level |-> prevLevel]
      ELSE IF cooldown >= QuotaMax THEN [cooldown |-> QuotaMax, level |-> prevLevel]
      ELSE [cooldown |-> cooldown, level |-> prevLevel + 1]

\* Mutant: a Retry-After starts the backoff over.
quotaAfter429_restart(quota, hint, noCooling, now) ==
  LET next == nextQuotaCooldown(quota.level, noCooling)
  IN  IF hint # NoHint
      THEN [exceeded |-> TRUE, recoverAt |-> now + hint, level |-> 0]
      ELSE [exceeded |-> TRUE, level |-> next.level,
            recoverAt |-> IF next.cooldown > 0 THEN now + next.cooldown ELSE ZeroTime]

\* The quota record after a 429: a provider's Retry-After wins over the
\* backoff and keeps its level.
quotaAfter429(quota, hint, noCooling, now) ==
  LET next == nextQuotaCooldown(quota.level, noCooling)
  IN  IF hint # NoHint
      THEN [exceeded |-> TRUE, recoverAt |-> now + hint, level |-> quota.level]
      ELSE [exceeded |-> TRUE, level |-> next.level,
            recoverAt |-> IF next.cooldown > 0 THEN now + next.cooldown ELSE ZeroTime]

\* NextRetryAfter after a failure that is not a 429; "prior" is what an
\* unclassified failure leaves in place.
retryAfterFailure(code, noCooling, now, prior) ==
  CASE code = "denied"    -> now + DeniedCooldown
    [] code = "not_found" -> now + NotFoundCooldown
    [] code = "transient" -> IF noCooling THEN ZeroTime ELSE now + TransientCooldown
    [] OTHER              -> prior

------------------------------------------------------------------------------
(* Selection: may this auth serve this model now? *)

\* Mutant: no retry time taken for "never again".
StillCooling_zeroBlocks(s, now) ==
  s.unavailable /\ (s.nextRetry = ZeroTime \/ s.nextRetry > now)

\* One level of isAuthBlockedForModel: "s" is a model state or the auth itself.
StillCooling(s, now) == s.unavailable /\ s.nextRetry > now

blockedUntil(s, now) ==
  IF s.quota.recoverAt > now THEN s.quota.recoverAt ELSE s.nextRetry

\* The blockReason with the time it ends; "none" means not blocked.
blockOf(s, now) ==
  IF ~StillCooling(s, now) THEN [reason |-> "none", next |-> ZeroTime]
  ELSE [reason |-> IF s.quota.exceeded THEN "cooldown" ELSE "other",
        next |-> blockedUntil(s, now)]

Disabled == [reason |-> "disabled", next |-> ZeroTime]

\* isAuthBlockedForModel for a model without a thinking suffix.
isAuthBlockedForModel(auth, model, now) ==
  IF auth.disabled \/ auth.status = "disabled" THEN Disabled
  ELSE IF model \notin auth.known THEN [reason |-> "none", next |-> ZeroTime]
  ELSE IF auth.state[model].status = "disabled" THEN Disabled
  ELSE blockOf(auth.state[model], now)

\* isAuthBlockedForModel for the empty model: the auth as a whole.
isAuthBlocked(auth, now) ==
  IF auth.disabled \/ auth.status = "disabled" THEN Disabled
  ELSE blockOf(auth, now)

------------------------------------------------------------------------------
(* Aggregation of the model states into the auth *)

\* updateAggregatedAvailability, one model: an elapsed cooldown is cleared.
cleared(s, now) ==
  IF s.status # "disabled" /\ s.unavailable /\ s.nextRetry # ZeroTime /\ ~StillCooling(s, now)
  THEN [s EXCEPT !.unavailable = FALSE, !.nextRetry = ZeroTime]
  ELSE s

stateUnavailable(s, now) == s.status = "disabled" \/ StillCooling(s, now)

updateAggregatedAvailability(auth, now) ==
  LET retries  == {auth.state[m].nextRetry :
                     m \in {k \in auth.known : auth.state[k].status # "disabled"
                                               /\ StillCooling(auth.state[k], now)}}
      exceeded == {m \in auth.known : auth.state[m].quota.exceeded}
      recovers == {auth.state[m].quota.recoverAt : m \in exceeded} \ {ZeroTime}
      all      == \A m \in auth.known : stateUnavailable(auth.state[m], now)
  IN  IF auth.known = {} THEN auth
      ELSE [auth EXCEPT
        !.state = [m \in Models |-> IF m \in auth.known THEN cleared(auth.state[m], now)
                                                        ELSE auth.state[m]],
        !.unavailable = all,
        !.nextRetry = IF all THEN Earliest(retries) ELSE ZeroTime,
        !.quota = [exceeded |-> exceeded # {}, recoverAt |-> Earliest(recovers),
                   level |-> Highest({auth.state[m].quota.level : m \in exceeded})]]

hasModelError(auth, now) ==
  \E m \in auth.known :
    LET s == auth.state[m]
    IN  \/ s.lastError
        \/ s.status = "error" /\ s.unavailable /\ (s.nextRetry = ZeroTime \/ s.nextRetry > now)

------------------------------------------------------------------------------
(* MarkResult, the part done under the Manager's mutex *)

ensureModelState(auth, model) ==
  IF model \in auth.known THEN auth
  ELSE [auth EXCEPT !.known = @ \cup {model}, !.state[model] = FreshModelState]

resetModelState(auth, model) == [auth EXCEPT !.state[model] = FreshModelState]

\* A success on a model.
afterModelSuccess(auth, model, now) ==
  LET reset == resetModelState(ensureModelState(auth, model), model)
      agg   == updateAggregatedAvailability(reset, now)
  IN  IF hasModelError(agg, now) THEN agg
      ELSE [agg EXCEPT !.lastError = FALSE, !.status = "active"]

\* The model state after a failure on it.
failedState(s, code, hint, noCooling, now) ==
  LET quota == IF code = "quota" THEN quotaAfter429(s.quota, hint, noCooling, now) ELSE s.quota
  IN  [s EXCEPT !.unavailable = TRUE, !.status = "error", !.lastError = TRUE,
                !.quota = quota,
                !.nextRetry = IF code = "quota" THEN quota.recoverAt
                              ELSE retryAfterFailure(code, noCooling, now, ZeroTime)]

\* A failure on a model.
afterModelFailure(auth, model, code, hint, now) ==
  LET known  == ensureModelState(auth, model)
      failed == [known EXCEPT
                   !.state[model] = failedState(@, code, hint, auth.noCooling, now),
                   !.lastError = TRUE, !.status = "error"]
  IN  updateAggregatedAvailability(failed, now)

\* clearAuthStateOnSuccess: a success that names no model.
clearAuthStateOnSuccess(auth) ==
  [auth EXCEPT !.unavailable = FALSE, !.status = "active", !.quota = NoQuota,
               !.lastError = FALSE, !.nextRetry = ZeroTime]

\* applyAuthFailureState: a failure that names no model.
applyAuthFailureState(auth, code, hint, now) ==
  LET quota == IF code = "quota" THEN quotaAfter429(auth.quota, hint, auth.noCooling, now)
               ELSE auth.quota
  IN  [auth EXCEPT !.unavailable = TRUE, !.status = "error", !.lastError = TRUE,
                   !.quota = quota,
                   !.nextRetry = IF code = "quota" THEN quota.recoverAt
                                 ELSE retryAfterFailure(code, auth.noCooling, now, @)]

------------------------------------------------------------------------------
(* The life of a credential *)

CONSTANTS
  Hints,         \* Retry-After durations a provider may send
  NoCooling,     \* quotaCooldownDisabledForAuth
  Horizon,       \* last time at which results still arrive
  MaxNow         \* bound on the clock

ASSUME RunAssumption ==
  /\ Hints \subseteq Nat
  /\ NoCooling \in BOOLEAN
  /\ Horizon \in Nat /\ MaxNow \in Nat /\ Horizon <= MaxNow

VARIABLES
  auth,     \* Manager.auths[id]
  now,      \* the clock, never the zero time
  granted,  \* the last backoff cooldown computed per model since its last success
  named     \* has every result so far named a model?

vars == <<auth, now, granted, named>>

Init ==
  /\ auth = NewAuth(NoCooling)
  /\ now = 1
  /\ granted = [m \in Models |-> 0]
  /\ named = TRUE

\* MarkResult of a success on model m.
Succeed(m) ==
  /\ now <= Horizon
  /\ auth' = afterModelSuccess(auth, m, now)
  /\ granted' = [granted EXCEPT ![m] = 0]
  /\ UNCHANGED <<now, named>>

\* MarkResult of a failure on model m.
Fail(m, code, hint) ==
  /\ now <= Horizon
  /\ code # "quota" => hint = NoHint      \* no other code reads Result.RetryAfter
  /\ auth' = afterModelFailure(auth, m, code, hint, now)
  /\ granted' = IF code = "quota" /\ hint = NoHint /\ ~auth.noCooling
                THEN [granted EXCEPT ![m] = auth'.state[m].quota.recoverAt - now]
                ELSE granted
  /\ UNCHANGED <<now, named>>

\* MarkResult of results without a model.
SucceedWhole ==
  /\ now <= Horizon
  /\ named' = FALSE
  /\ auth' = clearAuthStateOnSuccess(auth)
  /\ UNCHANGED <<now, granted>>

FailWhole(code, hint) ==
  /\ now <= Horizon
  /\ named' = FALSE
  /\ code # "quota" => hint = NoHint
  /\ auth' = applyAuthFailureState(auth, code, hint, now)
  /\ UNCHANGED <<now, granted>>

\* PatchAuthFileStatus, followed by Manager.Update of the same record.
SetDisabled(disabled) ==
  /\ auth.disabled # disabled
  /\ auth' = [auth EXCEPT !.disabled = disabled,
                          !.status = IF disabled THEN "disabled" ELSE "active"]
  /\ UNCHANGED <<now, granted, named>>

Tick ==
  /\ now < MaxNow
  /\ now' = now + 1
  /\ UNCHANGED <<auth, granted, named>>

Next ==
  \/ \E m \in Models : Succeed(m)
  \/ \E m \in Models, code \in Codes, hint \in Hints \cup {NoHint} : Fail(m, code, hint)
  \/ SucceedWhole
  \/ \E code \in Codes, hint \in Hints \cup {NoHint} : FailWhole(code, hint)
  \/ \E disabled \in BOOLEAN : SetDisabled(disabled)
  \/ Tick

Spec == Init /\ [][Next]_vars /\ WF_vars(Tick)

------------------------------------------------------------------------------

Blocked(m) == isAuthBlockedForModel(auth, m, now).reason # "none"

\* The record and the clock keep their types.
TypeOK ==
  /\ auth \in Auth
  /\ now \in Nat \ {ZeroTime}
  /\ granted \in [Models -> Int]
  /\ named \in BOOLEAN

\* No backoff level, of a model or of the whole auth, passes the level at
\* which the cooldown is capped, whatever sequence of 429s, hints and
\* aggregations led there: the shift in nextQuotaCooldown stays far from the
\* width of an int.
LevelBounded ==
  /\ auth.quota.level <= MaxLevel
  /\ \A m \in Models : auth.state[m].quota.level <= MaxLevel

\* The auth-level view that selection without a model uses agrees with the
\* model states it aggregates, at every later time too and not only when
\* updateAggregatedAvailability ran: the auth is blocked exactly when every
\* model a result was recorded for is.  A result that names no model writes
\* the auth-level view itself, so the two agree only until the first of them.
AggregateAgrees ==
  named /\ auth.known # {} =>
    (isAuthBlocked(auth, now).reason # "none" <=> \A m \in auth.known : Blocked(m))

\* Repeated 429s without a success in between never get a shorter cooldown
\* than the one before, and never one past quotaBackoffMax; other failures
\* and provider hints in between do not make the Manager forget.
BackoffGrows ==
  [][\A m \in Models :
       granted'[m] # 0 => granted'[m] >= granted[m] /\ granted'[m] <= QuotaMax]_vars

\* A recorded quota exhaustion is only forgotten by a success on that model:
\* no other result, no expiry and no change of another model erases it or
\* lowers its level.
QuotaRemembered ==
  [][\A m \in Models :
       auth.state[m].quota.exceeded /\ auth'.state[m] # FreshModelState =>
         /\ auth'.state[m].quota.exceeded
         /\ auth'.state[m].quota.level >= auth.state[m].quota.level]_vars

\* What earlier 429s taught is kept: cooldowns do not shrink, and exhaustion is not forgotten.
BackoffKept == BackoffGrows /\ QuotaRemembered

\* Once no more results arrive, an enabled auth and every one of its models
\* become selectable again and stay so: no failure leaves a block without an
\* end, the ones that store no retry time included.
Recovers ==
  <>[](~auth.disabled => /\ isAuthBlocked(auth, now).reason = "none"
                         /\ \A m \in Models : ~Blocked(m))

\* internal/config/config.go:67 says DisableCooling "disables quota cooldown
\* scheduling when true": such an auth would never be in quota cooldown.
CoolingDisabledMeansNoQuotaCooldown ==
  auth.noCooling =>
    \A m \in Models : isAuthBlockedForModel(auth, m, now).reason # "cooldown"
==============================================================================
