--------------------------- MODULE ModelRegistry ---------------------------
(***************************************************************************)
(* The global model registry of internal/registry/model_registry.go: which *)
(* clients (auths) offer which models, the per-model counters derived from *)
(* that, the quota marks and suspensions execution results leave, and the  *)
(* cached list of available models.  Every operation holds the registry's  *)
(* mutex and is one action.  Model infos, their copies and the format a    *)
(* handler type asks for are left out; one handler type stands for all.    *)
(***************************************************************************)
EXTENDS Integers, Sequences, FiniteSets, FiniteSetsExt

CONSTANTS
  Clients,      \* auth IDs
  Models,       \* model IDs
  Providers,    \* provider names
  Lists,        \* the model lists a client may register, repetitions included
  Reasons,      \* suspension reasons of MarkResult
  LateResults,  \* may a result be reported after its client was unregistered?
  Window,       \* modelQuotaExceededWindow
  MaxNow        \* bound on the clock

NoProvider == "none"        \* the empty provider name
NotSuspended == "none"

ASSUME RegistryAssumption ==
  /\ Lists \subseteq Seq(Models)
  /\ Reasons \subseteq {"quota", "unauthorized", "payment_required", "not_found"}
  /\ NoProvider \notin Providers
  /\ IsFiniteSet(Clients)
  /\ LateResults \in BOOLEAN
  /\ Window \in Nat \ {0} /\ MaxNow \in Nat \ {0}

VARIABLES
  models,           \* ModelRegistry.models: partial function to registrations
  clientModels,     \* the raw list of every client, <<>> when not registered
  clientProviders,  \* the provider of every client
  cache,            \* availableModelsCache, for one handler type
  offered,          \* history: the models every client ever registered
  now

vars == <<models, clientModels, clientProviders, cache, offered, now>>

ZeroTime == 0
NoCache  == [filled |-> FALSE, models |-> {}, expiresAt |-> ZeroTime]

Times(list, m) == Cardinality({i \in DOMAIN list : list[i] = m})
Least(a, b)    == IF a <= b THEN a ELSE b

Without(f, x) == [z \in DOMAIN f \ {x} |-> f[z]]

------------------------------------------------------------------------------
(* One registration, as it changes for k occurrences of a model in a list *)

NewRegistration ==
  [count |-> 0, providers |-> [p \in Providers |-> 0],
   quota |-> <<>>, suspended |-> <<>>]

\* Providers[p] by k less; an entry that would not stay positive is deleted.
takeProvider(reg, p, k) ==
  IF p = NoProvider THEN reg
  ELSE [reg EXCEPT !.providers[p] = @ - Least(k, @)]

giveProvider(reg, p, k) ==
  IF p = NoProvider THEN reg ELSE [reg EXCEPT !.providers[p] = @ + k]

forget(reg, c) == [reg EXCEPT !.quota = Without(@, c), !.suspended = Without(@, c)]

\* addModelRegistration, k times.
addModelRegistration(reg, p, k) == giveProvider([reg EXCEPT !.count = @ + k], p, k)

\* removeModelRegistration, k times (k > 0).
removeModelRegistration(reg, c, p, k) ==
  takeProvider(forget([reg EXCEPT !.count = @ - Least(k, @)], c), p, k)

\* Mutant: the overlap is moved to the new provider and kept with the old one.
reconcile_kept(reg, c, old, new, o, n) ==
  LET trimmed == IF o > n THEN removeModelRegistration(reg, c, old, o - n) ELSE reg
      grown   == IF n > o THEN addModelRegistration(trimmed, new, n - o) ELSE trimmed
  IN  IF n = 0 THEN grown
      ELSE giveProvider(forget(grown, c), new, IF old # new THEN Least(o, n) ELSE 0)

\* Mutant: a client registered again keeps its quota mark and suspension.
reconcile_marked(reg, c, old, new, o, n) ==
  LET overlap == IF old # new THEN Least(o, n) ELSE 0
      moved   == takeProvider(reg, old, overlap)
      trimmed == IF o > n THEN removeModelRegistration(moved, c, old, o - n) ELSE moved
      grown   == IF n > o THEN addModelRegistration(trimmed, new, n - o) ELSE trimmed
  IN  giveProvider(grown, new, overlap)

\* RegisterClient of a client already known, on one model: o occurrences in the
\* old list, n in the new one, the provider changing from old to new.
reconcile(reg, c, old, new, o, n) ==
  LET overlap == IF old # new THEN Least(o, n) ELSE 0
      moved   == takeProvider(reg, old, overlap)
      trimmed == IF o > n THEN removeModelRegistration(moved, c, old, o - n) ELSE moved
      grown   == IF n > o THEN addModelRegistration(trimmed, new, n - o) ELSE trimmed
  IN  IF n = 0 THEN grown ELSE giveProvider(forget(grown, c), new, overlap)

\* The registrations of a table that still count a client; the others are deleted.
counted(table) == [m \in {x \in DOMAIN table : table[x].count > 0} |-> table[m]]

lookup(m) == IF m \in DOMAIN models THEN models[m] ELSE NewRegistration

------------------------------------------------------------------------------
(* Operations *)

Init ==
  /\ models = <<>>
  /\ clientModels = [c \in Clients |-> <<>>]
  /\ clientProviders = [c \in Clients |-> NoProvider]
  /\ cache = NoCache
  /\ offered = [c \in Clients |-> {}]
  /\ now = 1

invalidateAvailableModelsCache == cache' = NoCache

\* UnregisterClient, of a client that is registered or not.
UnregisterClient(c) ==
  LET list == clientModels[c]
      left(m) == IF Times(list, m) > 0
                 THEN removeModelRegistration(models[m], c, clientProviders[c], Times(list, m))
                 ELSE models[m]
  IN  /\ models' = counted([m \in DOMAIN models |-> left(m)])
      /\ clientModels' = [clientModels EXCEPT ![c] = <<>>]
      /\ clientProviders' = [clientProviders EXCEPT ![c] = NoProvider]
      /\ invalidateAvailableModelsCache
      /\ UNCHANGED <<offered, now>>

\* RegisterClient: an empty list unregisters, a first one only adds, a later one
\* is reconciled with the list before.
RegisterClient(c, provider, list) ==
  LET known  == clientModels[c] # <<>>
      new(m) == IF known
                THEN reconcile(lookup(m), c, clientProviders[c], provider,
                               Times(clientModels[c], m), Times(list, m))
                ELSE addModelRegistration(lookup(m), provider, Times(list, m))
  IN  IF list = <<>> THEN UnregisterClient(c)
      ELSE /\ models' = counted([m \in Models |-> new(m)])
           /\ clientModels' = [clientModels EXCEPT ![c] = list]
           /\ clientProviders' = [clientProviders EXCEPT ![c] = provider]
           /\ invalidateAvailableModelsCache
           /\ offered' = [offered EXCEPT ![c] = @ \cup {list[i] : i \in DOMAIN list}]
           /\ UNCHANGED now

Registered(c, m) == Times(clientModels[c], m) > 0

\* The calls MarkResult makes: on a model still registered by somebody, for a
\* client that offered it when it was picked and may be gone by now.
Reported(c, m) ==
  m \in DOMAIN models /\ (Registered(c, m) \/ (LateResults /\ m \in offered[c]))

Marked(reg, c)    == c \in DOMAIN reg.quota
Suspended(reg, c) == c \in DOMAIN reg.suspended
With(f, x, y)     == [z \in DOMAIN f \cup {x} |-> IF z = x THEN y ELSE f[z]]

SetModelQuotaExceeded(c, m) ==
  /\ Reported(c, m)
  /\ models' = [models EXCEPT ![m].quota = With(@, c, now)]
  /\ invalidateAvailableModelsCache
  /\ UNCHANGED <<clientModels, clientProviders, offered, now>>

ClearModelQuotaExceeded(c, m) ==
  /\ Reported(c, m)
  /\ models' = [models EXCEPT ![m].quota = Without(@, c)]
  /\ invalidateAvailableModelsCache
  /\ UNCHANGED <<clientModels, clientProviders, offered, now>>

\* The first reason wins.
SuspendClientModel(c, m, reason) ==
  /\ Reported(c, m)
  /\ ~Suspended(models[m], c)
  /\ models' = [models EXCEPT ![m].suspended = With(@, c, reason)]
  /\ invalidateAvailableModelsCache
  /\ UNCHANGED <<clientModels, clientProviders, offered, now>>

ResumeClientModel(c, m) ==
  /\ Reported(c, m)
  /\ Suspended(models[m], c)
  /\ models' = [models EXCEPT ![m].suspended = Without(@, c)]
  /\ invalidateAvailableModelsCache
  /\ UNCHANGED <<clientModels, clientProviders, offered, now>>

\* The clients whose quota mark is younger than the window.
Exceeded(reg) == {c \in DOMAIN reg.quota : now < reg.quota[c] + Window}

CleanupExpiredQuotas ==
  LET kept(reg) == [reg EXCEPT !.quota = [c \in Exceeded(reg) |-> @[c]]]
  IN  /\ \E m \in DOMAIN models : models[m] # kept(models[m])
      /\ models' = [m \in DOMAIN models |-> kept(models[m])]
      /\ invalidateAvailableModelsCache
      /\ UNCHANGED <<clientModels, clientProviders, offered, now>>

Cooling(reg) == {c \in DOMAIN reg.suspended : reg.suspended[c] = "quota"}
Stopped(reg) == DOMAIN reg.suspended \ Cooling(reg)

\* Mutant: suspensions for other reasons than quota are not taken off.
listed_stopped(reg) ==
  \/ reg.count - Cardinality(Exceeded(reg)) > 0
  \/ Exceeded(reg) \cup Cooling(reg) # {}

\* buildAvailableModelsLocked on one registration: is its model on the list?
listed(reg) ==
  \/ reg.count - Cardinality(Exceeded(reg)) - Cardinality(Stopped(reg)) > 0
  \/ reg.count > 0 /\ Exceeded(reg) \cup Cooling(reg) # {} /\ Stopped(reg) = {}

available == {m \in DOMAIN models : listed(models[m])}

\* The earliest end of a quota window the list was built with.
expiry ==
  LET ends == UNION {{models[m].quota[c] + Window : c \in Exceeded(models[m])} : m \in DOMAIN models}
  IN  IF ends = {} THEN ZeroTime ELSE Min(ends)

Usable(entry) == entry.filled /\ (entry.expiresAt = ZeroTime \/ now < entry.expiresAt)

\* GetAvailableModels when it has to build the list; otherwise it changes nothing.
GetAvailableModels ==
  /\ ~Usable(cache)
  /\ cache' = [filled |-> TRUE, models |-> available, expiresAt |-> expiry]
  /\ UNCHANGED <<models, clientModels, clientProviders, offered, now>>

\* GetModelCount
GetModelCount(m) ==
  LET reg  == models[m]
      left == reg.count - Cardinality(Exceeded(reg)) - Cardinality(DOMAIN reg.suspended)
  IN  IF m \notin DOMAIN models \/ left < 0 THEN 0 ELSE left

Tick ==
  /\ now < MaxNow
  /\ now' = now + 1
  /\ UNCHANGED <<models, clientModels, clientProviders, cache, offered>>

Next ==
  \/ \E c \in Clients, p \in Providers, list \in Lists : RegisterClient(c, p, list)
  \/ \E c \in Clients : UnregisterClient(c)
  \/ \E c \in Clients, m \in Models :
       \/ SetModelQuotaExceeded(c, m)
       \/ ClearModelQuotaExceeded(c, m)
       \/ \E reason \in Reasons : SuspendClientModel(c, m, reason)
       \/ ResumeClientModel(c, m)
  \/ CleanupExpiredQuotas
  \/ GetAvailableModels
  \/ Tick

Spec == Init /\ [][Next]_vars

------------------------------------------------------------------------------
(* Properties *)

Registration ==
  [count : Nat, providers : [Providers -> Nat],
   quota : UNION {[S -> 1 .. MaxNow] : S \in SUBSET Clients},
   suspended : UNION {[S -> Reasons] : S \in SUBSET Clients}]

\* The tables keep their types; a model nobody offers has no registration.
TypeOK ==
  /\ DOMAIN models \subseteq Models
  /\ \A m \in DOMAIN models : models[m] \in Registration /\ models[m].count > 0
  /\ clientModels \in [Clients -> Lists \cup {<<>>}]
  /\ clientProviders \in [Clients -> Providers \cup {NoProvider}]

\* Where the lists of some clients name a model; the clients of a provider.
Places(S, m) == UNION {{c} \X {i \in DOMAIN clientModels[c] : clientModels[c][i] = m} : c \in S}
Of(p)        == {c \in Clients : clientProviders[c] = p}

\* The counters kept by increments are the sums over the clients' lists, per
\* model and per provider, after any sequence of registrations, provider
\* changes and repetitions.
CountsAgree ==
  /\ TypeOK
  /\ \A m \in Models :
       /\ m \in DOMAIN models <=> Places(Clients, m) # {}
       /\ m \in DOMAIN models =>
            /\ models[m].count = Cardinality(Places(Clients, m))
            /\ \A p \in Providers : models[m].providers[p] = Cardinality(Places(Of(p), m))

\* A cached list still in use is the list that would be built now: no change,
\* and no quota window that ends meanwhile, is missed.
CacheFresh == Usable(cache) => cache.models = available

\* A client that registers again starts without quota marks and suspensions of
\* the models it already offered.
FreshOnReconcile ==
  [][\A c \in Clients : clientModels[c] # <<>> /\ clientModels'[c] # <<>>
                        /\ (clientModels[c] # clientModels'[c] \/ clientProviders[c] # clientProviders'[c])
       => \A m \in DOMAIN models' : Registered(c, m) => ~Marked(models'[m], c) /\ ~Suspended(models'[m], c)]_vars

\* A model on the list is offered by a client that can serve it now or when its
\* cooldown ends, late results of clients that are gone included.  A client whose
\* list repeats the model counts more than once, so such models are excepted.
ListedIsServable ==
  \A m \in available :
    \/ \E c \in Clients : Times(clientModels[c], m) > 1
    \/ \E c \in Clients : Registered(c, m) /\ c \notin Stopped(models[m])

\* The counters are those of the registrations, and what is listed somebody can serve.
ListsTrue == CountsAgree /\ ListedIsServable

\* Neither the cached list nor the marks of a client that registers again outlive what
\* they were made from.
NothingStale == []CacheFresh /\ FreshOnReconcile

\* A client that could serve the model now.
Free(c, m) == Registered(c, m) /\ c \notin Exceeded(models[m]) /\ ~Suspended(models[m], c)

\* model_registry.go:752: GetAvailableModels "returns all models that have at
\* least one available client".
AvailableListed == \A m \in Models : (\E c \in Clients : Free(c, m)) => m \in available

\* model_registry.go:996: GetModelCount "returns the number of available clients
\* for a specific model".
CountIsAvailable == \A m \in Models : GetModelCount(m) = Cardinality({c \in Clients : Free(c, m)})
==============================================================================
