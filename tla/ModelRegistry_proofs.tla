------------------------ MODULE ModelRegistry_proofs ------------------------
(***************************************************************************)
(* TLAPS proofs about ModelRegistry, for any clients, models, providers,   *)
(* lists and reasons, any window and any clock that satisfy                *)
(* RegistryAssumption: the counters are those of the clients' lists, and   *)
(* the cached list and the marks are never stale.                          *)
(***************************************************************************)
EXTENDS ModelRegistry, FiniteSetTheorems, WellFoundedInduction, TLAPS

------------------------------------------------------------------------------
(* Registrations *)

\* Tables of marks and of suspensions.
Table(T) == UNION {[S -> T] : S \in SUBSET Clients}

LEMMA TableParts ==
  ASSUME NEW T, NEW f \in Table(T)
  PROVE  DOMAIN f \subseteq Clients /\ f \in [DOMAIN f -> T] /\ \A c \in DOMAIN f : f[c] \in T
BY DEF Table

LEMMA TableMade ==
  ASSUME NEW T, NEW S \in SUBSET Clients, NEW f \in [S -> T]
  PROVE  f \in Table(T)
BY DEF Table

LEMMA TableWithout ==
  ASSUME NEW T, NEW f \in Table(T), NEW c
  PROVE  Without(f, c) \in Table(T) /\ DOMAIN Without(f, c) = DOMAIN f \ {c}
<1>1. DOMAIN f \ {c} \in SUBSET Clients /\ \A d \in DOMAIN f \ {c} : f[d] \in T BY TableParts
<1>2. Without(f, c) \in [DOMAIN f \ {c} -> T] BY <1>1 DEF Without
<1>. QED BY <1>1, <1>2, TableMade DEF Without

LEMMA TableWith ==
  ASSUME NEW T, NEW f \in Table(T), NEW c \in Clients, NEW t \in T
  PROVE  With(f, c, t) \in Table(T)
<1>1. DOMAIN f \cup {c} \in SUBSET Clients /\ \A d \in DOMAIN f : f[d] \in T BY TableParts
<1>2. With(f, c, t) \in [DOMAIN f \cup {c} -> T] BY <1>1 DEF With
<1>. QED BY <1>1, <1>2, TableMade

\* Registration, its tables by name.
Stamps == 1 .. MaxNow
Regs == [count : Nat, providers : [Providers -> Nat], quota : Table(Stamps), suspended : Table(Reasons)]

LEMMA RegistrationIs == Registration = Regs
BY DEF Registration, Regs, Table, Stamps

LEMMA RegParts ==
  ASSUME NEW reg \in Regs
  PROVE  /\ reg.count \in Nat /\ reg.providers \in [Providers -> Nat]
         /\ reg.quota \in Table(Stamps) /\ reg.suspended \in Table(Reasons)
BY DEF Regs

LEMMA NewReg ==
  /\ NewRegistration \in Regs /\ NewRegistration.count = 0
  /\ \A q \in Providers : NewRegistration.providers[q] = 0
<1>1. <<>> \in [{} -> Stamps] /\ <<>> \in [{} -> Reasons] /\ {} \in SUBSET Clients OBVIOUS
<1>2. <<>> \in Table(Stamps) /\ <<>> \in Table(Reasons) BY <1>1, TableMade
<1>. QED BY <1>2 DEF NewRegistration, Regs

LEMMA ForgetReg ==
  ASSUME NEW reg \in Regs, NEW c
  PROVE  /\ forget(reg, c) \in Regs
         /\ forget(reg, c).count = reg.count /\ forget(reg, c).providers = reg.providers
         /\ ~Marked(forget(reg, c), c) /\ ~Suspended(forget(reg, c), c)
<1>0. reg.quota \in Table(Stamps) /\ reg.suspended \in Table(Reasons) BY RegParts
<1>1. Without(reg.quota, c) \in Table(Stamps) /\ c \notin DOMAIN Without(reg.quota, c)
  <2>1. PICK f \in Table(Stamps) : f = reg.quota BY <1>0
  <2>. QED BY <2>1, TableWithout
<1>2. Without(reg.suspended, c) \in Table(Reasons) /\ c \notin DOMAIN Without(reg.suspended, c)
  <2>1. PICK f \in Table(Reasons) : f = reg.suspended BY <1>0
  <2>. QED BY <2>1, TableWithout
<1>. QED BY <1>1, <1>2 DEF forget, Regs, Marked, Suspended

\* What takeProvider and giveProvider leave: the provider's counter aside, all as it was.
LEMMA TakeReg ==
  ASSUME NEW reg \in Regs, NEW p \in Providers, NEW k \in Nat
  PROVE  LET new == takeProvider(reg, p, k)
         IN  /\ new \in Regs
             /\ new.count = reg.count /\ new.quota = reg.quota /\ new.suspended = reg.suspended
             /\ \A q \in Providers : new.providers[q] =
                  IF q # p THEN reg.providers[q] ELSE IF k <= reg.providers[q] THEN reg.providers[q] - k ELSE 0
<1>1. p # NoProvider BY RegistryAssumption
<1>2. PICK n \in [Providers -> Nat] : n = reg.providers BY RegParts
<1>3. n[p] - Least(k, n[p]) = (IF k <= n[p] THEN n[p] - k ELSE 0) BY DEF Least
<1>4. PICK l \in Nat : l = n[p] - Least(k, n[p]) BY <1>3
<1>5. takeProvider(reg, p, k) = [reg EXCEPT !.providers = [n EXCEPT ![p] = l]]
  BY <1>1, <1>2, <1>4 DEF takeProvider, Regs
<1>6. [n EXCEPT ![p] = l] \in [Providers -> Nat] OBVIOUS
<1>7. \A q \in Providers : [n EXCEPT ![p] = l][q] = IF q # p THEN n[q] ELSE IF k <= n[q] THEN n[q] - k ELSE 0
  BY <1>3, <1>4
<1>. QED BY <1>2, <1>5, <1>6, <1>7 DEF Regs

LEMMA GiveReg ==
  ASSUME NEW reg \in Regs, NEW p \in Providers, NEW k \in Nat
  PROVE  LET new == giveProvider(reg, p, k)
         IN  /\ new \in Regs
             /\ new.count = reg.count /\ new.quota = reg.quota /\ new.suspended = reg.suspended
             /\ \A q \in Providers : new.providers[q] = reg.providers[q] + (IF q = p THEN k ELSE 0)
<1>1. p # NoProvider BY RegistryAssumption
<1>2. PICK n \in [Providers -> Nat] : n = reg.providers BY RegParts
<1>3. giveProvider(reg, p, k) = [reg EXCEPT !.providers = [n EXCEPT ![p] = n[p] + k]]
  BY <1>1, <1>2 DEF giveProvider, Regs
<1>4. [n EXCEPT ![p] = n[p] + k] \in [Providers -> Nat] OBVIOUS
<1>5. \A q \in Providers : [n EXCEPT ![p] = n[p] + k][q] = n[q] + (IF q = p THEN k ELSE 0) OBVIOUS
<1>. QED BY <1>2, <1>3, <1>4, <1>5 DEF Regs

LEMMA AddReg ==
  ASSUME NEW reg \in Regs, NEW p \in Providers, NEW k \in Nat
  PROVE  LET new == addModelRegistration(reg, p, k)
         IN  /\ new \in Regs /\ new.count = reg.count + k
             /\ new.quota = reg.quota /\ new.suspended = reg.suspended
             /\ \A q \in Providers : new.providers[q] = reg.providers[q] + (IF q = p THEN k ELSE 0)
<1>0. reg.count + k \in Nat BY RegParts
<1>1. PICK r \in Regs : r = [reg EXCEPT !.count = reg.count + k] BY <1>0 DEF Regs
<1>2. r.count = reg.count + k /\ r.providers = reg.providers /\ r.quota = reg.quota /\ r.suspended = reg.suspended
  BY <1>1 DEF Regs
<1>3. addModelRegistration(reg, p, k) = giveProvider(r, p, k) BY <1>1 DEF addModelRegistration
<1>. QED BY <1>2, <1>3, GiveReg

LEMMA RemoveReg ==
  ASSUME NEW reg \in Regs, NEW c, NEW p \in Providers, NEW k \in Nat, k <= reg.count, k <= reg.providers[p]
  PROVE  LET new == removeModelRegistration(reg, c, p, k)
         IN  /\ new \in Regs /\ new.count = reg.count - k
             /\ ~Marked(new, c) /\ ~Suspended(new, c)
             /\ \A q \in Providers : new.providers[q] = reg.providers[q] - (IF q = p THEN k ELSE 0)
<1>0. reg.count \in Nat /\ reg.providers \in [Providers -> Nat] BY RegParts
<1>1. reg.count - Least(k, reg.count) = reg.count - k /\ reg.count - k \in Nat BY <1>0 DEF Least
<1>2. PICK r \in Regs : r = [reg EXCEPT !.count = reg.count - k] BY <1>1 DEF Regs
<1>3. r.count = reg.count - k /\ r.providers = reg.providers BY <1>2 DEF Regs
<1>4. PICK f \in Regs : f = forget(r, c) BY ForgetReg
<1>5. f.count = r.count /\ f.providers = r.providers /\ ~Marked(f, c) /\ ~Suspended(f, c) BY <1>4, ForgetReg
<1>6. removeModelRegistration(reg, c, p, k) = takeProvider(f, p, k)
  BY <1>1, <1>2, <1>4 DEF removeModelRegistration
<1>7. /\ takeProvider(f, p, k) \in Regs
      /\ takeProvider(f, p, k).count = f.count
      /\ takeProvider(f, p, k).quota = f.quota /\ takeProvider(f, p, k).suspended = f.suspended
      /\ \A q \in Providers : takeProvider(f, p, k).providers[q] =
           IF q # p THEN f.providers[q] ELSE IF k <= f.providers[q] THEN f.providers[q] - k ELSE 0
  BY TakeReg
<1>8. ~Marked(takeProvider(f, p, k), c) /\ ~Suspended(takeProvider(f, p, k), c)
  BY <1>5, <1>7 DEF Marked, Suspended
<1>9. \A q \in Providers : takeProvider(f, p, k).providers[q] = reg.providers[q] - (IF q = p THEN k ELSE 0)
  BY <1>0, <1>3, <1>5, <1>7
<1>. QED BY <1>3, <1>5, <1>6, <1>7, <1>8, <1>9

\* A client registered again: o places of the model on its old list become n on the new one,
\* and the provider's counters follow; its marks are gone if it offered the model before.
Reconciled(reg, c, old, new, o, n, got) ==
  /\ got \in Regs /\ got.count = reg.count - o + n
  /\ o > 0 => ~Marked(got, c) /\ ~Suspended(got, c)
  /\ \A q \in Providers : got.providers[q] =
       reg.providers[q] - (IF q = old THEN o ELSE 0) + (IF q = new THEN n ELSE 0)

LEMMA ReconcileReg ==
  ASSUME NEW reg \in Regs, NEW c, NEW old \in Providers, NEW new \in Providers, NEW o \in Nat, NEW n \in Nat,
         o <= reg.count, o <= reg.providers[old]
  PROVE  Reconciled(reg, c, old, new, o, n, reconcile(reg, c, old, new, o, n))
<1>0. reg.count \in Nat /\ reg.providers \in [Providers -> Nat] BY RegParts
<1>1. PICK v \in Nat : v = (IF old # new THEN Least(o, n) ELSE 0) /\ v <= o /\ v <= n BY DEF Least
<1>2. PICK moved \in Regs : moved = takeProvider(reg, old, v) BY TakeReg
<1>3. /\ moved.count = reg.count
      /\ \A q \in Providers : moved.providers[q] = reg.providers[q] - (IF q = old THEN v ELSE 0)
  <2>1. /\ moved.count = reg.count
        /\ \A q \in Providers : moved.providers[q] =
             IF q # old THEN reg.providers[q] ELSE IF v <= reg.providers[q] THEN reg.providers[q] - v ELSE 0
    BY <1>2, TakeReg
  <2>. QED BY <1>0, <1>1, <2>1
<1>. DEFINE less == IF o > n THEN o - n ELSE 0
            more == IF n > o THEN n - o ELSE 0
            trimmed == IF o > n THEN removeModelRegistration(moved, c, old, o - n) ELSE moved
            grown   == IF n > o THEN addModelRegistration(trimmed, new, n - o) ELSE trimmed
<1>4. /\ trimmed \in Regs /\ trimmed.count = reg.count - less
      /\ o > n => ~Marked(trimmed, c) /\ ~Suspended(trimmed, c)
      /\ \A q \in Providers : trimmed.providers[q] = reg.providers[q] - (IF q = old THEN v + less ELSE 0)
  <2>1. CASE o > n
    <3>1. v + (o - n) <= o BY <1>1, <2>1
    <3>2. o - n \in Nat /\ o - n <= moved.count /\ o - n <= moved.providers[old] BY <1>0, <1>1, <1>3, <2>1, <3>1
    <3>3. PICK k \in Nat : k = o - n BY <3>2
    <3>4. LET r == removeModelRegistration(moved, c, old, k)
          IN  /\ r \in Regs /\ r.count = moved.count - k
              /\ ~Marked(r, c) /\ ~Suspended(r, c)
              /\ \A q \in Providers : r.providers[q] = moved.providers[q] - (IF q = old THEN k ELSE 0)
      BY <3>2, <3>3, RemoveReg
    <3>. QED BY <1>0, <1>3, <2>1, <3>3, <3>4
  <2>2. CASE ~(o > n) BY <1>0, <1>3, <2>2
  <2>. QED BY <2>1, <2>2
<1>5. PICK t \in Regs : t = trimmed BY <1>4
<1>6. /\ grown \in Regs /\ grown.count = reg.count - less + more
      /\ n = 0 /\ o > 0 => ~Marked(grown, c) /\ ~Suspended(grown, c)
      /\ \A q \in Providers : grown.providers[q] =
           reg.providers[q] - (IF q = old THEN v + less ELSE 0) + (IF q = new THEN more ELSE 0)
  <2>0. t.count \in Nat /\ t.providers \in [Providers -> Nat] BY RegParts
  <2>1. CASE n > o
    <3>1. PICK k \in Nat : k = n - o BY <2>1
    <3>2. LET r == addModelRegistration(t, new, k)
          IN  /\ r \in Regs /\ r.count = t.count + k
              /\ \A q \in Providers : r.providers[q] = t.providers[q] + (IF q = new THEN k ELSE 0)
      BY AddReg
    <3>. QED BY <1>0, <1>4, <1>5, <2>0, <2>1, <3>1, <3>2
  <2>2. CASE ~(n > o) BY <1>0, <1>4, <1>5, <2>0, <2>2
  <2>. QED BY <2>1, <2>2
<1>7. PICK g \in Regs : g = grown BY <1>6
<1>8. reconcile(reg, c, old, new, o, n) = IF n = 0 THEN g ELSE giveProvider(forget(g, c), new, v)
  BY <1>1, <1>2, <1>7 DEF reconcile
<1>9. /\ g.count = reg.count - o + n
      /\ \A q \in Providers : g.providers[q] + (IF q = new THEN v ELSE 0) =
           reg.providers[q] - (IF q = old THEN o ELSE 0) + (IF q = new THEN n ELSE 0)
  <2>0. g.count \in Nat /\ g.providers \in [Providers -> Nat] BY RegParts
  <2>1. g.count = reg.count - less + more
        /\ \A q \in Providers : g.providers[q] =
             reg.providers[q] - (IF q = old THEN v + less ELSE 0) + (IF q = new THEN more ELSE 0)
    BY <1>6, <1>7
  <2>2. CASE old = new BY <1>0, <1>1, <2>0, <2>1, <2>2
  <2>3. CASE old # new /\ o > n BY <1>0, <1>1, <2>0, <2>1, <2>3 DEF Least
  <2>4. CASE old # new /\ ~(o > n) BY <1>0, <1>1, <2>0, <2>1, <2>4 DEF Least
  <2>. QED BY <2>2, <2>3, <2>4
<1>10. CASE n = 0
  <2>1. v = 0 BY <1>1, <1>10
  <2>2. reconcile(reg, c, old, new, o, n) = g BY <1>8, <1>10
  <2>3. g.providers \in [Providers -> Nat] BY RegParts
  <2>. QED BY <1>6, <1>7, <1>9, <1>10, <2>1, <2>2, <2>3 DEF Reconciled
<1>11. CASE n # 0
  <2>1. PICK f \in Regs : f = forget(g, c) BY ForgetReg
  <2>2. f.count = g.count /\ f.providers = g.providers /\ ~Marked(f, c) /\ ~Suspended(f, c) BY <2>1, ForgetReg
  <2>3. LET r == giveProvider(f, new, v)
        IN  /\ r \in Regs /\ r.count = f.count /\ r.quota = f.quota /\ r.suspended = f.suspended
            /\ \A q \in Providers : r.providers[q] = f.providers[q] + (IF q = new THEN v ELSE 0)
    BY GiveReg
  <2>4. reconcile(reg, c, old, new, o, n) = giveProvider(f, new, v) BY <1>8, <1>11, <2>1
  <2>. QED BY <1>9, <2>2, <2>3, <2>4 DEF Marked, Suspended, Reconciled
<1>. QED BY <1>10, <1>11

------------------------------------------------------------------------------
(* Counting places on lists *)

\* Places, of any lists, and one client's part of it.
Spots(lists, S, m) == UNION {{c} \X {i \in DOMAIN lists[c] : lists[c][i] = m} : c \in S}
Own(lists, c, m)   == {c} \X {i \in DOMAIN lists[c] : lists[c][i] = m}

LEMMA TimesOwn ==
  ASSUME NEW list \in Seq(Models), NEW m, NEW c
  PROVE  /\ Times(list, m) \in Nat
         /\ IsFiniteSet({c} \X {i \in DOMAIN list : list[i] = m})
         /\ Cardinality({c} \X {i \in DOMAIN list : list[i] = m}) = Times(list, m)
         /\ Times(list, m) > 0 <=> \E i \in DOMAIN list : list[i] = m
<1>. DEFINE I == {i \in DOMAIN list : list[i] = m}
<1>1. DOMAIN list = 1 .. Len(list) /\ Len(list) \in Nat OBVIOUS
<1>2. IsFiniteSet(1 .. Len(list)) BY <1>1, FS_Interval
<1>3. IsFiniteSet(I) /\ Cardinality(I) \in Nat BY <1>1, <1>2, FS_Subset, FS_CardinalityType
<1>4. IsFiniteSet({c}) /\ Cardinality({c}) = 1 BY FS_Singleton
<1>5. IsFiniteSet({c} \X I) /\ Cardinality({c} \X I) = Cardinality({c}) * Cardinality(I) BY <1>3, <1>4, FS_Product
<1>6. Cardinality({c} \X I) = Cardinality(I) BY <1>3, <1>4, <1>5
<1>7. Times(list, m) = Cardinality(I) BY DEF Times
<1>8. Cardinality(I) = 0 <=> I = {} BY <1>3, FS_EmptySet
<1>. QED BY <1>3, <1>5, <1>6, <1>7, <1>8

LEMMA SpotsFinite ==
  ASSUME NEW lists \in [Clients -> Seq(Models)], NEW S \in SUBSET Clients, NEW m
  PROVE  IsFiniteSet(Spots(lists, S, m)) /\ Cardinality(Spots(lists, S, m)) \in Nat
<1>1. IsFiniteSet(S) BY RegistryAssumption, FS_Subset
<1>. DEFINE F == {Own(lists, c, m) : c \in S}
            f == [c \in S |-> Own(lists, c, m)]
<1>2. f \in Surjection(S, F) BY DEF Surjection
<1>3. IsFiniteSet(F) BY <1>1, <1>2, FS_Surjection
<1>4. \A T \in F : IsFiniteSet(T)
  <2>1. \A c \in S : lists[c] \in Seq(Models) OBVIOUS
  <2>2. \A c \in S : IsFiniteSet(Own(lists, c, m)) BY <2>1, TimesOwn DEF Own
  <2>. QED BY <2>2
<1>5. IsFiniteSet(UNION F) BY <1>3, <1>4, FS_UNION
<1>6. Spots(lists, S, m) = UNION F BY DEF Spots, Own
<1>. QED BY <1>5, <1>6, FS_CardinalityType

\* One client's places are counted apart from the others'.
LEMMA SpotsSplit ==
  ASSUME NEW lists \in [Clients -> Seq(Models)], NEW S \in SUBSET Clients, NEW m, NEW c \in S
  PROVE  Cardinality(Spots(lists, S, m)) = Cardinality(Spots(lists, S \ {c}, m)) + Times(lists[c], m)
<1>. DEFINE A == Spots(lists, S \ {c}, m)
            B == Own(lists, c, m)
<1>1. S \ {c} \in SUBSET Clients OBVIOUS
<1>2. IsFiniteSet(A) /\ Cardinality(A) \in Nat BY <1>1, SpotsFinite
<1>3. IsFiniteSet(B) /\ Cardinality(B) = Times(lists[c], m) /\ Times(lists[c], m) \in Nat BY TimesOwn DEF Own
<1>4. A \cap B = {} BY DEF Spots, Own
<1>5. Spots(lists, S, m) = A \cup B BY DEF Spots, Own
<1>. HIDE DEF A, B
<1>6. Cardinality(A \cup B) = Cardinality(A) + Cardinality(B) - Cardinality(A \cap B) BY <1>2, <1>3, FS_Union
<1>7. Cardinality(A \cap B) = 0 BY <1>4, FS_EmptySet
<1>8. Cardinality(A \cup B) = Cardinality(A) + Times(lists[c], m) BY <1>2, <1>3, <1>6, <1>7
<1>. QED BY <1>5, <1>8 DEF A

\* The places of some clients are among those of more.
LEMMA SpotsLess ==
  ASSUME NEW lists \in [Clients -> Seq(Models)], NEW S \in SUBSET Clients, NEW T \in SUBSET S, NEW m
  PROVE  Cardinality(Spots(lists, T, m)) <= Cardinality(Spots(lists, S, m))
<1>1. Spots(lists, T, m) \in SUBSET Spots(lists, S, m) BY DEF Spots
<1>. QED BY <1>1, SpotsFinite, FS_Subset

\* The clients of a provider, given everybody's provider.
ClientsOf(provs, q) == {c \in Clients : provs[c] = q}

\* What a registration changes in the sums: one client's list and provider.
Moved(lists, provs, c, list, p, newLists, newProvs, m) ==
  /\ Cardinality(Spots(newLists, Clients, m)) =
       Cardinality(Spots(lists, Clients, m)) - Times(lists[c], m) + Times(list, m)
  /\ Times(lists[c], m) <= Cardinality(Spots(lists, Clients, m))
  /\ \A q : /\ Cardinality(Spots(newLists, ClientsOf(newProvs, q), m)) =
                 Cardinality(Spots(lists, ClientsOf(provs, q), m))
                   - (IF q = provs[c] THEN Times(lists[c], m) ELSE 0) + (IF q = p THEN Times(list, m) ELSE 0)
            /\ q = provs[c] => Times(lists[c], m) <= Cardinality(Spots(lists, ClientsOf(provs, q), m))

LEMMA SumsChange ==
  ASSUME NEW lists \in [Clients -> Seq(Models)], NEW provs, NEW c \in Clients, NEW list \in Seq(Models), NEW p,
         NEW newLists, newLists = [lists EXCEPT ![c] = list],
         NEW newProvs, \A d \in Clients : newProvs[d] = IF d = c THEN p ELSE provs[d], NEW m
  PROVE  Moved(lists, provs, c, list, p, newLists, newProvs, m)
<1>1. newLists \in [Clients -> Seq(Models)] /\ newLists[c] = list OBVIOUS
<1>2. Times(lists[c], m) \in Nat /\ Times(list, m) \in Nat BY TimesOwn
<1>3. \A S \in SUBSET Clients : Spots(lists, S \ {c}, m) = Spots(newLists, S \ {c}, m)
  <2>. TAKE S \in SUBSET Clients
  <2>1. \A d \in S \ {c} : lists[d] = newLists[d] OBVIOUS
  <2>2. PICK R : R = S \ {c} OBVIOUS
  <2>3. \A d \in R : lists[d] = newLists[d] BY <2>1, <2>2
  <2>4. Spots(lists, R, m) = Spots(newLists, R, m) BY <2>3 DEF Spots
  <2>. QED BY <2>2, <2>4
<1>4. \A S \in SUBSET Clients : /\ Cardinality(Spots(lists, S, m)) \in Nat
                                /\ Cardinality(Spots(newLists, S, m)) \in Nat
  BY <1>1, SpotsFinite
<1>5. \A S \in SUBSET Clients : c \in S =>
         Cardinality(Spots(lists, S, m)) = Cardinality(Spots(lists, S \ {c}, m)) + Times(lists[c], m)
  BY SpotsSplit
<1>6. \A S \in SUBSET Clients : c \in S =>
         Cardinality(Spots(newLists, S, m)) = Cardinality(Spots(newLists, S \ {c}, m)) + Times(list, m)
  <2>. SUFFICES ASSUME NEW S \in SUBSET Clients, c \in S
                PROVE  Cardinality(Spots(newLists, S, m)) = Cardinality(Spots(newLists, S \ {c}, m)) + Times(list, m)
    OBVIOUS
  <2>0. PICK news \in [Clients -> Seq(Models)] : news = newLists BY <1>1
  <2>1. Cardinality(Spots(news, S, m)) = Cardinality(Spots(news, S \ {c}, m)) + Times(news[c], m)
    BY SpotsSplit
  <2>. QED BY <1>1, <2>0, <2>1
<1>7. \A S \in SUBSET Clients : S \ {c} \in SUBSET Clients OBVIOUS
<1>8. Clients \in SUBSET Clients OBVIOUS
<1>9. /\ Cardinality(Spots(newLists, Clients, m)) =
           Cardinality(Spots(lists, Clients, m)) - Times(lists[c], m) + Times(list, m)
      /\ Times(lists[c], m) <= Cardinality(Spots(lists, Clients, m))
  <2>1. PICK r \in Nat : r = Cardinality(Spots(lists, Clients \ {c}, m)) BY <1>4, <1>7, <1>8
  <2>2. Cardinality(Spots(lists, Clients, m)) = r + Times(lists[c], m) BY <1>5, <1>8, <2>1
  <2>3. Spots(newLists, Clients \ {c}, m) = Spots(lists, Clients \ {c}, m) BY <1>3, <1>8
  <2>4. Cardinality(Spots(newLists, Clients, m)) = r + Times(list, m) BY <1>6, <1>8, <2>1, <2>3
  <2>. QED BY <1>2, <2>1, <2>2, <2>4
<1>10. ASSUME NEW q
       PROVE  /\ Cardinality(Spots(newLists, ClientsOf(newProvs, q), m)) =
                   Cardinality(Spots(lists, ClientsOf(provs, q), m))
                     - (IF q = provs[c] THEN Times(lists[c], m) ELSE 0) + (IF q = p THEN Times(list, m) ELSE 0)
              /\ q = provs[c] => Times(lists[c], m) <= Cardinality(Spots(lists, ClientsOf(provs, q), m))
  <2>1. PICK S \in SUBSET Clients : S = ClientsOf(provs, q) BY DEF ClientsOf
  <2>2. PICK T \in SUBSET Clients : T = ClientsOf(newProvs, q) BY DEF ClientsOf
  <2>3. S \ {c} = T \ {c} /\ (c \in S <=> q = provs[c]) /\ (c \in T <=> q = p) BY <2>1, <2>2 DEF ClientsOf
  <2>4. Spots(newLists, T \ {c}, m) = Spots(lists, S \ {c}, m) BY <1>3, <2>3
  <2>5. PICK r \in Nat : r = Cardinality(Spots(lists, S \ {c}, m)) BY <1>4, <1>7
  <2>6. Cardinality(Spots(lists, S, m)) = r + (IF q = provs[c] THEN Times(lists[c], m) ELSE 0)
    <3>1. CASE c \in S BY <1>5, <2>3, <2>5, <3>1
    <3>2. CASE c \notin S
      <4>1. S \ {c} = S BY <3>2
      <4>2. Cardinality(Spots(lists, S, m)) = r BY <2>5, <4>1
      <4>. QED BY <2>3, <3>2, <4>2
    <3>. QED BY <3>1, <3>2
  <2>7. Cardinality(Spots(newLists, T, m)) = r + (IF q = p THEN Times(list, m) ELSE 0)
    <3>1. CASE c \in T BY <1>6, <2>3, <2>4, <2>5, <3>1
    <3>2. CASE c \notin T
      <4>1. T \ {c} = T BY <3>2
      <4>2. Cardinality(Spots(newLists, T, m)) = r BY <2>4, <2>5, <4>1
      <4>. QED BY <2>3, <3>2, <4>2
    <3>. QED BY <3>1, <3>2
  <2>. QED BY <1>2, <2>1, <2>2, <2>5, <2>6, <2>7
<1>. QED BY <1>9, <1>10 DEF Moved

------------------------------------------------------------------------------
(* The counters *)

\* The counters are the sums; a model without a registration counts nobody.
Summed ==
  \A m \in Models :
    /\ lookup(m).count = Cardinality(Spots(clientModels, Clients, m))
    /\ \A q \in Providers :
         lookup(m).providers[q] = Cardinality(Spots(clientModels, ClientsOf(clientProviders, q), m))

\* The inductive invariant: types, a provider for every client with a list, and the sums.
Typed ==
  /\ DOMAIN models \subseteq Models /\ \A m \in DOMAIN models : models[m] \in Regs /\ models[m].count > 0
  /\ clientModels \in [Clients -> Lists \cup {<<>>}]
  /\ clientProviders \in [Clients -> Providers \cup {NoProvider}]
  /\ \A c \in Clients : clientModels[c] # <<>> => clientProviders[c] \in Providers
  /\ now \in Stamps

CInv == Typed /\ Summed

LEMMA ListsAre == Lists \cup {<<>>} \subseteq Seq(Models)
<1>1. Lists \subseteq Seq(Models) BY RegistryAssumption
<1>2. <<>> \in Seq(Models) OBVIOUS
<1>. QED BY <1>1, <1>2

LEMMA TimesEmpty == \A m : Times(<<>>, m) = 0
<1>. TAKE m
<1>1. <<>> \in Seq(Models) /\ DOMAIN <<>> = {} OBVIOUS
<1>2. Times(<<>>, m) \in Nat /\ (Times(<<>>, m) > 0 <=> \E i \in DOMAIN <<>> : <<>>[i] = m) BY <1>1, TimesOwn
<1>. QED BY <1>1, <1>2

LEMMA LookupReg == ASSUME Typed, NEW m \in Models PROVE lookup(m) \in Regs
BY NewReg DEF Typed, lookup

\* A step that leaves lists and counters alone.
LEMMA CountsKept ==
  ASSUME CInv, UNCHANGED <<clientModels, clientProviders>>, now' \in Stamps,
         DOMAIN models' = DOMAIN models,
         \A m \in DOMAIN models : /\ models'[m] \in Regs /\ models'[m].count = models[m].count
                                  /\ models'[m].providers = models[m].providers
  PROVE  CInv'
<1>1. Typed' BY DEF CInv, Typed
<1>2. \A m \in Models : lookup(m)'.count = lookup(m).count /\ lookup(m)'.providers = lookup(m).providers
  BY DEF lookup
<1>3. Summed' BY <1>2 DEF CInv, Summed
<1>. QED BY <1>1, <1>3 DEF CInv

\* The registrations of D, when a client's list and provider change: by the difference; no
\* other model is on the lists.
Shifted(c, list, p, D, new) ==
  /\ \A m \in D :
       /\ new[m].count = lookup(m).count - Times(clientModels[c], m) + Times(list, m)
       /\ \A q \in Providers : new[m].providers[q] =
            lookup(m).providers[q] - (IF q = clientProviders[c] THEN Times(clientModels[c], m) ELSE 0)
                                   + (IF q = p THEN Times(list, m) ELSE 0)
  /\ \A m \in Models \ D : lookup(m).count = 0 /\ Times(list, m) = 0

\* A step that gives one client another list and provider, and the registrations of some
\* models the difference; no other model is on the lists.
LEMMA CountsMove ==
  ASSUME CInv, NEW c \in Clients, NEW list \in Lists \cup {<<>>}, NEW p \in Providers \cup {NoProvider},
         list # <<>> => p \in Providers,
         clientModels' = [clientModels EXCEPT ![c] = list],
         clientProviders' = [clientProviders EXCEPT ![c] = p], now' = now,
         NEW D \in SUBSET Models, NEW new \in [D -> Regs], models' = counted(new),
         Shifted(c, list, p, D, new)
  PROVE  CInv'
<1>0. Typed /\ Summed BY DEF CInv
<1>13. /\ \A m \in D :
           /\ new[m].count = lookup(m).count - Times(clientModels[c], m) + Times(list, m)
           /\ \A q \in Providers : new[m].providers[q] =
                lookup(m).providers[q] - (IF q = clientProviders[c] THEN Times(clientModels[c], m) ELSE 0)
                                       + (IF q = p THEN Times(list, m) ELSE 0)
      /\ \A m \in Models \ D : lookup(m).count = 0 /\ Times(list, m) = 0
  BY DEF Shifted
<1>1. DOMAIN models' = {m \in D : new[m].count > 0} /\ \A m \in DOMAIN models' : models'[m] = new[m]
  BY DEF counted
<1>2. clientModels' \in [Clients -> Lists \cup {<<>>}] /\ clientModels'[c] = list
  BY <1>0 DEF Typed
<1>3. clientProviders' \in [Clients -> Providers \cup {NoProvider}]
      /\ \A d \in Clients : clientProviders'[d] = IF d = c THEN p ELSE clientProviders[d]
  BY <1>0 DEF Typed
<1>4. Typed' BY <1>0, <1>1, <1>2, <1>3 DEF Typed
<1>5. PICK old \in [Clients -> Seq(Models)] : old = clientModels BY <1>0, ListsAre DEF Typed
<1>6. PICK provs : provs = clientProviders OBVIOUS
<1>7. PICK lists \in [Clients -> Seq(Models)] : lists = clientModels' BY <1>2, ListsAre
<1>8. PICK newProvs : newProvs = clientProviders' OBVIOUS
<1>9. list \in Seq(Models) /\ old[c] \in Seq(Models) BY ListsAre
<1>10. lists = [old EXCEPT ![c] = list] /\ \A d \in Clients : newProvs[d] = IF d = c THEN p ELSE provs[d]
  BY <1>3, <1>5, <1>6, <1>7, <1>8
<1>11. ASSUME NEW m \in Models
       PROVE  /\ lookup(m)'.count = Cardinality(Spots(lists, Clients, m))
              /\ \A q \in Providers : lookup(m)'.providers[q] = Cardinality(Spots(lists, ClientsOf(newProvs, q), m))
  <2>1. Moved(old, provs, c, list, p, lists, newProvs, m)
    <3>1. lists = [old EXCEPT ![c] = list] BY <1>10
    <3>2. \A d \in Clients : newProvs[d] = IF d = c THEN p ELSE provs[d] BY <1>10
    <3>3. list \in Seq(Models) BY <1>9
    <3>. QED BY <3>1, <3>2, <3>3, SumsChange
  <2>2. /\ lookup(m).count = Cardinality(Spots(old, Clients, m))
        /\ \A q \in Providers : lookup(m).providers[q] = Cardinality(Spots(old, ClientsOf(provs, q), m))
    BY <1>0, <1>5, <1>6 DEF Summed
  <2>3. Times(old[c], m) \in Nat /\ Times(list, m) \in Nat BY <1>9, TimesOwn
  <2>4. \A q \in Providers : ClientsOf(newProvs, q) \in SUBSET Clients BY DEF ClientsOf
  <2>5. \A q \in Providers : /\ Cardinality(Spots(lists, ClientsOf(newProvs, q), m)) \in Nat
                             /\ Cardinality(Spots(lists, ClientsOf(newProvs, q), m)) <= Cardinality(Spots(lists, Clients, m))
    BY <2>4, SpotsFinite, SpotsLess
  <2>6. Cardinality(Spots(lists, Clients, m)) \in Nat BY SpotsFinite
  <2>7. lookup(m)' = IF m \in DOMAIN models' THEN models'[m] ELSE NewRegistration BY DEF lookup
  <2>8. CASE m \in D
    <3>1. /\ new[m].count = Cardinality(Spots(lists, Clients, m))
          /\ \A q \in Providers : new[m].providers[q] = Cardinality(Spots(lists, ClientsOf(newProvs, q), m))
      <4>1. /\ new[m].count = Cardinality(Spots(old, Clients, m)) - Times(old[c], m) + Times(list, m)
            /\ \A q \in Providers : new[m].providers[q] =
                 Cardinality(Spots(old, ClientsOf(provs, q), m))
                   - (IF q = provs[c] THEN Times(old[c], m) ELSE 0) + (IF q = p THEN Times(list, m) ELSE 0)
        <5>1. new[m].count = lookup(m).count - Times(clientModels[c], m) + Times(list, m) BY <1>13, <2>8
        <5>2. \A q \in Providers : new[m].providers[q] =
                lookup(m).providers[q] - (IF q = clientProviders[c] THEN Times(clientModels[c], m) ELSE 0)
                                       + (IF q = p THEN Times(list, m) ELSE 0)
          BY <1>13, <2>8
        <5>3. old[c] = clientModels[c] /\ provs[c] = clientProviders[c] BY <1>5, <1>6
        <5>4. new[m].count = lookup(m).count - Times(old[c], m) + Times(list, m) BY <5>1, <5>3
        <5>5. \A q \in Providers : new[m].providers[q] =
                lookup(m).providers[q] - (IF q = provs[c] THEN Times(old[c], m) ELSE 0)
                                       + (IF q = p THEN Times(list, m) ELSE 0)
          BY <5>2, <5>3
        <5>. QED BY <2>2, <5>4, <5>5
      <4>. QED BY <2>1, <4>1 DEF Moved
    <3>2. CASE new[m].count > 0
      <4>1. lookup(m)' = new[m] BY <1>1, <2>7, <2>8, <3>2
      <4>. QED BY <3>1, <4>1
    <3>3. CASE ~(new[m].count > 0)
      <4>1. lookup(m)' = NewRegistration BY <1>1, <2>7, <3>3
      <4>2. new[m].count = 0 BY <2>6, <3>1, <3>3
      <4>3. \A q \in Providers : Cardinality(Spots(lists, ClientsOf(newProvs, q), m)) = 0 BY <2>5, <3>1, <4>2
      <4>. QED BY <3>1, <4>1, <4>2, <4>3, NewReg
    <3>. QED BY <3>2, <3>3
  <2>9. CASE m \notin D
    <3>1. lookup(m)' = NewRegistration BY <1>1, <2>7, <2>9
    <3>2. Cardinality(Spots(old, Clients, m)) = 0 /\ Times(list, m) = 0 BY <1>13, <2>2, <2>9
    <3>3. Cardinality(Spots(lists, Clients, m)) = 0 BY <2>1, <2>3, <3>2 DEF Moved
    <3>4. \A q \in Providers : Cardinality(Spots(lists, ClientsOf(newProvs, q), m)) = 0 BY <2>5, <3>3
    <3>. QED BY <3>1, <3>3, <3>4, NewReg
  <2>. QED BY <2>8, <2>9
<1>12. Summed' BY <1>7, <1>8, <1>11 DEF Summed
<1>. QED BY <1>4, <1>12 DEF CInv

\* What a client has on its list is counted.
LEMMA CountedAtLeast ==
  ASSUME CInv, NEW c \in Clients, NEW m \in Models
  PROVE  /\ Times(clientModels[c], m) \in Nat
         /\ Times(clientModels[c], m) <= lookup(m).count
         /\ clientProviders[c] \in Providers => Times(clientModels[c], m) <= lookup(m).providers[clientProviders[c]]
<1>0. Typed /\ Summed BY DEF CInv
<1>1. PICK lists \in [Clients -> Seq(Models)] : lists = clientModels BY <1>0, ListsAre DEF Typed
<1>2. lists[c] \in Seq(Models) OBVIOUS
<1>3. PICK S \in SUBSET Clients : S = ClientsOf(clientProviders, clientProviders[c]) BY DEF ClientsOf
<1>4. c \in S BY <1>3 DEF ClientsOf
<1>5. Times(lists[c], m) \in Nat BY <1>2, TimesOwn
<1>6. Cardinality(Spots(lists, S, m)) = Cardinality(Spots(lists, S \ {c}, m)) + Times(lists[c], m)
  BY <1>4, SpotsSplit
<1>7. Cardinality(Spots(lists, Clients, m)) = Cardinality(Spots(lists, Clients \ {c}, m)) + Times(lists[c], m)
  BY SpotsSplit
<1>8. S \ {c} \in SUBSET Clients /\ Clients \ {c} \in SUBSET Clients OBVIOUS
<1>9. Cardinality(Spots(lists, S \ {c}, m)) \in Nat /\ Cardinality(Spots(lists, Clients \ {c}, m)) \in Nat
  BY <1>8, SpotsFinite
<1>10. Times(lists[c], m) <= Cardinality(Spots(lists, S, m)) BY <1>5, <1>6, <1>9
<1>11. Times(lists[c], m) <= Cardinality(Spots(lists, Clients, m)) BY <1>5, <1>7, <1>9
<1>12. lookup(m).count = Cardinality(Spots(lists, Clients, m)) BY <1>0, <1>1 DEF Summed
<1>13. clientProviders[c] \in Providers => lookup(m).providers[clientProviders[c]] = Cardinality(Spots(lists, S, m))
  BY <1>0, <1>1, <1>3 DEF Summed
<1>. QED BY <1>1, <1>5, <1>10, <1>11, <1>12, <1>13

------------------------------------------------------------------------------
(* Every operation keeps them *)

LEMMA CountsInit == Init => CInv
<1>. SUFFICES ASSUME Init PROVE CInv OBVIOUS
<1>1. 1 \in Stamps BY RegistryAssumption DEF Stamps
<1>2. DOMAIN models = {} BY DEF Init
<1>3. Typed BY <1>1, <1>2 DEF Init, Typed
<1>4. \A S \in SUBSET Clients, m \in Models : Spots(clientModels, S, m) = {}
  <2>. TAKE S \in SUBSET Clients, m \in Models
  <2>1. \A c \in S : clientModels[c] = <<>> BY DEF Init
  <2>2. DOMAIN <<>> = {} OBVIOUS
  <2>. QED BY <2>1, <2>2 DEF Spots
<1>5. Cardinality({}) = 0 BY FS_EmptySet
<1>6. \A m \in Models : lookup(m) = NewRegistration BY <1>2 DEF lookup
<1>7. \A q \in Providers : ClientsOf(clientProviders, q) \in SUBSET Clients BY DEF ClientsOf
<1>8. Clients \in SUBSET Clients OBVIOUS
<1>9. Summed BY <1>4, <1>5, <1>6, <1>7, <1>8, NewReg DEF Summed
<1>. QED BY <1>3, <1>9 DEF CInv

LEMMA CountsUnregister ==
  ASSUME CInv, NEW c \in Clients, UnregisterClient(c)
  PROVE  CInv'
<1>0. Typed /\ Summed BY DEF CInv
<1>. DEFINE D == DOMAIN models
            old == clientModels[c]
            from == clientProviders[c]
            left(m) == IF Times(old, m) > 0 THEN removeModelRegistration(models[m], c, from, Times(old, m)) ELSE models[m]
            new == [m \in D |-> left(m)]
<1>1. D \in SUBSET Models BY <1>0 DEF Typed
<1>2. ASSUME NEW m \in D
      PROVE  /\ left(m) \in Regs /\ left(m).count = models[m].count - Times(old, m)
             /\ \A q \in Providers : left(m).providers[q] =
                  models[m].providers[q] - (IF q = from THEN Times(old, m) ELSE 0)
  <2>1. PICK reg \in Regs : reg = models[m] /\ reg = lookup(m) BY <1>0 DEF Typed, lookup
  <2>2. PICK k \in Nat : k = Times(old, m) BY <1>1, CountedAtLeast
  <2>3. k <= reg.count /\ (from \in Providers => k <= reg.providers[from])
    BY <1>1, <2>1, <2>2, CountedAtLeast
  <2>4. CASE k > 0
    <3>1. old # <<>> BY <2>2, <2>4, TimesEmpty
    <3>2. PICK p \in Providers : p = from BY <1>0, <3>1 DEF Typed
    <3>3. LET r == removeModelRegistration(reg, c, p, k)
          IN  /\ r \in Regs /\ r.count = reg.count - k
              /\ ~Marked(r, c) /\ ~Suspended(r, c)
              /\ \A q \in Providers : r.providers[q] = reg.providers[q] - (IF q = p THEN k ELSE 0)
      BY <2>3, <3>2, RemoveReg
    <3>4. left(m) = removeModelRegistration(reg, c, p, k) BY <2>1, <2>2, <2>4, <3>2
    <3>. QED BY <2>1, <2>2, <3>2, <3>3, <3>4
  <2>5. CASE ~(k > 0)
    <3>1. left(m) = reg BY <2>1, <2>2, <2>5
    <3>2. k = 0 BY <2>5
    <3>3. reg.count \in Nat /\ reg.providers \in [Providers -> Nat] BY RegParts
    <3>. QED BY <2>1, <2>2, <3>1, <3>2, <3>3
  <2>. QED BY <2>4, <2>5
<1>3. new \in [D -> Regs] /\ \A m \in D : new[m] = left(m) BY <1>2
<1>4. models' = counted(new) BY DEF UnregisterClient
<1>5. clientModels' = [clientModels EXCEPT ![c] = <<>>] /\ clientProviders' = [clientProviders EXCEPT ![c] = NoProvider]
      /\ now' = now
  BY DEF UnregisterClient
<1>6. \A m \in D : lookup(m) = models[m] BY DEF lookup
<1>7. \A m \in Models \ D : lookup(m).count = 0 BY NewReg DEF lookup
<1>8. \A m \in D : /\ models[m].count \in Nat /\ Times(old, m) \in Nat
                   /\ \A q \in Providers : models[m].providers[q] \in Nat
  BY <1>0, <1>1, CountedAtLeast, RegParts DEF Typed
<1>9. ASSUME NEW m \in D
      PROVE  /\ new[m].count = lookup(m).count - Times(old, m) + Times(<<>>, m)
             /\ \A q \in Providers : new[m].providers[q] =
                  lookup(m).providers[q] - (IF q = from THEN Times(old, m) ELSE 0)
                                         + (IF q = NoProvider THEN Times(<<>>, m) ELSE 0)
  BY <1>2, <1>3, <1>6, <1>8, TimesEmpty
<1>. HIDE DEF new
<1>10. PICK f \in [D -> Regs] : f = new BY <1>3
<1>11. PICK p \in Providers \cup {NoProvider} : p = NoProvider OBVIOUS
<1>12. PICK list \in Lists \cup {<<>>} : list = <<>> OBVIOUS
<1>13. clientModels' = [clientModels EXCEPT ![c] = list] BY <1>5, <1>12
<1>14. clientProviders' = [clientProviders EXCEPT ![c] = p] BY <1>5, <1>11
<1>15. models' = counted(f) BY <1>4, <1>10
<1>16. \A m \in D :
           /\ f[m].count = lookup(m).count - Times(clientModels[c], m) + Times(list, m)
           /\ \A q \in Providers : f[m].providers[q] =
                lookup(m).providers[q] - (IF q = clientProviders[c] THEN Times(clientModels[c], m) ELSE 0)
                                       + (IF q = p THEN Times(list, m) ELSE 0)
  BY <1>9, <1>10, <1>11, <1>12
<1>17. \A m \in Models \ D : lookup(m).count = 0 /\ Times(list, m) = 0 BY <1>7, <1>12, TimesEmpty
<1>18. list # <<>> => p \in Providers BY <1>12
<1>19. now' = now BY <1>5
<1>20. Shifted(c, list, p, D, f) BY <1>16, <1>17 DEF Shifted
<1>. QED BY <1>1, <1>13, <1>14, <1>15, <1>18, <1>19, <1>20, CountsMove

LEMMA CountsRegister ==
  ASSUME CInv, NEW c \in Clients, NEW p \in Providers, NEW list \in Lists, RegisterClient(c, p, list)
  PROVE  /\ CInv'
         /\ clientModels[c] # <<>> /\ list # <<>> =>
              \A m \in DOMAIN models' : Times(clientModels[c], m) > 0 => ~Marked(models'[m], c) /\ ~Suspended(models'[m], c)
<1>0. Typed /\ Summed BY DEF CInv
<1>1. CASE list = <<>>
  <2>1. UnregisterClient(c) BY <1>1 DEF RegisterClient
  <2>. QED BY <1>1, <2>1, CountsUnregister
<1>2. CASE list # <<>>
  <2>. DEFINE old == clientModels[c]
              from == clientProviders[c]
              new(m) == IF old # <<>> THEN reconcile(lookup(m), c, from, p, Times(old, m), Times(list, m))
                        ELSE addModelRegistration(lookup(m), p, Times(list, m))
              table == [m \in Models |-> new(m)]
  <2>1. list \in Seq(Models) BY ListsAre
  <2>2. ASSUME NEW m \in Models
        PROVE  /\ new(m) \in Regs
               /\ new(m).count = lookup(m).count - Times(old, m) + Times(list, m)
               /\ \A q \in Providers : new(m).providers[q] =
                    lookup(m).providers[q] - (IF q = from THEN Times(old, m) ELSE 0) + (IF q = p THEN Times(list, m) ELSE 0)
               /\ old # <<>> /\ Times(old, m) > 0 => ~Marked(new(m), c) /\ ~Suspended(new(m), c)
    <3>1. PICK reg \in Regs : reg = lookup(m) BY <1>0, LookupReg
    <3>2. PICK o \in Nat : o = Times(old, m) BY CountedAtLeast
    <3>3. o <= reg.count /\ (from \in Providers => o <= reg.providers[from]) BY <3>1, <3>2, CountedAtLeast
    <3>4. PICK n \in Nat : n = Times(list, m) BY <2>1, TimesOwn
    <3>5. CASE old # <<>>
      <4>1. PICK b \in Providers : b = from BY <1>0, <3>5 DEF Typed
      <4>2. Reconciled(reg, c, b, p, o, n, reconcile(reg, c, b, p, o, n))
        <5>1. o <= reg.count BY <3>3
        <5>2. o <= reg.providers[b] BY <3>3, <4>1
        <5>. QED BY <5>1, <5>2, ReconcileReg
      <4>3. new(m) = reconcile(reg, c, b, p, o, n) BY <3>1, <3>2, <3>4, <3>5, <4>1
      <4>. QED BY <3>1, <3>2, <3>4, <4>1, <4>2, <4>3 DEF Reconciled
    <3>6. CASE old = <<>>
      <4>1. o = 0 BY <3>2, <3>6, TimesEmpty
      <4>2. LET got == addModelRegistration(reg, p, n)
            IN  /\ got \in Regs /\ got.count = reg.count + n
                /\ got.quota = reg.quota /\ got.suspended = reg.suspended
                /\ \A q \in Providers : got.providers[q] = reg.providers[q] + (IF q = p THEN n ELSE 0)
        BY AddReg
      <4>3. new(m) = addModelRegistration(reg, p, n) BY <3>1, <3>4, <3>6
      <4>4. reg.count \in Nat /\ reg.providers \in [Providers -> Nat] BY RegParts
      <4>. QED BY <3>1, <3>2, <3>4, <3>6, <4>1, <4>2, <4>3, <4>4
    <3>. QED BY <3>5, <3>6
  <2>3. table \in [Models -> Regs] /\ \A m \in Models : table[m] = new(m) BY <2>2
  <2>4. models' = counted(table) BY <1>2 DEF RegisterClient
  <2>5. clientModels' = [clientModels EXCEPT ![c] = list] /\ clientProviders' = [clientProviders EXCEPT ![c] = p]
        /\ now' = now
    BY <1>2 DEF RegisterClient
  <2>6. \A m \in Models :
           /\ table[m].count = lookup(m).count - Times(clientModels[c], m) + Times(list, m)
           /\ \A q \in Providers : table[m].providers[q] =
                lookup(m).providers[q] - (IF q = clientProviders[c] THEN Times(clientModels[c], m) ELSE 0)
                                       + (IF q = p THEN Times(list, m) ELSE 0)
    BY <2>2, <2>3
  <2>7. \A m \in DOMAIN models' : m \in Models /\ models'[m] = table[m]
    <3>1. DOMAIN table = Models OBVIOUS
    <3>. HIDE DEF table
    <3>. QED BY <2>4, <3>1 DEF counted
  <2>8. \A m \in DOMAIN models' : old # <<>> /\ Times(old, m) > 0 => ~Marked(models'[m], c) /\ ~Suspended(models'[m], c)
    BY <2>2, <2>3, <2>7
  <2>. HIDE DEF table
  <2>9. PICK f \in [Models -> Regs] : f = table BY <2>3
  <2>10. models' = counted(f) BY <2>4, <2>9
  <2>11. \A m \in Models :
           /\ f[m].count = lookup(m).count - Times(clientModels[c], m) + Times(list, m)
           /\ \A q \in Providers : f[m].providers[q] =
                lookup(m).providers[q] - (IF q = clientProviders[c] THEN Times(clientModels[c], m) ELSE 0)
                                       + (IF q = p THEN Times(list, m) ELSE 0)
    BY <2>6, <2>9
  <2>12. CInv'
    <3>1. Models \in SUBSET Models /\ list \in Lists \cup {<<>>} /\ p \in Providers \cup {NoProvider} OBVIOUS
    <3>2. \A m \in Models \ Models : lookup(m).count = 0 /\ Times(list, m) = 0 OBVIOUS
    <3>3. Shifted(c, list, p, Models, f) BY <2>11, <3>2 DEF Shifted
    <3>. QED BY <2>5, <2>10, <3>1, <3>3, CountsMove
  <2>. QED BY <2>8, <2>12
<1>. QED BY <1>1, <1>2

\* A step that changes one registration's marks only.
LEMMA OneKept ==
  ASSUME CInv, UNCHANGED <<clientModels, clientProviders, now>>, NEW m \in DOMAIN models,
         NEW r \in Regs, r.count = models[m].count, r.providers = models[m].providers,
         models' = [models EXCEPT ![m] = r]
  PROVE  CInv'
<1>1. DOMAIN models' = DOMAIN models OBVIOUS
<1>2. \A x \in DOMAIN models : models'[x] = IF x = m THEN r ELSE models[x] OBVIOUS
<1>3. \A x \in DOMAIN models : models[x] \in Regs BY DEF CInv, Typed
<1>4. \A x \in DOMAIN models : /\ models'[x] \in Regs /\ models'[x].count = models[x].count
                               /\ models'[x].providers = models[x].providers
  BY <1>2, <1>3
<1>5. now' \in Stamps /\ UNCHANGED <<clientModels, clientProviders>> BY DEF CInv, Typed
<1>. QED BY <1>1, <1>4, <1>5, CountsKept

LEMMA QuotaReg ==
  ASSUME NEW reg \in Regs, NEW q \in Table(Stamps)
  PROVE  LET r == [reg EXCEPT !.quota = q]
         IN  r \in Regs /\ r.count = reg.count /\ r.providers = reg.providers
BY DEF Regs

LEMMA SuspendedReg ==
  ASSUME NEW reg \in Regs, NEW s \in Table(Reasons)
  PROVE  LET r == [reg EXCEPT !.suspended = s]
         IN  r \in Regs /\ r.count = reg.count /\ r.providers = reg.providers
BY DEF Regs

\* The four marks.
Mark(c, m) ==
  \/ SetModelQuotaExceeded(c, m)
  \/ ClearModelQuotaExceeded(c, m)
  \/ \E reason \in Reasons : SuspendClientModel(c, m, reason)
  \/ ResumeClientModel(c, m)

LEMMA CountsMark ==
  ASSUME CInv, NEW c \in Clients, NEW m \in Models, Mark(c, m)
  PROVE  CInv'
<1>1. m \in DOMAIN models /\ UNCHANGED <<clientModels, clientProviders, now>>
  BY DEF Mark, SetModelQuotaExceeded, ClearModelQuotaExceeded, SuspendClientModel, ResumeClientModel, Reported
<1>2. PICK reg \in Regs : reg = models[m] BY <1>1 DEF CInv, Typed
<1>3. reg.quota \in Table(Stamps) /\ reg.suspended \in Table(Reasons) /\ now \in Stamps
  BY RegParts DEF CInv, Typed
<1>4. PICK q \in Table(Stamps) : q = reg.quota BY <1>3
<1>5. PICK s \in Table(Reasons) : s = reg.suspended BY <1>3
<1>6. CASE SetModelQuotaExceeded(c, m)
  <2>1. PICK t \in Table(Stamps) : t = With(q, c, now) BY <1>3, TableWith
  <2>2. PICK r \in Regs : r = [reg EXCEPT !.quota = t] BY QuotaReg
  <2>3. r.count = reg.count /\ r.providers = reg.providers BY <2>2, QuotaReg
  <2>4. models' = [models EXCEPT ![m] = r] BY <1>2, <1>4, <1>6, <2>1, <2>2 DEF SetModelQuotaExceeded
  <2>. QED BY <1>1, <1>2, <2>3, <2>4, OneKept
<1>7. CASE ClearModelQuotaExceeded(c, m)
  <2>1. PICK t \in Table(Stamps) : t = Without(q, c) BY TableWithout
  <2>2. PICK r \in Regs : r = [reg EXCEPT !.quota = t] BY QuotaReg
  <2>3. r.count = reg.count /\ r.providers = reg.providers BY <2>2, QuotaReg
  <2>4. models' = [models EXCEPT ![m] = r] BY <1>2, <1>4, <1>7, <2>1, <2>2 DEF ClearModelQuotaExceeded
  <2>. QED BY <1>1, <1>2, <2>3, <2>4, OneKept
<1>8. CASE \E reason \in Reasons : SuspendClientModel(c, m, reason)
  <2>0. PICK reason \in Reasons : SuspendClientModel(c, m, reason) BY <1>8
  <2>1. PICK t \in Table(Reasons) : t = With(s, c, reason) BY TableWith
  <2>2. PICK r \in Regs : r = [reg EXCEPT !.suspended = t] BY SuspendedReg
  <2>3. r.count = reg.count /\ r.providers = reg.providers BY <2>2, SuspendedReg
  <2>4. models' = [models EXCEPT ![m] = r] BY <1>2, <1>5, <2>0, <2>1, <2>2 DEF SuspendClientModel
  <2>. QED BY <1>1, <1>2, <2>3, <2>4, OneKept
<1>9. CASE ResumeClientModel(c, m)
  <2>1. PICK t \in Table(Reasons) : t = Without(s, c) BY TableWithout
  <2>2. PICK r \in Regs : r = [reg EXCEPT !.suspended = t] BY SuspendedReg
  <2>3. r.count = reg.count /\ r.providers = reg.providers BY <2>2, SuspendedReg
  <2>4. models' = [models EXCEPT ![m] = r] BY <1>2, <1>5, <1>9, <2>1, <2>2 DEF ResumeClientModel
  <2>. QED BY <1>1, <1>2, <2>3, <2>4, OneKept
<1>. QED BY <1>6, <1>7, <1>8, <1>9 DEF Mark

LEMMA CountsCleanup == CInv /\ CleanupExpiredQuotas => CInv'
<1>. SUFFICES ASSUME CInv, CleanupExpiredQuotas PROVE CInv' OBVIOUS
<1>. DEFINE kept(reg) == [reg EXCEPT !.quota = [c \in Exceeded(reg) |-> @[c]]]
<1>1. UNCHANGED <<clientModels, clientProviders, now>> /\ models' = [m \in DOMAIN models |-> kept(models[m])]
  BY DEF CleanupExpiredQuotas
<1>2. ASSUME NEW reg \in Regs
      PROVE  kept(reg) \in Regs /\ kept(reg).count = reg.count /\ kept(reg).providers = reg.providers
  <2>1. PICK q \in Table(Stamps) : q = reg.quota BY RegParts
  <2>2. PICK S \in SUBSET Clients : S = Exceeded(reg) /\ \A c \in S : q[c] \in Stamps
    <3>1. DOMAIN q \subseteq Clients /\ \A c \in DOMAIN q : q[c] \in Stamps BY TableParts
    <3>2. Exceeded(reg) \subseteq DOMAIN q BY <2>1 DEF Exceeded
    <3>. QED BY <3>1, <3>2
  <2>3. [c \in S |-> q[c]] \in [S -> Stamps] BY <2>2
  <2>4. PICK t \in Table(Stamps) : t = [c \in S |-> q[c]] BY <2>3, TableMade
  <2>5. kept(reg) = [reg EXCEPT !.quota = t] BY <2>1, <2>2, <2>4
  <2>. QED BY <2>5, QuotaReg
<1>3. \A m \in DOMAIN models : models[m] \in Regs BY DEF CInv, Typed
<1>4. \A m \in DOMAIN models : /\ models'[m] \in Regs /\ models'[m].count = models[m].count
                               /\ models'[m].providers = models[m].providers
  BY <1>1, <1>2, <1>3
<1>5. DOMAIN models' = DOMAIN models BY <1>1
<1>6. now' \in Stamps BY <1>1 DEF CInv, Typed
<1>. QED BY <1>1, <1>4, <1>5, <1>6, CountsKept

LEMMA CountsStep == CInv /\ [Next]_vars => CInv'
<1>. SUFFICES ASSUME CInv, [Next]_vars PROVE CInv' OBVIOUS
<1>0. \A m \in DOMAIN models : models[m] \in Regs BY DEF CInv, Typed
<1>1. ASSUME NEW c \in Clients, NEW p \in Providers, NEW list \in Lists, RegisterClient(c, p, list) PROVE CInv'
  BY <1>1, CountsRegister
<1>2. ASSUME NEW c \in Clients, UnregisterClient(c) PROVE CInv' BY <1>2, CountsUnregister
<1>3. ASSUME NEW c \in Clients, NEW m \in Models, Mark(c, m) PROVE CInv' BY <1>3, CountsMark
<1>4. CASE GetAvailableModels
  <2>1. models' = models /\ now' \in Stamps /\ UNCHANGED <<clientModels, clientProviders>>
    BY <1>4 DEF GetAvailableModels, CInv, Typed
  <2>. QED BY <1>0, <2>1, CountsKept
<1>5. CASE Tick
  <2>1. models' = models /\ UNCHANGED <<clientModels, clientProviders>> BY <1>5 DEF Tick
  <2>2. now' \in Stamps BY <1>5, RegistryAssumption DEF Tick, CInv, Typed, Stamps
  <2>. QED BY <1>0, <2>1, <2>2, CountsKept
<1>6. CASE UNCHANGED vars
  <2>1. models' = models /\ now' \in Stamps /\ UNCHANGED <<clientModels, clientProviders>>
    BY <1>6 DEF vars, CInv, Typed
  <2>. QED BY <1>0, <2>1, CountsKept
<1>. QED BY <1>1, <1>2, <1>3, <1>4, <1>5, <1>6, CountsCleanup DEF Next, Mark

LEMMA CountsAlways == Spec => []CInv
<1>. QED BY CountsInit, CountsStep, PTL DEF Spec

------------------------------------------------------------------------------
(* What is listed somebody can serve *)

LEMMA AgreeFromSums == CInv => CountsAgree
<1>. SUFFICES ASSUME CInv PROVE CountsAgree OBVIOUS
<1>0. Typed /\ Summed BY DEF CInv
<1>1. TypeOK BY <1>0, RegistrationIs DEF Typed, TypeOK
<1>2. PICK lists \in [Clients -> Seq(Models)] : lists = clientModels BY <1>0, ListsAre DEF Typed
<1>3. \A S, m : Places(S, m) = Spots(lists, S, m) BY <1>2 DEF Places, Spots
<1>4. \A q : Of(q) = ClientsOf(clientProviders, q) BY DEF Of, ClientsOf
<1>5. ASSUME NEW m \in Models
      PROVE  /\ m \in DOMAIN models <=> Places(Clients, m) # {}
             /\ m \in DOMAIN models =>
                  /\ models[m].count = Cardinality(Places(Clients, m))
                  /\ \A p \in Providers : models[m].providers[p] = Cardinality(Places(Of(p), m))
  <2>1. lookup(m).count = Cardinality(Places(Clients, m))
        /\ \A p \in Providers : lookup(m).providers[p] = Cardinality(Places(Of(p), m))
    BY <1>0, <1>2, <1>3, <1>4 DEF Summed
  <2>2. IsFiniteSet(Places(Clients, m)) /\ Cardinality(Places(Clients, m)) \in Nat BY <1>3, SpotsFinite
  <2>3. Cardinality(Places(Clients, m)) = 0 <=> Places(Clients, m) = {} BY <2>2, FS_EmptySet
  <2>4. CASE m \in DOMAIN models
    <3>1. lookup(m) = models[m] /\ models[m].count > 0 BY <1>0, <2>4 DEF lookup, Typed
    <3>2. Cardinality(Places(Clients, m)) > 0 BY <2>1, <3>1
    <3>3. Cardinality(Places(Clients, m)) # 0 BY <2>2, <3>2
    <3>. QED BY <2>1, <2>3, <2>4, <3>1, <3>3
  <2>5. CASE m \notin DOMAIN models
    <3>1. lookup(m) = NewRegistration BY <2>5 DEF lookup
    <3>. QED BY <2>1, <2>3, <2>5, <3>1, NewReg
  <2>. QED BY <2>4, <2>5
<1>. QED BY <1>1, <1>5 DEF CountsAgree

\* Clients that have the model on their list once are as many as its places.
LEMMA PlacesOnce ==
  ASSUME NEW lists \in [Clients -> Seq(Models)], NEW m, \A c \in Clients : ~(Times(lists[c], m) > 1)
  PROVE  LET R == {c \in Clients : Times(lists[c], m) > 0}
         IN  IsFiniteSet(R) /\ Cardinality(Spots(lists, Clients, m)) <= Cardinality(R)
<1>. DEFINE R == {c \in Clients : Times(lists[c], m) > 0}
            at(c) == {i \in DOMAIN lists[c] : lists[c][i] = m}
            P == Spots(lists, Clients, m)
<1>1. IsFiniteSet(R) BY RegistryAssumption, FS_Subset
<1>2. ASSUME NEW c \in R PROVE \E i : at(c) = {i}
  <2>1. PICK list \in Seq(Models) : list = lists[c] OBVIOUS
  <2>2. Times(list, m) \in Nat BY TimesOwn
  <2>3. Times(list, m) = Cardinality(at(c)) BY <2>1 DEF Times
  <2>4. Times(list, m) > 0 /\ ~(Times(list, m) > 1) BY <2>1
  <2>5. Times(list, m) = 1 BY <2>2, <2>4
  <2>6. IsFiniteSet({c} \X at(c)) BY <2>1, TimesOwn
  <2>7. IsFiniteSet(1 .. Len(list)) /\ at(c) \subseteq 1 .. Len(list)
    <3>1. Len(list) \in Nat /\ DOMAIN list = 1 .. Len(list) OBVIOUS
    <3>. QED BY <2>1, <3>1, FS_Interval
  <2>8. IsFiniteSet(at(c)) BY <2>7, FS_Subset
  <2>. QED BY <2>3, <2>5, <2>8, FS_Singleton
<1>3. ASSUME NEW c \in Clients, NEW i \in at(c) PROVE c \in R
  <2>1. PICK list \in Seq(Models) : list = lists[c] OBVIOUS
  <2>2. \E j \in DOMAIN list : list[j] = m BY <2>1
  <2>3. Times(list, m) > 0 BY <2>2, TimesOwn
  <2>. QED BY <2>1, <2>3
<1>4. P = UNION {{c} \X at(c) : c \in Clients} BY DEF Spots
<1>. DEFINE f == [c \in R |-> <<c, CHOOSE i : i \in at(c)>>]
<1>. HIDE DEF at
<1>5. ASSUME NEW c \in R PROVE f[c] \in {c} \X at(c)
  <2>1. PICK i : at(c) = {i} BY <1>2
  <2>2. (CHOOSE x : x \in at(c)) \in at(c) BY <2>1
  <2>3. f[c] = <<c, CHOOSE x : x \in at(c)>> OBVIOUS
  <2>. HIDE DEF f
  <2>. QED BY <2>2, <2>3
<1>6. f \in [R -> P]
  <2>1. \A c \in R : c \in Clients OBVIOUS
  <2>2. \A c \in R : f[c] \in P BY <1>4, <1>5, <2>1
  <2>. QED BY <2>2
<1>7. \A t \in P : \E c \in R : f[c] = t
  <2>. TAKE t \in P
  <2>1. PICK c \in Clients : \E i \in at(c) : t = <<c, i>> BY <1>4
  <2>6. PICK i \in at(c) : t = <<c, i>> BY <2>1
  <2>2. c \in R BY <1>3, <2>6
  <2>3. PICK j : at(c) = {j} BY <1>2, <2>2
  <2>4. (CHOOSE x : x \in at(c)) = i BY <2>6, <2>3
  <2>5. f[c] = t BY <2>6, <2>2, <2>4
  <2>. QED BY <2>2, <2>5
<1>8. f \in Surjection(R, P) BY <1>6, <1>7 DEF Surjection
<1>. HIDE DEF f, P, R
<1>9. Cardinality(P) <= Cardinality(R) BY <1>1, <1>8, FS_Surjection
<1>. QED BY <1>1, <1>9 DEF P, R

LEMMA ServableFromSums == CInv => ListedIsServable
<1>. SUFFICES ASSUME CInv, NEW m \in available,
                     ~ \E c \in Clients : Times(clientModels[c], m) > 1,
                     ~ \E c \in Clients : Registered(c, m) /\ c \notin Stopped(models[m])
              PROVE  FALSE
  BY DEF ListedIsServable
<1>0. Typed /\ Summed BY DEF CInv
<1>1. m \in DOMAIN models /\ m \in Models /\ listed(models[m]) BY <1>0 DEF available, Typed
<1>2. PICK reg \in Regs : reg = models[m] BY <1>0, <1>1 DEF Typed
<1>3. PICK lists \in [Clients -> Seq(Models)] : lists = clientModels BY <1>0, ListsAre DEF Typed
<1>. DEFINE R == {c \in Clients : Times(lists[c], m) > 0}
            S == Stopped(reg)
<1>4. reg.count = Cardinality(Spots(lists, Clients, m)) /\ reg.count \in Nat /\ reg.count > 0
  BY <1>0, <1>1, <1>2, <1>3, RegParts DEF Summed, lookup, Typed
<1>5. IsFiniteSet(R) /\ reg.count <= Cardinality(R)
  <2>1. \A c \in Clients : ~(Times(lists[c], m) > 1) BY <1>3
  <2>. QED BY <1>4, <2>1, PlacesOnce
<1>6. R \subseteq S BY <1>2, <1>3 DEF Registered
<1>7. S \subseteq Clients
  <2>1. PICK t \in Table(Reasons) : t = reg.suspended BY RegParts
  <2>2. DOMAIN t \subseteq Clients BY TableParts
  <2>. QED BY <2>1, <2>2 DEF Stopped
<1>8. IsFiniteSet(S) BY <1>7, RegistryAssumption, FS_Subset
<1>9. Cardinality(R) <= Cardinality(S) /\ Cardinality(S) \in Nat /\ Cardinality(R) \in Nat
  BY <1>5, <1>6, <1>8, FS_Subset, FS_CardinalityType
<1>10. Cardinality(Exceeded(reg)) \in Nat
  <2>1. PICK t \in Table(Stamps) : t = reg.quota BY RegParts
  <2>2. DOMAIN t \subseteq Clients BY TableParts
  <2>3. Exceeded(reg) \subseteq Clients BY <2>1, <2>2 DEF Exceeded
  <2>. QED BY <2>3, RegistryAssumption, FS_Subset, FS_CardinalityType
<1>11. ~(reg.count - Cardinality(Exceeded(reg)) - Cardinality(S) > 0) BY <1>4, <1>5, <1>9, <1>10
<1>12. S # {}
  <2>1. S = {} => Cardinality(S) = 0 BY FS_EmptySet
  <2>2. Cardinality(S) # 0 BY <1>4, <1>5, <1>9
  <2>. QED BY <2>1, <2>2
<1>13. listed(reg) BY <1>1, <1>2
<1>. QED BY <1>11, <1>12, <1>13 DEF listed

\* The counters kept by increments are the sums over the clients' lists after any sequence
\* of registrations, provider changes, repeated models and late results, and a model on the
\* list is offered by a client that no suspension stops (model_registry.go:204-480 and
\* buildAvailableModelsLocked).
THEOREM CountersAreTrue == Spec => []ListsTrue
<1>1. CInv => ListsTrue BY AgreeFromSums, ServableFromSums DEF ListsTrue
<1>. QED BY <1>1, CountsAlways, PTL

------------------------------------------------------------------------------
(* Nothing cached or marked is stale *)

\* A list still in use is the list of now, and it is not used past the end of a quota
\* window that counts now: no window can end before the list does.
Current ==
  /\ cache.expiresAt \in Nat
  /\ Usable(cache) =>
       /\ cache.models = available
       /\ \A m \in DOMAIN models : \A c \in Exceeded(models[m]) :
            cache.expiresAt # ZeroTime /\ cache.expiresAt <= models[m].quota[c] + Window

LEMMA CurrentReset == ASSUME cache' = NoCache PROVE Current'
<1>1. cache'.expiresAt \in Nat /\ cache'.filled = FALSE BY DEF NoCache, ZeroTime
<1>2. ~Usable(cache)' BY <1>1 DEF Usable
<1>. QED BY <1>1, <1>2 DEF Current

LEMMA MinIsLeast ==
  ASSUME NEW S \in SUBSET Nat, S # {}
  PROVE  Min(S) \in S /\ \A y \in S : Min(S) <= y
<1>1. PICK x \in S : \A y \in S : ~(<<y, x>> \in OpToRel(<, Nat)) BY NatLessThanWellFounded, WFMin
<1>2. \A y \in S : ~(y < x) BY <1>1 DEF OpToRel
<1>3. \A y \in S : x =< y BY <1>2
<1>. QED BY <1>3 DEF Min

\* The list just built ends with the first window it counts.
LEMMA CurrentBuilt == ASSUME CInv, GetAvailableModels PROVE Current'
<1>. DEFINE ends == UNION {{models[m].quota[c] + Window : c \in Exceeded(models[m])} : m \in DOMAIN models}
<1>1. ASSUME NEW m \in DOMAIN models, NEW c \in Exceeded(models[m])
      PROVE  models[m].quota[c] + Window \in Nat \ {0}
  <2>1. PICK reg \in Regs : reg = models[m] BY DEF CInv, Typed
  <2>2. PICK q \in Table(Stamps) : q = reg.quota BY RegParts
  <2>3. q[c] \in Stamps BY <2>1, <2>2, TableParts DEF Exceeded
  <2>. QED BY <2>1, <2>2, <2>3, RegistryAssumption DEF Stamps
<1>2. ends \in SUBSET Nat /\ 0 \notin ends BY <1>1
<1>3. expiry = IF ends = {} THEN ZeroTime ELSE Min(ends) BY DEF expiry
<1>4. ASSUME NEW m \in DOMAIN models, NEW c \in Exceeded(models[m])
      PROVE  models[m].quota[c] + Window \in ends
  OBVIOUS
<1>. HIDE DEF ends
<1>5. expiry \in Nat /\ (ends # {} => expiry # ZeroTime /\ \A y \in ends : expiry <= y)
  <2>1. CASE ends = {} BY <1>3, <2>1 DEF ZeroTime
  <2>2. CASE ends # {} BY <1>2, <1>3, <2>2, MinIsLeast DEF ZeroTime
  <2>. QED BY <2>1, <2>2
<1>6. \A m \in DOMAIN models : \A c \in Exceeded(models[m]) :
        expiry # ZeroTime /\ expiry <= models[m].quota[c] + Window
  BY <1>4, <1>5
<1>7. cache' = [filled |-> TRUE, models |-> available, expiresAt |-> expiry] /\ models' = models /\ now' = now
  BY DEF GetAvailableModels
<1>8. cache'.models = available /\ cache'.expiresAt = expiry BY <1>7
<1>9. \A reg : Exceeded(reg)' = Exceeded(reg) BY <1>7 DEF Exceeded
<1>10. available' = available BY <1>7, <1>9 DEF available, listed
<1>11. \A m \in DOMAIN models' : \A c \in Exceeded(models[m])' :
        cache'.expiresAt # ZeroTime /\ cache'.expiresAt <= models'[m].quota[c] + Window
  BY <1>6, <1>7, <1>8 DEF Exceeded
<1>. QED BY <1>5, <1>8, <1>10, <1>11 DEF Current

\* Time passing ends no window a list in use counts.
LEMMA CurrentTick == ASSUME CInv, Current, Tick PROVE Current'
<1>1. models' = models /\ cache' = cache /\ now' = now + 1 /\ now \in Nat
  BY RegistryAssumption DEF Tick, CInv, Typed, Stamps
<1>2. PICK e \in Nat : e = cache.expiresAt BY DEF Current
<1>3. ASSUME Usable(cache)'
      PROVE  /\ cache'.models = available'
             /\ \A m \in DOMAIN models' : \A c \in Exceeded(models[m])' :
                  cache'.expiresAt # ZeroTime /\ cache'.expiresAt <= models'[m].quota[c] + Window
  <2>1. cache.filled /\ (e = ZeroTime \/ now + 1 < e) BY <1>1, <1>2, <1>3 DEF Usable
  <2>2. Usable(cache) BY <1>1, <1>2, <2>1 DEF Usable
  <2>3. cache.models = available
        /\ \A m \in DOMAIN models : \A c \in Exceeded(models[m]) : e # ZeroTime /\ e <= models[m].quota[c] + Window
    BY <1>2, <2>2 DEF Current
  <2>4. ASSUME NEW m \in DOMAIN models PROVE Exceeded(models[m])' = Exceeded(models[m])
    <3>1. PICK reg \in Regs : reg = models[m] BY DEF CInv, Typed
    <3>2. PICK q \in Table(Stamps) : q = reg.quota BY RegParts
    <3>3. \A c \in DOMAIN q : q[c] + Window \in Nat BY TableParts, RegistryAssumption DEF Stamps
    <3>4. Exceeded(models[m]) = {c \in DOMAIN q : now < q[c] + Window} BY <3>1, <3>2 DEF Exceeded
    <3>5. Exceeded(models[m])' = {c \in DOMAIN q : now + 1 < q[c] + Window} BY <1>1, <3>1, <3>2 DEF Exceeded
    <3>6. \A c \in DOMAIN q : now < q[c] + Window => e # ZeroTime /\ e <= q[c] + Window
      BY <2>3, <3>1, <3>2, <3>4
    <3>7. \A c \in DOMAIN q : now < q[c] + Window <=> now + 1 < q[c] + Window
      BY <1>1, <2>1, <3>3, <3>6
    <3>. QED BY <3>4, <3>5, <3>7
  <2>5. available' = available BY <1>1, <2>4 DEF available, listed, Cooling, Stopped
  <2>. QED BY <1>1, <1>2, <2>3, <2>4, <2>5
<1>. QED BY <1>1, <1>2, <1>3 DEF Current

LEMMA CurrentStep == CInv /\ Current /\ [Next]_vars => Current'
<1>. SUFFICES ASSUME CInv, Current, [Next]_vars PROVE Current' OBVIOUS
<1>1. ASSUME NEW c \in Clients, NEW p \in Providers, NEW list \in Lists, RegisterClient(c, p, list) PROVE Current'
  BY <1>1, CurrentReset DEF RegisterClient, UnregisterClient, invalidateAvailableModelsCache
<1>2. ASSUME NEW c \in Clients, UnregisterClient(c) PROVE Current'
  BY <1>2, CurrentReset DEF UnregisterClient, invalidateAvailableModelsCache
<1>3. ASSUME NEW c \in Clients, NEW m \in Models, Mark(c, m) PROVE Current'
  BY <1>3, CurrentReset DEF Mark, SetModelQuotaExceeded, ClearModelQuotaExceeded, SuspendClientModel,
     ResumeClientModel, invalidateAvailableModelsCache
<1>4. CASE CleanupExpiredQuotas BY <1>4, CurrentReset DEF CleanupExpiredQuotas, invalidateAvailableModelsCache
<1>5. CASE GetAvailableModels BY <1>5, CurrentBuilt
<1>6. CASE Tick BY <1>6, CurrentTick
<1>7. CASE UNCHANGED vars
  <2>1. models' = models /\ cache' = cache /\ now' = now BY <1>7 DEF vars
  <2>2. \A reg : Exceeded(reg)' = Exceeded(reg) BY <2>1 DEF Exceeded
  <2>3. available' = available BY <2>1, <2>2 DEF available, listed
  <2>4. Usable(cache)' <=> Usable(cache) BY <2>1 DEF Usable
  <2>5. \A m \in DOMAIN models' : Exceeded(models[m])' = Exceeded(models[m]) BY <2>1 DEF Exceeded
  <2>. QED BY <2>1, <2>3, <2>4, <2>5 DEF Current
<1>. QED BY <1>1, <1>2, <1>3, <1>4, <1>5, <1>6, <1>7 DEF Next, Mark

\* A client that registers again, with marks of models it offered before, loses them.
Remade ==
  \A c \in Clients : clientModels[c] # <<>> /\ clientModels'[c] # <<>>
                     /\ (clientModels[c] # clientModels'[c] \/ clientProviders[c] # clientProviders'[c])
    => \A m \in DOMAIN models' : Registered(c, m) => ~Marked(models'[m], c) /\ ~Suspended(models'[m], c)

LEMMA RemadeStep == CInv /\ [Next]_vars => Remade
<1>. SUFFICES ASSUME CInv, [Next]_vars,
                     NEW c \in Clients, clientModels[c] # <<>>, clientModels'[c] # <<>>,
                     clientModels[c] # clientModels'[c] \/ clientProviders[c] # clientProviders'[c],
                     NEW m \in DOMAIN models', Registered(c, m)
              PROVE  ~Marked(models'[m], c) /\ ~Suspended(models'[m], c)
  BY DEF Remade
<1>0. DOMAIN clientModels = Clients /\ DOMAIN clientProviders = Clients BY DEF CInv, Typed
<1>1. \A d \in Clients : ~UnregisterClient(d)
  <2>. SUFFICES ASSUME NEW d \in Clients, UnregisterClient(d) PROVE FALSE OBVIOUS
  <2>. QED BY <1>0 DEF UnregisterClient
<1>2. \E d \in Clients, p \in Providers, list \in Lists : RegisterClient(d, p, list)
  BY <1>1 DEF Next, vars, SetModelQuotaExceeded, ClearModelQuotaExceeded, SuspendClientModel, ResumeClientModel,
     CleanupExpiredQuotas, GetAvailableModels, Tick
<1>3. PICK d \in Clients, p \in Providers, list \in Lists : RegisterClient(d, p, list) BY <1>2
<1>4. list # <<>> BY <1>1, <1>3 DEF RegisterClient
<1>5. clientModels' = [clientModels EXCEPT ![d] = list] /\ clientProviders' = [clientProviders EXCEPT ![d] = p]
  BY <1>3, <1>4 DEF RegisterClient
<1>6. d = c BY <1>0, <1>5
<1>7. Times(clientModels[d], m) > 0 BY <1>6 DEF Registered
<1>8. clientModels[d] # <<>> BY <1>6
<1>9. \A x \in DOMAIN models' : Times(clientModels[d], x) > 0 => ~Marked(models'[x], d) /\ ~Suspended(models'[x], d)
  BY <1>3, <1>4, <1>8, CountsRegister
<1>. QED BY <1>6, <1>7, <1>9

\* The cached list is always the list that would be built, and a client that registers
\* again has none of its marks (model_registry.go:752-842 and the reconciliation of
\* RegisterClient).
THEOREM CacheIsFresh == Spec => NothingStale
<1>1. Init => Current BY DEF Init, Current, NoCache, Usable, ZeroTime
<1>2. CInv /\ Current => CacheFresh BY DEF Current, CacheFresh
<1>3. CInv /\ [Next]_vars => [Remade]_vars BY RemadeStep
<1>4. Spec => []CacheFresh BY <1>1, <1>2, CountsAlways, CurrentStep, PTL DEF Spec
<1>5. Spec => [][Remade]_vars BY <1>3, CountsAlways, PTL DEF Spec
<1>. QED BY <1>4, <1>5 DEF NothingStale, FreshOnReconcile, Remade

=============================================================================
