-------------------------- MODULE Translation_proofs --------------------------
(***************************************************************************)
(* TLAPS proofs about what MCTranslation composes.                         *)
(*   - SignatureCache, for any goroutines, texts, signatures and buckets   *)
(*     that satisfy CacheAssumption: the bucket in the cache differs from  *)
(*     what it was given only by what had expired (Remembered), and what a *)
(*     lookup under way can find was valid when it began or came since     *)
(*     (Observed).                                                         *)
(*   - Executor, for any executors of StepsOf, retries and bounds: what is *)
(*     recorded of a request (Recorded), and how many answers there were   *)
(*     when the next base URL is asked (Asked).                            *)
(***************************************************************************)
EXTENDS MCTranslation, TLAPS

------------------------------------------------------------------------------
(* SignatureCache *)

Stores == [pc : {"store"}, bucket : made, text : Texts, sig : Signatures]

Lookups == [pc : {"read"}, bucket : made, text : Texts, since : 0..now,
            was : Cache!Entry, seen : SUBSET (Signatures \cup {"none"})]

Cleaners == [pc : {"idle", "range", "sweep", "drop"}, bucket : made \cup {0}, at : 0..now]

CacheTypes ==
  /\ now \in Nat /\ made \subseteq Buckets /\ current \in made \cup {0}
  /\ entries \in [Buckets -> [Texts -> Cache!Entry]]
  /\ known \in [Texts -> Cache!Entry]
  /\ \A b \in Buckets \ made : entries[b] = Cache!NoEntry
  /\ writer \in [Writers -> {Cache!IdleWriter} \cup Stores]
  /\ reader \in [Readers -> {Cache!IdleReader} \cup Lookups]
  /\ cleaner \in Cleaners
  /\ cleaner.pc = "sweep" => cleaner.bucket # 0

\* The bucket in the cache holds what it was given, or has lost what had expired.
Remembered ==
  /\ current = 0 => known = Cache!NoEntry
  /\ current # 0 => \A t \in Texts :
       \/ entries[current][t] = known[t]
       \/ entries[current][t] = Cache!Nothing /\ ~Cache!Live(known[t], now)

\* What a lookup can find was valid when it began or came since.
Observed ==
  \A r \in Readers : reader[r].pc = "read" =>
    \/ ~Cache!Live(entries[reader[r].bucket][reader[r].text], reader[r].since)
    \/ entries[reader[r].bucket][reader[r].text].sig \in reader[r].seen

CacheInv == CacheTypes /\ Remembered /\ Observed

\* An entry that is not valid does not become so with time.
LEMMA ExpiredStays ==
  ASSUME Cache!CacheAssumption, NEW e \in Cache!Entry, NEW i \in Nat, NEW j \in Nat, i <= j,
         ~Cache!Live(e, i)
  PROVE  ~Cache!Live(e, j)
  BY DEF Cache!CacheAssumption, Cache!Live, Cache!Expired, Cache!Entry, Cache!Nothing

\* The bucket that holds nothing.
LEMMA NoEntryType ==
  /\ Cache!Nothing \in Cache!Entry
  /\ Cache!NoEntry \in [Texts -> Cache!Entry]
  /\ \A t \in Texts : Cache!NoEntry[t] = Cache!Nothing
  /\ \A time : ~Cache!Live(Cache!Nothing, time)
  BY DEF Cache!Nothing, Cache!NoEntry, Cache!Entry, Cache!Live

\* A lookup that runs has a bucket that was made, and began in the past.
LEMMA Reading ==
  ASSUME CacheTypes, NEW r \in Readers, reader[r].pc = "read"
  PROVE  /\ reader[r].bucket \in Buckets /\ reader[r].bucket \in made
         /\ reader[r].text \in Texts /\ reader[r].since \in 0..now
         /\ entries[reader[r].bucket][reader[r].text] \in Cache!Entry
<1>1. reader[r] \in Lookups BY DEF CacheTypes, Cache!IdleReader
<1>. QED BY <1>1 DEF CacheTypes, Lookups

LEMMA CacheStarts ==
  ASSUME Cache!CacheAssumption, Cache!Init
  PROVE  CacheInv
<1>1. CacheTypes
  BY NoEntryType DEF Cache!Init, CacheTypes, Cleaners, Cache!IdleCleaner
<1>2. Remembered /\ Observed
  BY DEF Cache!Init, Remembered, Observed, Cache!IdleReader
<1>. QED BY <1>1, <1>2 DEF CacheInv

\* The types after a step, with the constants written out.
LEMMA TypesAfter ==
  ASSUME now' \in Nat /\ made' \subseteq Buckets /\ current' \in made' \cup {0},
         entries' \in [Buckets -> [Texts -> Cache!Entry]],
         known' \in [Texts -> Cache!Entry],
         \A b \in Buckets \ made' : entries'[b] = Cache!NoEntry,
         writer' \in [Writers -> {Cache!IdleWriter} \cup Stores'],
         reader' \in [Readers -> {Cache!IdleReader} \cup Lookups'],
         cleaner' \in Cleaners', cleaner'.pc = "sweep" => cleaner'.bucket # 0
  PROVE  CacheTypes'
  BY DEF CacheTypes, Cache!Entry, Cache!Nothing, Cache!NoEntry, Cache!IdleWriter, Cache!IdleReader

\* Lookups notice what is stored: each stays what it was, but for what it has seen.
LEMMA NoticedFacts ==
  ASSUME CacheTypes, NEW t \in Texts, NEW sig \in Signatures \cup {"none"}
  PROVE  /\ Cache!Noticed(t, sig) \in [Readers -> {Cache!IdleReader} \cup Lookups]
         /\ \A r \in Readers :
              LET n == Cache!Noticed(t, sig)[r] IN
              /\ n.pc = "read" <=> reader[r].pc = "read"
              /\ reader[r].pc = "read" =>
                   /\ n.bucket = reader[r].bucket /\ n.text = reader[r].text
                   /\ n.since = reader[r].since
                   /\ reader[r].seen \subseteq n.seen
                   /\ reader[r].text = t => sig \in n.seen
<1>1. ASSUME NEW r \in Readers
      PROVE  LET n == Cache!Noticed(t, sig)[r] IN
             /\ n \in {Cache!IdleReader} \cup Lookups
             /\ n.pc = "read" <=> reader[r].pc = "read"
             /\ reader[r].pc = "read" =>
                  /\ n.bucket = reader[r].bucket /\ n.text = reader[r].text
                  /\ n.since = reader[r].since
                  /\ reader[r].seen \subseteq n.seen
                  /\ reader[r].text = t => sig \in n.seen
  <2>1. reader[r] \in {Cache!IdleReader} \cup Lookups BY DEF CacheTypes
  <2>2. CASE reader[r].pc = "read" /\ reader[r].text = t
    <3>1. reader[r] \in Lookups BY <2>1, <2>2 DEF Cache!IdleReader
    <3>2. Cache!Noticed(t, sig)[r] = [reader[r] EXCEPT !.seen = @ \cup {sig}]
      BY <2>2 DEF Cache!Noticed
    <3>. QED BY <2>2, <3>1, <3>2 DEF Lookups
  <2>3. CASE ~(reader[r].pc = "read" /\ reader[r].text = t)
    <3>1. Cache!Noticed(t, sig)[r] = reader[r] BY <2>3 DEF Cache!Noticed
    <3>. QED BY <2>1, <2>3, <3>1
  <2>. QED BY <2>2, <2>3
<1>. QED BY <1>1 DEF Cache!Noticed

LEMMA GetOrCreateStep ==
  ASSUME Cache!CacheAssumption, CacheInv,
         NEW w \in Writers, NEW t \in Texts, NEW s \in Signatures, Cache!GetOrCreate(w, t, s)
  PROVE  CacheInv'
<1>1. PICK b \in IF current # 0 THEN {current} ELSE Buckets \ made :
        /\ current' = b /\ made' = made \cup {b}
        /\ writer' = [writer EXCEPT ![w] = [pc |-> "store", bucket |-> b, text |-> t, sig |-> s]]
  BY DEF Cache!GetOrCreate
<1>2. UNCHANGED <<now, entries, reader, cleaner, known>> BY DEF Cache!GetOrCreate
<1>3. b \in Buckets /\ b # 0
  BY <1>1 DEF CacheInv, CacheTypes, Cache!CacheAssumption
<1>4. CacheTypes'
  <2>1. writer' \in [Writers -> {Cache!IdleWriter} \cup Stores']
    BY <1>1, <1>2, <1>3 DEF CacheInv, CacheTypes, Stores
  <2>2. reader' \in [Readers -> {Cache!IdleReader} \cup Lookups']
    BY <1>1, <1>2 DEF CacheInv, CacheTypes, Lookups
  <2>3. cleaner' \in Cleaners' /\ (cleaner'.pc = "sweep" => cleaner'.bucket # 0)
    BY <1>1, <1>2 DEF CacheInv, CacheTypes, Cleaners
  <2>. QED BY <1>1, <1>2, <1>3, <2>1, <2>2, <2>3, TypesAfter DEF CacheInv, CacheTypes
<1>5. Remembered'
  <2>1. CASE current # 0 BY <1>1, <1>2, <2>1 DEF CacheInv, Remembered
  <2>2. CASE current = 0
    BY <1>1, <1>2, <1>3, <2>2 DEF CacheInv, Remembered, CacheTypes
  <2>. QED BY <2>1, <2>2
<1>6. Observed' BY <1>2 DEF CacheInv, Observed
<1>. QED BY <1>4, <1>5, <1>6 DEF CacheInv

\* Writing entry e of a text into a bucket, which lookups under way notice.
LEMMA Writes ==
  ASSUME Cache!CacheAssumption, CacheInv, UNCHANGED <<now, current, made, cleaner>>,
         NEW b \in made, NEW t \in Texts, NEW e \in Cache!Entry,
         entries' = [entries EXCEPT ![b][t] = e],
         known' = IF b = current THEN [known EXCEPT ![t] = e] ELSE known,
         \A r \in Readers : reader'[r] = Cache!Noticed(t, e.sig)[r] \/ reader'[r] = Cache!IdleReader
  PROVE  /\ entries' \in [Buckets -> [Texts -> Cache!Entry]]
         /\ known' \in [Texts -> Cache!Entry]
         /\ \A c \in Buckets \ made : entries'[c] = Cache!NoEntry
         /\ Remembered' /\ Observed'
<1>1. e.sig \in Signatures \cup {"none"} BY DEF Cache!Entry, Cache!Nothing
<1>2. b \in Buckets /\ b # 0 BY DEF CacheInv, CacheTypes, Cache!CacheAssumption
<1>3. /\ entries' \in [Buckets -> [Texts -> Cache!Entry]]
      /\ entries'[b][t] = e
      /\ \A c \in Buckets, u \in Texts : c # b \/ u # t => entries'[c][u] = entries[c][u]
      /\ \A c \in Buckets : c # b => entries'[c] = entries[c]
  BY <1>2 DEF CacheInv, CacheTypes
<1>4. known' \in [Texts -> Cache!Entry] BY DEF CacheInv, CacheTypes
<1>5. \A c \in Buckets \ made : entries'[c] = Cache!NoEntry
  BY <1>3 DEF CacheInv, CacheTypes
<1>6. Remembered'
  <2>1. CASE b = current
    BY <1>2, <1>3, <2>1 DEF CacheInv, CacheTypes, Remembered
  <2>2. CASE b # current
    BY <1>2, <1>3, <2>2 DEF CacheInv, CacheTypes, Remembered
  <2>. QED BY <2>1, <2>2
<1>7. Observed'
  <2>1. SUFFICES ASSUME NEW r \in Readers, reader'[r].pc = "read"
                 PROVE  \/ ~Cache!Live(entries'[reader'[r].bucket][reader'[r].text], reader'[r].since)
                        \/ entries'[reader'[r].bucket][reader'[r].text].sig \in reader'[r].seen
    BY DEF Observed, Cache!Live, Cache!Expired
  <2>2. reader'[r] = Cache!Noticed(t, e.sig)[r] BY <2>1 DEF Cache!IdleReader
  <2>3. /\ reader[r].pc = "read"
        /\ reader'[r].bucket = reader[r].bucket /\ reader'[r].text = reader[r].text
        /\ reader'[r].since = reader[r].since
        /\ reader[r].seen \subseteq reader'[r].seen
        /\ reader[r].text = t => e.sig \in reader'[r].seen
    BY <1>1, <2>1, <2>2, NoticedFacts DEF CacheInv
  <2>4. reader[r].bucket \in Buckets /\ reader[r].text \in Texts
    BY <2>3, Reading DEF CacheInv
  <2>5. CASE reader[r].bucket = b /\ reader[r].text = t
    BY <1>3, <2>3, <2>5
  <2>6. CASE ~(reader[r].bucket = b /\ reader[r].text = t)
    BY <1>3, <2>3, <2>4, <2>6 DEF CacheInv, Observed
  <2>. QED BY <2>5, <2>6
<1>. QED BY <1>3, <1>4, <1>5, <1>6, <1>7

LEMMA StoreStep ==
  ASSUME Cache!CacheAssumption, CacheInv, NEW w \in Writers, Cache!Store(w)
  PROVE  CacheInv'
<1>. DEFINE b == writer[w].bucket
            t == writer[w].text
            e == [sig |-> writer[w].sig, at |-> now]
<1>1. writer[w] \in Stores
  BY DEF CacheInv, CacheTypes, Cache!Store, Cache!IdleWriter
<1>2. b \in made /\ t \in Texts /\ e \in Cache!Entry
  BY <1>1 DEF Stores, CacheInv, CacheTypes, Cache!Entry
<1>3. /\ entries' = [entries EXCEPT ![b][t] = e]
      /\ known' = IF b = current THEN [known EXCEPT ![t] = e] ELSE known
      /\ reader' = Cache!Noticed(t, e.sig)
      /\ writer' = [writer EXCEPT ![w] = Cache!IdleWriter]
      /\ UNCHANGED <<now, current, made, cleaner>>
  BY DEF Cache!Store
<1>. HIDE DEF b, t, e
<1>4. /\ entries' \in [Buckets -> [Texts -> Cache!Entry]]
      /\ known' \in [Texts -> Cache!Entry]
      /\ \A c \in Buckets \ made : entries'[c] = Cache!NoEntry
      /\ Remembered' /\ Observed'
  BY <1>2, <1>3, Writes
<1>5. e.sig \in Signatures \cup {"none"} BY <1>2 DEF Cache!Entry, Cache!Nothing
<1>6. CacheTypes'
  <2>1. reader' \in [Readers -> {Cache!IdleReader} \cup Lookups']
    BY <1>2, <1>3, <1>5, NoticedFacts DEF CacheInv, Lookups
  <2>2. writer' \in [Writers -> {Cache!IdleWriter} \cup Stores']
    BY <1>3 DEF CacheInv, CacheTypes, Stores
  <2>3. cleaner' \in Cleaners' /\ (cleaner'.pc = "sweep" => cleaner'.bucket # 0)
    BY <1>3 DEF CacheInv, CacheTypes, Cleaners
  <2>. QED BY <1>3, <1>4, <2>1, <2>2, <2>3, TypesAfter DEF CacheInv, CacheTypes
<1>. QED BY <1>4, <1>6 DEF CacheInv

LEMMA LoadStep ==
  ASSUME Cache!CacheAssumption, CacheInv, NEW r \in Readers, NEW t \in Texts, Cache!Load(r, t)
  PROVE  CacheInv'
<1>. DEFINE new == [pc |-> "read", bucket |-> current, text |-> t, since |-> now,
                    was |-> known[t],
                    seen |-> IF Cache!Live(known[t], now) THEN {known[t].sig} ELSE {}]
<1>1. /\ reader' = [reader EXCEPT ![r] = new] /\ current # 0
      /\ UNCHANGED <<now, current, entries, made, writer, cleaner, known>>
  BY DEF Cache!Load
<1>2. known[t] \in Cache!Entry /\ known[t].sig \in Signatures \cup {"none"}
  BY DEF CacheInv, CacheTypes, Cache!Entry, Cache!Nothing
<1>3. new \in Lookups
  BY <1>1, <1>2 DEF CacheInv, CacheTypes, Lookups
<1>4. CacheTypes'
  <2>1. reader' \in [Readers -> {Cache!IdleReader} \cup Lookups']
    BY <1>1, <1>3 DEF CacheInv, CacheTypes, Lookups
  <2>2. writer' \in [Writers -> {Cache!IdleWriter} \cup Stores']
    BY <1>1 DEF CacheInv, CacheTypes, Stores
  <2>3. cleaner' \in Cleaners' /\ (cleaner'.pc = "sweep" => cleaner'.bucket # 0)
    BY <1>1 DEF CacheInv, CacheTypes, Cleaners
  <2>. QED BY <1>1, <2>1, <2>2, <2>3, TypesAfter DEF CacheInv, CacheTypes
<1>5. Remembered' BY <1>1 DEF CacheInv, Remembered, Cache!Live, Cache!Expired
<1>6. \/ ~Cache!Live(entries[current][t], now)
      \/ entries[current][t].sig \in new.seen
  BY <1>1, NoEntryType DEF CacheInv, Remembered
<1>7. Observed'
  BY <1>1, <1>6 DEF CacheInv, CacheTypes, Observed
<1>. QED BY <1>4, <1>5, <1>7 DEF CacheInv

\* Removing from a bucket what is not valid leaves what is remembered and observed.
LEMMA Removes ==
  ASSUME Cache!CacheAssumption, CacheInv, UNCHANGED <<now, current, made, known>>,
         NEW time \in 0..now, entries' \in [Buckets -> [Texts -> Cache!Entry]],
         \A b \in Buckets, t \in Texts :
           \/ entries'[b][t] = entries[b][t]
           \/ entries'[b][t] = Cache!Nothing /\ ~Cache!Live(entries[b][t], time),
         \A r \in Readers : reader'[r] = reader[r] \/ reader'[r] = Cache!IdleReader
  PROVE  /\ \A c \in Buckets \ made : entries'[c] = Cache!NoEntry
         /\ Remembered' /\ Observed'
<1>1. \A c \in Buckets \ made : entries'[c] = Cache!NoEntry
  <2>1. SUFFICES ASSUME NEW c \in Buckets \ made PROVE entries'[c] = Cache!NoEntry
    OBVIOUS
  <2>2. \A t \in Texts : entries[c][t] = Cache!Nothing
    BY NoEntryType DEF CacheInv, CacheTypes
  <2>3. \A t \in Texts : entries'[c][t] = Cache!Nothing BY <2>2
  <2>. QED BY <2>3 DEF Cache!NoEntry
<1>2. Remembered'
  <2>1. CASE current = 0 BY <2>1 DEF CacheInv, Remembered
  <2>2. CASE current # 0
    <3>1. SUFFICES ASSUME NEW t \in Texts
                   PROVE  \/ entries'[current][t] = known[t]
                          \/ entries'[current][t] = Cache!Nothing /\ ~Cache!Live(known[t], now)
      BY <2>2 DEF Remembered, Cache!Live, Cache!Expired
    <3>2. current \in Buckets /\ known[t] \in Cache!Entry /\ now \in Nat /\ time \in Nat
      BY <2>2 DEF CacheInv, CacheTypes
    <3>3. \/ entries[current][t] = known[t]
          \/ entries[current][t] = Cache!Nothing /\ ~Cache!Live(known[t], now)
      BY <2>2 DEF CacheInv, Remembered
    <3>4. CASE entries'[current][t] = entries[current][t] BY <3>3, <3>4
    <3>5. CASE entries'[current][t] = Cache!Nothing /\ ~Cache!Live(entries[current][t], time)
      <4>1. CASE entries[current][t] = known[t]
        BY <3>2, <3>5, <4>1, ExpiredStays
      <4>. QED BY <3>3, <3>5, <4>1
    <3>. QED BY <3>2, <3>4, <3>5
  <2>. QED BY <2>1, <2>2
<1>3. Observed'
  <2>1. SUFFICES ASSUME NEW r \in Readers, reader'[r].pc = "read"
                 PROVE  \/ ~Cache!Live(entries'[reader'[r].bucket][reader'[r].text], reader'[r].since)
                        \/ entries'[reader'[r].bucket][reader'[r].text].sig \in reader'[r].seen
    BY DEF Observed, Cache!Live, Cache!Expired
  <2>2. reader'[r] = reader[r] BY <2>1 DEF Cache!IdleReader
  <2>3. reader[r].bucket \in Buckets /\ reader[r].text \in Texts
    BY <2>1, <2>2, Reading DEF CacheInv
  <2>. QED BY <2>1, <2>2, <2>3, NoEntryType DEF CacheInv, Observed
<1>. QED BY <1>1, <1>2, <1>3

LEMMA LookupStep ==
  ASSUME Cache!CacheAssumption, CacheInv, NEW r \in Readers, Cache!Lookup(r)
  PROVE  CacheInv'
<1>. DEFINE b == reader[r].bucket
            t == reader[r].text
<1>1. PICK time \in reader[r].since..now : Cache!Found(r, time) \/ Cache!Missing(r, time)
  BY DEF Cache!Lookup
<1>2. /\ b \in Buckets /\ b \in made /\ t \in Texts /\ reader[r].since \in 0..now
      /\ entries[b][t] \in Cache!Entry
  BY Reading DEF CacheInv, Cache!Lookup
<1>3. time \in 0..now /\ time \in Nat BY <1>1, <1>2 DEF CacheInv, CacheTypes
<1>4. UNCHANGED <<now, current, made, writer, cleaner>>
  BY <1>1 DEF Cache!Found, Cache!Missing
<1>5. writer' \in [Writers -> {Cache!IdleWriter} \cup Stores']
  BY <1>4 DEF CacheInv, CacheTypes, Stores
<1>6. cleaner' \in Cleaners' /\ (cleaner'.pc = "sweep" => cleaner'.bucket # 0)
  BY <1>4 DEF CacheInv, CacheTypes, Cleaners
<1>7. CASE Cache!Found(r, time)
  <2>. DEFINE e == [entries[b][t] EXCEPT !.at = time]
  <2>1. e \in Cache!Entry /\ e.sig \in Signatures \cup {"none"}
    <3>1. entries[b][t] # Cache!Nothing BY <1>7 DEF Cache!Found, Cache!Live
    <3>. QED BY <1>2, <1>3, <3>1 DEF Cache!Entry
  <2>2. /\ entries' = [entries EXCEPT ![b][t] = e]
        /\ known' = IF b = current THEN [known EXCEPT ![t] = e] ELSE known
        /\ reader' = [Cache!Noticed(t, e.sig) EXCEPT ![r] = Cache!IdleReader]
    BY <1>7 DEF Cache!Found
  <2>. HIDE DEF b, t, e
  <2>3. Cache!Noticed(t, e.sig) \in [Readers -> {Cache!IdleReader} \cup Lookups]
    BY <1>2, <2>1, NoticedFacts DEF CacheInv
  <2>4. /\ reader' \in [Readers -> {Cache!IdleReader} \cup Lookups]
        /\ \A q \in Readers : \/ reader'[q] = Cache!Noticed(t, e.sig)[q]
                              \/ reader'[q] = Cache!IdleReader
    BY <2>2, <2>3
  <2>5. /\ entries' \in [Buckets -> [Texts -> Cache!Entry]]
        /\ known' \in [Texts -> Cache!Entry]
        /\ \A c \in Buckets \ made : entries'[c] = Cache!NoEntry
        /\ Remembered' /\ Observed'
    BY <1>2, <1>4, <2>1, <2>2, <2>4, Writes
  <2>6. reader' \in [Readers -> {Cache!IdleReader} \cup Lookups']
    BY <1>4, <2>4 DEF Lookups
  <2>. QED BY <1>4, <1>5, <1>6, <2>5, <2>6, TypesAfter DEF CacheInv, CacheTypes
<1>8. CASE Cache!Missing(r, time)
  <2>1. /\ ~Cache!Live(entries[b][t], time)
        /\ entries' = [entries EXCEPT ![b][t] = Cache!Nothing]
        /\ reader' = [reader EXCEPT ![r] = Cache!IdleReader]
        /\ known' = known
    BY <1>8 DEF Cache!Missing
  <2>. HIDE DEF b, t
  <2>2. /\ entries' \in [Buckets -> [Texts -> Cache!Entry]]
        /\ \A c \in Buckets, u \in Texts :
             \/ entries'[c][u] = entries[c][u]
             \/ entries'[c][u] = Cache!Nothing /\ ~Cache!Live(entries[c][u], time)
    BY <1>2, <2>1, NoEntryType DEF CacheInv, CacheTypes
  <2>3. /\ reader' \in [Readers -> {Cache!IdleReader} \cup Lookups']
        /\ \A q \in Readers : reader'[q] = reader[q] \/ reader'[q] = Cache!IdleReader
    BY <1>4, <2>1 DEF CacheInv, CacheTypes, Lookups
  <2>4. /\ \A c \in Buckets \ made : entries'[c] = Cache!NoEntry
        /\ Remembered' /\ Observed'
    BY <1>3, <1>4, <2>1, <2>2, <2>3, Removes
  <2>. QED BY <1>4, <1>5, <1>6, <2>1, <2>2, <2>3, <2>4, TypesAfter DEF CacheInv, CacheTypes
<1>. QED BY <1>1, <1>7, <1>8

\* Dropping the bucket from the cache: what it was given is gone with it.
LEMMA DropsBucket ==
  ASSUME CacheInv, Cache!Clear \/ Cache!Drop
  PROVE  CacheInv'
<1>1. /\ current' = 0 /\ known' = Cache!NoEntry
      /\ UNCHANGED <<now, entries, made, writer, reader>>
      /\ cleaner' = cleaner \/ cleaner' = Cache!IdleCleaner
  BY DEF Cache!Clear, Cache!Drop
<1>2. CacheTypes'
  <2>1. /\ writer' \in [Writers -> {Cache!IdleWriter} \cup Stores']
        /\ reader' \in [Readers -> {Cache!IdleReader} \cup Lookups']
    BY <1>1 DEF CacheInv, CacheTypes, Stores, Lookups
  <2>2. cleaner' \in Cleaners' /\ (cleaner'.pc = "sweep" => cleaner'.bucket # 0)
    BY <1>1 DEF CacheInv, CacheTypes, Cleaners, Cache!IdleCleaner
  <2>. QED BY <1>1, <2>1, <2>2, NoEntryType, TypesAfter DEF CacheInv, CacheTypes
<1>3. Remembered' BY <1>1 DEF Remembered
<1>4. Observed' BY <1>1 DEF CacheInv, Observed, Cache!Live, Cache!Expired
<1>. QED BY <1>2, <1>3, <1>4 DEF CacheInv

LEMMA PurgeSteps ==
  ASSUME Cache!CacheAssumption, CacheInv, Cache!Purge \/ Cache!Visit
  PROVE  CacheInv'
<1>1. UNCHANGED <<now, current, entries, made, writer, reader, known>>
  BY DEF Cache!Purge, Cache!Visit
<1>2. cleaner' \in Cleaners' /\ (cleaner'.pc = "sweep" => cleaner'.bucket # 0)
  <2>. Cleaners' = Cleaners /\ now \in Nat BY <1>1 DEF Cleaners, CacheInv, CacheTypes
  <2>1. CASE Cache!Purge BY <2>1 DEF Cleaners, Cache!Purge
  <2>2. CASE Cache!Visit /\ current = 0 BY <2>2 DEF Cleaners, Cache!Visit, Cache!IdleCleaner
  <2>3. CASE Cache!Visit /\ current # 0
    <3>1. cleaner' = [cleaner EXCEPT !.pc = "sweep", !.bucket = current]
      BY <2>3 DEF Cache!Visit
    <3>. QED BY <2>3, <3>1 DEF CacheInv, CacheTypes, Cleaners
  <2>. QED BY <2>1, <2>2, <2>3
<1>3. CacheTypes'
  <2>1. /\ writer' \in [Writers -> {Cache!IdleWriter} \cup Stores']
        /\ reader' \in [Readers -> {Cache!IdleReader} \cup Lookups']
    BY <1>1 DEF CacheInv, CacheTypes, Stores, Lookups
  <2>. QED BY <1>1, <1>2, <2>1, TypesAfter DEF CacheInv, CacheTypes
<1>4. Remembered' BY <1>1 DEF CacheInv, Remembered, Cache!Live, Cache!Expired
<1>5. Observed' BY <1>1 DEF CacheInv, Observed, Cache!Live, Cache!Expired
<1>. QED BY <1>3, <1>4, <1>5 DEF CacheInv

LEMMA SweepStep ==
  ASSUME Cache!CacheAssumption, CacheInv, Cache!Sweep
  PROVE  CacheInv'
<1>. DEFINE b == cleaner.bucket
<1>1. /\ UNCHANGED <<now, current, made, writer, reader, known>>
      /\ entries' = [entries EXCEPT ![b] = Cache!Swept(b)]
      /\ cleaner.pc = "sweep"
  BY DEF Cache!Sweep
<1>2. b \in made /\ b \in Buckets /\ cleaner.at \in 0..now
  BY <1>1 DEF CacheInv, CacheTypes, Cleaners
<1>3. /\ Cache!Swept(b) \in [Texts -> Cache!Entry]
      /\ \A t \in Texts : \/ Cache!Swept(b)[t] = entries[b][t]
                          \/ Cache!Swept(b)[t] = Cache!Nothing /\ ~Cache!Live(entries[b][t], cleaner.at)
  BY <1>2, NoEntryType DEF Cache!Swept, CacheInv, CacheTypes
<1>4. /\ entries' \in [Buckets -> [Texts -> Cache!Entry]]
      /\ \A c \in Buckets, t \in Texts :
           \/ entries'[c][t] = entries[c][t]
           \/ entries'[c][t] = Cache!Nothing /\ ~Cache!Live(entries[c][t], cleaner.at)
  BY <1>1, <1>2, <1>3 DEF CacheInv, CacheTypes
<1>5. /\ \A c \in Buckets \ made : entries'[c] = Cache!NoEntry
      /\ Remembered' /\ Observed'
  BY <1>1, <1>2, <1>4, Removes
<1>6. cleaner' \in Cleaners' /\ (cleaner'.pc = "sweep" => cleaner'.bucket # 0)
  <2>. Cleaners' = Cleaners /\ now \in Nat BY <1>1 DEF Cleaners, CacheInv, CacheTypes
  <2>1. CASE cleaner' = [cleaner EXCEPT !.pc = "drop", !.at = 0]
    <3>1. cleaner \in Cleaners BY DEF CacheInv, CacheTypes
    <3>2. cleaner' = [pc |-> "drop", bucket |-> cleaner.bucket, at |-> 0]
      BY <2>1, <3>1 DEF Cleaners
    <3>. QED BY <1>1, <3>1, <3>2 DEF Cleaners
  <2>2. CASE cleaner' = Cache!IdleCleaner
    BY <1>1, <2>2 DEF Cleaners, Cache!IdleCleaner
  <2>. QED BY <2>1, <2>2 DEF Cache!Sweep
<1>7. CacheTypes'
  <2>1. /\ writer' \in [Writers -> {Cache!IdleWriter} \cup Stores']
        /\ reader' \in [Readers -> {Cache!IdleReader} \cup Lookups']
    BY <1>1 DEF CacheInv, CacheTypes, Stores, Lookups
  <2>. QED BY <1>1, <1>4, <1>5, <1>6, <2>1, TypesAfter DEF CacheInv, CacheTypes
<1>. QED BY <1>5, <1>7 DEF CacheInv

LEMMA CacheTickStep ==
  ASSUME Cache!CacheAssumption, CacheInv, Cache!Tick
  PROVE  CacheInv'
<1>1. /\ now' = now + 1 /\ now \in Nat
      /\ UNCHANGED <<current, entries, made, writer, reader, cleaner, known>>
  BY DEF Cache!Tick, CacheInv, CacheTypes
<1>2. 0..now \subseteq 0..now' /\ now' \in Nat BY <1>1
<1>3. CacheTypes'
  <2>1. /\ writer' \in [Writers -> {Cache!IdleWriter} \cup Stores']
        /\ reader' \in [Readers -> {Cache!IdleReader} \cup Lookups']
        /\ cleaner' \in Cleaners'
    BY <1>1, <1>2 DEF CacheInv, CacheTypes, Stores, Lookups, Cleaners
  <2>. QED BY <1>1, <1>2, <2>1, TypesAfter DEF CacheInv, CacheTypes
<1>4. Remembered'
  <2>1. \A t \in Texts : ~Cache!Live(known[t], now) => ~Cache!Live(known[t], now')
    BY <1>1, <1>2, ExpiredStays DEF CacheInv, CacheTypes
  <2>. QED BY <1>1, <2>1 DEF CacheInv, Remembered
<1>5. Observed' BY <1>1 DEF CacheInv, Observed, Cache!Live, Cache!Expired
<1>. QED BY <1>3, <1>4, <1>5 DEF CacheInv

LEMMA CacheSteps ==
  ASSUME Cache!CacheAssumption, CacheInv, [Cache!Next]_Cache!vars
  PROVE  CacheInv'
<1>1. CASE UNCHANGED Cache!vars
  BY <1>1 DEF Cache!vars, CacheInv, CacheTypes, Remembered, Observed, Stores, Lookups, Cleaners,
              Cache!Live, Cache!Expired
<1>2. CASE Cache!Next
  BY <1>2, GetOrCreateStep, StoreStep, LoadStep, LookupStep, DropsBucket, PurgeSteps, SweepStep,
     CacheTickStep DEF Cache!Next
<1>. QED BY <1>1, <1>2

\* A lookup that comes back empty, and one that finds something, in any state of the invariant.
LEMMA EmptyOnlyOf ==
  ASSUME Cache!CacheAssumption, CacheInv, NEW r \in Readers,
         NEW time \in reader[r].since..now, Cache!Missing(r, time)
  PROVE  \/ reader[r].bucket # current
         \/ ~Cache!Live(known[reader[r].text], now)
<1>. DEFINE b == reader[r].bucket
            t == reader[r].text
<1>1. ~Cache!Live(entries[b][t], time) /\ reader[r].pc = "read" BY DEF Cache!Missing
<1>2. b \in Buckets /\ t \in Texts /\ reader[r].since \in 0..now
  BY <1>1, Reading DEF CacheInv
<1>3. SUFFICES ASSUME b = current PROVE ~Cache!Live(known[t], now) OBVIOUS
<1>4. b # 0 BY <1>2 DEF Cache!CacheAssumption
<1>5. CASE entries[b][t] = known[t]
  BY <1>1, <1>2, <1>5, ExpiredStays DEF CacheInv, CacheTypes
<1>. QED BY <1>2, <1>3, <1>4, <1>5 DEF CacheInv, Remembered

LEMMA FindsOnlyOf ==
  ASSUME Cache!CacheAssumption, CacheInv, NEW r \in Readers,
         NEW time \in reader[r].since..now, Cache!Found(r, time)
  PROVE  entries[reader[r].bucket][reader[r].text].sig \in reader[r].seen
<1>. DEFINE e == entries[reader[r].bucket][reader[r].text]
<1>1. Cache!Live(e, time) /\ reader[r].pc = "read" BY DEF Cache!Found
<1>2. e \in Cache!Entry /\ reader[r].since \in 0..now BY <1>1, Reading DEF CacheInv
<1>3. Cache!Live(e, reader[r].since)
  BY <1>1, <1>2, ExpiredStays DEF CacheInv, CacheTypes
<1>. QED BY <1>1, <1>3 DEF CacheInv, Observed

\* A lookup comes back empty only if its text had nothing valid when the lookup began or
\* ended, or its bucket was dropped meanwhile, and what it returns was valid when it began
\* or came since: GetCachedSignature beside CacheSignature, ClearSignatureCache and the
\* purge, for any goroutines, texts and signatures, any time to live and any number of
\* buckets.
THEOREM SignaturesHold == JointSpec => LookupsTrue
<1>1. JointInit => CacheInv BY CacheStarts, CacheConstants DEF JointInit
<1>2. CacheInv /\ [JointNext]_<<subject, vars, cacheVars, execVars, reqVars>> => CacheInv'
  <2>1. [JointNext]_<<subject, vars, cacheVars, execVars, reqVars>> => [Cache!Next]_cacheVars
    BY DEF JointNext, cacheVars
  <2>. QED BY <2>1, CacheSteps, CacheConstants DEF cacheVars, Cache!vars
<1>3. CacheInv => \A r \in Readers :
        Cache!Ends(r, \E time \in reader[r].since..now : Cache!Missing(r, time))
          => \/ ~Cache!Live(reader[r].was, now)
             \/ reader[r].bucket # current
             \/ ~Cache!Live(known[reader[r].text], now)
  BY EmptyOnlyOf, CacheConstants DEF Cache!Ends
<1>4. CacheInv => \A r \in Readers :
        Cache!Ends(r, \E time \in reader[r].since..now : Cache!Found(r, time))
          => entries[reader[r].bucket][reader[r].text].sig \in reader[r].seen
  BY FindsOnlyOf, CacheConstants DEF Cache!Ends
<1>. QED
  BY <1>1, <1>2, <1>3, <1>4, PTL
     DEF JointSpec, LookupsTrue, Cache!FoundWhileValid, Cache!AnswersAreCurrent

------------------------------------------------------------------------------
(* Executor *)

\* What the executors have in common, which the proofs need of them.
Sane(d) ==
  /\ d.urls \in {1, 2} /\ d.rounds \in Nat \ {0}
  /\ d.ensures => d.reports /\ d.asks

LEMMA SaneKinds ==
  ASSUME Exec!ExecutorAssumption
  PROVE  /\ Sane(Exec!Whole) /\ Sane(Exec!Stream) /\ Sane(Exec!Count) /\ Sane(Exec!Counted)
         /\ Sane(Exec!antigravityExecute) /\ Sane(Exec!antigravityClaude)
         /\ Sane(Exec!antigravityExecuteStream) /\ Sane(Exec!antigravityCountTokens)
  BY DEF Sane, Exec!ExecutorAssumption, Exec!Whole, Exec!Stream, Exec!Count, Exec!Counted,
         Exec!antigravityExecute, Exec!antigravityClaude, Exec!antigravityExecuteStream,
         Exec!antigravityCountTokens, Exec!Antigravity, Exec!antigravityRetryAttempts

LEMMA SaneClaude ==
  /\ Sane(Exec!claudeExecute) /\ Sane(Exec!claudeExecuteStream) /\ Sane(Exec!claudeCountTokens)
  BY DEF Sane, Exec!claudeExecute, Exec!claudeExecuteStream, Exec!claudeCountTokens,
         Exec!Whole, Exec!Stream, Exec!Count

LEMMA SaneCodex ==
  /\ Sane(Exec!codexExecute) /\ Sane(Exec!codexCompact)
  /\ Sane(Exec!codexExecuteStream) /\ Sane(Exec!codexCountTokens)
  BY DEF Sane, Exec!codexExecute, Exec!codexCompact, Exec!codexExecuteStream,
         Exec!codexCountTokens, Exec!Whole, Exec!Stream, Exec!Count, Exec!Counted

LEMMA SaneGemini ==
  /\ Sane(Exec!geminiExecute) /\ Sane(Exec!geminiExecuteStream) /\ Sane(Exec!geminiCountTokens)
  /\ Sane(Exec!geminiCLIExecute) /\ Sane(Exec!geminiCLIExecuteStream)
  /\ Sane(Exec!geminiCLICountTokens)
  BY DEF Sane, Exec!geminiExecute, Exec!geminiExecuteStream, Exec!geminiCountTokens,
         Exec!geminiCLIExecute, Exec!geminiCLIExecuteStream, Exec!geminiCLICountTokens,
         Exec!Whole, Exec!Stream, Exec!Count

LEMMA SaneVertex ==
  /\ Sane(Exec!vertexAccount) /\ Sane(Exec!vertexAccountStream) /\ Sane(Exec!vertexAccountCount)
  /\ Sane(Exec!vertexKey) /\ Sane(Exec!vertexKeyStream) /\ Sane(Exec!vertexKeyCount)
  BY DEF Sane, Exec!vertexAccount, Exec!vertexAccountStream, Exec!vertexAccountCount,
         Exec!vertexKey, Exec!vertexKeyStream, Exec!vertexKeyCount,
         Exec!Whole, Exec!Stream, Exec!Count

LEMMA SaneOthers ==
  /\ Sane(Exec!iflowExecute) /\ Sane(Exec!iflowExecuteStream) /\ Sane(Exec!iflowCountTokens)
  /\ Sane(Exec!kimiExecute) /\ Sane(Exec!kimiExecuteStream) /\ Sane(Exec!kimiCountTokens)
  /\ Sane(Exec!qwenExecute) /\ Sane(Exec!qwenExecuteStream) /\ Sane(Exec!qwenCountTokens)
  /\ Sane(Exec!compatExecute) /\ Sane(Exec!compatExecuteStream) /\ Sane(Exec!compatCountTokens)
  /\ Sane(Exec!aistudioExecute) /\ Sane(Exec!aistudioExecuteStream)
  /\ Sane(Exec!aistudioCountTokens)
  BY DEF Sane, Exec!iflowExecute, Exec!iflowExecuteStream, Exec!iflowCountTokens,
         Exec!kimiExecute, Exec!kimiExecuteStream, Exec!kimiCountTokens, Exec!claudeCountTokens,
         Exec!qwenExecute, Exec!qwenExecuteStream, Exec!qwenCountTokens,
         Exec!compatExecute, Exec!compatExecuteStream, Exec!compatCountTokens,
         Exec!aistudioExecute, Exec!aistudioExecuteStream, Exec!aistudioCountTokens,
         Exec!Whole, Exec!Stream, Exec!Count, Exec!Counted

LEMMA AllSane ==
  ASSUME Exec!ExecutorAssumption, NEW e \in Executors, NEW m \in DOMAIN Exec!StepsOf[e]
  PROVE  Sane(Exec!StepsOf[e][m])
  BY SaneKinds, SaneClaude, SaneCodex, SaneGemini, SaneVertex, SaneOthers
     DEF Exec!ExecutorAssumption, Exec!StepsOf

\* What holds of a request before it is answered, while its answer is read, and at its end.
Recorded ==
  /\ pc \in {"begin", "build", "ask", "wait"} =>
       err = "none" /\ record = "none" /\ stage = "open"
  /\ pc = "body" =>
       /\ err = "none" /\ record \in {"none", "partial", "final"}
       /\ record = "partial" => Exec!does.counts = "all"
       /\ Exec!does.counts = "traced" /\ stage = "counted" => record = "final"

\* How many answers there were, by the round and the base URL of the next one.
Asked ==
  /\ asked \in Seq(Exec!Answers)
  /\ pc \in {"begin", "build"} => asked = <<>> /\ attempt = 1 /\ target = 1
  /\ pc \in {"ask", "wait"} => \A i \in DOMAIN asked : asked[i] # "ok"
  /\ pc = "ask"  => Len(asked) = (attempt - 1) * Exec!does.urls + target - 1
  /\ pc = "wait" => Len(asked) = attempt * Exec!does.urls /\ attempt < Exec!does.rounds
  /\ pc = "body" => asked # <<>> /\ asked[Len(asked)] = "ok"

ExecInv ==
  /\ Exec!TypeOK /\ Recorded /\ Asked
  /\ Exec!RecordAgrees /\ Exec!FallsBack

LEMMA ExecStarts ==
  ASSUME Exec!ExecutorAssumption, Exec!Init
  PROVE  ExecInv
<1>. DEFINE d == Exec!does
<1>1. exec \in Executors /\ mode \in DOMAIN Exec!StepsOf[exec] /\ Sane(d)
  BY AllSane DEF Exec!Init, Exec!does
<1>2. Exec!TypeOK BY <1>1 DEF Exec!Init, Exec!TypeOK, Sane
<1>3. Recorded BY DEF Exec!Init, Recorded
<1>4. Asked BY <1>1 DEF Exec!Init, Asked
<1>5. Exec!RecordAgrees BY DEF Exec!Init, Exec!RecordAgrees
<1>6. Exec!FallsBack BY DEF Exec!Init, Exec!FallsBack
<1>. QED BY <1>2, <1>3, <1>4, <1>5, <1>6 DEF ExecInv

\* The function that runs stays the same for all of the request.
LEMMA DoesStays ==
  ASSUME UNCHANGED <<exec, mode>>
  PROVE  Exec!does' = Exec!does
  BY DEF Exec!does

LEMMA DoesSane ==
  ASSUME Exec!ExecutorAssumption, Exec!TypeOK
  PROVE  Sane(Exec!does)
  BY AllSane DEF Exec!TypeOK, Exec!does

\* A step that asks nothing of the upstream and does not end the request.
LEMMA Quietly ==
  ASSUME Exec!ExecutorAssumption, ExecInv, UNCHANGED <<exec, mode, asked>>,
         pc' # "done", Exec!TypeOK', Recorded', Asked'
  PROVE  ExecInv'
<1>1. Exec!RecordAgrees' BY DEF Exec!RecordAgrees
<1>2. Exec!FallsBack'
  <2>1. \A i \in DOMAIN asked : asked[i] = "ok" => i = Len(asked)
    BY DEF ExecInv, Exec!FallsBack
  <2>. QED BY <2>1 DEF Exec!FallsBack
<1>. QED BY <1>1, <1>2 DEF ExecInv

\* A request ends without its last answer having been turned down.
LEMMA Ending ==
  ASSUME Exec!ExecutorAssumption, ExecInv, UNCHANGED <<exec, mode, attempt, target, asked>>,
         pc' = "done", err' \in {"io", "status"} => pc = "body",
         Exec!TypeOK', Exec!RecordAgrees'
  PROVE  ExecInv'
<1>1. Recorded' BY DEF Recorded
<1>2. Asked' BY DEF ExecInv, Asked
<1>3. Exec!FallsBack'
  <2>1. \A i \in DOMAIN asked : asked[i] = "ok" => i = Len(asked)
    BY DEF ExecInv, Exec!FallsBack
  <2>2. err' \in {"io", "status"} => asked[Len(asked)] = "ok"
    BY DEF ExecInv, Asked
  <2>. QED BY <2>1, <2>2 DEF Exec!FallsBack
<1>. QED BY <1>1, <1>2, <1>3 DEF ExecInv

LEMMA BeginStep ==
  ASSUME Exec!ExecutorAssumption, ExecInv, Exec!Begin \/ Exec!Build
  PROVE  ExecInv'
<1>1. Exec!does' = Exec!does BY DoesStays DEF Exec!Begin, Exec!Build
<1>2. UNCHANGED <<exec, mode, attempt, target, asked, err, record, stage>> /\ pc' \in {"build", "ask"}
  BY DEF Exec!Begin, Exec!Build, Exec!streamVars
<1>3. Exec!TypeOK' BY <1>1, <1>2 DEF ExecInv, Exec!TypeOK
<1>4. Recorded' BY <1>2 DEF ExecInv, Recorded, Exec!Begin, Exec!Build
<1>5. Asked'
  <2>1. asked = <<>> /\ attempt = 1 /\ target = 1
    BY DEF ExecInv, Asked, Exec!Begin, Exec!Build
  <2>2. Exec!does.urls \in {1, 2} BY DoesSane DEF ExecInv, Sane
  <2>3. Len(asked) = (attempt - 1) * Exec!does.urls + target - 1 BY <2>1, <2>2
  <2>. QED BY <1>1, <1>2, <2>1, <2>3 DEF ExecInv, Asked
<1>. QED BY <1>2, <1>3, <1>4, <1>5, Quietly

\* A call that fails publishes "failed", unless something was published before.
LEMMA FailedRecords ==
  ASSUME Exec!ExecutorAssumption, ExecInv, UNCHANGED <<exec, mode, attempt, target, stage>>,
         NEW how, NEW after, Exec!Failed(how, after), pc \in {"build", "ask", "wait", "body"},
         how \notin {"none", "refused", "throttled"}
  PROVE  Exec!TypeOK' /\ Exec!RecordAgrees'
<1>1. Exec!does' = Exec!does BY DoesStays
<1>2. /\ pc' = "done" /\ err' = how
      /\ record' = IF Exec!does.reports
                   THEN (IF record = "none" THEN "failed" ELSE record) ELSE record
  BY DEF Exec!Failed, Exec!Publish
<1>3. Exec!TypeOK' BY <1>1, <1>2 DEF ExecInv, Exec!TypeOK
<1>4. /\ record \in {"none", "partial", "final"}
      /\ record = "partial" => Exec!does.counts = "all"
      /\ Exec!does.counts = "traced" /\ stage = "counted" => record = "final"
  BY DEF ExecInv, Recorded
<1>5. Exec!RecordAgrees' BY <1>1, <1>2, <1>4 DEF Exec!RecordAgrees
<1>. QED BY <1>3, <1>5

\* A request that is turned away before it has a reporter records nothing.
LEMMA TurnedAway ==
  ASSUME Exec!ExecutorAssumption, ExecInv, Exec!Refuse \/ Exec!checkQwenRateLimit
  PROVE  ExecInv'
<1>1. /\ UNCHANGED <<exec, mode, attempt, target, asked, record, stage>> /\ pc = "begin"
      /\ \/ pc' = "done" /\ err' \in {"refused", "throttled"}
         \/ pc' = "build" /\ err' = err
  BY DEF Exec!Refuse, Exec!checkQwenRateLimit, Exec!streamVars
<1>2. Exec!does' = Exec!does BY <1>1, DoesStays
<1>3. Exec!TypeOK' BY <1>1, <1>2 DEF ExecInv, Exec!TypeOK
<1>4. record = "none" /\ stage = "open" /\ err = "none" BY <1>1 DEF ExecInv, Recorded
<1>5. CASE pc' = "done"
  <2>1. Exec!RecordAgrees' BY <1>1, <1>2, <1>4, <1>5 DEF Exec!RecordAgrees
  <2>. QED BY <1>1, <1>3, <1>5, <2>1, Ending
<1>6. CASE pc' = "build"
  <2>1. Recorded' BY <1>1, <1>4, <1>6 DEF Recorded
  <2>2. Asked' BY <1>1, <1>6 DEF ExecInv, Asked
  <2>. QED BY <1>1, <1>3, <1>6, <2>1, <2>2, Quietly
<1>. QED BY <1>1, <1>5, <1>6

LEMMA FailingStep ==
  ASSUME Exec!ExecutorAssumption, ExecInv,
         \/ Exec!CannotBuild \/ Exec!Cancel \/ Exec!CutStream
         \/ \E how \in {"io", "incomplete"} : Exec!BrokenWhole(how)
  PROVE  ExecInv'
<1>1. PICK how \in {"build", "cancelled", "cut", "io", "incomplete"} :
        Exec!Failed(how, 0) /\ (how = "io" => pc = "body")
  BY DEF Exec!CannotBuild, Exec!Cancel, Exec!CutStream, Exec!BrokenWhole
<1>2. /\ UNCHANGED <<exec, mode, attempt, target, asked, stage>>
      /\ pc \in {"build", "ask", "wait", "body"}
  BY DEF Exec!CannotBuild, Exec!Cancel, Exec!CutStream, Exec!BrokenWhole, Exec!streamVars,
         Exec!Streams
<1>3. Exec!TypeOK' /\ Exec!RecordAgrees' BY <1>1, <1>2, FailedRecords
<1>4. pc' = "done" /\ err' = how BY <1>1 DEF Exec!Failed
<1>. QED BY <1>1, <1>2, <1>3, <1>4, Ending

LEMMA EndingStep ==
  ASSUME Exec!ExecutorAssumption, ExecInv,
         \/ Exec!CountHere \/ Exec!EndStream
         \/ \E counts \in {"none", "final"} : Exec!ReadWhole(counts)
  PROVE  ExecInv'
<1>. DEFINE d == Exec!does
<1>1. /\ UNCHANGED <<exec, mode, attempt, target, asked, err, stage>>
      /\ pc \in {"build", "body"} /\ pc' = "done"
  BY DEF Exec!CountHere, Exec!EndStream, Exec!ReadWhole, Exec!streamVars, Exec!Streams
<1>2. d' = d BY <1>1, DoesStays
<1>3. /\ err = "none" /\ record \in {"none", "partial", "final"}
      /\ record = "partial" => d.counts = "all"
      /\ d.counts = "traced" /\ stage = "counted" => record = "final"
  BY <1>1 DEF ExecInv, Recorded
<1>4. /\ record' \in {"none", "uncounted", "partial", "final"}
      /\ d.ensures => record' # "none"
      /\ record' = "partial" => record = "partial"
      /\ record = "final" => record' = "final"
  <2>0. d.ensures => d.reports /\ d.asks BY DoesSane DEF ExecInv, Sane
  <2>1. CASE Exec!CountHere
    BY <1>3, <2>0, <2>1 DEF Exec!CountHere
  <2>2. CASE Exec!EndStream
    BY <1>3, <2>2 DEF Exec!EndStream, Exec!Publish
  <2>3. CASE \E counts \in {"none", "final"} : Exec!ReadWhole(counts)
    BY <1>3, <2>0, <2>3 DEF Exec!ReadWhole, Exec!Publish
  <2>. QED BY <2>1, <2>2, <2>3
<1>5. Exec!TypeOK' BY <1>1, <1>2, <1>4 DEF ExecInv, Exec!TypeOK
<1>6. Exec!RecordAgrees' BY <1>1, <1>2, <1>3, <1>4 DEF Exec!RecordAgrees
<1>. QED BY <1>1, <1>3, <1>5, <1>6, Ending

\* An event of a stream is published when it has counts the reporter takes.
LEMMA EventStep ==
  ASSUME Exec!ExecutorAssumption, ExecInv, NEW event \in Exec!Events, Exec!Event(event)
  PROVE  ExecInv'
<1>. DEFINE d == Exec!does
            c == Exec!Counts(event)
<1>1. /\ UNCHANGED <<exec, mode, pc, attempt, target, asked, err>> /\ pc = "body"
      /\ stage' = Exec!NextStage(event)
      /\ record' = IF c = "none" THEN record ELSE IF record = "none" THEN c ELSE record
  BY DEF Exec!Event, Exec!Streams, Exec!Publish
<1>2. d' = d BY <1>1, DoesStays
<1>3. /\ c \in {"none", "partial", "final"}
      /\ c = "partial" => d.counts = "all"
      /\ stage' \in {"open", "stopped", "counted"}
      /\ d.counts = "traced" /\ stage' = "counted" => stage = "counted" \/ c = "final"
  BY <1>1 DEF Exec!Counts, Exec!NextStage, Exec!Events, ExecInv, Exec!TypeOK
<1>. HIDE DEF c
<1>4. Exec!TypeOK' BY <1>1, <1>2, <1>3 DEF ExecInv, Exec!TypeOK
<1>5. Recorded' BY <1>1, <1>2, <1>3 DEF ExecInv, Recorded
<1>6. Asked' BY <1>1, <1>2 DEF ExecInv, Asked
<1>. QED BY <1>1, <1>4, <1>5, <1>6, Quietly

LEMMA NextRoundStep ==
  ASSUME Exec!ExecutorAssumption, ExecInv, Exec!NextRound
  PROVE  ExecInv'
<1>. DEFINE d == Exec!does
<1>1. /\ pc = "wait" /\ pc' = "ask" /\ attempt' = attempt + 1 /\ target' = 1
      /\ UNCHANGED <<exec, mode, asked, err, record, stage>>
  BY DEF Exec!NextRound, Exec!streamVars
<1>2. d' = d BY <1>1, DoesStays
<1>3. d.urls \in {1, 2} /\ d.rounds \in Nat BY DoesSane DEF ExecInv, Sane
<1>4. attempt \in 1..d.rounds /\ attempt < d.rounds /\ Len(asked) = attempt * d.urls
  BY <1>1 DEF ExecInv, Exec!TypeOK, Asked
<1>. HIDE DEF d
<1>5. attempt' \in 1..d.rounds /\ target' \in 1..d.urls BY <1>1, <1>3, <1>4
<1>6. Exec!TypeOK' BY <1>1, <1>2, <1>5 DEF ExecInv, Exec!TypeOK, d
<1>7. Recorded' BY <1>1 DEF ExecInv, Recorded
<1>8. Len(asked) = (attempt' - 1) * d.urls + target' - 1
  BY <1>1, <1>3, <1>4
<1>9. Asked' BY <1>1, <1>2, <1>8 DEF ExecInv, Asked, d
<1>. QED BY <1>1, <1>6, <1>7, <1>9, Quietly

\* The numbers of an answer: how many there are with it.
LEMMA AnswerCounts ==
  ASSUME Exec!ExecutorAssumption, ExecInv, pc = "ask", NEW answer \in Exec!Answers,
         asked' = Append(asked, answer)
  PROVE  /\ asked' \in Seq(Exec!Answers) /\ asked' # <<>>
         /\ Len(asked') = (attempt - 1) * Exec!does.urls + target
         /\ asked'[Len(asked')] = answer
         /\ \A i \in DOMAIN asked' : i # Len(asked') => asked'[i] # "ok"
<1>1. /\ asked \in Seq(Exec!Answers)
      /\ Len(asked) = (attempt - 1) * Exec!does.urls + target - 1
      /\ \A i \in DOMAIN asked : asked[i] # "ok"
  BY DEF ExecInv, Asked
<1>2. /\ attempt \in Nat /\ target \in Nat /\ Exec!does.urls \in Nat
  BY DoesSane DEF ExecInv, Exec!TypeOK, Sane
<1>3. /\ asked' \in Seq(Exec!Answers) /\ Len(asked') = Len(asked) + 1
      /\ asked'[Len(asked) + 1] = answer
      /\ \A i \in 1..Len(asked) : asked'[i] = asked[i]
  BY <1>1
<1>4. DOMAIN asked' = 1..(Len(asked) + 1) /\ DOMAIN asked = 1..Len(asked) /\ Len(asked) \in Nat
  BY <1>1, <1>3
<1>5. Len(asked') = (attempt - 1) * Exec!does.urls + target BY <1>1, <1>2, <1>3
<1>6. \A i \in DOMAIN asked' : i # Len(asked') => asked'[i] # "ok" BY <1>1, <1>3, <1>4
<1>. QED BY <1>3, <1>4, <1>5, <1>6

LEMMA AnswerStep ==
  ASSUME Exec!ExecutorAssumption, ExecInv, NEW answer \in Exec!Answers, Exec!Answer(answer)
  PROVE  ExecInv'
<1>. DEFINE d == Exec!does
<1>1. /\ pc = "ask" /\ asked' = Append(asked, answer)
      /\ UNCHANGED <<exec, mode, stage>>
  BY DEF Exec!Answer, Exec!streamVars
<1>2. d' = d BY <1>1, DoesStays
<1>3. d.urls \in {1, 2} /\ d.rounds \in Nat \ {0} /\ attempt \in 1..d.rounds /\ target \in 1..d.urls
  BY DoesSane DEF ExecInv, Sane, Exec!TypeOK
<1>4. err = "none" /\ record = "none" /\ stage = "open" BY <1>1 DEF ExecInv, Recorded
<1>5. /\ asked' \in Seq(Exec!Answers) /\ asked' # <<>>
      /\ Len(asked') = (attempt - 1) * d.urls + target
      /\ asked'[Len(asked')] = answer
      /\ \A i \in DOMAIN asked' : i # Len(asked') => asked'[i] # "ok"
  BY <1>1, AnswerCounts
<1>6. CASE answer = "ok" /\ pc' = "body" /\ UNCHANGED <<attempt, target, err, hint, record>>
  <2>1. Exec!TypeOK' BY <1>1, <1>2, <1>6 DEF ExecInv, Exec!TypeOK
  <2>2. Recorded' BY <1>1, <1>4, <1>6 DEF Recorded
  <2>3. Asked' BY <1>5, <1>6 DEF Asked
  <2>4. Exec!RecordAgrees' BY <1>6 DEF Exec!RecordAgrees
  <2>5. Exec!FallsBack' BY <1>5, <1>6 DEF Exec!FallsBack
  <2>. QED BY <2>1, <2>2, <2>3, <2>4, <2>5 DEF ExecInv
<1>7. CASE /\ target < d.urls /\ Exec!PassedOn(answer)
           /\ target' = target + 1 /\ UNCHANGED <<pc, attempt, err, hint, record>>
  <2>0. answer # "ok" BY <1>7 DEF Exec!PassedOn, Exec!Limited
  <2>1. Exec!TypeOK' BY <1>1, <1>2, <1>3, <1>7 DEF ExecInv, Exec!TypeOK
  <2>2. Recorded' BY <1>1, <1>4, <1>7 DEF Recorded
  <2>. HIDE DEF d
  <2>3. Len(asked') = (attempt' - 1) * d.urls + target' - 1 BY <1>3, <1>5, <1>7
  <2>4. \A i \in DOMAIN asked' : asked'[i] # "ok" BY <1>5, <2>0
  <2>5. Asked' BY <1>1, <1>2, <1>5, <1>7, <2>3, <2>4 DEF Asked, d
  <2>6. Exec!RecordAgrees' BY <1>1, <1>7 DEF Exec!RecordAgrees
  <2>7. Exec!FallsBack' BY <1>1, <1>7, <2>4 DEF Exec!FallsBack
  <2>. QED BY <2>1, <2>2, <2>5, <2>6, <2>7 DEF ExecInv
<1>8. CASE /\ target = d.urls /\ answer = "capacity" /\ attempt < d.rounds
           /\ pc' = "wait" /\ UNCHANGED <<attempt, target, err, hint, record>>
  <2>1. Exec!TypeOK' BY <1>1, <1>2, <1>8 DEF ExecInv, Exec!TypeOK
  <2>2. Recorded' BY <1>1, <1>4, <1>8 DEF Recorded
  <2>. HIDE DEF d
  <2>3. Len(asked') = attempt' * d.urls BY <1>3, <1>5, <1>8
  <2>4. \A i \in DOMAIN asked' : asked'[i] # "ok" BY <1>5, <1>8
  <2>5. Asked' BY <1>2, <1>5, <1>8, <2>3, <2>4 DEF Asked, d
  <2>6. Exec!RecordAgrees' BY <1>8 DEF Exec!RecordAgrees
  <2>7. Exec!FallsBack' BY <1>8, <2>4 DEF Exec!FallsBack
  <2>. QED BY <2>1, <2>2, <2>5, <2>6, <2>7 DEF ExecInv
<1>9. CASE /\ answer # "ok"
           /\ target < d.urls => ~Exec!PassedOn(answer)
           /\ ~(target = d.urls /\ answer = "capacity" /\ attempt < d.rounds)
           /\ UNCHANGED <<attempt, target>>
           /\ \E how \in {"io", "status"}, after \in {0, 1} : Exec!Failed(how, after)
  <2>1. PICK how \in {"io", "status"}, after \in {0, 1} : Exec!Failed(how, after) BY <1>9
  <2>2. Exec!TypeOK' /\ Exec!RecordAgrees' BY <1>1, <1>9, <2>1, FailedRecords
  <2>3. pc' = "done" BY <2>1 DEF Exec!Failed
  <2>4. Recorded' BY <2>3 DEF Recorded
  <2>5. Asked' BY <1>5, <2>3 DEF Asked
  <2>6. answer \in {"down", "limited", "limited-bare"} \/ (answer = "capacity" /\ d.passesFull)
          => target = d.urls
    BY <1>3, <1>9 DEF Exec!PassedOn, Exec!Limited
  <2>. HIDE DEF d
  <2>7. answer = "capacity" /\ d.passesFull => Len(asked') = d.urls * d.rounds
    BY <1>3, <1>5, <1>9, <2>6
  <2>8. answer \in {"down", "limited", "limited-bare"} => Len(asked') % d.urls = 0
    BY <1>3, <1>5, <2>6
  <2>9. Exec!FallsBack'
    BY <1>2, <1>5, <2>7, <2>8 DEF Exec!FallsBack, Exec!Limited, d
  <2>. QED BY <2>2, <2>4, <2>5, <2>9 DEF ExecInv
<1>. QED BY <1>1, <1>6, <1>7, <1>8, <1>9 DEF Exec!Answer

LEMMA AgainStep ==
  ASSUME Exec!ExecutorAssumption, ExecInv, Exec!Again
  PROVE  ExecInv'
<1>1. /\ UNCHANGED <<exec, mode>> /\ pc' = "begin" /\ asked' = <<>> /\ attempt' = 1 /\ target' = 1
      /\ err' = "none" /\ record' = "none" /\ stage' = "open"
  BY DEF Exec!Again
<1>2. Exec!does' = Exec!does BY <1>1, DoesStays
<1>3. Exec!TypeOK' BY <1>1, <1>2, DoesSane DEF ExecInv, Exec!TypeOK, Sane
<1>4. Recorded' BY <1>1 DEF Recorded
<1>5. Asked' BY <1>1 DEF Asked
<1>6. Exec!RecordAgrees' BY <1>1 DEF Exec!RecordAgrees
<1>7. Exec!FallsBack' BY <1>1 DEF Exec!FallsBack
<1>. QED BY <1>3, <1>4, <1>5, <1>6, <1>7 DEF ExecInv

LEMMA ExecSteps ==
  ASSUME Exec!ExecutorAssumption, ExecInv, [Exec!Next]_Exec!vars
  PROVE  ExecInv'
<1>1. CASE \/ Exec!Tick \/ UNCHANGED Exec!vars
  <2>1. UNCHANGED <<exec, mode, pc, attempt, target, asked, err, record, stage>>
    BY <1>1 DEF Exec!Tick, Exec!vars, Exec!streamVars
  <2>2. Exec!does' = Exec!does BY <2>1, DoesStays
  <2>. QED
    BY <2>1, <2>2 DEF ExecInv, Exec!TypeOK, Recorded, Asked, Exec!RecordAgrees, Exec!FallsBack
<1>2. CASE Exec!Next
  BY <1>1, <1>2, TurnedAway, BeginStep, FailingStep, EndingStep, AnswerStep, NextRoundStep,
     EventStep, AgainStep DEF Exec!Next
<1>. QED BY <1>1, <1>2

\* However often an executor asks its upstream, and whatever comes of it, the record its
\* reporter publishes agrees with what the caller gets, and a base URL is asked again, or
\* given up, only when and as often as FallsBack says (usage_helpers.go; the retry loops of
\* antigravity_executor.go): the parts RecordAgrees and FallsBack of Executed.
THEOREM RequestsAccounted == JointSpec => [](Exec!RecordAgrees /\ Exec!FallsBack)
<1>1. JointInit => ExecInv BY ExecStarts, ExecutorConstants DEF JointInit
<1>2. ExecInv /\ [JointNext]_<<subject, vars, cacheVars, execVars, reqVars>> => ExecInv'
  <2>1. [JointNext]_<<subject, vars, cacheVars, execVars, reqVars>> => [Exec!Next]_execVars
    BY DEF JointNext, execVars
  <2>. QED BY <2>1, ExecSteps, ExecutorConstants DEF execVars, Exec!vars
<1>3. ExecInv => Exec!RecordAgrees /\ Exec!FallsBack BY DEF ExecInv
<1>. QED BY <1>1, <1>2, <1>3, PTL DEF JointSpec
==============================================================================
