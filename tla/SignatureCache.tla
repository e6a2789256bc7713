--------------------------- MODULE SignatureCache ---------------------------
(***************************************************************************)
(* The cache of thinking signatures (internal/cache/signature_cache.go):   *)
(* request goroutines store and look up signatures in the bucket of a      *)
(* model group while a cleaner purges it.  Buckets of different groups     *)
(* share nothing, so there is one group; a bucket that was dropped from    *)
(* the cache may still be in use by those who loaded it before.            *)
(*                                                                         *)
(* A step is an operation of the sync.Map or a critical section of a       *)
(* bucket's mutex.  Hashing a text, and the sentinel that stands for a     *)
(* missing signature of a gemini model, are left out.                      *)
(***************************************************************************)
EXTENDS Naturals, FiniteSets

CONSTANTS
  Writers, Readers,        \* goroutines in CacheSignature and in GetCachedSignature
  Texts, Signatures,
  SignatureCacheTTL,
  Buckets,                 \* bound: 1..n, the buckets ever made
  MaxNow                   \* bound on the clock

\* What an instance assumes of its constants
CacheAssumption ==
  /\ SignatureCacheTTL \in Nat /\ MaxNow \in Nat
  /\ IsFiniteSet(Buckets) /\ 0 \notin Buckets

VARIABLES
  now,
  current, entries,    \* signatureCache (0: no bucket), groupCache.entries per bucket
  made,                \* the buckets made so far
  writer, reader, cleaner,
  known                \* history: what the bucket in the cache was given, per text

vars == <<now, current, entries, made, writer, reader, cleaner, known>>

Nothing == [sig |-> "none", at |-> 0]

NoEntry == [t \in Texts |-> Nothing]

Expired(entry, time) == time > entry.at + SignatureCacheTTL

Live(entry, time) == entry # Nothing /\ ~Expired(entry, time)

IdleWriter  == [pc |-> "idle", bucket |-> 0]
IdleReader  == [pc |-> "idle", bucket |-> 0]
IdleCleaner == [pc |-> "idle", bucket |-> 0, at |-> 0]

Init ==
  /\ now = 0
  /\ current = 0 /\ made = {}
  /\ entries = [b \in Buckets |-> NoEntry]
  /\ writer = [w \in Writers |-> IdleWriter]
  /\ reader = [r \in Readers |-> IdleReader]
  /\ cleaner = IdleCleaner
  /\ known = NoEntry

------------------------------------------------------------------------------
(* CacheSignature *)

\* getOrCreateGroupCache: the bucket in the cache, or a new one.
GetOrCreate(w, t, s) ==
  /\ writer[w].pc = "idle"
  /\ \E b \in IF current # 0 THEN {current} ELSE Buckets \ made :
       /\ current' = b
       /\ made' = made \cup {b}
       /\ writer' = [writer EXCEPT ![w] = [pc |-> "store", bucket |-> b, text |-> t, sig |-> s]]
  /\ UNCHANGED <<now, entries, reader, cleaner, known>>

\* Lookups in flight may find what is stored or refreshed meanwhile.
Noticed(t, sig) ==
  [r \in Readers |->
     IF reader[r].pc = "read" /\ reader[r].text = t
     THEN [reader[r] EXCEPT !.seen = @ \cup {sig}] ELSE reader[r]]

Store(w) ==
  LET b == writer[w].bucket  t == writer[w].text  e == [sig |-> writer[w].sig, at |-> now] IN
  /\ writer[w].pc = "store"
  /\ entries' = [entries EXCEPT ![b][t] = e]
  /\ known' = IF b = current THEN [known EXCEPT ![t] = e] ELSE known
  /\ reader' = Noticed(t, e.sig)
  /\ writer' = [writer EXCEPT ![w] = IdleWriter]
  /\ UNCHANGED <<now, current, made, cleaner>>

------------------------------------------------------------------------------
(* GetCachedSignature *)

\* Without a bucket the lookup ends at once.
Load(r, t) ==
  /\ reader[r].pc = "idle" /\ current # 0
  /\ reader' = [reader EXCEPT ![r] =
       [pc |-> "read", bucket |-> current, text |-> t, since |-> now,
        was |-> known[t],
        seen |-> IF Live(known[t], now) THEN {known[t].sig} ELSE {}]]
  /\ UNCHANGED <<now, current, entries, made, writer, cleaner, known>>

\* Mutant: a signature that is found is not refreshed.
Found_unrefreshed(r, time) ==
  LET b == reader[r].bucket  t == reader[r].text  e == [entries[b][t] EXCEPT !.at = time] IN
  /\ reader[r].pc = "read"
  /\ Live(entries[b][t], time)
  /\ known' = IF b = current THEN [known EXCEPT ![t] = e] ELSE known
  /\ reader' = [Noticed(t, e.sig) EXCEPT ![r] = IdleReader]
  /\ UNCHANGED <<now, current, entries, made, writer, cleaner>>

\* Mutant: an expired signature is returned.
Found_expired(r, time) ==
  LET b == reader[r].bucket  t == reader[r].text  e == [entries[b][t] EXCEPT !.at = time] IN
  /\ reader[r].pc = "read"
  /\ entries[b][t] # Nothing
  /\ entries' = [entries EXCEPT ![b][t] = e]
  /\ known' = IF b = current THEN [known EXCEPT ![t] = e] ELSE known
  /\ reader' = [Noticed(t, e.sig) EXCEPT ![r] = IdleReader]
  /\ UNCHANGED <<now, current, made, writer, cleaner>>

\* Found: its time becomes the one this lookup took before it had the lock.
Found(r, time) ==
  LET b == reader[r].bucket  t == reader[r].text  e == [entries[b][t] EXCEPT !.at = time] IN
  /\ reader[r].pc = "read"
  /\ Live(entries[b][t], time)
  /\ entries' = [entries EXCEPT ![b][t] = e]
  /\ known' = IF b = current THEN [known EXCEPT ![t] = e] ELSE known
  /\ reader' = [Noticed(t, e.sig) EXCEPT ![r] = IdleReader]
  /\ UNCHANGED <<now, current, made, writer, cleaner>>

Missing(r, time) ==
  LET b == reader[r].bucket  t == reader[r].text IN
  /\ reader[r].pc = "read"
  /\ ~Live(entries[b][t], time)
  /\ entries' = [entries EXCEPT ![b][t] = Nothing]
  /\ reader' = [reader EXCEPT ![r] = IdleReader]
  /\ UNCHANGED <<now, current, made, writer, cleaner, known>>

------------------------------------------------------------------------------
(* ClearSignatureCache, and purgeExpiredCaches in its goroutine *)

Clear ==
  /\ current # 0
  /\ current' = 0
  /\ known' = NoEntry
  /\ UNCHANGED <<now, entries, made, writer, reader, cleaner>>

\* A purge takes the time once, before it comes to this group.
Purge ==
  /\ cleaner.pc = "idle"
  /\ cleaner' = [pc |-> "range", bucket |-> 0, at |-> now]
  /\ UNCHANGED <<now, current, entries, made, writer, reader, known>>

Visit ==
  /\ cleaner.pc = "range"
  /\ cleaner' = IF current = 0 THEN IdleCleaner
                ELSE [cleaner EXCEPT !.pc = "sweep", !.bucket = current]
  /\ UNCHANGED <<now, current, entries, made, writer, reader, known>>

Swept(b) == [t \in Texts |-> IF Live(entries[b][t], cleaner.at) THEN entries[b][t] ELSE Nothing]

Sweep ==
  /\ cleaner.pc = "sweep"
  /\ entries' = [entries EXCEPT ![cleaner.bucket] = Swept(cleaner.bucket)]
  /\ cleaner' = IF Swept(cleaner.bucket) = NoEntry THEN [cleaner EXCEPT !.pc = "drop", !.at = 0]
                ELSE IdleCleaner
  /\ UNCHANGED <<now, current, made, writer, reader, known>>

\* The bucket was empty when it was unlocked: whichever is in the cache now goes.
Drop ==
  /\ cleaner.pc = "drop"
  /\ current' = 0
  /\ known' = NoEntry
  /\ cleaner' = IdleCleaner
  /\ UNCHANGED <<now, entries, made, writer, reader>>

Tick == now < MaxNow /\ now' = now + 1 /\ UNCHANGED <<current, entries, made, writer, reader, cleaner, known>>

------------------------------------------------------------------------------

\* A lookup takes its time between loading the bucket and locking it.
Lookup(r) ==
  /\ reader[r].pc = "read"
  /\ \E time \in reader[r].since..now : Found(r, time) \/ Missing(r, time)

Next ==
  \/ \E w \in Writers, t \in Texts, s \in Signatures : GetOrCreate(w, t, s)
  \/ \E w \in Writers : Store(w)
  \/ \E r \in Readers, t \in Texts : Load(r, t)
  \/ \E r \in Readers : Lookup(r)
  \/ Clear \/ Purge \/ Visit \/ Sweep \/ Drop \/ Tick

Spec == Init /\ [][Next]_vars

------------------------------------------------------------------------------
(* Properties *)

Entry == [sig : Signatures, at : Nat] \cup {Nothing}

TypeOK ==
  /\ now \in Nat /\ made \subseteq Buckets /\ current \in made \cup {0}
  /\ entries \in [Buckets -> [Texts -> Entry]] /\ known \in [Texts -> Entry]
  /\ \A b \in Buckets \ made : entries[b] = NoEntry
  /\ \A w \in Writers : writer[w].bucket \in made \cup {0}
  /\ \A r \in Readers : reader[r].bucket \in made \cup {0}
  /\ cleaner.pc \in {"sweep", "drop"} <=> cleaner.bucket # 0

\* How the lookup of r ends in this step, if it does.
Ends(r, action) == reader[r].pc = "read" /\ reader'[r] = IdleReader /\ action

\* GetCachedSignature finds what was stored, or last found, at most a TTL ago:
\* a lookup that comes back empty had nothing valid to find when it began, or
\* what it had expired, was cleared or went with its bucket before it ended.
\* Goroutines that refresh, expire and purge the entry in between change nothing
\* (one that took its time early may set the entry's back, and known's with it).
FoundWhileValid ==
  [][\A r \in Readers :
       Ends(r, \E time \in reader[r].since..now : Missing(r, time))
         => \/ ~Live(reader[r].was, now)
            \/ reader[r].bucket # current
            \/ ~Live(known[reader[r].text], now)]_vars

\* A lookup answers with a signature the text had when it began or was given
\* since, even from a bucket that is no longer the cache's: never with one that
\* had expired before.
AnswersAreCurrent ==
  [][\A r \in Readers :
       Ends(r, \E time \in reader[r].since..now : Found(r, time))
         => entries[reader[r].bucket][reader[r].text].sig \in reader[r].seen]_vars

\* signature_cache.go:74 "purgeExpiredCaches removes caches with no valid
\* (non-expired) entries": the bucket a purge removes holds none.
OnlyExpiredPurged ==
  [][cleaner.pc = "drop" /\ Drop /\ current # 0
       => \A t \in Texts : ~Live(entries[current][t], now)]_vars
==============================================================================
