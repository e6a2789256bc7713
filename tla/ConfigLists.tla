----------------------------- MODULE ConfigLists ----------------------------
(***************************************************************************)
(* What the management API does to the lists of the configuration          *)
(* (internal/api/handlers/management/config_lists.go) and how a            *)
(* configuration that is loaded or edited is put in order                  *)
(* (internal/config, Sanitize...).  Each handler is a function of the list *)
(* and of what the client sent.                                            *)
(*                                                                         *)
(* An entry has the fields by which a handler tells entries apart or drops *)
(* them, and one of each kind of the others: a prefix, headers (names, of  *)
(* which Blank has no value) and models.  Proxy URLs, priorities and       *)
(* excluded models of an entry are treated as the prefix and the headers   *)
(* are.  A field that a client may leave out is <<>> or <<value>>; a body that   *)
(* does not parse is not readable.                                         *)
(***************************************************************************)
EXTENDS Naturals, Sequences, SequencesExt, FiniteSets, TLC

Blank == "blank"             \* a header without a value

\* strings.TrimSpace, and ToLower of channels and models, of the strings that it changes
Padded == (" k1" :> "k1") @@ (" " :> "") @@ (" b" :> "b") @@ ("A" :> "a")
Trim(s) == IF s \in DOMAIN Padded THEN Padded[s] ELSE s

Result(code, list) == [code |-> code, list |-> list]
Ok(list) == Result(200, list)
Bad(list) == Result(400, list)
NotFound(list) == Result(404, list)

Given(o) == o # <<>>
Or(o, old) == IF Given(o) THEN o[1] ELSE old

FirstOf(S) == IF S = {} THEN 0 ELSE CHOOSE i \in S : \A j \in S : i <= j

------------------------------------------------------------------------------
(* In order: entries of API keys *)

normalizeModelPrefix(p) == IF p = "a/b" THEN "" ELSE Trim(p)
NormalizeHeaders(h) == h \ {Blank}

Tidy(e) == [e EXCEPT !.prefix = normalizeModelPrefix(@), !.headers = NormalizeHeaders(@)]

\* The first entry of each identity.
Firsts(l, Id(_)) ==
  LET first(i) == \A j \in 1..(i - 1) : Id(l[j]) # Id(l[i])
  IN  FoldLeftDomain(LAMBDA out, i : IF first(i) THEN Append(out, l[i]) ELSE out, <<>>, l)

Each(F(_), l) == [i \in DOMAIN l |-> F(l[i])]

SanitizeGeminiKeys(l) ==
  Firsts(SelectSeq(Each(LAMBDA e : Tidy([e EXCEPT !.key = Trim(@), !.base = Trim(@)]), l), LAMBDA e : e.key # ""),
         LAMBDA e : e.key)

SanitizeClaudeKeys(l) == Each(Tidy, l)

SanitizeCodexKeys(l) ==
  SelectSeq(Each(LAMBDA e : Tidy([e EXCEPT !.base = Trim(@)]), l), LAMBDA e : e.base # "")

SanitizeOpenAICompatibility(l) ==
  SelectSeq(Each(LAMBDA e : Tidy([e EXCEPT !.name = Trim(@), !.base = Trim(@)]), l), LAMBDA e : e.base # "")

Whole(m) == m.name # "" /\ m.alias # ""
Some(m)  == m.name # "" \/ m.alias # ""

SanitizeVertexCompatKeys(l) ==
  LET Clean(e) == Tidy([e EXCEPT !.key = Trim(@), !.base = Trim(@), !.models = SelectSeq(@, Whole)])
  IN  Firsts(SelectSeq(Each(Clean, l), LAMBDA e : e.key # ""), LAMBDA e : <<e.key, e.base>>)

normalizeOpenAICompatibilityEntry(e) == [e EXCEPT !.base = Trim(@), !.headers = NormalizeHeaders(@)]

normalizeClaudeKey(e) ==
  [e EXCEPT !.key = Trim(@), !.base = Trim(@), !.headers = NormalizeHeaders(@), !.models = SelectSeq(@, Some)]

normalizeCodexKey(e) == [normalizeClaudeKey(e) EXCEPT !.prefix = Trim(@)]

normalizeVertexCompatKey(e) == [normalizeCodexKey(e) EXCEPT !.models = SelectSeq(e.models, Whole)]

------------------------------------------------------------------------------
(* Lists of strings: api-keys *)

\* The body is the list, or an object with it, which must not be empty.
Sent(body) == body.readable /\ ~(body.wrapped /\ body.items = <<>>)

putStringList(l, body) == IF Sent(body) THEN Ok(body.items) ELSE Bad(l)

patchStringList(l, body) ==
  IF Given(body.index) /\ Given(body.value) /\ body.index[1] \in DOMAIN l
  THEN Ok(ReplaceAt(l, body.index[1], body.value[1]))
  ELSE IF Given(body.old) /\ Given(body.new)
       THEN LET i == FirstOf({j \in DOMAIN l : l[j] = body.old[1]})
            IN  IF i # 0 THEN Ok(ReplaceAt(l, i, body.new[1])) ELSE Ok(Append(l, body.new[1]))
       ELSE Bad(l)

deleteFromStringList(l, query) ==
  IF Given(query.index) /\ query.index[1] \in DOMAIN l THEN Ok(RemoveAt(l, query.index[1]))
  ELSE IF Trim(query.key) # "" THEN Ok(SelectSeq(l, LAMBDA v : Trim(v) # Trim(query.key)))
       ELSE Bad(l)

------------------------------------------------------------------------------
(* Entries of API keys *)

\* Where a patch aims: an index of the list, else the first entry Is holds of.
Target(l, body, Is(_)) ==
  IF Given(body.index) /\ body.index[1] \in DOMAIN l THEN body.index[1]
  ELSE IF Given(body.match) THEN FirstOf({i \in DOMAIN l : Is(l[i])}) ELSE 0

Patched(e, value) ==
  [e EXCEPT !.key = Trim(Or(value.key, @)), !.name = Trim(Or(value.name, @)), !.base = Trim(Or(value.base, @)),
            !.headers = NormalizeHeaders(Or(value.headers, @)), !.models = Or(value.models, @),
            !.prefix = Trim(Or(value.prefix, @))]

Emptied(o) == Given(o) /\ Trim(o[1]) = ""

\* An entry goes when a field it cannot do without is emptied.
PatchAt(l, i, value, gone, Normal(_), Sanitize(_)) ==
  IF i = 0 THEN NotFound(l)
  ELSE Ok(Sanitize(IF gone THEN RemoveAt(l, i) ELSE ReplaceAt(l, i, Normal(Patched(l[i], value)))))

DeleteAt(l, query, Sanitize(_)) ==
  IF Given(query.index) /\ query.index[1] \in DOMAIN l THEN Ok(Sanitize(RemoveAt(l, query.index[1]))) ELSE Bad(l)

As(e) == e

PutGeminiKeys(l, body) == IF Sent(body) THEN Ok(SanitizeGeminiKeys(body.items)) ELSE Bad(l)

PatchGeminiKey(l, body) ==
  PatchAt(l, Target(l, body, LAMBDA e : Trim(body.match[1]) # "" /\ e.key = Trim(body.match[1])),
          [body.value EXCEPT !.models = <<>>, !.name = <<>>], Emptied(body.value.key), As, SanitizeGeminiKeys)

DeleteGeminiKey(l, query) ==
  LET out == SelectSeq(l, LAMBDA e : e.key # Trim(query.key))
  IN  IF Trim(query.key) = "" THEN DeleteAt(l, query, SanitizeGeminiKeys)
      ELSE IF out # l THEN Ok(SanitizeGeminiKeys(out)) ELSE NotFound(l)

PutClaudeKeys(l, body) ==
  IF Sent(body) THEN Ok(SanitizeClaudeKeys(Each(normalizeClaudeKey, body.items))) ELSE Bad(l)

\* Mutant: the entry that is patched replaces the first one.
PatchClaudeKey_first(l, body) ==
  LET i == Target(l, body, LAMBDA e : e.key = Trim(body.match[1]))
  IN  IF i = 0 THEN NotFound(l) ELSE Ok(ReplaceAt(l, 1, normalizeClaudeKey(Patched(l[i], body.value))))

PatchClaudeKey(l, body) ==
  PatchAt(l, Target(l, body, LAMBDA e : e.key = Trim(body.match[1])),
          [body.value EXCEPT !.name = <<>>], FALSE, normalizeClaudeKey, SanitizeClaudeKeys)

DeleteClaudeKey(l, query) ==
  IF query.key = "" THEN DeleteAt(l, query, SanitizeClaudeKeys)
  ELSE Ok(SanitizeClaudeKeys(SelectSeq(l, LAMBDA e : e.key # query.key)))

PutOpenAICompat(l, body) ==
  IF ~Sent(body) THEN Bad(l)
  ELSE Ok(SanitizeOpenAICompatibility(
         SelectSeq(Each(normalizeOpenAICompatibilityEntry, body.items), LAMBDA e : Trim(e.base) # "")))

PatchOpenAICompat(l, body) ==
  PatchAt(l, Target(l, body, LAMBDA e : e.name = Trim(body.match[1])),
          [body.value EXCEPT !.key = <<>>], Emptied(body.value.base),
          normalizeOpenAICompatibilityEntry, SanitizeOpenAICompatibility)

DeleteOpenAICompat(l, query) ==
  IF query.key = "" THEN DeleteAt(l, query, SanitizeOpenAICompatibility)
  ELSE Ok(SanitizeOpenAICompatibility(SelectSeq(l, LAMBDA e : e.name # query.key)))

PutVertexCompatKeys(l, body) ==
  IF ~Sent(body) \/ \E i \in DOMAIN body.items : Trim(body.items[i].key) = "" THEN Bad(l)
  ELSE Ok(SanitizeVertexCompatKeys(Each(normalizeVertexCompatKey, body.items)))

PatchVertexCompatKey(l, body) ==
  PatchAt(l, Target(l, body, LAMBDA e : Trim(body.match[1]) # "" /\ e.key = Trim(body.match[1])),
          [body.value EXCEPT !.name = <<>>], Emptied(body.value.key) \/ Emptied(body.value.base),
          normalizeVertexCompatKey, SanitizeVertexCompatKeys)

DeleteVertexCompatKey(l, query) ==
  IF Trim(query.key) = "" THEN DeleteAt(l, query, SanitizeVertexCompatKeys)
  ELSE Ok(SanitizeVertexCompatKeys(SelectSeq(l, LAMBDA e : e.key # Trim(query.key))))

PutCodexKeys(l, body) ==
  IF ~Sent(body) THEN Bad(l)
  ELSE Ok(SanitizeCodexKeys(SelectSeq(Each(normalizeCodexKey, body.items), LAMBDA e : e.base # "")))

PatchCodexKey(l, body) ==
  PatchAt(l, Target(l, body, LAMBDA e : e.key = Trim(body.match[1])),
          [body.value EXCEPT !.name = <<>>], Emptied(body.value.base), normalizeCodexKey, SanitizeCodexKeys)

DeleteCodexKey(l, query) ==
  IF query.key = "" THEN DeleteAt(l, query, SanitizeCodexKeys)
  ELSE Ok(SanitizeCodexKeys(SelectSeq(l, LAMBDA e : e.key # query.key)))

------------------------------------------------------------------------------
(* Maps from channels to models or aliases: the "list" is a function *)

NormalizeExcludedModels(models) == Firsts(SelectSeq(Each(Trim, models), LAMBDA m : m # ""), LAMBDA m : m)

Without(f, k) == [c \in DOMAIN f \ {k} |-> f[c]]

\* Channels whose names agree once trimmed and lowered overwrite each other in Go's order of
\* a map, which nobody knows; the inputs have none.
Channels(f, Clean(_)) ==
  LET raw(c) == {k \in DOMAIN f : Trim(k) = c}
      all == {Trim(k) : k \in DOMAIN f} \ {""}
      clean == [c \in all |-> Clean(f[CHOOSE k \in raw(c) : TRUE])]
  IN  [c \in {d \in all : clean[d] # <<>>} |-> clean[c]]

NormalizeOAuthExcludedModels(f) == Channels(f, NormalizeExcludedModels)

CleanAliases(as) ==
  Firsts(SelectSeq(as, LAMBDA a : Whole(a) /\ a.name # a.alias), LAMBDA a : Trim(a.alias))

SanitizeOAuthModelAlias(f) == Channels(f, CleanAliases)

\* An empty patch takes the channel away; one that is not there is not found.
PatchChannel(f, channel, models) ==
  IF channel = "" THEN Bad(f)
  ELSE IF models # <<>> THEN Ok((channel :> models) @@ f)
       ELSE IF channel \in DOMAIN f THEN Ok(Without(f, channel)) ELSE NotFound(f)

DeleteChannel(f, channel) ==
  IF channel = "" THEN Bad(f)
  ELSE IF channel \in DOMAIN f THEN Ok(Without(f, channel)) ELSE NotFound(f)

PutOAuthExcludedModels(f, body) == IF ~body.readable THEN Bad(f) ELSE Ok(NormalizeOAuthExcludedModels(body.items))
PatchOAuthExcludedModels(f, body) == PatchChannel(f, Trim(body.channel), NormalizeExcludedModels(body.models))
DeleteOAuthExcludedModels(f, query) == DeleteChannel(f, Trim(query.key))

PutOAuthModelAlias(f, body) == IF ~body.readable THEN Bad(f) ELSE Ok(SanitizeOAuthModelAlias(body.items))
PatchOAuthModelAlias(f, body) == PatchChannel(f, Trim(body.channel), CleanAliases(body.models))
DeleteOAuthModelAlias(f, query) == DeleteChannel(f, Trim(query.key))

------------------------------------------------------------------------------
(* Amp: mappings of models, clients' keys by upstream key *)

PutAmpModelMappings(l, body) == IF ~body.readable THEN Bad(l) ELSE Ok(body.items)

\* New entries replace the last one of their name, or are added.
Upsert(l, new, Id(_)) ==
  LET same == {i \in DOMAIN l : Id(l[i]) = Id(new)}
  IN  IF same = {} THEN Append(l, new) ELSE ReplaceAt(l, CHOOSE i \in same : \A j \in same : j <= i, new)

PatchAmpModelMappings(l, body) ==
  IF ~body.readable THEN Bad(l)
  ELSE Ok(FoldLeft(LAMBDA out, m : Upsert(out, m, LAMBDA e : Trim(e.from)), l, body.items))

DeleteAmpModelMappings(l, body) ==
  IF ~body.readable \/ body.keys = <<>> THEN Ok(<<>>)
  ELSE Ok(SelectSeq(l, LAMBDA m : \A i \in DOMAIN body.keys : Trim(body.keys[i]) # Trim(m.from)))

normalizeAPIKeysList(keys) == SelectSeq(Each(Trim, keys), LAMBDA k : k # "")

normalizeAmpUpstreamAPIKeyEntries(l) ==
  SelectSeq(Each(LAMBDA e : [key |-> Trim(e.key), clients |-> normalizeAPIKeysList(e.clients)], l),
            LAMBDA e : e.key # "")

PutAmpUpstreamAPIKeys(l, body) ==
  IF ~body.readable THEN Bad(l) ELSE Ok(normalizeAmpUpstreamAPIKeyEntries(body.items))

PatchAmpUpstreamAPIKeys(l, body) ==
  IF ~body.readable THEN Bad(l)
  ELSE Ok(FoldLeft(LAMBDA out, e : Upsert(out, e, LAMBDA x : Trim(x.key)), l,
                   normalizeAmpUpstreamAPIKeyEntries(body.items)))

DeleteAmpUpstreamAPIKeys(l, body) ==
  IF ~body.readable THEN Bad(l)
  ELSE IF body.keys = <<>> THEN Ok(<<>>)
  ELSE LET named == {Trim(body.keys[i]) : i \in DOMAIN body.keys} \ {""}
       IN  IF named = {} THEN Bad(l) ELSE Ok(SelectSeq(l, LAMBDA e : Trim(e.key) \notin named))
=============================================================================
