----------------------------- MODULE ConfigEdits ----------------------------
(***************************************************************************)
(* Edits of the configuration through the management API, the file they    *)
(* are saved in, and the hot reload that this sets off.                    *)
(*                                                                         *)
(* A handler edits the configuration in memory without a lock, then saves  *)
(* it under Handler.mu: the file is read, truncated and written.  The      *)
(* watcher's timer reads the file twice, once for its hash and once to     *)
(* load it, and then puts the loaded configuration in the place of the     *)
(* edited one.  One client, Editor, edits one list, "family", or the whole *)
(* file; the other, Setter, edits single settings.                         *)
(*                                                                         *)
(* Ghosts: "want" has the edits as they were made, one after the other;    *)
(* "crossed", "astray" and "returned" tell of the ways an edit gets lost,  *)
(* which the README names.  MaxEdits bounds the requests.                  *)
(***************************************************************************)
EXTENDS ConfigLists, ConfigFile

CONSTANTS Families, MaxEdits

VARIABLES
  family,                     \* the list that is edited: its key in the file
  conf,                       \* Handler.cfg: the list, error-logs-max-files, routing.strategy
  file, out,                  \* the file; what a saving handler is about to write
  pc, input,                  \* per client: where its request is, what it asks for
  held,                       \* the list of a configuration that is no longer Handler.cfg
  timer, stage, loaded,       \* the watcher's reload
  hashed, hash,               \* the content it read first; lastConfigHash
  dirty,                      \* ghost: an edit is not in what was loaded
  want, crossed, astray, returned,
  edits

confVars   == <<family, conf>>
fileVars   == <<file, out>>
reqVars    == <<pc, input, held, edits>>
reloadVars == <<timer, stage, loaded, hashed, hash, dirty>>
ghosts     == <<want, crossed, astray, returned>>
editVars   == <<confVars, fileVars, reqVars, reloadVars, ghosts>>

Editor == "editor"
Setter == "setter"
Callers == {Editor, Setter}

Torn == [kind |-> "torn"]  \* a file that is truncated and not yet written
Nowhere == "none"

EntryLists == {"gemini-api-key", "claude-api-key", "codex-api-key", "vertex-api-key", "openai-compatibility"}
AmpLists   == {"model-mappings", "upstream-api-keys"}
ChannelMaps == {"oauth-excluded-models", "oauth-model-alias"}

------------------------------------------------------------------------------
(* Between memory and YAML *)

Node(k, n) == k :> n
Nothing == <<>>
Unless(zero, f) == IF zero THEN Nothing ELSE f

NamePair(a) == Mapping(Node("name", Str(a.name)) @@ Node("alias", Str(a.alias)))

\* The structs' tags: what is left out when it is empty.
EntryNode(e) ==
  LET sparse == family \in {"gemini-api-key", "vertex-api-key"}
  IN  Mapping((IF family = "openai-compatibility" THEN Node("name", Str(e.name)) ELSE Node("api-key", Str(e.key)))
        @@ Unless(sparse /\ e.base = "", Node("base-url", Str(e.base)))
        @@ Unless(e.prefix = "", Node("prefix", Str(e.prefix)))
        @@ Unless(e.headers = {}, Node("headers", Mapping([h \in e.headers |-> Str("v")])))
        @@ Unless(sparse /\ e.models = <<>>, Node("models", Seqn(Each(NamePair, e.models)))))

ListNode(l) ==
  CASE family = "api-keys" -> Seqn(Each(Str, l))
    [] family \in EntryLists -> Seqn(Each(EntryNode, l))
    [] family = "model-mappings" ->
         Seqn(Each(LAMBDA m : Mapping(Node("from", Str(m.from)) @@ Node("to", Str(m.to))), l))
    [] family = "upstream-api-keys" ->
         Seqn(Each(LAMBDA e : Mapping(Node("upstream-api-key", Str(e.key)) @@ Node("api-keys", Seqn(Each(Str, e.clients)))), l))
    [] family = "oauth-excluded-models" -> Mapping([c \in DOMAIN l |-> Seqn(Each(Str, l[c]))])
    [] family = "oauth-model-alias" -> Mapping([c \in DOMAIN l |-> Seqn(Each(NamePair, l[c]))])

\* yaml.Marshal
Render(c) ==
  LET node == Unless(c.list = <<>> /\ family \in ChannelMaps \cup {"upstream-api-keys"}, Node(family, ListNode(c.list)))
  IN  Mapping(Node("error-logs-max-files", Scalar("int", c.limit))
        @@ Node("routing", Mapping(Unless(c.strategy = "", Node("strategy", Str(c.strategy)))))
        @@ (IF family \in AmpLists THEN Node("ampcode", Mapping(Node("upstream-url", Str("u")) @@ node)) ELSE node))

Field(n, k) == IF k \in DOMAIN n.at THEN n.at[k].v ELSE ""
Items(n, k) == IF k \in DOMAIN n.at /\ n.at[k].kind = "seq" THEN n.at[k].items ELSE <<>>
Keys(n, k) == IF k \in DOMAIN n.at /\ n.at[k].kind = "map" THEN n.at[k].at ELSE Nothing
Values(ns) == Each(LAMBDA n : n.v, ns)

PairOf(n) == [name |-> Field(n, "name"), alias |-> Field(n, "alias")]

EntryOf(n) ==
  [key |-> Field(n, "api-key"), name |-> Field(n, "name"), base |-> Field(n, "base-url"), prefix |-> Field(n, "prefix"),
   headers |-> DOMAIN Keys(n, "headers"), models |-> Each(PairOf, Items(n, "models"))]

\* yaml.Unmarshal of the list
ListOf(root) ==
  LET amp == Mapping(Keys(root, "ampcode"))
  IN  CASE family = "api-keys" -> Values(Items(root, family))
        [] family \in EntryLists -> Each(EntryOf, Items(root, family))
        [] family = "model-mappings" ->
             Each(LAMBDA n : [from |-> Field(n, "from"), to |-> Field(n, "to")], Items(amp, family))
        [] family = "upstream-api-keys" ->
             Each(LAMBDA n : [key |-> Field(n, "upstream-api-key"), clients |-> Values(Items(n, "api-keys"))], Items(amp, family))
        [] family = "oauth-excluded-models" -> [c \in DOMAIN Keys(root, family) |-> Values(Keys(root, family)[c].items)]
        [] family = "oauth-model-alias" -> [c \in DOMAIN Keys(root, family) |-> Each(PairOf, Keys(root, family)[c].items)]

Sanitize(l) ==
  CASE family = "gemini-api-key" -> SanitizeGeminiKeys(l)
    [] family = "claude-api-key" -> SanitizeClaudeKeys(l)
    [] family = "codex-api-key"  -> SanitizeCodexKeys(l)
    [] family = "vertex-api-key" -> SanitizeVertexCompatKeys(l)
    [] family = "openai-compatibility"  -> SanitizeOpenAICompatibility(l)
    [] family = "oauth-excluded-models" -> NormalizeOAuthExcludedModels(l)
    [] family = "oauth-model-alias"     -> SanitizeOAuthModelAlias(l)
    [] OTHER -> l

Limit(v) == IF v = "-1" THEN "10" ELSE v

\* An empty file has the defaults.
LoadConfig(content) ==
  LET root == IF content = Torn THEN Mapping(Nothing) ELSE content
      has  == "error-logs-max-files" \in DOMAIN root.at
  IN  [list |-> Sanitize(ListOf(root)), limit |-> IF has THEN Limit(Field(root, "error-logs-max-files")) ELSE "10",
       strategy |-> Field(Mapping(Keys(root, "routing")), "strategy")]

------------------------------------------------------------------------------
(* Who handles what *)

PutList(l, e) ==
  CASE family = "api-keys" -> putStringList(l, e)
    [] family = "gemini-api-key" -> PutGeminiKeys(l, e)
    [] family = "claude-api-key" -> PutClaudeKeys(l, e)
    [] family = "codex-api-key" -> PutCodexKeys(l, e)
    [] family = "vertex-api-key" -> PutVertexCompatKeys(l, e)
    [] family = "openai-compatibility" -> PutOpenAICompat(l, e)
    [] family = "oauth-excluded-models" -> PutOAuthExcludedModels(l, e)
    [] family = "oauth-model-alias" -> PutOAuthModelAlias(l, e)
    [] family = "model-mappings" -> PutAmpModelMappings(l, e)
    [] family = "upstream-api-keys" -> PutAmpUpstreamAPIKeys(l, e)

PatchList(l, e) ==
  CASE family = "api-keys" -> patchStringList(l, e)
    [] family = "gemini-api-key" -> PatchGeminiKey(l, e)
    [] family = "claude-api-key" -> PatchClaudeKey(l, e)
    [] family = "codex-api-key" -> PatchCodexKey(l, e)
    [] family = "vertex-api-key" -> PatchVertexCompatKey(l, e)
    [] family = "openai-compatibility" -> PatchOpenAICompat(l, e)
    [] family = "oauth-excluded-models" -> PatchOAuthExcludedModels(l, e)
    [] family = "oauth-model-alias" -> PatchOAuthModelAlias(l, e)
    [] family = "model-mappings" -> PatchAmpModelMappings(l, e)
    [] family = "upstream-api-keys" -> PatchAmpUpstreamAPIKeys(l, e)

DeleteList(l, e) ==
  CASE family = "api-keys" -> deleteFromStringList(l, e)
    [] family = "gemini-api-key" -> DeleteGeminiKey(l, e)
    [] family = "claude-api-key" -> DeleteClaudeKey(l, e)
    [] family = "codex-api-key" -> DeleteCodexKey(l, e)
    [] family = "vertex-api-key" -> DeleteVertexCompatKey(l, e)
    [] family = "openai-compatibility" -> DeleteOpenAICompat(l, e)
    [] family = "oauth-excluded-models" -> DeleteOAuthExcludedModels(l, e)
    [] family = "oauth-model-alias" -> DeleteOAuthModelAlias(l, e)
    [] family = "model-mappings" -> DeleteAmpModelMappings(l, e)
    [] family = "upstream-api-keys" -> DeleteAmpUpstreamAPIKeys(l, e)

\* A PATCH that does not parse is refused by every handler.
Handle(l, e) ==
  CASE e.op = "put"    -> PutList(l, e)
    [] e.op = "patch"  -> IF e.readable THEN PatchList(l, e) ELSE Bad(l)
    [] e.op = "delete" -> DeleteList(l, e)

normalizeRoutingStrategy(s) ==
  CASE s \in {"", "rr", "round-robin"} -> "round-robin"
    [] s \in {"ff", "fill-first"} -> "fill-first"
    [] OTHER -> Nowhere

SetLimit(v) == IF v = "-1" THEN "10" ELSE v

\* PutErrorLogsMaxFiles and PutRoutingStrategy: the setting, or a refusal.
Set(c, e) ==
  CASE e.op = "limit"    -> [c EXCEPT !.limit = SetLimit(e.value)]
    [] e.op = "strategy" -> [c EXCEPT !.strategy = normalizeRoutingStrategy(e.value)]

Refused(e) == e.op = "strategy" /\ normalizeRoutingStrategy(e.value) = Nowhere

------------------------------------------------------------------------------
(* What clients send *)

Half == [name |-> "x", alias |-> ""]
Full == [name |-> "x", alias |-> "y"]
Hole == [name |-> "", alias |-> ""]

\* Entries of openai-compatibility have a name, the others a key.
Named == family = "openai-compatibility"

Entry(key, name, base, prefix, headers, models) ==
  [key |-> IF Named THEN "" ELSE key, name |-> IF Named THEN name ELSE "", base |-> base, prefix |-> prefix,
   headers |-> headers, models |-> models]

e1 == Entry("k1", "n1", "b", "p", {"h1", "h2"}, <<Full>>)
e2 == Entry("k2", "n2", "b", "", {"h1"}, <<>>)
e3 == Entry("k1", "n1", "c", "", {"h2"}, <<Full>>)
e4 == Entry(" k1", "n1", " b", "a/b", {Blank}, <<Full, Half, Hole>>)
e5 == Entry("", "", "", "", {}, <<>>)

Keyed(k, cs) == [key |-> k, clients |-> cs]
Renamed(f, t) == [from |-> f, to |-> t]

\* Lists as a file may have them, and as a client may send them.
ListValues ==
  CASE family = "api-keys" -> {<<>>, <<"k1">>, <<"k1", "k2", "k1">>, <<" k1", "">>}
    [] family \in EntryLists -> {<<>>, <<e1>>, <<e1, e2>>, <<e3, e1>>, <<e4, e2, e5>>}
    [] family = "model-mappings" -> {<<>>, <<Renamed("k1", "x")>>, <<Renamed("k1", "x"), Renamed(" k1", "y")>>}
    [] family = "upstream-api-keys" -> {<<>>, <<Keyed("k1", <<"c">>)>>, <<Keyed(" k1", <<" b">>), Keyed("k2", <<>>), Keyed(" ", <<"c">>)>>}
    [] family = "oauth-excluded-models" -> {<<>>, "A" :> <<"x", "x">>, ("a" :> <<"x">>) @@ ("c" :> <<"y">>), "c" :> <<" ">>}
    [] family = "oauth-model-alias" -> {<<>>, "A" :> <<Full, Full>>, ("a" :> <<Full>>) @@ ("c" :> <<Full, Half>>), "c" :> <<Half>>}

Puts == {[op |-> "put", readable |-> TRUE, wrapped |-> FALSE, items |-> l] : l \in ListValues}
        \cup {[op |-> "put", readable |-> r, wrapped |-> TRUE, items |-> <<>>] : r \in BOOLEAN}

Change == [key |-> <<>>, name |-> <<>>, base |-> <<>>, prefix |-> <<>>, headers |-> <<>>, models |-> <<>>]

Changes ==
  {[Change EXCEPT !.key = <<" ">>], [Change EXCEPT !.base = <<" ">>], [Change EXCEPT !.base = <<"c">>, !.name = <<"n2">>],
   [Change EXCEPT !.key = <<" k1">>, !.headers = <<{"h2", Blank}>>],
   [Change EXCEPT !.headers = <<{}>>, !.models = <<<<Full, Half, Hole>>>>, !.prefix = <<"a/b">>]}

\* An index, which may be too great, or the key or name of an entry.
Aims == {[index |-> <<2>>, match |-> <<>>], [index |-> <<>>, match |-> <<" ">>],
         [index |-> <<4>>, match |-> <<IF Named THEN "n1" ELSE " k1">>]}

Unparsed == [op |-> "patch", readable |-> FALSE]

Patches ==
  {Unparsed} \cup
  CASE family = "api-keys" ->
         {[op |-> "patch", readable |-> TRUE, index |-> i, value |-> v, old |-> o, new |-> <<"k3">>] :
            i \in {<<>>, <<2>>}, v \in {<<>>, <<"k3">>}, o \in {<<>>, <<"k1">>, <<"k2">>}}
    [] family \in EntryLists ->
         {[op |-> "patch", readable |-> TRUE, value |-> v] @@ a : v \in Changes, a \in Aims}
    [] family \in ChannelMaps ->
         {[op |-> "patch", readable |-> TRUE, channel |-> c, models |-> s] :
            c \in {"A", " ", "c"}, s \in UNION {{l[d] : d \in DOMAIN l} : l \in ListValues}}
    [] family \in AmpLists -> {[op |-> "patch", readable |-> TRUE, items |-> l] : l \in ListValues}

Deletes ==
  CASE family \in {"api-keys"} \cup EntryLists ->
         {[op |-> "delete", key |-> "", index |-> i] : i \in {<<>>, <<2>>, <<4>>}}
         \cup {[op |-> "delete", key |-> k, index |-> <<>>] : k \in {" k1", "k1", "n1"}}
    [] family \in ChannelMaps -> {[op |-> "delete", key |-> k] : k \in {"A", " ", "c"}}
    [] family \in AmpLists ->
         {[op |-> "delete", readable |-> r, keys |-> l] : r \in BOOLEAN, l \in {<<>>, <<" k1">>, <<" ">>}}

Settings == {[op |-> "limit", value |-> v] : v \in {"-1", "0", "5"}}
            \cup {[op |-> "strategy", value |-> v] : v \in {"", "ff", "other"}}

\* Files as users write them: with a key the program does not know, with one it no longer
\* knows, with a list that is null, with nothing at all.
Drawn(n, more) ==
  Mapping(more @@ Node("x-mine", Str("mine")) @@ Node("generative-language-api-key", Seqn(<<Str("k1")>>))
    @@ (IF family \in AmpLists THEN Node("ampcode", Mapping(Node(family, n))) ELSE Node(family, n)))

Files ==
  {Drawn(ListNode(l), Nothing) : l \in ListValues}
  \cup {Drawn(Null, Node("error-logs-max-files", Scalar("int", "5")) @@ Node("routing", Mapping(Node("strategy", Str("rr"))))),
        Mapping(Nothing)}

Inputs(r) ==
  IF r = Setter THEN Settings
  ELSE Puts \cup Patches \cup Deletes \cup {[op |-> "yaml", content |-> f] : f \in Files}

------------------------------------------------------------------------------
(* Requests *)

Idle == [op |-> "none"]

EditInit ==
  /\ family \in Families
  /\ file \in Files
  /\ conf = LoadConfig(file) /\ want = conf
  /\ hash = file /\ hashed = file
  /\ out = Torn /\ loaded = conf /\ held = <<>>
  /\ pc = [r \in Callers |-> "idle"] /\ input = [r \in Callers |-> Idle]
  /\ timer = FALSE /\ stage = "idle" /\ dirty = FALSE
  /\ crossed = FALSE /\ astray = FALSE /\ returned = FALSE
  /\ edits = 0

Goto(r, place) == pc' = [pc EXCEPT ![r] = place]
Answer(r) == Goto(r, "idle") /\ input' = [input EXCEPT ![r] = Idle]

Call(r) ==
  /\ pc[r] = "idle" /\ edits < MaxEdits
  /\ \E e \in Inputs(r) : input' = [input EXCEPT ![r] = e]
  /\ edits' = edits + 1
  /\ Goto(r, "body") /\ held' = IF r = Editor THEN <<>> ELSE held
  /\ UNCHANGED <<confVars, fileVars, reloadVars, ghosts>>

\* The body is read, the list is edited.
EditList ==
  LET e == input[Editor]
      res == Handle(IF held # <<>> THEN held[1] ELSE conf.list, e)
      wanted == Handle(want.list, e)
  IN  /\ pc[Editor] = "body" /\ e.op # "yaml"
      /\ IF res.code # 200 THEN Answer(Editor) /\ UNCHANGED <<conf, want, astray, dirty>>
         ELSE /\ Goto(Editor, "edited") /\ UNCHANGED input
              /\ conf' = IF held # <<>> THEN conf ELSE [conf EXCEPT !.list = res.list]
              /\ want' = [want EXCEPT !.list = wanted.list]
              /\ astray' = (astray \/ held # <<>>)
              /\ dirty' = TRUE
      /\ UNCHANGED <<family, fileVars, held, edits, timer, stage, loaded, hashed, hash, crossed, returned>>

EditSetting ==
  LET e == input[Setter]
  IN  /\ pc[Setter] = "body"
      /\ IF Refused(e) THEN Answer(Setter) /\ UNCHANGED <<conf, want, dirty>>
         ELSE /\ Goto(Setter, "edited") /\ UNCHANGED input
              /\ conf' = Set(conf, e) /\ want' = Set(want, e) /\ dirty' = TRUE
      /\ UNCHANGED <<family, fileVars, held, edits, timer, stage, loaded, hashed, hash, crossed, astray, returned>>

------------------------------------------------------------------------------
(* persist *)

\* What the merge does not take out of a file: headers of an entry that keeps others, the
\* last of Amp's upstream keys, and a zero that is not the default.
HeadersOf(n) == DOMAIN Keys(n, "headers")

Returns ==
  LET src == Render(conf)
  IN  \/ /\ family \in EntryLists
         /\ \E n \in ToSet(Items(file, family)), m \in ToSet(Items(src, family)) :
              SameElement(n, m) /\ HeadersOf(m) # {} /\ ~(HeadersOf(n) \subseteq HeadersOf(m))
      \/ family = "upstream-api-keys" /\ conf.list = <<>>
         /\ Items(Mapping(Keys(file, "ampcode")), family) # <<>>
      \/ conf.limit = "0" /\ "error-logs-max-files" \notin DOMAIN file.at

Unlocked == \A r \in Callers : pc[r] # "saving"

\* Under mu: the file is read and truncated.
Save(r) ==
  /\ pc[r] = "edited" /\ Unlocked
  /\ out' = SaveConfigPreserveComments(file, Render(conf))
  /\ file' = Torn /\ timer' = TRUE
  /\ returned' = (returned \/ Returns)
  /\ Goto(r, "saving")
  /\ UNCHANGED <<confVars, input, held, edits, stage, loaded, hashed, hash, dirty, want, crossed, astray>>

\* PutConfigYAML
Replace ==
  /\ pc[Editor] = "body" /\ input[Editor].op = "yaml" /\ Unlocked
  /\ out' = input[Editor].content
  /\ file' = Torn /\ timer' = TRUE /\ dirty' = TRUE
  /\ Goto(Editor, "saving")
  /\ UNCHANGED <<confVars, input, held, edits, stage, loaded, hashed, hash, ghosts>>

\* The file is written, the client is told; PutConfigYAML loads what it wrote, and edits of
\* the other client that are not saved yet go with the configuration they were made in.
Write(r) ==
  /\ pc[r] = "saving"
  /\ file' = out /\ timer' = TRUE
  /\ IF input[r].op = "yaml"
     THEN /\ conf' = LoadConfig(out) /\ want' = conf'
          /\ crossed' = (crossed \/ pc[Setter] = "edited") /\ dirty' = TRUE
     ELSE UNCHANGED <<conf, want, crossed, dirty>>
  /\ Answer(r)
  /\ UNCHANGED <<family, out, held, edits, stage, loaded, hashed, hash, astray, returned>>

------------------------------------------------------------------------------
(* The watcher *)

\* reloadConfigIfChanged: nothing to do for an empty file, or for the one of the last reload.
Fire ==
  /\ timer /\ stage = "idle" /\ timer' = FALSE
  /\ IF file \in {Torn, hash} THEN UNCHANGED <<stage, hashed>>
     ELSE stage' = "load" /\ hashed' = file
  /\ UNCHANGED <<confVars, fileVars, reqVars, loaded, hash, dirty, ghosts>>

\* The second look at the file, which may be another one by now.
Load ==
  /\ stage = "load" /\ stage' = "set"
  /\ loaded' = LoadConfig(file)
  /\ dirty' = (file = Torn \/ \E r \in Callers : pc[r] \in {"edited", "saving"})
  /\ UNCHANGED <<confVars, fileVars, reqVars, timer, hashed, hash, ghosts>>

\* What a request has read the address of: patchStringList and deleteFromStringList are given
\* &cfg.APIKeys before the body is read.
Waits == pc[Editor] = "body" /\ family = "api-keys" /\ input[Editor].op \in {"patch", "delete"}

SetConfig ==
  /\ stage = "set" /\ stage' = "idle"
  /\ conf' = loaded
  /\ hash' = IF file = Torn THEN hashed ELSE file
  /\ held' = IF Waits /\ held = <<>> THEN <<conf.list>> ELSE held
  /\ crossed' = (crossed \/ dirty)
  /\ UNCHANGED <<family, fileVars, pc, input, edits, timer, loaded, hashed, dirty, want, astray, returned>>

------------------------------------------------------------------------------

EditNext ==
  \/ \E r \in Callers : Call(r) \/ Save(r) \/ Write(r)
  \/ EditList \/ EditSetting \/ Replace
  \/ Fire \/ Load \/ SetConfig

EditSpec == EditInit /\ [][EditNext]_editVars

------------------------------------------------------------------------------
(* Properties *)

Settled == stage = "idle" /\ \A r \in Callers : pc[r] \in {"idle", "body"}
Lost    == crossed \/ astray \/ returned

\* GetRoutingStrategy takes no strategy for the default one.
Same(c, d) ==
  c.list = d.list /\ c.limit = d.limit /\ normalizeRoutingStrategy(c.strategy) = normalizeRoutingStrategy(d.strategy)

\* Whatever edits were made, in memory is what they amount to, and a reload or a restart
\* would find just that in the file, unless an edit was lost in one of the named ways.
EditsKept == Settled /\ ~Lost => Same(conf, want) /\ file # Torn /\ Same(LoadConfig(file), conf)

\* Nothing to trim and no half models, which loading leaves in some lists.
Neat(l) ==
  /\ family \in EntryLists => \A e \in ToSet(l) : {e.key, e.name, e.base} \cap DOMAIN Padded = {} /\ \A m \in ToSet(e.models) : Whole(m)
  /\ family = "upstream-api-keys" => \A e \in ToSet(l) : e.key # "" /\ (ToSet(e.clients) \cup {e.key}) \cap DOMAIN Padded = {}

\* What GET shows can be PUT back: nothing changes, so a client may edit what it was shown.
PutBack ==
  Settled /\ ~Lost /\ Neat(conf.list) =>
    Handle(conf.list, [op |-> "put", readable |-> TRUE, wrapped |-> FALSE, items |-> conf.list]) = Ok(conf.list)

\* What a request is about: an index, or what has the key it names.
Id(e) == CASE family = "api-keys" -> Trim(e)
           [] family = "openai-compatibility" -> e.name
           [] family = "model-mappings" -> Trim(e.from)
           [] family \in EntryLists \cup {"upstream-api-keys"} -> Trim(e.key)

Names(e, l) ==
  CASE e.op = "put" -> DOMAIN l
    [] family \in ChannelMaps -> {Trim(IF e.op = "patch" THEN e.channel ELSE e.key)}
    [] family = "api-keys" /\ e.op = "patch" -> IF Given(e.index) THEN {e.index[1]} \cup {i \in DOMAIN l : Given(e.old) /\ l[i] = e.old[1]}
                                                ELSE {i \in DOMAIN l : Given(e.old) /\ l[i] = e.old[1]}
    [] family \in AmpLists /\ e.op = "patch" -> {i \in DOMAIN l : \E n \in ToSet(e.items) : Id(n) = Id(l[i])}
    [] family \in AmpLists /\ e.op = "delete" ->
         IF e.keys = <<>> \/ ~e.readable THEN DOMAIN l ELSE {i \in DOMAIN l : Id(l[i]) \in {Trim(k) : k \in ToSet(e.keys)}}
    [] e.op = "patch" -> ToSet(e.index) \cup {i \in DOMAIN l : Given(e.match) /\ Id(l[i]) = Trim(e.match[1])}
    [] e.op = "delete" -> ToSet(e.index) \cup {i \in DOMAIN l : Id(l[i]) \in {e.key, Trim(e.key)}}

\* An edit of an entry or a channel leaves the others alone: they stay, as they were, in
\* their order; only an entry that a patch makes the same as another goes, one of the two.
Twins(a, b) == family \in {"gemini-api-key", "vertex-api-key"} /\ a.key = b.key

LeavesOthers(e, old, new) ==
  IF family \in ChannelMaps
  THEN \A c \in (DOMAIN old \cup DOMAIN new) \ Names(e, old) : c \in DOMAIN old \cap DOMAIN new /\ new[c] = old[c]
  ELSE LET rest == {i \in DOMAIN old \ Names(e, old) : ~\E j \in DOMAIN new : Twins(old[i], new[j]) /\ old[i] # new[j]}
           at(i) == {j \in DOMAIN new : new[j] = old[i]}
       IN  /\ \A i \in rest : at(i) # {}
           /\ \A i, j \in rest : i < j => \E x \in at(i), y \in at(j) : x < y
           /\ Len(new) <= Len(old) + (IF e.op = "delete" THEN 0 ELSE IF family \in AmpLists THEN Len(e.items) ELSE 1)

OnlyNamed ==
  [][conf'.list # conf.list /\ pc[Editor] = "body" /\ pc'[Editor] = "edited" /\ input[Editor].op # "put"
       => LeavesOthers(input[Editor], conf.list, conf'.list)]_editVars
=============================================================================
