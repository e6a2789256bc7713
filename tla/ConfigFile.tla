----------------------------- MODULE ConfigFile -----------------------------
(***************************************************************************)
(* The config file as a YAML tree, and how a configuration is saved into   *)
(* it (internal/config/config.go, SaveConfigPreserveComments): what is in  *)
(* memory is rendered and merged into the tree that is in the file, so     *)
(* that comments, order and keys the program does not know are kept.       *)
(*                                                                         *)
(* A node is a scalar, a sequence or a mapping.  Comments, styles and the  *)
(* order of keys are left out; Ranked stands for the order in which        *)
(* sequenceElementIdentity looks for a scalar that identifies an element.  *)
(***************************************************************************)
EXTENDS Naturals, Sequences, SequencesExt, FiniteSets, TLC

Scalar(tag, v) == [kind |-> "scalar", tag |-> tag, v |-> v]
Str(v) == Scalar("str", v)
Seqn(items) == [kind |-> "seq", items |-> items]
Mapping(at) == [kind |-> "map", at |-> at]
Null == Scalar("null", "")

\* f without the keys K.
Less(f, K) == [k \in DOMAIN f \ K |-> f[k]]

------------------------------------------------------------------------------
(* New keys: none that only say what holds without them *)

RECURSIVE isZeroValueNode(_)
isZeroValueNode(n) ==
  CASE n.kind = "scalar" -> \/ n.tag = "null"
                            \/ <<n.tag, n.v>> \in {<<"str", "">>, <<"int", "0">>, <<"bool", "false">>}
    [] n.kind = "seq"    -> \A i \in DOMAIN n.items : isZeroValueNode(n.items[i])
    [] n.kind = "map"    -> \A k \in DOMAIN n.at : isZeroValueNode(n.at[k])

Defaults == {<<<<"error-logs-max-files">>, Scalar("int", "10")>>,
             <<<<"routing", "strategy">>, Str("round-robin")>>}

isKnownDefaultValue(path, n) == isZeroValueNode(n) \/ <<path, n>> \in Defaults

Hollow(n) == (n.kind = "seq" /\ n.items = <<>>) \/ (n.kind = "map" /\ DOMAIN n.at = {})

RECURSIVE pruneKnownDefaultsInNewNode(_, _)
pruneKnownDefaultsInNewNode(path, n) ==
  CASE n.kind = "scalar" -> n
    [] n.kind = "seq"    -> Seqn([i \in DOMAIN n.items |-> pruneKnownDefaultsInNewNode(path, n.items[i])])
    [] n.kind = "map"    ->
         LET Child(k) == pruneKnownDefaultsInNewNode(Append(path, k), n.at[k])
             kept == {k \in DOMAIN n.at : ~isKnownDefaultValue(Append(path, k), n.at[k]) /\ ~Hollow(Child(k))}
         IN  Mapping([k \in kept |-> Child(k)])

------------------------------------------------------------------------------
(* Elements of a sequence keep their node when they can be told apart *)

Ranked == <<"name", "alias", "api-key", "base-url", "from", "upstream-api-key">>

sequenceElementIdentity(n) ==
  LET given == SelectSeq(Ranked, LAMBDA k : k \in DOMAIN n.at /\ n.at[k].kind = "scalar" /\ n.at[k].v # "")
  IN  IF given = <<>> THEN <<>> ELSE <<given[1], n.at[given[1]].v>>

\* Whether an element of the file is taken for target, and at the second try.
SameElement(n, target) ==
  /\ n.kind = target.kind
  /\ \/ n.kind = "map" /\ sequenceElementIdentity(target) # <<>>
        /\ sequenceElementIdentity(n) = sequenceElementIdentity(target)
     \/ n.kind = "scalar" /\ target.v # "" /\ n.v = target.v

First(S) == IF S = {} THEN 0 ELSE CHOOSE i \in S : \A j \in S : i <= j

matchSequenceElement(original, used, target) ==
  LET free  == DOMAIN original \ used
      named == First({i \in free : SameElement(original[i], target)})
  IN  IF named # 0 THEN named ELSE First({i \in free : original[i] = target})

\* For each element of src its node in dst, or 0.
reorderSequenceForMerge(dst, src) ==
  FoldLeft(LAMBDA found, target : Append(found, matchSequenceElement(dst, {found[i] : i \in DOMAIN found}, target)),
           <<>>, src)

------------------------------------------------------------------------------
(* Merging *)

pruneMissingMapKeys(dst, src) == Mapping(Less(dst.at, DOMAIN dst.at \ DOMAIN src.at))

\* An element of a sequence loses the keys it no longer has; what is in them does not.
Pruned(dst, src) == IF dst.kind = "map" /\ src.kind = "map" THEN pruneMissingMapKeys(dst, src) ELSE dst

RECURSIVE mergeNodePreserve(_, _, _), mergeMappingPreserve(_, _, _)
mergeMappingPreserve(dst, src, path) ==
  LET New(k) == pruneKnownDefaultsInNewNode(Append(path, k), src.at[k])
      new == {k \in DOMAIN src.at \ DOMAIN dst.at : ~isKnownDefaultValue(Append(path, k), New(k))}
  IN  Mapping([k \in DOMAIN dst.at \cup new |->
        CASE k \in new -> New(k)
          [] k \in DOMAIN src.at \ new -> mergeNodePreserve(dst.at[k], src.at[k], Append(path, k))
          [] OTHER -> dst.at[k]])
mergeNodePreserve(dst, src, path) ==
  CASE src.kind = "scalar" -> src
    [] src.kind = "map"    -> IF dst.kind = "map" THEN mergeMappingPreserve(dst, src, path) ELSE src
    [] src.kind = "seq"    ->
         IF dst.kind # "seq" THEN IF dst = Null /\ src.items = <<>> THEN dst ELSE src
         ELSE LET found == reorderSequenceForMerge(dst.items, src.items)
              IN  Seqn([i \in DOMAIN src.items |->
                    IF found[i] = 0 THEN src.items[i]
                    ELSE Pruned(mergeNodePreserve(dst.items[found[i]], src.items[i], path), src.items[i])])

------------------------------------------------------------------------------
(* Saving *)

LegacyKeys == {"auth", "generative-language-api-key", "amp-upstream-url", "amp-upstream-api-key",
               "amp-restrict-management-to-localhost", "amp-model-mappings"}

\* removeLegacyAuthBlock, removeLegacyAmpKeys, removeLegacyGenerativeLanguageKeys and
\* removeLegacyOpenAICompatAPIKeys.
removeLegacy(root) ==
  LET at == Less(root.at, LegacyKeys)
      Entry(n) == IF n.kind = "map" THEN Mapping(Less(n.at, {"api-keys"})) ELSE n
  IN  Mapping([k \in DOMAIN at |->
        IF k = "openai-compatibility" /\ at[k].kind = "seq"
        THEN Seqn([i \in DOMAIN at[k].items |-> Entry(at[k].items[i])]) ELSE at[k]])

\* Mutant: the channels that are gone stay in the file.
pruneMappingToGeneratedKeys_never(dst, src, key) == dst

\* Maps that are edited by key lose the keys that are gone.
pruneMappingToGeneratedKeys(dst, src, key) ==
  IF key \notin DOMAIN dst.at THEN dst
  ELSE IF key \notin DOMAIN src.at
       THEN IF key = "oauth-model-alias" THEN Mapping([dst.at EXCEPT ![key] = Mapping(<<>>)])
            ELSE Mapping(Less(dst.at, {key}))
       ELSE Mapping([dst.at EXCEPT ![key] =
              IF @.kind = "map" THEN pruneMissingMapKeys(@, src.at[key]) ELSE src.at[key]])

\* What is written when src is saved into a file that holds dst.
SaveConfigPreserveComments(dst, src) ==
  LET kept == removeLegacy(dst)
      once == pruneMappingToGeneratedKeys(kept, src, "oauth-excluded-models")
  IN  mergeMappingPreserve(pruneMappingToGeneratedKeys(once, src, "oauth-model-alias"), src, <<>>)
=============================================================================
