------------------------------ MODULE Thinking ------------------------------
(***************************************************************************)
(* How much the upstream's model shall think.  A request says so in its    *)
(* body or in a suffix of the model's name; ApplyThinking reads it, fits   *)
(* it to what the model supports, and writes it in the upstream's format.  *)
(***************************************************************************)
EXTENDS Integers, Sequences, SequencesExt

Unset == -9          \* a number that is not there

\* What a body says of thinking: "type" is Claude's and Kimi's thinking.type and iFlow's switch,
\* "level" the effort or thinkingLevel, "include" Gemini's includeThoughts, and "most" the tokens
\* the answer may have.
Silent == [type |-> "", budget |-> Unset, level |-> "", include |-> "", most |-> Unset]

\* A thinking configuration, and the one of a request without
Config(mode, budget, level) == [mode |-> mode, budget |-> budget, level |-> level]
Nothing   == Config("budget", 0, "")
ModeNone  == Config("none", 0, "")
ModeAuto  == Config("auto", -1, "")
Refusal   == Config("refused", 0, "")
hasThinkingConfig(c) == c # Nothing

GeminiFamily == {"gemini", "gemini-cli", "antigravity"}
OpenAIFamily == {"openai", "openai-response", "codex"}
isSameProviderFamily(from, to) ==
  from = to \/ {from, to} \subseteq GeminiFamily \/ {from, to} \subseteq OpenAIFamily

------------------------------------------------------------------------------
(* Levels and budgets *)

standardLevelOrder == <<"minimal", "low", "medium", "high", "xhigh", "max">>

levelToBudgetMap ==
  [none |-> 0, auto |-> -1, minimal |-> 512, low |-> 1024, medium |-> 8192, high |-> 24576,
   xhigh |-> 32768, max |-> 128000]

ConvertBudgetToLevel(budget) ==
  CASE budget < -1     -> ""
    [] budget = -1     -> "auto"
    [] budget = 0      -> "none"
    [] budget \in 1..512      -> "minimal"
    [] budget \in 513..1024   -> "low"
    [] budget \in 1025..8192  -> "medium"
    [] budget \in 8193..24576 -> "high"
    [] OTHER           -> "xhigh"

MapToClaudeEffort(level, supportsMax) ==
  CASE level = "minimal"           -> "low"
    [] level \in {"xhigh", "max"}  -> IF supportsMax THEN "max" ELSE "high"
    [] level = "auto"              -> "high"
    [] OTHER                       -> level

levelIndex(level) == SelectInSeq(standardLevelOrder, LAMBDA l : l = level)

\* The nearest level that is supported, the lower of two
clampLevel(level, levels) ==
  LET Dist(i) == IF i > levelIndex(level) THEN i - levelIndex(level) ELSE levelIndex(level) - i
      known   == {levelIndex(levels[k]) : k \in DOMAIN levels} \ {0}
  IN IF level \in ToSet(levels) \/ levelIndex(level) = 0 \/ known = {} THEN level
     ELSE standardLevelOrder[CHOOSE i \in known :
            \A j \in known : Dist(i) < Dist(j) \/ (Dist(i) = Dist(j) /\ i <= j)]

clampBudget_open(budget, model) ==
  IF budget = -1 THEN budget
  ELSE IF budget = 0 THEN IF model.zero THEN 0 ELSE model.min
  ELSE IF budget > model.max /\ model.max # 0 THEN model.max ELSE budget

clampBudget(budget, model) ==
  IF budget = -1 THEN budget
  ELSE IF budget = 0 THEN IF model.zero THEN 0 ELSE model.min
  ELSE IF model.min = 0 /\ model.max = 0 THEN budget
  ELSE IF budget < model.min THEN model.min
  ELSE IF budget > model.max THEN model.max ELSE budget

------------------------------------------------------------------------------
(* What a request asks for *)

OfBudget(budget) ==
  CASE budget = 0 -> ModeNone [] budget = -1 -> ModeAuto [] OTHER -> Config("budget", budget, "")
OfLevel(level) ==
  CASE level = "none" -> ModeNone [] level = "auto" -> ModeAuto [] OTHER -> Config("level", 0, level)

extractClaudeConfig(b) ==
  CASE b.type = "disabled"  -> ModeNone
    [] b.type = "adaptive"  -> IF b.level = "" THEN Nothing ELSE OfLevel(b.level)
    [] b.type \notin {"disabled", "adaptive"} /\ b.budget # Unset -> OfBudget(b.budget)
    [] b.type = "enabled" /\ b.budget = Unset -> ModeAuto
    [] OTHER -> Nothing

extractGeminiConfig(b) ==
  CASE b.level # "" -> OfLevel(b.level)
    [] b.level = "" /\ b.budget # Unset -> OfBudget(b.budget)
    [] OTHER -> Nothing

extractOpenAIConfig(b) ==
  CASE b.level = ""     -> Nothing
    [] b.level = "none" -> ModeNone
    [] OTHER            -> Config("level", 0, b.level)

extractCodexConfig(b) == extractOpenAIConfig(b)

extractIFlowConfig(b) ==
  CASE b.type = "enabled"  -> Config("budget", 1, "")
    [] b.type = "disabled" -> ModeNone
    [] OTHER               -> Nothing

extractThinkingConfig(b, format) ==
  CASE format = "claude"            -> extractClaudeConfig(b)
    [] format \in GeminiFamily      -> extractGeminiConfig(b)
    [] format \in {"openai", "kimi"} -> extractOpenAIConfig(b)
    [] format = "codex"             -> extractCodexConfig(b)
    [] format = "iflow"             -> IF extractIFlowConfig(b) # Nothing THEN extractIFlowConfig(b)
                                       ELSE extractOpenAIConfig(b)
    [] OTHER                        -> Nothing

\* A suffix is a word or a number; a word that is no level says nothing.
parseSuffixToConfig(suffix) ==
  CASE suffix.level \in {"none", "auto"}           -> OfLevel(suffix.level)
    [] suffix.level \in ToSet(standardLevelOrder)  -> Config("level", 0, suffix.level)
    [] suffix.level = "" /\ suffix.budget >= -1    -> OfBudget(suffix.budget)
    [] OTHER                                       -> Nothing

------------------------------------------------------------------------------
(* What the model supports *)

detectModelCapability(model) ==
  LET hasBudget == model.min > 0 \/ model.max > 0
      hasLevels == model.levels # <<>>
  IN CASE hasBudget /\ hasLevels -> "hybrid" [] hasBudget /\ ~hasLevels -> "budget"
       [] ~hasBudget /\ hasLevels -> "level" [] OTHER -> "none"

\* In the terms of the model, if it knows only the one or the other
InModelTerms(c, model) ==
  CASE detectModelCapability(model) = "budget" /\ c.mode = "level" /\ c.level # "auto" ->
         IF c.level \in DOMAIN levelToBudgetMap THEN Config("budget", levelToBudgetMap[c.level], "")
         ELSE Refusal
    [] detectModelCapability(model) = "level" /\ c.mode = "budget" ->
         IF ConvertBudgetToLevel(c.budget) = "" THEN Refusal
         ELSE Config("level", 0, clampLevel(ConvertBudgetToLevel(c.budget), model.levels))
    [] OTHER -> c

Special(c) ==
  CASE c.mode = "level" /\ c.level \in {"none", "auto"} -> OfLevel(c.level)
    [] c.mode = "budget" /\ c.budget = 0                -> ModeNone
    [] OTHER                                            -> c

WithLevelSupported(c, model, sameFamily) ==
  LET level == IF sameFamily THEN c.level ELSE clampLevel(c.level, model.levels)
  IN IF c.mode # "level" \/ model.levels = <<>> THEN c
     ELSE IF level \in ToSet(model.levels) THEN [c EXCEPT !.level = level] ELSE Refusal

OutOfRange(c, model) ==
  c.mode = "budget" /\ (model.min # 0 \/ model.max # 0) /\ c.budget \notin model.min..model.max

convertAutoToMidRange(model) ==
  LET mid == (model.min + model.max) \div 2 IN
  CASE detectModelCapability(model) = "level"     -> Config("level", 0, "medium")
    [] detectModelCapability(model) # "level" /\ mid > 0 -> Config("budget", mid, "")
    [] OTHER -> IF model.zero THEN ModeNone ELSE Config("budget", model.min, "")

\* A model that cannot stop thinking thinks as little as it can.
Clamped(c, model) ==
  LET budget == clampBudget(c.budget, model)
  IN CASE c.mode = "level" -> c
       [] c.mode = "none" /\ budget > 0 /\ model.levels # <<>> -> Config("none", budget, model.levels[1])
       [] OTHER -> [c EXCEPT !.budget = budget]

\* The level of a validated configuration; what is out of range is refused within a family.
Ranged(c, model, to) ==
  IF c.mode = "none" /\ to = "claude" THEN ModeNone ELSE Clamped(c, model)

Settled(c, model, to, strict) ==
  CASE c = Refusal \/ (strict /\ OutOfRange(c, model)) -> Refusal
    [] c.mode = "auto" /\ ~model.dynamic -> Ranged(convertAutoToMidRange(model), model, to)
    [] OTHER -> Ranged(c, model, to)

ValidateTerms(config, terms, model, from, to, fromSuffix) ==
  LET same    == isSameProviderFamily(from, to)
      derived == config.mode = "level" /\ terms.mode = "budget"
  IN IF terms = Refusal THEN Refusal
     ELSE Settled(WithLevelSupported(Special(terms), model, same), model, to, same /\ ~fromSuffix /\ ~derived)

ValidateConfig(config, model, from, to, fromSuffix) ==
  ValidateTerms(config, InModelTerms(config, model), model, from, to, fromSuffix)

------------------------------------------------------------------------------
(* How the upstream is told *)

Disabled(b)        == [b EXCEPT !.type = "disabled", !.budget = Unset, !.level = ""]
Adaptive(b, level) == [b EXCEPT !.type = "adaptive", !.budget = Unset, !.level = level]
Enabled(b, budget) == [b EXCEPT !.type = "enabled", !.budget = budget, !.level = ""]

effectiveMaxTokens(b, model) == IF b.most # Unset THEN b.most ELSE model.most

\* A budget stays below the tokens of the answer, unless it would be less than the model takes.
normalizeClaudeBudget(b, model) ==
  LET most   == effectiveMaxTokens(b, model)
      budget == IF most > 0 /\ b.budget >= most THEN most - 1 ELSE b.budget
      capped == IF most > 0 THEN [b EXCEPT !.most = most] ELSE b
  IN IF b.budget <= 0 THEN b
     ELSE IF model.min > 0 /\ budget \in 1..model.min - 1 THEN capped
     ELSE [capped EXCEPT !.budget = budget]

applyCompatibleClaude(b, c) ==
  CASE c.mode = "none"   -> Disabled(b)
    [] c.mode = "auto"   -> Enabled(b, Unset)
    [] c.mode = "level"  -> Adaptive(b, c.level)
    [] c.mode = "budget" -> Enabled(b, c.budget)

ApplyClaude(b, c, model) ==
  LET adaptive == model.levels # <<>>
      budget   == CASE c.mode = "budget" -> c.budget
                    [] c.mode = "level" /\ c.level \in DOMAIN levelToBudgetMap -> levelToBudgetMap[c.level]
                    [] OTHER -> Unset
  IN CASE model.user                     -> applyCompatibleClaude(b, c)
       [] ~model.user /\ c.mode = "none" -> Disabled(b)
       [] ~model.user /\ c.mode = "auto" -> IF adaptive THEN Adaptive(b, "") ELSE Enabled(b, Unset)
       [] ~model.user /\ c.mode = "level" /\ adaptive -> Adaptive(b, c.level)
       [] OTHER -> IF budget = Unset THEN b ELSE IF budget = 0 THEN Disabled(b)
                   ELSE normalizeClaudeBudget(Enabled(b, budget), model)

\* What the client said of thoughts in the answer stands.
Include(b, default) == IF b.include = "" THEN default ELSE b.include

applyLevelFormat_keeps(b, c) ==
  IF c.mode = "none"
  THEN [b EXCEPT !.include = "no", !.level = IF c.level = "" THEN @ ELSE c.level]
  ELSE [b EXCEPT !.include = Include(b, "yes"), !.level = c.level]

applyLevelFormat(b, c) ==
  IF c.mode = "none"
  THEN [b EXCEPT !.budget = Unset, !.include = "no", !.level = IF c.level = "" THEN @ ELSE c.level]
  ELSE [b EXCEPT !.budget = Unset, !.include = Include(b, "yes"), !.level = c.level]

applyBudgetFormat(b, c) ==
  LET default == IF c.mode = "auto" \/ c.budget > 0 THEN "yes" ELSE "no"
  IN [b EXCEPT !.level = "", !.budget = c.budget,
               !.include = IF c.mode = "none" THEN "no" ELSE Include(b, default)]

ApplyGemini(b, c, model) ==
  LET byLevel == \/ c.mode = "level"
                 \/ c.mode = "none" /\ IF model.user THEN c.level # "" ELSE model.levels # <<>>
  IN IF byLevel THEN applyLevelFormat(b, c) ELSE applyBudgetFormat(b, c)

ApplyGeminiCLI(b, c, model) == ApplyGemini(b, c, model)

\* Claude's models behind Antigravity: a budget the model does not take is not sent at all.
ApplyToClaudeModel(b, c, model) ==
  LET most   == effectiveMaxTokens(b, model)
      budget == IF most > 0 /\ c.budget >= most THEN most - 1 ELSE c.budget
  IN IF model.min > 0 /\ budget \in 0..model.min - 1
     THEN [b EXCEPT !.budget = Unset, !.level = "", !.include = ""]
     ELSE applyBudgetFormat([b EXCEPT !.most = IF most > 0 THEN most ELSE @], [c EXCEPT !.budget = budget])

ApplyAntigravity(b, c, model) ==
  LET byLevel == CASE model.user  -> c.mode = "level" \/ (c.mode = "none" /\ c.level # "")
                   [] ~model.user -> c.mode \in {"level", "none"} /\ model.levels # <<>>
  IN IF byLevel THEN applyLevelFormat(b, c)
     ELSE IF model.claude THEN ApplyToClaudeModel(b, c, model) ELSE applyBudgetFormat(b, c)

Effort(b, level) == IF level = "" THEN b ELSE [b EXCEPT !.level = level]

applyCompatibleOpenAI(b, c) ==
  Effort(b, CASE c.mode = "level" -> c.level
              [] c.mode = "none"  -> IF c.level = "" THEN "none" ELSE c.level
              [] c.mode = "auto"  -> "auto"
              [] c.mode = "budget" -> ConvertBudgetToLevel(c.budget))

\* The OpenAI and the Codex applier; what is neither a level nor "none" is left as it was sent.
ApplyOpenAI(b, c, model) ==
  LET off == c.budget = 0 /\ (model.zero \/ "none" \in ToSet(model.levels)) IN
  CASE model.user                        -> applyCompatibleOpenAI(b, c)
    [] ~model.user /\ c.mode = "level"   -> [b EXCEPT !.level = c.level]
    [] ~model.user /\ c.mode = "none"    -> Effort(b, IF off THEN "none" ELSE IF c.level # "" THEN c.level
                                                      ELSE IF model.levels # <<>> THEN model.levels[1] ELSE "")
    [] OTHER                             -> b

ApplyCodex(b, c, model) == ApplyOpenAI(b, c, model)

\* Known models of Kimi and others alike
ApplyKimi(b, c) ==
  IF c.mode = "none" /\ c.level \in {"", "none"} THEN [b EXCEPT !.type = "disabled", !.level = ""]
  ELSE LET effort == CASE c.mode \in {"level", "none"} -> c.level
                       [] c.mode = "auto"             -> "auto"
                       [] c.mode = "budget"           -> ConvertBudgetToLevel(c.budget)
       IN IF effort = "" THEN b ELSE [b EXCEPT !.type = "", !.level = effort]

configToBoolean(c) ==
  CASE c.mode = "none"   -> FALSE
    [] c.mode = "auto"   -> TRUE
    [] c.mode = "budget" -> c.budget > 0
    [] c.mode = "level"  -> c.level # "none"

ApplyIFlow(b, c, model) ==
  IF model.user \/ ~model.switch THEN b
  ELSE [b EXCEPT !.type = IF configToBoolean(c) THEN "enabled" ELSE "disabled"]

Apply(b, c, model, to) ==
  CASE to = "claude"                   -> ApplyClaude(b, c, model)
    [] to = "gemini"                   -> ApplyGemini(b, c, model)
    [] to = "gemini-cli"               -> ApplyGeminiCLI(b, c, model)
    [] to = "antigravity"              -> ApplyAntigravity(b, c, model)
    [] to = "openai"                   -> ApplyOpenAI(b, c, model)
    [] to = "codex"                    -> ApplyCodex(b, c, model)
    [] to = "kimi"                     -> ApplyKimi(b, c)
    [] to = "iflow"                    -> ApplyIFlow(b, c, model)

------------------------------------------------------------------------------
StripThinkingConfig(b, to) ==
  CASE to \in GeminiFamily      -> [b EXCEPT !.level = "", !.budget = Unset, !.include = ""]
    [] to \in {"openai", "codex"} -> [b EXCEPT !.level = ""]
    [] OTHER                    -> [b EXCEPT !.type = "", !.budget = Unset, !.level = ""]

Outcome(body, refused) == [body |-> body, refused |-> refused]

normalizeUserDefinedConfig(c, to) ==
  IF c.mode = "level" /\ to \in GeminiFamily /\ c.level \in DOMAIN levelToBudgetMap
  THEN Config("budget", levelToBudgetMap[c.level], "") ELSE c

\* The body has the upstream's fields: in terms of the client's format it says something only
\* where both have the same.
applyUserDefinedModel(b, suffix, model, from, to) ==
  LET shared   == from = to \/ {from, to} \subseteq {"gemini-cli", "antigravity"}
                            \/ {from, to} \subseteq {"openai", "iflow", "kimi"}
      inClient == IF shared THEN extractThinkingConfig(b, from) ELSE Nothing
      c        == IF suffix # <<>> THEN parseSuffixToConfig(suffix[1])
                  ELSE IF inClient # Nothing THEN inClient ELSE extractThinkingConfig(b, to)
  IN IF hasThinkingConfig(c) THEN Apply(b, normalizeUserDefinedConfig(c, to), model, to) ELSE b

Applied(b, v, model, to) ==
  IF v = Refusal THEN Outcome(b, TRUE) ELSE Outcome(Apply(b, v, model, to), FALSE)

applyConfig(b, c, model, from, to, fromSuffix) ==
  IF hasThinkingConfig(c) THEN Applied(b, ValidateConfig(c, model, from, to, fromSuffix), model, to)
  ELSE Outcome(b, FALSE)

ApplyThinking(b, suffix, model, from, to) ==
  CASE model.user -> Outcome(applyUserDefinedModel(b, suffix, model, from, to), FALSE)
    [] ~model.user /\ ~model.thinks ->
         Outcome(IF hasThinkingConfig(extractThinkingConfig(b, to)) THEN StripThinkingConfig(b, to) ELSE b, FALSE)
    [] OTHER ->
         applyConfig(b, IF suffix # <<>> THEN parseSuffixToConfig(suffix[1]) ELSE extractThinkingConfig(b, to),
                     model, from, to, suffix # <<>>)
=============================================================================
