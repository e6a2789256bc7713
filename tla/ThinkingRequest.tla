--------------------------- MODULE ThinkingRequest ---------------------------
(***************************************************************************)
(* A client's wish for thinking on its way to the upstream: in the fields  *)
(* of its own format or in a suffix of the model's name, through the       *)
(* request translator and then through ApplyThinking.                      *)
(***************************************************************************)
EXTENDS Thinking

CONSTANTS
  Routes,          \* <<upstream format, client format, model>>
  WishedLevels,    \* the levels clients name, known to the program or not
  WishedBudgets,   \* the budgets clients name
  WishedTokens     \* the tokens Claude's clients allow the answer

\* talk: what the rest of the request has, a tool that must be called or unsigned thinking;
\* "none" before there is a request
VARIABLES path, wish, suffix, talk, sent

thinkingVars == <<path, wish, suffix, talk, sent>>

Idle   == Outcome(Silent, FALSE)

------------------------------------------------------------------------------
(* The wishes, and what the translators make of them *)

Claude(type, budget, level, most) ==
  [Silent EXCEPT !.type = type, !.budget = budget, !.level = level, !.most = most]
Gemini(budget, level, include) == [Silent EXCEPT !.budget = budget, !.level = level, !.include = include]
OfEffort(level) == [Silent EXCEPT !.level = level]

Wishes(client) ==
  CASE client = "claude" ->
         {Claude(type, Unset, "", most) : type \in {"", "disabled", "enabled", "adaptive"}, most \in WishedTokens}
         \cup {Claude("enabled", budget, "", most) : budget \in WishedBudgets, most \in WishedTokens}
         \cup {Claude("adaptive", Unset, level, most) : level \in WishedLevels, most \in WishedTokens}
    [] client \in {"gemini", "gemini-cli"} ->
         {Gemini(budget, "", include) : budget \in WishedBudgets \cup {Unset}, include \in {"", "yes", "no"}}
         \cup {Gemini(Unset, level, include) : level \in WishedLevels, include \in {"", "yes", "no"}}
    [] OTHER -> {OfEffort(level) : level \in WishedLevels \cup {""}}

NameSuffixes == {<<>>} \cup {<<[level |-> level, budget |-> Unset]>> : level \in WishedLevels}
                   \cup {<<[level |-> "", budget |-> budget]>> : budget \in WishedBudgets}

supportsAdaptive(model) == model.levels # <<>> /\ ~model.user
supportsMax(model)      == "max" \in ToSet(model.levels)

\* Chat completions and Responses to Claude; the answer may have 32000 tokens unless they say otherwise.
EffortToClaude(w, model) ==
  LET b == [Silent EXCEPT !.most = 32000] IN
  IF w.level = "" THEN b
  ELSE IF supportsAdaptive(model)
  THEN CASE w.level = "none" -> Disabled(b)
         [] w.level = "auto" -> Adaptive(b, "")
         [] OTHER            -> Adaptive(b, MapToClaudeEffort(w.level, supportsMax(model)))
  ELSE CASE w.level = "none" -> Disabled(b)
         [] w.level = "auto" -> Enabled(b, Unset)
         [] w.level \notin {"none", "auto"} /\ w.level \in DOMAIN levelToBudgetMap ->
              Enabled(b, levelToBudgetMap[w.level])
         [] OTHER            -> b

GeminiToClaude(w, model) ==
  LET b     == [Silent EXCEPT !.most = 32000]
      level == IF w.level # "" THEN w.level ELSE ConvertBudgetToLevel(w.budget)
  IN IF w.level = "" /\ w.budget = Unset
     THEN IF w.include = "yes" THEN [b EXCEPT !.type = "enabled"] ELSE b
     ELSE IF level = "none" THEN Disabled(b)
     ELSE IF supportsAdaptive(model)
     THEN IF level = "" THEN b ELSE Adaptive(b, MapToClaudeEffort(level, supportsMax(model)))
     ELSE IF w.level = "" THEN Enabled(b, IF w.budget = -1 THEN Unset ELSE w.budget)
     ELSE IF level = "auto" THEN Enabled(b, Unset)
     ELSE IF level \in DOMAIN levelToBudgetMap THEN Enabled(b, levelToBudgetMap[level])
     ELSE b

\* A Claude client that turns thinking off is not heard.
ClaudeToGemini(w, model, up) ==
  LET b == [Silent EXCEPT !.most = IF up = "antigravity" THEN w.most ELSE Unset] IN
  CASE w.type = "enabled" /\ w.budget # Unset -> [b EXCEPT !.budget = w.budget, !.include = "yes"]
    [] w.type = "adaptive" /\ w.level # ""    -> [b EXCEPT !.level = w.level, !.include = "yes"]
    [] w.type = "adaptive" /\ w.level = "" /\ up = "gemini" /\ ~model.user /\ model.max > 0 ->
         [b EXCEPT !.budget = model.max, !.include = "yes"]
    [] w.type = "adaptive" /\ w.level = "" /\ ~(up = "gemini" /\ ~model.user /\ model.max > 0) ->
         [b EXCEPT !.level = "high", !.include = "yes"]
    [] OTHER -> b

ChatToGemini(w) ==
  CASE w.level = ""     -> Silent
    [] w.level = "auto" -> Gemini(-1, "", "yes")
    [] OTHER            -> Gemini(Unset, w.level, IF w.level = "none" THEN "no" ELSE "yes")

ClaudeToEffort(w, default, open) ==
  CASE w.type = "enabled" /\ w.budget # Unset ->
         OfEffort(IF ConvertBudgetToLevel(w.budget) = "" THEN default ELSE ConvertBudgetToLevel(w.budget))
    [] w.type = "enabled" /\ w.budget = Unset -> OfEffort(open)
    [] w.type = "adaptive" -> OfEffort(IF w.level = "" THEN "xhigh" ELSE w.level)
    [] w.type = "disabled" -> OfEffort("none")
    [] OTHER               -> OfEffort(default)

GeminiToEffort(w, default) ==
  LET level == IF w.level # "" THEN w.level
               ELSE IF w.budget = Unset THEN "" ELSE ConvertBudgetToLevel(w.budget)
  IN OfEffort(IF level = "" THEN default ELSE level)

\* Each translator's section
ChatToClaude(w, model)      == EffortToClaude(w, model)
ResponsesToClaude(w, model) == EffortToClaude(w, model)

ClaudeToPlainGemini(w, model) == ClaudeToGemini(w, model, "gemini")
ClaudeToCLI(w, model)         == ClaudeToGemini(w, model, "gemini-cli")
\* Next to thinking without a signature none is asked for.
ClaudeToAntigravity(w, model, about) ==
  ClaudeToGemini(IF about = "unsigned" THEN [w EXCEPT !.type = ""] ELSE w, model, "antigravity")
ChatToCLI(w)         == ChatToGemini(w)
ChatToAntigravity(w) == ChatToGemini(w)
ResponsesToGemini(w) == ChatToGemini(w)

ClaudeToCodex(w)  == ClaudeToEffort(w, "medium", "medium")
ClaudeToOpenAI(w) == ClaudeToEffort(w, "", "auto")
GeminiToCodex(w)  == GeminiToEffort(w, "medium")
GeminiToOpenAI(w) == GeminiToEffort(w, "")
ChatToCodex(w)    == IF w.level = "" THEN OfEffort("medium") ELSE w
ResponsesToChat(w) == w

Translated(up, client, w, model, about) ==
  CASE up = client \/ (up \in GeminiFamily /\ client = "gemini") -> w
    [] up = "claude" /\ client = "chat"           -> ChatToClaude(w, model)
    [] up = "claude" /\ client = "responses"      -> ResponsesToClaude(w, model)
    [] up = "claude" /\ client = "gemini"         -> GeminiToClaude(w, model)
    [] up = "gemini" /\ client = "claude"         -> ClaudeToPlainGemini(w, model)
    [] up = "gemini-cli" /\ client = "claude"     -> ClaudeToCLI(w, model)
    [] up = "antigravity" /\ client = "claude"    -> ClaudeToAntigravity(w, model, about)
    [] up = "gemini" /\ client = "chat"           -> ChatToGemini(w)
    [] up = "gemini-cli" /\ client = "chat"       -> ChatToCLI(w)
    [] up = "antigravity" /\ client = "chat"      -> ChatToAntigravity(w)
    [] up \in GeminiFamily /\ client = "responses" -> ResponsesToGemini(w)
    [] up = "codex" /\ client = "claude"          -> ClaudeToCodex(w)
    [] up = "codex" /\ client = "gemini"          -> GeminiToCodex(w)
    [] up = "codex" /\ client = "chat"            -> ChatToCodex(w)
    [] up = "codex" /\ client = "responses"       -> w
    [] up \notin {"codex", "claude"} \cup GeminiFamily /\ client = "claude" -> ClaudeToOpenAI(w)
    [] up \notin {"codex", "claude"} \cup GeminiFamily /\ client = "gemini" -> GeminiToOpenAI(w)
    [] OTHER                                      -> ResponsesToChat(w)

FormatOf(client) == CASE client = "chat" -> "openai" [] client = "responses" -> "openai-response" [] OTHER -> client

\* Claude takes no thinking next to a tool that must be called.
disableThinkingIfToolChoiceForced(o, up, about) ==
  IF o.refused \/ up # "claude" \/ about # "forced" THEN o ELSE [o EXCEPT !.body = StripThinkingConfig(@, "claude")]

Result(r, w, s, about) ==
  disableThinkingIfToolChoiceForced(
    ApplyThinking(Translated(r[1], r[2], w, r[3], about), s, r[3], FormatOf(r[2]), r[1]), r[1], about)

Talks(r) == {"plain"} \cup (IF r[1] = "claude" THEN {"forced"} ELSE {})
                     \cup (IF r[1] = "antigravity" /\ r[2] = "claude" THEN {"unsigned"} ELSE {})

------------------------------------------------------------------------------
ThinkingInit == path \in Routes /\ wish = Silent /\ suffix = <<>> /\ talk = "none" /\ sent = Idle

Ask ==
  /\ talk = "none"
  /\ \E w \in Wishes(path[2]), s \in NameSuffixes, about \in Talks(path) :
       /\ wish' = w /\ suffix' = s /\ talk' = about
       /\ sent' = Result(path, w, s, about)
  /\ UNCHANGED path

ThinkingNext == Ask

ThinkingSpec == ThinkingInit /\ [][ThinkingNext]_thinkingVars

------------------------------------------------------------------------------
(* How much is asked for: 0 is none, -1 as much as the model likes, Unset is not said, and a
   level nobody knows is Unknown. *)

Unknown == -8

AmountOf(c) ==
  CASE c = Nothing        -> Unset
    [] c.mode = "none"    -> 0
    [] c.mode = "auto"    -> -1
    [] c.mode = "budget"  -> c.budget
    [] c.mode = "level"   -> IF c.level \in DOMAIN levelToBudgetMap THEN levelToBudgetMap[c.level] ELSE Unknown

\* What a body says to who knows its format well
Amount(b, format) ==
  CASE format \in {"openai-response", "openai", "codex"} -> AmountOf(IF b.level = "" THEN Nothing ELSE OfLevel(b.level))
    [] format = "kimi" -> IF b.type = "disabled" THEN 0 ELSE AmountOf(IF b.level = "" THEN Nothing ELSE OfLevel(b.level))
    [] format = "iflow" -> CASE b.type = "enabled" -> -1 [] b.type = "disabled" -> 0 [] OTHER -> Unset
    [] format = "claude" /\ b.type = "adaptive" /\ b.level = "" -> -1
    [] OTHER -> AmountOf(extractThinkingConfig(b, format))

\* A suffix counts if it is understood; with one that is not, the body's wish goes out unchecked.
Named   == suffix # <<>> /\ parseSuffixToConfig(suffix[1]) # Nothing
Checked == path[3].thinks /\ (suffix = <<>> \/ Named)
Wanted  == IF Named THEN AmountOf(parseSuffixToConfig(suffix[1])) ELSE Amount(wish, FormatOf(path[2]))
Got     == Amount(sent.body, path[1])

\* As little as the model can; a Claude model thinks only if it is told to.
Least ==
  LET model == path[3] IN
  IF ~Checked \/ path[1] = "claude" \/ model.zero \/ "none" \in ToSet(model.levels) THEN {0, IF model.claude THEN Unset ELSE 0}
  ELSE IF model.levels # <<>> THEN {levelToBudgetMap[model.levels[1]]}
  ELSE {model.min}

\* What is not asked for is not sent, what is turned off is off or as low as the model goes, and
\* what is turned on is on.
Heard ==
  CASE ~path[3].user /\ ~path[3].thinks -> Got = Unset
    [] Wanted = Unset                   -> Got = Unset
    [] Wanted = 0                       -> Got \in Least
    [] OTHER                            -> Got \notin {0, Unset}

\* Where it is not so: Codex thinks unless it is told not to, iFlow's switch is all there is, and
\* some translators know no way to say it.
Unheard ==
  LET up == path[1]  client == path[2]  model == path[3]  able == model.user \/ model.thinks
  IN \/ up = "codex" /\ client # "responses" /\ Wanted = Unset /\ able
     \/ up = "iflow" /\ ~Checked /\ Wanted # Unset /\ able
     \/ ~Named /\ client = "claude" /\ up \in GeminiFamily /\ able
          /\ \/ wish.type = "disabled" /\ ~model.claude
             \/ wish.type = "enabled" /\ wish.budget = Unset
     \/ ~Named /\ talk = "unsigned" /\ able /\ Wanted # Unset /\ (Wanted = 0 => ~model.claude)
     \/ ~Named /\ client = "gemini" /\ up = "claude" /\ able /\ Wanted = Unset /\ wish.include = "yes"
     \/ ~Named /\ client # "claude" /\ up = "claude" /\ able /\ ~supportsAdaptive(model) /\ Wanted = Unknown
     \/ up = "claude" /\ client = "claude" /\ ~able /\ wish.type = "adaptive" /\ wish.level = ""
     \/ /\ model.claude /\ Checked /\ wish.most # Unset /\ wish.most <= model.min
        /\ Wanted > 0 \/ (~Named /\ wish.type = "adaptive" /\ wish.level = "")

\* What the upstream's model takes
Fitting(b, model, up) ==
  CASE up = "claude" ->
         /\ b.type = "enabled"  => b.budget \in model.min..model.max /\ b.budget < b.most
         /\ b.type = "adaptive" => model.levels # <<>> /\ (b.level = "" \/ b.level \in ToSet(model.levels))
    [] up \in GeminiFamily ->
         /\ b.level # ""     => b.level \in ToSet(model.levels) /\ b.budget = Unset
         /\ b.budget # Unset => \/ b.budget \in model.min..model.max \ {0}
                                \/ b.budget = 0 /\ model.zero
                                \/ b.budget = -1 /\ model.dynamic
    [] up \in {"openai", "codex"} -> b.level # "" => b.level \in ToSet(model.levels)
    [] up = "kimi" -> b.level \in {"", "auto"} \cup ToSet(standardLevelOrder)
    [] OTHER -> TRUE

\* Where it is not so: the answer may have fewer tokens than the model's least budget; and a
\* Claude client may say "adaptive" to a model that does not know the word.
Misfits ==
  LET b == sent.body  model == path[3] IN
  path[1] = "claude" /\ \/ b.type = "enabled" /\ b.budget # Unset /\ b.most <= model.min
                        \/ b.type = "adaptive" /\ b.level = "" /\ path[2] = "claude" /\ ~Named /\ model.levels = <<>>

\* Who asks for thinking, in whichever format and place, gets it from the upstream's model or is
\* refused, who does not gets none, and the request is one the model takes; but for the cases
\* Unheard and Misfits name.
Carried ==
  talk \notin {"none", "forced"} /\ ~sent.refused =>
    /\ Heard <=> ~Unheard
    /\ Checked => (Fitting(sent.body, path[3], path[1]) <=> ~Misfits)

Told(b, up) == IF up = "iflow" THEN b.type ELSE <<b.type, b.budget, b.level>>

\* In the same words
Comparable(w, v) == w.type = v.type /\ w.most = v.most /\ w.include = v.include /\ (w.level = "") = (v.level = "")

\* "suffix config takes priority": what the body says besides changes nothing.
SuffixDecides(w, s, other) ==
  Named /\ s = suffix /\ w.most = wish.most =>
    other.refused = sent.refused /\ (~sent.refused => Told(other.body, path[1]) = Told(sent.body, path[1]))

\* Through every conversion between levels and budgets, and every limit of the model: who asks
\* for more is never given less.
MoreAsked(w, s) ==
  IF Named THEN /\ w = wish /\ s # <<>> /\ (s[1].level = "") = (suffix[1].level = "")
                /\ AmountOf(parseSuffixToConfig(s[1])) > Wanted
  ELSE s = suffix /\ Comparable(w, wish) /\ Amount(w, FormatOf(path[2])) > Wanted

Ordered(w, s, other) ==
  Wanted > 0 /\ ~sent.refused /\ MoreAsked(w, s) /\ ~other.refused => Amount(other.body, path[1]) >= Got

\* The same client with another wish, beside the one that was sent
MoreIsMore ==
  talk # "none" /\ Checked =>
    \A w \in Wishes(path[2]), s \in NameSuffixes :
      w = wish \/ s = suffix =>
        \A other \in {Result(path, w, s, talk)} : SuffixDecides(w, s, other) /\ Ordered(w, s, other)
=============================================================================
