------------------------------ MODULE Prompts ------------------------------
(***************************************************************************)
(* From a repository's guideline documents to the prompt of each chunk:    *)
(* the configuration, the documents found and read, the rules extracted    *)
(* from them, the rules that apply to a path, and what of rules, retrieved *)
(* knowledge and evidence fits the prompt. The ranking of rules is kept in *)
(* a table of the process that outlives the review. The prompt to fix the  *)
(* findings, built after the review, is the second part.                   *)
(* A directory is the sequence of its names; sizes are small numbers.      *)
(***************************************************************************)
EXTENDS Integers, FiniteSets, Sequences, SequencesExt, FiniteSetsExt

CONSTANTS
  Checkouts,      \* the workspaces reviews may find: [config, docs, paths, manifests], documents in path order
  MaxDocs,        \* MAX_GUIDELINE_FILES_PER_REPO
  MaxTotalRules,  \* MAX_TOTAL_RULES
  MaxRulePaths,   \* MAX_CHANGED_PATHS
  PolicyMax,      \* DEFAULT_POLICY_MAX_TOKENS
  TotalBudget,    \* DEFAULT_TOTAL_BUDGET_TOKENS
  KnowledgeRoom,  \* MAX_KNOWLEDGE_CHARS
  EvidenceCap,    \* DEFAULT_ENTRY_CAP
  EvidenceRoom,   \* MAX_EVIDENCE_MANIFEST_TOKENS
  RankCacheMax,   \* RANK_CACHE_MAX
  GuidanceRoom,   \* MAX_PATH_INSTRUCTIONS_CHARS
  ManifestRoom,   \* MAX_MANIFEST_BLOCK_TOKENS
  PathLevel,      \* PATH_LEVEL_THRESHOLD
  DirLevel,       \* DIRECTORY_LEVEL_THRESHOLD
  Retrieved,      \* the sequences of knowledge a chunk may have retrieved
  ToolRows,       \* the tier-1 findings of the review
  MaxPrompted,    \* bound on the reviews of the process
  FixInputs,      \* the sequences of findings a fix prompt may be built from
  MaxFixFindings, \* MAX_FIX_PROMPT_FINDINGS
  FixRoom,        \* MAX_FIX_PROMPT_CHARS
  ThemeSizes      \* the sizes of the model's summary

ASSUME PromptsAssumption ==
  {MaxDocs, MaxTotalRules, MaxRulePaths, PolicyMax, TotalBudget, RankCacheMax, MaxPrompted} \subseteq Nat \ {0}

VARIABLES
  guideAt,   \* where the review is
  checkout,  \* the workspace under review
  repoConfig,  \* the configuration it was given
  ruleSets,  \* policyBundles: for each path with a bundle the rules that apply to it
  rulesCut,  \* truncated
  rankCache, \* RANK_CACHE
  prompts,   \* the prompts of this review
  prompted   \* how many reviews the process has begun

guideVars == <<guideAt, checkout, repoConfig, ruleSets, rulesCut, rankCache, prompts, prompted>>

TotalSize(s, cost(_)) == FoldLeft(LAMBDA n, x : n + cost(x), 0, s)
Rebuilt(s, of(_)) == FoldLeft(LAMBDA t, x : Append(t, of(x)), <<>>, s)
Flat(ss) == FoldLeft(LAMBDA t, s : t \o s, <<>>, ss)

(* The longest prefix that fits: both renderers of lists stop at the first   *)
(* entry that does not.                                                      *)
FitPrefix(s, cost(_), room) ==
  FoldLeft(LAMBDA a, x : IF ~a.full /\ a.used + cost(x) <= room
                         THEN [a EXCEPT !.out = Append(a.out, x), !.used = a.used + cost(x)]
                         ELSE [a EXCEPT !.full = TRUE],
           [out |-> <<>>, used |-> 0, full |-> FALSE], s).out

-----------------------------------------------------------------------------
(* Configuration and documents *)

Defaults == [knowledge |-> TRUE, filters |-> <<>>, custom |-> FALSE, advice |-> <<>>]

(* loadRepoConfigWithStatus: no file, or one that cannot be used, means the  *)
(* defaults.                                                                 *)
ConfigOf(w) == IF w.config.usable THEN w.config.value ELSE Defaults

(* filterReviewPaths: the last filter that matches decides; without one a    *)
(* path is kept unless there are inclusions.                                 *)
PathKept(fs, p) ==
  FoldLeft(LAMBDA kept, f : IF p \in f.hits THEN ~f.out ELSE kept, \A i \in DOMAIN fs : fs[i].out, fs)

(* matchPathInstructions *)
Advice(path) == SelectSeq(repoConfig.advice, LAMBDA a : path \in a.hits)

(* walkFiles: all but what lies in .git, node_modules and the like. *)
Walked(docs) == SelectSeq(docs, LAMBDA d : ~d.vendored)

(* matchesGuidelinePattern, with the patterns of the configuration added.    *)
Candidates(docs) == SelectSeq(Walked(docs), LAMBDA d : d.named = "default" \/ (d.named = "custom" /\ repoConfig.custom))

(* What a candidate must be to be taken: inside the workspace, readable, not *)
(* too long, not empty, UTF-8.                                               *)
Usable(d) == d.state = "good"

(* discoverGuidelineFiles stops when enough documents were taken.            *)
DiscoverGuidelines(docs) ==
  FoldLeft(LAMBDA a, d :
             IF a.hit \/ Len(a.files) >= MaxDocs THEN [a EXCEPT !.hit = TRUE]
             ELSE IF Usable(d) THEN [a EXCEPT !.files = Append(a.files, d)] ELSE a,
           [files |-> <<>>, hit |-> FALSE], Candidates(docs))

(* The rules of a section: its list items, and its paragraphs only when it   *)
(* has none.                                                                 *)
SectionBodies(s) ==
  IF \E i \in DOMAIN s : s[i].item THEN SelectSeq(s, LAMBDA b : b.item) ELSE s

(* A marker in a comment decides, else the first keyword found. *)
InferCategory(b) == IF b.marks.cat # "" THEN b.marks.cat ELSE b.cat
InferIntent(b) == IF b.marks.intent # "" THEN b.marks.intent ELSE b.intent

(* deriveRuleId: of the text only its normalised form, which has no comments *)
(* and so not the marker that sets the intent.                               *)
RuleId(d, k, b) == <<InferCategory(b), d.dir, k, b.text>>

ExtractRules(d) ==
  LET bodies == Flat(Rebuilt(d.sections, SectionBodies)) IN
  [k \in DOMAIN bodies |->
     [id |-> RuleId(d, k, bodies[k]), text |-> bodies[k].text, cat |-> InferCategory(bodies[k]), intent |-> InferIntent(bodies[k]),
      size |-> bodies[k].size, dir |-> d.dir]]

(* appendRulesCapped, and the loop's break: a document that fills the list   *)
(* exactly ends it without a word about the documents after it.              *)
AppendRulesCapped(a, rs) ==
  LET room == MaxTotalRules - Len(a.all) IN
  IF room <= 0 THEN a
  ELSE IF Len(rs) > room THEN [all |-> a.all \o SubSeq(rs, 1, room), capped |-> TRUE]
  ELSE [a EXCEPT !.all = a.all \o rs]

AllRules(files) ==
  FoldLeft(LAMBDA a, d : AppendRulesCapped(a, ExtractRules(d)), [all |-> <<>>, capped |-> FALSE], files)

-----------------------------------------------------------------------------
(* The rules of a path *)

CategoryRank(c) == CASE c = "security" -> 0 [] c = "testing" -> 2 [] OTHER -> 4
IntentRank(i) == CASE i = "forbid" -> 0 [] i = "require" -> 1 [] OTHER -> 2
Priority(r) == 4 - CategoryRank(r.cat)

(* walkAncestors *)
Governs(dir, path) == IsPrefix(dir, path)

LexLess(s, t) ==
  \E i \in DOMAIN s : s[i] < t[i] /\ \A j \in 1..(i - 1) : s[j] = t[j]

(* argMinStable: the highest priority, then the deepest, then (by id, here   *)
(* by position) the first.                                                   *)
Canonical(rs) ==
  LET key(i) == <<-Priority(rs[i]), -Len(rs[i].dir), i>> IN
  rs[CHOOSE i \in DOMAIN rs : \A j \in DOMAIN rs \ {i} : LexLess(key(i), key(j))]

(* resolveGuidance: the rules of the path's directories, one for each text,  *)
(* the deepest first.                                                        *)
ResolveGuidance(path, rules) ==
  LET inScope == SelectSeq(rules, LAMBDA r : Governs(r.dir, path))
      firsts  == SelectSeq([i \in DOMAIN inScope |-> i],
                   LAMBDA i : \A j \in 1..(i - 1) : inScope[j].text # inScope[i].text)
      found   == Rebuilt(firsts, LAMBDA i : Canonical(SelectSeq(inScope, LAMBDA r : r.text = inScope[i].text)))
      key(i)  == <<-Len(found[i].dir), -Priority(found[i]), i>>
      order   == SetToSortSeq(DOMAIN found, LAMBDA i, j : LexLess(key(i), key(j))) IN
  Rebuilt(order, LAMBDA i : found[i])

(* ComputedPolicyRulesV1.truncated *)
CutSaid(w) ==
  LET d == DiscoverGuidelines(w.docs) IN
  d.hit \/ AllRules(d.files).capped \/ Len(w.paths) > MaxRulePaths

NoCheckout == [config |-> [usable |-> FALSE], docs |-> <<>>, paths |-> <<>>, manifests |-> <<>>]

GuideInit ==
  /\ guideAt = "idle" /\ checkout = NoCheckout /\ repoConfig = Defaults
  /\ ruleSets = <<>> /\ rulesCut = FALSE /\ rankCache = <<>> /\ prompts = <<>> /\ prompted = 0

LoadRepoConfig ==
  /\ guideAt = "idle" /\ prompted < MaxPrompted
  /\ \E w \in Checkouts :
       /\ checkout' = w
       /\ repoConfig' = ConfigOf(w)
  /\ guideAt' = "policy" /\ prompted' = prompted + 1
  /\ ruleSets' = <<>> /\ rulesCut' = FALSE /\ prompts' = <<>>
  /\ UNCHANGED rankCache

(* computePolicyRules: one bundle for each of the first paths. *)
ComputePolicyRules ==
  /\ guideAt = "policy" /\ repoConfig.knowledge
  /\ LET d     == DiscoverGuidelines(checkout.docs)
         rules == AllRules(d.files).all
         paths == {checkout.paths[i] : i \in {j \in DOMAIN checkout.paths : j <= MaxRulePaths}} IN
     /\ ruleSets' = [p \in paths |-> ResolveGuidance(p, rules)]
     /\ rulesCut' = CutSaid(checkout)
  /\ guideAt' = "prompting"
  /\ UNCHANGED <<checkout, repoConfig, rankCache, prompts, prompted>>

(* The knowledge switch is off, or the activity failed (fail-open): the      *)
(* review goes on without rules.                                             *)
NoPolicyRules ==
  /\ guideAt = "policy"
  /\ guideAt' = "prompting"
  /\ UNCHANGED <<checkout, repoConfig, ruleSets, rulesCut, rankCache, prompts, prompted>>

-----------------------------------------------------------------------------
(* The prompt of a chunk *)

RankKey(r) == <<IntentRank(r.intent), CategoryRank(r.cat), -Priority(r), -Len(r.dir)>>

(* stableSortByRankKey *)
RankRules(rs) ==
  LET key(i) == Append(RankKey(rs[i]), i)
      order  == SetToSortSeq(DOMAIN rs, LAMBDA i, j : LexLess(key(i), key(j))) IN
  Rebuilt(order, LAMBDA i : rs[i])

RankCacheKey(rs) == Rebuilt(rs, LAMBDA r : r.id)

(* rankedRules: what was ranked under these ids before is taken as it was.   *)
RankedRules(cache, rs) ==
  IF RankCacheKey(rs) \in DOMAIN cache THEN cache[RankCacheKey(rs)] ELSE RankRules(rs)

(* Cleared when full. *)
Remembered(cache, rs) ==
  LET k    == RankCacheKey(rs)
      kept == IF Cardinality(DOMAIN cache) >= RankCacheMax THEN <<>> ELSE cache IN
  IF k \in DOMAIN cache THEN cache
  ELSE [x \in DOMAIN kept \cup {k} |-> IF x = k THEN RankRules(rs) ELSE kept[x]]

\* Mutant: only what is forbidden is kept over the budget.
NeverDrop_ForbidOnly(r) == r.intent = "forbid"

NeverDrop(r) == r.intent = "forbid" \/ r.cat = "security"

(* ruleTokenCost, knowledgeTokenCost: the text and a fixed overhead. *)
TokenCost(x) == x.size + 1

(* assemblePrompt, the rules: in rank order, what fits, and over the budget  *)
(* what may not be dropped.                                                  *)
AssembleRules(ranked) ==
  FoldLeft(LAMBDA a, r :
             IF a.used + TokenCost(r) <= PolicyMax
             THEN [a EXCEPT !.kept = Append(a.kept, r), !.used = a.used + TokenCost(r)]
             ELSE IF NeverDrop(r)
             THEN [a EXCEPT !.kept = Append(a.kept, r), !.used = a.used + TokenCost(r), !.forced = @ \cup {r.id}]
             ELSE [a EXCEPT !.dropped = Append(a.dropped, r)],
           [kept |-> <<>>, used |-> 0, forced |-> {}, dropped |-> <<>>], ranked)

(* ... and the knowledge: each chunk that fits what the rules left. *)
AssembleKnowledge(k, used) ==
  FoldLeft(LAMBDA a, c : IF TokenCost(c) <= a.left THEN [out |-> Append(a.out, c), left |-> a.left - TokenCost(c)] ELSE a,
           [out |-> <<>>, left |-> TotalBudget - used], k).out

(* renderRetrievedKnowledge *)
RenderKnowledge(k) == FitPrefix(k, LAMBDA c : c.size, KnowledgeRoom)

(* buildRetrievedEvidenceEntries: the chunk, its knowledge, the tools'       *)
(* findings, the other chunks, capped.                                       *)
BuildEvidence(path, k, topology) ==
  LET all == <<[kind |-> 0, of |-> path, size |-> 1]>>
               \o Rebuilt(k, LAMBDA c : [kind |-> 1, of |-> c.id, size |-> c.size])
               \o Rebuilt(ToolRows, LAMBDA f : [kind |-> 2, of |-> f.id, size |-> 1])
               \o Rebuilt(topology, LAMBDA p : [kind |-> 3, of |-> p, size |-> 1]) IN
  SubSeq(all, 1, IF Len(all) < EvidenceCap THEN Len(all) ELSE EvidenceCap)

(* renderEvidenceManifest: by kind, and no further than the room allows.     *)
RenderEvidence(es) ==
  LET order == SetToSortSeq(DOMAIN es, LAMBDA i, j : LexLess(<<es[i].kind, i>>, <<es[j].kind, j>>)) IN
  FitPrefix(Rebuilt(order, LAMBDA i : es[i]), LAMBDA e : e.size, EvidenceRoom)

(* The tools' findings on the chunk's own file: the ones it may contest.     *)
RenderTier1(path) == SelectSeq(ToolRows, LAMBDA f : f.file = path)

(* The directory a file is counted under when files are only counted.        *)
TopOf(path) == IF Len(path) > 1 THEN Head(path) ELSE "."

(* renderPrScopeSectionStable: files, or only their number in each top       *)
(* directory when there are too many; nothing of it depends on the chunk.    *)
PrScope(paths) ==
  LET chunks == Len(paths)
      files  == ToSet(paths) IN
  IF chunks <= PathLevel THEN {[name |-> p, n |-> Cardinality({i \in DOMAIN paths : paths[i] = p})] : p \in files}
  ELSE IF chunks <= DirLevel THEN {[name |-> p, n |-> 1] : p \in files}
  ELSE {[name |-> <<t>>, n |-> Cardinality({p \in files : TopOf(p) = t})] : t \in {TopOf(p) : p \in files}}

(* renderManifestsBlock, which says how many it left out. *)
RenderManifests(ms) ==
  LET out == FitPrefix(ms, LAMBDA m : m, ManifestRoom) IN [shown |-> out, dropped |-> Len(ms) - Len(out)]

(* renderPathInstructions *)
RenderAdvice(path) == FitPrefix(Advice(path), LAMBDA a : a.size, GuidanceRoom)

(* precedenceLabel, renderPolicyBlock *)
PolicyBlock(r, path) ==
  [id |-> r.id, intent |-> r.intent,
   from |-> IF r.dir = <<>> THEN "root" ELSE IF r.dir = Front(path) THEN "nearest" ELSE "ancestor"]

(* applyBudget *)
ApplyBudget(path, k) ==
  LET rules  == IF path \in DOMAIN ruleSets THEN ruleSets[path] ELSE <<>>
      fitted == AssembleRules(RankedRules(rankCache, rules)) IN
  [rules |-> rules, policy |-> fitted, texts |-> AssembleKnowledge(k, fitted.used)]

(* What every chunk sends first; the same bytes for all of them are cached.  *)
StablePrefix == <<PrScope(checkout.paths), RenderManifests(checkout.manifests)>>

(* evidenceIdsFromContext: all that was built, not what the manifest shows.  *)
CitableEvidence(path, k) == ToSet(BuildEvidence(path, k, checkout.paths))

(* buildPolicyCitationContext: the rules of all paths of the review.         *)
ValidRuleIds == UNION {{ruleSets[p][i].id : i \in DOMAIN ruleSets[p]} : p \in DOMAIN ruleSets}

(* buildCachedReviewPrompt. *)
PromptChunk(path, k) ==
  /\ guideAt = "prompting"
  /\ PathKept(repoConfig.filters, path) /\ path \in ToSet(checkout.paths) /\ path \notin DOMAIN prompts
  /\ LET fit == ApplyBudget(path, k) IN
     /\ prompts' = [q \in DOMAIN prompts \cup {path} |-> IF q # path THEN prompts[q] ELSE
          [prefix |-> StablePrefix, policy |-> fit.policy,
           blocks |-> Rebuilt(fit.policy.kept, LAMBDA r : PolicyBlock(r, path)),
           texts |-> fit.texts, shown |-> RenderKnowledge(fit.texts),
           evidence |-> RenderEvidence(BuildEvidence(path, k, checkout.paths)), citable |-> CitableEvidence(path, k),
           tier1 |-> RenderTier1(path), advice |-> RenderAdvice(path)]]
     /\ rankCache' = Remembered(rankCache, fit.rules)
  /\ UNCHANGED <<guideAt, checkout, repoConfig, ruleSets, rulesCut, prompted>>

EndPrompts ==
  /\ guideAt = "prompting"
  /\ guideAt' = "idle"
  /\ UNCHANGED <<checkout, repoConfig, ruleSets, rulesCut, rankCache, prompts, prompted>>

GuideNext ==
  \/ LoadRepoConfig \/ ComputePolicyRules \/ NoPolicyRules \/ EndPrompts
  \/ \E w \in Checkouts, k \in Retrieved : \E p \in ToSet(w.paths) : PromptChunk(p, k)

-----------------------------------------------------------------------------
(* The prompt to fix the findings *)

VARIABLES fixIn, fixOut

fixVars == <<fixIn, fixOut>>

NoPrompt == [shown |-> <<>>, footer |-> FALSE, themes |-> 0, mode |-> "none", count |-> 0]
FixInit == fixIn = <<>> /\ fixOut = NoPrompt

FixLess(fs, i, j) == LexLess(<<-fs[i].sev, fs[i].file, i>>, <<-fs[j].sev, fs[j].file, j>>)

(* severityTruncate: the worst first; one is taken whatever its size.        *)
SeverityTruncate(fs) ==
  LET order   == SetToSortSeq(DOMAIN fs, LAMBDA i, j : FixLess(fs, i, j))
      ordered == Rebuilt(order, LAMBDA i : fs[i]) IN
  FoldLeft(LAMBDA a, f :
             IF a.full \/ Len(a.out) >= MaxFixFindings \/ (a.out # <<>> /\ a.used + f.guess > FixRoom)
             THEN [a EXCEPT !.full = TRUE]
             ELSE [a EXCEPT !.out = Append(a.out, f), !.used = a.used + f.guess],
           [out |-> <<>>, used |-> 0, full |-> FALSE], ordered).out

(* renderWith: the findings' real sizes and the summary. *)
FixSize(fs, themes) == TotalSize(fs, LAMBDA f : f.size) + themes

(* The loop that drops findings from the tail until the rendered prompt fits. *)
FixTrim(fs, themes) ==
  LET fits == {n \in 0..Len(fs) : FixSize(SubSeq(fs, 1, n), themes) <= FixRoom}
      n    == CHOOSE m \in fits \cup {0} : \A o \in fits : o <= m IN
  SubSeq(fs, 1, n)

(* buildFixPromptDeterministic *)
RenderFix(fs, total, themes) ==
  LET out == FixTrim(fs, themes) IN
  [shown |-> out, footer |-> Len(fs) < total \/ Len(out) < Len(fs), themes |-> themes]

(* buildFixPrompt: the prompt without a summary, when the model fails, says  *)
(* nothing, or says more than there is room for; the count is that of        *)
(* severityTruncate.                                                         *)
BuildFixPrompt(fs, answer) ==
  LET included == SeverityTruncate(fs)
      base     == RenderFix(included, Len(fs), 0)
      rich     == RenderFix(included, Len(fs), answer)
      prompt   == IF answer > 0 /\ FixSize(rich.shown, answer) <= FixRoom THEN rich ELSE base IN
  [shown |-> prompt.shown, footer |-> prompt.footer, themes |-> prompt.themes,
   mode |-> IF answer > 0 THEN "llm" ELSE "fallback", count |-> Len(included)]

(* An answer of size 0 stands for none: a failed call, or no themes block.   *)
FixNext ==
  /\ fixOut.mode = "none"
  /\ \E fs \in FixInputs, answer \in ThemeSizes :
       fixIn' = fs /\ fixOut' = BuildFixPrompt(fs, answer)

-----------------------------------------------------------------------------
(* What the prompts promise *)

ShownIds(p) == {p.policy.kept[i].id : i \in DOMAIN p.policy.kept}

(* A rule of this review whose id the ranking table holds with another       *)
(* content.                                                                  *)
Outdated(p, r) ==
  \E s \in ToSet(p.policy.kept) \cup ToSet(p.policy.dropped) : s.id = r.id /\ s # r

(* A rule that forbids something or is about security is in the prompt of    *)
(* every chunk of its paths, however little room there is, unless the table  *)
(* of rankings held an older version of it (assemblePrompt's guarantee).     *)
SafetyRulesShown ==
  \A path \in DOMAIN prompts \cap DOMAIN ruleSets :
    \A r \in ToSet(ruleSets[path]) :
      (r.intent = "forbid" \/ r.cat = "security") =>
        r.id \in ShownIds(prompts[path]) \/ Outdated(prompts[path], r)

(* No rule is dropped while a lower-ranked one of at least its size is kept  *)
(* within the budget, and nothing is shown that the validator would reject.  *)
RankDecides ==
  \A path \in DOMAIN prompts :
    LET pol == prompts[path].policy IN
    /\ \A i \in DOMAIN pol.dropped, j \in DOMAIN pol.kept :
         /\ LexLess(RankKey(pol.dropped[i]), RankKey(pol.kept[j]))
         /\ pol.kept[j].id \notin pol.forced
         => pol.kept[j].size < pol.dropped[i].size
    /\ ShownIds(prompts[path]) \subseteq ValidRuleIds

(* Rules forced in come out of the room for knowledge, never on top of it;   *)
(* a shown piece of evidence is citable, and none is left out for one of a   *)
(* lesser kind.                                                              *)
BudgetKept ==
  \A path \in DOMAIN prompts :
    LET p == prompts[path] IN
    /\ p.texts # <<>> => p.policy.used + TotalSize(p.texts, TokenCost) <= TotalBudget
    /\ ToSet(p.evidence) \subseteq p.citable
    /\ \A e \in p.citable \ ToSet(p.evidence), i \in DOMAIN p.evidence : p.evidence[i].kind <= e.kind

(* The prefix accounts for every file of the pull request, which is what the *)
(* model is told of it ("authoritative for PR file existence"), and all      *)
(* chunks of a review send the same one.                                     *)
PrefixComplete ==
  /\ \A p, q \in DOMAIN prompts : prompts[p].prefix = prompts[q].prefix
  /\ \A p \in DOMAIN prompts :
       LET scope == prompts[p].prefix[1] IN
       \/ {e.name : e \in scope} = ToSet(checkout.paths)
       \/ MapThenSumSet(LAMBDA e : e.n, scope) = Cardinality(ToSet(checkout.paths))

(* A path with no rules, in a review that computed them, has none, or the    *)
(* result says that it was cut, or the last document read filled it exactly. *)
CutIsSaid ==
  LET files == DiscoverGuidelines(checkout.docs).files
      every == Flat(Rebuilt(SelectSeq(Candidates(checkout.docs), Usable), ExtractRules)) IN
  (guideAt = "prompting" /\ ruleSets # <<>>) =>
    \A p \in ToSet(checkout.paths) : \A i \in DOMAIN every :
      Governs(every[i].dir, p) =>
        \/ rulesCut
        \/ p \in DOMAIN ruleSets /\ \E j \in DOMAIN ruleSets[p] : ruleSets[p][j].text = every[i].text
        \/ Len(AllRules(files).all) = MaxTotalRules /\ ~AllRules(files).capped

(* The fix prompt shows the worst findings: none is left out for a lesser    *)
(* one; it says so when some are; and it fits.                               *)
FixPromptHonest ==
  fixOut.mode # "none" =>
    /\ \A f \in ToSet(fixIn) \ ToSet(fixOut.shown), g \in ToSet(fixOut.shown) : f.sev <= g.sev
    /\ Len(fixOut.shown) < Len(fixIn) => fixOut.footer
    /\ FixSize(fixOut.shown, fixOut.themes) <= FixRoom

(* The prompts carry what they must, fit, and say what they leave out        *)
(* (prompt_assembler, prompt_builder, compute_policy_rules, fix prompts).    *)
PromptsSound ==
  SafetyRulesShown /\ RankDecides /\ BudgetKept /\ PrefixComplete /\ CutIsSaid /\ FixPromptHonest
=============================================================================
