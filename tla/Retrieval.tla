----------------------------- MODULE Retrieval ------------------------------
(***************************************************************************)
(* What a chunk of a diff is reviewed with: two searches of the            *)
(* repository's documents and one of the wiki, fused, cleared of near      *)
(* duplicates, the mandatory documents set first, and the rest reranked by *)
(* a model that may be away; and the cached row that tells the wiki search *)
(* which generation of vectors to read, refreshed by overlapping searches. *)
(***************************************************************************)
EXTENDS Naturals, FiniteSets, Sequences, SequencesExt

CONSTANTS
  RepoTexts, WikiTexts,   \* the stored chunks: [id, source, words, labels, adr, size, age]
  Exposed,                \* labels the platform exposes, "default" among them
  PrFiles, Frameworks,    \* changed files [lang, infra, kind]; labels of the frameworks manifests name
  Askable,                \* labels a repository's configuration may name
  PreFusion, AskFor,      \* PRE_FUSION_TOP_K and the activity's top_k
  RerankTop, SubmitTop,   \* RERANK_TOP_K and the reranker's top_n
  AlikePercent,           \* NEAR_DUPLICATE_THRESHOLD
  TokenBudget, RrfK,
  Searchers,              \* searches of one process that share its cached row
  CacheTtl, MaxNow, MaxMoves  \* REFRESH_TTL_SECONDS in ticks; bounds on the clock and the row

ASSUME RetrievalAssumption ==
  /\ {PreFusion, AskFor, RerankTop, SubmitTop, AlikePercent, TokenBudget, RrfK} \subseteq Nat \ {0}
  /\ "default" \in Exposed /\ CacheTtl \in Nat
  /\ RerankTop <= AskFor
  /\ \A d \in RepoTexts \cup WikiTexts : d.age \in Nat
  /\ (\A d \in RepoTexts : d.source = "repo") /\ \A d \in WikiTexts : d.source = "wiki"

VARIABLES
  ask,      \* the query: how far it is, what it may see, what has answered
  row,      \* the runtime-state row: its version, and when it last moved
  snap,     \* this process's snapshot of it: version, observedAt; how long its reads took
  search,   \* each search that refreshes the snapshot
  now

askVars == <<ask>>
cacheVars == <<row, snap, search, now>>

Unanswered == [got |-> FALSE, hits |-> <<>>, bad |-> FALSE]
NoAsk == [at |-> "idle", hybrid |-> FALSE, vector |-> FALSE, labels |-> {},
          who |-> "identity", bm25 |-> Unanswered,
          ann |-> Unanswered, wiki |-> Unanswered, starved |-> {}, lead |-> <<>>, rest |-> <<>>,
          items |-> <<>>, bad |-> FALSE]

RetrievalInit == ask = NoAsk

Cut(s, n) == SubSeq(s, 1, IF Len(s) < n THEN Len(s) ELSE n)
(* A finite set in the order of a relation, and a sequence without some of   *)
(* its entries.                                                              *)
Sorted(S, R) == CHOOSE s \in [1..Cardinality(S) -> S] : \A i, j \in DOMAIN s : i < j => <<s[i], s[j]>> \in R
Without(s, T) == FoldLeft(LAMBDA kept, d : IF d \in T THEN kept ELSE Append(kept, d), <<>>, s)
Orders(S, n) == UNION {{s \in [1..k -> S] : IsInjective(s)} : k \in 0..n}

-----------------------------------------------------------------------------
(* The pull request as the detectors see it: every changed file and the       *)
(* manifests, or the chunk's own file alone when enrichment is missing.       *)
PickPrContext(enriched, files, deps, chunkFile) ==
  IF enriched THEN [files |-> files, deps |-> deps] ELSE [files |-> {chunkFile}, deps |-> {}]

(* Generated and vendored files say nothing about a pull request; tests do. *)
Telling(files) == {f \in files : f.kind \notin {"generated", "vendored"}}

LanguageLabels(ctx)  == {f.lang : f \in Telling(ctx.files)} \ {""}
InfraLabels(ctx)     == {f.infra : f \in Telling(ctx.files)} \ {""}
FrameworkLabels(ctx) == ctx.deps

DetectLabels(ctx) == LanguageLabels(ctx) \cup FrameworkLabels(ctx) \cup InfraLabels(ctx) \cup {"default"}

(* What a query may see: the detected labels as far as the platform exposes   *)
(* them; a repository may add exposed labels and take any away.               *)
EffectiveLabels_AnyInclude(ctx, include, exclude) ==
  ((DetectLabels(ctx) \cap Exposed) \cup include) \ exclude

EffectiveLabels(ctx, include, exclude) ==
  ((DetectLabels(ctx) \cap Exposed) \cup (include \cap Exposed)) \ exclude

Weight(l) == CASE l = "framework" -> 5 [] l = "security" -> 4 [] l = "lang" -> 3 [] l = "default" -> 1 [] OTHER -> 0

(* The weights of the labels that chunk and query share. *)
MatchSpecificity(d, labels) ==
  LET Counted(l) == IF l \in d.labels \cap labels THEN Weight(l) ELSE 0
  IN  Counted("framework") + Counted("security") + Counted("lang") + Counted("default")

(* shouldUseHybrid: the wiki is asked only about a query that was embedded,  *)
(* with a configuration and exposed labels to judge by.                     *)
ShouldUseHybrid(context, vector) == context /\ vector /\ Exposed # {}

Ask ==
  /\ ask.at = "idle"
  /\ \E files \in SUBSET PrFiles, deps \in SUBSET Frameworks, own \in PrFiles, include, exclude \in SUBSET Askable,
        enriched, context, vector \in BOOLEAN :
       LET ctx == PickPrContext(enriched, files, deps, own)
           hybrid == ShouldUseHybrid(context, vector)
       IN ask' = [NoAsk EXCEPT !.at = IF hybrid THEN "resolve" ELSE "search", !.vector = vector, !.hybrid = hybrid,
                               !.labels = IF hybrid THEN EffectiveLabels(ctx, include, exclude) ELSE {}]

(* HybridRetriever.shouldComposeConfluence, once the activity chose it. *)
ComposesWiki == ask.hybrid /\ ask.labels # {} /\ ask.vector

(* The row's settings, else the environment's when it names a model, else     *)
(* disabled; a row that cannot be read counts as none.                        *)
RerankEnv == {"none", "disabled", "enabled"}

EffectiveRerankConfig(stored, env) ==
  IF stored # "none" THEN stored ELSE IF env # "none" THEN env ELSE "disabled"

BedrockOverride(stored, env) == EffectiveRerankConfig(stored, env) = "enabled"

(* Bedrock's reranker when it is enabled, else the model's when its switch is *)
(* on, else the order as it is.                                               *)
ResolveReranker ==
  /\ ask.at = "resolve"
  /\ \E stored, env \in RerankEnv, llm \in BOOLEAN :
       ask' = [ask EXCEPT !.at = "search",
                          !.who = IF BedrockOverride(stored, env) THEN "bedrock" ELSE IF llm THEN "llm" ELSE "identity"]

-----------------------------------------------------------------------------
(* The searches run at once and answer in any order; each returns active    *)
(* chunks of the repository, best first.                                    *)
Answered(f, hits, bad) == ask' = [ask EXCEPT ![f] = [got |-> TRUE, hits |-> hits, bad |-> bad]]

Bm25Answers == /\ ask.at = "search" /\ ~ ask.bm25.got
               /\ \E hits \in Orders(RepoTexts, PreFusion) : Answered("bm25", hits, FALSE)

AnnAnswers == /\ ask.at = "search" /\ ~ ask.ann.got
              /\ \E hits \in Orders(RepoTexts, PreFusion) : Answered("ann", hits, FALSE)

(* Without a vector the query is embedded first: an embedder that is away,   *)
(* limits the rate or is not configured leaves an empty, degraded result.    *)
AnnNoEmbedder == ask.at = "search" /\ ~ ask.ann.got /\ ~ ask.vector /\ Answered("ann", <<>>, TRUE)

(* A failing repository search rejects the whole retrieval. *)
SearchThrows ==
  /\ ask.at = "search" /\ ~ (ask.bm25.got /\ ask.ann.got)
  /\ ask' = [NoAsk EXCEPT !.at = "failed"]

(* The wiki's chunks carry a visible label; their specificity is computed    *)
(* from the labels they share with the query.                                *)
WikiAnswers ==
  /\ ask.at = "search" /\ ComposesWiki /\ ~ ask.wiki.got
  /\ \E hits \in Orders({d \in WikiTexts : d.labels \cap ask.labels # {}}, PreFusion) : Answered("wiki", hits, FALSE)

WikiFails == ask.at = "search" /\ ComposesWiki /\ ~ ask.wiki.got /\ Answered("wiki", <<>>, TRUE)

-----------------------------------------------------------------------------
(* rrfCombine: a chunk's score is the sum of 1 / (k + rank) over the lists   *)
(* it is in; equal scores keep the order the chunks were met in.             *)
RankIn(s, d) == CHOOSE i \in DOMAIN s : s[i] = d

RrfScore(s, t, d) ==
  LET a == IF d \in Range(s) THEN RrfK + RankIn(s, d) ELSE 0
      b == IF d \in Range(t) THEN RrfK + RankIn(t, d) ELSE 0
  IN CASE a = 0 -> <<1, b>> [] b = 0 -> <<1, a>> [] OTHER -> <<a + b, a * b>>

(* Of two fractions the larger first, of equal ones the earlier. *)
ByScore(sc) ==
  {x \in (DOMAIN sc) \X (DOMAIN sc) :
     LET i == x[1]
         j == x[2]
     IN  \/ sc[i][1] * sc[j][2] > sc[j][1] * sc[i][2]
         \/ sc[i][1] * sc[j][2] = sc[j][1] * sc[i][2] /\ i < j}

RrfCombine(s, t, n) ==
  LET met   == s \o Without(t, Range(s))
      order == Sorted(DOMAIN met, ByScore([i \in DOMAIN met |-> RrfScore(s, t, met[i])]))
  IN  Cut([k \in DOMAIN met |-> met[order[k]]], n)

(* mergeSources: what says nearly the same as a chunk already kept goes; a   *)
(* text too short to compare is never a duplicate. Repository first.         *)
Alike(d, e) ==
  /\ d.words # {} /\ e.words # {}
  /\ 100 * Cardinality(d.words \cap e.words) >= AlikePercent * Cardinality(d.words \cup e.words)

Consider(kept, d) == IF \E k \in Range(kept) : Alike(k, d) THEN kept ELSE Append(kept, d)

MergeSources(known, wiki) == FoldLeft(Consider, <<>>, known \o wiki)

(* priorityTier: 1 security policy, 2 a repository's ADR, 3 framework,        *)
(* 4 language, 5 the rest. Chunks of the repository carry no labels.         *)
PriorityTier(d) ==
  CASE "security" \in d.labels -> 1
    [] d.source = "repo" /\ d.adr -> 2
    [] "framework" \in d.labels -> 3
    [] "lang" \in d.labels -> 4
    [] OTHER -> 5

(* reservePriorityFloors: of each of the first two tiers the most specific,   *)
(* then the youngest; one that is over the budget starves its tier.          *)
FloorPick(cands, tier, labels) ==
  LET ofTier == {i \in DOMAIN cands : PriorityTier(cands[i]) = tier}
      sp(i) == MatchSpecificity(cands[i], labels)
      before(i, j) == \/ sp(i) > sp(j)
                      \/ sp(i) = sp(j) /\ cands[i].age < cands[j].age
                      \/ sp(i) = sp(j) /\ cands[i].age = cands[j].age /\ i < j
  IN {i \in ofTier : \A j \in ofTier \ {i} : before(i, j)}

AddFloor(acc, tier, cands, labels) ==
  LET best == FloorPick(cands, tier, labels)
      pick == cands[CHOOSE i \in best : TRUE]
  IN IF best = {} THEN acc
     ELSE IF pick.size > acc.budget THEN [acc EXCEPT !.starved = @ \cup {tier}]
     ELSE [acc EXCEPT !.selected = Append(@, pick), !.budget = @ - pick.size]

(* FLOOR_TIERS, in their order. *)
ReserveFloors(cands, labels) ==
  LET none == [selected |-> <<>>, starved |-> {}, budget |-> TokenBudget]
  IN  AddFloor(AddFloor(none, 1, cands, labels), 2, cands, labels)

(* The three answers meet. Without the wiki the fused list goes on whole;    *)
(* the activity's own path returns it as it is, cut to top_k.                *)
Fuse ==
  /\ ask.at = "search" /\ ask.bm25.got /\ ask.ann.got /\ ComposesWiki = ask.wiki.got
  /\ LET fused  == RrfCombine(ask.bm25.hits, ask.ann.hits, IF ask.hybrid THEN PreFusion ELSE AskFor)
         merged == MergeSources(fused, ask.wiki.hits)
         floor  == ReserveFloors(merged, ask.labels)
     IN IF ~ ask.hybrid
        THEN ask' = [ask EXCEPT !.at = "done", !.items = fused, !.bad = ask.ann.bad]
        ELSE IF ComposesWiki
        THEN ask' = [ask EXCEPT !.at = "rerank", !.lead = floor.selected, !.starved = floor.starved,
                                !.rest = Without(merged, Range(floor.selected)),
                                !.bad = ask.wiki.bad]
        ELSE ask' = [ask EXCEPT !.at = "rerank", !.rest = fused, !.bad = ask.ann.bad]

-----------------------------------------------------------------------------
(* LlmRerank.apply: nothing to rank is passed through, and the best of what   *)
(* was ranked are kept.                                                       *)
Finish(items, bad) ==
  ask' = [ask EXCEPT !.at = "done", !.rest = <<>>, !.bad = bad,
                     !.items = IF ComposesWiki THEN Cut(ask.lead \o Cut(items, RerankTop), AskFor)
                               ELSE Cut(items, RerankTop)]

NothingToRank == ask.at = "rerank" /\ (ask.rest = <<>> \/ ask.who = "identity") /\ Finish(ask.rest, ask.bad)

(* Scores of the first n reorder them; the others keep their places behind.   *)
Permuted(rest, n) ==
  {[i \in DOMAIN rest |-> IF i <= n THEN rest[p[i]] ELSE rest[i]] : p \in {q \in [1..n -> 1..n] : IsInjective(q)}}

Ranking(who) == ask.at = "rerank" /\ ask.rest # <<>> /\ ask.who = who

LlmRanks == Ranking("llm") /\ \E items \in Permuted(ask.rest, Len(ask.rest)) : Finish(items, ask.bad)

(* Bedrock is sent the first top_n: the rest score below anything it returns. *)
BedrockRanks ==
  /\ Ranking("bedrock")
  /\ \E items \in Permuted(ask.rest, IF SubmitTop < Len(ask.rest) THEN SubmitTop ELSE Len(ask.rest)) : Finish(items, ask.bad)

(* The order as it was, and the answer says it is degraded. *)
Fallback == Finish(ask.rest, TRUE)

(* No client for the role, a timeout, a cost cap, an unreadable answer, or a   *)
(* number of scores that is not the number of candidates.                      *)
LlmUnavailable == Ranking("llm") /\ Fallback

(* No credential or region, no transport, a bad status or a malformed payload. *)
BedrockUnavailable == Ranking("bedrock") /\ Fallback

RetrievalNext ==
  Ask \/ ResolveReranker \/ Bm25Answers \/ AnnAnswers \/ AnnNoEmbedder \/ SearchThrows \/ WikiAnswers \/ WikiFails \/ Fuse
  \/ NothingToRank \/ LlmRanks \/ LlmUnavailable \/ BedrockRanks \/ BedrockUnavailable

-----------------------------------------------------------------------------
(* The process's snapshot of the runtime-state row: read when it is older     *)
(* than the TTL, by every search that finds it so; each assigns what it read  *)
(* when its own reads are done.                                               *)
NoSearch == [at |-> "idle", read |-> 0, since |-> 0]

CacheInit ==
  /\ row = [version |-> 1, moved |-> 0] /\ snap = [version |-> 0, at |-> 0, took |-> 0] /\ now = 0
  /\ search = [s \in Searchers |-> NoSearch]

Tick == now < MaxNow /\ now' = now + 1 /\ UNCHANGED <<row, snap, search>>

(* A generation is activated or the mode changes: config_version moves. *)
RowMoves ==
  /\ row.version < MaxMoves /\ row' = [version |-> row.version + 1, moved |-> now]
  /\ UNCHANGED <<snap, search, now>>

SnapshotFresh == snap.version # 0 /\ now - snap.at < CacheTtl

(* The first searches share one start: a second one waits for its snapshot. *)
StartShared(s) == snap.version = 0 => \A t \in Searchers \ {s} : search[t].at = "idle"

BeginRefresh(s) ==
  /\ search[s].at = "idle" /\ ~ SnapshotFresh /\ StartShared(s) /\ search' = [search EXCEPT ![s].at = "read"]
  /\ UNCHANGED <<row, snap, now>>

ReadRow(s) ==
  /\ search[s].at = "read"
  /\ search' = [search EXCEPT ![s] = [at |-> "adopt", read |-> row.version, since |-> now]]
  /\ UNCHANGED <<row, snap, now>>

(* An unchanged version keeps the snapshot and stamps it; a changed one is    *)
(* adopted once the dimension of its generation has been checked. Either way  *)
(* the last to finish decides, whichever row it read.                         *)
Adopt(s) ==
  /\ search[s].at = "adopt"
  /\ snap' = [version |-> search[s].read, at |-> now, took |-> now - search[s].since]
  /\ search' = [search EXCEPT ![s] = NoSearch] /\ UNCHANGED <<row, now>>

(* The read fails, or the generation's dimension is not the platform's: the   *)
(* search ends with an error and the snapshot stays as old as it was.         *)
RefreshThrows(s) ==
  /\ search[s].at # "idle" /\ search' = [search EXCEPT ![s] = NoSearch] /\ UNCHANGED <<row, snap, now>>

CacheNext == Tick \/ RowMoves \/ \E s \in Searchers : BeginRefresh(s) \/ ReadRow(s) \/ Adopt(s) \/ RefreshThrows(s)

(* The search of a query and the refreshing of the snapshot share no state. *)
KnowledgeSearchNext == (RetrievalNext /\ UNCHANGED cacheVars) \/ (CacheNext /\ UNCHANGED askVars)
KnowledgeSearchSpec == RetrievalInit /\ CacheInit /\ [][KnowledgeSearchNext]_<<askVars, cacheVars>>

-----------------------------------------------------------------------------
Done == ask.at = "done" /\ ComposesWiki

(* A security policy the wiki search returned leads the answer, unless the   *)
(* tier is reported starved or everything of it repeats a chunk of lower     *)
(* tier met before it.                                                       *)
PolicyLeads ==
  Done /\ (\E d \in Range(ask.wiki.hits) : PriorityTier(d) = 1)
    => \/ ask.items # <<>> /\ PriorityTier(ask.items[1]) = 1
       \/ 1 \in ask.starved
       \/ \A d \in Range(ask.wiki.hits) : PriorityTier(d) = 1 =>
            \E e \in RepoTexts \cup Range(ask.wiki.hits) : PriorityTier(e) # 1 /\ Alike(e, d)

(* A search that could not answer is never passed off as one that found      *)
(* nothing.                                                                  *)
DegradedIsSaid == ask.at = "done" /\ (ask.ann.bad \/ ask.wiki.bad) => ask.bad

(* Nothing the platform does not expose, or the repository excluded, is      *)
(* shown; and no chunk is shown twice.                                       *)
OnlyVisible ==
  ask.at = "done" =>
    /\ IsInjective(ask.items) /\ Len(ask.items) <= AskFor
    /\ \A d \in Range(ask.items) : d.source = "wiki" => d.labels \cap ask.labels \cap Exposed # {}

(* A snapshot that counts as fresh names a row replaced no longer ago than   *)
(* the TTL and the time its own reads took, however refreshes overlap.       *)
SnapshotLagBounded ==
  SnapshotFresh /\ snap.version # row.version => now - row.moved < CacheTtl + snap.took

(* Retrieval says what it lacks, leads with what is mandatory, shows only    *)
(* what may be seen and reads a generation that is not long gone.            *)
RetrievalHonest == PolicyLeads /\ DegradedIsSaid /\ OnlyVisible /\ SnapshotLagBounded
=============================================================================
