----------------------------- MODULE ReviewBody -----------------------------
(***************************************************************************)
(* What the posted review says. The model writes the walkthrough, or it is *)
(* put together from the findings; it is stored, rendered under a size cap *)
(* and followed by the findings that have no place in the diff; the others *)
(* become inline comments. A text is the sequence of its lines, each of    *)
(* size one. A finding has a file, a first and a last line, a severity, a  *)
(* category, the family of its first cited rule, maybe a suggestion; its   *)
(* sources stand in the order they were cited.                             *)
(***************************************************************************)
EXTENDS FindingMerge

CONSTANTS
  Aggregates,     \* the aggregated findings a review may have: a set of sequences
  ChangedLines,   \* changed_line_ranges: for a file the ranges of its new lines
  RuleFiles,      \* the files of the pull request, as sequences of letters
  OwnerRules,     \* the rules of CODEOWNERS: pattern and owners
  PerBucket, SectionItems,   \* PER_BUCKET_CAP, SECTION_CAP
  SectionSize, SectionSlack, \* SECTION_CHAR_CAP, SECTION_CHAR_CAP_SLACK
  InlineCap,      \* MAX_INLINE_COMMENTS_PER_REVIEW
  BodySize,       \* MAX_OUTPUT_CHARS
  TopReviewers    \* DEFAULT_TOP_N

ASSUME BodyAssumption ==
  /\ {PerBucket, SectionItems, SectionSize, InlineCap, BodySize, TopReviewers} \subseteq Nat \ {0}
  /\ SectionSlack \in 0..SectionSize
  /\ \A fs \in Aggregates : /\ Len(fs) \in Nat /\ DOMAIN fs = 1..Len(fs)
                            /\ \A f \in ToSet(fs) : {f.file, f.first, f.last, f.sev} \subseteq Nat /\ f.first <= f.last
  /\ \A file \in DOMAIN ChangedLines : \A range \in ToSet(ChangedLines[file]) : {range[1], range[2]} \subseteq Nat
  /\ IsFiniteSet(OwnerRules) /\ IsFiniteSet(RuleFiles)
  /\ \A r \in OwnerRules : r.owners \subseteq Nat /\ IsFiniteSet(r.owners)

VARIABLES
  bodyAt,    \* the step of the review
  report,    \* the stage's input: findings, capped, semantic_skipped, the linked
             \* issues and the reviewers as resolved (each none if that failed)
  walk,      \* the walkthrough
  fallback,  \* it was synthesized
  silenced,  \* history: the model's degradation note was the empty string
  walkRow,   \* core.review_walkthroughs
  posted     \* the review as it is posted: body and inline comments

bodyVars == <<bodyAt, report, walk, fallback, silenced, walkRow, posted>>

NoWalk == [rows |-> <<>>, note |-> "none", truncated |-> FALSE, config |-> FALSE, linked |-> 0, reviewers |-> <<>>,
           event |-> FALSE]

BodyInit ==
  /\ bodyAt = "aggregated" /\ report = [findings |-> <<>>, capped |-> FALSE, skipped |-> FALSE, issues |-> 0, owners |-> <<>>]
  /\ walk = NoWalk /\ fallback = FALSE /\ silenced = FALSE /\ walkRow = NoWalk
  /\ posted = [md |-> <<>>, section |-> <<>>, rendered |-> FALSE, inline |-> <<>>, keptAt |-> <<>>, dropped |-> <<>>]

-----------------------------------------------------------------------------
(* fnmatchTranslate: a pattern is a sequence of stars and of sets of        *)
(* letters (a literal, a class, or all of them for "?"). A star crosses     *)
(* directories. Does the pattern match the whole of a path?                 *)
Globs(pat, path) ==
  LET m[i \in 0..Len(pat), j \in 0..Len(path)] ==
        IF i = Len(pat) THEN j = Len(path)
        ELSE IF pat[i + 1].star THEN m[i + 1, j] \/ (j < Len(path) /\ m[i, j + 1])
        ELSE j < Len(path) /\ path[j + 1] \in pat[i + 1].letters /\ m[i + 1, j + 1]
  IN m[0, 0]

Star == [star |-> TRUE, letters |-> {}]

(* matchesCodeownersGlob: a directory pattern stands for what is below it;  *)
(* the expression is anchored at its end only, so that any end of the path  *)
(* may match.                                                               *)
MatchesCodeownersGlob(pat, path) ==
  /\ pat.glob # <<>>
  /\ \E i \in 1..(Len(path) + 1) :
       Globs(IF pat.dir THEN Append(pat.glob, Star) ELSE pat.glob, SubSeq(path, i, Len(path)))

(* rankSuggestedReviewers: a point for each file and rule that names the    *)
(* owner; most points first, then by name.                                  *)
Points(owner) ==
  Cardinality({x \in RuleFiles \X OwnerRules : MatchesCodeownersGlob(x[2].pat, x[1]) /\ owner \in x[2].owners})

RankSuggestedReviewers ==
  LET owners == {o \in UNION {r.owners : r \in OwnerRules} : Points(o) > 0}
      before == {x \in owners \X owners : Points(x[1]) > Points(x[2]) \/ (Points(x[1]) = Points(x[2]) /\ x[1] < x[2])}
      ranked == Sorted(owners, before) IN
  SubSeq(ranked, 1, IF Len(ranked) < TopReviewers THEN Len(ranked) ELSE TopReviewers)

-----------------------------------------------------------------------------
(* synthesizedFallback *)
SynthesizedFallback(rep) == [NoWalk EXCEPT !.rows = FileRows(rep.findings), !.note = "fallback"]

(* propagateAggregationSignals: an empty note counts as a note in the early *)
(* return, and as none below it.                                            *)
PropagateAggregationSignals(w, rep) ==
  IF w.truncated = rep.capped /\ (w.note # "none" \/ ~rep.skipped) THEN w
  ELSE [w EXCEPT !.truncated = rep.capped,
                 !.note = IF rep.skipped /\ w.note \in {"none", "empty"} THEN "skipped" ELSE w.note]

(* parseWalkthroughToolUse: the first emit_walkthrough block, which has to  *)
(* fit the contract. The model may write any row, note and flag, and issues *)
(* and reviewers too, which the contract has although the tool's schema has *)
(* not.                                                                     *)
ParsedWalkthroughs ==
  {[rows |-> rows, note |-> note, truncated |-> truncated, config |-> config,
    linked |-> IF own THEN 1 ELSE 0, reviewers |-> IF own THEN <<"invented">> ELSE <<>>, event |-> FALSE] :
     rows \in {<<>>, [k \in 1..2 |-> [path |-> k, sev |-> 0, count |-> 1]]}, note \in {"none", "empty", "own"},
     truncated, config, own \in BOOLEAN}

(* What was resolved goes over what the model wrote; none leaves it.        *)
Embed(w, rep, leaked) ==
  [w EXCEPT !.event = leaked,
            !.linked = IF rep.issues > 0 THEN rep.issues ELSE @,
            !.reviewers = IF rep.owners # <<>> THEN rep.owners ELSE @]

(* doGenerateWalkthrough: an unconfigured role, budget, provider, safety    *)
(* and parse errors end in the fallback, which has neither linked issues    *)
(* nor reviewers. A text with a secret is redacted into an audit event and  *)
(* its tool call is used. Any other error is the activity's.                *)
GenerateWalkthrough ==
  /\ bodyAt = "aggregated"
  /\ \E fs \in Aggregates, capped, skipped \in BOOLEAN, issues \in 0..1, owners \in {<<>>, RankSuggestedReviewers} :
       report' = [findings |-> fs, capped |-> capped, skipped |-> skipped, issues |-> issues, owners |-> owners]
  /\ \/ bodyAt' = "written" /\ walk' = SynthesizedFallback(report') /\ fallback' = TRUE /\ UNCHANGED silenced
     \/ \E w \in ParsedWalkthroughs, leaked \in BOOLEAN :
          /\ bodyAt' = "written" /\ walk' = Embed(PropagateAggregationSignals(w, report'), report', leaked)
          /\ silenced' = (w.note = "empty") /\ fallback' = FALSE
     \/ bodyAt' = "failed" /\ UNCHANGED <<walk, fallback, silenced>>
  /\ UNCHANGED <<walkRow, posted>>

(* ReviewWalkthroughsRepo.upsert: the latest walkthrough of the review. *)
Upsert(w) == walkRow' = w

(* persistReviewWalkthrough, which may fail without an end to the review. *)
PersistReviewWalkthrough ==
  /\ bodyAt = "written" /\ bodyAt' = "stored"
  /\ Upsert(walk) \/ UNCHANGED walkRow
  /\ UNCHANGED <<report, walk, fallback, silenced, posted>>

-----------------------------------------------------------------------------
Lines(flag, line) == IF flag THEN <<line>> ELSE <<>>

(* formatLinkedIssuesMd, formatSuggestedReviewersMd: a head and a line for  *)
(* each, or nothing.                                                        *)
LinkedIssuesMd(n) == IF n = 0 THEN <<>> ELSE <<"issues">> \o [k \in 1..n |-> "issue"]
SuggestedReviewersMd(rs) == IF rs = <<>> THEN <<>> ELSE <<"reviewers">> \o [k \in DOMAIN rs |-> "reviewer"]

(* assemble: the order of the parts. *)
Assemble(w, rows, cut) ==
  <<"tldr">> \o Lines(w.truncated, "cap notice") \o Lines(w.note \notin {"none", "empty"}, "note")
  \o (IF rows # <<>> THEN <<"table">> \o [k \in DOMAIN rows |-> "row"]
      ELSE IF w.rows # <<>> THEN <<"table omitted">>
      ELSE Lines(~cut, "no findings"))
  \o Lines(cut, "table cut") \o Lines(w.config, "config")
  \o LinkedIssuesMd(w.linked) \o SuggestedReviewersMd(w.reviewers)

(* renderWalkthrough: rows are dropped from the tail until it fits; the     *)
(* last resort is the text without table and sections, whatever its size.   *)
RenderWalkthrough(w) ==
  LET full == Assemble(w, w.rows, FALSE)
      with(n) == Assemble(w, SubSeq(w.rows, 1, n), TRUE)
      fits == {n \in 0..(Len(w.rows) - 1) : Len(with(n)) <= BodySize} IN
  IF Len(full) <= BodySize THEN full
  ELSE IF fits # {} THEN with(CHOOSE n \in fits : \A m \in fits : m <= n)
  ELSE Assemble([w EXCEPT !.rows = <<>>, !.config = FALSE, !.linked = 0, !.reviewers = <<>>], <<>>, TRUE)

(* renderWalkthroughForPost: what arbitration did follows, over the cap.    *)
RenderForPost(w, arbitrated) == RenderWalkthrough(w) \o Lines(arbitrated, "footer")

(* buildReviewBody: the marker stands before the section. *)
BuildReviewBody(w, arbitrated) == Append(RenderForPost(w, arbitrated), "marker")

-----------------------------------------------------------------------------
(* findingAccepted: inside one range of the file. *)
FindingAccepted(f, ranges) == \E k \in DOMAIN ranges : ranges[k][1] <= f.first /\ f.last <= ranges[k][2]

(* classifyDropReason: why a finding has no place. *)
ClassifyDropReason(f, ranges) ==
  LET touched == {k \in DOMAIN ranges : ~(f.last < ranges[k][1] \/ f.first > ranges[k][2])} IN
  IF \A k \in DOMAIN ranges : f.first < ranges[k][1] THEN "line_before_first_hunk"
  ELSE IF \A k \in DOMAIN ranges : f.last > ranges[k][2] THEN "line_after_last_hunk"
  ELSE IF Cardinality(touched) >= 2 THEN "line_spans_hunks"
  ELSE "line_in_unchanged_gap"

\* Mutant: a finding that touches a changed line is taken.
Outcome_Touching(f) ==
  IF f.file \notin DOMAIN ChangedLines \/ ChangedLines[f.file] = <<>> THEN "file_not_in_diff"
  ELSE IF \E k \in DOMAIN ChangedLines[f.file] : f.first <= ChangedLines[f.file][k][2] THEN "valid"
  ELSE ClassifyDropReason(f, ChangedLines[f.file])

(* classifyFindingsAgainstDiff, for one finding. *)
Outcome(f) ==
  IF f.file \notin DOMAIN ChangedLines \/ ChangedLines[f.file] = <<>> THEN "file_not_in_diff"
  ELSE IF FindingAccepted(f, ChangedLines[f.file]) THEN "valid"
  ELSE ClassifyDropReason(f, ChangedLines[f.file])

(* The sources of a finding by authority; a policy rule has no rank. *)
AuthorityRank == [knowledge_chunk |-> 0, repo_path |-> 1, linter_rule |-> 2]
RankOfSource(s) == IF s \in DOMAIN AuthorityRank THEN AuthorityRank[s] ELSE 99

(* inlineSourceLine: the first source of the best rank. *)
TopSource(sources) ==
  FoldLeft(LAMBDA top, s : IF RankOfSource(s) < RankOfSource(top) THEN s ELSE top, Head(sources), sources)

(* CATEGORY_REVIEW_TYPE: the categories that say something breaks. *)
Breaking == {"bug", "security", "context_breaks_consumer"}

(* findingPrefixLine *)
ReviewType(f) ==
  IF f.sev = 0 THEN "Nitpick" ELSE IF f.category \in Breaking THEN "Potential issue" ELSE "Refactor suggestion"

(* findingToInlineComment and serialiseInline: a comment on one line has no *)
(* start.                                                                   *)
InlineComment(f) ==
  [path |-> f.file, line |-> f.last, start |-> IF f.first = f.last THEN 0 ELSE f.first,
   body |-> <<ReviewType(f), f.sev, "title", "text">> \o (IF f.sources = <<>> THEN <<>> ELSE <<TopSource(f.sources)>>)
            \o Lines(f.suggestion, "suggestion") \o f.sources]

(* ruleIdFromSources: the family of the first rule cited, by the prefixes   *)
(* of its name.                                                             *)
RuleFamily(f) == IF "linter_rule" \in ToSet(f.sources) THEN f.rule ELSE "none"

(* findingBucket: by category, then by the first rule cited. *)
Bucket(f) ==
  IF f.category = "security" THEN "security"
  ELSE IF f.category \in {"bug", "context_breaks_consumer"} THEN "correctness"
  ELSE IF RuleFamily(f) \in {"security", "correctness"} THEN RuleFamily(f)
  ELSE "nits"

(* renderBulletLine. A line of the section is a tuple that starts with its   *)
(* kind.                                                                    *)
Item(f) == <<"item", f>>

FirstItems(fs) == [k \in 1..(IF Len(fs) < PerBucket THEN Len(fs) ELSE PerBucket) |-> Item(fs[k])]

(* The line for the findings of a bucket over its cap. *)
More(fs) == IF Len(fs) > PerBucket THEN <<<<"more", Len(fs) - PerBucket>>>> ELSE <<>>

(* renderTopBucketLines *)
RenderTopBucket(fs) == IF fs = <<>> THEN <<>> ELSE <<<<"bucket">>>> \o FirstItems(fs) \o More(fs)

(* renderNitsLines: folded away, or only counted when there are too many    *)
(* dropped findings altogether.                                             *)
RenderNits(fs, suppress) ==
  IF fs = <<>> THEN <<>>
  ELSE IF suppress THEN <<<<"more", Len(fs)>>>>
  ELSE <<<<"open">>>> \o FirstItems(fs) \o More(fs) \o <<<<"close">>>>

LinesLike(text, line) == {k \in DOMAIN text : text[k] = line}

Opens(text) == Cardinality(LinesLike(text, <<"open">>)) - Cardinality(LinesLike(text, <<"close">>))

(* applyCharacterCap: cut below the cap, said so, and what was open closed. *)
ApplyCharacterCap(text) ==
  IF Len(text) <= SectionSize THEN text
  ELSE LET kept == SubSeq(text, 1, SectionSize - SectionSlack) IN
       Append(kept, <<"section cut">>) \o [k \in 1..Opens(kept) |-> <<"close">>]

(* renderDroppedFindingsSection *)
RenderDropped(dropped) ==
  LET in(b) == EntriesAt(dropped, {k \in DOMAIN dropped : Bucket(dropped[k]) = b}) IN
  IF dropped = <<>> THEN <<>>
  ELSE ApplyCharacterCap(<<<<"head">>>> \o RenderTopBucket(in("security")) \o RenderTopBucket(in("correctness"))
                         \o RenderNits(in("nits"), Len(dropped) > SectionItems))

(* doPost up to the claim: classify, refuse more than the cap, render the   *)
(* section (a failure leaves it out) and build the comments. keptAt pairs   *)
(* the comments with the findings; dropped tells position and reason.       *)
BuildReview ==
  /\ bodyAt = "stored"
  /\ LET all    == report.findings
         valid  == {k \in DOMAIN all : Outcome(all[k]) = "valid"}
         keptAt == Positions(valid)
         lostAt == Positions(DOMAIN all \ valid) IN
     \/ Len(keptAt) > InlineCap /\ bodyAt' = "refused" /\ UNCHANGED posted
     \/ /\ Len(keptAt) <= InlineCap /\ bodyAt' = "built"
        /\ \E rendered, arbitrated \in BOOLEAN :
             posted' = [md |-> BuildReviewBody(walk, arbitrated), rendered |-> rendered,
                        section |-> IF rendered THEN RenderDropped(EntriesAt(all, DOMAIN all \ valid)) ELSE <<>>,
                        inline |-> [k \in DOMAIN keptAt |-> InlineComment(all[keptAt[k]])], keptAt |-> keptAt,
                        dropped |-> [k \in DOMAIN lostAt |-> <<lostAt[k], Outcome(all[lostAt[k]])>>]]
  /\ UNCHANGED <<report, walk, fallback, silenced, walkRow>>

BodyNext == GenerateWalkthrough \/ PersistReviewWalkthrough \/ BuildReview

-----------------------------------------------------------------------------
Has(text, line) == line \in ToSet(text)

(* Each comment lies inside one hunk, or GitHub refuses the whole review;   *)
(* comments and dropped positions together are the findings, each once.     *)
CommentsInHunks ==
  /\ ToSet(posted.keptAt) \cup {d[1] : d \in ToSet(posted.dropped)} = DOMAIN report.findings
  /\ Len(posted.inline) + Len(posted.dropped) = Len(report.findings)
  /\ \A k \in DOMAIN posted.inline :
       LET c    == posted.inline[k]
           from == IF c.start = 0 THEN c.line ELSE c.start IN
       \E r \in DOMAIN ChangedLines[c.path] :
         {from, c.line} \subseteq ChangedLines[c.path][r][1]..ChangedLines[c.path][r][2]

(* Every other finding is listed below the walkthrough, or counted there,   *)
(* or the section says that it was cut; what it opens it closes.            *)
DroppedAreTold ==
  LET s       == posted.section
      told(l) == IF l[1] = "item" THEN 1 ELSE IF l[1] = "more" THEN l[2] ELSE 0 IN
  posted.rendered =>
    /\ \/ Has(s, <<"section cut">>)
       \/ Tally([k \in DOMAIN s |-> told(s[k])]) = Len(posted.dropped)
    /\ Opens(s) = 0

(* Whatever the model says and however short the text has to be, the reader *)
(* learns that findings were capped and that a stage was skipped (unless    *)
(* the model's note was the empty string), and that rows are missing.       *)
WalkthroughTells ==
  LET md == posted.md IN
  /\ report.capped /\ ~fallback => Has(md, "cap notice")
  /\ report.skipped /\ ~silenced => Has(md, "note")
  /\ Cardinality(LinesLike(md, "row")) < Len(walk.rows) => Has(md, "table cut")

(* The stored walkthrough is the posted one, or none was stored; once the   *)
(* owners were resolved, no owner who was left out owns more of the change  *)
(* than one who was suggested.                                              *)
StoredAndSuggested ==
  /\ walkRow \in {NoWalk, walk}
  /\ report.owners # <<>> => \A k \in DOMAIN walk.reviewers : \A o \in UNION {r.owners : r \in OwnerRules} :
       o \in ToSet(walk.reviewers) \/ Points(o) <= Points(walk.reviewers[k])

(* The built review is true to the findings and the diff: the parts above.  *)
BodySound == bodyAt = "built" => CommentsInHunks /\ DroppedAreTold /\ WalkthroughTells /\ StoredAndSuggested
=============================================================================
