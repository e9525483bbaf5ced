---------------------------- MODULE FindingMerge ----------------------------
(***************************************************************************)
(* How the findings of the tools and of the model become the findings of a *)
(* review: dedup (exact, then by similarity of their texts), aggregation   *)
(* (scope, exact, similarity, rank and cap), and arbitration, in which the *)
(* model may ask for a tool's finding to be suppressed and a policy        *)
(* decides. A text is the sequence of its segments, which is what the      *)
(* code splits it into; confidence and severity are small numbers.         *)
(***************************************************************************)
EXTENDS Naturals, FiniteSets, Sequences, SequencesExt

CONSTANTS
  PerFile, PerReview, \* PER_FILE_CAP, PER_REVIEW_CAP
  MaxRows,            \* FILE_ROWS_HARD_CAP
  LinterIn, LlmIn,    \* the findings the two sides may bring: sets of sequences
  MinConfidence,      \* the policy: for each tool the confidence a suppression needs, or Never
  ToolOf,             \* the tool of each tier-1 problem
  Targets,            \* ids an intent may name, known or not
  MaxPasses           \* bound on the attempts of the job

Never == 99

ASSUME MergeAssumption ==
  /\ {PerFile, PerReview, MaxRows, MaxPasses} \subseteq Nat \ {0}
  /\ LinterIn \cup LlmIn \subseteq Seq([file : Nat, place : Nat, sev : Nat, conf : Nat, body : Seq(Nat) \ {<<>>}, by : Nat,
                                     scope : {"chunk", "global"}])
  /\ IsFiniteSet(DOMAIN ToolOf) /\ IsFiniteSet(Targets)

VARIABLES
  mergeAt,   \* the stage the findings are at
  brought,   \* the input of the two sides
  merged,    \* the list, as the stages rewrite it
  uncapped,  \* what went into rankAndCap
  skippedSem \* semantic_skipped of the two stages

mergeVars == <<mergeAt, brought, merged, uncapped, skippedSem>>

MergeInit ==
  /\ mergeAt = "input" /\ brought = <<<<>>, <<>>>>
  /\ merged = <<>> /\ uncapped = <<>> /\ skippedSem = <<FALSE, FALSE>>

(* A finite set in the order of a relation, and the entries of a sequence at *)
(* some positions, in order.                                                 *)
Sorted(S, R) == CHOOSE s \in [1..Cardinality(S) -> S] : \A i, j \in DOMAIN s : i < j => <<s[i], s[j]>> \in R
Positions(S) == Sorted(S, {x \in S \X S : x[1] < x[2]})
EntriesAt(s, S) == LET order == Positions(S) IN [k \in DOMAIN order |-> s[order[k]]]

(* What the entries of a sequence of numbers come to. *)
Tally(counts) == Cardinality(UNION {{k} \X (1..counts[k]) : k \in DOMAIN counts})

Max2(a, b) == IF a >= b THEN a ELSE b

(* The texts' union: a text that is already a segment is not added again. *)
Joined(a, b) == IF Len(b) = 1 /\ b[1] \in ToSet(a) THEN a ELSE a \o b

(* aggregateExact's merge: title and suggestion (here: by) follow the more   *)
(* confident one, the place is the same.                                     *)
Combine(old, f) ==
  [old EXCEPT !.sev = Max2(old.sev, f.sev), !.conf = Max2(old.conf, f.conf), !.body = Joined(old.body, f.body),
              !.by = IF f.conf > old.conf THEN f.by ELSE old.by, !.scope = "chunk"]

SamePlace(a, b) == a.file = b.file /\ a.place = b.place

AddExact(out, f) ==
  IF \E i \in DOMAIN out : SamePlace(out[i], f)
  THEN LET i == CHOOSE j \in DOMAIN out : SamePlace(out[j], f) IN [out EXCEPT ![i] = Combine(out[i], f)]
  ELSE Append(out, f)

AggregateExact(fs) == FoldLeft(AddExact, <<>>, fs)

(* The embedder (external): texts that start alike are close. Closeness is   *)
(* not transitive.                                                           *)
Embedding(f) == Head(f.body)
Close(u, v) == u <= v + 1 /\ v <= u + 1

\* Mutant: what is absorbed keeps its severity to itself.
Absorb_AbsorberSeverity(a, b) == [a EXCEPT !.conf = Max2(a.conf, b.conf), !.body = Joined(a.body, b.body), !.scope = "chunk"]

(* merge of the semantic stage: all but severity, confidence and text follow *)
(* the absorber.                                                             *)
Absorb(a, b) ==
  [a EXCEPT !.sev = Max2(a.sev, b.sev), !.conf = Max2(a.conf, b.conf), !.body = Joined(a.body, b.body), !.scope = "chunk"]

(* The inner loop: slot j is absorbed by slot i, or i takes over j's vector. *)
TryAbsorb(slots, i, j) ==
  LET a == slots[i]
      b == slots[j] IN
  IF b.consumed \/ a.f.file # b.f.file \/ ~Close(a.vec, b.vec) THEN slots
  ELSE [slots EXCEPT ![j].consumed = TRUE,
                     ![i] = IF b.f.conf > a.f.conf THEN [f |-> Absorb(b.f, a.f), vec |-> b.vec, consumed |-> FALSE]
                            ELSE [a EXCEPT !.f = Absorb(a.f, b.f)]]

AbsorbFrom(slots, i) ==
  IF slots[i].consumed THEN slots
  ELSE FoldLeft(LAMBDA s, j : TryAbsorb(s, i, j), slots, [k \in 1..(Len(slots) - i) |-> i + k])

(* The greedy pass over all slots; what was not consumed is the result.      *)
MergeSimilar(fs) ==
  LET fresh == [k \in DOMAIN fs |-> [f |-> fs[k], vec |-> Embedding(fs[k]), consumed |-> FALSE]]
      slots == FoldLeft(AbsorbFrom, fresh, [k \in DOMAIN fs |-> k])
      left  == EntriesAt(slots, {k \in DOMAIN slots : ~slots[k].consumed}) IN
  [k \in DOMAIN left |-> left[k].f]

(* aggregateSemantic: fewer than two findings need no embedder; one that     *)
(* fails, or answers with a wrong number of vectors, leaves the list alone.  *)
AggregateSemantic(fs, works) == IF Len(fs) < 2 \/ ~works THEN fs ELSE MergeSimilar(fs)
SemanticSkipped(fs, works) == Len(fs) >= 2 /\ ~works

(* assertFindingScopeConsistency *)
InScope(fs) == EntriesAt(fs, {k \in DOMAIN fs : fs[k].scope = "chunk"})

Outranks(fs, i, j) ==
  \/ fs[i].sev > fs[j].sev
  \/ fs[i].sev = fs[j].sev /\ (fs[i].conf > fs[j].conf \/ (fs[i].conf = fs[j].conf /\ i < j))

RankedFindings(fs) ==
  LET before == {x \in (DOMAIN fs) \X (DOMAIN fs) : Outranks(fs, x[1], x[2])}
      order  == Sorted(DOMAIN fs, before) IN
  [k \in DOMAIN fs |-> fs[order[k]]]

(* rankAndCap: so many of each file, then so many in all. *)
RankAndCap(fs) ==
  LET r    == RankedFindings(fs)
      kept == EntriesAt(r, {k \in DOMAIN r : Cardinality({m \in 1..(k - 1) : r[m].file = r[k].file}) < PerFile}) IN
  IF Len(kept) > PerReview THEN SubSeq(kept, 1, PerReview) ELSE kept

(* The findings of the files that have no row of their own. *)
OverflowCount(fs, rest) == Cardinality({k \in DOMAIN fs : fs[k].file \in rest})

(* synthesizeFileRowsFromAggregated: a row for each file, the worst first;   *)
(* when there are too many the last row stands for the rest.                 *)
FileRows(fs) ==
  LET files    == {fs[k].file : k \in DOMAIN fs}
      worst(f) == CHOOSE s \in {fs[k].sev : k \in DOMAIN fs} :
                    /\ \E k \in DOMAIN fs : fs[k].file = f /\ fs[k].sev = s
                    /\ \A k \in DOMAIN fs : fs[k].file = f => fs[k].sev <= s
      before   == {x \in files \X files : worst(x[1]) > worst(x[2]) \/ (worst(x[1]) = worst(x[2]) /\ x[1] < x[2])}
      order    == Sorted(files, before)
      real     == IF Len(order) > MaxRows THEN SubSeq(order, 1, MaxRows - 1) ELSE order
      rest     == files \ ToSet(real)
      row(f)   == [path |-> f, sev |-> worst(f), count |-> Cardinality({k \in DOMAIN fs : fs[k].file = f})] IN
  [k \in DOMAIN real |-> row(real[k])]
  \o (IF rest = {} THEN <<>>
      ELSE <<[path |-> 0, sev |-> worst(CHOOSE f \in rest : \A g \in rest : worst(g) <= worst(f)),
              count |-> OverflowCount(fs, rest)]>>)

(* What the curator and parseWithSkipMalformed hand over. *)
Bring ==
  /\ mergeAt = "input" /\ mergeAt' = "dedup" /\ brought' \in LinterIn \X LlmIn
  /\ UNCHANGED <<merged, uncapped, skippedSem>>

(* doDedupLinterWithLlm: one side alone passes as it is. *)
DedupFindings ==
  /\ mergeAt = "dedup" /\ mergeAt' = "aggregate"
  /\ \E works \in BOOLEAN :
       LET both == brought[1] \o brought[2] IN
       IF brought[1] = <<>> \/ brought[2] = <<>> THEN merged' = both /\ UNCHANGED skippedSem
       ELSE /\ merged' = AggregateSemantic(AggregateExact(both), works)
            /\ skippedSem' = [skippedSem EXCEPT ![1] = SemanticSkipped(AggregateExact(both), works)]
  /\ UNCHANGED <<brought, uncapped>>

(* doAggregate *)
AggregateFindings ==
  /\ mergeAt = "aggregate" /\ mergeAt' = "aggregated"
  /\ \E works \in BOOLEAN :
       LET exact == AggregateExact(InScope(merged)) IN
       /\ uncapped' = AggregateSemantic(exact, works)
       /\ skippedSem' = [skippedSem EXCEPT ![2] = SemanticSkipped(exact, works)]
  /\ merged' = RankAndCap(uncapped')
  /\ UNCHANGED brought

MergeNext == Bring \/ DedupFindings \/ AggregateFindings

(* Whatever is merged into whatever, and whether or not the embedder works,  *)
(* every finding in scope survives up to the caps: in a finding of its file  *)
(* that is at least as severe and as confident and says what it says. Scope  *)
(* is looked at after dedup, where a merge has made it the chunk's.          *)
MergingLosesNothing ==
  mergeAt = "aggregated" =>
    \A f \in ToSet(brought[1] \o brought[2]) : f.scope = "chunk" =>
      \E g \in ToSet(uncapped) :
        g.file = f.file /\ g.sev >= f.sev /\ g.conf >= f.conf /\ ToSet(f.body) \subseteq ToSet(g.body)

(* The caps drop the least important: what is dropped is outranked by all    *)
(* that stay, or by as many of its own file as the file may have.            *)
CapsDropTheLeast ==
  mergeAt = "aggregated" =>
    \A d \in ToSet(uncapped) \ ToSet(merged) :
      LET Above == {k \in DOMAIN merged : ~(d.sev > merged[k].sev \/ (d.sev = merged[k].sev /\ d.conf > merged[k].conf))} IN
      \/ Above = DOMAIN merged
      \/ Cardinality({k \in Above : merged[k].file = d.file}) = PerFile

(* The table of files counts every finding once and hides no severity.       *)
RowsCountEverything ==
  mergeAt = "aggregated" =>
    LET rows == FileRows(uncapped) IN
    /\ Len(rows) <= MaxRows
    /\ Tally([k \in DOMAIN rows |-> rows[k].count]) = Len(uncapped)
    /\ \A f \in ToSet(uncapped) : \E r \in ToSet(rows) : r.path \in {f.file, 0} /\ r.sev >= f.sev

-----------------------------------------------------------------------------
(* Arbitration. A tier-1 problem gets a new id in every attempt of the job   *)
(* (uuid4), <<attempt, problem>>; the model's findings keep theirs, <<0, n>>.*)
VARIABLES
  arbPass,  \* the attempt
  arbAt,    \* its step
  intents,  \* the model's requests
  toStore,  \* decisions and rejections still to be written, in order
  arbRows, \* [rows, refusals]: core.review_findings and arbitration_rejections
  disclosed \* the findings the review's footer says were suppressed

arbVars == <<arbPass, arbAt, intents, toStore, arbRows, disclosed>>

Problem1 == DOMAIN ToolOf
IdsNow == {<<arbPass, q>> : q \in Problem1}

ArbInit ==
  /\ arbPass = 0 /\ arbAt = "idle" /\ intents = {} /\ toStore = <<>>
  /\ arbRows = [rows |-> {}, refusals |-> {}] /\ disclosed = {}

(* The highest confidence wins its target. *)
Winner(id) == CHOOSE i \in intents : i.target = id /\ \A k \in intents : k.target = id => k.conf <= i.conf

(* isSuppressible with the bundled policy; a tool it does not know is never. *)
IsSuppressible(tool, conf) == MinConfidence[tool] # Never /\ conf >= MinConfidence[tool]

(* rejectionReason *)
WhyNot(tool) == IF MinConfidence[tool] = Never THEN "policy_forbids" ELSE "below_min_confidence"

ToolAt(id) == ToolOf[id[2]]
Wanted(id) == \E i \in intents : i.target = id

(* arbitrate: one decision for each finding; tier 2 is never suppressed. *)
Decisions ==
  {[id |-> <<0, 1>>, suppressed |-> FALSE]} \cup
  {[id |-> id, suppressed |-> Wanted(id) /\ IsSuppressible(ToolAt(id), Winner(id).conf)] : id \in IdsNow}

Losers == {i \in intents : \E k \in intents : k.target = i.target /\ k # i /\ i # Winner(i.target)}

Rejections ==
  {<<id, WhyNot(ToolAt(id))>> : id \in {x \in IdsNow : Wanted(x) /\ ~IsSuppressible(ToolAt(x), Winner(x).conf)}}
  \cup {<<i.target, "target_not_found">> : i \in {k \in intents : k.target \notin IdsNow}}
  \cup {<<i.target, "duplicate_intent_loser">> : i \in Losers}

(* An attempt gets that far. An intent names ids of this attempt, or others. *)
BeginArbitration ==
  /\ arbAt \in {"idle", "applied", "dropped"} /\ arbPass < MaxPasses
  /\ arbPass' = arbPass + 1 /\ arbAt' = "decide"
  /\ intents' \in {S \in SUBSET [target : {<<0, 1>>} \cup {<<arbPass + 1, q>> : q \in Targets}, conf : 0..1] : Cardinality(S) <= 2}
  /\ disclosed' = {} /\ UNCHANGED <<toStore, arbRows>>

Decide ==
  /\ arbAt = "decide" /\ arbAt' = "store"
  /\ toStore' = SetToSeq({<<"row", d>> : d \in Decisions}) \o SetToSeq({<<"refusal", r>> : r \in Rejections})
  /\ UNCHANGED <<arbPass, intents, arbRows, disclosed>>

(* updateTier2Arbitration *)
UpdateTier2(d) == [arbRows EXCEPT !.rows = {r \in @ : r.id # d.id} \cup {d}]

(* applyArbitration writes one row at a time: insertTier1Finding and         *)
(* insertRejection leave a row alone that is there already.                  *)
InsertTier1(d) == IF \E r \in arbRows.rows : r.id = d.id THEN arbRows ELSE [arbRows EXCEPT !.rows = @ \cup {d}]
InsertRejection(r) == [arbRows EXCEPT !.refusals = @ \cup {<<r[1], r[2], arbPass>>}]

StoreOne ==
  /\ arbAt = "store" /\ toStore # <<>> /\ toStore' = Tail(toStore)
  /\ arbRows' = LET x == Head(toStore)[2] IN
                IF Head(toStore)[1] = "refusal" THEN InsertRejection(x)
                ELSE IF x.id[1] = 0 THEN UpdateTier2(x) ELSE InsertTier1(x)
  /\ UNCHANGED <<arbPass, arbAt, intents, disclosed>>

(* The result reaches renderArbitrationFooterMd only when all was written.   *)
Applied ==
  /\ arbAt = "store" /\ toStore = <<>> /\ arbAt' = "applied"
  /\ disclosed' = {d.id : d \in {x \in Decisions : x.suppressed}}
  /\ UNCHANGED <<arbPass, intents, toStore, arbRows>>

(* A write fails: the call is repeated with the same input, or given up as a *)
(* degraded stage, or the job ends here and is attempted again.              *)
StoreFails ==
  /\ arbAt = "store" /\ toStore # <<>> /\ arbAt' \in {"decide", "dropped"} /\ toStore' = <<>>
  /\ UNCHANGED <<arbPass, intents, arbRows, disclosed>>

ArbNext == BeginArbitration \/ Decide \/ StoreOne \/ Applied \/ StoreFails

(* After an arbitration that went through, and whatever was repeated on the  *)
(* way: every problem of the attempt has one row; it is suppressed only if   *)
(* its tool allows it at a confidence the model really gave; and every       *)
(* request is granted or refused on record, and the footer names exactly     *)
(* what is stored as suppressed.                                             *)
RequestsAnswered ==
  /\ \A a, b \in arbRows.rows : a.id = b.id => a = b
  /\ \A r \in arbRows.rows : r.suppressed => r.id[1] # 0 /\ MinConfidence[ToolAt(r.id)] # Never
  /\ arbAt = "applied" =>
       /\ \A id \in IdsNow : \E r \in arbRows.rows : r.id = id
       /\ \A i \in intents : \/ \E r \in arbRows.rows : r.id = i.target /\ r.suppressed
                             \/ \E x \in arbRows.refusals : x[1] = i.target /\ x[3] = arbPass
       /\ disclosed = {r.id : r \in {x \in arbRows.rows : x.suppressed /\ x.id[1] = arbPass}}
       /\ \A r \in arbRows.rows : r.id[1] = arbPass /\ r.suppressed =>
            \E i \in intents : i.target = r.id /\ i.conf >= MinConfidence[ToolAt(r.id)]

(* Every finding the two sides bring is in the result, merged into one that  *)
(* is, cut by a cap that cuts the least important, or suppressed on record.  *)
FindingsAccounted == MergingLosesNothing /\ CapsDropTheLeast /\ RowsCountEverything /\ RequestsAnswered
=============================================================================
