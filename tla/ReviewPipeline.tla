--------------------------- MODULE ReviewPipeline ---------------------------
(***************************************************************************)
(* One attempt of the review pipeline: orchestrate() runs its stages in    *)
(* order, some of them fail-open (stageOutcome: the failure becomes a note *)
(* and the review goes on), some fatal; chunking runs beside the static    *)
(* tools, the chunks are reviewed by a pool of workers, the posted review  *)
(* beside the check run. The attempt can lose its claim or be aborted at   *)
(* any point; the workspace is released on the way out.                    *)
(***************************************************************************)
EXTENDS Integers, Sequences, FiniteSets, SequencesExt

CONSTANTS
  NumChunks,    \* chunks of the pull request
  MaxChunks,    \* MAX_CHUNKS_PER_REVIEW
  MaxFindings,  \* MAX_INLINE_FINDINGS
  Concurrency,  \* CHUNK_CONCURRENCY_DEFAULT
  MaxFaults     \* bound on the calls that fail in one attempt

ASSUME PipelineAssumption ==
  {NumChunks, MaxChunks, MaxFindings, Concurrency, MaxFaults} \subseteq Nat

VARIABLES
  at,       \* the statement orchestrate is at
  live,     \* [claim, signal]: the lease is held, the attempt is not aborted
  tree,     \* the workspace: not yet cloned, cloned, released
  calls,    \* the two parallel calls of step 3
  pool,     \* the fan-out: chunks to review, cursor, results, calls in flight
  found,    \* the findings, in order, as the stages rewrite them
  inputs,   \* [carried, linter]: findings that no chunk of this attempt produced
  meta,     \* state.inlinePostFilterMetadata, each entry named by its finding
  rows,     \* persisted findings with the metadata stored beside them
  sent,     \* findings of the posted review, or NotSent
  notes,    \* state.degradation
  outcome,  \* how orchestrate leaves
  faults

pipelineVars == <<at, live, tree, calls, pool, found, inputs, meta, rows, sent, notes, outcome, faults>>

NotSent  == <<"not sent">>
Carried  == <<"carried", 0>>
Linter   == <<"linter", 0>>
Llm(c)   == <<"llm", c>>
Notices  == {<<"config changed", 0>>, <<"config malformed", 0>>}

(* A set of positions, from the first to the last. *)
InOrder(S) == CHOOSE f \in [1..Cardinality(S) -> S] : \A i, j \in DOMAIN f : i < j => f[i] < f[j]

Goto(s) == at' = s

(* An exception, or the return, leaves the try block: finally runs next. *)
Escapes(how) == at' = "cleanup" /\ outcome' = how

Fault == faults < MaxFaults /\ faults' = faults + 1

(* The statements that call a port. Before each dispatch withAbortGate throws *)
(* TerminalCancelError when the attempt was aborted.                          *)
FailOpen == {"policy_compute", "classify", "dedup", "aggregate", "persist_findings",
             "apply_arbitration", "persist_walkthrough"}
Fatal    == {"load_config", "empty_review", "citation_validate", "walkthrough"}

(* What follows each fail-open statement, and each claim check. *)
After(s) == CASE s = "policy_compute"      -> "claim_classify"
              [] s = "classify"            -> "route"
              [] s = "dedup"               -> "claim_aggregate"
              [] s = "aggregate"           -> "filter"
              [] s = "persist_findings"    -> "apply_arbitration"
              [] s = "apply_arbitration"   -> "walkthrough"
              [] s = "persist_walkthrough" -> "claim_post"
              [] s = "claim_clone"         -> "clone"
              [] s = "claim_classify"      -> "classify"
              [] s = "claim_empty"         -> "empty_review"
              [] s = "claim_aggregate"     -> "aggregate"
              [] s = "claim_post"          -> "post"

ClaimChecks == {"claim_clone", "claim_classify", "claim_empty", "claim_aggregate", "claim_post"}

NoPool == [todo |-> <<>>, cursor |-> 1, result |-> <<>>, busy |-> {}, aborted |-> FALSE]

PipelineInit ==
  /\ at = "claim_clone" /\ live = [claim |-> TRUE, signal |-> TRUE]
  /\ tree = "empty" /\ calls = [chunker |-> "idle", tools |-> "idle"]
  /\ pool = NoPool /\ found = <<>> /\ inputs = [carried |-> <<>>, linter |-> <<>>]
  /\ meta = <<>> /\ rows = {} /\ sent = NotSent /\ notes = {} /\ outcome = "none" /\ faults = 0

data == <<calls, pool, found, inputs, meta, rows, sent>>

-----------------------------------------------------------------------------
(* The surroundings: the lease is stolen, or the shell aborts the attempt. *)
LoseClaim ==
  /\ at # "ended" /\ live.claim
  /\ live' = [live EXCEPT !.claim = FALSE]
  /\ UNCHANGED <<at, tree, notes, outcome, faults, data>>

AbortAttempt ==
  /\ at # "ended" /\ live.signal
  /\ live' = [live EXCEPT !.signal = FALSE]
  /\ UNCHANGED <<at, tree, notes, outcome, faults, data>>

(* claimCheck() at the five phase boundaries; before the clone there is *)
(* nothing to clean up yet.                                             *)
ClaimCheck ==
  /\ at \in ClaimChecks
  /\ \/ live.claim /\ live.signal /\ Goto(After(at)) /\ UNCHANGED outcome
     \/ /\ ~ (live.claim /\ live.signal)
        /\ IF at = "claim_clone" THEN at' = "ended" /\ outcome' = "cancelled" ELSE Escapes("cancelled")
  /\ UNCHANGED <<live, tree, notes, faults, data>>

(* The gate in front of every port. *)
AbortGate ==
  /\ ~ live.signal
  /\ at \in FailOpen \cup Fatal \cup {"post"}
  /\ Escapes("cancelled")
  /\ UNCHANGED <<live, tree, notes, faults, data>>

(* stageOutcome: a failure is logged, noted and swallowed; the fallback of   *)
(* every fail-open stage is to go on with what it was given.                 *)
StageFails ==
  /\ at \in FailOpen /\ live.signal /\ Fault
  /\ notes' = notes \cup {at} /\ Goto(After(at))
  /\ UNCHANGED <<live, tree, outcome, data>>

PortThrows ==
  /\ at \in Fatal /\ live.signal /\ Fault
  /\ Escapes("failed")
  /\ UNCHANGED <<live, tree, notes, data>>

-----------------------------------------------------------------------------
(* Step 1, outside the try: a failed clone ends the attempt at once. *)
Clone ==
  /\ at = "clone"
  /\ \/ live.signal /\ tree' = "cloned" /\ Goto("load_config") /\ UNCHANGED <<outcome, faults>>
     \/ live.signal /\ Fault /\ at' = "ended" /\ outcome' = "failed" /\ UNCHANGED tree
     \/ ~ live.signal /\ at' = "ended" /\ outcome' = "cancelled" /\ UNCHANGED <<tree, faults>>
  /\ UNCHANGED <<live, notes, data>>

(* Config, policy bundles and classification succeed. `route` filters the   *)
(* paths: with every review file excluded only a notice is posted.          *)
Prepared ==
  /\ at \in {"load_config", "policy_compute", "classify", "route"}
  /\ live.signal \/ at = "route"
  /\ Goto(CASE at = "load_config" -> "policy_compute"
            [] at \in FailOpen -> After(at)
            [] OTHER -> "analyse")
  /\ notes' \in {notes} \cup (IF at = "classify" THEN {notes \cup {"classifier_failures"}} ELSE {})
  /\ UNCHANGED <<live, tree, outcome, faults, data>>

AllExcluded ==
  /\ at = "route"
  /\ Goto("claim_empty")
  /\ UNCHANGED <<live, tree, notes, outcome, faults, data>>

EmptyReview ==
  /\ at = "empty_review" /\ live.signal
  /\ found' = << <<"all excluded", 0>> >>
  /\ notes' = notes \cup {"path_filters_excluded_all"}
  /\ Goto("post")
  /\ UNCHANGED <<live, tree, calls, pool, inputs, meta, rows, sent, outcome, faults>>

(* Step 3: Promise.all of the fatal chunker and the fail-open tools. *)
Analyse ==
  /\ at = "analyse"
  /\ IF live.signal
     THEN calls' = [chunker |-> "running", tools |-> "running"] /\ Goto("analysing") /\ UNCHANGED outcome
     ELSE Escapes("cancelled") /\ UNCHANGED calls
  /\ UNCHANGED <<live, tree, pool, found, inputs, meta, rows, sent, notes, faults>>

ChunkerEnds ==
  /\ calls.chunker = "running"
  /\ \/ calls' = [calls EXCEPT !.chunker = "done"] /\ UNCHANGED <<at, outcome, faults>>
     \/ /\ calls' = [calls EXCEPT !.chunker = "failed"] /\ Fault
        /\ IF at = "analysing" THEN Escapes("failed") ELSE UNCHANGED <<at, outcome>>
  /\ UNCHANGED <<live, tree, pool, found, inputs, meta, rows, sent, notes>>

(* The tools end, also when the attempt has already left: their findings,   *)
(* a part of them with per-tool errors, a swallowed failure, or the         *)
(* cancellation that stageOutcome rethrows.                                 *)
ToolsEnd ==
  /\ calls.tools = "running"
  /\ \/ /\ calls' = [calls EXCEPT !.tools = "done"]
        /\ inputs' = [inputs EXCEPT !.linter = <<Linter>>]
        /\ UNCHANGED <<at, outcome, notes, faults>>
     \/ /\ calls' = [calls EXCEPT !.tools = "done"] /\ Fault
        /\ notes' \in {notes \cup {"static_analysis"}, notes \cup {"tool_failures"}}
        /\ UNCHANGED <<at, outcome, inputs>>
     \/ /\ ~ live.signal /\ calls' = [calls EXCEPT !.tools = "done"]
        /\ IF at = "analysing" THEN Escapes("cancelled") ELSE UNCHANGED <<at, outcome>>
        /\ UNCHANGED <<inputs, notes, faults>>
  /\ UNCHANGED <<live, tree, pool, found, meta, rows, sent>>

Analysed ==
  /\ at = "analysing" /\ calls.chunker = "done" /\ calls.tools = "done"
  /\ Goto("select_carry_forward")
  /\ UNCHANGED <<live, tree, notes, outcome, faults, data>>

(* Pool over the chunks to review, at most MaxChunks of them. *)
PoolOf(cs) ==
  [NoPool EXCEPT !.todo = SubSeq(cs, 1, IF Len(cs) > MaxChunks THEN MaxChunks ELSE Len(cs)),
                 !.result = [i \in 1..Len(cs) |-> "none"]]

Capped(cs) == IF Len(cs) > MaxChunks THEN {"chunks_capped"} ELSE {}

(* selectCarryForward: the chunks the push touched, and the findings of the *)
(* previous review that lie in the others.                                  *)
Selections == [chunks : {SubSeq([i \in 1..NumChunks |-> i], n, NumChunks) : n \in 1..NumChunks + 1},
               kept   : {<<>>, <<Carried>>}]

(* Findings and chunks the push left alone are carried, the rest reviewed;  *)
(* the selector's failure, a cancellation included, means review everything. *)
SelectCarryForward ==
  /\ at = "select_carry_forward"
  /\ \/ /\ live.signal /\ UNCHANGED faults
        /\ \E s \in Selections :
             /\ pool' = PoolOf(s.chunks) /\ inputs' = [inputs EXCEPT !.carried = s.kept]
             /\ notes' = notes \cup Capped(s.chunks)
     \/ LET cs == [i \in 1..NumChunks |-> i]
        IN /\ IF live.signal THEN Fault ELSE UNCHANGED faults
           /\ pool' = PoolOf(cs) /\ UNCHANGED inputs
           /\ notes' = notes \cup Capped(cs) \cup {"select_carry_forward"}
  /\ Goto("fan_out")
  /\ UNCHANGED <<live, tree, calls, found, meta, rows, sent, outcome>>

-----------------------------------------------------------------------------
(* fanOutReview: min(concurrency, chunks) workers share a cursor. *)
TakeChunk ==
  /\ at = "fan_out" /\ ~ pool.aborted
  /\ pool.cursor <= Len(pool.todo) /\ Cardinality(pool.busy) < Concurrency
  /\ pool' = [pool EXCEPT !.cursor = @ + 1, !.busy = @ \cup {pool.cursor}]
  /\ UNCHANGED <<at, live, tree, calls, found, inputs, meta, rows, sent, notes, outcome, faults>>

(* buildChunkContext: the query is embedded and knowledge retrieved behind   *)
(* fail-open stages; the evidence is not, and its failure is the chunk's.    *)
ContextResults == {"built", "failed"}

(* doReview: a budget, role or provider error, and an answer the safety      *)
(* check refuses, fail the chunk; a leaked secret is redacted and the answer *)
(* used.                                                                     *)
AnswerResults == {"ok", "failed"}

(* A worker's slot ends, or its call is dispatched; after the fan-out was    *)
(* rejected it still ends, unobserved.                                       *)
Slot(i, r) ==
  /\ IF r = "failed" THEN Fault ELSE UNCHANGED faults
  /\ pool' = [pool EXCEPT !.busy = IF r = "built" THEN @ ELSE @ \ {i}, !.result[i] = r]
  /\ UNCHANGED <<at, live, tree, calls, found, inputs, meta, rows, sent, notes, outcome>>

BuildContext(i) == pool.result[i] = "none" /\ \E r \in ContextResults : Slot(i, r)

ChunkEnds(i) == pool.result[i] = "built" /\ \E r \in AnswerResults : Slot(i, r)

(* A rate limit or a cancellation stops the pool and rejects Promise.all at *)
(* once, with the other workers' calls still in flight.                     *)
ChunkAborts(i) ==
  /\ i \in pool.busy /\ at = "fan_out"
  /\ pool' = [pool EXCEPT !.busy = @ \ {i}, !.aborted = TRUE]
  /\ \/ live.signal /\ Fault /\ Escapes("failed")
     \/ ~ live.signal /\ Escapes("cancelled") /\ UNCHANGED faults
  /\ UNCHANGED <<live, tree, calls, found, inputs, meta, rows, sent, notes>>

Reviewed == {i \in 1..Len(pool.todo) : pool.result[i] = "ok"}
Failed   == {i \in 1..Len(pool.todo) : pool.result[i] = "failed"}

\* Mutant: the threshold is never met.
AllFailed_Never == FALSE

(* CHUNK_FAILURE_ABORT_THRESHOLD = 1.0 *)
AllFailed == Failed # {} /\ Cardinality(Failed) = Len(pool.todo)

FailureNotes == IF Failed = {} THEN {} ELSE {"chunks_failed"}

(* parseWithSkipMalformed: what is left of the answers after malformed and   *)
(* out-of-scope blocks are skipped; one finding stands for a chunk's.        *)
Parsed(cs) == [n \in DOMAIN cs |-> Llm(pool.todo[cs[n]])]

FanIn ==
  /\ at = "fan_out" /\ pool.cursor > Len(pool.todo) /\ pool.busy = {}
  /\ notes' = notes \cup FailureNotes
  /\ IF AllFailed /\ inputs.carried = <<>>
     THEN Escapes("failed") /\ UNCHANGED found
     ELSE /\ found' = inputs.carried \o Parsed(InOrder(Reviewed))
          /\ Goto("dedup") /\ UNCHANGED outcome
  /\ UNCHANGED <<live, tree, calls, pool, inputs, meta, rows, sent, faults>>

-----------------------------------------------------------------------------
(* The linters' findings join here; when dedup fails they are left out. *)
Dedup ==
  /\ at = "dedup" /\ live.signal
  /\ found' = inputs.linter \o found
  /\ Goto("claim_aggregate")
  /\ UNCHANGED <<live, tree, calls, pool, inputs, meta, rows, sent, notes, outcome, faults>>

Ranked(fs) == SetToSeqs({fs[i] : i \in DOMAIN fs})

(* The aggregate ranks (any order here); `filter` below is step 7's tail. *)
Aggregate ==
  /\ at = "aggregate" /\ live.signal
  /\ found' \in Ranked(found)
  /\ Goto("filter")
  /\ UNCHANGED <<live, tree, calls, pool, inputs, meta, rows, sent, notes, outcome, faults>>

(* postFilterFindingsWithMetadata: one entry per finding, in order. *)
Metadata(fs) == fs

(* Cap, config notices, then the policy post-filter over the bundles, if any. *)
Filter ==
  /\ at = "filter"
  /\ \E ns \in {<<>>} \cup {<<n>> : n \in Notices}, bundles \in BOOLEAN :
       LET fs == SubSeq(found, 1, IF Len(found) > MaxFindings THEN MaxFindings ELSE Len(found)) \o ns
       IN found' = fs /\ meta' = (IF bundles THEN Metadata(fs) ELSE <<>>)
  /\ Goto("citation_validate")
  /\ UNCHANGED <<live, tree, calls, pool, inputs, rows, sent, notes, outcome, faults>>

(* CitationValidator: a finding survives if every source it cites resolves; *)
(* linter findings and notices cite none that could fail.                   *)
Droppable(fs) == {i \in DOMAIN fs : fs[i] \notin Notices \cup {Linter}}

(* Dropped findings leave a note. *)
CitationValidate ==
  /\ at = "citation_validate" /\ live.signal
  /\ \E drop \in SUBSET Droppable(found) :
       /\ LET kept == InOrder(DOMAIN found \ drop)
          IN found' = [n \in 1..Len(found) - Cardinality(drop) |-> found[kept[n]]]
       /\ notes' = notes \cup (IF drop = {} THEN {} ELSE {"citations_dropped"})
  /\ Goto("persist_findings")
  /\ UNCHANGED <<live, tree, calls, pool, inputs, meta, rows, sent, outcome, faults>>

(* persistAggregated pairs finding and metadata by position. *)
PersistFindings ==
  /\ at = "persist_findings" /\ live.signal
  /\ rows' = {[finding |-> found[i], meta |-> IF i <= Len(meta) THEN meta[i] ELSE NotSent] : i \in DOMAIN found}
  /\ Goto("apply_arbitration")
  /\ UNCHANGED <<live, tree, calls, pool, found, inputs, meta, sent, notes, outcome, faults>>

(* doGenerateWalkthrough: without the model's text, or with one it cannot   *)
(* parse or must not show, the walkthrough is made up from the findings.    *)
Synthesized == IF at = "walkthrough" THEN {{}, {"llm_fallback"}} ELSE {{}}

(* applyArbitrationStep: the intents are settled and stored; the findings   *)
(* stay as they are, the footer tells of the suppressed ones.               *)
Arbitrated ==
  /\ at = "apply_arbitration" /\ live.signal
  /\ Goto("walkthrough")
  /\ UNCHANGED <<live, tree, notes, outcome, faults, data>>

(* The walkthrough and its row. *)
Narrated ==
  /\ at \in {"walkthrough", "persist_walkthrough"} /\ live.signal
  /\ Goto(IF at = "walkthrough" THEN "persist_walkthrough" ELSE After(at))
  /\ \E ns \in Synthesized : notes' = notes \cup ns /\ IF ns # {} THEN Fault ELSE UNCHANGED faults
  /\ UNCHANGED <<live, tree, outcome, data>>

(* runPostStage: allSettled of the review and the check run. A review that   *)
(* was not posted is thrown; a check run that was not, only noted. The       *)
(* placeholder is taken down in between.                                     *)
PostStage ==
  \/ sent' = found /\ Escapes("accepted") /\ UNCHANGED <<notes, faults>>
  \/ sent' = found /\ Escapes("accepted") /\ Fault /\ notes' = notes \cup {"post_check_run_failed"}
  \/ Fault /\ Escapes("failed") /\ UNCHANGED <<notes, sent>>

Post ==
  /\ at = "post" /\ live.signal
  /\ PostStage
  /\ UNCHANGED <<live, tree, calls, pool, found, inputs, meta, rows>>

(* finally: the release passes the abort gate too, whose cancellation then   *)
(* replaces whatever orchestrate was about to return or throw.               *)
Releases ==
  /\ at = "cleanup" /\ at' = "ended"
  /\ \/ live.signal /\ tree' = "released" /\ UNCHANGED <<notes, outcome, faults>>
     \/ live.signal /\ Fault /\ notes' = notes \cup {"cleanup"} /\ UNCHANGED <<tree, outcome>>
     \/ ~ live.signal /\ outcome' = "cancelled" /\ UNCHANGED <<tree, notes, faults>>

Cleanup == Releases /\ UNCHANGED <<live, data>>

(* The shell releases the workspace by id once more, whatever happened. *)
ShellReleases ==
  /\ at = "ended" /\ tree # "released"
  /\ tree' = "released"
  /\ UNCHANGED <<at, live, notes, outcome, faults, data>>

PipelineNext ==
  \/ LoseClaim \/ AbortAttempt \/ ClaimCheck \/ AbortGate \/ StageFails \/ PortThrows
  \/ Clone \/ Prepared \/ AllExcluded \/ EmptyReview
  \/ Analyse \/ ChunkerEnds \/ ToolsEnd \/ Analysed \/ SelectCarryForward
  \/ TakeChunk \/ (\E i \in pool.busy : BuildContext(i) \/ ChunkEnds(i) \/ ChunkAborts(i)) \/ FanIn
  \/ Dedup \/ Aggregate \/ Filter \/ CitationValidate \/ PersistFindings \/ Arbitrated \/ Narrated
  \/ Post \/ Cleanup \/ ShellReleases

-----------------------------------------------------------------------------
Sent == {sent[i] : i \in DOMAIN sent}

(* Every finding a fault-free attempt would have posted is in the review,   *)
(* or a degradation note names the stage that lost it: a failed or capped   *)
(* chunk, a failed tool run or dedup, a failed selector, a dropped citation. *)
(* Only the cap on findings itself is silent.                               *)
NothingLostSilently ==
  (outcome = "accepted" /\ "path_filters_excluded_all" \notin notes
     /\ "citations_dropped" \notin notes /\ Len(sent) < MaxFindings) =>
    /\ \A i \in 1..Len(pool.result) :
         Llm(NumChunks - Len(pool.result) + i) \in Sent
           \/ notes \cap {"chunks_failed", "chunks_capped"} # {}
    /\ Linter \in Sent \/ notes \cap {"static_analysis", "tool_failures", "dedup"} # {}
    /\ {inputs.carried[i] : i \in DOMAIN inputs.carried} \subseteq Sent

(* A pull request none of whose chunks could be reviewed never gets a review *)
(* that looks clean: the attempt fails and is retried, unless findings of    *)
(* the previous review are carried.                                          *)
NoHollowReview ==
  sent # NotSent /\ Len(pool.todo) > 0 /\ Reviewed = {} => inputs.carried # <<>>

(* The metadata stored beside a finding is the one the policy filter         *)
(* computed for it, unless a citation was dropped in between: positions are  *)
(* then one off.                                                             *)
MetadataFollowsFinding ==
  "citations_dropped" \notin notes => \A r \in rows : r.meta \in {r.finding, NotSent}

(* No tool runs in a released workspace, except when the chunker failed or   *)
(* the attempt was aborted while the tools were running: then Promise.all    *)
(* rejects, and finally does not wait for them.                              *)
ToolsKeepWorkspace ==
  tree = "released" /\ calls.tools = "running" => calls.chunker = "failed" \/ ~ live.signal

(* What a reader of the posted review relies on: nothing is missing without *)
(* a note, a review of nothing is not posted, and every stored row carries  *)
(* its own finding's metadata.                                              *)
ReviewIsHonest == NothingLostSilently /\ NoHollowReview /\ MetadataFollowsFinding
=============================================================================
