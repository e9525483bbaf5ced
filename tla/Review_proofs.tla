---------------------------- MODULE Review_proofs ----------------------------
(***************************************************************************)
(* Proofs about one review: what is recorded of the findings it delivered, *)
(* the calls it makes with their timeouts and retries, the workspace its   *)
(* tools run in, what the tools tell it, the review it posts, what stands  *)
(* beside that on the pull request, and what becomes of every finding.     *)
(***************************************************************************)
EXTENDS MCReview, FiniteSetTheorems, FunctionTheorems, SequenceTheorems, WellFoundedInduction, TLAPS

-----------------------------------------------------------------------------
(* A step of a behaviour is a step of one part.                              *)

LEMMA PartsStep ==
  ASSUME [ReviewNext]_reviewVars
  PROVE  /\ [PipelineNext]_pipelineVars /\ [PortsNext]_portVars /\ [ToolsNext]_toolVars
         /\ [DeliveryNext]_deliveryVars /\ [CommentsNext]_commentVars
         /\ [MergeNext]_mergeVars /\ [ArbNext]_arbVars /\ [BodyNext]_bodyVars
<1>1. CASE UNCHANGED reviewVars
  BY <1>1 DEF reviewVars, attemptVars, publishVars, findingVars
<1>2. CASE ReviewNext
  <2>1. CASE AttemptNext /\ UNCHANGED <<findingVars, publishVars>>
    BY <2>1 DEF AttemptNext, publishVars, findingVars
  <2>2. CASE FindingNext /\ UNCHANGED <<attemptVars, publishVars>>
    BY <2>2 DEF FindingNext, attemptVars, publishVars
  <2>3. CASE PublishNext /\ UNCHANGED <<attemptVars, findingVars>>
    BY <2>3 DEF PublishNext, attemptVars, findingVars
  <2> QED
    BY <1>2, <2>1, <2>2, <2>3 DEF ReviewNext
<1> QED
  BY <1>1, <1>2

LEMMA PartsInit ==
  ASSUME ReviewInit
  PROVE  /\ PipelineInit /\ PortsInit /\ ToolsInit /\ DeliveryInit /\ CommentsInit
         /\ MergeInit /\ ArbInit /\ BodyInit
BY DEF ReviewInit

-----------------------------------------------------------------------------
(* Delivery. There is one review with inline comments, and the attempt that  *)
(* created it knows its comments by position.                                *)

Delivered(f) == stored[f].outcome = "inline_delivered" /\ stored[f].via = "created"

Paired ==
  /\ review # "none" /\ dl.cids = [i \in DOMAIN dl.kept |-> i]
  /\ comments = [i \in DOMAIN dl.kept |-> dl.found[dl.kept[i]]]

(* The rows have their columns. *)
DeliveryShape ==
  /\ dl = [at |-> dl.at, found |-> dl.found, ids |-> dl.ids, kept |-> dl.kept,
           outcome |-> dl.outcome, cids |-> dl.cids, via |-> dl.via]
  /\ prow = [claimed |-> prow.claimed, published |-> prow.published,
             outcome |-> prow.outcome, cids |-> prow.cids]
  /\ stored = [f \in FindingIds |-> stored[f]]

(* CreatorPairsComments alone is not inductive: it is the ids, in the order   *)
(* of the findings, and the comments, in the order of the kept ones, that     *)
(* must still be aligned when the pairs are stored; and a second review must  *)
(* not be created over the comments of the first.                             *)
DeliveryInv ==
  /\ DeliveryShape
  /\ dl.ids \in {<<>>, dl.found}
  /\ ~prow.claimed => review = "none"
  /\ dl.at = "create" => review = "none"
  /\ dl.at \in {"create", "store"} => prow.claimed
  /\ review = "none" => \A f \in FindingIds : ~Delivered(f)
  /\ dl.outcome = "inline_posted" /\ dl.at = "store" => Paired
  /\ dl.outcome = "inline_posted" /\ dl.at = "finalize" /\ dl.via = "created" => Paired
  /\ CreatorPairsComments

LEMMA DeliveryStarts == DeliveryInit => DeliveryInv
BY DEF DeliveryInit, DeliveryInv, DeliveryShape, NoWork, Unposted, Absent, Delivered, CreatorPairsComments

(* A step that pairs nothing keeps the invariant if it adds no delivered row. *)
LEMMA UnpairedKeeps ==
  ASSUME DeliveryInv, DeliveryShape', dl'.ids \in {<<>>, dl'.found},
         dl'.at \notin {"create", "store", "finalize"}, UNCHANGED <<comments, review, prow>>,
         \A f \in FindingIds : Delivered(f)' => stored'[f] = stored[f]
  PROVE  DeliveryInv'
BY DEF DeliveryInv, Delivered, CreatorPairsComments

LEMMA GatherKeeps == DeliveryInv /\ (Gather \/ Crash) => DeliveryInv'
<1> SUFFICES ASSUME DeliveryInv, Gather \/ Crash
             PROVE  DeliveryInv'
  OBVIOUS
<1>1. PICK a \in {"idle", "persist"} : \E fs, ks :
        dl' = [at |-> a, found |-> fs, ids |-> <<>>, kept |-> ks, outcome |-> "none", cids |-> <<>>, via |-> "none"]
  <2>1. CASE Crash
    BY <2>1 DEF Crash, NoWork
  <2>2. CASE Gather
    <3>1. PICK fs, ks : dl' = [NoWork EXCEPT !.at = "persist", !.found = fs, !.kept = ks]
      BY <2>2 DEF Gather
    <3>2. dl' = [at |-> "persist", found |-> fs, ids |-> <<>>, kept |-> ks, outcome |-> "none", cids |-> <<>>, via |-> "none"]
      BY <3>1 DEF NoWork
    <3> QED
      BY <3>2
  <2> QED
    BY <2>1, <2>2
<1>2. UNCHANGED <<stored, comments, review, prow>>
  BY DEF Gather, Crash
<1> QED
  BY <1>1, <1>2, UnpairedKeeps DEF DeliveryInv, DeliveryShape

LEMMA PersistKeeps == DeliveryInv /\ Persist => DeliveryInv'
<1> SUFFICES ASSUME DeliveryInv, Persist
             PROVE  DeliveryInv'
  OBVIOUS
<1>1. PICK ids \in {<<>>, dl.found} : dl' = [dl EXCEPT !.at = "post", !.ids = ids]
  <2>1. CASE dl' = [dl EXCEPT !.at = "post", !.ids = IdsOf(dl.found)]
    BY <2>1 DEF IdsOf
  <2>2. CASE dl' = [dl EXCEPT !.at = "post"]
    BY <2>2 DEF DeliveryInv, DeliveryShape
  <2> QED
    BY <2>1, <2>2 DEF Persist
<1>2. dl' = [at |-> "post", found |-> dl.found, ids |-> ids, kept |-> dl.kept,
             outcome |-> dl.outcome, cids |-> dl.cids, via |-> dl.via]
  BY <1>1 DEF DeliveryInv, DeliveryShape
<1>3. stored' = [f \in FindingIds |-> stored'[f]] /\ \A f \in FindingIds : Delivered(f)' => stored'[f] = stored[f]
  BY DEF Persist, Absent, Delivered, DeliveryInv, DeliveryShape
<1>4. UNCHANGED <<comments, review, prow>>
  BY DEF Persist
<1> QED
  BY <1>2, <1>3, <1>4, UnpairedKeeps DEF DeliveryInv, DeliveryShape

LEMMA PostKeeps == DeliveryInv /\ (PostClaim \/ TakeOver \/ Refresh) => DeliveryInv'
BY DEF PostClaim, TakeOver, Refresh, Capture, DeliveryInv, DeliveryShape, Delivered, CreatorPairsComments

LEMMA StoreKeeps == DeliveryInv /\ StoreReview => DeliveryInv'
<1> SUFFICES ASSUME DeliveryInv, StoreReview
             PROVE  DeliveryInv'
  OBVIOUS
<1>1. /\ dl' = [at |-> "finalize", found |-> dl.found, ids |-> dl.ids, kept |-> dl.kept,
                outcome |-> dl.outcome, cids |-> dl.cids, via |-> "created"]
      /\ prow' = [claimed |-> prow.claimed, published |-> TRUE, outcome |-> dl.outcome, cids |-> dl.cids]
      /\ UNCHANGED <<stored, comments, review>>
  BY DEF StoreReview, Capture, DeliveryInv, DeliveryShape
<1>2. dl.outcome = "inline_posted" => Paired'
  BY <1>1 DEF StoreReview, DeliveryInv, Paired
<1>3. DeliveryShape'
  BY <1>1 DEF DeliveryInv, DeliveryShape
<1> QED
  BY <1>1, <1>2, <1>3 DEF StoreReview, DeliveryInv, Delivered, CreatorPairsComments

(* Nothing was delivered when the review is created. *)
LEMMA CreateKeeps == DeliveryInv /\ CreateReview => DeliveryInv'
<1> SUFFICES ASSUME DeliveryInv, CreateReview
             PROVE  DeliveryInv'
  OBVIOUS
<1>1. /\ prow.claimed /\ UNCHANGED <<stored, prow>>
      /\ \A f \in FindingIds : ~Delivered(f) /\ ~Delivered(f)'
  BY DEF CreateReview, DeliveryInv, Delivered
<1>2. DeliveryShape' /\ dl'.ids \in {<<>>, dl'.found}
  BY DEF CreateReview, Capture, DeliveryInv, DeliveryShape
<1>3. CASE review' = "inline_posted" /\ dl' = [dl EXCEPT !.at = "store", !.cids = [i \in DOMAIN dl.kept |-> i], !.outcome = "inline_posted"]
  <2>1. Paired' /\ dl'.at = "store"
    BY <1>3 DEF CreateReview, DeliveryInv, DeliveryShape, Paired
  <2> QED
    BY <1>1, <1>2, <2>1 DEF DeliveryInv, Delivered, CreatorPairsComments, Paired
<1>4. CASE review' = "body_only_posted" /\ dl' = [dl EXCEPT !.at = "store", !.cids = <<>>, !.outcome = "body_only_posted"]
  BY <1>1, <1>2, <1>4 DEF DeliveryInv, DeliveryShape, Delivered, CreatorPairsComments
<1>5. CASE review' = review /\ dl' = Capture("degraded_unposted", <<>>, "created")
  BY <1>1, <1>2, <1>5 DEF Capture, DeliveryInv, DeliveryShape, Delivered, CreatorPairsComments
<1> QED
  BY <1>3, <1>4, <1>5 DEF CreateReview

(* The setters but the first write nothing that counts as delivered. *)
LEMMA SettersKeep == DeliveryInv /\ (PostFails \/ Skip \/ Degrade) => DeliveryInv'
BY DEF PostFails, Skip, Degrade, SetSkipped, Set, Swallowed, DegradedAs, NoWork, DeliveryInv, DeliveryShape,
       Delivered, CreatorPairsComments

LEMMA FinalizeKeeps == DeliveryInv /\ Finalize => DeliveryInv'
<1> SUFFICES ASSUME DeliveryInv, Finalize
             PROVE  DeliveryInv'
  OBVIOUS
<1>1. ASSUME Paired, NEW f \in KeptIds
      PROVE  comments[CommentOf(f)] = f
  <2>1. dl.ids = dl.found /\ \E j \in DOMAIN dl.kept : dl.ids[dl.kept[j]] = f
    BY <1>1 DEF KeptIds, DeliveryInv
  <2>2. PICK j \in DOMAIN dl.kept : j = CHOOSE i \in DOMAIN dl.kept : dl.ids[dl.kept[i]] = f
    BY <2>1
  <2> QED
    BY <1>1, <2>1, <2>2 DEF CommentOf, Paired
<1>2. CASE Swallowed
  BY <1>2 DEF Finalize, Swallowed, DeliveryInv, DeliveryShape, Delivered, CreatorPairsComments
<1>3. CASE dl.outcome = "inline_posted" /\ Set(KeptIds, "inline_delivered", [f \in KeptIds |-> CommentOf(f)], dl.via)
  BY <1>1, <1>3 DEF Finalize, Set, DeliveryInv, DeliveryShape, Delivered, CreatorPairsComments, Paired
<1> QED
  BY <1>2, <1>3 DEF Finalize

LEMMA DeliveryKeeps == DeliveryInv /\ [DeliveryNext]_deliveryVars => DeliveryInv'
<1>1. DeliveryInv /\ UNCHANGED deliveryVars => DeliveryInv'
  BY DEF deliveryVars, DeliveryInv, DeliveryShape, Delivered, Paired, CreatorPairsComments
<1> QED
  BY <1>1, GatherKeeps, PersistKeeps, PostKeeps, StoreKeeps, CreateKeeps, SettersKeep, FinalizeKeeps DEF DeliveryNext

(* A finding that the attempt which created the review recorded as delivered *)
(* names the comment GitHub created for it, for any findings, any number of  *)
(* attempts, anything dropped before it and any crash (finalizeAggregated).  *)
THEOREM CreatorStaysPaired == ReviewSpec => []CreatorPairsComments
<1>1. ReviewInit => DeliveryInv
  BY PartsInit, DeliveryStarts
<1>2. DeliveryInv /\ [ReviewNext]_reviewVars => DeliveryInv'
  BY PartsStep, DeliveryKeeps
<1>3. DeliveryInv => CreatorPairsComments
  BY DEF DeliveryInv
<1> QED
  BY <1>1, <1>2, <1>3, PTL DEF ReviewSpec

-----------------------------------------------------------------------------
(* The attempt's workspace. Tools that run while orchestrate is not waiting  *)
(* for them were left behind by a chunker that failed or an abort, and only  *)
(* an attempt that has ended has a released workspace.                       *)

PipelineInv ==
  /\ calls = [chunker |-> calls.chunker, tools |-> calls.tools]
  /\ live = [claim |-> live.claim, signal |-> live.signal] /\ live.signal \in BOOLEAN
  /\ tree = "released" => at = "ended"
  /\ calls.tools = "running" => at = "analysing" \/ calls.chunker = "failed" \/ ~live.signal

LEMMA PipelineStarts == PipelineInit => PipelineInv
BY DEF PipelineInit, PipelineInv

(* A step that is not one of the analysis and does not touch the workspace. *)
LEMMA OtherStageKeeps ==
  ASSUME PipelineInv, UNCHANGED <<calls, tree>>, at' = at \/ at \notin {"analysing", "ended"},
         live' = [claim |-> live'.claim, signal |-> live'.signal], live'.signal \in BOOLEAN,
         ~live.signal => ~live'.signal
  PROVE  PipelineInv'
<1>1. tree' = "released" => at' = "ended"
  BY DEF PipelineInv
<1>2. calls'.tools = "running" => at' = "analysing" \/ calls'.chunker = "failed" \/ ~live'.signal
  BY DEF PipelineInv
<1> QED
  BY <1>1, <1>2 DEF PipelineInv

LEMMA SurroundingsKeep == PipelineInv /\ (LoseClaim \/ AbortAttempt) => PipelineInv'
<1>1. PipelineInv /\ LoseClaim => live' = [claim |-> FALSE, signal |-> live.signal] /\ live'.signal = live.signal
  BY DEF LoseClaim, PipelineInv
<1>2. PipelineInv /\ AbortAttempt => live' = [claim |-> live.claim, signal |-> FALSE] /\ live'.signal = FALSE
  BY DEF AbortAttempt, PipelineInv
<1> QED
  BY <1>1, <1>2, OtherStageKeeps DEF LoseClaim, AbortAttempt, data, PipelineInv

LEMMA GatesKeep == PipelineInv /\ (ClaimCheck \/ AbortGate \/ StageFails \/ PortThrows) => PipelineInv'
BY OtherStageKeeps DEF ClaimCheck, ClaimChecks, AbortGate, StageFails, PortThrows, FailOpen, Fatal, data, PipelineInv

LEMMA CloneKeeps == PipelineInv /\ Clone => PipelineInv'
BY DEF PipelineInv, Clone, Goto, data

LEMMA PrepareKeeps == PipelineInv /\ (Prepared \/ AllExcluded \/ EmptyReview \/ SelectCarryForward) => PipelineInv'
BY OtherStageKeeps DEF Prepared, AllExcluded, EmptyReview, SelectCarryForward, data, PipelineInv

LEMMA AnalysisKeeps == PipelineInv /\ (Analyse \/ ChunkerEnds \/ ToolsEnd \/ Analysed) => PipelineInv'
BY DEF PipelineInv, Analyse, ChunkerEnds, ToolsEnd, Analysed, Goto, Escapes, data

LEMMA FanOutKeeps ==
  ASSUME PipelineInv, TakeChunk \/ FanIn \/ \E i \in pool.busy : BuildContext(i) \/ ChunkEnds(i) \/ ChunkAborts(i)
  PROVE  PipelineInv'
<1>1. ASSUME NEW i, NEW r, Slot(i, r)
      PROVE  UNCHANGED <<calls, tree, at, live>>
  BY <1>1 DEF Slot
<1>2. ASSUME NEW i, BuildContext(i) \/ ChunkEnds(i)
      PROVE  UNCHANGED <<calls, tree, at, live>>
  BY <1>1, <1>2 DEF BuildContext, ChunkEnds
<1>3. ASSUME NEW i, ChunkAborts(i)
      PROVE  UNCHANGED <<calls, tree, live>> /\ at = "fan_out"
  BY <1>3 DEF ChunkAborts
<1>4. TakeChunk \/ FanIn => UNCHANGED <<calls, tree, live>> /\ at = "fan_out"
  BY DEF TakeChunk, FanIn
<1> QED
  BY <1>2, <1>3, <1>4, OtherStageKeeps DEF PipelineInv

LEMMA TailKeeps ==
  ASSUME PipelineInv,
         \/ Dedup \/ Aggregate \/ Filter \/ CitationValidate \/ PersistFindings \/ Arbitrated \/ Narrated \/ Post
  PROVE  PipelineInv'
BY OtherStageKeeps DEF Dedup, Aggregate, Filter, CitationValidate, PersistFindings, Arbitrated, Narrated, Post, data, PipelineInv

LEMMA ReleasesKeep == PipelineInv /\ (Cleanup \/ ShellReleases) => PipelineInv'
BY DEF PipelineInv, Cleanup, Releases, ShellReleases, data

LEMMA PipelineKeeps == PipelineInv /\ [PipelineNext]_pipelineVars => PipelineInv'
<1>1. PipelineInv /\ UNCHANGED pipelineVars => PipelineInv'
  BY DEF PipelineInv, pipelineVars
<1> QED
  BY <1>1, SurroundingsKeep, GatesKeep, CloneKeeps, PrepareKeeps, AnalysisKeeps, FanOutKeeps, TailKeeps, ReleasesKeep
  DEF PipelineNext

-----------------------------------------------------------------------------
(* The calls of the attempt. A try of the paid call that the wrapper gave up *)
(* may still be paid for: it is such tries that the timeouts count.          *)

CallRow == [at  : {"idle", "running", "pause", "done", "failed"}, try : Nat,
            err : {"none", "fault", "throttle", "declared", "cancel", "timeout"}]

PortsType ==
  /\ call \in [Ports -> CallRow] /\ works \in [Ports -> SUBSET Nat] /\ told \in [Ports -> SUBSET Nat]
  /\ fresh \in SUBSET Nat /\ paid \in Nat /\ timeouts \in Nat /\ IsFiniteSet(works["review"])

(* Tries are numbered upwards. *)
TriesNumbered ==
  /\ \A n \in works["review"] : n <= call["review"].try
  /\ \A n \in fresh : n <= call["review"].try

IdleUntried == \A p \in Ports : call[p].at = "idle" => call[p].try = 0

Current(p, n) == n = call[p].try /\ call[p].at = "running"

Abandoned == {n \in works["review"] : n \in fresh /\ ~Current("review", n)}

(* What has been and may yet be paid for. *)
PaidFor == paid + Cardinality(Abandoned) <= timeouts + (IF call["review"].at = "done" THEN 1 ELSE 0)

ClonesTold == \A n \in works["clone"] : n \in told["clone"] \/ Current("clone", n)

ThrottleFinal == \A p \in Ports : call[p].err = "throttle" => call[p].at = "failed"

PortsInv == PortsType /\ ~late /\ IdleUntried /\ TriesNumbered /\ PaidFor /\ ClonesTold /\ ThrottleFinal

LEMMA PortsStart == PortsInit => PortsInv
<1> SUFFICES ASSUME PortsInit PROVE PortsInv
  OBVIOUS
<1>1. works["review"] = {} /\ fresh = {} /\ call["review"].try = 0 /\ works["clone"] = {}
  BY DEF PortsInit, Ports
<1>2. Abandoned = {} /\ IsFiniteSet(works["review"]) /\ Cardinality(Abandoned) = 0
  BY <1>1, FS_EmptySet DEF Abandoned
<1>3. PortsType /\ ~late /\ IdleUntried /\ TriesNumbered /\ ClonesTold /\ ThrottleFinal
  BY <1>1, <1>2 DEF PortsInit, PortsType, CallRow, Ports, IdleUntried, TriesNumbered, ClonesTold, ThrottleFinal
<1>4. PaidFor
  BY <1>2 DEF PortsInit, PaidFor
<1> QED
  BY <1>3, <1>4 DEF PortsInv

LEMMA AbandonedFinite ==
  ASSUME PortsType
  PROVE  IsFiniteSet(Abandoned) /\ Cardinality(Abandoned) \in Nat
BY FS_Subset, FS_CardinalityType DEF PortsType, Abandoned

(* What the paid call is not concerned with leaves its account alone. *)
LEMMA AccountStays ==
  ASSUME TriesNumbered, PaidFor, works'["review"] = works["review"], call'["review"].try = call["review"].try,
         \/ call'["review"].at = call["review"].at
         \/ {call["review"].at, call'["review"].at} \subseteq {"idle", "pause", "failed"},
         UNCHANGED <<fresh, paid, timeouts>>
  PROVE  TriesNumbered' /\ PaidFor'
<1>1. Abandoned' = Abandoned
  BY DEF Abandoned, Current
<1> QED
  BY <1>1 DEF TriesNumbered, PaidFor

(* Nor does a new try change it: its number was not used before. *)
LEMMA AccountStarts ==
  ASSUME PortsType, TriesNumbered, PaidFor, call["review"].at \in {"idle", "pause"}, NEW n \in Nat,
         n = call["review"].try + 1, works'["review"] = works["review"] \cup {n},
         call'["review"].at = "running", call'["review"].try = n,
         fresh' = fresh \/ fresh' = fresh \cup {n}, UNCHANGED <<paid, timeouts>>
  PROVE  TriesNumbered' /\ PaidFor' /\ IsFiniteSet(works'["review"])
<1>0. call["review"].try \in Nat /\ works["review"] \subseteq Nat /\ fresh \subseteq Nat
  BY DEF PortsType, CallRow, Ports
<1>1. n \notin works["review"] /\ n \notin fresh
  BY <1>0 DEF TriesNumbered, PortsType, Ports
<1>2. Abandoned' = Abandoned
  BY <1>1 DEF Abandoned, Current
<1>3. TriesNumbered'
  <2>1. \A m \in works["review"] \cup {n} : m <= n
    BY <1>0 DEF TriesNumbered
  <2>2. \A m \in fresh' : m <= n
    <3>1. \A m \in fresh : m <= n
      BY <1>0 DEF TriesNumbered
    <3> QED
      BY <3>1
  <2> QED
    BY <2>1, <2>2 DEF TriesNumbered
<1>4. IsFiniteSet(works'["review"])
  <2>1. IsFiniteSet(works["review"] \cup {n})
    BY FS_AddElement DEF PortsType
  <2> QED
    BY <2>1
<1> QED
  BY <1>2, <1>3, <1>4 DEF PaidFor

LEMMA StartsKeep ==
  ASSUME PortsInv, NEW p \in Ports, NEW n \in Nat, ~aborted, Starts(p, n), n = call[p].try + 1,
         call[p].at \in {"idle", "pause"}, NEW e \in {"none", "fault", "declared", "cancel", "timeout"},
         call' = [call EXCEPT ![p] = [at |-> "running", try |-> n, err |-> e]],
         UNCHANGED <<told, answered, paid, timeouts, aborted>>
  PROVE  PortsInv'
<1>1. /\ call' \in [Ports -> CallRow] /\ works' \in [Ports -> SUBSET Nat] /\ ~late'
      /\ works' = [works EXCEPT ![p] = works[p] \cup {n}]
  BY DEF PortsInv, PortsType, CallRow, Starts
<1>2. fresh' \in SUBSET Nat
  BY DEF Starts, PortsInv, PortsType
<1>3. TriesNumbered' /\ PaidFor' /\ IsFiniteSet(works'["review"])
  <2>1. CASE p = "review"
    BY <1>1, <2>1, AccountStarts DEF PortsInv, PortsType, Starts, Ports
  <2>2. CASE p # "review"
    BY <1>1, <2>2, AccountStays DEF PortsInv, PortsType, Starts, Ports
  <2> QED
    BY <2>1, <2>2
<1>4. ClonesTold'
  BY <1>1 DEF PortsInv, PortsType, ClonesTold, Current, Ports
<1>5. ThrottleFinal' /\ IdleUntried'
  BY DEF PortsInv, PortsType, ThrottleFinal, IdleUntried
<1> QED
  BY <1>1, <1>2, <1>3, <1>4, <1>5 DEF PortsInv, PortsType

(* A gate that is shut ends the call. *)
LEMMA ShutKeeps ==
  ASSUME PortsInv, NEW p \in Ports, call[p].at \in {"idle", "pause"},
         NEW e \in {"none", "fault", "declared", "cancel", "timeout", "throttle"},
         NEW n, n = call[p].try, call' = [call EXCEPT ![p] = [at |-> "failed", try |-> n, err |-> e]],
         UNCHANGED <<works, told, fresh, paid, timeouts, late>>
  PROVE  PortsInv'
<1>1. PortsType'
  BY DEF PortsInv, PortsType, CallRow
<1>2. TriesNumbered' /\ PaidFor'
  <2>1. CASE p = "review"
    BY <2>1, AccountStays DEF PortsInv, PortsType, Ports
  <2>2. CASE p # "review"
    BY <2>2, AccountStays DEF PortsInv, PortsType, Ports
  <2> QED
    BY <2>1, <2>2
<1>3. ClonesTold' /\ ThrottleFinal' /\ IdleUntried'
  BY DEF PortsInv, PortsType, ClonesTold, ThrottleFinal, IdleUntried, Current, Ports
<1> QED
  BY <1>1, <1>2, <1>3 DEF PortsInv

LEMMA DispatchKeeps ==
  ASSUME PortsInv, NEW p \in Ports, Dispatch(p)
  PROVE  PortsInv'
<1>0. call[p].at = "idle" /\ call[p].try = 0
  BY DEF Dispatch, PortsInv, IdleUntried
<1>1. CASE Gate(p) = "shut"
  BY <1>0, <1>1, ShutKeeps DEF Dispatch
<1>2. CASE Gate(p) = "open"
  BY <1>0, <1>2, StartsKeep DEF Dispatch, Gate
<1> QED
  BY <1>1, <1>2 DEF Dispatch

LEMMA PauseKeeps ==
  ASSUME PortsInv, NEW p \in Ports, PauseEnds(p)
  PROVE  PortsInv'
<1>0. /\ call[p].at = "pause" /\ call[p].try \in Nat /\ call[p] \in CallRow
      /\ call[p].err \in {"none", "fault", "declared", "cancel", "timeout"}
  BY DEF PauseEnds, PortsInv, PortsType, CallRow, ThrottleFinal
<1>1. CASE Gate(p) = "shut"
  <2>1. call' = [call EXCEPT ![p] = [at |-> "failed", try |-> call[p].try, err |-> call[p].err]]
    BY <1>0, <1>1 DEF PauseEnds, PortsInv, PortsType, CallRow
  <2> QED
    BY <1>0, <1>1, <2>1, ShutKeeps DEF PauseEnds
<1>2. CASE Gate(p) = "open"
  <2>1. call' = [call EXCEPT ![p] = [at |-> "running", try |-> call[p].try + 1, err |-> call[p].err]]
    BY <1>0, <1>2 DEF PauseEnds, PortsInv, PortsType, CallRow
  <2>2. call[p].try + 1 \in Nat /\ ~aborted /\ Starts(p, call[p].try + 1)
    BY <1>0, <1>2 DEF PauseEnds, Gate
  <2> QED
    BY <1>0, <1>2, <2>1, <2>2, StartsKeep DEF PauseEnds
<1> QED
  BY <1>1, <1>2 DEF PauseEnds

(* A work ends. A given-up one takes what it costs from Abandoned; the       *)
(* current one takes nothing, and its call is over or pauses.                *)
LEMMA WorkGone ==
  ASSUME PortsInv, NEW n \in works["review"], works'["review"] = works["review"] \ {n}, UNCHANGED fresh,
         IF Current("review", n)
         THEN call'["review"].at # "running"
         ELSE call'["review"] = call["review"]
  PROVE  /\ IsFiniteSet(works'["review"])
         /\ Cardinality(Abandoned') =
              Cardinality(Abandoned) - (IF n \in fresh /\ ~Current("review", n) THEN 1 ELSE 0)
<1>1. IsFiniteSet(works["review"]) /\ IsFiniteSet(works["review"] \ {n})
  BY FS_RemoveElement DEF PortsInv, PortsType
<1>2. Abandoned' = Abandoned \ {n}
  BY DEF Abandoned, Current
<1>3. IsFiniteSet(Abandoned) /\ Cardinality(Abandoned) \in Nat
  BY AbandonedFinite DEF PortsInv
<1>4. Cardinality(Abandoned \ {n}) = IF n \in Abandoned THEN Cardinality(Abandoned) - 1 ELSE Cardinality(Abandoned)
  BY <1>3, FS_RemoveElement
<1>5. n \in Abandoned <=> n \in fresh /\ ~Current("review", n)
  BY DEF Abandoned
<1> QED
  BY <1>1, <1>2, <1>3, <1>4, <1>5

LEMMA WorkEnds ==
  ASSUME PortsInv, NEW p \in Ports, NEW n \in works[p], works' = [works EXCEPT ![p] = @ \ {n}],
         NEW r \in CallRow, r.at \in {"done", "failed", "pause"}, r.err = "throttle" => r.at = "failed",
         r.try = call[p].try, call' = IF Current(p, n) THEN [call EXCEPT ![p] = r] ELSE call,
         \/ paid' = paid
         \/ paid' = paid + 1 /\ p = "review" /\ n \in fresh /\ (Current(p, n) => r.at = "done"),
         UNCHANGED <<told, fresh, timeouts, late>>
  PROVE  PortsInv'
<1>0. /\ call \in [Ports -> CallRow] /\ works \in [Ports -> SUBSET Nat] /\ paid \in Nat /\ timeouts \in Nat
      /\ Cardinality(Abandoned) \in Nat
  BY AbandonedFinite DEF PortsInv, PortsType
<1>1. call' \in [Ports -> CallRow] /\ works' \in [Ports -> SUBSET Nat] /\ paid' \in Nat
  BY <1>0
<1>2. IdleUntried' /\ ThrottleFinal'
  BY <1>0 DEF PortsInv, IdleUntried, ThrottleFinal
<1>3. ClonesTold'
  BY <1>0 DEF PortsInv, ClonesTold, Current, Ports
<1>4. IsFiniteSet(works'["review"]) /\ TriesNumbered' /\ PaidFor'
  <2>1. CASE p # "review"
    BY <1>0, <2>1, AccountStays DEF PortsInv, PortsType, Ports
  <2>2. CASE p = "review"
    <3>1. "review" \in Ports /\ works'["review"] = works["review"] \ {n}
      BY <1>0, <2>2 DEF Ports
    <3>2. IF Current("review", n) THEN call'["review"] = r ELSE call'["review"] = call["review"]
      BY <1>0, <2>2, <3>1
    <3>3. TriesNumbered'
      BY <2>2, <3>1, <3>2 DEF PortsInv, TriesNumbered
    <3>4. /\ IsFiniteSet(works'["review"])
          /\ Cardinality(Abandoned') =
              Cardinality(Abandoned) - (IF n \in fresh /\ ~Current("review", n) THEN 1 ELSE 0)
      BY <2>2, <3>1, <3>2, WorkGone
    <3>5. CASE Current("review", n)
      <4>1. call["review"].at # "done" /\ call'["review"].at = r.at
        BY <3>2, <3>5 DEF Current
      <4> QED
        BY <1>0, <2>2, <3>3, <3>4, <3>5, <4>1 DEF PortsInv, PaidFor
    <3>6. CASE ~Current("review", n)
      BY <1>0, <2>2, <3>2, <3>3, <3>4, <3>6 DEF PortsInv, PaidFor
    <3> QED
      BY <3>5, <3>6
  <2> QED
    BY <2>1, <2>2
<1> QED
  BY <1>0, <1>1, <1>2, <1>3, <1>4 DEF PortsInv, PortsType

LEMMA SucceedsKeeps ==
  ASSUME PortsInv, NEW p \in Ports, Succeeds(p)
  PROVE  PortsInv'
<1>0. call[p] \in CallRow
  BY DEF PortsInv, PortsType
<1>1. PICK n \in works[p] :
        /\ works' = [works EXCEPT ![p] = @ \ {n}]
        /\ paid' = IF p = "review" /\ n \in fresh THEN paid + 1 ELSE paid
        /\ call' = IF n = call[p].try /\ call[p].at = "running" THEN [call EXCEPT ![p].at = "done"] ELSE call
        /\ UNCHANGED <<told, fresh, timeouts, aborted, deps, late>>
  BY DEF Succeeds
<1> DEFINE e == IF call[p].at = "running" THEN call[p].err ELSE "none"
<1> DEFINE r == [at |-> "done", try |-> call[p].try, err |-> e]
<1>2. r \in CallRow /\ r.at = "done" /\ r.try = call[p].try /\ r.err # "throttle"
  BY <1>0 DEF CallRow, PortsInv, ThrottleFinal
<1>3. Current(p, n) => [call EXCEPT ![p].at = "done"] = [call EXCEPT ![p] = r]
  <2> SUFFICES ASSUME Current(p, n) PROVE [call EXCEPT ![p].at = "done"] = [call EXCEPT ![p] = r]
    OBVIOUS
  <2>1. r = [call[p] EXCEPT !.at = "done"]
    BY <1>0 DEF Current, CallRow
  <2> HIDE DEF r
  <2> QED
    BY <2>1
<1>4. call' = IF Current(p, n) THEN [call EXCEPT ![p] = r] ELSE call
  BY <1>1, <1>3 DEF Current
<1> HIDE DEF r
<1> QED
  BY <1>1, <1>2, <1>4, WorkEnds

LEMMA FailsKeeps ==
  ASSUME PortsInv, NEW p \in Ports, Fails(p)
  PROVE  PortsInv'
<1>0. call[p] \in CallRow
  BY DEF PortsInv, PortsType
<1>1. PICK n \in works[p], e \in Errors(p) \cup {"cancel"} :
        /\ works' = [works EXCEPT ![p] = @ \ {n}]
        /\ call' = IF n = call[p].try /\ call[p].at = "running" THEN [call EXCEPT ![p] = AfterError(p, e)] ELSE call
        /\ UNCHANGED <<told, answered, fresh, paid, timeouts, aborted, deps, late>>
  BY DEF Fails
<1>2. e \in {"fault", "throttle", "declared", "cancel"}
  BY <1>1 DEF Errors
<1>3. /\ AfterError(p, e) \in CallRow /\ AfterError(p, e).at \in {"failed", "pause"}
      /\ AfterError(p, e).try = call[p].try /\ (AfterError(p, e).err = "throttle" => AfterError(p, e).at = "failed")
  BY <1>0, <1>2 DEF AfterError, NonRetryable, CallRow
<1>4. call' = IF Current(p, n) THEN [call EXCEPT ![p] = AfterError(p, e)] ELSE call
  BY <1>1 DEF Current
<1> QED
  BY <1>1, <1>3, <1>4, WorkEnds

(* The try that times out may be paid for all the same. *)
LEMMA TimesOutKeeps ==
  ASSUME PortsInv, NEW p \in Ports, TimesOut(p)
  PROVE  PortsInv'
<1>0. /\ call \in [Ports -> CallRow] /\ told \in [Ports -> SUBSET Nat] /\ paid \in Nat /\ timeouts \in Nat
      /\ IsFiniteSet(Abandoned) /\ Cardinality(Abandoned) \in Nat
  BY AbandonedFinite DEF PortsInv, PortsType
<1>1. PICK a \in {"failed", "pause"} :
        /\ call[p].at = "running" /\ call' = [call EXCEPT ![p] = [at |-> a, try |-> call[p].try, err |-> "timeout"]]
        /\ told' = [told EXCEPT ![p] = @ \cup {call[p].try}]
        /\ timeouts' = IF p = "review" THEN timeouts + 1 ELSE timeouts
        /\ UNCHANGED <<works, fresh, paid, late>>
  BY <1>0 DEF TimesOut, TellsWork, CallRow
<1>2. call' \in [Ports -> CallRow] /\ told' \in [Ports -> SUBSET Nat] /\ timeouts' \in Nat
  BY <1>0, <1>1 DEF CallRow
<1>3. IdleUntried' /\ ThrottleFinal' /\ ClonesTold'
  BY <1>0, <1>1 DEF PortsInv, IdleUntried, ThrottleFinal, ClonesTold, Current, Ports
<1>4. TriesNumbered' /\ PaidFor'
  <2>1. CASE p # "review"
    BY <1>0, <1>1, <2>1, AccountStays DEF PortsInv, PortsType, Ports
  <2>2. CASE p = "review"
    <3>1. /\ "review" \in Ports /\ call["review"].at = "running" /\ call'["review"].at = a
          /\ call'["review"].try = call["review"].try /\ timeouts' = timeouts + 1
      BY <1>0, <1>1, <2>2 DEF Ports
    <3>2. Abandoned' \subseteq Abandoned \cup {call["review"].try}
      BY <1>1, <3>1 DEF Abandoned, Current
    <3>3. /\ IsFiniteSet(Abandoned \cup {call["review"].try})
          /\ Cardinality(Abandoned \cup {call["review"].try}) <= Cardinality(Abandoned) + 1
      <4> DEFINE t == call["review"].try
      <4>1. /\ IsFiniteSet(Abandoned \cup {t})
            /\ \/ Cardinality(Abandoned \cup {t}) = Cardinality(Abandoned)
               \/ Cardinality(Abandoned \cup {t}) = Cardinality(Abandoned) + 1
        BY <1>0, FS_AddElement
      <4> QED
        BY <1>0, <4>1
    <3>4. Cardinality(Abandoned') \in Nat /\ Cardinality(Abandoned') <= Cardinality(Abandoned) + 1
      BY <1>0, <3>2, <3>3, FS_Subset, FS_CardinalityType
    <3>5. TriesNumbered'
      BY <1>1, <3>1 DEF PortsInv, TriesNumbered
    <3> QED
      BY <1>0, <1>1, <3>1, <3>4, <3>5 DEF PortsInv, PaidFor
  <2> QED
    BY <2>1, <2>2
<1> QED
  BY <1>1, <1>2, <1>3, <1>4 DEF PortsInv, PortsType

LEMMA AbortsKeep == PortsInv /\ Aborts => PortsInv'
<1> SUFFICES ASSUME PortsInv, Aborts PROVE PortsInv'
  OBVIOUS
<1>1. UNCHANGED <<call, works, fresh, paid, timeouts, late>>
  BY DEF Aborts
<1>2. told' \in [Ports -> SUBSET Nat] /\ \A p \in Ports : told[p] \subseteq told'[p]
  BY DEF Aborts, PortsInv, PortsType, CallRow
<1>3. TriesNumbered' /\ PaidFor'
  BY <1>1, AccountStays DEF PortsInv
<1>4. ClonesTold' /\ ThrottleFinal' /\ IdleUntried'
  BY <1>1, <1>2 DEF PortsInv, ClonesTold, ThrottleFinal, IdleUntried, Current, Ports
<1> QED
  BY <1>1, <1>2, <1>3, <1>4 DEF PortsInv, PortsType

LEMMA PortsKeep == PortsInv /\ [PortsNext]_portVars => PortsInv'
<1>1. PortsInv /\ UNCHANGED portVars => PortsInv'
  <2> SUFFICES ASSUME PortsInv, UNCHANGED portVars PROVE PortsInv'
    OBVIOUS
  <2>1. TriesNumbered' /\ PaidFor'
    BY AccountStays DEF PortsInv, portVars
  <2> QED
    BY <2>1 DEF PortsInv, portVars, PortsType, IdleUntried, ClonesTold, ThrottleFinal, Current
<1> QED
  BY <1>1, DispatchKeeps, PauseKeeps, SucceedsKeeps, FailsKeeps, TimesOutKeeps, AbortsKeep DEF PortsNext

(* Nothing is asked beyond a timeout per further payment. *)
LEMMA PortsSound == PortsInv => PortCallsSound
<1> SUFFICES ASSUME PortsInv PROVE PortCallsSound
  OBVIOUS
<1>1. paid \in Nat /\ timeouts \in Nat /\ Cardinality(Abandoned) \in Nat
  BY AbandonedFinite DEF PortsInv, PortsType
<1>2. paid <= 1 + timeouts
  BY <1>1 DEF PortsInv, PaidFor
<1> QED
  BY <1>2 DEF PortsInv, PortCallsSound, ClonesTold, ThrottleFinal, Current

(* One attempt, for any number of tries and chunks: no tool works in a       *)
(* workspace that was released, unless the chunker failed or the attempt was *)
(* aborted; no call starts after the abort, a clone given up was told to     *)
(* stop, throttling is not answered by another try, and each further payment *)
(* for a chunk has a timeout of its own (orchestrate, runWithRetry).         *)
THEOREM AttemptStaysSound == ReviewSpec => []AttemptSound
<1>1. ReviewInit => PipelineInv /\ PortsInv
  BY PartsInit, PipelineStarts, PortsStart
<1>2. (PipelineInv /\ PortsInv) /\ [ReviewNext]_reviewVars => (PipelineInv /\ PortsInv)'
  BY PartsStep, PipelineKeeps, PortsKeep
<1>3. PipelineInv /\ PortsInv => AttemptSound
  <2>1. PipelineInv => ToolsKeepWorkspace
    BY DEF PipelineInv, ToolsKeepWorkspace
  <2> QED
    BY <2>1, PortsSound DEF AttemptSound
<1> QED
  BY <1>1, <1>2, <1>3, PTL DEF ReviewSpec

-----------------------------------------------------------------------------
(* The tools. What a task knows at each step, and what the staging directory *)
(* must hold for a scanner that nobody disturbed.                            *)

TaskRow == [at : {"none", "skipped", "stage", "link", "spawn", "race", "terminating", "killing", "settled"},
            toLink : SUBSET Sources, tree : BOOLEAN, staged : BOOLEAN, proc : {"none", "running", "killed", "gone"},
            outcome : {"none", "completed", "failed_startup", "failed_runtime", "timed_out", "oom"},
            got : SUBSET {x[2] : x \in Problems}, excuse : SUBSET {"raced", "unstaged", "garbled"}]

ResultRow == [found : SUBSET (AllTools \X Sources), tier1 : SUBSET (AllTools \X Sources), errors : SUBSET AllTools,
              truncated : SUBSET AllTools, skippedCurator : BOOLEAN]

(* The files linked so far are there, as long as the task has no excuse. *)
Linked(t, r, dir) ==
  t = Scanner /\ r.at \in {"link", "spawn", "race"} /\ ~r.tree /\ r.excuse = {} =>
    FilesFor(t) \ (IF r.at = "link" THEN r.toLink ELSE {}) \subseteq dir

(* A settled task tells the truth. *)
Truthful(t, r) ==
  /\ r.proc # "running" /\ r.outcome # "none" /\ (r.outcome # "completed" => r.got = {})
  /\ r.outcome = "completed" /\ r.excuse = {} => \A f \in FilesFor(t) : <<t, f>> \in Problems => f \in r.got

TaskSound(t, r, dir) ==
  /\ r \in TaskRow /\ (r.staged => t = Scanner) /\ Linked(t, r, dir)
  /\ r.at \in {"none", "skipped", "stage", "link", "spawn"} => r.proc = "none" /\ r.outcome = "none" /\ r.got = {}
  /\ r.at = "race" => r.outcome = "none" /\ r.got = {}
  /\ r.at \in {"terminating", "killing"} => r.outcome \in {"timed_out", "oom"} /\ r.got = {}
  /\ r.at = "settled" => Truthful(t, r)

TasksSound == \A p \in Passes, t \in AllTools : TaskSound(t, toolTask[p][t], stagingDir)

(* A secret on a changed line is among the findings, or the scanner's list    *)
(* was cut.                                                                   *)
SecretKept(res) == OnChangedLines(OfTool(res.tier1, Scanner)) \subseteq res.found \/ Scanner \in res.truncated

PassSound(p) ==
  /\ stagePass[p] = "curate" =>
       /\ \A t \in AllTools : toolTask[p][t].at \in {"settled", "skipped"}
       /\ toolResult[p].tier1 = Reported(p) /\ toolResult[p].errors = Degraded(p)
  /\ stagePass[p] \in {"curate", "done"} => SecretKept(toolResult[p])

ToolsInv ==
  /\ toolTask \in [Passes -> [AllTools -> TaskRow]] /\ toolResult \in [Passes -> ResultRow]
  /\ stagePass \in [Passes -> {"idle", "running", "curate", "done", "unsafe"}]
  /\ TasksSound /\ \A p \in Passes : PassSound(p)

LEMMA FilesAreSources == \A t : FilesFor(t) \subseteq ToReview /\ FilesFor(t) \subseteq Sources
BY ToolsAssumption DEF FilesFor, Lowest

LEMMA ToolsSound == ToolsInv => ToolsHonest
<1> SUFFICES ASSUME ToolsInv PROVE ToolsHonest
  OBVIOUS
<1>1. ASSUME NEW p \in Passes, NEW t \in AllTools, stagePass[p] = "curate"
      PROVE  LET r == toolTask[p][t] IN
             /\ r.outcome = "completed" /\ r.excuse = {} =>
                  \A f \in FilesFor(t) : <<t, f>> \in Problems => <<t, f>> \in toolResult[p].tier1
             /\ r.at = "settled" /\ r.outcome # "completed" =>
                  t \in toolResult[p].errors /\ OfTool(toolResult[p].tier1, t) = {}
  <2> DEFINE r == toolTask[p][t]
  <2>1. /\ r.at \in {"settled", "skipped"} /\ r \in TaskRow
        /\ toolResult[p].tier1 = Reported(p) /\ toolResult[p].errors = Degraded(p)
    BY <1>1 DEF ToolsInv, PassSound
  <2>2. (r.at = "settled" => Truthful(t, r)) /\ (r.at = "skipped" => r.outcome = "none")
    BY DEF ToolsInv, TasksSound, TaskSound
  <2>3. ASSUME r.outcome = "completed", r.excuse = {}, NEW f \in FilesFor(t), <<t, f>> \in Problems
        PROVE  <<t, f>> \in Reported(p)
    BY <2>1, <2>2, <2>3, FilesAreSources DEF Truthful, Reported
  <2>4. ASSUME r.at = "settled", r.outcome # "completed"
        PROVE  t \in Degraded(p) /\ OfTool(Reported(p), t) = {}
    <3>1. r.outcome \in {"failed_startup", "failed_runtime", "timed_out", "oom"} /\ r.got = {}
      BY <2>1, <2>2, <2>4 DEF Truthful, TaskRow
    <3> QED
      BY <3>1 DEF Degraded, OfTool, Reported
  <2> QED
    BY <2>1, <2>3, <2>4
<1>2. CleanMeansScanned
  BY <1>1 DEF CleanMeansScanned
<1>3. SecretsReachReview
  BY DEF ToolsInv, PassSound, SecretKept, SecretsReachReview
<1>4. NoToolLeftRunning
  BY DEF ToolsInv, TasksSound, TaskSound, Truthful, NoToolLeftRunning
<1> QED
  BY <1>2, <1>3, <1>4 DEF ToolsHonest

LEMMA ToolsStart == ToolsInit => ToolsInv
<1> SUFFICES ASSUME ToolsInit PROVE ToolsInv
  OBVIOUS
<1>1. NoTask \in TaskRow /\ \A t : TaskSound(t, NoTask, {})
  BY DEF NoTask, TaskRow, TaskSound, Linked
<1>2. NoResult \in ResultRow
  BY DEF NoResult, ResultRow
<1>3. /\ toolTask \in [Passes -> [AllTools -> TaskRow]] /\ toolResult \in [Passes -> ResultRow]
      /\ stagePass \in [Passes -> {"idle", "running", "curate", "done", "unsafe"}]
  BY <1>1, <1>2 DEF ToolsInit
<1>4. TasksSound
  BY <1>1 DEF ToolsInit, TasksSound
<1>5. \A p \in Passes : PassSound(p)
  BY DEF ToolsInit, PassSound
<1> QED
  BY <1>3, <1>4, <1>5 DEF ToolsInv

(* A directory that grows serves a task as before; emptied under it, it gives *)
(* the task an excuse.                                                        *)
LEMMA GrowsSound ==
  ASSUME NEW t, NEW r, NEW dir, NEW more, TaskSound(t, r, dir), dir \subseteq more
  PROVE  TaskSound(t, r, more)
BY DEF TaskSound, Linked

LEMMA DisturbedSound ==
  ASSUME ToolsInv, NEW p \in Passes, NEW q \in Passes, q # p, NEW t \in AllTools
  PROVE  /\ TaskSound(t, Disturbed(p)[q][t], {})
         /\ toolTask[q][t].at \in {"settled", "skipped"} => Disturbed(p)[q][t] = toolTask[q][t]
<1> DEFINE r == toolTask[q][t]
<1>0. r \in TaskRow /\ TaskSound(t, r, stagingDir) /\ Scanner \in AllTools /\ toolTask[q] \in [AllTools -> TaskRow]
  BY DEF ToolsInv, TasksSound, AllTools
<1>1. CASE t = Scanner /\ r.at \in {"link", "spawn", "race"} /\ ~r.tree
  <2>1. Disturbed(p)[q][t] = [r EXCEPT !.excuse = r.excuse \cup {"raced"}]
    BY <1>0, <1>1 DEF Disturbed
  <2> QED
    BY <1>0, <1>1, <2>1 DEF TaskSound, TaskRow, Linked
<1>2. CASE ~(t = Scanner /\ r.at \in {"link", "spawn", "race"} /\ ~r.tree)
  <2>1. Disturbed(p)[q][t] = r
    BY <1>0, <1>2 DEF Disturbed
  <2> QED
    BY <1>0, <1>2, <2>1 DEF TaskSound, Linked
<1> QED
  BY <1>1, <1>2

(* A step of one task keeps the rest: passes that are being curated have no   *)
(* task that could move or be disturbed.                                      *)
LEMMA TaskStep ==
  ASSUME ToolsInv, NEW p \in Passes, NEW t \in AllTools, toolTask[p][t].at \notin {"settled", "skipped"},
         NEW r, TaskSound(t, r, stagingDir'),
         \/ toolTask' = [toolTask EXCEPT ![p][t] = r] /\ stagingDir \subseteq stagingDir'
         \/ toolTask' = [Disturbed(p) EXCEPT ![p][t] = r] /\ stagingDir' = {} /\ t = Scanner,
         UNCHANGED <<stagePass, toolResult>>
  PROVE  ToolsInv'
<1>0. /\ toolTask \in [Passes -> [AllTools -> TaskRow]] /\ r \in TaskRow
      /\ \A q \in Passes, u \in AllTools : TaskSound(u, toolTask[q][u], stagingDir)
  BY DEF ToolsInv, TasksSound, TaskSound
<1>1. Disturbed(p) = [q \in Passes |-> Disturbed(p)[q]] /\ Disturbed(p)[p] = toolTask[p]
  BY DEF Disturbed
<1>2. \A q \in Passes : Disturbed(p)[q] \in [AllTools -> TaskRow]
  <2>1. ASSUME NEW q \in Passes, NEW e
        PROVE  [toolTask[q] EXCEPT ![Scanner].excuse = e] = [u \in AllTools |-> [toolTask[q] EXCEPT ![Scanner].excuse = e][u]]
    BY <1>0
  <2>2. \A q \in Passes : Disturbed(p)[q] = [u \in AllTools |-> Disturbed(p)[q][u]]
    BY <1>0, <2>1 DEF Disturbed
  <2>3. \A q \in Passes, u \in AllTools : Disturbed(p)[q][u] \in TaskRow
    BY <1>0, <1>1, DisturbedSound DEF TaskSound
  <2> QED
    BY <2>2, <2>3
<1>3. /\ toolTask' \in [Passes -> [AllTools -> TaskRow]] /\ toolTask'[p][t] = r
      /\ \A u \in AllTools \ {t} : toolTask'[p][u] = toolTask[p][u]
      /\ \/ stagingDir \subseteq stagingDir' /\ \A q \in Passes \ {p} : toolTask'[q] = toolTask[q]
         \/ stagingDir' = {} /\ t = Scanner /\ \A q \in Passes \ {p} : toolTask'[q] = Disturbed(p)[q]
  <2>1. CASE toolTask' = [toolTask EXCEPT ![p][t] = r] /\ stagingDir \subseteq stagingDir'
    BY <1>0, <2>1
  <2>2. CASE toolTask' = [Disturbed(p) EXCEPT ![p][t] = r] /\ stagingDir' = {} /\ t = Scanner
    BY <1>0, <1>1, <1>2, <2>2
  <2> QED
    BY <2>1, <2>2
<1>4. ASSUME NEW u \in AllTools \ {t}
      PROVE  TaskSound(u, toolTask'[p][u], stagingDir')
  <2>1. CASE stagingDir \subseteq stagingDir'
    BY <1>0, <1>3, <2>1, GrowsSound
  <2>2. CASE t = Scanner
    BY <1>0, <1>3, <1>4, <2>2 DEF TaskSound, Linked
  <2> QED
    BY <1>3, <2>1, <2>2
<1>5. ASSUME NEW q \in Passes \ {p}, NEW u \in AllTools
      PROVE  TaskSound(u, toolTask'[q][u], stagingDir')
  <2>1. CASE stagingDir \subseteq stagingDir' /\ toolTask'[q] = toolTask[q]
    BY <1>0, <2>1, GrowsSound
  <2>2. CASE stagingDir' = {} /\ toolTask'[q] = Disturbed(p)[q]
    BY <1>5, <2>2, DisturbedSound
  <2> QED
    BY <1>3, <2>1, <2>2
<1>6. TasksSound'
  BY <1>3, <1>4, <1>5 DEF TasksSound
<1>7. ASSUME NEW q \in Passes
      PROVE  PassSound(q)'
  <2>1. CASE q = p
    BY <1>3, <2>1 DEF ToolsInv, PassSound, SecretKept
  <2>2. CASE q # p /\ stagePass[q] = "curate"
    <3>1. \A u \in AllTools : toolTask[q][u].at \in {"settled", "skipped"}
      BY <2>2 DEF ToolsInv, PassSound
    <3>2. \A u \in AllTools : toolTask'[q][u] = toolTask[q][u]
      BY <1>3, <2>2, <3>1, DisturbedSound
    <3>3. Reported(q)' = Reported(q) /\ Degraded(q)' = Degraded(q)
      BY <3>2 DEF Reported, Degraded
    <3> QED
      BY <3>1, <3>2, <3>3 DEF ToolsInv, PassSound, SecretKept
  <2>3. CASE stagePass[q] # "curate"
    BY <2>3 DEF ToolsInv, PassSound, SecretKept
  <2> QED
    BY <2>1, <2>2, <2>3
<1> QED
  BY <1>3, <1>6, <1>7 DEF ToolsInv

LEMMA SettlesKeeps ==
  ASSUME ToolsInv, NEW p \in Passes, NEW t \in AllTools, toolTask[p][t].at \notin {"settled", "skipped"},
         NEW r \in TaskRow, r.staged => t = Scanner, Truthful(t, r), Settles(p, t, r)
  PROVE  ToolsInv'
<1>1. \A dir : TaskSound(t, Settled(r), dir)
  BY DEF TaskSound, TaskRow, Settled, Truthful, Linked
<1>2. r.staged \in BOOLEAN
  BY DEF TaskRow
<1> HIDE DEF Settled
<1>3. CASE r.staged /\ stagingDir' = {} /\ toolTask' = [Disturbed(p) EXCEPT ![p][t] = Settled(r)]
  BY <1>1, <1>2, <1>3, TaskStep DEF Settles
<1>4. CASE stagingDir' = stagingDir /\ toolTask' = [toolTask EXCEPT ![p][t] = Settled(r)]
  BY <1>1, <1>2, <1>4, TaskStep DEF Settles
<1> QED
  BY <1>2, <1>3, <1>4 DEF Settles, Task

LEMMA StageKeeps ==
  ASSUME ToolsInv, NEW p \in Passes, StageReset(p) \/ StagingFails(p) \/ StageFile(p) \/ Staged(p)
  PROVE  ToolsInv'
<1> DEFINE r == toolTask[p][Scanner]
<1>0. /\ Scanner \in AllTools /\ r \in TaskRow /\ TaskSound(Scanner, r, stagingDir)
      /\ r.at \in {"stage", "link"} /\ FilesFor(Scanner) \subseteq Sources
  BY FilesAreSources DEF ToolsInv, TasksSound, AllTools, StageReset, StagingFails, StageFile, Staged
<1>1. CASE StageReset(p)
  <2> DEFINE s == [r EXCEPT !.at = "link", !.toLink = FilesFor(Scanner)]
  <2>1. TaskSound(Scanner, s, {})
    BY <1>0, <1>1 DEF StageReset, TaskSound, TaskRow, Linked
  <2>2. stagingDir' = {} /\ toolTask' = [Disturbed(p) EXCEPT ![p][Scanner] = s] /\ UNCHANGED <<stagePass, toolResult>>
    BY <1>1 DEF StageReset
  <2> HIDE DEF s
  <2> QED
    BY <1>0, <2>1, <2>2, TaskStep
<1>2. CASE StagingFails(p)
  <2> DEFINE s == [r EXCEPT !.at = "spawn", !.tree = TRUE]
  <2>1. \A dir : TaskSound(Scanner, s, dir)
    BY <1>0, <1>2 DEF StagingFails, TaskSound, TaskRow, Linked
  <2>2. /\ UNCHANGED <<stagePass, toolResult>> /\ stagingDir' \in {stagingDir, {}}
        /\ toolTask' = [(IF stagingDir' = {} THEN Disturbed(p) ELSE toolTask) EXCEPT ![p][Scanner] = s]
    BY <1>2 DEF StagingFails
  <2> HIDE DEF s
  <2>3. CASE stagingDir' = {}
    BY <1>0, <2>1, <2>2, <2>3, TaskStep
  <2>4. CASE stagingDir' # {}
    BY <1>0, <2>1, <2>2, <2>4, TaskStep
  <2> QED
    BY <2>3, <2>4
<1>3. CASE StageFile(p)
  <2> DEFINE f == Min(r.toLink)
             s == [r EXCEPT !.toLink = r.toLink \ {f}]
             u == [r EXCEPT !.toLink = r.toLink \ {f}, !.excuse = r.excuse \cup {"unstaged"}]
  <2>1. /\ UNCHANGED <<stagePass, toolResult>>
        /\ \/ stagingDir' = stagingDir \cup {f} /\ toolTask' = [toolTask EXCEPT ![p][Scanner] = s]
           \/ stagingDir' = stagingDir /\ toolTask' = [toolTask EXCEPT ![p][Scanner] = u]
    BY <1>3 DEF StageFile, Task
  <2> HIDE DEF f
  <2>2. r.at = "link"
    BY <1>3 DEF StageFile
  <2>3. TaskSound(Scanner, s, stagingDir \cup {f})
    BY <1>0, <2>2 DEF TaskSound, TaskRow, Linked
  <2>4. TaskSound(Scanner, u, stagingDir)
    BY <1>0, <2>2 DEF TaskSound, TaskRow, Linked
  <2> HIDE DEF s, u
  <2> QED
    BY <1>0, <2>1, <2>2, <2>3, <2>4, TaskStep
<1>4. CASE Staged(p)
  <2> DEFINE s == [r EXCEPT !.at = "spawn", !.staged = TRUE]
  <2>1. TaskSound(Scanner, s, stagingDir)
    BY <1>0, <1>4 DEF Staged, TaskSound, TaskRow, Linked
  <2>2. stagingDir' = stagingDir /\ toolTask' = [toolTask EXCEPT ![p][Scanner] = s] /\ UNCHANGED <<stagePass, toolResult>>
    BY <1>4 DEF Staged, Task
  <2> HIDE DEF s
  <2> QED
    BY <1>0, <2>1, <2>2, TaskStep
<1> QED
  BY <1>1, <1>2, <1>3, <1>4

(* A task that is spawned, cut off or killed. *)
LEMMA RunKeeps ==
  ASSUME ToolsInv, NEW p \in Passes, NEW t \in AllTools, Spawn(p, t) \/ CutOff(p, t) \/ GraceEnds(p, t)
  PROVE  ToolsInv'
<1> DEFINE r == toolTask[p][t]
<1>0. r \in TaskRow /\ TaskSound(t, r, stagingDir) /\ r.at \in {"spawn", "race", "terminating"}
  BY DEF ToolsInv, TasksSound, Spawn, CutOff, GraceEnds
<1>1. PICK s : /\ TaskSound(t, s, stagingDir) /\ toolTask' = [toolTask EXCEPT ![p][t] = s]
               /\ UNCHANGED <<stagePass, stagingDir, toolResult>>
  <2>1. CASE Spawn(p, t)
    <3> DEFINE s == [r EXCEPT !.at = "race", !.proc = "running"]
    <3>1. TaskSound(t, s, stagingDir)
      BY <1>0, <2>1 DEF Spawn, TaskSound, TaskRow, Linked
    <3> QED
      BY <2>1, <3>1 DEF Spawn, Task
  <2>2. CASE CutOff(p, t)
    <3>1. PICK o \in {"timed_out", "oom"} : Task(p, t, [r EXCEPT !.at = "terminating", !.outcome = o])
      BY <2>2 DEF CutOff
    <3>2. TaskSound(t, [r EXCEPT !.at = "terminating", !.outcome = o], stagingDir)
      BY <1>0, <2>2 DEF CutOff, TaskSound, TaskRow, Linked
    <3> QED
      BY <2>2, <3>1, <3>2 DEF CutOff, Task
  <2>3. CASE GraceEnds(p, t)
    <3>1. TaskSound(t, [r EXCEPT !.at = "killing", !.proc = "killed"], stagingDir)
      BY <1>0, <2>3 DEF GraceEnds, TaskSound, TaskRow, Linked
    <3> QED
      BY <2>3, <3>1 DEF GraceEnds, Task
  <2> QED
    BY <2>1, <2>2, <2>3
<1> QED
  BY <1>0, <1>1, TaskStep

(* A scan that ends well has seen every file the tool was given. *)
LEMMA ExitKeeps ==
  ASSUME ToolsInv, NEW p \in Passes, NEW t \in AllTools, ToolExits(p, t)
  PROVE  ToolsInv'
<1> DEFINE r == toolTask[p][t]
           seen == {f \in Scanned(p, t) : <<t, f>> \in Problems}
<1>0. r \in TaskRow /\ TaskSound(t, r, stagingDir) /\ r.at = "race"
  BY DEF ToolsInv, TasksSound, ToolExits
<1>1. PICK code \in {"ok", "garbled", "crashed", "sigkilled"} :
        Settles(p, t, [r EXCEPT !.proc = "gone", !.outcome = ExitOutcome(code),
          !.excuse = IF code = "garbled" THEN r.excuse \cup {"garbled"} ELSE r.excuse,
          !.got = IF code = "ok" THEN seen ELSE {}])
  BY DEF ToolExits
<1>2. seen \subseteq {x[2] : x \in Problems}
  BY DEF Scanned
<1>3. r.excuse = {} => FilesFor(t) \subseteq Scanned(p, t)
  BY <1>0, FilesAreSources DEF TaskSound, Linked, Scanned
<1>4. \A f \in FilesFor(t) : <<t, f>> \in Problems /\ r.excuse = {} => f \in seen
  BY <1>3
<1> HIDE DEF seen
<1> DEFINE o == ExitOutcome(code)
           e == IF code = "garbled" THEN r.excuse \cup {"garbled"} ELSE r.excuse
           g == IF code = "ok" THEN seen ELSE {}
           s == [r EXCEPT !.proc = "gone", !.outcome = o, !.excuse = e, !.got = g]
<1>5. /\ o \in {"completed", "failed_runtime", "oom"} /\ e \in SUBSET {"raced", "unstaged", "garbled"}
      /\ g \in SUBSET {x[2] : x \in Problems} /\ (o # "completed" => g = {})
      /\ o = "completed" /\ e = {} => code = "ok" /\ r.excuse = {} /\ g = seen
  BY <1>0, <1>2 DEF ExitOutcome, TaskRow
<1> HIDE DEF o, e, g
<1>6. /\ s \in TaskRow /\ s.staged = r.staged /\ s.proc = "gone" /\ s.outcome = o /\ s.excuse = e /\ s.got = g
  BY <1>0, <1>5 DEF TaskRow
<1>7. Settles(p, t, s)
  BY <1>1 DEF o, e, g
<1> HIDE DEF s
<1>8. Truthful(t, s)
  BY <1>4, <1>5, <1>6 DEF Truthful
<1>9. s.staged => t = Scanner
  BY <1>0, <1>6 DEF TaskSound
<1> QED
  BY <1>0, <1>6, <1>7, <1>8, <1>9, SettlesKeeps

LEMMA EndKeeps ==
  ASSUME ToolsInv, NEW p \in Passes, NEW t \in AllTools, LaunchFails(p, t) \/ TermWorks(p, t) \/ KillWaited(p, t)
  PROVE  ToolsInv'
<1> DEFINE r == toolTask[p][t]
<1>0. r \in TaskRow /\ TaskSound(t, r, stagingDir) /\ r.at \in {"spawn", "terminating", "killing"}
  BY DEF ToolsInv, TasksSound, LaunchFails, TermWorks, KillWaited
<1>1. PICK s \in TaskRow : Truthful(t, s) /\ (s.staged => t = Scanner) /\ Settles(p, t, s)
  <2>1. CASE LaunchFails(p, t)
    <3> DEFINE s == [r EXCEPT !.outcome = "failed_startup"]
    <3>1. s \in TaskRow /\ Truthful(t, s) /\ (s.staged => t = Scanner)
      BY <1>0, <2>1 DEF LaunchFails, TaskSound, TaskRow, Truthful
    <3> QED
      BY <2>1, <3>1 DEF LaunchFails
  <2>2. CASE TermWorks(p, t) \/ KillWaited(p, t)
    <3>1. PICK x \in {"killed", "gone"} : Settles(p, t, [r EXCEPT !.proc = x])
      BY <2>2 DEF TermWorks, KillWaited
    <3> DEFINE s == [r EXCEPT !.proc = x]
    <3>2. s \in TaskRow /\ Truthful(t, s) /\ (s.staged => t = Scanner)
      BY <1>0, <2>2 DEF TermWorks, KillWaited, TaskSound, TaskRow, Truthful
    <3> QED
      BY <3>1, <3>2
  <2> QED
    BY <2>1, <2>2
<1> QED
  BY <1>0, <1>1, SettlesKeeps

(* A step of a whole pass: its tasks begin or are put away, or its results   *)
(* are drawn up; the other passes stay as they are.                          *)
LEMMA PassStep ==
  ASSUME ToolsInv, NEW p \in Passes, UNCHANGED stagingDir,
         NEW ts \in [AllTools -> TaskRow], toolTask' = [toolTask EXCEPT ![p] = ts],
         \A t \in AllTools : TaskSound(t, ts[t], stagingDir),
         NEW a \in {"running", "curate", "done", "unsafe"}, stagePass' = [stagePass EXCEPT ![p] = a],
         NEW res \in ResultRow, toolResult' = [toolResult EXCEPT ![p] = res],
         PassSound(p)'
  PROVE  ToolsInv'
<1>0. /\ toolTask \in [Passes -> [AllTools -> TaskRow]] /\ toolResult \in [Passes -> ResultRow]
      /\ stagePass \in [Passes -> {"idle", "running", "curate", "done", "unsafe"}]
  BY DEF ToolsInv
<1>1. /\ toolTask' \in [Passes -> [AllTools -> TaskRow]] /\ toolResult' \in [Passes -> ResultRow]
      /\ stagePass' \in [Passes -> {"idle", "running", "curate", "done", "unsafe"}]
  BY <1>0
<1>2. TasksSound'
  BY <1>0 DEF ToolsInv, TasksSound
<1>3. ASSUME NEW q \in Passes, q # p
      PROVE  PassSound(q)'
  <2>1. toolTask'[q] = toolTask[q] /\ toolResult'[q] = toolResult[q] /\ stagePass'[q] = stagePass[q]
    BY <1>0, <1>3
  <2>2. Reported(q)' = Reported(q) /\ Degraded(q)' = Degraded(q)
    BY <2>1 DEF Reported, Degraded
  <2> QED
    BY <2>1, <2>2 DEF ToolsInv, PassSound, SecretKept
<1> QED
  BY <1>1, <1>2, <1>3 DEF ToolsInv

LEMMA StartKeeps ==
  ASSUME ToolsInv, NEW p \in Passes, StartTools(p)
  PROVE  ToolsInv'
<1> DEFINE first(t) == IF FilesFor(t) = {} THEN "skipped" ELSE IF t = Scanner THEN "stage" ELSE "spawn"
           ts == [t \in AllTools |-> [NoTask EXCEPT !.at = first(t)]]
<1>1. ASSUME NEW t \in AllTools
      PROVE  [NoTask EXCEPT !.at = first(t)] \in TaskRow /\ TaskSound(t, [NoTask EXCEPT !.at = first(t)], stagingDir)
  BY DEF NoTask, TaskRow, TaskSound, Linked
<1>2. ts \in [AllTools -> TaskRow] /\ \A t \in AllTools : TaskSound(t, ts[t], stagingDir)
  BY <1>1
<1>3. /\ toolTask' = [toolTask EXCEPT ![p] = ts] /\ stagePass' = [stagePass EXCEPT ![p] = "running"]
      /\ UNCHANGED <<stagingDir, toolResult>>
  BY DEF StartTools
<1> HIDE DEF ts
<1>4. toolResult[p] \in ResultRow /\ toolResult' = [toolResult EXCEPT ![p] = toolResult[p]] /\ stagePass'[p] = "running"
  BY <1>3 DEF ToolsInv
<1>5. PassSound(p)'
  BY <1>4 DEF PassSound
<1> QED
  BY <1>2, <1>3, <1>4, <1>5, PassStep

LEMMA CollectKeeps ==
  ASSUME ToolsInv, NEW p \in Passes, Collect(p)
  PROVE  ToolsInv'
<1> DEFINE S == Reported(p)
           res == [NoResult EXCEPT !.tier1 = S, !.errors = Degraded(p), !.truncated = {x[1] : x \in S \ CapPerTool(S)},
                                   !.found = OnChangedLines(CapPerTool(S))]
<1>1. /\ stagePass' = [stagePass EXCEPT ![p] = "curate"] /\ toolResult' = [toolResult EXCEPT ![p] = res]
      /\ UNCHANGED <<toolTask, stagingDir>> /\ \A t \in AllTools : toolTask[p][t].at \in {"settled", "skipped"}
  BY DEF Collect
<1>2. S \subseteq AllTools \X Sources /\ Degraded(p) \subseteq AllTools
  BY DEF Reported, Degraded
<1>3. CapPerTool(S) \subseteq S /\ \A x \in S : x[1] \in AllTools
  BY <1>2 DEF CapPerTool
<1>4. /\ res \in ResultRow /\ res.tier1 = S /\ res.errors = Degraded(p)
      /\ res.truncated = {x[1] : x \in S \ CapPerTool(S)} /\ res.found = OnChangedLines(CapPerTool(S))
  BY <1>2, <1>3 DEF NoResult, ResultRow, OnChangedLines
<1>5. SecretKept(res)
  BY <1>4 DEF SecretKept, OnChangedLines, OfTool
<1>6. Reported(p)' = S /\ Degraded(p)' = Degraded(p)
  BY <1>1 DEF Reported, Degraded
<1> HIDE DEF res
<1>7. toolResult'[p] = res /\ stagePass'[p] = "curate"
  BY <1>1 DEF ToolsInv
<1>8. PassSound(p)'
  BY <1>1, <1>4, <1>5, <1>6, <1>7 DEF PassSound
<1>9. /\ toolTask[p] \in [AllTools -> TaskRow] /\ toolTask' = [toolTask EXCEPT ![p] = toolTask[p]]
      /\ \A t \in AllTools : TaskSound(t, toolTask[p][t], stagingDir)
  BY <1>1 DEF ToolsInv, TasksSound
<1> QED
  BY <1>1, <1>4, <1>8, <1>9, PassStep

(* Whatever the model picks, the scanner's findings stay. *)
LEMMA CurateKeeps ==
  ASSUME ToolsInv, NEW p \in Passes, Curate(p)
  PROVE  ToolsInv'
<1> DEFINE old == toolResult[p]
           ts == [t \in AllTools |-> NoTask]
<1>0. old \in ResultRow /\ stagePass[p] = "curate" /\ SecretKept(old)
  BY DEF ToolsInv, PassSound, Curate
<1>1. PICK res : /\ toolResult' = [toolResult EXCEPT ![p] = res] /\ res \in ResultRow
                 /\ res.tier1 = old.tier1 /\ res.truncated = old.truncated
                 /\ OfTool(old.found, Scanner) \subseteq res.found
  <2>1. CASE UNCHANGED toolResult
    BY <1>0, <2>1 DEF ToolsInv, OfTool
  <2>2. CASE \E picked \in SUBSET (old.found \ AlwaysPromote(old.found)) :
               toolResult' = [toolResult EXCEPT ![p].found = AlwaysPromote(old.found) \cup picked]
    <3>1. PICK picked \in SUBSET (old.found \ AlwaysPromote(old.found)) :
               toolResult' = [toolResult EXCEPT ![p].found = AlwaysPromote(old.found) \cup picked]
      BY <2>2
    <3> DEFINE res == [old EXCEPT !.found = AlwaysPromote(old.found) \cup picked]
    <3>2. /\ res \in ResultRow /\ res.tier1 = old.tier1 /\ res.truncated = old.truncated
          /\ res.found = AlwaysPromote(old.found) \cup picked
      BY <1>0 DEF ResultRow, AlwaysPromote, OfTool
    <3>3. toolResult' = [toolResult EXCEPT ![p] = res]
      BY <3>1
    <3> QED
      BY <3>2, <3>3 DEF AlwaysPromote
  <2>3. CASE toolResult' = [toolResult EXCEPT ![p].found = AlwaysPromote(old.found), ![p].skippedCurator = TRUE]
    <3> DEFINE res == [old EXCEPT !.found = AlwaysPromote(old.found), !.skippedCurator = TRUE]
    <3>2. /\ res \in ResultRow /\ res.tier1 = old.tier1 /\ res.truncated = old.truncated
          /\ res.found = AlwaysPromote(old.found)
      BY <1>0 DEF ResultRow, AlwaysPromote, OfTool
    <3>3. toolResult' = [toolResult EXCEPT ![p] = res]
      BY <2>3 DEF ToolsInv
    <3> QED
      BY <3>2, <3>3 DEF AlwaysPromote
  <2> QED
    BY <2>1, <2>2, <2>3 DEF Curate
<1>2. SecretKept(res)
  BY <1>0, <1>1 DEF SecretKept, OnChangedLines, OfTool
<1>3. PICK a \in {"done", "unsafe"} : stagePass' = [stagePass EXCEPT ![p] = a]
  BY DEF Curate
<1>4. toolTask' = [toolTask EXCEPT ![p] = ts] /\ UNCHANGED stagingDir
  BY DEF Curate
<1>5. ts \in [AllTools -> TaskRow] /\ \A t \in AllTools : TaskSound(t, ts[t], stagingDir)
  BY DEF NoTask, TaskRow, TaskSound, Linked
<1>6. PassSound(p)'
  BY <1>1, <1>2, <1>3 DEF ToolsInv, PassSound
<1> QED
  BY <1>1, <1>3, <1>4, <1>5, <1>6, PassStep

LEMMA ToolsKeep == ToolsInv /\ [ToolsNext]_toolVars => ToolsInv'
<1>1. ToolsInv /\ UNCHANGED toolVars => ToolsInv'
  BY DEF ToolsInv, toolVars, TasksSound, PassSound, Reported, Degraded, SecretKept
<1>2. ASSUME ToolsInv, ToolsNext
      PROVE  ToolsInv'
  <2>1. PICK p \in Passes :
          \/ StartTools(p) \/ StageReset(p) \/ StagingFails(p) \/ StageFile(p) \/ Staged(p) \/ Collect(p) \/ Curate(p)
          \/ \E t \in AllTools : \/ Spawn(p, t) \/ LaunchFails(p, t) \/ ToolExits(p, t) \/ CutOff(p, t)
                                 \/ TermWorks(p, t) \/ GraceEnds(p, t) \/ KillWaited(p, t)
    BY <1>2 DEF ToolsNext
  <2> QED
    BY <1>2, <2>1, StartKeeps, StageKeeps, CollectKeeps, CurateKeeps, RunKeeps, ExitKeeps, EndKeeps
<1> QED
  BY <1>1, <1>2

(* For any tools, files, problems and caps, and any number of passes over    *)
(* one workspace: a tool called clean has scanned what it was given, unless  *)
(* it has one of the three excuses; a secret on a changed line reaches the   *)
(* review unless the scanner's list was cut; no task is settled while its    *)
(* child runs (run_static_analysis, curate).                                 *)
THEOREM ToolsStayHonest == ReviewSpec => []ToolsHonest
<1>1. ReviewInit => ToolsInv
  BY PartsInit, ToolsStart
<1>2. ToolsInv /\ [ReviewNext]_reviewVars => ToolsInv'
  BY PartsStep, ToolsKeep
<1> QED
  BY <1>1, <1>2, ToolsSound, PTL DEF ReviewSpec

-----------------------------------------------------------------------------
(* Positions in order. A finite set of naturals has a rising enumeration, it *)
(* reaches every member, and that of an interval changes nothing.            *)

Below == {ss \in Nat \X Nat : ss[1] < ss[2]}

LEMMA LeastOf ==
  ASSUME NEW T, T \subseteq Nat, T # {}
  PROVE  \E n \in T : \A m \in T : n <= m
<1>1. IsWellFoundedOn(Below, Nat)
  BY NatLessThanWellFounded DEF OpToRel, Below
<1>2. PICK n \in T : \A m \in T : ~(<<m, n>> \in Below)
  BY <1>1, WFMin
<1>3. \A m \in T : <<m, n>> \in Below <=> m < n
  BY DEF Below
<1>4. \A m \in T : n \in Nat /\ m \in Nat /\ ~(m < n)
  BY <1>2, <1>3
<1>5. \A m \in T : n <= m
  BY <1>4
<1> QED
  BY <1>5

LEMMA CountingUp ==
  ASSUME NEW P, 0 \in P, \A n \in Nat : n \in P => n + 1 \in P
  PROVE  Nat \subseteq P
<1> SUFFICES ASSUME Nat \ P # {} PROVE FALSE
  OBVIOUS
<1>1. PICK n \in Nat \ P : \A m \in Nat \ P : n <= m
  BY LeastOf
<1>2. n # 0 /\ n - 1 \in Nat /\ n - 1 \notin P
  BY <1>1
<1> QED
  BY <1>1, <1>2

Rising(f, n, S) == f \in [1..n -> S] /\ \A i, j \in 1..n : i < j => f[i] < f[j]

(* Every finite set of naturals has a rising enumeration. *)
LEMMA RisingExists ==
  ASSUME NEW S, S \subseteq Nat, IsFiniteSet(S)
  PROVE  \E f : Rising(f, Cardinality(S), S)
<1> DEFINE P == {n \in Nat : \A T \in SUBSET S : Cardinality(T) = n => \E f : Rising(f, n, T)}
<1>0. \A T \in SUBSET S : IsFiniteSet(T) /\ Cardinality(T) \in Nat
  BY FS_Subset, FS_CardinalityType
<1>1. 0 \in P
  <2>1. ASSUME NEW T \in SUBSET S PROVE Rising([i \in 1..0 |-> 0], 0, T)
    BY DEF Rising
  <2> QED
    BY <2>1
<1>2. ASSUME NEW n \in Nat, n \in P PROVE n + 1 \in P
  <2>1. ASSUME NEW T \in SUBSET S, Cardinality(T) = n + 1 PROVE \E f : Rising(f, n + 1, T)
    <3>1. T # {} /\ T \subseteq Nat
      BY <2>1, FS_EmptySet
    <3>2. PICK x \in T : \A m \in T : x <= m
      BY <3>1, LeastOf
    <3>3. Cardinality(T \ {x}) = n /\ T \ {x} \in SUBSET S
      BY <1>0, <2>1, FS_RemoveElement
    <3>4. PICK f : Rising(f, n, T \ {x})
      BY <1>2, <3>3
    <3>5. PICK g : g = [i \in 1..(n + 1) |-> IF i = 1 THEN x ELSE f[i - 1]]
      OBVIOUS
    <3>6. \A i \in 1..n : f[i] \in T /\ f[i] # x /\ x < f[i] /\ f[i] \in Nat
      <4>1. ASSUME NEW i \in 1..n PROVE f[i] \in T \ {x}
        BY <3>4 DEF Rising
      <4>2. ASSUME NEW y \in T \ {x} PROVE y \in T /\ y # x /\ x < y /\ y \in Nat
        <5>1. y \in Nat /\ x \in Nat /\ x <= y /\ x # y
          BY <3>1, <3>2
        <5> QED
          BY ONLY <5>1, y \in T \ {x}
      <4> QED
        BY ONLY <4>1, <4>2
    <3>7. \A i \in 1..(n + 1) : i = 1 \/ i - 1 \in 1..n
      OBVIOUS
    <3>8. g \in [1..(n + 1) -> T]
      BY <3>5, <3>6, <3>7
    <3>9. ASSUME NEW i \in 1..(n + 1), NEW j \in 1..(n + 1), i < j PROVE g[i] < g[j]
      <4>1. j # 1 /\ j - 1 \in 1..n /\ g[j] = f[j - 1]
        BY <3>5, <3>9
      <4>2. CASE i = 1
        BY <3>5, <3>6, <4>1, <4>2
      <4>3. CASE i # 1
        <5>1. i - 1 \in 1..n /\ g[i] = f[i - 1] /\ i - 1 < j - 1
          BY <3>5, <3>9, <4>3
        <5> QED
          BY <3>4, <4>1, <5>1 DEF Rising
      <4> QED
        BY <4>2, <4>3
    <3> QED
      BY <3>8, <3>9 DEF Rising
  <2> QED
    BY <2>1
<1>3. Nat \subseteq P
  <2> HIDE DEF P
  <2> QED
    BY <1>1, <1>2, CountingUp
<1> QED
  BY <1>0, <1>3

LEMMA InOrderRises ==
  ASSUME NEW S, S \subseteq Nat, IsFiniteSet(S)
  PROVE  /\ Rising(InOrder(S), Cardinality(S), S)
         /\ \A x \in S : \E i \in 1..Cardinality(S) : InOrder(S)[i] = x
<1>1. \E f \in [1..Cardinality(S) -> S] : \A i, j \in DOMAIN f : i < j => f[i] < f[j]
  BY RisingExists DEF Rising
<1>2. Rising(InOrder(S), Cardinality(S), S)
  BY <1>1 DEF InOrder, Rising
<1>3. PICK f : f = InOrder(S)
  OBVIOUS
<1>4. Cardinality(S) \in Nat
  BY FS_CardinalityType
<1>5. \A i, j \in 1..Cardinality(S) : f[i] \in Nat /\ f[j] \in Nat /\ (f[i] = f[j] => i = j)
  <2> SUFFICES ASSUME NEW i \in 1..Cardinality(S), NEW j \in 1..Cardinality(S)
               PROVE  f[i] \in Nat /\ f[j] \in Nat /\ (f[i] = f[j] => i = j)
    OBVIOUS
  <2>1. f[i] \in Nat /\ f[j] \in Nat
    BY <1>2, <1>3 DEF Rising
  <2>2. (i < j => f[i] < f[j]) /\ (j < i => f[j] < f[i])
    BY <1>2, <1>3 DEF Rising
  <2>3. i < j \/ j < i \/ i = j
    BY <1>4
  <2> QED
    BY <2>1, <2>2, <2>3
<1>6. f \in Injection(1..Cardinality(S), S)
  BY <1>2, <1>3, <1>5 DEF Injection, IsInjective, Rising
<1>7. Cardinality(1..Cardinality(S)) = Cardinality(S)
  BY <1>4, FS_Interval
<1>8. f \in Surjection(1..Cardinality(S), S)
  BY <1>6, <1>7, FS_Injection
<1> QED
  BY <1>2, <1>3, <1>8 DEF Surjection

LEMMA InOrderInterval ==
  ASSUME NEW n \in Nat
  PROVE  Cardinality(1..n) = n /\ IsFiniteSet(1..n) /\ \A i \in 1..n : InOrder(1..n)[i] = i
<1>1. Cardinality(1..n) = n /\ IsFiniteSet(1..n)
  BY FS_Interval
<1>2. PICK f : f = InOrder(1..n)
  OBVIOUS
<1>3. /\ f \in [1..n -> 1..n] /\ (\A i, j \in 1..n : i < j => f[i] < f[j])
      /\ \A x \in 1..n : \E i \in 1..n : f[i] = x
  <2>1. 1..n \subseteq Nat
    OBVIOUS
  <2>2. Rising(f, n, 1..n) /\ \A x \in 1..n : \E i \in 1..n : f[i] = x
    BY ONLY <1>1, <1>2, <2>1, InOrderRises
  <2> QED
    BY ONLY <2>2 DEF Rising
<1> DEFINE P == {k \in Nat : \A i \in 1..n : i <= k => f[i] = i}
<1>4. 0 \in P
  OBVIOUS
<1>5. ASSUME NEW k \in Nat, k \in P PROVE k + 1 \in P
  <2>0. \A i \in 1..n : i <= k => f[i] = i
    BY <1>5
  <2> SUFFICES ASSUME k + 1 \in 1..n PROVE f[k + 1] = k + 1
    <3>1. ASSUME NEW i \in 1..n, i <= k + 1, i # k + 1 PROVE i <= k
      BY <3>1
    <3>2. \A i \in 1..n : i <= k + 1 => i <= k \/ i = k + 1
      BY ONLY <3>1
    <3> QED
      BY <2>0, <3>2
  <2>1. PICK j \in 1..n : f[j] = k + 1
    BY <1>3
  <2>2. ~(j <= k)
    BY <2>0, <2>1
  <2>3. f[k + 1] >= k + 1
    <3>1. CASE k = 0
      BY <1>3, <3>1
    <3>2. CASE k # 0
      <4>1. k \in 1..n /\ k <= k /\ k < k + 1
        BY <3>2
      <4>2. f[k] = k
        BY ONLY <2>0, <4>1
      <4>3. f[k] < f[k + 1] /\ f[k + 1] \in 1..n
        BY ONLY <1>3, <4>1, k + 1 \in 1..n
      <4> QED
        BY <4>2, <4>3
    <3> QED
      BY <3>1, <3>2
  <2>4. j > k + 1 => f[k + 1] < f[j]
    BY <1>3
  <2>5. f[k + 1] \in 1..n
    BY <1>3
  <2> QED
    BY <2>1, <2>2, <2>3, <2>4, <2>5
<1>6. Nat \subseteq P
  <2> HIDE DEF P
  <2> QED
    BY <1>4, <1>5, CountingUp
<1> QED
  BY <1>1, <1>2, <1>6

-----------------------------------------------------------------------------
(* The posted review. Each stage hands on everything the one before it had,  *)
(* or a note; so what must be inductive is, for each statement orchestrate   *)
(* can be at, what has been accounted for by then.                           *)

PostedItem == {"carried", "linter", "llm", "all excluded", "config changed", "config malformed"} \X Int

In(fs) == {fs[i] : i \in DOMAIN fs}

ParallelCalls == [chunker : {"idle", "running", "done", "failed"}, tools : {"idle", "running", "done"}]

PoolRow == [todo : Seq(Int), cursor : Int, result : Seq({"none", "built", "ok", "failed"}), busy : SUBSET Int, aborted : BOOLEAN]

(* The workers have ended. *)
Quiet == pool.busy = {} /\ pool.cursor > Len(pool.todo) /\ ~pool.aborted

CallsIdle == calls.chunker # "running" /\ calls.tools # "running"

LinterKnown == inputs.linter = <<Linter>> \/ notes \cap {"static_analysis", "tool_failures"} # {}

NotHollow == Len(pool.todo) > 0 /\ Reviewed = {} => inputs.carried # <<>>

HasChunks(fs) == \A i \in 1..Len(pool.result) :
  Llm(NumChunks - Len(pool.result) + i) \in In(fs) \/ notes \cap {"chunks_failed", "chunks_capped"} # {}

HasLinter(fs) == Linter \in In(fs) \/ notes \cap {"static_analysis", "tool_failures", "dedup"} # {}

Complete(fs) == HasChunks(fs) /\ HasLinter(fs) /\ In(inputs.carried) \subseteq In(fs)

Shown(fs) == \/ "path_filters_excluded_all" \in notes \/ "citations_dropped" \in notes \/ ~(Len(fs) < MaxFindings)
             \/ Complete(fs)

MetaFollows == "citations_dropped" \in notes \/ meta \in {<<>>, found}

Opening == {"claim_clone", "clone", "load_config", "policy_compute", "claim_classify", "classify", "route",
            "claim_empty", "empty_review", "analyse"}
Closing == {"citation_validate", "persist_findings", "apply_arbitration", "walkthrough", "persist_walkthrough",
            "claim_post", "post"}
Merging == {"claim_aggregate", "aggregate", "filter"}
Out     == {"cleanup", "ended"}

HonestTypes ==
  /\ at \in Opening \cup {"analysing", "select_carry_forward", "fan_out", "dedup"} \cup Merging \cup Closing \cup Out
  /\ calls \in ParallelCalls
  /\ pool \in PoolRow /\ found \in Seq(PostedItem) /\ meta \in Seq(PostedItem)
  /\ inputs \in [carried : {<<>>, <<Carried>>}, linter : {<<>>, <<Linter>>}]

(* The chunks to review are the first of the last Len(pool.result) ones, and *)
(* every one that was taken and is not being reviewed has a verdict.         *)
PoolOK ==
  /\ Len(pool.todo) <= Len(pool.result)
  /\ \A i \in 1..Len(pool.todo) : pool.todo[i] = NumChunks - Len(pool.result) + i
  /\ Len(pool.todo) < Len(pool.result) => "chunks_capped" \in notes
  /\ pool.cursor >= 1 /\ pool.busy \subseteq 1..Len(pool.todo)
  /\ \A i \in pool.busy : i < pool.cursor
  /\ ~pool.aborted => \A i \in 1..Len(pool.todo) :
       i < pool.cursor /\ i \notin pool.busy => pool.result[i] \in {"ok", "failed"}

StageOK ==
  /\ at \in Opening \cup {"analysing", "select_carry_forward"} => pool = NoPool
  /\ at \notin {"analysing"} \cup Out => CallsIdle
  /\ (at = "analysing" /\ calls.tools = "done") \/ at \in {"select_carry_forward", "fan_out", "dedup"} => LinterKnown
  /\ at \notin Out => ~pool.aborted /\ sent = NotSent /\ outcome = "none"
  /\ at \in {"dedup"} \cup Merging \cup Closing => Quiet /\ NotHollow
  /\ at = "dedup" => HasChunks(found) /\ In(inputs.carried) \subseteq In(found)
  /\ at \in Merging => Complete(found)
  /\ at \in Closing => Shown(found)
  /\ at \in {"citation_validate", "persist_findings"} => MetaFollows

SentOK ==
  sent # NotSent \/ outcome = "accepted" => at \in Out /\ Quiet /\ NotHollow /\ CallsIdle /\ Shown(sent)

HonestInv == HonestTypes /\ PoolOK /\ StageOK /\ SentOK /\ MetadataFollowsFinding

LEMMA ItemIs ==
  ASSUME NEW k \in {"carried", "linter", "llm", "all excluded", "config changed", "config malformed"}, NEW n \in Int
  PROVE  <<k, n>> \in PostedItem
BY DEF PostedItem

LEMMA KnownItems ==
  Carried \in PostedItem /\ Linter \in PostedItem /\ <<"all excluded", 0>> \in PostedItem /\ Notices \subseteq PostedItem
<1>1. 0 \in Int
  OBVIOUS
<1>2. <<"carried", 0>> \in PostedItem /\ <<"linter", 0>> \in PostedItem
  BY <1>1, Zenon DEF PostedItem
<1>3. <<"all excluded", 0>> \in PostedItem /\ <<"config changed", 0>> \in PostedItem /\ <<"config malformed", 0>> \in PostedItem
  BY <1>1, Zenon DEF PostedItem
<1> QED
  BY <1>2, <1>3 DEF Carried, Linter, Notices

LEMMA OneItem ==
  ASSUME NEW S, NEW x \in S
  PROVE  <<x>> \in Seq(S) /\ Len(<<x>>) = 1 /\ In(<<x>>) = {x}
BY DEF In

LEMMA HonestStarts == PipelineInit => HonestInv
<1> SUFFICES ASSUME PipelineInit PROVE HonestInv
  OBVIOUS
<1>1. HonestTypes
  <2>1. pool \in PoolRow
    <3>1. <<>> \in Seq(Int) /\ <<>> \in Seq({"none", "built", "ok", "failed"}) /\ {} \in SUBSET Int /\ 1 \in Int /\ FALSE \in BOOLEAN
      OBVIOUS
    <3> QED
      BY <3>1 DEF PipelineInit, PoolRow, NoPool
  <2>2. found \in Seq(PostedItem) /\ meta \in Seq(PostedItem)
    BY EmptySeq DEF PipelineInit
  <2>3. calls \in ParallelCalls
    BY DEF PipelineInit, ParallelCalls
  <2>5. inputs \in [carried : {<<>>, <<Carried>>}, linter : {<<>>, <<Linter>>}]
    BY Zenon DEF PipelineInit
  <2>4. at \in Opening
    BY DEF PipelineInit, Opening
  <2> QED
    BY <2>1, <2>2, <2>3, <2>4, <2>5 DEF HonestTypes
<1>2. Len(pool.todo) = 0 /\ Len(pool.result) = 0 /\ pool.busy = {} /\ pool.cursor = 1
  BY DEF PipelineInit, NoPool
<1>3. PoolOK
  BY <1>2 DEF PoolOK
<1>4. StageOK
  BY DEF PipelineInit, StageOK, Opening, Merging, Closing, Out, CallsIdle, NoPool
<1>5. SentOK /\ MetadataFollowsFinding
  BY DEF PipelineInit, SentOK, MetadataFollowsFinding
<1> QED
  BY <1>1, <1>3, <1>4, <1>5 DEF HonestInv

LEMMA HonestAtEnd == HonestInv => ReviewIsHonest
<1> SUFFICES ASSUME HonestInv PROVE ReviewIsHonest
  OBVIOUS
<1>1. NothingLostSilently
  <2> SUFFICES ASSUME outcome = "accepted", "path_filters_excluded_all" \notin notes,
                      "citations_dropped" \notin notes, Len(sent) < MaxFindings
               PROVE  Complete(sent)
    BY DEF NothingLostSilently, Complete, HasChunks, HasLinter, In, Sent
  <2>1. Shown(sent)
    BY DEF HonestInv, SentOK
  <2> QED
    BY <2>1 DEF Shown
<1>2. NoHollowReview
  BY DEF HonestInv, SentOK, NoHollowReview, NotHollow
<1> QED
  BY <1>1, <1>2 DEF HonestInv, ReviewIsHonest

(* Notes are only added. *)
LEMMA NotesGrow ==
  ASSUME HonestInv, notes \subseteq notes', UNCHANGED <<pool, inputs>>
  PROVE  /\ PoolOK' /\ (Quiet => Quiet') /\ (NotHollow => NotHollow') /\ (LinterKnown => LinterKnown')
         /\ found' = found => /\ HasChunks(found) => HasChunks(found)'
                              /\ Complete(found) => Complete(found)'
                              /\ Shown(found) => Shown(found)'
         /\ sent' = sent => (Shown(sent) => Shown(sent)')
         /\ rows' = rows => MetadataFollowsFinding'
<1>1. PoolOK'
  BY DEF HonestInv, PoolOK
<1>2. (Quiet => Quiet') /\ (NotHollow => NotHollow') /\ (LinterKnown => LinterKnown')
  BY DEF Quiet, NotHollow, LinterKnown, Reviewed
<1>3. found' = found => (HasChunks(found) => HasChunks(found)') /\ (HasLinter(found) => HasLinter(found)')
  BY DEF HasChunks, HasLinter, In
<1>4. found' = found => (Complete(found) => Complete(found)')
  BY <1>3 DEF Complete, In
<1>5. found' = found => (Shown(found) => Shown(found)')
  BY <1>4 DEF Shown
<1>6. sent' = sent => (HasChunks(sent) => HasChunks(sent)') /\ (HasLinter(sent) => HasLinter(sent)')
  BY DEF HasChunks, HasLinter, In
<1>7. sent' = sent => (Complete(sent) => Complete(sent)')
  BY <1>6 DEF Complete, In
<1>8. sent' = sent => (Shown(sent) => Shown(sent)')
  BY <1>7 DEF Shown
<1>9. rows' = rows => MetadataFollowsFinding'
  BY DEF HonestInv, MetadataFollowsFinding
<1> QED
  BY <1>1, <1>2, <1>3, <1>4, <1>5, <1>8, <1>9

Moves ==
  \/ at' = at
  \/ at \in Opening /\ at' \in Opening
  \/ at = "analysing" /\ at' = "select_carry_forward" /\ calls.tools = "done" /\ calls.chunker = "done"
  \/ at = "dedup" /\ at' = "claim_aggregate" /\ "dedup" \in notes'
  \/ at \in {"claim_aggregate", "aggregate"} /\ at' \in {"aggregate", "filter"}
  \/ at \in Closing /\ at' \in Closing \ {"citation_validate", "persist_findings"}
  \/ at' \in Out

LEMMA MovesOn ==
  ASSUME HonestInv, UNCHANGED data, notes \subseteq notes', Moves,
         outcome' = outcome \/ (at' \in Out /\ outcome' # "accepted"),
         at \in Out => at' \in Out
  PROVE  HonestInv'
<1>0. UNCHANGED <<calls, pool, found, inputs, meta, rows, sent>>
  BY DEF data
<1>1. HonestTypes'
  BY <1>0 DEF HonestInv, HonestTypes, Moves, Opening, Merging, Closing, Out
<1>2. /\ PoolOK' /\ (Quiet => Quiet') /\ (NotHollow => NotHollow') /\ (LinterKnown => LinterKnown')
      /\ HasChunks(found) => HasChunks(found)'
      /\ Complete(found) => Complete(found)'
      /\ Shown(found) => Shown(found)'
      /\ Shown(sent) => Shown(sent)'
      /\ MetadataFollowsFinding'
  BY <1>0, NotesGrow
<1>3. CallsIdle' <=> CallsIdle
  BY <1>0 DEF CallsIdle
<1>4. (MetaFollows => MetaFollows') /\ (In(inputs.carried) \subseteq In(found) => (In(inputs.carried) \subseteq In(found))')
  BY <1>0 DEF MetaFollows, In
<1>5. "dedup" \in notes' /\ HasChunks(found) /\ In(inputs.carried) \subseteq In(found) => Complete(found)'
  BY <1>2, <1>4 DEF Complete, HasLinter
<1>6. StageOK'
  <2> USE DEF HonestInv
  <2>0. CASE at' \in Out
    BY <2>0 DEF StageOK, Opening, Merging, Closing, Out
  <2>1. CASE at' = at /\ at \notin Out
    BY <1>0, <1>2, <1>3, <1>4, <2>1 DEF StageOK, Out
  <2>2. CASE at \in Opening /\ at' \in Opening
    BY <1>0, <1>2, <1>3, <2>2 DEF StageOK, Opening, Merging, Closing, Out
  <2>3. CASE at = "analysing" /\ at' = "select_carry_forward" /\ calls.tools = "done" /\ calls.chunker = "done"
    BY <1>0, <1>2, <2>3 DEF StageOK, Opening, Merging, Closing, Out, CallsIdle
  <2>4. CASE at = "dedup" /\ at' = "claim_aggregate" /\ "dedup" \in notes'
    BY <1>0, <1>2, <1>3, <1>5, <2>4 DEF StageOK, Opening, Merging, Closing, Out
  <2>5. CASE at \in {"claim_aggregate", "aggregate"} /\ at' \in {"aggregate", "filter"}
    BY <1>0, <1>2, <1>3, <2>5 DEF StageOK, Opening, Merging, Closing, Out
  <2>6. CASE at \in Closing /\ at' \in Closing \ {"citation_validate", "persist_findings"}
    BY <1>0, <1>2, <1>3, <2>6 DEF StageOK, Opening, Merging, Closing, Out
  <2> QED
    BY <2>0, <2>1, <2>2, <2>3, <2>4, <2>5, <2>6 DEF Moves
<1>7. SentOK'
  BY <1>0, <1>2, <1>3 DEF HonestInv, SentOK, StageOK
<1> QED
  BY <1>1, <1>2, <1>6, <1>7 DEF HonestInv

LEMMA PlainKeeps ==
  HonestInv /\ (LoseClaim \/ AbortAttempt \/ ClaimCheck \/ AbortGate \/ StageFails \/ PortThrows \/ Clone
                  \/ Prepared \/ AllExcluded \/ Analysed \/ Arbitrated \/ Narrated \/ Cleanup \/ ShellReleases)
    => HonestInv'
<1> SUFFICES ASSUME HonestInv,
                    LoseClaim \/ AbortAttempt \/ ClaimCheck \/ AbortGate \/ StageFails \/ PortThrows \/ Clone
                      \/ Prepared \/ AllExcluded \/ Analysed \/ Arbitrated \/ Narrated \/ Cleanup \/ ShellReleases
             PROVE  HonestInv'
  OBVIOUS
<1> USE DEF Moves, Opening, Merging, Closing, Out, Goto, Escapes
<1>1. CASE LoseClaim \/ AbortAttempt \/ ShellReleases
  <2>1. UNCHANGED <<data, at, notes, outcome>>
    BY <1>1 DEF LoseClaim, AbortAttempt, ShellReleases
  <2> QED
    BY <2>1, MovesOn
<1>2. CASE ClaimCheck
  <2>1. UNCHANGED data /\ notes \subseteq notes' /\ Moves /\ (at \in Out => at' \in Out)
    BY <1>2 DEF ClaimCheck, After, ClaimChecks
  <2>2. outcome' = outcome \/ (at' \in Out /\ outcome' # "accepted")
    BY <1>2 DEF ClaimCheck
  <2> QED
    BY <2>1, <2>2, MovesOn
<1>3. CASE AbortGate \/ PortThrows
  <2>1. UNCHANGED data /\ notes \subseteq notes' /\ at' = "cleanup" /\ outcome' # "accepted"
    BY <1>3 DEF AbortGate, PortThrows
  <2> QED
    BY <2>1, MovesOn
<1>4. CASE StageFails
  <2>1. UNCHANGED <<data, outcome>> /\ notes \subseteq notes' /\ Moves /\ (at \in Out => at' \in Out)
    BY <1>4 DEF StageFails, After, FailOpen
  <2> QED
    BY <2>1, MovesOn
<1>5. CASE Clone
  <2>1. UNCHANGED <<data, notes>> /\ Moves /\ (at \in Out => at' \in Out) /\ (outcome' = outcome \/ (at' \in Out /\ outcome' # "accepted"))
    BY <1>5 DEF Clone
  <2> QED
    BY <2>1, MovesOn
<1>6. CASE Prepared
  <2>1. UNCHANGED <<data, outcome>> /\ notes \subseteq notes' /\ Moves /\ (at \in Out => at' \in Out)
    BY <1>6 DEF Prepared, After, FailOpen
  <2> QED
    BY <2>1, MovesOn
<1>7. CASE AllExcluded \/ Analysed \/ Arbitrated \/ Narrated
  <2>1. UNCHANGED <<data, outcome>> /\ notes \subseteq notes' /\ (at \in Out => at' \in Out)
    BY <1>7 DEF AllExcluded, Analysed, Arbitrated, Narrated
  <2>2. Moves
    BY <1>7 DEF AllExcluded, Analysed, Arbitrated, Narrated, After
  <2> QED
    BY <2>1, <2>2, MovesOn
<1>8. CASE Cleanup
  <2>1. UNCHANGED data /\ notes \subseteq notes' /\ at' = "ended" /\ (outcome' = outcome \/ outcome' # "accepted")
    BY <1>8 DEF Cleanup, Releases
  <2> QED
    BY <2>1, MovesOn
<1> QED
  BY <1>1, <1>2, <1>3, <1>4, <1>5, <1>6, <1>7, <1>8

LEMMA EmptyReviewHonest == HonestInv /\ EmptyReview => HonestInv'
<1> SUFFICES ASSUME HonestInv, EmptyReview PROVE HonestInv'
  OBVIOUS
<1> USE DEF Goto
<1>0. /\ at = "empty_review" /\ at' = "post" /\ found' = << <<"all excluded", 0>> >>
      /\ notes' = notes \cup {"path_filters_excluded_all"} /\ UNCHANGED <<calls, pool, inputs, meta, rows, sent, outcome>>
  BY DEF EmptyReview
<1>1. HonestTypes'
  <2>1. << <<"all excluded", 0>> >> \in Seq(PostedItem)
    <3>1. <<"all excluded", 0>> \in PostedItem
      BY KnownItems
    <3> QED
      BY ONLY <3>1, OneItem
  <2>2. at' \in Closing
    BY <1>0 DEF Closing
  <2> QED
    BY <1>0, <2>1, <2>2 DEF HonestInv, HonestTypes
<1>2. PoolOK' /\ MetadataFollowsFinding'
  BY <1>0, NotesGrow
<1>3. Quiet /\ NotHollow /\ CallsIdle /\ sent = NotSent /\ outcome = "none" /\ ~pool.aborted
  <2>1. pool = NoPool /\ CallsIdle /\ sent = NotSent /\ outcome = "none" /\ ~pool.aborted
    BY <1>0 DEF HonestInv, StageOK, Opening, Out
  <2>2. Len(pool.todo) = 0 /\ pool.cursor = 1 /\ pool.busy = {}
    BY <2>1 DEF NoPool
  <2> QED
    BY <2>1, <2>2 DEF Quiet, NotHollow
<1>4. Quiet' /\ NotHollow' /\ CallsIdle' /\ Shown(found)'
  BY <1>0, <1>3, NotesGrow DEF CallsIdle, Shown
<1>5. StageOK'
  BY <1>0, <1>3, <1>4 DEF StageOK, Opening, Merging, Out
<1>6. SentOK'
  BY <1>0, <1>3 DEF SentOK
<1> QED
  BY <1>1, <1>2, <1>5, <1>6 DEF HonestInv

LEMMA AnalysisHonest == HonestInv /\ (Analyse \/ ChunkerEnds \/ ToolsEnd) => HonestInv'
<1> SUFFICES ASSUME HonestInv, Analyse \/ ChunkerEnds \/ ToolsEnd PROVE HonestInv'
  OBVIOUS
<1> USE DEF Goto, Escapes
<1>1. CASE Analyse
  <2>0. /\ at = "analyse" /\ UNCHANGED <<pool, found, inputs, meta, rows, sent, notes>>
        /\ \/ /\ calls' = [chunker |-> "running", tools |-> "running"]
              /\ at' = "analysing" /\ outcome' = outcome
           \/ at' = "cleanup" /\ outcome' = "cancelled" /\ calls' = calls
    BY <1>1 DEF Analyse
  <2>1. HonestTypes'
    <3>1. calls' \in ParallelCalls
      BY <2>0 DEF HonestInv, HonestTypes, ParallelCalls
    <3>2. inputs' \in [carried : {<<>>, <<Carried>>}, linter : {<<>>, <<Linter>>}]
      BY <2>0 DEF HonestInv, HonestTypes
    <3>3. at' \in {at, "analysing"} \cup Out
      BY <2>0 DEF Out
    <3> QED
      BY <2>0, <3>1, <3>2, <3>3 DEF HonestInv, HonestTypes
  <2>2. PoolOK' /\ MetadataFollowsFinding'
    BY <2>0, NotesGrow
  <2>3. pool = NoPool /\ sent = NotSent /\ outcome = "none" /\ ~pool.aborted
    BY <2>0 DEF HonestInv, StageOK, Opening, Out
  <2>4. StageOK'
    BY <2>0, <2>3 DEF StageOK, Opening, Merging, Closing, Out
  <2>5. SentOK'
    BY <2>0, <2>3 DEF SentOK
  <2> QED
    BY <2>1, <2>2, <2>4, <2>5 DEF HonestInv
<1>2. CASE ChunkerEnds
  <2>0. /\ calls.chunker = "running" /\ UNCHANGED <<pool, found, inputs, meta, rows, sent, notes>>
        /\ \E r \in {"done", "failed"} : calls' = [calls EXCEPT !.chunker = r]
        /\ \/ UNCHANGED <<at, outcome>>
           \/ at = "analysing" /\ at' = "cleanup" /\ outcome' = "failed"
    BY <1>2 DEF ChunkerEnds
  <2>1. HonestTypes'
    <3>1. calls' \in ParallelCalls
      BY <2>0 DEF HonestInv, HonestTypes, ParallelCalls
    <3>2. inputs' \in [carried : {<<>>, <<Carried>>}, linter : {<<>>, <<Linter>>}]
      BY <2>0 DEF HonestInv, HonestTypes
    <3>3. at' \in {at, "analysing"} \cup Out
      BY <2>0 DEF Out
    <3> QED
      BY <2>0, <3>1, <3>2, <3>3 DEF HonestInv, HonestTypes
  <2>2. PoolOK' /\ MetadataFollowsFinding' /\ (LinterKnown => LinterKnown')
    BY <2>0, NotesGrow
  <2>3. at \in {"analysing"} \cup Out /\ calls'.tools = calls.tools /\ ~CallsIdle
    BY <2>0 DEF HonestInv, HonestTypes, StageOK, CallsIdle, ParallelCalls
  <2>4. sent = NotSent /\ outcome # "accepted"
    BY <2>3 DEF HonestInv, SentOK, StageOK, Out
  <2>5. StageOK'
    <3>1. CASE at' \in Out
      BY <3>1 DEF StageOK, Opening, Merging, Closing, Out
    <3>2. CASE at' \notin Out
      <4>1. at = "analysing" /\ at' = "analysing" /\ outcome' = outcome
        BY <2>0, <2>3, <3>2 DEF Out
      <4> QED
        BY <2>0, <2>2, <2>3, <4>1 DEF HonestInv, StageOK, Opening, Merging, Closing, Out
    <3> QED
      BY <3>1, <3>2
  <2>6. SentOK'
    BY <2>0, <2>4 DEF SentOK
  <2> QED
    BY <2>1, <2>2, <2>5, <2>6 DEF HonestInv
<1>3. CASE ToolsEnd
  <2>0. /\ calls.tools = "running" /\ UNCHANGED <<pool, found, meta, rows, sent>> /\ notes \subseteq notes'
        /\ calls' = [calls EXCEPT !.tools = "done"]
        /\ inputs' \in {inputs, [inputs EXCEPT !.linter = <<Linter>>]}
        /\ \/ UNCHANGED <<at, outcome>> /\ (inputs' = [inputs EXCEPT !.linter = <<Linter>>] \/ notes' \cap {"static_analysis", "tool_failures"} # {})
           \/ at # "analysing" /\ UNCHANGED <<at, outcome>>
           \/ at = "analysing" /\ at' = "cleanup" /\ outcome' = "cancelled"
    BY <1>3 DEF ToolsEnd
  <2>1. HonestTypes'
    <3>1. calls' \in ParallelCalls
      BY <2>0 DEF HonestInv, HonestTypes, ParallelCalls
    <3>2. inputs' \in [carried : {<<>>, <<Carried>>}, linter : {<<>>, <<Linter>>}]
      BY <2>0 DEF HonestInv, HonestTypes
    <3>3. at' \in {at, "analysing"} \cup Out
      BY <2>0 DEF Out
    <3> QED
      BY <2>0, <3>1, <3>2, <3>3 DEF HonestInv, HonestTypes
  <2>2. PoolOK' /\ MetadataFollowsFinding'
    BY <2>0 DEF HonestInv, PoolOK, MetadataFollowsFinding
  <2>3. at \in {"analysing"} \cup Out /\ ~CallsIdle
    BY <2>0 DEF HonestInv, StageOK, CallsIdle
  <2>4. sent = NotSent /\ outcome # "accepted"
    BY <2>3 DEF HonestInv, SentOK, StageOK, Out
  <2>5. StageOK'
    <3>1. CASE at' \in Out
      BY <3>1 DEF StageOK, Opening, Merging, Closing, Out
    <3>2. CASE at' \notin Out
      <4>1. at = "analysing" /\ at' = "analysing" /\ outcome' = outcome
        BY <2>0, <2>3, <3>2 DEF Out
      <4>2. LinterKnown'
        BY <2>0, <4>1 DEF HonestInv, HonestTypes, LinterKnown, ParallelCalls
      <4> QED
        BY <2>0, <4>1, <4>2 DEF HonestInv, StageOK, Opening, Merging, Closing, Out
    <3> QED
      BY <3>1, <3>2
  <2>6. SentOK'
    BY <2>0, <2>4 DEF SentOK
  <2> QED
    BY <2>1, <2>2, <2>5, <2>6 DEF HonestInv
<1> QED
  BY <1>1, <1>2, <1>3

(* The last chunks, in order. *)
Suffix(cs) == cs \in Seq(Int) /\ \A i \in 1..Len(cs) : cs[i] = NumChunks - Len(cs) + i

LEMMA ConstantTypes == NumChunks \in Nat /\ MaxChunks \in Nat /\ MaxFindings \in Nat
BY PipelineAssumption

LEMMA SelectedSuffix ==
  ASSUME NEW n \in 1..NumChunks + 1
  PROVE  Suffix(SubSeq([i \in 1..NumChunks |-> i], n, NumChunks))
<1>1. NumChunks \in Nat /\ n \in Int /\ NumChunks \in Int
  BY ConstantTypes
<1>2. PICK s : s = [i \in 1..NumChunks |-> i]
  OBVIOUS
<1>3. \A i \in n..NumChunks : i \in 1..NumChunks
  BY <1>1
<1>4. \A i \in n..NumChunks : s[i] = i /\ s[i] \in Int
  BY <1>2, <1>3
<1>5. PICK cs : cs = SubSeq(s, n, NumChunks)
  OBVIOUS
<1>6. /\ cs \in Seq(Int)
      /\ Len(cs) = IF n <= NumChunks THEN NumChunks - n + 1 ELSE 0
      /\ \A i \in 1..NumChunks - n + 1 : cs[i] = s[n + i - 1]
  BY ONLY <1>1, <1>4, <1>5, SubSeqProperties
<1>7. Len(cs) = NumChunks - n + 1
  BY <1>1, <1>6
<1>8. ASSUME NEW i \in 1..Len(cs) PROVE cs[i] = NumChunks - Len(cs) + i
  <2>1. n + i - 1 \in n..NumChunks /\ i \in 1..NumChunks - n + 1
    BY <1>1, <1>7
  <2>2. cs[i] = n + i - 1
    BY ONLY <1>4, <1>6, <2>1
  <2> QED
    BY <1>1, <1>7, <2>2
<1> QED
  BY <1>2, <1>5, <1>6, <1>8 DEF Suffix

LEMMA AllSuffix == Suffix([i \in 1..NumChunks |-> i])
<1>1. NumChunks \in Nat
  BY ConstantTypes
<1> QED
  BY <1>1 DEF Suffix

LEMMA Constantly ==
  ASSUME NEW n \in Nat, NEW S, NEW x \in S
  PROVE  [i \in 1..n |-> x] \in Seq(S) /\ Len([i \in 1..n |-> x]) = n
OBVIOUS

LEMMA PoolOfSuffix ==
  ASSUME NEW cs, Suffix(cs)
  PROVE  /\ PoolOf(cs) \in PoolRow
         /\ Len(PoolOf(cs).result) = Len(cs) /\ Len(PoolOf(cs).todo) <= Len(cs)
         /\ Len(PoolOf(cs).todo) < Len(cs) => Len(cs) > MaxChunks
         /\ \A i \in 1..Len(PoolOf(cs).todo) : PoolOf(cs).todo[i] = NumChunks - Len(cs) + i
         /\ PoolOf(cs).cursor = 1 /\ PoolOf(cs).busy = {} /\ ~PoolOf(cs).aborted
<1>1. cs \in Seq(Int) /\ Len(cs) \in Nat /\ MaxChunks \in Nat
  BY ConstantTypes, LenProperties DEF Suffix
<1>2. PICK m : m = IF Len(cs) > MaxChunks THEN MaxChunks ELSE Len(cs)
  OBVIOUS
<1>3. m \in Nat /\ m <= Len(cs) /\ (m < Len(cs) => Len(cs) > MaxChunks)
  BY <1>1, <1>2
<1>4. \A i \in 1..m : i \in 1..Len(cs) /\ cs[i] \in Int
  BY <1>1, <1>3, ElementOfSeq
<1>5. PICK t : t = SubSeq(cs, 1, m)
  OBVIOUS
<1>6. 1 \in Int /\ m \in Int
  BY <1>3
<1>7. /\ t \in Seq(Int) /\ Len(t) = (IF 1 <= m THEN m - 1 + 1 ELSE 0)
      /\ \A i \in 1..m - 1 + 1 : t[i] = cs[1 + i - 1]
  BY ONLY <1>4, <1>5, <1>6, SubSeqProperties
<1>8. t \in Seq(Int) /\ Len(t) = m /\ \A i \in 1..m : t[i] = cs[i]
  <2>1. m - 1 + 1 = m /\ (IF 1 <= m THEN m - 1 + 1 ELSE 0) = m /\ \A i \in 1..m : 1 + i - 1 = i
    BY <1>3
  <2> QED
    BY <1>7, <2>1
<1>9. PICK r : r = [i \in 1..Len(cs) |-> "none"]
  OBVIOUS
<1>10. r \in Seq({"none", "built", "ok", "failed"}) /\ Len(r) = Len(cs)
  <2>1. "none" \in {"none", "built", "ok", "failed"} /\ Len(cs) \in Nat
    BY <1>1
  <2> QED
    BY ONLY <1>9, <2>1, Constantly
<1>11. PoolOf(cs) = [todo |-> t, cursor |-> 1, result |-> r, busy |-> {}, aborted |-> FALSE]
  <2>1. PoolOf(cs) = [NoPool EXCEPT !.todo = t, !.result = r]
    BY ONLY <1>2, <1>5, <1>9, Zenon DEF PoolOf
  <2> QED
    BY ONLY <2>1 DEF NoPool
<1>12. PoolOf(cs) \in PoolRow
  BY <1>8, <1>10, <1>11 DEF PoolRow
<1>13. \A i \in 1..m : t[i] = NumChunks - Len(cs) + i
  BY <1>4, <1>8 DEF Suffix
<1> QED
  BY <1>3, <1>8, <1>10, <1>11, <1>12, <1>13

LEMMA SelectHonest == HonestInv /\ SelectCarryForward => HonestInv'
<1> SUFFICES ASSUME HonestInv, SelectCarryForward PROVE HonestInv'
  OBVIOUS
<1>0. /\ at = "select_carry_forward" /\ at' = "fan_out" /\ UNCHANGED <<calls, found, meta, rows, sent, outcome>>
      /\ notes \subseteq notes' /\ (inputs' = inputs \/ \E k \in {<<>>, <<Carried>>} : inputs' = [inputs EXCEPT !.carried = k])
      /\ \E cs : Suffix(cs) /\ pool' = PoolOf(cs) /\ Capped(cs) \subseteq notes'
  <2>1. CASE \E s \in Selections : /\ pool' = PoolOf(s.chunks) /\ inputs' = [inputs EXCEPT !.carried = s.kept]
                                   /\ notes' = notes \cup Capped(s.chunks)
    <3>1. PICK s \in Selections : /\ pool' = PoolOf(s.chunks) /\ inputs' = [inputs EXCEPT !.carried = s.kept]
                                  /\ notes' = notes \cup Capped(s.chunks)
      BY <2>1
    <3>2. s.kept \in {<<>>, <<Carried>>} /\ \E n \in 1..NumChunks + 1 : s.chunks = SubSeq([i \in 1..NumChunks |-> i], n, NumChunks)
      BY DEF Selections
    <3>3. Suffix(s.chunks)
      BY <3>2, SelectedSuffix
    <3>4. \E cs : Suffix(cs) /\ pool' = PoolOf(cs) /\ Capped(cs) \subseteq notes'
      BY <3>1, <3>3
    <3> QED
      BY <3>1, <3>2, <3>4 DEF SelectCarryForward, Goto
  <2>2. CASE /\ pool' = PoolOf([i \in 1..NumChunks |-> i]) /\ UNCHANGED inputs
             /\ notes' = notes \cup Capped([i \in 1..NumChunks |-> i]) \cup {"select_carry_forward"}
    <3>1. \E cs : Suffix(cs) /\ pool' = PoolOf(cs) /\ Capped(cs) \subseteq notes'
      BY <2>2, AllSuffix
    <3> QED
      BY <2>2, <3>1 DEF SelectCarryForward, Goto
  <2> QED
    BY <2>1, <2>2 DEF SelectCarryForward
<1>1. PICK cs : Suffix(cs) /\ pool' = PoolOf(cs) /\ Capped(cs) \subseteq notes'
  BY <1>0
<1>2. /\ pool' \in PoolRow
      /\ Len(pool'.result) = Len(cs) /\ Len(pool'.todo) <= Len(cs)
      /\ Len(pool'.todo) < Len(cs) => Len(cs) > MaxChunks
      /\ \A i \in 1..Len(pool'.todo) : pool'.todo[i] = NumChunks - Len(cs) + i
      /\ pool'.cursor = 1 /\ pool'.busy = {} /\ ~pool'.aborted
  BY ONLY <1>1, PoolOfSuffix
<1>3. HonestTypes'
  <2>1. inputs' \in [carried : {<<>>, <<Carried>>}, linter : {<<>>, <<Linter>>}] /\ inputs'.linter = inputs.linter
    BY <1>0 DEF HonestInv, HonestTypes
  <2> QED
    BY <1>0, <1>2, <2>1 DEF HonestInv, HonestTypes
<1>4. PoolOK'
  <2>1. Len(pool'.todo) < Len(pool'.result) => "chunks_capped" \in notes'
    BY <1>1, <1>2 DEF Capped
  <2>2. \A i \in 1..Len(pool'.todo) : i \in Nat /\ ~(i < 1)
    OBVIOUS
  <2> QED
    BY <1>2, <2>1, <2>2 DEF PoolOK
<1>5. sent = NotSent /\ outcome = "none" /\ CallsIdle /\ LinterKnown
  BY <1>0 DEF HonestInv, StageOK, Out
<1>6. CallsIdle' /\ LinterKnown'
  <2>1. inputs'.linter = inputs.linter
    BY <1>0 DEF HonestInv, HonestTypes
  <2> QED
    BY <1>0, <1>5, <2>1 DEF CallsIdle, LinterKnown
<1>7. StageOK'
  BY <1>0, <1>2, <1>5, <1>6 DEF StageOK, Opening, Merging, Closing, Out
<1>8. SentOK' /\ MetadataFollowsFinding'
  BY <1>0, <1>5 DEF HonestInv, SentOK, MetadataFollowsFinding
<1> QED
  BY <1>3, <1>4, <1>7, <1>8 DEF HonestInv

(* Workers run while orchestrate waits for them, or after it has left. *)
LEMMA PoolStep ==
  ASSUME HonestInv, UNCHANGED <<calls, found, inputs, meta, rows, sent, notes>>, pool' \in PoolRow, PoolOK',
         pool.busy # {} \/ at = "fan_out",
         (at' = at /\ outcome' = outcome) \/ (at' = "cleanup" /\ outcome' # "accepted"),
         at' = "fan_out" => ~pool'.aborted
  PROVE  HonestInv'
<1>1. at \in {"fan_out"} \cup Out
  <2>1. pool.busy # {} => pool # NoPool /\ ~Quiet
    BY DEF NoPool, Quiet
  <2> QED
    BY <2>1 DEF HonestInv, HonestTypes, StageOK
<1>2. sent = NotSent /\ outcome # "accepted"
  <2>1. pool.busy # {} => ~Quiet
    BY DEF Quiet
  <2> QED
    BY <2>1 DEF HonestInv, StageOK, SentOK, Out
<1>3. HonestTypes'
  BY DEF HonestInv, HonestTypes, Out
<1>4. SentOK' /\ MetadataFollowsFinding'
  BY <1>2 DEF HonestInv, SentOK, MetadataFollowsFinding
<1>5. StageOK'
  <2>1. CASE at' \in Out
    BY <2>1 DEF StageOK, Opening, Merging, Closing, Out
  <2>2. CASE at' \notin Out
    <3>1. at = "fan_out" /\ at' = "fan_out" /\ outcome' = outcome
      BY <1>1, <2>2 DEF Out
    <3>2. CallsIdle' /\ LinterKnown' /\ sent' = NotSent /\ outcome' = "none"
      BY <3>1 DEF HonestInv, StageOK, CallsIdle, LinterKnown, Out
    <3> QED
      BY <3>1, <3>2 DEF StageOK, Opening, Merging, Closing, Out
  <2> QED
    BY <2>1, <2>2
<1> QED
  BY <1>3, <1>4, <1>5 DEF HonestInv

LEMMA TakeHonest == HonestInv /\ TakeChunk => HonestInv'
<1> SUFFICES ASSUME HonestInv, TakeChunk PROVE HonestInv'
  OBVIOUS
<1>1. /\ at = "fan_out" /\ ~pool.aborted /\ pool.cursor <= Len(pool.todo)
      /\ pool' = [pool EXCEPT !.cursor = pool.cursor + 1, !.busy = pool.busy \cup {pool.cursor}]
      /\ UNCHANGED <<at, calls, found, inputs, meta, rows, sent, notes, outcome>>
  BY DEF TakeChunk
<1>2. pool \in PoolRow /\ Len(pool.todo) \in Nat
  BY LenProperties DEF HonestInv, HonestTypes, PoolRow
<1>3. pool.cursor \in 1..Len(pool.todo) /\ pool.busy \subseteq 1..Len(pool.todo) /\ pool.cursor \in Int
  BY <1>1, <1>2 DEF HonestInv, PoolOK, PoolRow
<1>4. /\ pool' \in PoolRow /\ pool'.todo = pool.todo /\ pool'.result = pool.result /\ pool'.aborted = pool.aborted
      /\ pool'.cursor = pool.cursor + 1 /\ pool'.busy = pool.busy \cup {pool.cursor}
  <2>1. pool.cursor + 1 \in Int /\ pool.busy \cup {pool.cursor} \in SUBSET Int
    BY <1>3
  <2> QED
    BY <1>1, <1>2, <2>1 DEF PoolRow
<1>5. PoolOK'
  <2>1. pool'.cursor >= 1 /\ pool'.busy \subseteq 1..Len(pool.todo)
    BY <1>3, <1>4
  <2>2. \A i \in pool'.busy : i < pool'.cursor
    BY <1>3, <1>4 DEF HonestInv, PoolOK
  <2>3. ASSUME NEW i \in 1..Len(pool.todo), i < pool'.cursor, i \notin pool'.busy PROVE pool.result[i] \in {"ok", "failed"}
    <3>1. i < pool.cursor /\ i \notin pool.busy
      BY <1>3, <1>4, <2>3
    <3> QED
      BY <1>1, <3>1 DEF HonestInv, PoolOK
  <2> QED
    BY <1>1, <1>4, <2>1, <2>2, <2>3 DEF HonestInv, PoolOK
<1> QED
  BY <1>1, <1>4, <1>5, PoolStep

LEMMA SlotHonest ==
  ASSUME HonestInv, NEW i \in pool.busy, NEW r \in {"built", "ok", "failed"}, Slot(i, r)
  PROVE  HonestInv'
<1>1. /\ pool' = [pool EXCEPT !.busy = IF r = "built" THEN pool.busy ELSE pool.busy \ {i}, !.result[i] = r]
      /\ UNCHANGED <<at, calls, found, inputs, meta, rows, sent, notes, outcome>>
  BY DEF Slot
<1>2. pool \in PoolRow /\ Len(pool.todo) \in Nat /\ Len(pool.result) \in Nat
  BY LenProperties DEF HonestInv, HonestTypes, PoolRow
<1>3. i \in 1..Len(pool.todo) /\ i \in 1..Len(pool.result)
  BY <1>2 DEF HonestInv, PoolOK
<1>4. PICK t : t = [pool.result EXCEPT ![i] = r]
  OBVIOUS
<1>5. pool.result \in Seq({"none", "built", "ok", "failed"}) /\ r \in {"none", "built", "ok", "failed"}
  BY <1>2 DEF PoolRow
<1>6. /\ t \in Seq({"none", "built", "ok", "failed"}) /\ Len(t) = Len(pool.result)
      /\ \A j \in 1..Len(pool.result) : t[j] = IF j = i THEN r ELSE pool.result[j]
  BY ONLY <1>3, <1>4, <1>5, ExceptSeq
<1>7. /\ pool' \in PoolRow /\ pool'.todo = pool.todo /\ pool'.result = t /\ pool'.aborted = pool.aborted
      /\ pool'.cursor = pool.cursor /\ pool'.busy = IF r = "built" THEN pool.busy ELSE pool.busy \ {i}
  BY <1>1, <1>2, <1>4, <1>6 DEF PoolRow
<1>8. PoolOK'
  <2>1. pool'.busy \subseteq pool.busy
    BY <1>7
  <2>2. ASSUME NEW j \in 1..Len(pool.todo), ~pool.aborted, j < pool.cursor, j \notin pool'.busy PROVE t[j] \in {"ok", "failed"}
    <3>0. j \in 1..Len(pool.result)
      BY <1>2 DEF HonestInv, PoolOK
    <3>1. CASE j = i
      BY <1>6, <1>7, <2>2, <3>0, <3>1
    <3>2. CASE j # i
      <4>1. j \notin pool.busy
        BY <1>7, <2>2, <3>2
      <4>2. pool.result[j] \in {"ok", "failed"}
        BY <2>2, <4>1 DEF HonestInv, PoolOK
      <4> QED
        BY <1>6, <3>0, <3>2, <4>2
    <3> QED
      BY <3>1, <3>2
  <2>3. Len(pool'.result) = Len(pool.result)
    BY <1>6, <1>7
  <2> QED
    BY <1>1, <1>7, <2>1, <2>2, <2>3 DEF HonestInv, PoolOK
<1>9. at' = "fan_out" => ~pool'.aborted
  BY <1>1, <1>7 DEF HonestInv, StageOK, Out
<1> QED
  BY <1>1, <1>7, <1>8, <1>9, PoolStep

LEMMA WorkersHonest ==
  ASSUME HonestInv, NEW i \in pool.busy, BuildContext(i) \/ ChunkEnds(i) \/ ChunkAborts(i)
  PROVE  HonestInv'
<1>1. CASE BuildContext(i)
  <2>1. PICK r \in {"built", "failed"} : Slot(i, r)
    BY <1>1 DEF BuildContext, ContextResults
  <2> QED
    BY <2>1, SlotHonest
<1>2. CASE ChunkEnds(i)
  <2>1. PICK r \in {"ok", "failed"} : Slot(i, r)
    BY <1>2 DEF ChunkEnds, AnswerResults
  <2> QED
    BY <2>1, SlotHonest
<1>3. CASE ChunkAborts(i)
  <2>1. /\ pool' = [pool EXCEPT !.busy = pool.busy \ {i}, !.aborted = TRUE]
        /\ UNCHANGED <<calls, found, inputs, meta, rows, sent, notes>>
        /\ at' = "cleanup" /\ outcome' # "accepted"
    BY <1>3 DEF ChunkAborts, Escapes
  <2>2. pool \in PoolRow
    BY DEF HonestInv, HonestTypes
  <2>3. /\ pool' \in PoolRow /\ pool'.todo = pool.todo /\ pool'.result = pool.result /\ pool'.aborted
        /\ pool'.cursor = pool.cursor /\ pool'.busy = pool.busy \ {i}
    BY <2>1, <2>2 DEF PoolRow
  <2>4. PoolOK'
    BY <2>1, <2>3 DEF HonestInv, PoolOK
  <2> QED
    BY <2>1, <2>3, <2>4, PoolStep
<1> QED
  BY <1>1, <1>2, <1>3

LEMMA InConcat ==
  ASSUME NEW S, NEW s \in Seq(S), NEW t \in Seq(S)
  PROVE  In(s \o t) = In(s) \cup In(t)
<1>1. Range(s \o t) = Range(s) \cup Range(t)
  BY RangeConcatenation
<1> QED
  BY <1>1 DEF Range, In

LEMMA InputsSeqs ==
  ASSUME HonestTypes
  PROVE  /\ inputs.carried \in Seq(PostedItem) /\ inputs.linter \in Seq(PostedItem)
         /\ inputs.linter = <<Linter>> => Linter \in In(inputs.linter)
<1>1. <<Carried>> \in Seq(PostedItem) /\ <<Linter>> \in Seq(PostedItem) /\ <<>> \in Seq(PostedItem) /\ In(<<Linter>>) = {Linter}
  BY KnownItems, OneItem, EmptySeq
<1>2. inputs.carried \in {<<>>, <<Carried>>} /\ inputs.linter \in {<<>>, <<Linter>>}
  BY DEF HonestTypes
<1> QED
  BY ONLY <1>1, <1>2

(* What the chunks' answers come to: a finding for each reviewed one. *)
LEMMA ParsedIs ==
  ASSUME HonestInv
  PROVE  /\ Parsed(InOrder(Reviewed)) \in Seq(PostedItem)
         /\ \A i \in Reviewed : Llm(pool.todo[i]) \in In(Parsed(InOrder(Reviewed)))
<1>1. pool.todo \in Seq(Int) /\ Len(pool.todo) \in Nat
  BY LenProperties DEF HonestInv, HonestTypes, PoolRow
<1>2. Reviewed \subseteq 1..Len(pool.todo) /\ IsFiniteSet(1..Len(pool.todo)) /\ 1..Len(pool.todo) \subseteq Nat
  BY <1>1, FS_Interval DEF Reviewed
<1>3. Reviewed \subseteq Nat /\ IsFiniteSet(Reviewed)
  BY <1>2, FS_Subset
<1>4. PICK R : R = Reviewed
  OBVIOUS
<1>5. PICK f : f = InOrder(R)
  OBVIOUS
<1>6. Cardinality(R) \in Nat
  BY <1>3, <1>4, FS_CardinalityType
<1>7. Rising(f, Cardinality(R), R) /\ \A x \in R : \E k \in 1..Cardinality(R) : f[k] = x
  BY ONLY <1>3, <1>4, <1>5, InOrderRises
<1>8. f \in [1..Cardinality(R) -> R] /\ DOMAIN f = 1..Cardinality(R)
  BY <1>7 DEF Rising
<1>9. PICK ps : ps = Parsed(f)
  OBVIOUS
<1>10. ps = [k \in 1..Cardinality(R) |-> Llm(pool.todo[f[k]])]
  BY <1>8, <1>9 DEF Parsed
<1>11. ASSUME NEW k \in 1..Cardinality(R) PROVE Llm(pool.todo[f[k]]) \in PostedItem
  <2>1. f[k] \in 1..Len(pool.todo)
    BY <1>2, <1>4, <1>8
  <2>2. pool.todo[f[k]] \in Int
    BY ONLY <1>1, <2>1, ElementOfSeq
  <2>3. "llm" \in {"carried", "linter", "llm", "all excluded", "config changed", "config malformed"}
    OBVIOUS
  <2> QED
    BY ONLY <2>2, <2>3, ItemIs DEF Llm
<1>12. ps \in Seq(PostedItem)
  BY <1>6, <1>10, <1>11
<1>13. ASSUME NEW i \in R PROVE Llm(pool.todo[i]) \in In(ps)
  <2>1. PICK k \in 1..Cardinality(R) : f[k] = i
    BY <1>7
  <2>2. ps[k] = Llm(pool.todo[i]) /\ k \in DOMAIN ps
    BY <1>10, <2>1
  <2> QED
    BY <2>2 DEF In
<1> QED
  BY <1>4, <1>5, <1>9, <1>12, <1>13

LEMMA FanInHonest == HonestInv /\ FanIn => HonestInv'
<1> SUFFICES ASSUME HonestInv, FanIn PROVE HonestInv'
  OBVIOUS
<1> USE DEF Goto, Escapes
<1>0. /\ at = "fan_out" /\ pool.cursor > Len(pool.todo) /\ pool.busy = {} /\ notes' = notes \cup FailureNotes
      /\ UNCHANGED <<calls, pool, inputs, meta, rows, sent>>
  BY DEF FanIn
<1>1. /\ ~pool.aborted /\ sent = NotSent /\ outcome = "none" /\ CallsIdle /\ LinterKnown
      /\ pool \in PoolRow /\ Len(pool.todo) \in Nat /\ Len(pool.result) \in Nat
  BY <1>0, LenProperties DEF HonestInv, HonestTypes, StageOK, Out, PoolRow
<1>2. PoolOK' /\ MetadataFollowsFinding' /\ (LinterKnown => LinterKnown')
  BY <1>0, NotesGrow
<1>3. \A i \in 1..Len(pool.todo) : pool.result[i] \in {"ok", "failed"}
  <2>1. \A i \in 1..Len(pool.todo) : i < pool.cursor
    BY <1>0, <1>1 DEF PoolRow
  <2> QED
    BY <1>0, <1>1, <2>1 DEF HonestInv, PoolOK
<1>4. CASE AllFailed /\ inputs.carried = <<>>
  <2>1. at' = "cleanup" /\ outcome' = "failed" /\ found' = found
    BY <1>4 DEF FanIn
  <2>2. HonestTypes'
    BY <1>0, <2>1 DEF HonestInv, HonestTypes, Out
  <2>3. StageOK' /\ SentOK'
    BY <1>0, <1>1, <2>1 DEF StageOK, SentOK, Opening, Merging, Closing, Out
  <2> QED
    BY <1>2, <2>2, <2>3 DEF HonestInv
<1>5. CASE ~(AllFailed /\ inputs.carried = <<>>)
  <2>1. at' = "dedup" /\ outcome' = outcome /\ found' = inputs.carried \o Parsed(InOrder(Reviewed))
    BY <1>5 DEF FanIn
  <2>2. PICK ps : ps = Parsed(InOrder(Reviewed))
    OBVIOUS
  <2>3. ps \in Seq(PostedItem) /\ \A i \in Reviewed : Llm(pool.todo[i]) \in In(ps)
    BY <2>2, ParsedIs
  <2>4. inputs.carried \in Seq(PostedItem)
    BY InputsSeqs DEF HonestInv
  <2>5. found' \in Seq(PostedItem) /\ In(found') = In(inputs.carried) \cup In(ps)
    BY <2>1, <2>2, <2>3, <2>4, InConcat, ConcatProperties
  <2>6. HonestTypes'
    BY <1>0, <2>1, <2>5 DEF HonestInv, HonestTypes
  <2>7. Quiet'
    BY <1>0, <1>1 DEF Quiet
  <2>8. NotHollow'
    <3> SUFFICES ASSUME Len(pool.todo) > 0, Reviewed = {}, inputs.carried = <<>> PROVE FALSE
      BY <1>0 DEF NotHollow, Reviewed
    <3>1. Failed = 1..Len(pool.todo)
      BY <1>3 DEF Reviewed, Failed
    <3>2. Failed # {} /\ Cardinality(Failed) = Len(pool.todo)
      <4>1. 1 \in 1..Len(pool.todo)
        BY <1>1
      <4> QED
        BY <1>1, <3>1, <4>1, InOrderInterval
    <3> QED
      BY <1>5, <3>2 DEF AllFailed
  <2>9. HasChunks(found)'
    <3> SUFFICES ASSUME NEW i \in 1..Len(pool.result), notes' \cap {"chunks_failed", "chunks_capped"} = {}
                 PROVE  Llm(NumChunks - Len(pool.result) + i) \in In(found')
      BY <1>0 DEF HasChunks, In
    <3>1. Failed = {} /\ Len(pool.todo) = Len(pool.result)
      <4>1. Failed = {}
        BY <1>0 DEF FailureNotes
      <4>2. ~(Len(pool.todo) < Len(pool.result)) /\ Len(pool.todo) <= Len(pool.result)
        BY <1>0 DEF HonestInv, PoolOK
      <4> QED
        BY <1>1, <4>1, <4>2
    <3>2. i \in Reviewed
      BY <1>3, <3>1 DEF Reviewed, Failed
    <3>3. pool.todo[i] = NumChunks - Len(pool.result) + i
      BY <3>1 DEF HonestInv, PoolOK
    <3> QED
      BY <2>3, <2>5, <3>2, <3>3
  <2>10. (In(inputs.carried) \subseteq In(found))'
    BY <1>0, <2>5 DEF In
  <2>11. StageOK'
    BY <1>0, <1>1, <1>2, <2>1, <2>7, <2>8, <2>9, <2>10 DEF StageOK, Opening, Merging, Closing, Out, CallsIdle
  <2>12. SentOK'
    BY <1>0, <1>1, <2>1 DEF SentOK
  <2> QED
    BY <1>2, <2>6, <2>11, <2>12 DEF HonestInv
<1> QED
  BY <1>4, <1>5

(* A stage that only rewrites the findings and, perhaps, their metadata. *)
LEMMA RewriteKeeps ==
  ASSUME HonestInv, UNCHANGED <<calls, pool, inputs, rows, sent, outcome>>, notes \subseteq notes',
         at \in {"dedup"} \cup Merging \cup Closing, at' \in Merging \cup Closing,
         found' \in Seq(PostedItem), meta' \in Seq(PostedItem),
         at' \in Merging => Complete(found)', at' \in Closing => Shown(found)',
         at' \in {"citation_validate", "persist_findings"} => MetaFollows'
  PROVE  HonestInv'
<1>1. PoolOK' /\ MetadataFollowsFinding' /\ (Quiet => Quiet') /\ (NotHollow => NotHollow')
  BY NotesGrow
<1>2. HonestTypes'
  BY DEF HonestInv, HonestTypes
<1>3. Quiet /\ NotHollow /\ CallsIdle /\ sent = NotSent /\ outcome = "none" /\ ~pool.aborted
  BY DEF HonestInv, StageOK, Out, Merging, Closing
<1>4. StageOK'
  BY <1>1, <1>3 DEF StageOK, CallsIdle, Opening, Merging, Closing, Out
<1>5. SentOK'
  BY <1>3 DEF SentOK
<1> QED
  BY <1>1, <1>2, <1>4, <1>5 DEF HonestInv

LEMMA DedupHonest == HonestInv /\ Dedup => HonestInv'
<1> SUFFICES ASSUME HonestInv, Dedup PROVE HonestInv'
  OBVIOUS
<1>0. /\ at = "dedup" /\ at' = "claim_aggregate" /\ found' = inputs.linter \o found
      /\ UNCHANGED <<calls, pool, inputs, meta, rows, sent, notes, outcome>>
  BY DEF Dedup, Goto
<1>1. inputs.linter \in Seq(PostedItem) /\ found \in Seq(PostedItem) /\ meta \in Seq(PostedItem)
  BY InputsSeqs DEF HonestInv, HonestTypes
<1>2. found' \in Seq(PostedItem) /\ In(found') = In(inputs.linter) \cup In(found)
  BY <1>0, <1>1, InConcat, ConcatProperties
<1>3. HasChunks(found) /\ In(inputs.carried) \subseteq In(found) /\ LinterKnown
  BY <1>0 DEF HonestInv, StageOK
<1>4. HasChunks(found)' /\ (In(inputs.carried) \subseteq In(found))'
  BY <1>0, <1>2, <1>3 DEF HasChunks, In
<1>5. HasLinter(found)'
  BY <1>0, <1>2, <1>3, InputsSeqs DEF HonestInv, HasLinter, LinterKnown, In
<1>6. Complete(found)'
  BY <1>4, <1>5 DEF Complete
<1> QED
  BY <1>0, <1>1, <1>2, <1>6, RewriteKeeps DEF Merging, Closing

(* The ranking loses nothing. *)
LEMMA RankedKeeps ==
  ASSUME NEW fs \in Seq(PostedItem), NEW g \in Ranked(fs)
  PROVE  g \in Seq(PostedItem) /\ In(g) = In(fs)
<1>1. Len(fs) \in Nat /\ DOMAIN fs = 1..Len(fs) /\ \A i \in DOMAIN fs : fs[i] \in PostedItem
  BY LenProperties, ElementOfSeq
<1>2. PICK S : S = In(fs)
  OBVIOUS
<1>3. IsFiniteSet(1..Len(fs))
  BY <1>1, FS_Interval
<1>4. IsFiniteSet(S)
  <2>1. fs \in Surjection(1..Len(fs), S)
    BY <1>1, <1>2 DEF In, Surjection
  <2> QED
    BY <1>3, <2>1, FS_Surjection
<1>5. PICK n : n = Cardinality(S)
  OBVIOUS
<1>6. n \in Nat
  BY <1>4, <1>5, FS_CardinalityType
<1>7. g \in [1..n -> S] /\ \A i, j \in 1..n : i # j => g[i] # g[j]
  BY <1>2, <1>5 DEF Ranked, SetToSeqs, In
<1>8. g \in Injection(1..n, S)
  BY <1>7 DEF Injection, IsInjective
<1>9. Cardinality(1..n) = n /\ IsFiniteSet(1..n)
  BY <1>6, FS_Interval
<1>10. g \in Surjection(1..n, S)
  BY ONLY <1>4, <1>5, <1>8, <1>9, FS_Injection
<1>11. In(g) = S
  BY <1>7, <1>10 DEF Surjection, In
<1>12. S \subseteq PostedItem
  BY <1>1, <1>2 DEF In
<1> QED
  BY <1>2, <1>6, <1>7, <1>11, <1>12

LEMMA AggregateHonest == HonestInv /\ Aggregate => HonestInv'
<1> SUFFICES ASSUME HonestInv, Aggregate PROVE HonestInv'
  OBVIOUS
<1>0. /\ at = "aggregate" /\ at' = "filter" /\ found' \in Ranked(found)
      /\ UNCHANGED <<calls, pool, inputs, meta, rows, sent, notes, outcome>>
  BY DEF Aggregate, Goto
<1>1. found \in Seq(PostedItem) /\ meta \in Seq(PostedItem)
  BY DEF HonestInv, HonestTypes
<1>2. found' \in Seq(PostedItem) /\ In(found') = In(found)
  BY ONLY <1>0, <1>1, RankedKeeps
<1>3. Complete(found)
  BY <1>0 DEF HonestInv, StageOK, Merging
<1>4. Complete(found)'
  BY <1>0, <1>2, <1>3 DEF Complete, HasChunks, HasLinter, In
<1> QED
  BY <1>0, <1>1, <1>2, <1>4, RewriteKeeps DEF Merging, Closing

LEMMA FilterHonest == HonestInv /\ Filter => HonestInv'
<1> SUFFICES ASSUME HonestInv, Filter PROVE HonestInv'
  OBVIOUS
<1>0. /\ at = "filter" /\ at' = "citation_validate"
      /\ UNCHANGED <<calls, pool, inputs, rows, sent, notes, outcome>>
      /\ meta' \in {<<>>, found'}
      /\ \E ns \in {<<>>} \cup {<<n>> : n \in Notices} :
           found' = SubSeq(found, 1, IF Len(found) > MaxFindings THEN MaxFindings ELSE Len(found)) \o ns
  BY DEF Filter, Goto, Metadata
<1>1. found \in Seq(PostedItem) /\ meta \in Seq(PostedItem) /\ Len(found) \in Nat /\ MaxFindings \in Nat
  BY LenProperties, ConstantTypes DEF HonestInv, HonestTypes
<1>2. PICK ns \in {<<>>} \cup {<<n>> : n \in Notices} :
        found' = SubSeq(found, 1, IF Len(found) > MaxFindings THEN MaxFindings ELSE Len(found)) \o ns
  BY <1>0
<1>3. ns \in Seq(PostedItem)
  <2>1. CASE ns = <<>>
    BY <2>1, EmptySeq
  <2>2. CASE ns # <<>>
    <3>1. PICK n \in Notices : ns = <<n>>
      BY <1>2, <2>2
    <3>2. n \in PostedItem
      BY <3>1, KnownItems
    <3> QED
      BY ONLY <3>1, <3>2, OneItem
  <2> QED
    BY <2>1, <2>2
<1>4. Complete(found)
  BY <1>0 DEF HonestInv, StageOK, Merging
<1>5. CASE Len(found) > MaxFindings
  <2>1. PICK s : s = SubSeq(found, 1, MaxFindings)
    OBVIOUS
  <2>2. 1 \in Int /\ MaxFindings \in Int /\ \A i \in 1..MaxFindings : i \in 1..Len(found)
    BY <1>1, <1>5
  <2>3. \A i \in 1..MaxFindings : found[i] \in PostedItem
    BY <1>1, <2>2, ElementOfSeq
  <2>4. s \in Seq(PostedItem) /\ Len(s) = IF 1 <= MaxFindings THEN MaxFindings - 1 + 1 ELSE 0
    BY ONLY <2>1, <2>2, <2>3, SubSeqProperties
  <2>5. Len(s) = MaxFindings
    BY <1>1, <2>4
  <2>6. found' = s \o ns
    BY <1>2, <1>5, <2>1
  <2>7. found' \in Seq(PostedItem) /\ Len(found') = Len(s) + Len(ns) /\ Len(ns) \in Nat
    BY <1>3, <2>4, <2>6, ConcatProperties, LenProperties
  <2>8. ~(Len(found') < MaxFindings)
    BY <1>1, <2>5, <2>7
  <2>9. Shown(found)'
    BY <2>8 DEF Shown
  <2>10. meta' \in Seq(PostedItem) /\ MetaFollows'
    BY <1>0, <2>7, EmptySeq DEF MetaFollows
  <2> QED
    BY <1>0, <2>7, <2>9, <2>10, RewriteKeeps DEF Merging, Closing
<1>6. CASE ~(Len(found) > MaxFindings)
  <2>1. SubSeq(found, 1, Len(found)) = found
    BY <1>1, SubSeqFull
  <2>2. found' = found \o ns
    BY <1>2, <1>6, <2>1
  <2>3. found' \in Seq(PostedItem) /\ In(found') = In(found) \cup In(ns)
    BY ONLY <1>1, <1>3, <2>2, ConcatProperties, InConcat
  <2>4. Complete(found)'
    BY <1>0, <1>4, <2>3 DEF Complete, HasChunks, HasLinter, In
  <2>5. Shown(found)'
    BY <2>4 DEF Shown
  <2>6. meta' \in Seq(PostedItem) /\ MetaFollows'
    BY <1>0, <2>3, EmptySeq DEF MetaFollows
  <2> QED
    BY <1>0, <2>3, <2>5, <2>6, RewriteKeeps DEF Merging, Closing
<1> QED
  BY <1>5, <1>6

LEMMA CitationHonest == HonestInv /\ CitationValidate => HonestInv'
<1> SUFFICES ASSUME HonestInv, CitationValidate PROVE HonestInv'
  OBVIOUS
<1>0. /\ at = "citation_validate" /\ at' = "persist_findings"
      /\ UNCHANGED <<calls, pool, inputs, meta, rows, sent, outcome>>
      /\ \E drop \in SUBSET Droppable(found) :
           /\ found' = [n \in 1..Len(found) - Cardinality(drop) |-> found[InOrder(DOMAIN found \ drop)[n]]]
           /\ notes' = notes \cup (IF drop = {} THEN {} ELSE {"citations_dropped"})
  BY DEF CitationValidate, Goto
<1>1. PICK drop \in SUBSET Droppable(found) :
           /\ found' = [n \in 1..Len(found) - Cardinality(drop) |-> found[InOrder(DOMAIN found \ drop)[n]]]
           /\ notes' = notes \cup (IF drop = {} THEN {} ELSE {"citations_dropped"})
  BY <1>0
<1>2. found \in Seq(PostedItem) /\ meta \in Seq(PostedItem) /\ Len(found) \in Nat /\ DOMAIN found = 1..Len(found)
  BY LenProperties DEF HonestInv, HonestTypes
<1>3. Shown(found) /\ MetaFollows
  BY <1>0 DEF HonestInv, StageOK, Closing
<1>4. CASE drop = {}
  <2>1. /\ Cardinality(drop) = 0 /\ Len(found) - 0 = Len(found) /\ DOMAIN found \ drop = 1..Len(found)
    BY <1>2, <1>4, FS_EmptySet
  <2>2. \A n \in 1..Len(found) : InOrder(1..Len(found))[n] = n
    BY ONLY <1>2, InOrderInterval
  <2>3. found' = [n \in 1..Len(found) |-> found[n]]
    BY <1>1, <2>1, <2>2
  <2>4. found' = found /\ notes' = notes
    BY <1>1, <1>2, <1>4, <2>3
  <2>5. Shown(found)' /\ MetaFollows'
    BY <1>0, <1>3, <2>4, NotesGrow DEF MetaFollows
  <2> QED
    BY <1>0, <1>2, <2>4, <2>5, RewriteKeeps DEF Merging, Closing
<1>5. CASE drop # {}
  <2>1. "citations_dropped" \in notes' /\ notes \subseteq notes'
    BY <1>1, <1>5
  <2>2. drop \subseteq 1..Len(found) /\ IsFiniteSet(1..Len(found)) /\ Cardinality(1..Len(found)) = Len(found)
    BY <1>1, <1>2, InOrderInterval DEF Droppable
  <2>3. PICK D : D = 1..Len(found) \ drop
    OBVIOUS
  <2>4. drop = (1..Len(found)) \cap drop
    BY <2>2
  <2>5. IsFiniteSet(D) /\ Cardinality(D) = Len(found) - Cardinality(drop)
    <3>1. PICK I : I = 1..Len(found)
      OBVIOUS
    <3>2. IsFiniteSet(I) /\ Cardinality(I) = Len(found)
      BY ONLY <2>2, <3>1
    <3>3. IsFiniteSet(I \ drop) /\ Cardinality(I \ drop) = Cardinality(I) - Cardinality(I \cap drop)
      BY ONLY <3>2, FS_Difference
    <3>4. D = I \ drop
      BY ONLY <2>3, <3>1
    <3>5. I \cap drop = drop
      BY ONLY <2>2, <3>1
    <3> QED
      BY ONLY <3>2, <3>3, <3>4, <3>5
  <2>6. D \subseteq Nat /\ D \subseteq 1..Len(found) /\ Cardinality(D) \in Nat
    BY <2>3, <2>5, FS_CardinalityType
  <2>7. Rising(InOrder(D), Cardinality(D), D)
    BY ONLY <2>5, <2>6, InOrderRises
  <2>8. \A n \in 1..Cardinality(D) : found[InOrder(D)[n]] \in PostedItem
    BY <1>2, <2>6, <2>7, ElementOfSeq DEF Rising
  <2>9. found' = [n \in 1..Cardinality(D) |-> found[InOrder(D)[n]]]
    BY <1>1, <1>2, <2>3, <2>5
  <2>10. found' \in Seq(PostedItem)
    BY <2>6, <2>8, <2>9
  <2>11. Shown(found)' /\ MetaFollows'
    BY <2>1 DEF Shown, MetaFollows
  <2> QED
    BY <1>0, <1>2, <2>1, <2>10, <2>11, RewriteKeeps DEF Merging, Closing
<1> QED
  BY <1>4, <1>5

LEMMA PersistFindingsHonest == HonestInv /\ PersistFindings => HonestInv'
<1> SUFFICES ASSUME HonestInv, PersistFindings PROVE HonestInv'
  OBVIOUS
<1>0. /\ at = "persist_findings" /\ at' = "apply_arbitration"
      /\ UNCHANGED <<calls, pool, found, inputs, meta, sent, notes, outcome>>
      /\ rows' = {[finding |-> found[i], meta |-> IF i <= Len(meta) THEN meta[i] ELSE NotSent] : i \in DOMAIN found}
  BY DEF PersistFindings, Goto
<1>1. MetaFollows /\ Shown(found) /\ found \in Seq(PostedItem) /\ DOMAIN found = 1..Len(found) /\ Len(found) \in Nat
  BY <1>0, LenProperties DEF HonestInv, HonestTypes, StageOK, Closing
<1>2. MetadataFollowsFinding'
  <2> SUFFICES ASSUME "citations_dropped" \notin notes, NEW r \in rows' PROVE r.meta \in {r.finding, NotSent}
    BY <1>0 DEF MetadataFollowsFinding
  <2>1. PICK i \in DOMAIN found : r = [finding |-> found[i], meta |-> IF i <= Len(meta) THEN meta[i] ELSE NotSent]
    BY <1>0
  <2>2. CASE meta = <<>>
    <3>1. ~(i <= Len(meta))
      BY <1>1, <2>2
    <3> QED
      BY <2>1, <3>1
  <2>3. CASE meta = found
    BY <2>1, <2>3
  <2> QED
    BY <1>1, <2>2, <2>3 DEF MetaFollows
<1>3. PoolOK' /\ Shown(found)' /\ (Quiet => Quiet') /\ (NotHollow => NotHollow')
  BY <1>0, <1>1, NotesGrow
<1>4. Quiet /\ NotHollow /\ CallsIdle /\ sent = NotSent /\ outcome = "none" /\ ~pool.aborted
  BY <1>0 DEF HonestInv, StageOK, Out, Closing
<1>5. HonestTypes' /\ SentOK'
  BY <1>0, <1>4 DEF HonestInv, HonestTypes, SentOK, Closing
<1>6. StageOK'
  BY <1>0, <1>3, <1>4 DEF StageOK, CallsIdle, Opening, Merging, Closing, Out
<1> QED
  BY <1>2, <1>3, <1>5, <1>6 DEF HonestInv

LEMMA PostHonest == HonestInv /\ Post => HonestInv'
<1> SUFFICES ASSUME HonestInv, Post PROVE HonestInv'
  OBVIOUS
<1>0. /\ at = "post" /\ at' = "cleanup" /\ UNCHANGED <<calls, pool, found, inputs, meta, rows>>
      /\ notes \subseteq notes'
      /\ \/ sent' = found
         \/ sent' = sent /\ outcome' # "accepted"
  BY DEF Post, PostStage, Escapes
<1>1. Quiet /\ NotHollow /\ CallsIdle /\ sent = NotSent /\ Shown(found)
  BY <1>0 DEF HonestInv, StageOK, Out, Closing
<1>2. PoolOK' /\ MetadataFollowsFinding' /\ Quiet' /\ NotHollow' /\ Shown(found)'
  BY <1>0, <1>1, NotesGrow
<1>3. HonestTypes'
  BY <1>0 DEF HonestInv, HonestTypes, Out
<1>4. StageOK'
  BY <1>0 DEF StageOK, Opening, Merging, Closing, Out
<1>5. ASSUME sent' = found PROVE Shown(sent)'
  <2>1. sent' = found'
    BY ONLY <1>0, <1>5
  <2>2. Shown(found)'
    BY ONLY <1>2
  <2> QED
    BY ONLY <2>1, <2>2 DEF Shown, Complete, HasChunks, HasLinter, In
<1>6. SentOK'
  <2>1. CASE sent' = NotSent /\ outcome' # "accepted"
    BY <2>1 DEF SentOK
  <2>2. CASE sent' = found
    BY <1>0, <1>1, <1>2, <1>5, <2>2 DEF SentOK, CallsIdle, Out
  <2> QED
    BY <1>0, <1>1, <2>1, <2>2
<1> QED
  BY <1>2, <1>3, <1>4, <1>6 DEF HonestInv

LEMMA HonestKeeps == HonestInv /\ [PipelineNext]_pipelineVars => HonestInv'
<1> SUFFICES ASSUME HonestInv, [PipelineNext]_pipelineVars PROVE HonestInv'
  OBVIOUS
<1>1. CASE UNCHANGED pipelineVars
  BY <1>1, MovesOn DEF pipelineVars, data, Moves
<1>2. CASE PipelineNext
  BY <1>2, PlainKeeps, EmptyReviewHonest, AnalysisHonest, SelectHonest, TakeHonest, WorkersHonest, FanInHonest,
     DedupHonest, AggregateHonest, FilterHonest, CitationHonest, PersistFindingsHonest, PostHonest DEF PipelineNext
<1> QED
  BY <1>1, <1>2

(* What a reader of the posted review relies on: every finding a fault-free  *)
(* attempt would have posted is in it or a note names the stage that lost    *)
(* it, no review of nothing is posted, and every stored row carries its own  *)
(* finding's metadata; for any number of chunks, workers, findings and       *)
(* faults, and wherever the attempt is aborted.                              *)
THEOREM ReviewStaysHonest == ReviewSpec => []ReviewIsHonest
<1>1. ReviewInit => HonestInv
  BY PartsInit, HonestStarts
<1>2. HonestInv /\ [ReviewNext]_reviewVars => HonestInv'
  BY PartsStep, HonestKeeps
<1> QED
  BY <1>1, <1>2, HonestAtEnd, PTL DEF ReviewSpec

-----------------------------------------------------------------------------
(* The comments beside the review. An attempt that still holds the claim     *)
(* when it creates the fix prompt has seen that there is none; ids only      *)
(* grow, so what a teardown leaves behind is younger than what it listed.    *)

HubRows == [last : Nat, waiting : SUBSET Nat, prompts : SUBSET Nat, checks : Nat, text : Nat, shown : Nat]
FixRows == [owner : Attempts \cup {"none"}, expired : BOOLEAN, posted : BOOLEAN]

Places == {"start", "placeholder", "review", "check", "new check", "description", "patch", "prompt",
           "find", "create", "record", "teardown", "done", "dead"}

CommentTypes ==
  /\ hub \in HubRows /\ fix \in FixRows
  /\ pc \in [Attempts -> Places]
  /\ mine \in [Attempts -> Nat] /\ overtook \in BOOLEAN /\ cleared \in [Attempts -> Nat]

CommentsInv ==
  /\ CommentTypes
  /\ IsFiniteSet(hub.prompts) /\ OneFixPrompt
  /\ \A a \in Attempts : fix.owner = a /\ pc[a] = "create" /\ ~overtook => hub.prompts = {}
  /\ \A c \in hub.waiting : c <= hub.last
  /\ \A a \in Attempts : cleared[a] <= hub.last
  /\ PlaceholdersCleared

(* What the edits of the hub's row leave. *)
LEMMA HubFields ==
  ASSUME NEW h \in HubRows
  PROVE  h.last \in Nat /\ h.waiting \in SUBSET Nat /\ h.prompts \in SUBSET Nat /\ h.checks \in Nat /\ h.text \in Nat
  BY DEF HubRows

LEMMA CommentsStart == CommentsInit => CommentsInv
<1> SUFFICES ASSUME CommentsInit PROVE CommentsInv
  OBVIOUS
<1>1. CommentTypes
  BY DEF CommentsInit, CommentTypes, HubRows, FixRows, Places
<1>2. hub.prompts = {} /\ hub.waiting = {} /\ hub.last = 0
  BY DEF CommentsInit
<1>3. IsFiniteSet(hub.prompts) /\ Cardinality(hub.prompts) = 0
  BY <1>2, FS_EmptySet
<1> QED
  BY <1>1, <1>2, <1>3 DEF CommentsInit, CommentsInv, OneFixPrompt, PlaceholdersCleared

(* A step of one attempt that leaves GitHub's comments alone. *)
LEMMA CommentsQuiet ==
  ASSUME CommentsInv, CommentTypes',
         hub.last' = hub.last, hub.waiting' = hub.waiting, hub.prompts' = hub.prompts,
         overtook' = overtook, cleared' = cleared,
         \A a \in Attempts : pc'[a] = "done" => pc[a] = "done",
         \A a \in Attempts : pc'[a] = "create" /\ fix'.owner = a =>
            hub.prompts = {} \/ (pc[a] = "create" /\ fix.owner = a)
  PROVE  CommentsInv'
<1>1. (IsFiniteSet(hub.prompts) /\ OneFixPrompt)'
  BY DEF CommentsInv, OneFixPrompt
<1>2. \A a \in Attempts : fix'.owner = a /\ pc'[a] = "create" /\ ~overtook' => hub'.prompts = {}
  BY DEF CommentsInv
<1>3. (/\ \A c \in hub.waiting : c <= hub.last
       /\ \A a \in Attempts : cleared[a] <= hub.last
       /\ PlaceholdersCleared)'
  BY DEF CommentsInv, PlaceholdersCleared
<1> QED
  BY <1>1, <1>2, <1>3 DEF CommentsInv

LEMMA PlainSteps ==
  ASSUME CommentsInv, NEW a \in Attempts, ListPlaceholder(a) \/ Review(a) \/ FindCheck(a) \/ Dies(a) \/ GetBody(a)
  PROVE  CommentsInv'
<1> USE DEF CommentsInv, CommentTypes
<1>1. hub \in HubRows /\ hub' = hub /\ fix' = fix /\ overtook' = overtook /\ cleared' = cleared
  BY DEF ListPlaceholder, Review, FindCheck, Dies, GetBody
<1>2. hub.text \in Nat
  BY <1>1 DEF HubRows
<1>3. CommentTypes'
  BY <1>1, <1>2 DEF ListPlaceholder, Review, FindCheck, Dies, GetBody, Step, Places
<1>4. \A b \in Attempts : (pc'[b] = "done" => pc[b] = "done") /\ (pc'[b] = "create" => pc[b] = "create")
  BY DEF ListPlaceholder, Review, FindCheck, Dies, GetBody, Step
<1> QED
  BY <1>1, <1>3, <1>4, CommentsQuiet

LEMMA HubSteps ==
  ASSUME CommentsInv, NEW a \in Attempts, CreateCheck(a) \/ PatchBody(a)
  PROVE  CommentsInv'
<1>0. hub \in HubRows
  BY DEF CommentsInv, CommentTypes
<1>1. fix' = fix /\ overtook' = overtook /\ cleared' = cleared /\ mine' = mine /\ mine[a] \in Nat
  BY DEF CreateCheck, PatchBody, CommentsInv, CommentTypes
<1>2. hub' = [hub EXCEPT !.checks = hub.checks + 1] \/ hub' = [hub EXCEPT !.shown = mine[a]]
  BY DEF CreateCheck, PatchBody
<1>3. hub' \in HubRows /\ hub'.last = hub.last /\ hub'.waiting = hub.waiting /\ hub'.prompts = hub.prompts
  <2>1. hub.checks \in Nat
    BY ONLY <1>0, HubFields
  <2>2. PICK n \in Nat, m \in Nat : n = hub.checks + 1 /\ m = mine[a]
    BY ONLY <1>1, <2>1
  <2>3. hub' = [hub EXCEPT !.checks = n] \/ hub' = [hub EXCEPT !.shown = m]
    BY ONLY <1>2, <2>2
  <2> QED
    BY ONLY <1>0, n \in Nat, m \in Nat, <2>3 DEF HubRows
<1>4. /\ pc' \in [Attempts -> Places]
      /\ \A b \in Attempts : (pc'[b] = "done" => pc[b] = "done") /\ (pc'[b] = "create" => pc[b] = "create")
  BY DEF CreateCheck, PatchBody, Step, Places, CommentsInv, CommentTypes
<1>5. CommentTypes'
  BY <1>1, <1>3, <1>4 DEF CommentsInv, CommentTypes
<1> QED
  BY <1>1, <1>3, <1>4, <1>5, CommentsQuiet

LEMMA ClaimSteps ==
  ASSUME CommentsInv, NEW a \in Attempts, ClaimPrompt(a) \/ FindPrompt(a) \/ RecordPrompt(a)
  PROVE  CommentsInv'
<1>0. fix \in FixRows
  BY DEF CommentsInv, CommentTypes
<1>1. hub' = hub /\ overtook' = overtook /\ cleared' = cleared /\ mine' = mine
  BY DEF ClaimPrompt, FindPrompt, RecordPrompt
<1>2. \/ fix' = fix \/ (ClaimPrompt(a) /\ fix' = [fix EXCEPT !.owner = a, !.expired = FALSE])
      \/ fix' = [owner |-> "none", expired |-> FALSE, posted |-> TRUE]
  BY DEF ClaimPrompt, FindPrompt, RecordPrompt, Record
<1>3. fix' \in FixRows /\ (fix' = fix \/ (ClaimPrompt(a) /\ fix'.owner = a) \/ fix'.owner = "none")
  <2>1. fix' = [fix EXCEPT !.owner = a, !.expired = FALSE] => fix' \in FixRows /\ fix'.owner = a
    BY ONLY <1>0, a \in Attempts DEF FixRows
  <2>2. fix' = [owner |-> "none", expired |-> FALSE, posted |-> TRUE] => fix' \in FixRows /\ fix'.owner = "none"
    BY ONLY TRUE DEF FixRows
  <2> QED
    BY ONLY <1>0, <1>2, <2>1, <2>2
<1>4. /\ pc' \in [Attempts -> Places]
      /\ \A b \in Attempts : pc'[b] = "done" => pc[b] = "done"
      /\ \A b \in Attempts : pc'[b] = "create" => pc[b] = "create" \/ (b = a /\ hub.prompts = {})
      /\ ClaimPrompt(a) => pc'[a] # "create"
  BY DEF ClaimPrompt, FindPrompt, RecordPrompt, Step, Posted, Places, CommentsInv, CommentTypes
<1>5. CommentTypes'
  BY <1>1, <1>3, <1>4 DEF CommentsInv, CommentTypes
<1>6. \A b \in Attempts : pc'[b] = "create" /\ fix'.owner = b =>
            hub.prompts = {} \/ (pc[b] = "create" /\ fix.owner = b)
  BY ONLY <1>3, <1>4, CommentsAssumption
<1> QED
  BY <1>1, <1>4, <1>5, <1>6, CommentsQuiet

LEMMA OutsideSteps ==
  ASSUME CommentsInv, UserEdits \/ ClaimExpires
  PROVE  CommentsInv'
<1>0. hub \in HubRows
  BY DEF CommentsInv, CommentTypes
<1>f. fix \in FixRows
  BY DEF CommentsInv, CommentTypes
<1>1. pc' = pc /\ mine' = mine /\ overtook' = overtook /\ cleared' = cleared
  BY DEF UserEdits, ClaimExpires
<1>2. hub' = hub \/ hub' = [hub EXCEPT !.text = hub.text + 1, !.shown = hub.text + 1]
  BY DEF UserEdits, ClaimExpires
<1>3. hub' \in HubRows /\ hub'.last = hub.last /\ hub'.waiting = hub.waiting /\ hub'.prompts = hub.prompts
  <2>1. hub.text \in Nat
    BY ONLY <1>0, HubFields
  <2>2. PICK n \in Nat : n = hub.text + 1
    BY ONLY <2>1
  <2>3. hub' = hub \/ hub' = [hub EXCEPT !.text = n, !.shown = n]
    BY ONLY <1>2, <2>2
  <2> QED
    BY ONLY <1>0, n \in Nat, <2>3 DEF HubRows
<1>4. fix' = fix \/ fix' = [fix EXCEPT !.expired = TRUE]
  BY DEF UserEdits, ClaimExpires
<1>5. fix' \in FixRows /\ fix'.owner = fix.owner
  BY ONLY <1>f, <1>4 DEF FixRows
<1>6. CommentTypes'
  BY <1>1, <1>3, <1>5 DEF CommentsInv, CommentTypes
<1> QED
  BY <1>1, <1>3, <1>5, <1>6, CommentsQuiet

(* A comment is posted: its id is younger than all, and than any teardown. *)
LEMMA YoungerIds ==
  ASSUME NEW n \in Nat, NEW old \in SUBSET Nat, NEW new \in SUBSET Nat, new \subseteq old \cup {n + 1},
         NEW at1 \in [Attempts -> Nat], NEW over, NEW over2,
         \A c \in old : c <= n, \A b \in Attempts : at1[b] <= n,
         \A b \in Attempts, c \in old : over[b] = "done" => c > at1[b],
         \A b \in Attempts : over2[b] = "done" => over[b] = "done"
  PROVE  /\ \A c \in new : c <= n + 1
         /\ \A b \in Attempts : at1[b] <= n + 1
         /\ \A b \in Attempts, c \in new : over2[b] = "done" => c > at1[b]
  OBVIOUS

LEMMA PlaceholderPosted ==
  ASSUME CommentsInv, NEW a \in Attempts, CreatePlaceholder(a)
  PROVE  CommentsInv'
<1>t. hub \in HubRows
  BY DEF CommentsInv, CommentTypes
<1>0. /\ fix' = fix /\ overtook' = overtook /\ cleared' = cleared /\ mine' = mine
      /\ \A b \in Attempts : pc'[b] = "create" => pc[b] = "create"
      /\ \A b \in Attempts : pc'[b] = "done" => pc[b] = "done"
      /\ pc' \in [Attempts -> Places]
      /\ hub' = [hub EXCEPT !.last = hub.last + 1, !.waiting = hub.waiting \cup {hub.last + 1}]
  BY DEF CreatePlaceholder, Step, Places, CommentsInv, CommentTypes
<1>4. /\ hub' \in HubRows /\ hub'.last = hub.last + 1 /\ hub'.waiting = hub.waiting \cup {hub.last + 1}
      /\ hub'.prompts = hub.prompts /\ hub.last \in Nat /\ hub.waiting \in SUBSET Nat /\ hub'.waiting \in SUBSET Nat
  <2>1. hub.last \in Nat /\ hub.waiting \in SUBSET Nat
    BY ONLY <1>t, HubFields
  <2>2. PICK n \in Nat, S \in SUBSET Nat : n = hub.last + 1 /\ S = hub.waiting \cup {hub.last + 1}
    <3>1. hub.last + 1 \in Nat
      BY ONLY <2>1
    <3>2. hub.waiting \cup {hub.last + 1} \in SUBSET Nat
      BY ONLY <2>1, <3>1
    <3> QED
      BY ONLY <3>1, <3>2
  <2>3. hub' = [hub EXCEPT !.last = n, !.waiting = S]
    BY ONLY <1>0, <2>2
  <2>4. hub' \in HubRows /\ hub'.last = n /\ hub'.waiting = S /\ hub'.prompts = hub.prompts
    BY ONLY <1>t, n \in Nat, S \in SUBSET Nat, <2>3 DEF HubRows
  <2> QED
    BY ONLY <2>1, <2>2, <2>4
<1>1. CommentTypes'
  BY <1>0, <1>4 DEF CommentsInv, CommentTypes
<1>2. (IsFiniteSet(hub.prompts) /\ OneFixPrompt)'
  BY <1>0, <1>4 DEF OneFixPrompt, CommentsInv
<1>3. \A b \in Attempts : fix'.owner = b /\ pc'[b] = "create" /\ ~overtook' => hub'.prompts = {}
  BY <1>0, <1>4 DEF CommentsInv
<1>5. /\ \A c \in hub.waiting : c <= hub.last
      /\ \A b \in Attempts : cleared[b] <= hub.last
      /\ \A b \in Attempts, c \in hub.waiting : pc[b] = "done" => c > cleared[b]
      /\ cleared \in [Attempts -> Nat]
  BY DEF CommentsInv, CommentTypes, PlaceholdersCleared
<1>6. /\ \A c \in hub'.waiting : c <= hub.last + 1
      /\ \A b \in Attempts : cleared[b] <= hub.last + 1
      /\ \A b \in Attempts, c \in hub'.waiting : pc'[b] = "done" => c > cleared[b]
  BY ONLY <1>0, <1>4, <1>5, YoungerIds
<1> QED
  BY <1>0, <1>1, <1>2, <1>3, <1>4, <1>6 DEF CommentsInv, PlaceholdersCleared

LEMMA PromptPosted ==
  ASSUME CommentsInv, NEW a \in Attempts, CreatePrompt(a)
  PROVE  CommentsInv'
<1>t. hub \in HubRows
  BY DEF CommentsInv, CommentTypes
<1>0. /\ fix' = fix /\ cleared' = cleared /\ mine' = mine /\ overtook' = (overtook \/ fix.owner # a)
      /\ pc[a] = "create" /\ pc'[a] # "create"
      /\ \A b \in Attempts : pc'[b] = "create" => b # a /\ pc[b] = "create"
      /\ \A b \in Attempts : pc'[b] = "done" => pc[b] = "done"
      /\ pc' \in [Attempts -> Places]
      /\ hub' = [hub EXCEPT !.last = hub.last + 1, !.prompts = hub.prompts \cup {hub.last + 1}]
  BY DEF CreatePrompt, Step, Places, CommentsInv, CommentTypes
<1>4. /\ hub' \in HubRows /\ hub'.last = hub.last + 1 /\ hub'.waiting = hub.waiting
      /\ hub'.prompts = hub.prompts \cup {hub.last + 1} /\ hub.last \in Nat /\ hub.waiting \in SUBSET Nat
  <2>1. hub.last \in Nat /\ hub.waiting \in SUBSET Nat /\ hub.prompts \in SUBSET Nat
    BY ONLY <1>t, HubFields
  <2>2. PICK n \in Nat, S \in SUBSET Nat : n = hub.last + 1 /\ S = hub.prompts \cup {hub.last + 1}
    <3>1. hub.last + 1 \in Nat
      BY ONLY <2>1
    <3>2. hub.prompts \cup {hub.last + 1} \in SUBSET Nat
      BY ONLY <2>1, <3>1
    <3> QED
      BY ONLY <3>1, <3>2
  <2>3. hub' = [hub EXCEPT !.last = n, !.prompts = S]
    BY ONLY <1>0, <2>2
  <2>4. hub' \in HubRows /\ hub'.last = n /\ hub'.waiting = hub.waiting /\ hub'.prompts = S
    BY ONLY <1>t, n \in Nat, S \in SUBSET Nat, <2>3 DEF HubRows
  <2> QED
    BY ONLY <2>1, <2>2, <2>4
<1>1. CommentTypes'
  BY <1>0, <1>4 DEF CommentsInv, CommentTypes
<1>2. IsFiniteSet(hub'.prompts)
  BY <1>4, FS_AddElement DEF CommentsInv
<1>3. ~overtook' => hub.prompts = {} /\ fix.owner = a
  BY <1>0 DEF CommentsInv, CommentTypes
<1>7. OneFixPrompt'
  <2> SUFFICES ASSUME ~overtook' PROVE ~(Cardinality(hub'.prompts) > 1)
    BY DEF OneFixPrompt
  <2>1. hub'.prompts = {hub.last + 1}
    BY <1>3, <1>4
  <2>2. Cardinality(hub'.prompts) = 1
    BY <2>1, FS_Singleton
  <2> QED
    BY ONLY <2>2
<1>8. \A b \in Attempts : fix'.owner = b /\ pc'[b] = "create" /\ ~overtook' => hub'.prompts = {}
  BY ONLY <1>0, <1>3
<1>5. /\ \A c \in hub.waiting : c <= hub.last
      /\ \A b \in Attempts : cleared[b] <= hub.last
      /\ \A b \in Attempts, c \in hub.waiting : pc[b] = "done" => c > cleared[b]
      /\ cleared \in [Attempts -> Nat]
  BY DEF CommentsInv, CommentTypes, PlaceholdersCleared
<1>6. /\ \A c \in hub'.waiting : c <= hub.last + 1
      /\ \A b \in Attempts : cleared[b] <= hub.last + 1
      /\ \A b \in Attempts, c \in hub'.waiting : pc'[b] = "done" => c > cleared[b]
  BY ONLY <1>0, <1>4, <1>5, YoungerIds
<1> QED
  BY <1>0, <1>1, <1>2, <1>7, <1>8, <1>4, <1>6 DEF CommentsInv, PlaceholdersCleared

LEMMA TornDown ==
  ASSUME CommentsInv, NEW a \in Attempts, Teardown(a)
  PROVE  CommentsInv'
<1>t. hub \in HubRows
  BY DEF CommentsInv, CommentTypes
<1>0. /\ fix' = fix /\ overtook' = overtook /\ mine' = mine
      /\ pc' \in [Attempts -> Places]
      /\ \A b \in Attempts : pc'[b] = "create" => pc[b] = "create"
  BY DEF Teardown, Step, Places, CommentsInv, CommentTypes
<1>1. CASE Step(a, "teardown", "dead") /\ UNCHANGED <<hub, cleared>>
  <2>1. \A b \in Attempts : pc'[b] = "done" => pc[b] = "done"
    BY <1>1 DEF Step
  <2>2. CommentTypes'
    BY <1>0, <1>1 DEF CommentsInv, CommentTypes
  <2> QED
    BY <1>0, <1>1, <2>1, <2>2, CommentsQuiet
<1>2. CASE /\ hub' = (IF hub.waiting = {} THEN hub ELSE [hub EXCEPT !.waiting = @ \ Matching])
           /\ cleared' = [cleared EXCEPT ![a] = hub.last]
  <2>1. hub' = (IF hub.waiting = {} THEN hub ELSE [hub EXCEPT !.waiting = {}])
    BY <1>2 DEF Matching
  <2>2. hub' \in HubRows /\ hub'.last = hub.last /\ hub'.waiting = {} /\ hub'.prompts = hub.prompts /\ hub.last \in Nat
    <3>1. hub.last \in Nat
      BY ONLY <1>t, HubFields
    <3>2. PICK S \in SUBSET Nat : S = {}
      OBVIOUS
    <3>3. CASE hub' = hub /\ hub.waiting = {}
      BY ONLY <1>t, <3>1, <3>3
    <3>4. CASE hub' = [hub EXCEPT !.waiting = S]
      <4>1. hub' \in HubRows /\ hub'.last = hub.last /\ hub'.waiting = S /\ hub'.prompts = hub.prompts
        BY ONLY <1>t, <3>1, <3>4, S \in SUBSET Nat DEF HubRows
      <4> QED
        BY ONLY <3>1, <3>2, <4>1
    <3> QED
      BY ONLY <2>1, <3>2, <3>3, <3>4
  <2>3. cleared' \in [Attempts -> Nat] /\ \A b \in Attempts : cleared'[b] = cleared[b] \/ cleared'[b] = hub.last
    BY <1>2, <2>2 DEF CommentsInv, CommentTypes
  <2>4. CommentTypes'
    BY <1>0, <2>2, <2>3 DEF CommentsInv, CommentTypes
  <2>5. (IsFiniteSet(hub.prompts) /\ OneFixPrompt)'
    BY <1>0, <2>2 DEF OneFixPrompt, CommentsInv
  <2>6. (\A b \in Attempts : fix.owner = b /\ pc[b] = "create" /\ ~overtook => hub.prompts = {})'
    BY <1>0, <2>2 DEF CommentsInv
  <2>a. \A b \in Attempts : cleared[b] <= hub.last
    BY DEF CommentsInv
  <2>7. \A b \in Attempts : cleared'[b] <= hub'.last
    BY ONLY <2>2, <2>3, <2>a
  <2>8. (\A c \in hub.waiting : c <= hub.last)' /\ PlaceholdersCleared'
    BY <2>2 DEF PlaceholdersCleared
  <2> QED
    BY <2>4, <2>5, <2>6, <2>7, <2>8 DEF CommentsInv
<1> QED
  BY <1>1, <1>2 DEF Teardown

LEMMA CommentsKeep == CommentsInv /\ [CommentsNext]_commentVars => CommentsInv'
<1> SUFFICES ASSUME CommentsInv, [CommentsNext]_commentVars PROVE CommentsInv'
  OBVIOUS
<1>1. CASE UNCHANGED commentVars
  BY <1>1 DEF commentVars, CommentsInv, CommentTypes, OneFixPrompt, PlaceholdersCleared
<1>2. CASE CommentsNext
  BY <1>2, PlainSteps, HubSteps, ClaimSteps, OutsideSteps, PlaceholderPosted, PromptPosted, TornDown DEF CommentsNext
<1> QED
  BY <1>1, <1>2

-----------------------------------------------------------------------------
(* Sorting by a relation: a finite set with a strict total order has an      *)
(* enumeration in that order, and it reaches every member.                   *)

StrictOrder(R, S) ==
  /\ \A x, y \in S : x = y \/ <<x, y>> \in R \/ <<y, x>> \in R
  /\ \A x, y, z \in S : <<x, y>> \in R /\ <<y, z>> \in R => <<x, z>> \in R
  /\ \A x \in S : <<x, x>> \notin R

LEMMA FirstBy ==
  ASSUME NEW S, IsFiniteSet(S), NEW R, StrictOrder(R, S), S # {}
  PROVE  \E x \in S : \A y \in S \ {x} : <<x, y>> \in R
<1> DEFINE P == {n \in Nat : \A T \in SUBSET S : Cardinality(T) = n /\ T # {} =>
                    \E x \in T : \A y \in T \ {x} : <<x, y>> \in R}
<1>0. \A T \in SUBSET S : IsFiniteSet(T) /\ Cardinality(T) \in Nat
  BY FS_Subset, FS_CardinalityType
<1>1. 0 \in P
  BY <1>0, FS_EmptySet
<1>2. ASSUME NEW n \in Nat, n \in P PROVE n + 1 \in P
  <2>1. ASSUME NEW T \in SUBSET S, Cardinality(T) = n + 1, T # {}
        PROVE  \E x \in T : \A y \in T \ {x} : <<x, y>> \in R
    <3>1. PICK z \in T : TRUE
      BY <2>1
    <3>2. Cardinality(T \ {z}) = n /\ T \ {z} \in SUBSET S
      BY <1>0, <2>1, FS_RemoveElement
    <3>3. CASE T \ {z} = {}
      BY <3>3
    <3>4. CASE T \ {z} # {}
      <4>1. PICK x \in T \ {z} : \A y \in (T \ {z}) \ {x} : <<x, y>> \in R
        BY <1>2, <3>2, <3>4
      <4>2. CASE <<x, z>> \in R
        BY <4>1, <4>2
      <4>3. CASE <<z, x>> \in R
        <5>1. ASSUME NEW y \in T \ {z} PROVE <<z, y>> \in R
          BY <4>1, <4>3 DEF StrictOrder
        <5> QED
          BY <5>1
      <4> QED
        BY <4>1, <4>2, <4>3 DEF StrictOrder
    <3> QED
      BY <3>3, <3>4
  <2> QED
    BY <2>1
<1>3. Nat \subseteq P
  <2> HIDE DEF P
  <2> QED
    BY <1>1, <1>2, CountingUp
<1>4. Cardinality(S) \in P
  <2> HIDE DEF P
  <2> QED
    BY <1>0, <1>3
<1> QED
  BY <1>4

InTurn(f, n, S, R) == f \in [1..n -> S] /\ \A i, j \in 1..n : i < j => <<f[i], f[j]>> \in R

LEMMA SubsetOrdered ==
  ASSUME NEW S, NEW R, StrictOrder(R, S), NEW T \in SUBSET S
  PROVE  StrictOrder(R, T)
  BY DEF StrictOrder

LEMMA InTurnExists ==
  ASSUME NEW S, IsFiniteSet(S), NEW R, StrictOrder(R, S)
  PROVE  \E f : InTurn(f, Cardinality(S), S, R)
<1> DEFINE P == {n \in Nat : \A T \in SUBSET S : Cardinality(T) = n => \E f : InTurn(f, n, T, R)}
<1>0. \A T \in SUBSET S : IsFiniteSet(T) /\ Cardinality(T) \in Nat
  BY FS_Subset, FS_CardinalityType
<1>1. 0 \in P
  <2>1. ASSUME NEW T \in SUBSET S PROVE InTurn([i \in 1..0 |-> 0], 0, T, R)
    BY DEF InTurn
  <2> QED
    BY <2>1
<1>2. ASSUME NEW n \in Nat, n \in P PROVE n + 1 \in P
  <2>1. ASSUME NEW T \in SUBSET S, Cardinality(T) = n + 1 PROVE \E f : InTurn(f, n + 1, T, R)
    <3>1. T # {}
      BY <2>1, FS_EmptySet
    <3>2. PICK x \in T : \A y \in T \ {x} : <<x, y>> \in R
      <4>1. IsFiniteSet(T) /\ StrictOrder(R, T)
        BY <1>0, SubsetOrdered
      <4> QED
        BY ONLY <3>1, <4>1, FirstBy
    <3>3. Cardinality(T \ {x}) = n /\ T \ {x} \in SUBSET S
      <4>1. IsFiniteSet(T) /\ Cardinality(T \ {x}) = Cardinality(T) - 1
        BY <1>0, FS_RemoveElement
      <4> QED
        BY <2>1, <4>1
    <3>4. PICK f : InTurn(f, n, T \ {x}, R)
      BY <1>2, <3>3
    <3>5. PICK g : g = [i \in 1..(n + 1) |-> IF i = 1 THEN x ELSE f[i - 1]]
      OBVIOUS
    <3>6. \A i \in 1..n : f[i] \in T /\ <<x, f[i]>> \in R
      <4>1. ASSUME NEW i \in 1..n PROVE f[i] \in T \ {x}
        BY <3>4 DEF InTurn
      <4> QED
        BY ONLY <3>2, <4>1
    <3>7. \A i \in 1..(n + 1) : i = 1 \/ i - 1 \in 1..n
      OBVIOUS
    <3>8. g \in [1..(n + 1) -> T]
      BY <3>5, <3>6, <3>7
    <3>9. ASSUME NEW i \in 1..(n + 1), NEW j \in 1..(n + 1), i < j PROVE <<g[i], g[j]>> \in R
      <4>1. j # 1 /\ j - 1 \in 1..n /\ g[j] = f[j - 1]
        BY <3>5, <3>9
      <4>2. CASE i = 1
        BY <3>5, <3>6, <4>1, <4>2
      <4>3. CASE i # 1
        <5>1. i - 1 \in 1..n /\ g[i] = f[i - 1] /\ i - 1 < j - 1
          BY <3>5, <3>9, <4>3
        <5> QED
          BY <3>4, <4>1, <5>1 DEF InTurn
      <4> QED
        BY <4>2, <4>3
    <3> QED
      BY <3>8, <3>9 DEF InTurn
  <2> QED
    BY <2>1
<1>3. Nat \subseteq P
  <2> HIDE DEF P
  <2> QED
    BY <1>1, <1>2, CountingUp
<1> QED
  BY <1>0, <1>3

LEMMA SortedIs ==
  ASSUME NEW S, IsFiniteSet(S), NEW R, StrictOrder(R, S)
  PROVE  /\ Cardinality(S) \in Nat
         /\ Sorted(S, R) \in [1..Cardinality(S) -> S]
         /\ \A i, j \in 1..Cardinality(S) : i < j => <<Sorted(S, R)[i], Sorted(S, R)[j]>> \in R
         /\ \A i, j \in 1..Cardinality(S) : Sorted(S, R)[i] = Sorted(S, R)[j] => i = j
         /\ \A x \in S : \E i \in 1..Cardinality(S) : Sorted(S, R)[i] = x
<1>1. \E f \in [1..Cardinality(S) -> S] : \A i, j \in DOMAIN f : i < j => <<f[i], f[j]>> \in R
  <2>1. PICK f : InTurn(f, Cardinality(S), S, R)
    BY InTurnExists
  <2>2. f \in [1..Cardinality(S) -> S] /\ \A i, j \in DOMAIN f : i < j => <<f[i], f[j]>> \in R
    BY ONLY <2>1 DEF InTurn
  <2> QED
    BY ONLY <2>2
<1>2. InTurn(Sorted(S, R), Cardinality(S), S, R)
  BY <1>1 DEF Sorted, InTurn
<1>3. PICK f : f = Sorted(S, R)
  OBVIOUS
<1>4. Cardinality(S) \in Nat
  BY FS_CardinalityType
<1>5. \A i, j \in 1..Cardinality(S) : f[i] = f[j] => i = j
  <2> SUFFICES ASSUME NEW i \in 1..Cardinality(S), NEW j \in 1..Cardinality(S), f[i] = f[j], i # j PROVE FALSE
    OBVIOUS
  <2>1. f[i] \in S /\ f[j] \in S
    BY <1>2, <1>3 DEF InTurn
  <2>2. (i < j => <<f[i], f[j]>> \in R) /\ (j < i => <<f[j], f[i]>> \in R)
    BY <1>2, <1>3 DEF InTurn
  <2>3. i < j \/ j < i
    BY <1>4
  <2> QED
    BY <2>1, <2>2, <2>3 DEF StrictOrder
<1>6. f \in Injection(1..Cardinality(S), S)
  BY <1>2, <1>3, <1>5 DEF Injection, IsInjective, InTurn
<1>7. Cardinality(1..Cardinality(S)) = Cardinality(S)
  BY <1>4, FS_Interval
<1>8. f \in Surjection(1..Cardinality(S), S)
  BY <1>6, <1>7, FS_Injection
<1> QED
  BY <1>2, <1>3, <1>4, <1>5, <1>8 DEF Surjection, InTurn

LEMMA PositionsAre ==
  ASSUME NEW n \in Nat, NEW S \in SUBSET (1..n)
  PROVE  /\ IsFiniteSet(S) /\ Cardinality(S) \in Nat
         /\ Positions(S) \in [1..Cardinality(S) -> S]
         /\ \A i, j \in 1..Cardinality(S) : i < j => Positions(S)[i] < Positions(S)[j]
         /\ \A i, j \in 1..Cardinality(S) : Positions(S)[i] = Positions(S)[j] => i = j
         /\ \A x \in S : \E i \in 1..Cardinality(S) : Positions(S)[i] = x
<1>1. IsFiniteSet(S)
  <2>1. IsFiniteSet(1..n)
    BY FS_Interval
  <2> QED
    BY <2>1, FS_Subset
<1>2. PICK R : R = {x \in S \X S : x[1] < x[2]}
  OBVIOUS
<1>3. \A x, y \in S : <<x, y>> \in R <=> x < y
  BY <1>2
<1>4. \A x \in S : x \in Nat
  OBVIOUS
<1>5. StrictOrder(R, S)
  BY ONLY <1>3, <1>4 DEF StrictOrder
<1>6. Positions(S) = Sorted(S, R)
  BY <1>2 DEF Positions
<1>7. PICK f : f = Positions(S)
  OBVIOUS
<1>8. /\ Cardinality(S) \in Nat /\ f \in [1..Cardinality(S) -> S]
      /\ \A i, j \in 1..Cardinality(S) : i < j => <<f[i], f[j]>> \in R
      /\ \A i, j \in 1..Cardinality(S) : f[i] = f[j] => i = j
      /\ \A x \in S : \E i \in 1..Cardinality(S) : f[i] = x
  BY ONLY <1>1, <1>5, <1>6, <1>7, SortedIs
<1>9. \A i, j \in 1..Cardinality(S) : i < j => f[i] < f[j]
  BY ONLY <1>3, <1>8
<1> QED
  BY ONLY <1>1, <1>7, <1>8, <1>9

-----------------------------------------------------------------------------
(* What a sequence of numbers comes to, entry by entry. *)
Units(c) == UNION {{k} \X (1..c[k]) : k \in DOMAIN c}

LEMMA UnitsAre ==
  ASSUME NEW c, NEW k, NEW j
  PROVE  <<k, j>> \in Units(c) <=> k \in DOMAIN c /\ j \in 1..c[k]
  BY DEF Units

LEMMA UnitsPairs ==
  ASSUME NEW c, NEW x \in Units(c)
  PROVE  x = <<x[1], x[2]>> /\ x[1] \in DOMAIN c /\ x[2] \in 1..c[x[1]]
  BY DEF Units

LEMMA TallyOne ==
  ASSUME NEW n \in Nat
  PROVE  IsFiniteSet(Units(<<n>>)) /\ Tally(<<n>>) = n
<1>1. Units(<<n>>) = {1} \X (1..n)
  BY DEF Units
<1>2. IsFiniteSet(1..n) /\ Cardinality(1..n) = n
  BY FS_Interval
<1>3. IsFiniteSet({1}) /\ Cardinality({1}) = 1
  BY FS_Singleton
<1>4. IsFiniteSet({1} \X (1..n)) /\ Cardinality({1} \X (1..n)) = Cardinality({1}) * Cardinality(1..n)
  BY ONLY <1>2, <1>3, FS_Product
<1>5. Cardinality({1}) * Cardinality(1..n) = n
  BY ONLY <1>2, <1>3, n \in Nat
<1>6. IsFiniteSet(Units(<<n>>)) /\ Cardinality(Units(<<n>>)) = n
  BY ONLY <1>1, <1>4, <1>5
<1>7. Tally(<<n>>) = Cardinality(Units(<<n>>))
  BY DEF Tally, Units
<1> QED
  BY ONLY <1>6, <1>7

LEMMA TallyOnes ==
  ASSUME NEW n \in Nat, NEW c, c = [k \in 1..n |-> 1]
  PROVE  IsFiniteSet(Units(c)) /\ Tally(c) = n
<1>1. Units(c) = (1..n) \X {1}
  <2>1. \A k \in 1..n : 1..c[k] = {1}
    OBVIOUS
  <2>2. DOMAIN c = 1..n
    OBVIOUS
  <2>3. \A x : x \in Units(c) <=> \E k \in 1..n : x \in {k} \X {1}
    BY <2>1, <2>2 DEF Units
  <2> QED
    BY <2>3
<1>2. IsFiniteSet(1..n) /\ Cardinality(1..n) = n
  BY FS_Interval
<1>3. IsFiniteSet({1}) /\ Cardinality({1}) = 1
  BY FS_Singleton
<1>4. IsFiniteSet((1..n) \X {1}) /\ Cardinality((1..n) \X {1}) = Cardinality(1..n) * Cardinality({1})
  BY ONLY <1>2, <1>3, FS_Product
<1>5. Cardinality(1..n) * Cardinality({1}) = n
  BY ONLY <1>2, <1>3, n \in Nat
<1>6. IsFiniteSet(Units(c)) /\ Cardinality(Units(c)) = n
  BY ONLY <1>1, <1>4, <1>5
<1>7. Tally(c) = Cardinality(Units(c))
  BY DEF Tally, Units
<1> QED
  BY ONLY <1>6, <1>7

LEMMA TallyNone == IsFiniteSet(Units(<<>>)) /\ Tally(<<>>) = 0
<1>1. Units(<<>>) = {}
  BY DEF Units
<1> QED
  BY <1>1, FS_EmptySet DEF Tally, Units

LEMMA TallyJoins ==
  ASSUME NEW a \in Seq(Nat), NEW b \in Seq(Nat), IsFiniteSet(Units(a)), IsFiniteSet(Units(b))
  PROVE  IsFiniteSet(Units(a \o b)) /\ Tally(a \o b) = Tally(a) + Tally(b)
<1> DEFINE B == Units(b)
           N == Len(a)
           BB == {<<x[1] + N, x[2]>> : x \in B}
           h == [x \in B |-> <<x[1] + N, x[2]>>]
<1>0. /\ N \in Nat /\ Len(b) \in Nat /\ DOMAIN a = 1..N /\ DOMAIN b = 1..Len(b) /\ DOMAIN (a \o b) = 1..(N + Len(b))
      /\ (\A k \in 1..N : (a \o b)[k] = a[k]) /\ \A k \in 1..Len(b) : (a \o b)[k + N] = b[k]
  OBVIOUS
<1>1. \A x \in B : x = <<x[1], x[2]>> /\ x[1] \in 1..Len(b) /\ x[2] \in 1..b[x[1]]
  BY <1>0, UnitsPairs
<1>2. h \in Bijection(B, BB)
  <2>1. h \in [B -> BB]
    OBVIOUS
  <2>2. \A x, y \in B : h[x] = h[y] => x = y
    <3> SUFFICES ASSUME NEW x \in B, NEW y \in B, h[x] = h[y] PROVE x = y
      OBVIOUS
    <3>1. x[1] + N = y[1] + N /\ x[2] = y[2]
      <4> HIDE DEF B
      <4> QED
        OBVIOUS
    <3>2. x[1] = y[1]
      BY ONLY <1>0, <1>1, <3>1, x \in B, y \in B
    <3> QED
      BY ONLY <1>1, <3>1, <3>2, x \in B, y \in B
  <2>3. \A y \in BB : \E x \in B : h[x] = y
    OBVIOUS
  <2> HIDE DEF h, BB, B
  <2> QED
    BY <2>1, <2>2, <2>3 DEF Bijection, Injection, Surjection, IsInjective
<1>3. IsFiniteSet(BB) /\ Cardinality(BB) = Cardinality(B)
  <2> HIDE DEF h, BB, B
  <2>1. IsFiniteSet(B)
    BY DEF B
  <2> QED
    BY ONLY <1>2, <2>1, FS_Bijection DEF ExistsBijection
<1>4. Units(a \o b) = Units(a) \cup BB
  <2>1. ASSUME NEW x \in Units(a \o b) PROVE x \in Units(a) \cup BB
    <3>1. x = <<x[1], x[2]>> /\ x[1] \in 1..(N + Len(b)) /\ x[2] \in 1..(a \o b)[x[1]]
      BY <1>0, UnitsPairs
    <3>2. CASE x[1] \in 1..N
      <4>1. x[1] \in DOMAIN a /\ x[2] \in 1..a[x[1]]
        BY ONLY <1>0, <3>1, <3>2
      <4>2. <<x[1], x[2]>> \in Units(a)
        BY ONLY <4>1, UnitsAre
      <4> QED
        BY ONLY <3>1, <4>2
    <3>3. CASE x[1] \notin 1..N
      <4>1. PICK k \in 1..Len(b) : x[1] = k + N
        <5>1. x[1] - N \in 1..Len(b) /\ x[1] = (x[1] - N) + N
          BY ONLY <1>0, <3>1, <3>3
        <5> QED
          BY ONLY <5>1
      <4>2. (a \o b)[x[1]] = b[k]
        BY ONLY <1>0, <4>1, k \in 1..Len(b)
      <4>3. <<k, x[2]>> \in B
        BY ONLY <1>0, <3>1, <4>2, k \in 1..Len(b), UnitsAre DEF B
      <4>4. <<k + N, x[2]>> \in BB
        <5>1. PICK y : y = <<k, x[2]>>
          OBVIOUS
        <5>2. y \in B /\ y[1] = k /\ y[2] = x[2]
          BY ONLY <4>3, <5>1
        <5> HIDE DEF B
        <5> QED
          BY ONLY <5>2 DEF BB
      <4> QED
        BY ONLY <3>1, <4>1, <4>4
    <3> QED
      BY <3>2, <3>3
  <2>2. ASSUME NEW x \in Units(a) PROVE x \in Units(a \o b)
    <3>1. x = <<x[1], x[2]>> /\ x[1] \in 1..N /\ x[2] \in 1..a[x[1]]
      BY <1>0, UnitsPairs
    <3>2. x[1] \in DOMAIN (a \o b) /\ (a \o b)[x[1]] = a[x[1]]
      BY ONLY <1>0, <3>1
    <3> QED
      BY ONLY <3>1, <3>2, UnitsAre
  <2>3. ASSUME NEW x \in BB PROVE x \in Units(a \o b)
    <3>1. PICK y \in B : x = <<y[1] + N, y[2]>>
      BY <2>3
    <3>2. y[1] + N \in DOMAIN (a \o b) /\ (a \o b)[y[1] + N] = b[y[1]] /\ y[2] \in 1..b[y[1]]
      BY ONLY <1>0, <1>1, y \in B
    <3> QED
      BY ONLY <3>1, <3>2, UnitsAre
  <2> QED
    BY <2>1, <2>2, <2>3
<1>5. Units(a) \cap BB = {}
  <2> SUFFICES ASSUME NEW x \in Units(a), x \in BB PROVE FALSE
    OBVIOUS
  <2>1. x[1] \in 1..N
    BY <1>0, UnitsPairs
  <2>2. PICK y \in B : x = <<y[1] + N, y[2]>>
    OBVIOUS
  <2>3. x[1] = y[1] + N /\ y[1] \in 1..Len(b)
    BY ONLY <1>1, <2>2, y \in B
  <2> QED
    BY ONLY <1>0, <2>1, <2>3
<1>6. IsFiniteSet(Units(a) \cup BB)
      /\ Cardinality(Units(a) \cup BB) = Cardinality(Units(a)) + Cardinality(BB) - Cardinality(Units(a) \cap BB)
  <2> HIDE DEF BB
  <2> QED
    BY <1>3, FS_Union
<1>7. Cardinality(Units(a) \cap BB) = 0 /\ Cardinality(Units(a)) \in Nat /\ Cardinality(BB) \in Nat
  <2> HIDE DEF BB
  <2> QED
    BY <1>3, <1>5, FS_EmptySet, FS_CardinalityType
<1>8. Tally(a) = Cardinality(Units(a)) /\ Tally(b) = Cardinality(B) /\ Tally(a \o b) = Cardinality(Units(a \o b))
  BY DEF Tally, Units
<1> HIDE DEF BB, B
<1> QED
  BY <1>3, <1>4, <1>6, <1>7, <1>8

-----------------------------------------------------------------------------
(* The section of findings without a place. Its lines, and what each tells. *)
LineSet(F) ==
  {<<"head">>, <<"bucket">>, <<"open">>, <<"close">>, <<"section cut">>}
  \cup {<<"item", f>> : f \in F} \cup {<<"more", n>> : n \in Nat}
Weight(l) == IF l[1] = "item" THEN 1 ELSE IF l[1] = "more" THEN l[2] ELSE 0
Weights(s) == [k \in DOMAIN s |-> Weight(s[k])]

(* A text that tells of n findings. *)
Tells(s, F, n) == s \in Seq(LineSet(F)) /\ IsFiniteSet(Units(Weights(s))) /\ Tally(Weights(s)) = n

LEMMA LineKinds ==
  ASSUME NEW F, NEW l \in LineSet(F)
  PROVE  /\ Weight(l) \in Nat
         /\ l = <<"open">> <=> l[1] = "open"
         /\ l = <<"close">> <=> l[1] = "close"
<1>1. ASSUME NEW x, l = <<x>>, x \in {"head", "bucket", "open", "close", "section cut"}
      PROVE  l[1] = x /\ Weight(l) = 0 /\ (l = <<"open">> <=> x = "open") /\ (l = <<"close">> <=> x = "close")
  <2>1. l[1] = x /\ <<"open">>[1] = "open" /\ <<"close">>[1] = "close"
    BY <1>1
  <2>2. l[1] # "item" /\ l[1] # "more"
    BY <1>1, <2>1
  <2> QED
    BY <1>1, <2>1, <2>2 DEF Weight
<1>2. ASSUME NEW f, l = <<"item", f>>
      PROVE  l[1] = "item" /\ Weight(l) = 1 /\ l # <<"open">> /\ l # <<"close">>
  <2>1. l[1] = "item" /\ <<"open">>[1] = "open" /\ <<"close">>[1] = "close"
    BY <1>2
  <2> QED
    BY <2>1 DEF Weight
<1>3. ASSUME NEW n \in Nat, l = <<"more", n>>
      PROVE  l[1] = "more" /\ Weight(l) = n /\ l # <<"open">> /\ l # <<"close">>
  <2>1. l[1] = "more" /\ l[2] = n /\ <<"open">>[1] = "open" /\ <<"close">>[1] = "close"
    BY <1>3
  <2> QED
    BY <2>1 DEF Weight
<1>4. \/ \E x \in {"head", "bucket", "open", "close", "section cut"} : l = <<x>>
      \/ \E f : l = <<"item", f>>
      \/ \E n \in Nat : l = <<"more", n>>
  <2>1. \/ l \in {<<"head">>, <<"bucket">>, <<"open">>, <<"close">>, <<"section cut">>}
        \/ l \in {<<"item", f>> : f \in F} \/ l \in {<<"more", n>> : n \in Nat}
    BY DEF LineSet
  <2>2. ASSUME l \in {<<"head">>, <<"bucket">>, <<"open">>, <<"close">>, <<"section cut">>}
        PROVE  \E x \in {"head", "bucket", "open", "close", "section cut"} : l = <<x>>
    BY ONLY <2>2
  <2> QED
    BY <2>1, <2>2
<1>5. CASE \E x \in {"head", "bucket", "open", "close", "section cut"} : l = <<x>>
  <2>1. PICK x \in {"head", "bucket", "open", "close", "section cut"} : l = <<x>>
    BY <1>5
  <2>2. l[1] = x /\ Weight(l) = 0 /\ (l = <<"open">> <=> x = "open") /\ (l = <<"close">> <=> x = "close")
    BY <1>1, <2>1
  <2>3. 0 \in Nat
    OBVIOUS
  <2> QED
    BY ONLY <2>2, <2>3
<1>6. CASE \E f : l = <<"item", f>>
  BY <1>2, <1>6
<1>7. CASE \E n \in Nat : l = <<"more", n>>
  BY <1>3, <1>7
<1> QED
  BY ONLY <1>4, <1>5, <1>6, <1>7

LEMMA WeightsSeq ==
  ASSUME NEW F, NEW s \in Seq(LineSet(F))
  PROVE  Weights(s) \in Seq(Nat) /\ Len(Weights(s)) = Len(s) /\ \A k \in 1..Len(s) : Weights(s)[k] = Weight(s[k])
<1>1. \A k \in 1..Len(s) : s[k] \in LineSet(F)
  OBVIOUS
<1>2. \A k \in 1..Len(s) : Weight(s[k]) \in Nat
  BY <1>1, LineKinds
<1>3. Weights(s) = [k \in 1..Len(s) |-> Weight(s[k])] /\ Len(s) \in Nat
  BY DEF Weights
<1> QED
  BY ONLY <1>2, <1>3

LEMMA TellsJoin ==
  ASSUME NEW F, NEW a, NEW b, NEW n \in Nat, NEW m \in Nat, Tells(a, F, n), Tells(b, F, m)
  PROVE  Tells(a \o b, F, n + m)
<1>1. a \in Seq(LineSet(F)) /\ b \in Seq(LineSet(F)) /\ a \o b \in Seq(LineSet(F))
  BY DEF Tells
<1>2. PICK wa \in Seq(Nat), wb \in Seq(Nat) : wa = Weights(a) /\ wb = Weights(b)
  BY <1>1, WeightsSeq
<1>3. Weights(a \o b) = wa \o wb
  <2>1. /\ Len(wa) = Len(a) /\ (\A k \in 1..Len(a) : wa[k] = Weight(a[k]))
        /\ Len(wb) = Len(b) /\ (\A k \in 1..Len(b) : wb[k] = Weight(b[k]))
        /\ Weights(a \o b) \in Seq(Nat) /\ Len(Weights(a \o b)) = Len(a \o b)
        /\ \A k \in 1..Len(a \o b) : Weights(a \o b)[k] = Weight((a \o b)[k])
    BY <1>1, <1>2, WeightsSeq
  <2>2. PICK w \in Seq(Nat) : w = Weights(a \o b)
    BY <2>1
  <2>3. Len(w) = Len(wa \o wb) /\ wa \o wb \in Seq(Nat)
    BY ONLY <1>1, <2>1, <2>2, wa \in Seq(Nat), wb \in Seq(Nat), a \in Seq(LineSet(F)), b \in Seq(LineSet(F))
  <2>4. ASSUME NEW k \in 1..Len(w) PROVE w[k] = (wa \o wb)[k]
    <3>1. CASE k \in 1..Len(a)
      BY <1>1, <2>1, <2>2, <3>1
    <3>2. CASE k \notin 1..Len(a)
      <4>1. k - Len(a) \in 1..Len(b) /\ (a \o b)[k] = b[k - Len(a)] /\ (wa \o wb)[k] = wb[k - Len(a)]
        <5>1. Len(a) \in Nat /\ Len(b) \in Nat /\ Len(w) = Len(a) + Len(b)
          BY ONLY <1>1, <2>1, <2>2
        <5>2. k \in Len(a) + 1 .. Len(a) + Len(b)
          BY ONLY <3>2, <5>1, k \in 1..Len(w)
        <5>3. k - Len(a) \in 1..Len(b) /\ Len(wa) = Len(a) /\ Len(wb) = Len(b)
          BY ONLY <2>1, <5>1, <5>2
        <5>4. (a \o b)[k] = b[k - Len(a)]
          BY ONLY <1>1, <5>1, <5>2, ConcatProperties
        <5>5. (wa \o wb)[k] = wb[k - Len(a)]
          <6>1. k \in Len(wa) + 1 .. Len(wa) + Len(wb) /\ Len(wa) = Len(a)
            BY ONLY <5>2, <5>3
          <6> QED
            BY ONLY <6>1, wa \in Seq(Nat), wb \in Seq(Nat), ConcatProperties
        <5> QED
          BY ONLY <5>3, <5>4, <5>5
      <4> QED
        BY <2>1, <2>2, <4>1, <1>1
    <3> QED
      BY <3>1, <3>2
  <2>5. w = wa \o wb
    BY ONLY <2>3, <2>4, w \in Seq(Nat), SeqEqual
  <2> QED
    BY <2>2, <2>5
<1>4. IsFiniteSet(Units(wa)) /\ IsFiniteSet(Units(wb)) /\ Tally(wa) = n /\ Tally(wb) = m
  BY <1>2 DEF Tells
<1>5. IsFiniteSet(Units(wa \o wb)) /\ Tally(wa \o wb) = n + m
  BY ONLY <1>4, wa \in Seq(Nat), wb \in Seq(Nat), TallyJoins
<1> QED
  BY ONLY <1>1, <1>3, <1>5 DEF Tells

LEMMA TellsNone == ASSUME NEW F PROVE Tells(<<>>, F, 0)
<1>1. Weights(<<>>) = <<>> /\ <<>> \in Seq(LineSet(F))
  BY DEF Weights
<1> QED
  BY <1>1, TallyNone DEF Tells

LEMMA TellsLine ==
  ASSUME NEW F, NEW l \in LineSet(F), NEW n \in Nat, Weight(l) = n
  PROVE  Tells(<<l>>, F, n)
<1>1. Weights(<<l>>) = <<n>> /\ <<l>> \in Seq(LineSet(F))
  BY DEF Weights
<1> QED
  BY <1>1, TallyOne DEF Tells

LEMMA TellsItems ==
  ASSUME NEW F, NEW fs \in Seq(F)
  PROVE  Tells(FirstItems(fs) \o More(fs), F, Len(fs))
<1> DEFINE n == IF Len(fs) < PerBucket THEN Len(fs) ELSE PerBucket
<1>0. PerBucket \in Nat /\ Len(fs) \in Nat /\ n \in Nat /\ n <= Len(fs)
  BY BodyAssumption
<1>1. FirstItems(fs) = [k \in 1..n |-> <<"item", fs[k]>>] /\ Len(FirstItems(fs)) = n
  BY <1>0 DEF FirstItems, Item
<1>2. \A k \in 1..n : fs[k] \in F
  BY <1>0
<1>3. Tells(FirstItems(fs), F, n)
  <2> HIDE DEF n
  <2>1. \A k \in 1..n : <<"item", fs[k]>> \in LineSet(F)
    BY ONLY <1>2 DEF LineSet
  <2>2. FirstItems(fs) \in Seq(LineSet(F))
    BY ONLY <1>0, <1>1, <2>1
  <2>3. Weights(FirstItems(fs)) = [k \in 1..n |-> 1]
    BY ONLY <1>0, <1>1 DEF Weights, Weight
  <2>4. PICK c : c = [k \in 1..n |-> 1]
    OBVIOUS
  <2>5. IsFiniteSet(Units(c)) /\ Tally(c) = n
    BY ONLY <1>0, <2>4, TallyOnes
  <2> QED
    BY ONLY <2>2, <2>3, <2>4, <2>5 DEF Tells
<1>4. CASE Len(fs) > PerBucket
  <2>1. PICK m \in Nat : m = Len(fs) - PerBucket
    BY ONLY <1>0, <1>4
  <2>2. More(fs) = <<<<"more", m>>>> /\ n = PerBucket
    BY <1>0, <1>4, <2>1 DEF More
  <2>3. <<"more", m>> \in LineSet(F) /\ Weight(<<"more", m>>) = m
    BY DEF LineSet, Weight
  <2>4. Tells(More(fs), F, m)
    BY ONLY <2>2, <2>3, m \in Nat, TellsLine
  <2>5. Tells(FirstItems(fs) \o More(fs), F, n + m)
    <3> HIDE DEF n
    <3> QED
      BY ONLY <1>0, <1>3, <2>4, m \in Nat, TellsJoin
  <2>6. n + m = Len(fs)
    BY ONLY <1>0, <2>1, <2>2
  <2> QED
    BY ONLY <2>5, <2>6
<1>5. CASE ~(Len(fs) > PerBucket)
  <2>1. More(fs) = <<>> /\ n = Len(fs)
    BY <1>0, <1>5 DEF More
  <2>2. Tells(FirstItems(fs) \o More(fs), F, n + 0)
    <3> HIDE DEF n
    <3>1. Tells(More(fs), F, 0)
      BY <2>1, TellsNone
    <3>2. 0 \in Nat
      OBVIOUS
    <3> QED
      BY ONLY <1>0, <1>3, <3>1, <3>2, TellsJoin
  <2>3. n + 0 = Len(fs)
    BY ONLY <1>0, <2>1
  <2> QED
    BY ONLY <2>2, <2>3
<1> QED
  BY <1>4, <1>5

LEMMA TellsMark ==
  ASSUME NEW F, NEW l \in {<<"head">>, <<"bucket">>, <<"open">>, <<"close">>, <<"section cut">>}
  PROVE  Tells(<<l>>, F, 0)
<1>1. l \in LineSet(F)
  BY DEF LineSet
<1>2. Weight(l) = 0
  <2>1. PICK x \in {"head", "bucket", "open", "close", "section cut"} : l = <<x>>
    OBVIOUS
  <2>2. l[1] = x
    BY <2>1
  <2> QED
    BY <2>2 DEF Weight
<1>3. 0 \in Nat
  OBVIOUS
<1> QED
  BY ONLY <1>1, <1>2, <1>3, TellsLine

LEMMA TopTells ==
  ASSUME NEW F, NEW fs \in Seq(F)
  PROVE  Tells(RenderTopBucket(fs), F, Len(fs))
<1>0. Len(fs) \in Nat /\ 0 \in Nat
  OBVIOUS
<1>1. CASE fs = <<>>
  BY <1>1, TellsNone DEF RenderTopBucket
<1>2. CASE fs # <<>>
  <2>1. PICK rest : rest = FirstItems(fs) \o More(fs)
    OBVIOUS
  <2>2. Tells(rest, F, Len(fs))
    BY <2>1, TellsItems
  <2>3. Tells(<<<<"bucket">>>>, F, 0)
    BY TellsMark
  <2>4. Tells(<<<<"bucket">>>> \o rest, F, 0 + Len(fs))
    BY ONLY <1>0, <2>2, <2>3, TellsJoin
  <2>5. RenderTopBucket(fs) = <<<<"bucket">>>> \o rest
    <3>1. RenderTopBucket(fs) = (<<<<"bucket">>>> \o FirstItems(fs)) \o More(fs)
      BY <1>2 DEF RenderTopBucket
    <3>2. FirstItems(fs) \in Seq(LineSet(F)) /\ More(fs) \in Seq(LineSet(F)) /\ <<<<"bucket">>>> \in Seq(LineSet(F))
      <4>1. PerBucket \in Nat /\ \A k \in 1..Len(fs) : fs[k] \in F
        BY BodyAssumption
      <4>2. \A k \in 1..Len(fs) : <<"item", fs[k]>> \in LineSet(F)
        BY ONLY <4>1 DEF LineSet
      <4>3. FirstItems(fs) \in Seq(LineSet(F))
        BY ONLY <1>0, <4>1, <4>2 DEF FirstItems, Item
      <4>4. Len(fs) > PerBucket => <<"more", Len(fs) - PerBucket>> \in LineSet(F)
        BY ONLY <1>0, <4>1 DEF LineSet
      <4>5. More(fs) \in Seq(LineSet(F))
        BY ONLY <4>4 DEF More
      <4> QED
        BY <2>3, <4>3, <4>5 DEF Tells
    <3> QED
      BY ONLY <2>1, <3>1, <3>2, ConcatAssociative
  <2> QED
    BY ONLY <1>0, <2>4, <2>5
<1> QED
  BY <1>1, <1>2

Plain(s) == \A k \in 1..Len(s) : s[k] # <<"open">> /\ s[k] # <<"close">>
Framed(s) ==
  \/ Plain(s)
  \/ \E p \in 1..(Len(s) - 1) :
       /\ s[p] = <<"open">> /\ s[Len(s)] = <<"close">>
       /\ \A k \in 1..Len(s) : (s[k] = <<"open">> => k = p) /\ (s[k] = <<"close">> => k = Len(s))

LEMMA PlainJoins ==
  ASSUME NEW S, NEW a \in Seq(S), NEW b \in Seq(S), Plain(a), Plain(b)
  PROVE  Plain(a \o b)
<1>1. Len(a) \in Nat /\ Len(b) \in Nat /\ Len(a \o b) = Len(a) + Len(b)
  BY ConcatProperties
<1> SUFFICES ASSUME NEW k \in 1..(Len(a) + Len(b)) PROVE (a \o b)[k] # <<"open">> /\ (a \o b)[k] # <<"close">>
  BY <1>1 DEF Plain
<1>2. CASE k <= Len(a)
  <2>1. (a \o b)[k] = a[k] /\ k \in 1..Len(a)
    BY <1>1, <1>2, ConcatProperties
  <2> QED
    BY <2>1 DEF Plain
<1>3. CASE ~(k <= Len(a))
  <2>1. (a \o b)[k] = b[k - Len(a)] /\ k - Len(a) \in 1..Len(b)
    BY <1>1, <1>3, ConcatProperties
  <2> QED
    BY <2>1 DEF Plain
<1> QED
  BY <1>2, <1>3

LEMMA FramedJoins ==
  ASSUME NEW S, NEW a \in Seq(S), NEW b \in Seq(S), Plain(a), Framed(b)
  PROVE  Framed(a \o b)
<1>1. Len(a) \in Nat /\ Len(b) \in Nat /\ Len(a \o b) = Len(a) + Len(b)
  BY ConcatProperties
<1>2. CASE Plain(b)
  BY <1>2, PlainJoins DEF Framed
<1>3. CASE ~Plain(b)
  <2>1. PICK p \in 1..(Len(b) - 1) :
             /\ b[p] = <<"open">> /\ b[Len(b)] = <<"close">>
             /\ \A k \in 1..Len(b) : (b[k] = <<"open">> => k = p) /\ (b[k] = <<"close">> => k = Len(b))
    BY <1>3 DEF Framed
  <2>2. \A k \in 1..Len(b) : (a \o b)[k + Len(a)] = b[k]
    <3> SUFFICES ASSUME NEW k \in 1..Len(b) PROVE (a \o b)[k + Len(a)] = b[k]
      OBVIOUS
    <3>1. k + Len(a) \in 1..(Len(a) + Len(b)) /\ ~(k + Len(a) <= Len(a)) /\ (k + Len(a)) - Len(a) = k
      BY ONLY <1>1, k \in 1..Len(b)
    <3> QED
      BY <3>1, ConcatProperties
  <2>3. p + Len(a) \in 1..(Len(a \o b) - 1) /\ p \in 1..Len(b) /\ Len(b) \in 1..Len(b)
    BY ONLY <1>1, p \in 1..(Len(b) - 1)
  <2>4. (a \o b)[p + Len(a)] = <<"open">> /\ (a \o b)[Len(a \o b)] = <<"close">>
    <3>1. Len(a \o b) = Len(b) + Len(a)
      BY ONLY <1>1
    <3> QED
      BY ONLY <2>1, <2>2, <2>3, <3>1
  <2>5. ASSUME NEW k \in 1..Len(a \o b)
        PROVE  ((a \o b)[k] = <<"open">> => k = p + Len(a)) /\ ((a \o b)[k] = <<"close">> => k = Len(a \o b))
    <3>1. CASE k <= Len(a)
      <4>1. (a \o b)[k] = a[k] /\ k \in 1..Len(a)
        BY <1>1, <3>1, ConcatProperties
      <4> QED
        BY <4>1 DEF Plain
    <3>2. CASE ~(k <= Len(a))
      <4>1. PICK j \in 1..Len(b) : k = j + Len(a)
        <5>1. k - Len(a) \in 1..Len(b) /\ k = (k - Len(a)) + Len(a)
          BY ONLY <1>1, <3>2, k \in 1..Len(a \o b)
        <5> QED
          BY ONLY <5>1
      <4>2. (a \o b)[k] = b[j]
        BY ONLY <2>2, <4>1, j \in 1..Len(b)
      <4>3. (b[j] = <<"open">> => j = p) /\ (b[j] = <<"close">> => j = Len(b))
        BY ONLY <2>1, j \in 1..Len(b)
      <4> QED
        BY ONLY <1>1, <4>1, <4>2, <4>3
    <3> QED
      BY <3>1, <3>2
  <2> QED
    BY <2>3, <2>4, <2>5 DEF Framed
<1> QED
  BY <1>2, <1>3

LEMMA PlainLine ==
  ASSUME NEW l, l # <<"open">>, l # <<"close">>
  PROVE  Plain(<<l>>)
  BY DEF Plain

LEMMA PlainMore ==
  ASSUME NEW n
  PROVE  Plain(<<<<"more", n>>>>)
<1>1. PICK l : l = <<"more", n>>
  OBVIOUS
<1>2. l[1] = "more" /\ <<"open">>[1] = "open" /\ <<"close">>[1] = "close"
  BY <1>1
<1>3. l # <<"open">> /\ l # <<"close">>
  BY <1>2
<1> QED
  BY ONLY <1>1, <1>3, PlainLine

LEMMA PlainMark ==
  ASSUME NEW x, x # "open", x # "close"
  PROVE  Plain(<<<<x>>>>)
<1>1. PICK l : l = <<x>>
  OBVIOUS
<1>2. l[1] = x /\ <<"open">>[1] = "open" /\ <<"close">>[1] = "close"
  BY <1>1
<1>3. l # <<"open">> /\ l # <<"close">>
  BY <1>2
<1> QED
  BY ONLY <1>1, <1>3, PlainLine

LEMMA ItemsPlain ==
  ASSUME NEW F, NEW fs \in Seq(F)
  PROVE  /\ FirstItems(fs) \in Seq(LineSet(F)) /\ More(fs) \in Seq(LineSet(F))
         /\ FirstItems(fs) \o More(fs) \in Seq(LineSet(F)) /\ Plain(FirstItems(fs) \o More(fs))
<1>0. Len(fs) \in Nat /\ PerBucket \in Nat /\ \A k \in 1..Len(fs) : fs[k] \in F
  BY BodyAssumption
<1>1. PICK n \in Nat : n = (IF Len(fs) < PerBucket THEN Len(fs) ELSE PerBucket) /\ n <= Len(fs)
  BY ONLY <1>0
<1>2. FirstItems(fs) = [k \in 1..n |-> <<"item", fs[k]>>]
  BY <1>1 DEF FirstItems, Item
<1>3. \A k \in 1..n : <<"item", fs[k]>> \in LineSet(F)
  <2>1. \A k \in 1..n : fs[k] \in F
    BY ONLY <1>0, <1>1
  <2> QED
    BY ONLY <2>1 DEF LineSet
<1>4. FirstItems(fs) \in Seq(LineSet(F)) /\ Len(FirstItems(fs)) = n
  BY ONLY <1>2, <1>3, n \in Nat
<1>5. Plain(FirstItems(fs))
  <2> SUFFICES ASSUME NEW k \in 1..n PROVE FirstItems(fs)[k] # <<"open">> /\ FirstItems(fs)[k] # <<"close">>
    BY <1>4 DEF Plain
  <2>1. PICK l : l = <<"item", fs[k]>>
    OBVIOUS
  <2>2. l[1] = "item" /\ <<"open">>[1] = "open" /\ <<"close">>[1] = "close"
    BY <2>1
  <2> QED
    BY <1>2, <2>1, <2>2
<1>6. More(fs) \in Seq(LineSet(F)) /\ Plain(More(fs))
  <2>1. CASE Len(fs) > PerBucket
    <3>1. <<"more", Len(fs) - PerBucket>> \in LineSet(F)
      <4>1. Len(fs) - PerBucket \in Nat
        BY ONLY <1>0, <2>1
      <4> QED
        BY ONLY <4>1 DEF LineSet
    <3>2. More(fs) = <<<<"more", Len(fs) - PerBucket>>>>
      BY <2>1 DEF More
    <3> QED
      BY <3>1, <3>2, PlainMore
  <2>2. CASE ~(Len(fs) > PerBucket)
    BY <2>2 DEF More, Plain
  <2> QED
    BY <2>1, <2>2
<1> QED
  BY <1>4, <1>5, <1>6, PlainJoins, ConcatProperties

LEMMA TopPlain ==
  ASSUME NEW F, NEW fs \in Seq(F)
  PROVE  RenderTopBucket(fs) \in Seq(LineSet(F)) /\ Plain(RenderTopBucket(fs))
<1>1. CASE fs = <<>>
  BY <1>1 DEF RenderTopBucket, Plain
<1>2. CASE fs # <<>>
  <2>1. <<<<"bucket">>>> \in Seq(LineSet(F)) /\ Plain(<<<<"bucket">>>>)
    <3>1. Plain(<<<<"bucket">>>>)
      BY PlainMark
    <3> QED
      BY <3>1 DEF LineSet
  <2>2. PICK a, b : a = FirstItems(fs) /\ b = More(fs)
    OBVIOUS
  <2>3. a \in Seq(LineSet(F)) /\ b \in Seq(LineSet(F)) /\ a \o b \in Seq(LineSet(F)) /\ Plain(a \o b)
    BY <2>2, ItemsPlain
  <2>4. RenderTopBucket(fs) = (<<<<"bucket">>>> \o a) \o b
    BY <1>2, <2>2 DEF RenderTopBucket
  <2>5. RenderTopBucket(fs) = <<<<"bucket">>>> \o (a \o b)
    BY ONLY <2>1, <2>3, <2>4, ConcatAssociative
  <2> QED
    BY ONLY <2>1, <2>3, <2>5, PlainJoins, ConcatProperties
<1> QED
  BY <1>1, <1>2

LEMMA NitsTell ==
  ASSUME NEW F, NEW fs \in Seq(F), NEW suppress \in BOOLEAN
  PROVE  Tells(RenderNits(fs, suppress), F, Len(fs)) /\ Framed(RenderNits(fs, suppress))
<1>0. Len(fs) \in Nat /\ 0 \in Nat
  OBVIOUS
<1>1. CASE fs = <<>>
  <2>1. RenderNits(fs, suppress) = <<>> /\ Len(fs) = 0
    BY <1>1 DEF RenderNits
  <2>2. Framed(<<>>)
    BY DEF Framed, Plain
  <2> QED
    BY ONLY <2>1, <2>2, TellsNone
<1>2. CASE fs # <<>> /\ suppress
  <2>1. RenderNits(fs, suppress) = <<<<"more", Len(fs)>>>>
    BY <1>2 DEF RenderNits
  <2>2. <<"more", Len(fs)>> \in LineSet(F) /\ Weight(<<"more", Len(fs)>>) = Len(fs)
    <3>1. PICK n \in Nat : n = Len(fs)
      BY <1>0
    <3>2. <<"more", n>> \in LineSet(F) /\ Weight(<<"more", n>>) = n
      BY ONLY n \in Nat DEF LineSet, Weight
    <3> QED
      BY ONLY <3>1, <3>2
  <2>3. Tells(<<<<"more", Len(fs)>>>>, F, Len(fs))
    BY ONLY <1>0, <2>2, TellsLine
  <2> QED
    BY <2>1, <2>3, PlainMore DEF Framed
<1>3. CASE fs # <<>> /\ ~suppress
  <2>1. PICK a, b, open, close : a = FirstItems(fs) /\ b = More(fs) /\ open = <<<<"open">>>> /\ close = <<<<"close">>>>
    OBVIOUS
  <2>2. RenderNits(fs, suppress) = ((open \o a) \o b) \o close
    BY <1>3, <2>1 DEF RenderNits
  <2>3. a \in Seq(LineSet(F)) /\ b \in Seq(LineSet(F)) /\ a \o b \in Seq(LineSet(F)) /\ Plain(a \o b)
    BY <2>1, ItemsPlain
  <2>4. open \in Seq(LineSet(F)) /\ close \in Seq(LineSet(F)) /\ Len(open) = 1 /\ Len(close) = 1
    BY <2>1 DEF LineSet
  <2>5. (open \o a) \o b = open \o (a \o b)
    BY ONLY <2>3, <2>4, ConcatAssociative
  <2>6. PICK r : r = a \o b
    OBVIOUS
  <2>7. Tells(r, F, Len(fs))
    BY <2>1, <2>6, TellsItems
  <2>8. Tells(open, F, 0) /\ Tells(close, F, 0)
    BY <2>1, TellsMark
  <2>9. Tells(open \o r, F, 0 + Len(fs))
    BY ONLY <1>0, <2>7, <2>8, TellsJoin
  <2>10. Tells((open \o r) \o close, F, (0 + Len(fs)) + 0)
    <3>1. 0 + Len(fs) \in Nat
      BY <1>0
    <3> QED
      BY ONLY <1>0, <3>1, <2>8, <2>9, TellsJoin
  <2>11. Tells(RenderNits(fs, suppress), F, Len(fs))
    BY ONLY <1>0, <2>2, <2>5, <2>6, <2>10
  <2>12. Framed((open \o r) \o close)
    <3>1. r \in Seq(LineSet(F)) /\ Plain(r)
      BY ONLY <2>3, <2>6
    <3>2. PICK n \in Nat : n = Len(r)
      BY ONLY <3>1, LenProperties
    <3>3. PICK s : s = (open \o r) \o close
      OBVIOUS
    <3>4. /\ Len(s) = n + 2 /\ s[1] = open[1] /\ s[n + 2] = close[1]
          /\ \A k \in 2..(n + 1) : s[k] = r[k - 1]
      <4>1. open \o r \in Seq(LineSet(F)) /\ Len(open \o r) = n + 1 /\ (open \o r)[1] = open[1]
            /\ \A k \in 2..(n + 1) : (open \o r)[k] = r[k - 1]
        <5>1. PICK q, L : q = open \o r /\ L = LineSet(F)
          OBVIOUS
        <5>2. open \in Seq(L) /\ r \in Seq(L) /\ Len(open) = 1 /\ Len(r) = n
          BY ONLY <2>4, <3>1, <3>2, <5>1
        <5>3. q \in Seq(L) /\ Len(q) = 1 + n /\ \A k \in 1..(1 + n) : q[k] = IF k <= 1 THEN open[k] ELSE r[k - 1]
          <6>1. /\ q \in Seq(L) /\ Len(q) = Len(open) + Len(r)
                /\ \A k \in 1..(Len(open) + Len(r)) : q[k] = IF k <= Len(open) THEN open[k] ELSE r[k - Len(open)]
            <7>1. open \in Seq(L) /\ r \in Seq(L)
              BY ONLY <5>2
            <7> QED
              BY ONLY <5>1, <7>1, ConcatProperties
          <6>2. Len(open) = 1 /\ Len(r) = n
            BY ONLY <5>2
          <6> QED
            BY ONLY <6>1, <6>2
        <5>4. 1 + n = n + 1 /\ 1 \in 1..(1 + n) /\ \A k \in 2..(n + 1) : k \in 1..(1 + n) /\ ~(k <= 1)
          BY ONLY n \in Nat
        <5>5. Len(q) = n + 1 /\ q[1] = open[1] /\ \A k \in 2..(n + 1) : q[k] = r[k - 1]
          BY ONLY <5>3, <5>4
        <5> QED
          BY ONLY <5>1, <5>3, <5>5
      <4>q. PICK q : q = open \o r
        OBVIOUS
      <4>2. q \in Seq(LineSet(F)) /\ Len(q) = n + 1 /\ q[1] = open[1] /\ s = q \o close
        BY ONLY <3>3, <4>1, <4>q
      <4>3. /\ Len(s) = Len(q) + Len(close)
            /\ \A k \in 1..(Len(q) + Len(close)) : s[k] = IF k <= Len(q) THEN q[k] ELSE close[k - Len(q)]
        BY ONLY <2>4, <4>2, ConcatProperties
      <4>4. /\ Len(s) = n + 2 /\ \A k \in 1..(n + 2) : s[k] = IF k <= n + 1 THEN q[k] ELSE close[k - (n + 1)]
        <5>1. Len(q) + Len(close) = n + 2
          BY ONLY <2>4, <4>2, n \in Nat
        <5> QED
          BY ONLY <4>2, <4>3, <5>1
      <4>5. s[1] = q[1]
        BY ONLY <4>4, n \in Nat
      <4>6. s[n + 2] = close[1]
        <5>1. n + 2 \in 1..(n + 2) /\ ~(n + 2 <= n + 1) /\ (n + 2) - (n + 1) = 1
          BY ONLY n \in Nat
        <5> QED
          BY ONLY <4>4, <5>1
      <4>7. \A k \in 2..(n + 1) : s[k] = q[k]
        BY ONLY <4>4, n \in Nat
      <4> QED
        BY ONLY <4>1, <4>q, <4>2, <4>4, <4>5, <4>6, <4>7
    <3>5. s[1] = <<"open">> /\ s[n + 2] = <<"close">> /\ <<"open">> # <<"close">>
      <4>1. open[1] = <<"open">> /\ close[1] = <<"close">> /\ <<"open">>[1] = "open" /\ <<"close">>[1] = "close"
        BY <2>1
      <4> QED
        BY ONLY <3>4, <4>1
    <3>6. ASSUME NEW k \in 1..(n + 2)
          PROVE  (s[k] = <<"open">> => k = 1) /\ (s[k] = <<"close">> => k = n + 2)
      <4>1. CASE k = 1
        <5>1. s[k] = <<"open">>
          BY ONLY <3>5, <4>1
        <5>2. s[k] # <<"close">>
          BY ONLY <3>5, <5>1, Zenon
        <5> QED
          BY ONLY <4>1, <5>2
      <4>2. CASE k = n + 2
        <5>1. s[k] = <<"close">>
          BY ONLY <3>5, <4>2
        <5>2. s[k] # <<"open">>
          BY ONLY <3>5, <5>1, Zenon
        <5> QED
          BY ONLY <4>2, <5>2
      <4>3. CASE k \in 2..(n + 1)
        <5>1. s[k] = r[k - 1] /\ k - 1 \in 1..n
          BY ONLY <3>4, <4>3, n \in Nat
        <5> QED
          BY <3>1, <3>2, <5>1 DEF Plain
      <4> QED
        BY ONLY <4>1, <4>2, <4>3, k \in 1..(n + 2), n \in Nat
    <3>7. 1 \in 1..(Len(s) - 1) /\ Len(s) = n + 2
      BY ONLY <3>4, n \in Nat
    <3> QED
      BY ONLY <3>3, <3>5, <3>6, <3>7 DEF Framed
  <2> QED
    BY ONLY <2>2, <2>5, <2>6, <2>11, <2>12
<1> QED
  BY <1>1, <1>2, <1>3

LEMMA InsideOf ==
  ASSUME NEW n \in Nat, NEW m \in Nat, n < m
  PROVE  \A k \in 1..n : k \in 1..m /\ k # m
OBVIOUS

LEMMA Appended ==
  ASSUME NEW L, NEW a \in Seq(L), NEW e \in L, NEW b, b = Append(a, e)
  PROVE  b \in Seq(L) /\ Len(b) = Len(a) + 1 /\ (\A k \in 1..Len(a) : b[k] = a[k]) /\ b[Len(a) + 1] = e
BY AppendProperties

LEMMA LikeCounts ==
  ASSUME NEW s, NEW line
  PROVE  /\ (\A k \in DOMAIN s : s[k] # line) => Cardinality(LinesLike(s, line)) = 0
         /\ \A p \in DOMAIN s : s[p] = line /\ (\A k \in DOMAIN s : s[k] = line => k = p)
                => Cardinality(LinesLike(s, line)) = 1
<1>1. ASSUME \A k \in DOMAIN s : s[k] # line PROVE Cardinality(LinesLike(s, line)) = 0
  <2>1. LinesLike(s, line) = {}
    BY <1>1 DEF LinesLike
  <2> QED
    BY <2>1, FS_EmptySet
<1>2. ASSUME NEW p \in DOMAIN s, s[p] = line, \A k \in DOMAIN s : s[k] = line => k = p
      PROVE  Cardinality(LinesLike(s, line)) = 1
  <2>1. LinesLike(s, line) = {p}
    BY <1>2 DEF LinesLike
  <2> QED
    BY <2>1, FS_Singleton
<1> QED
  BY <1>1, <1>2

LEMMA FramedOpens ==
  ASSUME NEW S, NEW s \in Seq(S), Framed(s)
  PROVE  Opens(s) = 0
<1>0. DOMAIN s = 1..Len(s) /\ Len(s) \in Nat
  OBVIOUS
<1>1. CASE Plain(s)
  <2>1. Cardinality(LinesLike(s, <<"open">>)) = 0 /\ Cardinality(LinesLike(s, <<"close">>)) = 0
    <3>1. \A k \in DOMAIN s : s[k] # <<"open">> /\ s[k] # <<"close">>
      BY <1>0, <1>1 DEF Plain
    <3> QED
      BY ONLY <3>1, LikeCounts
  <2> QED
    BY ONLY <2>1 DEF Opens
<1>2. CASE ~Plain(s)
  <2>1. PICK p \in 1..(Len(s) - 1) :
             /\ s[p] = <<"open">> /\ s[Len(s)] = <<"close">>
             /\ \A k \in 1..Len(s) : (s[k] = <<"open">> => k = p) /\ (s[k] = <<"close">> => k = Len(s))
    BY <1>2 DEF Framed
  <2>2. p \in DOMAIN s /\ Len(s) \in DOMAIN s
    BY ONLY <1>0, p \in 1..(Len(s) - 1)
  <2>3. \A k \in DOMAIN s : (s[k] = <<"open">> => k = p) /\ (s[k] = <<"close">> => k = Len(s))
    BY ONLY <1>0, <2>1
  <2>4. Cardinality(LinesLike(s, <<"open">>)) = 1 /\ Cardinality(LinesLike(s, <<"close">>)) = 1
    BY ONLY <2>1, <2>2, <2>3, LikeCounts
  <2> QED
    BY ONLY <2>4 DEF Opens
<1> QED
  BY <1>1, <1>2

(* A text that is cut has its cut said and what was open closed. *)
LEMMA CutCloses ==
  ASSUME NEW S, NEW s \in Seq(S), Framed(s), NEW n \in Nat, n < Len(s), NEW kept, kept = SubSeq(s, 1, n),
         NEW t, t = Append(kept, <<"section cut">>) \o [k \in 1..Opens(kept) |-> <<"close">>]
  PROVE  Opens(t) = 0 /\ Has(t, <<"section cut">>)
<1>0. DOMAIN s = 1..Len(s) /\ Len(s) \in Nat
  BY ONLY s \in Seq(S), LenProperties
<1>n. \A k \in 1..n : k \in 1..Len(s) /\ k # Len(s)
  <2>1. PICK m : m = Len(s)
    OBVIOUS
  <2>2. m \in Nat /\ n < m
    BY <1>0, <2>1
  <2>3. \A k \in 1..n : k \in 1..m /\ k # m
    BY ONLY <2>2, n \in Nat, InsideOf
  <2> QED
    BY ONLY <2>1, <2>3
<1>a. PICK L : S \subseteq L /\ <<"section cut">> \in L /\ <<"close">> \in L
  <2>1. S \subseteq S \cup {<<"section cut">>, <<"close">>}
    OBVIOUS
  <2> QED
    BY ONLY <2>1
<1>1. kept \in Seq(L) /\ Len(kept) = n /\ DOMAIN kept = 1..n /\ \A k \in 1..n : kept[k] = s[k]
  <2>1. \A k \in 1..n : s[k] \in L
    <3>1. \A k \in 1..Len(s) : s[k] \in S
      BY ONLY s \in Seq(S), ElementOfSeq
    <3> QED
      BY ONLY <1>a, <1>n, <3>1
  <2>2. 1 \in Int /\ n \in Int
    BY ONLY n \in Nat
  <2>3. /\ kept \in Seq(L) /\ Len(kept) = (IF 1 <= n THEN n - 1 + 1 ELSE 0)
        /\ \A k \in 1..(n - 1 + 1) : kept[k] = s[1 + k - 1]
    BY ONLY <2>1, <2>2, kept = SubSeq(s, 1, n), SubSeqProperties
  <2>4. Len(kept) = n /\ \A k \in 1..n : kept[k] = s[k]
    BY ONLY <2>3, n \in Nat
  <2> QED
    BY ONLY <2>3, <2>4, LenProperties
<1>2. PICK q : q = Append(kept, <<"section cut">>)
  OBVIOUS
<1>3. /\ q \in Seq(L) /\ Len(q) = n + 1 /\ (\A k \in 1..n : q[k] = s[k]) /\ q[n + 1] = <<"section cut">>
  <2>2. /\ q \in Seq(L) /\ Len(q) = Len(kept) + 1 /\ (\A k \in 1..Len(kept) : q[k] = kept[k])
        /\ q[Len(kept) + 1] = <<"section cut">>
    <3>1. kept \in Seq(L)
      BY ONLY <1>1
    <3>2. PICK e : e = <<"section cut">>
      OBVIOUS
    <3>3. e \in L /\ q = Append(kept, e)
      BY ONLY <1>a, <1>2, <3>2
    <3>4. q \in Seq(L) /\ Len(q) = Len(kept) + 1 /\ (\A k \in 1..Len(kept) : q[k] = kept[k]) /\ q[Len(kept) + 1] = e
      BY ONLY <3>1, <3>3, Appended
    <3> QED
      BY ONLY <3>2, <3>4
  <2>3. Len(kept) = n
    BY ONLY <1>1
  <2>4. /\ Len(q) = n + 1 /\ (\A k \in 1..n : q[k] = kept[k]) /\ q[n + 1] = <<"section cut">>
    BY ONLY <2>2, <2>3
  <2>5. \A k \in 1..n : kept[k] = s[k]
    BY ONLY <1>1
  <2>6. \A k \in 1..n : q[k] = s[k]
    BY ONLY <2>4, <2>5
  <2> QED
    BY ONLY <2>2, <2>4, <2>6
<1>t. t = Append(kept, <<"section cut">>) \o [k \in 1..Opens(kept) |-> <<"close">>]
  OBVIOUS
<1>4. <<"section cut">> # <<"open">> /\ <<"section cut">> # <<"close">> /\ <<"open">> # <<"close">>
  <2>1. <<"section cut">>[1] = "section cut" /\ <<"open">>[1] = "open" /\ <<"close">>[1] = "close"
    OBVIOUS
  <2> QED
    BY ONLY <2>1
<1>5. \A k \in 1..n : s[k] # <<"close">>
  <2> SUFFICES ASSUME NEW k \in 1..n, s[k] = <<"close">> PROVE FALSE
    OBVIOUS
  <2>1. k \in 1..Len(s) /\ k # Len(s)
    BY ONLY <1>n, k \in 1..n
  <2> QED
    BY <2>1 DEF Framed, Plain
<1>6. \A k \in DOMAIN kept : kept[k] # <<"close">>
  BY ONLY <1>1, <1>5
<1>7. Cardinality(LinesLike(kept, <<"close">>)) = 0
  BY ONLY <1>6, LikeCounts
<1>8. CASE \A k \in 1..n : s[k] # <<"open">>
  <2>1. Opens(kept) = 0
    <3>1. \A k \in DOMAIN kept : kept[k] # <<"open">>
      BY ONLY <1>1, <1>8
    <3>2. Cardinality(LinesLike(kept, <<"open">>)) = 0
      BY ONLY <3>1, LikeCounts
    <3> QED
      BY ONLY <1>7, <3>2 DEF Opens
  <2>2. t = q
    <3>1. [k \in 1..Opens(kept) |-> <<"close">>] = <<>>
      BY ONLY <2>1
    <3> QED
      BY ONLY <1>2, <1>3, <1>t, <3>1, ConcatEmptySeq
  <2>3. \A k \in DOMAIN t : t[k] # <<"open">> /\ t[k] # <<"close">>
    <3>1. DOMAIN t = 1..(n + 1)
      <4>1. t \in Seq(L) /\ Len(t) = n + 1
        BY ONLY <1>3, <2>2
      <4> QED
        BY ONLY <4>1, LenProperties
    <3>2. \A k \in 1..(n + 1) : k \in 1..n \/ k = n + 1
      BY ONLY n \in Nat
    <3> QED
      BY ONLY <1>3, <1>4, <1>5, <1>8, <2>2, <3>1, <3>2
  <2>4. Cardinality(LinesLike(t, <<"open">>)) = 0 /\ Cardinality(LinesLike(t, <<"close">>)) = 0
    BY ONLY <2>3, LikeCounts
  <2>5. Has(t, <<"section cut">>)
    <3>1. n + 1 \in DOMAIN t
      <4>1. t \in Seq(L) /\ Len(t) = n + 1
        BY ONLY <1>3, <2>2
      <4>2. DOMAIN t = 1..(n + 1)
        BY ONLY <4>1, LenProperties
      <4> QED
        BY ONLY <4>2, n \in Nat
    <3> QED
      BY <1>3, <2>2, <3>1 DEF Has, ToSet
  <2>6. Opens(t) = 0
    BY ONLY <2>4 DEF Opens
  <2> QED
    BY ONLY <2>5, <2>6
<1>9. CASE ~(\A k \in 1..n : s[k] # <<"open">>)
  <2>1. PICK p \in 1..n : s[p] = <<"open">>
    BY <1>9
  <2>2. \A k \in 1..n : s[k] = <<"open">> => k = p
    <3>1. \A k \in 1..n : k \in 1..Len(s)
      BY ONLY <1>n
    <3>2. ~Plain(s)
      BY <2>1, <3>1 DEF Plain
    <3> QED
      BY <2>1, <3>1, <3>2 DEF Framed
  <2>3. Opens(kept) = 1
    <3>1. p \in DOMAIN kept /\ kept[p] = <<"open">> /\ \A k \in DOMAIN kept : kept[k] = <<"open">> => k = p
      BY ONLY <1>1, <2>1, <2>2, p \in 1..n
    <3>2. Cardinality(LinesLike(kept, <<"open">>)) = 1
      BY ONLY <3>1, LikeCounts
    <3> QED
      BY ONLY <1>7, <3>2 DEF Opens
  <2>4. t = Append(q, <<"close">>)
    <3>1. [k \in 1..Opens(kept) |-> <<"close">>] = <<<<"close">>>>
      BY ONLY <2>3
    <3>2. t = q \o <<<<"close">>>>
      BY ONLY <1>t, <1>2, <3>1
    <3> QED
      BY ONLY <1>a, <1>3, <3>2, AppendIsConcat
  <2>5. /\ DOMAIN t = 1..(n + 2) /\ (\A k \in 1..n : t[k] = s[k]) /\ t[n + 1] = <<"section cut">> /\ t[n + 2] = <<"close">>
    <3>2. /\ t \in Seq(L) /\ Len(t) = Len(q) + 1 /\ (\A k \in 1..Len(q) : t[k] = q[k]) /\ t[Len(q) + 1] = <<"close">>
      <4>1. q \in Seq(L)
        BY ONLY <1>3
      <4>2. PICK e : e = <<"close">>
        OBVIOUS
      <4>3. e \in L /\ t = Append(q, e)
        BY ONLY <1>a, <2>4, <4>2
      <4>4. t \in Seq(L) /\ Len(t) = Len(q) + 1 /\ (\A k \in 1..Len(q) : t[k] = q[k]) /\ t[Len(q) + 1] = e
        BY ONLY <4>1, <4>3, Appended
      <4> QED
        BY ONLY <4>2, <4>4
    <3>3. Len(q) + 1 = n + 2 /\ n + 1 \in 1..Len(q) /\ \A k \in 1..n : k \in 1..Len(q)
      <4>1. Len(q) = n + 1
        BY ONLY <1>3
      <4> QED
        BY ONLY <4>1, n \in Nat
    <3>4. DOMAIN t = 1..Len(t)
      BY ONLY <3>2, LenProperties
    <3> QED
      BY ONLY <1>3, <3>2, <3>3, <3>4
  <2>6. \A k \in 1..(n + 2) : k \in 1..n \/ k = n + 1 \/ k = n + 2
    BY ONLY n \in Nat
  <2>7. p \in DOMAIN t /\ n + 2 \in DOMAIN t /\ n + 1 \in DOMAIN t
    <3>1. p \in 1..(n + 2) /\ n + 2 \in 1..(n + 2) /\ n + 1 \in 1..(n + 2)
      BY ONLY n \in Nat, p \in 1..n
    <3> QED
      BY ONLY <2>5, <3>1
  <2>8. \A k \in DOMAIN t : (t[k] = <<"open">> => k = p) /\ (t[k] = <<"close">> => k = n + 2)
    BY ONLY <1>4, <1>5, <2>2, <2>5, <2>6
  <2>9. t[p] = <<"open">> /\ t[n + 2] = <<"close">>
    BY ONLY <2>1, <2>5, p \in 1..n
  <2>10. Cardinality(LinesLike(t, <<"open">>)) = 1 /\ Cardinality(LinesLike(t, <<"close">>)) = 1
    BY ONLY <2>7, <2>8, <2>9, LikeCounts
  <2>11. Has(t, <<"section cut">>)
    BY <2>5, <2>7 DEF Has, ToSet
  <2>12. Opens(t) = 0
    BY ONLY <2>10 DEF Opens
  <2> QED
    BY ONLY <2>11, <2>12
<1> QED
  BY <1>8, <1>9

LEMMA CapTells ==
  ASSUME NEW F, NEW n, NEW s, Tells(s, F, n), Framed(s)
  PROVE  /\ Opens(ApplyCharacterCap(s)) = 0
         /\ Has(ApplyCharacterCap(s), <<"section cut">>) \/ Tally(Weights(ApplyCharacterCap(s))) = n
<1>1. s \in Seq(LineSet(F)) /\ Tally(Weights(s)) = n
  BY DEF Tells
<1>2. CASE Len(s) <= SectionSize
  <2>1. ApplyCharacterCap(s) = s
    BY <1>2 DEF ApplyCharacterCap
  <2>2. Opens(s) = 0
    BY ONLY <1>1, Framed(s), FramedOpens
  <2> QED
    BY ONLY <1>1, <2>1, <2>2
<1>3. CASE ~(Len(s) <= SectionSize)
  <2>1. Len(s) \in Nat /\ SectionSize \in Nat /\ SectionSlack \in 0..SectionSize
    BY <1>1, BodyAssumption
  <2>2. PICK m \in Nat : m = SectionSize - SectionSlack /\ m < Len(s)
    BY ONLY <1>3, <2>1
  <2>3. PICK kept : kept = SubSeq(s, 1, m)
    OBVIOUS
  <2>4. ApplyCharacterCap(s) = Append(kept, <<"section cut">>) \o [k \in 1..Opens(kept) |-> <<"close">>]
    BY <1>3, <2>2, <2>3 DEF ApplyCharacterCap
  <2>5. PICK t : t = ApplyCharacterCap(s)
    OBVIOUS
  <2>6. Opens(t) = 0 /\ Has(t, <<"section cut">>)
    BY ONLY <1>1, <2>2, <2>3, <2>4, <2>5, Framed(s), m \in Nat, CutCloses
  <2> QED
    BY ONLY <2>5, <2>6
<1> QED
  BY <1>2, <1>3

ListOf(s, n, F) == n \in Nat /\ \A k \in 1..n : s[k] \in F

(* The entries of a list at some positions are a list of that many of them. *)
LEMMA EntriesAre ==
  ASSUME NEW n, NEW F, NEW s, ListOf(s, n, F), NEW S \in SUBSET (1..n)
  PROVE  EntriesAt(s, S) \in Seq(F) /\ Len(EntriesAt(s, S)) = Cardinality(S) /\ Cardinality(S) \in Nat
<1>0. n \in Nat /\ \A k \in 1..n : s[k] \in F
  BY DEF ListOf
<1>1. PICK p, c : p = Positions(S) /\ c = Cardinality(S)
  OBVIOUS
<1>2. c \in Nat /\ p \in [1..c -> S]
  BY ONLY <1>0, <1>1, S \in SUBSET (1..n), PositionsAre
<1>3. EntriesAt(s, S) = [k \in 1..c |-> s[p[k]]]
  BY ONLY <1>1, <1>2 DEF EntriesAt
<1>4. \A k \in 1..c : s[p[k]] \in F
  <2>1. \A k \in 1..c : p[k] \in 1..n
    BY ONLY <1>2, S \in SUBSET (1..n)
  <2> QED
    BY ONLY <1>0, <2>1
<1>5. PICK e : e = [k \in 1..c |-> s[p[k]]]
  OBVIOUS
<1>6. e \in [1..c -> F]
  BY ONLY <1>4, <1>5
<1>7. e \in Seq(F) /\ Len(e) = c
  BY ONLY <1>2, <1>6
<1> QED
  BY ONLY <1>1, <1>2, <1>3, <1>5, <1>7

LEMMA ThreeParts ==
  ASSUME NEW n \in Nat, NEW A \in SUBSET (1..n), NEW B \in SUBSET (1..n), NEW C \in SUBSET (1..n),
         \A k \in 1..n : /\ k \in A \/ k \in B \/ k \in C
                        /\ ~(k \in A /\ k \in B) /\ ~(k \in A /\ k \in C) /\ ~(k \in B /\ k \in C)
  PROVE  /\ Cardinality(A) \in Nat /\ Cardinality(B) \in Nat /\ Cardinality(C) \in Nat
         /\ Cardinality(A) + (Cardinality(B) + Cardinality(C)) = n
<1>1. IsFiniteSet(1..n) /\ Cardinality(1..n) = n
  BY FS_Interval
<1>2. IsFiniteSet(A) /\ IsFiniteSet(B) /\ IsFiniteSet(C)
  <2>1. A \subseteq 1..n /\ B \subseteq 1..n /\ C \subseteq 1..n
    OBVIOUS
  <2> QED
    BY ONLY <1>1, <2>1, FS_Subset
<1>3. Cardinality(A) \in Nat /\ Cardinality(B) \in Nat /\ Cardinality(C) \in Nat
  BY ONLY <1>2, FS_CardinalityType
<1>4. Cardinality({}) = 0
  BY FS_EmptySet
<1>5. PICK BC : BC = B \cup C
  OBVIOUS
<1>6. IsFiniteSet(BC) /\ Cardinality(BC) = Cardinality(B) + Cardinality(C)
  <2>0. B \cap C = {}
    OBVIOUS
  <2>1. IsFiniteSet(B \cup C) /\ Cardinality(B \cup C) = Cardinality(B) + Cardinality(C) - Cardinality(B \cap C)
    BY ONLY <1>2, FS_Union
  <2> QED
    <3>1. Cardinality(B \cap C) = 0
      BY ONLY <1>4, <2>0
    <3>2. Cardinality(B \cup C) = Cardinality(B) + Cardinality(C) - 0
      BY ONLY <2>1, <3>1
    <3>3. Cardinality(B) + Cardinality(C) - 0 = Cardinality(B) + Cardinality(C)
      BY ONLY <1>3
    <3>4. IsFiniteSet(BC) /\ Cardinality(BC) = Cardinality(B \cup C)
      BY ONLY <1>5, <2>1
    <3> QED
      BY ONLY <3>2, <3>3, <3>4
<1>7. A \cap BC = {} /\ A \cup BC = 1..n
  BY <1>5
<1>8. Cardinality(A \cup BC) = Cardinality(A) + Cardinality(BC) - Cardinality(A \cap BC)
  BY ONLY <1>2, <1>6, FS_Union
<1>9. Cardinality(A \cup BC) = n /\ Cardinality(A \cap BC) = 0
  BY ONLY <1>1, <1>4, <1>7
<1>10. n = Cardinality(A) + Cardinality(BC) - 0
  BY ONLY <1>8, <1>9
<1> QED
  BY ONLY <1>3, <1>6, <1>10

LEMMA BucketIs == \A f : Bucket(f) \in {"security", "correctness", "nits"}
BY DEF Bucket

(* The section tells every finding it is given, or that it was cut. *)
LEMMA DroppedTells ==
  ASSUME NEW F, NEW ds \in Seq(F), NEW t, t = RenderDropped(ds)
  PROVE  /\ Opens(t) = 0
         /\ Has(t, <<"section cut">>) \/ Tally(Weights(t)) = Len(ds)
<1>0. PICK n \in Nat : n = Len(ds) /\ DOMAIN ds = 1..n /\ \A k \in 1..n : ds[k] \in F
  BY ONLY ds \in Seq(F), LenProperties
<1>1. CASE ds = <<>>
  <2>1. t = <<>> /\ Len(ds) = 0
    BY <1>1 DEF RenderDropped
  <2>2. Plain(<<>>) /\ <<>> \in Seq({}) /\ Weights(<<>>) = <<>>
    BY DEF Plain, Weights
  <2>3. Opens(<<>>) = 0
    BY ONLY <2>2, FramedOpens DEF Framed
  <2> QED
    BY ONLY <2>1, <2>2, <2>3, TallyNone
<1>2. CASE ds # <<>>
  <2>1. PICK A, B, C : /\ A = {k \in 1..n : Bucket(ds[k]) = "security"}
                       /\ B = {k \in 1..n : Bucket(ds[k]) = "correctness"}
                       /\ C = {k \in 1..n : Bucket(ds[k]) = "nits"}
    OBVIOUS
  <2>2. /\ A \in SUBSET (1..n) /\ B \in SUBSET (1..n) /\ C \in SUBSET (1..n)
        /\ \A k \in 1..n : /\ k \in A \/ k \in B \/ k \in C
                          /\ ~(k \in A /\ k \in B) /\ ~(k \in A /\ k \in C) /\ ~(k \in B /\ k \in C)
    <3>1. \A k \in 1..n : Bucket(ds[k]) \in {"security", "correctness", "nits"}
      BY ONLY BucketIs
    <3> QED
      BY ONLY <2>1, <3>1
  <2>3. /\ Cardinality(A) \in Nat /\ Cardinality(B) \in Nat /\ Cardinality(C) \in Nat
        /\ Cardinality(A) + (Cardinality(B) + Cardinality(C)) = n
    BY ONLY <2>2, n \in Nat, ThreeParts
  <2>4. PICK a, b, c : a = EntriesAt(ds, A) /\ b = EntriesAt(ds, B) /\ c = EntriesAt(ds, C)
    OBVIOUS
  <2>5. /\ a \in Seq(F) /\ Len(a) = Cardinality(A) /\ b \in Seq(F) /\ Len(b) = Cardinality(B)
        /\ c \in Seq(F) /\ Len(c) = Cardinality(C)
    <3>1. A \in SUBSET (1..n) /\ B \in SUBSET (1..n) /\ C \in SUBSET (1..n)
      BY ONLY <2>1
    <3> QED
      <4>1. ListOf(ds, n, F)
        BY ONLY <1>0, n \in Nat DEF ListOf
      <4>2. /\ EntriesAt(ds, A) \in Seq(F) /\ Len(EntriesAt(ds, A)) = Cardinality(A)
        BY ONLY <3>1, <4>1, EntriesAre
      <4>3. /\ EntriesAt(ds, B) \in Seq(F) /\ Len(EntriesAt(ds, B)) = Cardinality(B)
        BY ONLY <3>1, <4>1, EntriesAre
      <4>4. /\ EntriesAt(ds, C) \in Seq(F) /\ Len(EntriesAt(ds, C)) = Cardinality(C)
        BY ONLY <3>1, <4>1, EntriesAre
      <4> QED
        BY ONLY <2>4, <4>2, <4>3, <4>4
  <2>6. PICK ra, rb, rc, h : /\ ra = RenderTopBucket(a) /\ rb = RenderTopBucket(b)
                             /\ rc = RenderNits(c, n > SectionItems) /\ h = <<<<"head">>>>
    OBVIOUS
  <2>7. t = ApplyCharacterCap(h \o ra \o rb \o rc)
    BY <1>0, <1>2, <2>1, <2>4, <2>6 DEF RenderDropped
  <2>8. /\ Tells(ra, F, Len(a)) /\ Plain(ra) /\ Tells(rb, F, Len(b)) /\ Plain(rb)
        /\ Tells(rc, F, Len(c)) /\ Framed(rc) /\ Tells(h, F, 0) /\ Plain(h)
    <3>1. Tells(h, F, 0)
      <4>1. PICK l : l = <<"head">>
        OBVIOUS
      <4>2. l \in {<<"head">>, <<"bucket">>, <<"open">>, <<"close">>, <<"section cut">>}
        BY ONLY <4>1
      <4>3. Tells(<<l>>, F, 0)
        BY ONLY <4>2, TellsMark
      <4> QED
        BY ONLY <2>6, <4>1, <4>3
    <3>2. Plain(h)
      <4>1. Plain(<<<<"head">>>>)
        BY ONLY PlainMark
      <4> QED
        BY ONLY <2>6, <4>1
    <3>3. (n > SectionItems) \in BOOLEAN
      OBVIOUS
    <3>4. Tells(ra, F, Len(a)) /\ Tells(rb, F, Len(b))
      BY ONLY <2>5, <2>6, TopTells
    <3>5. Plain(ra) /\ Plain(rb)
      BY ONLY <2>5, <2>6, TopPlain
    <3>6. Tells(rc, F, Len(c)) /\ Framed(rc)
      BY ONLY <2>5, <2>6, <3>3, NitsTell
    <3> QED
      BY ONLY <3>1, <3>2, <3>4, <3>5, <3>6
  <2>9. PICK x, y, z : x = h \o ra /\ y = x \o rb /\ z = y \o rc
    OBVIOUS
  <2>10. PICK la \in Nat, lb \in Nat, lc \in Nat : la = Len(a) /\ lb = Len(b) /\ lc = Len(c)
    BY ONLY <2>3, <2>5
  <2>11. Tells(z, F, 0 + la + lb + lc)
    <3>1. Tells(x, F, 0 + la)
      BY ONLY <2>8, <2>9, <2>10, 0 \in Nat, la \in Nat, TellsJoin
    <3>2. 0 + la \in Nat /\ 0 + la + lb \in Nat
      OBVIOUS
    <3>3. Tells(y, F, 0 + la + lb)
      BY ONLY <2>8, <2>9, <2>10, <3>1, <3>2, lb \in Nat, TellsJoin
    <3> QED
      BY ONLY <2>8, <2>9, <2>10, <3>2, <3>3, lc \in Nat, TellsJoin
  <2>12. Framed(z)
    <3>1. PICK L : L = LineSet(F)
      OBVIOUS
    <3>2. h \in Seq(L) /\ ra \in Seq(L) /\ rb \in Seq(L) /\ rc \in Seq(L)
      BY ONLY <2>8, <3>1 DEF Tells
    <3>3. x \in Seq(L) /\ y \in Seq(L)
      BY ONLY <2>9, <3>2, ConcatProperties
    <3>4. Plain(x)
      BY ONLY <2>8, <2>9, <3>2, PlainJoins
    <3>5. Plain(y)
      BY ONLY <2>8, <2>9, <3>2, <3>3, <3>4, PlainJoins
    <3> QED
      BY ONLY <2>8, <2>9, <3>2, <3>3, <3>5, FramedJoins
  <2>13. 0 + la + lb + lc = n
    BY ONLY <2>3, <2>5, <2>10
  <2>14. t = ApplyCharacterCap(z)
    BY ONLY <2>7, <2>9
  <2>15. Tells(z, F, n)
    BY ONLY <2>11, <2>13
  <2>16. Opens(t) = 0 /\ (Has(t, <<"section cut">>) \/ Tally(Weights(t)) = n)
    BY ONLY <2>12, <2>14, <2>15, CapTells
  <2> QED
    BY ONLY <1>0, <2>16
<1> QED
  BY <1>1, <1>2

(* A finding that is taken lies within one range of its file. *)
LEMMA TakenInRange ==
  ASSUME NEW f, f.file \in Nat, f.first \in Nat, f.last \in Nat, f.first <= f.last, Outcome(f) = "valid",
         NEW c, c = InlineComment(f), NEW from, c.start = 0 => from = c.line, c.start # 0 => from = c.start
  PROVE  \E r \in DOMAIN ChangedLines[c.path] : {from, c.line} \subseteq ChangedLines[c.path][r][1]..ChangedLines[c.path][r][2]
<1>1. f.file \in DOMAIN ChangedLines /\ FindingAccepted(f, ChangedLines[f.file])
  <2>1. ClassifyDropReason(f, ChangedLines[f.file]) # "valid"
    BY DEF ClassifyDropReason
  <2> QED
    BY <2>1 DEF Outcome
<1>2. PICK rs : rs = ChangedLines[f.file]
  OBVIOUS
<1>3. PICK r \in DOMAIN rs : rs[r][1] <= f.first /\ f.last <= rs[r][2]
  BY <1>1, <1>2 DEF FindingAccepted
<1>4. rs[r][1] \in Nat /\ rs[r][2] \in Nat
  <2>1. rs[r] \in ToSet(rs)
    BY DEF ToSet
  <2> QED
    BY <1>1, <1>2, <2>1, BodyAssumption
<1>5. c.path = f.file /\ c.line = f.last /\ c.start = (IF f.first = f.last THEN 0 ELSE f.first)
  BY DEF InlineComment
<1>6. from = f.first \/ from = f.last
  BY ONLY <1>5, c.start = 0 => from = c.line, c.start # 0 => from = c.start
<1>7. PICK a \in Nat, b \in Nat, x \in Nat, y \in Nat :
           a = rs[r][1] /\ b = rs[r][2] /\ x = f.first /\ y = f.last
  BY <1>4
<1>8. a <= x /\ x <= y /\ y <= b
  BY <1>3, <1>7
<1>9. x \in a..b /\ y \in a..b
  BY ONLY <1>8, a \in Nat, b \in Nat, x \in Nat, y \in Nat
<1>10. {from, c.line} \subseteq rs[r][1]..rs[r][2]
  BY ONLY <1>5, <1>6, <1>7, <1>9
<1>11. rs = ChangedLines[c.path]
  BY ONLY <1>2, <1>5
<1> QED
  BY ONLY <1>10, <1>11, r \in DOMAIN rs

InHunks(inline) ==
  \A k \in DOMAIN inline :
    LET c    == inline[k]
        from == IF c.start = 0 THEN c.line ELSE c.start IN
    \E r \in DOMAIN ChangedLines[c.path] :
      {from, c.line} \subseteq ChangedLines[c.path][r][1]..ChangedLines[c.path][r][2]

(* What classification makes of the findings: each is a comment inside a hunk *)
(* or has a place among the dropped ones.                                     *)
Placing(all, valid, keptAt, lostAt, inline, dropped, lost) ==
  /\ valid = {k \in DOMAIN all : Outcome(all[k]) = "valid"}
  /\ keptAt = Positions(valid) /\ lostAt = Positions(DOMAIN all \ valid)
  /\ inline = [k \in DOMAIN keptAt |-> InlineComment(all[keptAt[k]])]
  /\ dropped = [k \in DOMAIN lostAt |-> <<lostAt[k], Outcome(all[lostAt[k]])>>]
  /\ lost = EntriesAt(all, DOMAIN all \ valid)

Placed(all, keptAt, inline, dropped) ==
  /\ ToSet(keptAt) \cup {d[1] : d \in ToSet(dropped)} = DOMAIN all
  /\ Len(inline) + Len(dropped) = Len(all)
  /\ InHunks(inline)

LEMMA FindingsPlaced ==
  ASSUME NEW all \in Aggregates, NEW valid, NEW keptAt, NEW lostAt, NEW inline, NEW dropped, NEW lost,
         Placing(all, valid, keptAt, lostAt, inline, dropped, lost)
  PROVE  Placed(all, keptAt, inline, dropped) /\ lost \in Seq(ToSet(all)) /\ Len(lost) = Len(dropped)
<1>a. /\ valid = {k \in DOMAIN all : Outcome(all[k]) = "valid"}
      /\ keptAt = Positions(valid) /\ lostAt = Positions(DOMAIN all \ valid)
      /\ inline = [k \in DOMAIN keptAt |-> InlineComment(all[keptAt[k]])]
      /\ dropped = [k \in DOMAIN lostAt |-> <<lostAt[k], Outcome(all[lostAt[k]])>>]
      /\ lost = EntriesAt(all, DOMAIN all \ valid)
  BY DEF Placing
<1>b. keptAt = Positions(valid)
  BY <1>a
<1>c. inline = [k \in DOMAIN keptAt |-> InlineComment(all[keptAt[k]])]
  BY <1>a
<1>d. dropped = [k \in DOMAIN lostAt |-> <<lostAt[k], Outcome(all[lostAt[k]])>>]
  BY <1>a
<1>0. PICK n \in Nat : n = Len(all) /\ DOMAIN all = 1..n
  BY BodyAssumption
<1>1. \A k \in 1..n : /\ all[k] \in ToSet(all) /\ all[k].file \in Nat /\ all[k].first \in Nat /\ all[k].last \in Nat
                      /\ all[k].first <= all[k].last
  <2>1. \A k \in 1..n : all[k] \in ToSet(all)
    BY ONLY <1>0 DEF ToSet
  <2>2. \A f \in ToSet(all) : f.file \in Nat /\ f.first \in Nat /\ f.last \in Nat /\ f.first <= f.last
    BY BodyAssumption
  <2> QED
    BY ONLY <2>1, <2>2
<1>2. PICK gone : gone = (1..n) \ valid
  OBVIOUS
<1>3. valid \in SUBSET (1..n) /\ gone \in SUBSET (1..n)
  BY <1>0, <1>2, <1>a
<1>4. PICK v \in Nat, g \in Nat : v = Cardinality(valid) /\ g = Cardinality(gone)
  BY ONLY <1>3, n \in Nat, PositionsAre
<1>5. v + g = n
  <2>1. IsFiniteSet(1..n) /\ Cardinality(1..n) = n
    BY FS_Interval
  <2>2. IsFiniteSet(valid) /\ IsFiniteSet(gone)
    BY ONLY <1>3, <2>1, FS_Subset
  <2>3. Cardinality(valid \cup gone) = Cardinality(valid) + Cardinality(gone) - Cardinality(valid \cap gone)
    BY ONLY <2>2, FS_Union
  <2>4. valid \cup gone = 1..n /\ valid \cap gone = {} 
    BY ONLY <1>2, <1>3
  <2>5. Cardinality({}) = 0
    BY FS_EmptySet
  <2>6. Cardinality(valid \cup gone) = n /\ Cardinality(valid \cap gone) = 0
    BY ONLY <2>1, <2>4, <2>5
  <2>7. n = v + g - 0
    BY ONLY <1>4, <2>3, <2>6
  <2> QED
    BY ONLY <2>7, v \in Nat, g \in Nat, n \in Nat
<1>6. keptAt \in [1..v -> valid] /\ \A x \in valid : \E i \in 1..v : keptAt[i] = x
  BY ONLY <1>3, <1>4, <1>b, n \in Nat, PositionsAre
<1>7. lostAt \in [1..g -> gone] /\ \A x \in gone : \E i \in 1..g : lostAt[i] = x
  <2>1. lostAt = Positions(gone)
    BY <1>0, <1>2, <1>a
  <2> QED
    BY ONLY <1>3, <1>4, <2>1, n \in Nat, PositionsAre
<1>8. DOMAIN inline = 1..v /\ Len(inline) = v /\ \A k \in 1..v : inline[k] = InlineComment(all[keptAt[k]])
  BY ONLY <1>6, <1>c, v \in Nat
<1>9. /\ DOMAIN dropped = 1..g /\ Len(dropped) = g /\ \A k \in 1..g : dropped[k][1] = lostAt[k]
  BY ONLY <1>7, <1>d, g \in Nat
<1>10. ToSet(keptAt) = valid
  BY ONLY <1>6 DEF ToSet
<1>11. {d[1] : d \in ToSet(dropped)} = gone
  <2>1. ToSet(dropped) = {dropped[k] : k \in 1..g}
    BY ONLY <1>9 DEF ToSet
  <2>2. {d[1] : d \in ToSet(dropped)} = {lostAt[k] : k \in 1..g}
    BY ONLY <1>9, <2>1
  <2> QED
    BY ONLY <1>7, <2>2
<1>12. ToSet(keptAt) \cup {d[1] : d \in ToSet(dropped)} = DOMAIN all
  BY ONLY <1>0, <1>2, <1>3, <1>10, <1>11
<1>13. Len(inline) + Len(dropped) = Len(all)
  BY ONLY <1>0, <1>5, <1>8, <1>9
<1>14. ASSUME NEW k \in DOMAIN inline, NEW c, c = inline[k], NEW from, from = (IF c.start = 0 THEN c.line ELSE c.start)
       PROVE  \E r \in DOMAIN ChangedLines[c.path] :
                {from, c.line} \subseteq ChangedLines[c.path][r][1]..ChangedLines[c.path][r][2]
  <2>1. PICK f : f = all[keptAt[k]]
    OBVIOUS
  <2>2. k \in 1..v /\ c = InlineComment(f)
    BY ONLY <1>8, <1>14, <2>1
  <2>3. keptAt[k] \in valid
    BY ONLY <1>6, <2>2
  <2>4. keptAt[k] \in 1..n
    BY ONLY <1>3, <2>3
  <2>5. f.file \in Nat /\ f.first \in Nat /\ f.last \in Nat /\ f.first <= f.last
    BY ONLY <1>1, <2>1, <2>4
  <2>6. Outcome(f) = "valid"
    BY <1>a, <2>1, <2>3
  <2> QED
    <3>1. c = InlineComment(f)
      BY ONLY <2>2
    <3>2. (c.start = 0 => from = c.line) /\ (c.start # 0 => from = c.start)
      BY ONLY <1>14
    <3>3. f.file \in Nat /\ f.first \in Nat /\ f.last \in Nat /\ f.first <= f.last /\ Outcome(f) = "valid"
      BY ONLY <2>5, <2>6
    <3> QED
      BY ONLY <3>1, <3>2, <3>3, TakenInRange
<1>15. lost \in Seq(ToSet(all)) /\ Len(lost) = g
  <2>1. lost = EntriesAt(all, gone)
    BY <1>0, <1>2, <1>a
  <2>2. \A k \in 1..n : all[k] \in ToSet(all)
    BY ONLY <1>1
  <2>3. PICK F : F = ToSet(all)
    OBVIOUS
  <2>4. ListOf(all, n, F)
    BY ONLY <2>2, <2>3, n \in Nat DEF ListOf
  <2>5. EntriesAt(all, gone) \in Seq(F) /\ Len(EntriesAt(all, gone)) = Cardinality(gone)
    <3>1. gone \in SUBSET (1..n)
      BY ONLY <1>3
    <3> QED
      BY ONLY <3>1, <2>4, EntriesAre
  <2> QED
    BY ONLY <1>4, <2>1, <2>3, <2>5
<1>16. InHunks(inline)
  BY ONLY <1>14 DEF InHunks
<1> QED
  BY ONLY <1>9, <1>12, <1>13, <1>15, <1>16 DEF Placed

-----------------------------------------------------------------------------
TextLines == {"tldr", "cap notice", "note", "table", "row", "table omitted", "no findings", "table cut", "config",
              "issues", "issue", "reviewers", "reviewer", "footer", "marker"}

LEMMA TextHasLines ==
  /\ "tldr" \in TextLines /\ "cap notice" \in TextLines /\ "note" \in TextLines /\ "table" \in TextLines
  /\ "row" \in TextLines /\ "table omitted" \in TextLines /\ "no findings" \in TextLines /\ "table cut" \in TextLines
  /\ "config" \in TextLines /\ "issues" \in TextLines /\ "issue" \in TextLines /\ "reviewers" \in TextLines
  /\ "reviewer" \in TextLines /\ "footer" \in TextLines /\ "marker" \in TextLines
BY DEF TextLines

Listed(s) == Len(s) \in Nat /\ DOMAIN s = 1..Len(s)

(* The text has a block of so many table rows. *)
RowsIn(t, n) == \E off \in Nat : \A k \in 1..n : off + k \in DOMAIN t /\ t[off + k] = "row"

LEMMA ShortLists ==
  ASSUME NEW W, NEW l \in W
  PROVE  <<l>> \in Seq(W) /\ <<>> \in Seq(W) /\ \A n \in Nat : [k \in 1..n |-> l] \in Seq(W)
OBVIOUS

LEMMA JoinedText ==
  ASSUME NEW a \in Seq(TextLines), NEW b \in Seq(TextLines), NEW t, t = a \o b
  PROVE  /\ t \in Seq(TextLines)
         /\ \A x : Has(a, x) \/ Has(b, x) => Has(t, x)
         /\ \A n \in Nat : RowsIn(a, n) \/ RowsIn(b, n) => RowsIn(t, n)
<1>1. PICK m \in Nat, l \in Nat : m = Len(a) /\ l = Len(b)
  BY LenProperties
<1>2. /\ t \in Seq(TextLines) /\ Len(t) = m + l /\ DOMAIN t = 1..(m + l) /\ DOMAIN a = 1..m /\ DOMAIN b = 1..l
      /\ (\A k \in 1..m : t[k] = a[k])
  <2>1. t \in Seq(TextLines) /\ Len(t) = Len(a) + Len(b) /\ (\A k \in 1..Len(a) : t[k] = a[k])
    BY ConcatProperties
  <2>2. DOMAIN t = 1..Len(t) /\ DOMAIN a = 1..Len(a) /\ DOMAIN b = 1..Len(b)
    BY ONLY <2>1, a \in Seq(TextLines), b \in Seq(TextLines), LenProperties
  <2> QED
    BY ONLY <1>1, <2>1, <2>2
<1>3. \A k \in 1..l : m + k \in DOMAIN t /\ t[m + k] = b[k]
  <2>1. SUFFICES ASSUME NEW k \in 1..l PROVE m + k \in DOMAIN t /\ t[m + k] = b[k]
    OBVIOUS
  <2>2. m + k \in 1..(m + l) /\ m + k > m /\ m + k - m = k
    BY ONLY m \in Nat, l \in Nat, k \in 1..l
  <2>3. t[m + k] = b[m + k - m]
    BY <1>1, <2>2, ConcatProperties
  <2> QED
    BY ONLY <1>2, <2>2, <2>3
<1>4. \A k \in 1..m : k \in DOMAIN t
  BY ONLY <1>2, m \in Nat, l \in Nat
<1>5. ASSUME NEW x, Has(a, x) \/ Has(b, x) PROVE Has(t, x)
  <2>1. (\E k \in 1..m : a[k] = x) \/ (\E k \in 1..l : b[k] = x)
    BY ONLY <1>2, <1>5 DEF Has, ToSet
  <2>2. \E k \in DOMAIN t : t[k] = x
    BY ONLY <1>2, <1>3, <1>4, <2>1
  <2> QED
    BY ONLY <2>2 DEF Has, ToSet
<1>6. ASSUME NEW n \in Nat, RowsIn(a, n) PROVE RowsIn(t, n)
  <2>1. PICK off \in Nat : \A k \in 1..n : off + k \in DOMAIN a /\ a[off + k] = "row"
    BY <1>6 DEF RowsIn
  <2>2. \A k \in 1..n : off + k \in DOMAIN t /\ t[off + k] = "row"
    BY ONLY <1>2, <1>4, <2>1
  <2> QED
    BY ONLY <2>2, off \in Nat DEF RowsIn
<1>7. ASSUME NEW n \in Nat, RowsIn(b, n) PROVE RowsIn(t, n)
  <2>1. PICK off \in Nat : \A k \in 1..n : off + k \in DOMAIN b /\ b[off + k] = "row"
    BY <1>7 DEF RowsIn
  <2>2. PICK big \in Nat : big = m + off
    OBVIOUS
  <2>3. \A k \in 1..n : m + (off + k) = big + k
    BY ONLY <2>2, m \in Nat, off \in Nat, n \in Nat
  <2>4. \A k \in 1..n : off + k \in 1..l /\ b[off + k] = "row"
    BY ONLY <1>2, <2>1
  <2>5. \A k \in 1..n : m + (off + k) \in DOMAIN t /\ t[m + (off + k)] = "row"
    BY ONLY <1>3, <2>4
  <2>6. \A k \in 1..n : big + k \in DOMAIN t /\ t[big + k] = "row"
    BY ONLY <2>3, <2>5
  <2> QED
    BY ONLY <2>6, big \in Nat DEF RowsIn
<1> QED
  BY ONLY <1>2, <1>5, <1>6, <1>7

LEMMA RowsCounted ==
  ASSUME NEW t \in Seq(TextLines), NEW n \in Nat, RowsIn(t, n)
  PROVE  n <= Cardinality(LinesLike(t, "row")) /\ Cardinality(LinesLike(t, "row")) \in Nat
<1>1. PICK off \in Nat : \A k \in 1..n : off + k \in DOMAIN t /\ t[off + k] = "row"
  BY DEF RowsIn
<1>2. PICK T : T = LinesLike(t, "row")
  OBVIOUS
<1>3. IsFiniteSet(T)
  <2>1. PICK l \in Nat : DOMAIN t = 1..l
    BY ONLY t \in Seq(TextLines), LenProperties
  <2>2. T \in SUBSET (1..l)
    BY ONLY <1>2, <2>1 DEF LinesLike
  <2> QED
    <3>1. IsFiniteSet(1..l)
      BY ONLY l \in Nat, FS_Interval
    <3> QED
      BY ONLY <2>2, <3>1, FS_Subset
<1>4. Cardinality(T) \in Nat
  BY ONLY <1>3, FS_CardinalityType
<1>5. PICK h : h = [k \in 1..n |-> off + k]
  OBVIOUS
<1>6. h \in Injection(1..n, T)
  <2>1. \A k \in 1..n : off + k \in T
    BY ONLY <1>1, <1>2 DEF LinesLike
  <2>2. \A j, k \in 1..n : off + j = off + k => j = k
    BY ONLY off \in Nat, n \in Nat
  <2> QED
    BY ONLY <1>5, <2>1, <2>2 DEF Injection, IsInjective
<1>7. IsFiniteSet(1..n) /\ Cardinality(1..n) = n
  BY FS_Interval
<1>8. Cardinality(1..n) <= Cardinality(T)
  BY ONLY <1>3, <1>6, FS_Injection
<1> QED
  BY ONLY <1>2, <1>4, <1>7, <1>8

LEMMA LinesAre ==
  ASSUME NEW flag \in BOOLEAN, NEW l \in TextLines
  PROVE  Lines(flag, l) \in Seq(TextLines) /\ (flag => Has(Lines(flag, l), l))
<1>1. CASE flag
  <2>1. Lines(flag, l) = <<l>>
    BY <1>1 DEF Lines
  <2>2. <<l>> \in Seq(TextLines) /\ Has(<<l>>, l)
    <3>1. <<l>> \in Seq(TextLines)
      BY ONLY l \in TextLines, ShortLists
    <3>2. 1 \in DOMAIN <<l>> /\ <<l>>[1] = l
      OBVIOUS
    <3>3. Has(<<l>>, l)
      BY ONLY <3>2 DEF Has, ToSet
    <3> QED
      BY ONLY <3>1, <3>3
  <2> QED
    BY ONLY <2>1, <2>2
<1>2. CASE ~flag
  <2>1. Lines(flag, l) = <<>>
    BY <1>2 DEF Lines
  <2> QED
    <3>1. <<>> \in Seq(TextLines)
      BY ONLY l \in TextLines, ShortLists
    <3> QED
      BY ONLY <1>2, <2>1, <3>1
<1> QED
  BY <1>1, <1>2

LEMMA HeadedList ==
  ASSUME NEW h \in TextLines, NEW e \in TextLines, NEW n \in Nat, NEW t, t = <<h>> \o [k \in 1..n |-> e]
  PROVE  t \in Seq(TextLines) /\ (e = "row" => RowsIn(t, n))
<1>1. PICK a, b : a = <<h>> /\ b = [k \in 1..n |-> e]
  OBVIOUS
<1>2. a \in Seq(TextLines) /\ b \in Seq(TextLines)
  <2>1. <<h>> \in Seq(TextLines)
    BY ONLY h \in TextLines, ShortLists
  <2>2. [k \in 1..n |-> e] \in Seq(TextLines)
    BY ONLY e \in TextLines, n \in Nat, ShortLists
  <2> QED
    BY ONLY <1>1, <2>1, <2>2
<1>3. t = a \o b
  BY <1>1
<1>4. e = "row" => RowsIn(b, n)
  <2>1. 0 \in Nat /\ \A k \in 1..n : 0 + k = k
    OBVIOUS
  <2>2. \A k \in 1..n : k \in DOMAIN b /\ b[k] = e
    BY <1>1
  <2>3. e = "row" => \A k \in 1..n : 0 + k \in DOMAIN b /\ b[0 + k] = "row"
    BY ONLY <2>1, <2>2
  <2> QED
    BY ONLY <2>1, <2>3 DEF RowsIn
<1>5. t \in Seq(TextLines) /\ \A m \in Nat : RowsIn(b, m) => RowsIn(t, m)
  BY ONLY <1>2, <1>3, JoinedText
<1> QED
  BY ONLY <1>4, <1>5, n \in Nat

WalkWell(w) ==
  /\ w = [rows |-> w.rows, note |-> w.note, truncated |-> w.truncated, config |-> w.config, linked |-> w.linked,
          reviewers |-> w.reviewers, event |-> w.event]
  /\ Listed(w.rows) /\ Listed(w.reviewers) /\ w.linked \in Nat
  /\ w.truncated \in BOOLEAN /\ w.config \in BOOLEAN

(* What a text that is put together from a walkthrough says. *)
Says(t, w, cut, n) ==
  /\ t \in Seq(TextLines)
  /\ w.truncated => Has(t, "cap notice")
  /\ w.note \notin {"none", "empty"} => Has(t, "note")
  /\ cut => Has(t, "table cut")
  /\ RowsIn(t, n)

LEMMA NoRows == \A t : RowsIn(t, 0)
<1>1. 0 \in Nat /\ 1..0 = {}
  OBVIOUS
<1> QED
  BY ONLY <1>1 DEF RowsIn

LEMMA Sections ==
  ASSUME NEW w, WalkWell(w)
  PROVE  LinkedIssuesMd(w.linked) \in Seq(TextLines) /\ SuggestedReviewersMd(w.reviewers) \in Seq(TextLines)
<1>0. <<>> \in Seq(TextLines)
  BY ONLY TextHasLines, ShortLists
<1>1. LinkedIssuesMd(w.linked) \in Seq(TextLines)
  <2>1. PICK n \in Nat : n = w.linked
    BY DEF WalkWell
  <2>2. PICK t : t = <<"issues">> \o [k \in 1..n |-> "issue"]
    OBVIOUS
  <2>3. t \in Seq(TextLines)
    BY ONLY <2>2, n \in Nat, TextHasLines, HeadedList
  <2>4. LinkedIssuesMd(n) \in {<<>>, t}
    BY ONLY <2>2 DEF LinkedIssuesMd
  <2> QED
    BY ONLY <1>0, <2>1, <2>3, <2>4
<1>2. SuggestedReviewersMd(w.reviewers) \in Seq(TextLines)
  <2>1. PICK n \in Nat : DOMAIN w.reviewers = 1..n
    BY DEF WalkWell, Listed
  <2>2. PICK t : t = <<"reviewers">> \o [k \in 1..n |-> "reviewer"]
    OBVIOUS
  <2>3. t \in Seq(TextLines)
    BY ONLY <2>2, n \in Nat, TextHasLines, HeadedList
  <2>4. SuggestedReviewersMd(w.reviewers) \in {<<>>, t}
    BY ONLY <2>1, <2>2 DEF SuggestedReviewersMd
  <2> QED
    BY ONLY <1>0, <2>3, <2>4
<1> QED
  BY ONLY <1>1, <1>2

LEMMA AssembleSays ==
  ASSUME NEW w, WalkWell(w), NEW rs, Listed(rs), NEW cut \in BOOLEAN
  PROVE  Says(Assemble(w, rs, cut), w, cut, Len(rs))
<1>0. PICK n \in Nat : n = Len(rs) /\ DOMAIN rs = 1..n
  BY DEF Listed
<1>1. PICK g1, g2, g3, g4, g5, g6, g7, g8 :
        /\ g1 = <<"tldr">> /\ g2 = Lines(w.truncated, "cap notice") /\ g3 = Lines(w.note \notin {"none", "empty"}, "note")
        /\ g4 = (IF rs # <<>> THEN <<"table">> \o [k \in DOMAIN rs |-> "row"]
                 ELSE IF w.rows # <<>> THEN <<"table omitted">>
                 ELSE Lines(~cut, "no findings"))
        /\ g5 = Lines(cut, "table cut") /\ g6 = Lines(w.config, "config")
        /\ g7 = LinkedIssuesMd(w.linked) /\ g8 = SuggestedReviewersMd(w.reviewers)
  OBVIOUS
<1>2. Assemble(w, rs, cut) = g1 \o g2 \o g3 \o g4 \o g5 \o g6 \o g7 \o g8
  BY ONLY <1>1 DEF Assemble
<1>3. w.truncated \in BOOLEAN /\ w.config \in BOOLEAN /\ (w.note \notin {"none", "empty"}) \in BOOLEAN
  BY DEF WalkWell
<1>4. g1 \in Seq(TextLines)
  BY ONLY <1>1, TextHasLines, ShortLists
<1>5. g2 \in Seq(TextLines) /\ (w.truncated => Has(g2, "cap notice"))
  BY ONLY <1>1, <1>3, TextHasLines, LinesAre
<1>6. g3 \in Seq(TextLines) /\ (w.note \notin {"none", "empty"} => Has(g3, "note"))
  <2>1. PICK b \in BOOLEAN : b = (w.note \notin {"none", "empty"})
    OBVIOUS
  <2>2. Lines(b, "note") \in Seq(TextLines) /\ (b => Has(Lines(b, "note"), "note"))
    BY ONLY b \in BOOLEAN, TextHasLines, LinesAre
  <2>3. g3 = Lines(b, "note")
    BY ONLY <1>1, <2>1
  <2> QED
    BY ONLY <2>1, <2>2, <2>3
<1>7. g4 \in Seq(TextLines) /\ RowsIn(g4, n)
  <2>1. CASE rs # <<>>
    <3>1. g4 = <<"table">> \o [k \in 1..n |-> "row"]
      BY ONLY <1>0, <1>1, <2>1
    <3> QED
      BY ONLY <3>1, n \in Nat, TextHasLines, HeadedList
  <2>2. CASE rs = <<>>
    <3>1. n = 0
      BY <1>0, <2>2
    <3>2. <<"table omitted">> \in Seq(TextLines)
      BY ONLY TextHasLines, ShortLists
    <3>3. Lines(~cut, "no findings") \in Seq(TextLines)
      <4>1. PICK b \in BOOLEAN : b = ~cut
        OBVIOUS
      <4>2. Lines(b, "no findings") \in Seq(TextLines)
        BY ONLY b \in BOOLEAN, TextHasLines, LinesAre
      <4> QED
        BY ONLY <4>1, <4>2
    <3>4. g4 \in {<<"table omitted">>, Lines(~cut, "no findings")}
      BY ONLY <1>1, <2>2
    <3> QED
      BY ONLY <3>1, <3>2, <3>3, <3>4, NoRows
  <2> QED
    BY <2>1, <2>2
<1>8. g5 \in Seq(TextLines) /\ (cut => Has(g5, "table cut"))
  BY ONLY <1>1, cut \in BOOLEAN, TextHasLines, LinesAre
<1>9. g6 \in Seq(TextLines)
  BY ONLY <1>1, <1>3, TextHasLines, LinesAre
<1>10. g7 \in Seq(TextLines) /\ g8 \in Seq(TextLines)
  BY ONLY <1>1, WalkWell(w), Sections
<1>11. PICK q2, q3, q4, q5, q6, q7, q8 :
         /\ q2 = g1 \o g2 /\ q3 = q2 \o g3 /\ q4 = q3 \o g4 /\ q5 = q4 \o g5 /\ q6 = q5 \o g6 /\ q7 = q6 \o g7 /\ q8 = q7 \o g8
  OBVIOUS
<1>12. PICK cap, note, tc : cap = "cap notice" /\ note = "note" /\ tc = "table cut"
  OBVIOUS
<1> DEFINE Keeps(a, b) == b \in Seq(TextLines) /\ (\A x : Has(a, x) => Has(b, x)) /\ (\A m \in Nat : RowsIn(a, m) => RowsIn(b, m))
<1>13. q2 \in Seq(TextLines) /\ \A x : Has(g2, x) => Has(q2, x)
  BY ONLY <1>4, <1>5, <1>11, JoinedText
<1>14. Keeps(q2, q3) /\ \A x : Has(g3, x) => Has(q3, x)
  BY ONLY <1>6, <1>11, <1>13, JoinedText
<1>15. Keeps(q3, q4) /\ \A m \in Nat : RowsIn(g4, m) => RowsIn(q4, m)
  BY ONLY <1>7, <1>11, <1>14, JoinedText
<1>16. Keeps(q4, q5) /\ \A x : Has(g5, x) => Has(q5, x)
  BY ONLY <1>8, <1>11, <1>15, JoinedText
<1>17. Keeps(q5, q6)
  BY ONLY <1>9, <1>11, <1>16, JoinedText
<1>18. Keeps(q6, q7)
  BY ONLY <1>10, <1>11, <1>17, JoinedText
<1>19. Keeps(q7, q8)
  BY ONLY <1>10, <1>11, <1>18, JoinedText
<1>20. w.truncated => Has(q8, "cap notice")
  BY ONLY <1>5, <1>13, <1>14, <1>15, <1>16, <1>17, <1>18, <1>19
<1>21. w.note \notin {"none", "empty"} => Has(q8, "note")
  BY ONLY <1>6, <1>14, <1>15, <1>16, <1>17, <1>18, <1>19
<1>22. cut => Has(q8, "table cut")
  BY ONLY <1>8, <1>16, <1>17, <1>18, <1>19
<1>23. RowsIn(q8, n)
  BY ONLY <1>7, <1>15, <1>16, <1>17, <1>18, <1>19, n \in Nat
<1>24. q8 = Assemble(w, rs, cut)
  BY ONLY <1>2, <1>11
<1>25. q8 \in Seq(TextLines)
  BY ONLY <1>19
<1> QED
  BY ONLY <1>0, <1>20, <1>21, <1>22, <1>23, <1>24, <1>25 DEF Says

(* However it is cut, the text says that it is, and keeps the notices. *)
LEMMA RenderSays ==
  ASSUME NEW w, WalkWell(w)
  PROVE  LET t == RenderWalkthrough(w) IN Says(t, w, TRUE, 0) \/ Says(t, w, FALSE, Len(w.rows))
<1>0. PICK n \in Nat : n = Len(w.rows) /\ DOMAIN w.rows = 1..n
  BY DEF WalkWell, Listed
<1>1. PICK with, fits, full :
        /\ full = Assemble(w, w.rows, FALSE)
        /\ with = [m \in 0..(n - 1) |-> Assemble(w, SubSeq(w.rows, 1, m), TRUE)]
        /\ fits = {m \in 0..(n - 1) : Len(Assemble(w, SubSeq(w.rows, 1, m), TRUE)) <= BodySize}
  OBVIOUS
<1>2. PICK bare : bare = [w EXCEPT !.rows = <<>>, !.config = FALSE, !.linked = 0, !.reviewers = <<>>]
  OBVIOUS
<1>b. bare = [rows |-> <<>>, note |-> w.note, truncated |-> w.truncated, config |-> FALSE, linked |-> 0,
              reviewers |-> <<>>, event |-> w.event]
  <2>1. PICK ro, no, tr, co, li, re, ev :
             w = [rows |-> ro, note |-> no, truncated |-> tr, config |-> co, linked |-> li, reviewers |-> re, event |-> ev]
    BY DEF WalkWell
  <2>2. w.note = no /\ w.truncated = tr /\ w.event = ev
    BY <2>1
  <2> QED
    BY ONLY <1>2, <2>1, <2>2
<1>3. PICK t : t = RenderWalkthrough(w)
  OBVIOUS
<1>4. CASE Len(full) <= BodySize
  <2>1. t = full
    BY ONLY <1>1, <1>3, <1>4 DEF RenderWalkthrough
  <2>2. Listed(w.rows)
    BY DEF WalkWell
  <2>3. Says(full, w, FALSE, Len(w.rows))
    BY ONLY <1>1, <2>2, WalkWell(w), AssembleSays
  <2> QED
    BY ONLY <1>3, <2>1, <2>3
<1>5. CASE ~(Len(full) <= BodySize) /\ fits # {}
  <2>1. PICK m \in fits : t = Assemble(w, SubSeq(w.rows, 1, m), TRUE)
    <3>1. \E m \in fits : \A k \in fits : k <= m
      <4>1. PICK R : R = {x \in fits \X fits : x[1] > x[2]}
        OBVIOUS
      <4>2. fits \in SUBSET (0..(n - 1)) /\ \A x \in fits : x \in Nat
        <5>1. fits \in SUBSET (0..(n - 1))
          BY ONLY <1>1
        <5>2. \A x \in 0..(n - 1) : x \in Nat
          BY ONLY n \in Nat
        <5> QED
          BY ONLY <5>1, <5>2
      <4>3. IsFiniteSet(fits)
        <5>1. 0 \in Int /\ n - 1 \in Int
          BY ONLY n \in Nat
        <5>2. IsFiniteSet(0..(n - 1))
          BY ONLY <5>1, FS_Interval
        <5> QED
          BY ONLY <4>2, <5>2, FS_Subset
      <4>4. \A x, y \in fits : <<x, y>> \in R <=> x > y
        BY ONLY <4>1
      <4>5. StrictOrder(R, fits)
        BY ONLY <4>2, <4>4 DEF StrictOrder
      <4>6. PICK x \in fits : \A y \in fits \ {x} : <<x, y>> \in R
        BY ONLY <1>5, <4>3, <4>5, FirstBy
      <4>7. \A y \in fits : y <= x
        <5>1. ASSUME NEW y \in fits PROVE y <= x
          <6>1. x \in Nat /\ y \in Nat
            BY ONLY <4>2, x \in fits, y \in fits
          <6>2. y = x \/ x > y
            BY ONLY <4>4, <4>6, x \in fits, y \in fits
          <6> QED
            BY ONLY <6>1, <6>2
        <5> QED
          BY ONLY <5>1
      <4> QED
        BY ONLY <4>7, x \in fits
    <3>2. PICK m : m = CHOOSE k \in fits : \A j \in fits : j <= k
      OBVIOUS
    <3>3. m \in fits
      BY ONLY <3>1, <3>2
    <3>4. fits = {k \in 0..(Len(w.rows) - 1) : Len(Assemble(w, SubSeq(w.rows, 1, k), TRUE)) <= BodySize}
      BY ONLY <1>0, <1>1
    <3>5. t = Assemble(w, SubSeq(w.rows, 1, m), TRUE)
      BY ONLY <1>1, <1>3, <1>5, <3>2, <3>4 DEF RenderWalkthrough
    <3> QED
      BY ONLY <3>3, <3>5
  <2>2. m \in Nat /\ m <= n
    BY ONLY <1>1, n \in Nat, m \in fits
  <2>3. Listed(SubSeq(w.rows, 1, m))
    <3>1. PICK s, S : s = SubSeq(w.rows, 1, m) /\ S = {w.rows[k] : k \in 1..n}
      OBVIOUS
    <3>2. \A k \in 1..m : w.rows[k] \in S
      <4>1. \A k \in 1..m : k \in 1..n
        BY ONLY <2>2, n \in Nat
      <4> QED
        BY ONLY <3>1, <4>1
    <3>3. s \in Seq(S) /\ Len(s) = (IF 1 <= m THEN m - 1 + 1 ELSE 0)
      <4>1. 1 \in Int /\ m \in Int
        BY ONLY <2>2
      <4> QED
        BY ONLY <3>1, <3>2, <4>1, SubSeqProperties
    <3>4. Len(s) \in Nat /\ DOMAIN s = 1..Len(s)
      BY ONLY <3>3, LenProperties
    <3> QED
      BY ONLY <3>1, <3>4 DEF Listed
  <2>4. Says(t, w, TRUE, Len(SubSeq(w.rows, 1, m)))
    BY ONLY <2>1, <2>3, WalkWell(w), AssembleSays
  <2>5. Says(t, w, TRUE, 0)
    BY ONLY <2>4, NoRows DEF Says
  <2> QED
    BY ONLY <1>3, <2>5
<1>6. CASE ~(Len(full) <= BodySize) /\ fits = {}
  <2>1. fits = {k \in 0..(Len(w.rows) - 1) : Len(Assemble(w, SubSeq(w.rows, 1, k), TRUE)) <= BodySize}
    BY ONLY <1>0, <1>1
  <2>2. t = Assemble(bare, <<>>, TRUE)
    BY ONLY <1>1, <1>2, <1>3, <1>6, <2>1 DEF RenderWalkthrough
  <2>3. Listed(<<>>) /\ Len(<<>>) = 0
    BY DEF Listed
  <2>4. bare.truncated = w.truncated /\ bare.note = w.note
    BY ONLY <1>b
  <2>5. WalkWell(bare)
    <3>1. bare.rows = <<>> /\ bare.reviewers = <<>> /\ bare.linked = 0 /\ bare.config = FALSE
      BY ONLY <1>b
    <3>2. bare.truncated \in BOOLEAN
      BY <2>4 DEF WalkWell
    <3>3. Listed(bare.rows) /\ Listed(bare.reviewers) /\ bare.linked \in Nat /\ bare.config \in BOOLEAN
      <4>1. Listed(bare.rows)
        BY ONLY <2>3, <3>1, Zenon
      <4>2. Listed(bare.reviewers)
        BY ONLY <2>3, <3>1, Zenon
      <4>3. bare.linked \in Nat
        BY ONLY <3>1, SMT
      <4>4. bare.config \in BOOLEAN
        BY ONLY <3>1, Zenon
      <4> QED
        BY ONLY <4>1, <4>2, <4>3, <4>4
    <3>4. bare = [rows |-> bare.rows, note |-> bare.note, truncated |-> bare.truncated, config |-> bare.config,
                  linked |-> bare.linked, reviewers |-> bare.reviewers, event |-> bare.event]
      BY ONLY <1>b
    <3> QED
      BY ONLY <3>2, <3>3, <3>4 DEF WalkWell
  <2>6. Says(t, bare, TRUE, 0)
    <3>1. Says(Assemble(bare, <<>>, TRUE), bare, TRUE, Len(<<>>))
      BY ONLY <2>3, <2>5, AssembleSays
    <3> QED
      BY ONLY <2>2, <2>3, <3>1
  <2>7. Says(t, w, TRUE, 0)
    BY ONLY <2>4, <2>6 DEF Says
  <2> QED
    BY ONLY <1>3, <2>7
<1> QED
  BY <1>4, <1>5, <1>6

LEMMA BodySays ==
  ASSUME NEW w, WalkWell(w), NEW arb \in BOOLEAN, NEW md, md = BuildReviewBody(w, arb)
  PROVE  /\ w.truncated => Has(md, "cap notice")
         /\ w.note \notin {"none", "empty"} => Has(md, "note")
         /\ Cardinality(LinesLike(md, "row")) < Len(w.rows) => Has(md, "table cut")
<1>1. PICK t, f, m : t = RenderWalkthrough(w) /\ f = Lines(arb, "footer") /\ m = <<"marker">>
  OBVIOUS
<1>2. f \in Seq(TextLines) /\ m \in Seq(TextLines)
  <2>1. f \in Seq(TextLines)
    BY ONLY <1>1, arb \in BOOLEAN, TextHasLines, LinesAre
  <2>2. m \in Seq(TextLines)
    BY ONLY <1>1, TextHasLines, ShortLists
  <2> QED
    BY ONLY <2>1, <2>2
<1>3. Says(t, w, TRUE, 0) \/ Says(t, w, FALSE, Len(w.rows))
  BY ONLY <1>1, WalkWell(w), RenderSays
<1>4. /\ t \in Seq(TextLines) /\ (w.truncated => Has(t, "cap notice")) /\ (w.note \notin {"none", "empty"} => Has(t, "note"))
      /\ Has(t, "table cut") \/ RowsIn(t, Len(w.rows))
  BY ONLY <1>3 DEF Says
<1>5. PICK u : u = t \o f
  OBVIOUS
<1>6. md = u \o m
  <2>1. u \in Seq(TextLines)
    BY ONLY <1>2, <1>4, <1>5, JoinedText
  <2>2. md = Append(u, "marker")
    BY ONLY <1>1, <1>5, md = BuildReviewBody(w, arb) DEF BuildReviewBody, RenderForPost
  <2> QED
    BY ONLY <1>1, <2>1, <2>2, TextHasLines, AppendIsConcat
<1>7. u \in Seq(TextLines) /\ (\A x : Has(t, x) => Has(u, x)) /\ (\A n \in Nat : RowsIn(t, n) => RowsIn(u, n))
  BY ONLY <1>2, <1>4, <1>5, JoinedText
<1>8. md \in Seq(TextLines) /\ (\A x : Has(u, x) => Has(md, x)) /\ (\A n \in Nat : RowsIn(u, n) => RowsIn(md, n))
  BY ONLY <1>2, <1>6, <1>7, JoinedText
<1>9. Len(w.rows) \in Nat
  BY DEF WalkWell, Listed
<1>10. RowsIn(t, Len(w.rows)) => ~(Cardinality(LinesLike(md, "row")) < Len(w.rows))
  <2>1. SUFFICES ASSUME RowsIn(t, Len(w.rows)) PROVE ~(Cardinality(LinesLike(md, "row")) < Len(w.rows))
    OBVIOUS
  <2>2. RowsIn(md, Len(w.rows))
    BY ONLY <1>7, <1>8, <1>9, <2>1
  <2>3. PICK n \in Nat : n = Len(w.rows)
    BY ONLY <1>9
  <2>4. n <= Cardinality(LinesLike(md, "row")) /\ Cardinality(LinesLike(md, "row")) \in Nat
    BY ONLY <1>8, <2>2, <2>3, n \in Nat, RowsCounted
  <2> QED
    BY ONLY <2>3, <2>4, n \in Nat
<1> QED
  BY ONLY <1>4, <1>7, <1>8, <1>10

(* An order by a measure, greatest first, and by number where it is equal. *)
LEMMA ByMeasure ==
  ASSUME NEW S, S \subseteq Nat, NEW v, \A x \in S : v[x] \in Nat, NEW R, R \subseteq S \X S,
         \A x, y \in S : <<x, y>> \in R <=> v[x] > v[y] \/ (v[x] = v[y] /\ x < y)
  PROVE  StrictOrder(R, S)
<1>1. ASSUME NEW x \in S, NEW y \in S PROVE x = y \/ <<x, y>> \in R \/ <<y, x>> \in R
  <2>1. x \in Nat /\ y \in Nat /\ v[x] \in Nat /\ v[y] \in Nat
    OBVIOUS
  <2> QED
    BY <2>1
<1>2. ASSUME NEW x \in S, NEW y \in S, NEW z \in S, <<x, y>> \in R, <<y, z>> \in R PROVE <<x, z>> \in R
  <2>1. x \in Nat /\ y \in Nat /\ z \in Nat /\ v[x] \in Nat /\ v[y] \in Nat /\ v[z] \in Nat
    OBVIOUS
  <2> QED
    BY <1>2, <2>1
<1>3. ASSUME NEW x \in S PROVE <<x, x>> \notin R
  <2>1. x \in Nat /\ v[x] \in Nat
    OBVIOUS
  <2> QED
    BY <2>1
<1> QED
  BY ONLY <1>1, <1>2, <1>3 DEF StrictOrder

Owners == UNION {r.owners : r \in OwnerRules}

LEMMA PointsAre == \A o : Points(o) \in Nat
<1>1. IsFiniteSet(RuleFiles \X OwnerRules)
  BY BodyAssumption, FS_Product
<1>2. ASSUME NEW o PROVE Points(o) \in Nat
  <2>1. PICK T : T = {x \in RuleFiles \X OwnerRules : MatchesCodeownersGlob(x[2].pat, x[1]) /\ o \in x[2].owners}
    OBVIOUS
  <2>2. T \in SUBSET (RuleFiles \X OwnerRules)
    BY ONLY <2>1
  <2>3. Cardinality(T) \in Nat
    BY ONLY <1>1, <2>2, FS_Subset, FS_CardinalityType
  <2> QED
    BY ONLY <2>1, <2>3 DEF Points
<1> QED
  BY ONLY <1>2

LEMMA OwnersAre == IsFiniteSet(Owners) /\ Owners \subseteq Nat
<1>1. PICK T : T = {r.owners : r \in OwnerRules}
  OBVIOUS
<1>2. IsFiniteSet(T)
  <2>1. IsFiniteSet(OwnerRules)
    BY BodyAssumption
  <2>2. PICK f : f = [r \in OwnerRules |-> r.owners]
    OBVIOUS
  <2>3. f \in Surjection(OwnerRules, T)
    BY ONLY <1>1, <2>2 DEF Surjection
  <2> QED
    BY ONLY <2>1, <2>3, FS_Surjection
<1>3. \A x \in T : IsFiniteSet(x) /\ x \subseteq Nat
  BY <1>1, BodyAssumption
<1>4. IsFiniteSet(UNION T)
  BY ONLY <1>2, <1>3, FS_UNION
<1>5. Owners = UNION T
  BY ONLY <1>1 DEF Owners
<1> QED
  BY ONLY <1>3, <1>4, <1>5

(* Who is suggested: nobody who is left out has more points. *)
LEMMA SuggestedFirst ==
  ASSUME NEW rs, rs = RankSuggestedReviewers
  PROVE  /\ Listed(rs)
         /\ \A k \in DOMAIN rs : \A o \in Owners : o \in ToSet(rs) \/ Points(o) <= Points(rs[k])
<1>1. PICK S : S = {o \in Owners : Points(o) > 0}
  OBVIOUS
<1>2. PICK R : R = {x \in S \X S : Points(x[1]) > Points(x[2]) \/ (Points(x[1]) = Points(x[2]) /\ x[1] < x[2])}
  OBVIOUS
<1>3. IsFiniteSet(S) /\ S \subseteq Nat
  <2>1. S \subseteq Owners
    BY ONLY <1>1
  <2> QED
    BY ONLY <2>1, OwnersAre, FS_Subset
<1>4. StrictOrder(R, S)
  <2>1. PICK v : v = [x \in S |-> Points(x)]
    OBVIOUS
  <2>2. \A x \in S : v[x] = Points(x) /\ v[x] \in Nat
    BY ONLY <2>1, PointsAre
  <2>3. R \subseteq S \X S
    BY ONLY <1>2
  <2>4. \A x, y \in S : <<x, y>> \in R <=> Points(x) > Points(y) \/ (Points(x) = Points(y) /\ x < y)
    BY ONLY <1>2
  <2>5. \A x, y \in S : <<x, y>> \in R <=> v[x] > v[y] \/ (v[x] = v[y] /\ x < y)
    BY ONLY <2>2, <2>4
  <2>6. S \subseteq Nat /\ \A x \in S : v[x] \in Nat
    BY ONLY <1>3, <2>2
  <2> QED
    BY ONLY <2>3, <2>5, <2>6, ByMeasure
<1>5. PICK q, n : q = Sorted(S, R) /\ n = Cardinality(S)
  OBVIOUS
<1>6. /\ n \in Nat /\ q \in [1..n -> S]
      /\ \A i, j \in 1..n : i < j => <<q[i], q[j]>> \in R
      /\ \A x \in S : \E i \in 1..n : q[i] = x
  BY ONLY <1>3, <1>4, <1>5, SortedIs
<1>7. q \in Seq(S) /\ Len(q) = n
  BY ONLY <1>6
<1>8. PICK m \in Nat : m = (IF n < TopReviewers THEN n ELSE TopReviewers) /\ m <= n
  <2>1. TopReviewers \in Nat
    BY BodyAssumption
  <2> QED
    BY ONLY <1>6, <2>1
<1>9. rs = SubSeq(q, 1, m)
  <2>1. rs = SubSeq(q, 1, IF Len(q) < TopReviewers THEN Len(q) ELSE TopReviewers)
    BY ONLY <1>1, <1>2, <1>5, rs = RankSuggestedReviewers DEF RankSuggestedReviewers, Owners
  <2> QED
    BY ONLY <1>7, <1>8, <2>1
<1>10. Len(rs) = m /\ DOMAIN rs = 1..m /\ \A k \in 1..m : rs[k] = q[k] /\ k \in 1..n
  <2>0. \A k \in 1..m : k \in 1..n
    BY ONLY <1>6, <1>8, m \in Nat
  <2>1. \A k \in 1..m : q[k] \in S
    BY ONLY <1>6, <2>0
  <2>2. 1 \in Int /\ m \in Int
    BY ONLY m \in Nat
  <2>3. /\ rs \in Seq(S) /\ Len(rs) = (IF 1 <= m THEN m - 1 + 1 ELSE 0)
        /\ \A k \in 1..(m - 1 + 1) : rs[k] = q[1 + k - 1]
    BY ONLY <1>9, <2>1, <2>2, SubSeqProperties
  <2>4. Len(rs) = m /\ \A k \in 1..m : rs[k] = q[k]
    BY ONLY <2>3, m \in Nat
  <2> QED
    BY ONLY <2>0, <2>3, <2>4, LenProperties
<1>11. ASSUME NEW k \in 1..m, NEW o \in Owners, o \notin ToSet(rs) PROVE Points(o) <= Points(rs[k])
  <2>1. Points(o) \in Nat /\ Points(rs[k]) \in Nat
    BY ONLY PointsAre
  <2>2. CASE o \notin S
    <3>1. ~(Points(o) > 0)
      BY ONLY <1>1, <2>2, o \in Owners
    <3> QED
      BY ONLY <2>1, <3>1
  <2>3. CASE o \in S
    <3>1. PICK i \in 1..n : q[i] = o
      BY ONLY <1>6, <2>3
    <3>2. i \notin 1..m
      <4>1. SUFFICES ASSUME i \in 1..m PROVE FALSE
        OBVIOUS
      <4>2. rs[i] = o /\ i \in DOMAIN rs
        BY ONLY <1>10, <3>1, <4>1
      <4> QED
        BY ONLY <1>11, <4>2 DEF ToSet
    <3>3. k < i
      BY ONLY <1>6, <3>2, k \in 1..m, i \in 1..n, m \in Nat
    <3>4. <<q[k], q[i]>> \in R
      BY ONLY <1>6, <1>10, <3>3, k \in 1..m, i \in 1..n
    <3>5. Points(q[k]) >= Points(q[i])
      <4>1. PICK a, b : a = q[k] /\ b = q[i]
        OBVIOUS
      <4>2. Points(a) > Points(b) \/ Points(a) = Points(b)
        BY ONLY <1>2, <3>4, <4>1
      <4>3. Points(a) \in Nat /\ Points(b) \in Nat
        BY ONLY PointsAre
      <4> QED
        BY ONLY <4>1, <4>2, <4>3
    <3>6. rs[k] = q[k]
      BY ONLY <1>10, k \in 1..m
    <3> QED
      BY ONLY <2>1, <3>1, <3>5, <3>6
  <2> QED
    BY <2>2, <2>3
<1>12. \A k \in DOMAIN rs : \A o \in Owners : o \in ToSet(rs) \/ Points(o) <= Points(rs[k])
  BY ONLY <1>10, <1>11
<1> QED
  BY ONLY <1>10, <1>12, m \in Nat DEF Listed

-----------------------------------------------------------------------------
FilesOf(fs) == {fs[k].file : k \in DOMAIN fs}

Worst(fs, f) == CHOOSE s \in {fs[k].sev : k \in DOMAIN fs} :
                    /\ \E k \in DOMAIN fs : fs[k].file = f /\ fs[k].sev = s
                    /\ \A k \in DOMAIN fs : fs[k].file = f => fs[k].sev <= s

FileOrder(fs) ==
  {x \in FilesOf(fs) \X FilesOf(fs) :
     Worst(fs, x[1]) > Worst(fs, x[2]) \/ (Worst(fs, x[1]) = Worst(fs, x[2]) /\ x[1] < x[2])}

Numbered(fs, n) == n \in Nat /\ DOMAIN fs = 1..n /\ \A k \in 1..n : fs[k].file \in Nat /\ fs[k].sev \in Nat

(* The worst severity of a file is one of its findings', and no less than any. *)
LEMMA WorstIs ==
  ASSUME NEW fs, NEW n, Numbered(fs, n), NEW f \in FilesOf(fs)
  PROVE  /\ Worst(fs, f) \in Nat
         /\ \E k \in 1..n : fs[k].file = f /\ fs[k].sev = Worst(fs, f)
         /\ \A k \in 1..n : fs[k].file = f => fs[k].sev <= Worst(fs, f)
<1>0. n \in Nat /\ DOMAIN fs = 1..n /\ \A k \in 1..n : fs[k].file \in Nat /\ fs[k].sev \in Nat
  BY DEF Numbered
<1>1. PICK K : K = {k \in 1..n : fs[k].file = f}
  OBVIOUS
<1>2. K # {}
  BY ONLY <1>0, <1>1, f \in FilesOf(fs) DEF FilesOf
<1>3. PICK T : T = {fs[k].sev : k \in K}
  OBVIOUS
<1>4. IsFiniteSet(T) /\ T # {} /\ T \subseteq Nat
  <2>1. IsFiniteSet(1..n)
    BY ONLY <1>0, FS_Interval
  <2>2. K \subseteq 1..n
    BY ONLY <1>1
  <2>3. IsFiniteSet(K)
    BY ONLY <2>1, <2>2, FS_Subset
  <2>4. PICK g : g = [k \in K |-> fs[k].sev]
    OBVIOUS
  <2>5. g \in Surjection(K, T)
    BY ONLY <1>3, <2>4 DEF Surjection
  <2>6. IsFiniteSet(T)
    BY ONLY <2>3, <2>5, FS_Surjection
  <2>7. T # {} /\ T \subseteq Nat
    BY ONLY <1>0, <1>2, <1>3, <2>2
  <2> QED
    BY ONLY <2>6, <2>7
<1>5. PICK R : R = {x \in T \X T : x[1] > x[2]}
  OBVIOUS
<1>6. \A x, y \in T : <<x, y>> \in R <=> x > y
  BY ONLY <1>5
<1>7. StrictOrder(R, T)
  BY ONLY <1>4, <1>6 DEF StrictOrder
<1>8. PICK s \in T : \A y \in T \ {s} : <<s, y>> \in R
  <2>1. IsFiniteSet(T) /\ T # {}
    BY ONLY <1>4
  <2> QED
    BY ONLY <1>7, <2>1, FirstBy
<1>9. \A y \in T : y <= s
  <2>1. ASSUME NEW y \in T PROVE y <= s
    <3>1. s \in Nat /\ y \in Nat
      BY ONLY <1>4, s \in T, y \in T
    <3>2. y = s \/ s > y
      BY ONLY <1>6, <1>8, s \in T, y \in T
    <3> QED
      BY ONLY <3>1, <3>2
  <2> QED
    BY ONLY <2>1
<1>10. /\ s \in {fs[k].sev : k \in DOMAIN fs}
       /\ \E k \in DOMAIN fs : fs[k].file = f /\ fs[k].sev = s
       /\ \A k \in DOMAIN fs : fs[k].file = f => fs[k].sev <= s
  <2>1. PICK k \in K : fs[k].sev = s
    BY ONLY <1>3, s \in T
  <2>2. k \in 1..n /\ fs[k].file = f
    BY ONLY <1>1, k \in K
  <2>3. \A j \in 1..n : fs[j].file = f => fs[j].sev <= s
    BY ONLY <1>1, <1>3, <1>9
  <2> QED
    BY ONLY <1>0, <2>1, <2>2, <2>3
<1>11. PICK w : w = Worst(fs, f)
  OBVIOUS
<1>12. /\ w \in {fs[k].sev : k \in DOMAIN fs}
       /\ \E k \in DOMAIN fs : fs[k].file = f /\ fs[k].sev = w
       /\ \A k \in DOMAIN fs : fs[k].file = f => fs[k].sev <= w
  BY ONLY <1>10, <1>11 DEF Worst
<1> QED
  BY ONLY <1>0, <1>11, <1>12

LEMMA FilesOrdered ==
  ASSUME NEW fs, NEW n, Numbered(fs, n)
  PROVE  IsFiniteSet(FilesOf(fs)) /\ FilesOf(fs) \subseteq Nat /\ StrictOrder(FileOrder(fs), FilesOf(fs))
<1>0. n \in Nat /\ DOMAIN fs = 1..n /\ \A k \in 1..n : fs[k].file \in Nat /\ fs[k].sev \in Nat
  BY DEF Numbered
<1>1. PICK S : S = FilesOf(fs)
  OBVIOUS
<1>2. IsFiniteSet(S) /\ S \subseteq Nat
  <2>1. IsFiniteSet(1..n)
    BY ONLY <1>0, FS_Interval
  <2>2. S = {fs[k].file : k \in 1..n}
    BY ONLY <1>0, <1>1 DEF FilesOf
  <2>3. PICK g : g = [k \in 1..n |-> fs[k].file]
    OBVIOUS
  <2>4. g \in Surjection(1..n, S)
    BY ONLY <2>2, <2>3 DEF Surjection
  <2>5. IsFiniteSet(S)
    BY ONLY <2>1, <2>4, FS_Surjection
  <2> QED
    BY ONLY <1>0, <2>2, <2>5
<1>3. \A x \in S : Worst(fs, x) \in Nat
  BY ONLY <1>1, Numbered(fs, n), WorstIs
<1>4. PICK v : v = [x \in S |-> Worst(fs, x)]
  OBVIOUS
<1>5. \A x \in S : v[x] = Worst(fs, x) /\ v[x] \in Nat
  BY ONLY <1>3, <1>4
<1>6. PICK R : R = FileOrder(fs)
  OBVIOUS
<1>7. R = {x \in S \X S : Worst(fs, x[1]) > Worst(fs, x[2]) \/ (Worst(fs, x[1]) = Worst(fs, x[2]) /\ x[1] < x[2])}
  BY ONLY <1>1, <1>6 DEF FileOrder
<1>8. R \subseteq S \X S
  BY ONLY <1>7
<1>9. \A x, y \in S : <<x, y>> \in R <=> Worst(fs, x) > Worst(fs, y) \/ (Worst(fs, x) = Worst(fs, y) /\ x < y)
  BY ONLY <1>7
<1>10. \A x, y \in S : <<x, y>> \in R <=> v[x] > v[y] \/ (v[x] = v[y] /\ x < y)
  BY ONLY <1>5, <1>9
<1>11. S \subseteq Nat /\ \A x \in S : v[x] \in Nat
  BY ONLY <1>2, <1>5
<1>12. StrictOrder(R, S)
  BY ONLY <1>8, <1>10, <1>11, ByMeasure
<1> QED
  BY ONLY <1>1, <1>2, <1>6, <1>12

RowOf(fs, f) == [path |-> f, sev |-> Worst(fs, f), count |-> Cardinality({k \in DOMAIN fs : fs[k].file = f})]

LastRow(fs, rest) == [path |-> 0, sev |-> Worst(fs, CHOOSE f \in rest : \A g \in rest : Worst(fs, g) <= Worst(fs, f)),
                      count |-> OverflowCount(fs, rest)]

RowsFor(fs, real) ==
  [k \in DOMAIN real |-> RowOf(fs, real[k])]
  \o (IF FilesOf(fs) \ ToSet(real) = {} THEN <<>> ELSE <<LastRow(fs, FilesOf(fs) \ ToSet(real))>>)

Leading(o, N, m, q) == m = (IF N > MaxRows THEN MaxRows - 1 ELSE N) /\ m <= N /\ \A k \in 1..m : q[k] = o[k]

RowsAre(fs, S, m, q) ==
  FileRows(fs) = [k \in 1..m |-> RowOf(fs, q[k])]
                   \o (IF S \ ToSet(q) = {} THEN <<>> ELSE <<LastRow(fs, S \ ToSet(q))>>)

(* The rows: so many files of their own, worst first, and one row for the    *)
(* others if there are any.                                                  *)
LEMMA FileRowsAre ==
  ASSUME NEW fs, NEW n, Numbered(fs, n), NEW S, S = FilesOf(fs), NEW N, N = Cardinality(S),
         NEW o, o = Sorted(S, FileOrder(fs))
  PROVE  \E m \in Nat : \E q \in [1..m -> S] : Leading(o, N, m, q) /\ RowsAre(fs, S, m, q)
<1>1. PICK R : S = FilesOf(fs) /\ R = FileOrder(fs)
  OBVIOUS
<1>2. IsFiniteSet(S) /\ StrictOrder(R, S)
  BY ONLY <1>1, Numbered(fs, n), FilesOrdered
<1>3. o = Sorted(S, R) /\ N = Cardinality(S)
  BY <1>1
<1>4. N \in Nat /\ o \in [1..N -> S]
  BY ONLY <1>2, <1>3, SortedIs
<1>5. o \in Seq(S) /\ Len(o) = N
  BY ONLY <1>4
<1>6. PICK m \in Nat : m = (IF N > MaxRows THEN MaxRows - 1 ELSE N) /\ m <= N
  <2>1. MaxRows \in Nat \ {0}
    BY MergeAssumption
  <2> QED
    BY ONLY <1>4, <2>1
<1>7. PICK q : q = IF N > MaxRows THEN SubSeq(o, 1, MaxRows - 1) ELSE o
  OBVIOUS
<1>8. q \in Seq(S) /\ Len(q) = m /\ DOMAIN q = 1..m /\ \A k \in 1..m : q[k] = o[k]
  <2>1. CASE N > MaxRows
    <3>1. q = SubSeq(o, 1, m)
      BY ONLY <1>6, <1>7, <2>1
    <3>2. \A k \in 1..m : o[k] \in S
      <4>1. \A k \in 1..m : k \in 1..N
        BY ONLY <1>4, <1>6
      <4> QED
        BY ONLY <1>4, <4>1
    <3>3. 1 \in Int /\ m \in Int
      BY ONLY m \in Nat
    <3>4. /\ q \in Seq(S) /\ Len(q) = (IF 1 <= m THEN m - 1 + 1 ELSE 0)
          /\ \A k \in 1..(m - 1 + 1) : q[k] = o[1 + k - 1]
      BY ONLY <3>1, <3>2, <3>3, SubSeqProperties
    <3>5. Len(q) = m /\ \A k \in 1..m : q[k] = o[k]
      BY ONLY <3>4, m \in Nat
    <3> QED
      BY ONLY <3>4, <3>5, LenProperties
  <2>2. CASE ~(N > MaxRows)
    <3>1. q = o /\ m = N
      BY ONLY <1>6, <1>7, <2>2
    <3> QED
      BY ONLY <1>4, <1>5, <3>1
  <2> QED
    BY <2>1, <2>2
<1>9. FileRows(fs) = [k \in DOMAIN q |-> RowOf(fs, q[k])] \o (IF S \ ToSet(q) = {} THEN <<>> ELSE <<LastRow(fs, S \ ToSet(q))>>)
  <2>1. FileRows(fs) =
          RowsFor(fs, IF Len(Sorted(FilesOf(fs), FileOrder(fs))) > MaxRows
                      THEN SubSeq(Sorted(FilesOf(fs), FileOrder(fs)), 1, MaxRows - 1)
                      ELSE Sorted(FilesOf(fs), FileOrder(fs)))
    BY ONLY DEF FileRows, FilesOf, FileOrder, Worst, RowOf, LastRow, RowsFor
  <2>2. o = Sorted(FilesOf(fs), FileOrder(fs))
    BY ONLY <1>1, <1>3
  <2>3. q = IF Len(o) > MaxRows THEN SubSeq(o, 1, MaxRows - 1) ELSE o
    BY ONLY <1>5, <1>7
  <2>4. FileRows(fs) = RowsFor(fs, q)
    BY ONLY <2>1, <2>2, <2>3
  <2>5. S = FilesOf(fs)
    BY ONLY <1>1
  <2> QED
    BY ONLY <2>4, <2>5 DEF RowsFor
<1>10. q \in [1..m -> S]
  BY ONLY <1>8
<1>11. FileRows(fs) = [k \in 1..m |-> RowOf(fs, q[k])] \o (IF S \ ToSet(q) = {} THEN <<>> ELSE <<LastRow(fs, S \ ToSet(q))>>)
  BY ONLY <1>8, <1>9
<1>12. \A k \in 1..m : q[k] = o[k]
  BY ONLY <1>8
<1> QED
  BY ONLY <1>6, <1>10, <1>11, <1>12, m \in Nat DEF Leading, RowsAre

LEMMA JoinedListed ==
  ASSUME NEW L, NEW a \in Seq(L), NEW b \in Seq(L), NEW t, t = a \o b
  PROVE  Listed(t)
<1>1. t \in Seq(L)
  BY ConcatProperties
<1>2. Len(t) \in Nat /\ DOMAIN t = 1..Len(t)
  BY ONLY <1>1, LenProperties
<1> QED
  BY ONLY <1>2 DEF Listed

LEMMA RowsListed ==
  ASSUME NEW fs, NEW n, Numbered(fs, n)
  PROVE  Listed(FileRows(fs))
<1>1. PICK S, N, o : S = FilesOf(fs) /\ N = Cardinality(S) /\ o = Sorted(S, FileOrder(fs))
  OBVIOUS
<1>2. PICK m \in Nat : \E q \in [1..m -> S] : Leading(o, N, m, q) /\ RowsAre(fs, S, m, q)
  BY ONLY <1>1, Numbered(fs, n), FileRowsAre
<1>3. PICK q \in [1..m -> S] : RowsAre(fs, S, m, q)
  BY ONLY <1>2
<1>4. PICK a, b, l : /\ a = [k \in 1..m |-> RowOf(fs, q[k])] /\ l = LastRow(fs, S \ ToSet(q))
                     /\ b = (IF S \ ToSet(q) = {} THEN <<>> ELSE <<LastRow(fs, S \ ToSet(q))>>)
  OBVIOUS
<1>5. PICK L : l \in L /\ \A k \in 1..m : RowOf(fs, q[k]) \in L
  <2>1. PICK L : L = {l} \cup {RowOf(fs, q[k]) : k \in 1..m}
    OBVIOUS
  <2>2. l \in L /\ \A k \in 1..m : RowOf(fs, q[k]) \in L
    BY ONLY <2>1
  <2> QED
    BY ONLY <2>2
<1>6. a \in Seq(L)
  <2>1. a \in [1..m -> L]
    BY ONLY <1>4, <1>5
  <2> QED
    BY ONLY <2>1, m \in Nat
<1>7. b \in Seq(L)
  <2>1. b = <<>> \/ b = <<l>>
    BY ONLY <1>4
  <2> QED
    BY ONLY <1>5, <2>1, ShortLists
<1>8. FileRows(fs) = a \o b
  BY ONLY <1>3, <1>4 DEF RowsAre
<1>9. PICK t : t = a \o b
  OBVIOUS
<1>10. Listed(t)
  BY ONLY <1>6, <1>7, <1>9, JoinedListed
<1> QED
  BY ONLY <1>8, <1>9, <1>10

LEMMA ShortListed ==
  /\ Listed(<<>>) /\ \A x : Listed(<<x>>)
  /\ \A n \in Nat : \A x : Listed([k \in 1..n |-> x])
BY DEF Listed

ReportWell(rep) ==
  /\ rep = [findings |-> rep.findings, capped |-> rep.capped, skipped |-> rep.skipped, issues |-> rep.issues, owners |-> rep.owners]
  /\ rep.findings \in Aggregates /\ rep.capped \in BOOLEAN /\ rep.skipped \in BOOLEAN /\ rep.issues \in Nat
  /\ rep.owners \in {<<>>, RankSuggestedReviewers}

LEMMA FindingsNumbered ==
  ASSUME NEW fs \in Aggregates
  PROVE  Numbered(fs, Len(fs))
<1>1. Len(fs) \in Nat /\ DOMAIN fs = 1..Len(fs)
  BY BodyAssumption
<1>2. \A k \in 1..Len(fs) : fs[k] \in ToSet(fs)
  BY ONLY <1>1 DEF ToSet
<1>3. \A f \in ToSet(fs) : f.file \in Nat /\ f.sev \in Nat
  BY BodyAssumption
<1> QED
  BY ONLY <1>1, <1>2, <1>3 DEF Numbered

LEMMA FallbackWell ==
  ASSUME NEW rep, ReportWell(rep), NEW w, w = SynthesizedFallback(rep)
  PROVE  WalkWell(w) /\ w.note = "fallback" /\ w.reviewers = <<>>
<1>1. PICK rs : rs = FileRows(rep.findings)
  OBVIOUS
<1>2. w = [rows |-> rs, note |-> "fallback", truncated |-> FALSE, config |-> FALSE, linked |-> 0, reviewers |-> <<>>, event |-> FALSE]
  BY ONLY <1>1, w = SynthesizedFallback(rep) DEF SynthesizedFallback, NoWalk
<1>3. Listed(rs)
  <2>1. rep.findings \in Aggregates
    BY DEF ReportWell
  <2> QED
    BY ONLY <1>1, <2>1, FindingsNumbered, RowsListed
<1>4. /\ w.rows = rs /\ w.note = "fallback" /\ w.truncated = FALSE /\ w.config = FALSE /\ w.linked = 0 /\ w.reviewers = <<>>
      /\ w.event = FALSE
  BY ONLY <1>2
<1>5. w.linked \in Nat
  BY ONLY <1>4
<1>6. w.truncated \in BOOLEAN /\ w.config \in BOOLEAN
  BY ONLY <1>4, Zenon
<1>7. Listed(w.rows) /\ Listed(w.reviewers)
  BY ONLY <1>3, <1>4, ShortListed, Zenon
<1>8. w = [rows |-> w.rows, note |-> w.note, truncated |-> w.truncated, config |-> w.config, linked |-> w.linked,
          reviewers |-> w.reviewers, event |-> w.event]
  BY ONLY <1>2
<1> QED
  BY ONLY <1>4, <1>5, <1>6, <1>7, <1>8 DEF WalkWell

LEMMA ParsedWell ==
  ASSUME NEW w \in ParsedWalkthroughs
  PROVE  WalkWell(w) /\ w.note \in {"none", "empty", "own"}
<1>1. PICK rs \in {<<>>, [k \in 1..2 |-> [path |-> k, sev |-> 0, count |-> 1]]}, nt \in {"none", "empty", "own"},
           tr \in BOOLEAN, co \in BOOLEAN, own \in BOOLEAN :
        w = [rows |-> rs, note |-> nt, truncated |-> tr, config |-> co,
             linked |-> IF own THEN 1 ELSE 0, reviewers |-> IF own THEN <<"invented">> ELSE <<>>, event |-> FALSE]
  BY DEF ParsedWalkthroughs
<1>2. PICK li, re : li = (IF own THEN 1 ELSE 0) /\ re = (IF own THEN <<"invented">> ELSE <<>>)
  OBVIOUS
<1>3. li \in Nat
  BY ONLY <1>2
<1>4. Listed(re)
  BY ONLY <1>2, ShortListed
<1>5. Listed(rs)
  <2>1. Listed([k \in 1..2 |-> [path |-> k, sev |-> 0, count |-> 1]])
    BY DEF Listed
  <2> QED
    BY ONLY <2>1, rs \in {<<>>, [k \in 1..2 |-> [path |-> k, sev |-> 0, count |-> 1]]}, ShortListed, Zenon
<1>6. w = [rows |-> rs, note |-> nt, truncated |-> tr, config |-> co, linked |-> li, reviewers |-> re, event |-> FALSE]
  BY ONLY <1>1, <1>2
<1>7. /\ w.rows = rs /\ w.note = nt /\ w.truncated = tr /\ w.config = co /\ w.linked = li /\ w.reviewers = re
      /\ w.event = FALSE
  BY ONLY <1>6
<1>8. w = [rows |-> w.rows, note |-> w.note, truncated |-> w.truncated, config |-> w.config, linked |-> w.linked,
          reviewers |-> w.reviewers, event |-> w.event]
  BY ONLY <1>6
<1>9. w.truncated \in BOOLEAN /\ w.config \in BOOLEAN /\ Listed(w.rows) /\ Listed(w.reviewers) /\ w.linked \in Nat
  BY ONLY <1>3, <1>4, <1>5, <1>7, tr \in BOOLEAN, co \in BOOLEAN, Zenon
<1> QED
  BY ONLY <1>7, <1>8, <1>9, nt \in {"none", "empty", "own"} DEF WalkWell

LEMMA SignalsWell ==
  ASSUME NEW w, WalkWell(w), w.note \in {"none", "empty", "own"}, NEW rep, ReportWell(rep),
         NEW x, x = PropagateAggregationSignals(w, rep)
  PROVE  /\ WalkWell(x) /\ x.truncated = rep.capped
         /\ rep.skipped /\ w.note # "empty" => x.note \notin {"none", "empty"}
<1>1. CASE w.truncated = rep.capped /\ (w.note # "none" \/ ~rep.skipped)
  <2>1. x = w
    BY <1>1 DEF PropagateAggregationSignals
  <2> QED
    BY <1>1, <2>1
<1>2. CASE ~(w.truncated = rep.capped /\ (w.note # "none" \/ ~rep.skipped))
  <2>1. PICK tr, nt : tr = rep.capped /\ nt = IF rep.skipped /\ w.note \in {"none", "empty"} THEN "skipped" ELSE w.note
    OBVIOUS
  <2>2. x = [w EXCEPT !.truncated = tr, !.note = nt]
    BY <1>2, <2>1 DEF PropagateAggregationSignals
  <2>3. w = [rows |-> w.rows, note |-> w.note, truncated |-> w.truncated, config |-> w.config, linked |-> w.linked,
             reviewers |-> w.reviewers, event |-> w.event]
    BY DEF WalkWell
  <2>4. PICK ro, co, li, re, ev : ro = w.rows /\ co = w.config /\ li = w.linked /\ re = w.reviewers /\ ev = w.event
    OBVIOUS
  <2>5. x = [rows |-> ro, note |-> nt, truncated |-> tr, config |-> co, linked |-> li, reviewers |-> re, event |-> ev]
    BY ONLY <2>2, <2>3, <2>4
  <2>6. /\ x.rows = ro /\ x.note = nt /\ x.truncated = tr /\ x.config = co /\ x.linked = li /\ x.reviewers = re
        /\ x.event = ev
    BY ONLY <2>5
  <2>7. x = [rows |-> x.rows, note |-> x.note, truncated |-> x.truncated, config |-> x.config, linked |-> x.linked,
             reviewers |-> x.reviewers, event |-> x.event]
    BY ONLY <2>5
  <2>8. Listed(ro) /\ Listed(re) /\ li \in Nat /\ co \in BOOLEAN
    BY <2>4 DEF WalkWell
  <2>9. tr \in BOOLEAN
    BY <2>1 DEF ReportWell
  <2>10. WalkWell(x)
    BY ONLY <2>6, <2>7, <2>8, <2>9 DEF WalkWell
  <2>11. rep.skipped /\ w.note # "empty" => nt \notin {"none", "empty"}
    BY ONLY <2>1
  <2> QED
    BY ONLY <2>1, <2>6, <2>10, <2>11
<1> QED
  BY <1>1, <1>2

LEMMA EmbedWell ==
  ASSUME NEW w, WalkWell(w), NEW rep, ReportWell(rep), NEW leaked, NEW x, x = Embed(w, rep, leaked)
  PROVE  /\ WalkWell(x) /\ x.truncated = w.truncated /\ x.note = w.note
         /\ rep.owners # <<>> => x.reviewers = rep.owners
<1>1. PICK li, re : /\ li = (IF rep.issues > 0 THEN rep.issues ELSE w.linked)
                    /\ re = (IF rep.owners # <<>> THEN rep.owners ELSE w.reviewers)
  OBVIOUS
<1>2. PICK ro, nt, tr, co, l0, r0, ev : /\ ro = w.rows /\ nt = w.note /\ tr = w.truncated /\ co = w.config
                                        /\ l0 = w.linked /\ r0 = w.reviewers /\ ev = w.event
  OBVIOUS
<1>3. w = [rows |-> ro, note |-> nt, truncated |-> tr, config |-> co, linked |-> l0, reviewers |-> r0, event |-> ev]
  BY <1>2 DEF WalkWell
<1>4. x = [w EXCEPT !.event = leaked, !.linked = li, !.reviewers = re]
  BY ONLY <1>1, <1>3, x = Embed(w, rep, leaked) DEF Embed
<1>5. x = [rows |-> ro, note |-> nt, truncated |-> tr, config |-> co, linked |-> li, reviewers |-> re, event |-> leaked]
  BY ONLY <1>3, <1>4
<1>6. /\ x.rows = ro /\ x.note = nt /\ x.truncated = tr /\ x.config = co /\ x.linked = li /\ x.reviewers = re
  BY ONLY <1>5
<1>7. x = [rows |-> x.rows, note |-> x.note, truncated |-> x.truncated, config |-> x.config, linked |-> x.linked,
             reviewers |-> x.reviewers, event |-> x.event]
  BY ONLY <1>5
<1>8. Listed(ro) /\ tr \in BOOLEAN /\ co \in BOOLEAN
  BY <1>2 DEF WalkWell
<1>9. li \in Nat
  BY <1>1 DEF WalkWell, ReportWell
<1>10. Listed(re)
  <2>1. Listed(w.reviewers)
    BY DEF WalkWell
  <2>2. rep.owners \in {<<>>, RankSuggestedReviewers}
    BY DEF ReportWell
  <2>3. Listed(RankSuggestedReviewers)
    BY ONLY SuggestedFirst
  <2> QED
    BY ONLY <1>1, <2>1, <2>2, <2>3
<1>11. WalkWell(x)
  BY ONLY <1>6, <1>7, <1>8, <1>9, <1>10 DEF WalkWell
<1> QED
  BY ONLY <1>1, <1>2, <1>6, <1>11

ToldAll(s, n) == (Has(s, <<"section cut">>) \/ Tally(Weights(s)) = n) /\ Opens(s) = 0

(* The walkthrough carries what its review was told. *)
WalkTrue ==
  /\ WalkWell(walk)
  /\ report.capped /\ ~fallback => walk.truncated
  /\ report.skipped /\ ~silenced => walk.note \notin {"none", "empty"}
  /\ report.owners # <<>> => walk.reviewers \in {<<>>, RankSuggestedReviewers}

BodyInv ==
  /\ bodyAt \in {"aggregated", "written"} => walkRow = NoWalk
  /\ bodyAt \in {"written", "stored", "built"} => ReportWell(report) /\ WalkTrue /\ walkRow \in {NoWalk, walk}
  /\ bodyAt = "built" => CommentsInHunks /\ DroppedAreTold /\ WalkthroughTells

LEMMA BodyStart == BodyInit => BodyInv
<1> SUFFICES ASSUME BodyInit PROVE BodyInv
  OBVIOUS
<1>1. bodyAt = "aggregated" /\ walkRow = NoWalk
  BY DEF BodyInit
<1> QED
  BY ONLY <1>1 DEF BodyInv

LEMMA Suggested == ASSUME BodyInv, bodyAt = "built" PROVE StoredAndSuggested
<1>1. WalkTrue /\ walkRow \in {NoWalk, walk}
  BY DEF BodyInv
<1>2. report.owners # <<>> => walk.reviewers \in {<<>>, RankSuggestedReviewers}
  BY ONLY <1>1 DEF WalkTrue
<1>3. ASSUME report.owners # <<>>, NEW k \in DOMAIN walk.reviewers, NEW o \in UNION {r.owners : r \in OwnerRules}
      PROVE  o \in ToSet(walk.reviewers) \/ Points(o) <= Points(walk.reviewers[k])
  <2>1. walk.reviewers # <<>>
    BY ONLY <1>3
  <2>2. walk.reviewers = RankSuggestedReviewers
    BY ONLY <1>2, <1>3, <2>1
  <2>3. o \in Owners
    BY ONLY <1>3 DEF Owners
  <2>4. PICK rs : rs = walk.reviewers
    OBVIOUS
  <2>5. rs = RankSuggestedReviewers /\ k \in DOMAIN rs
    BY ONLY <2>2, <2>4, k \in DOMAIN walk.reviewers
  <2>6. o \in ToSet(rs) \/ Points(o) <= Points(rs[k])
    BY ONLY <2>3, <2>5, SuggestedFirst
  <2> QED
    BY ONLY <2>4, <2>6
<1> QED
  BY ONLY <1>1, <1>3 DEF StoredAndSuggested

LEMMA BodyHolds == BodyInv => BodySound
<1> SUFFICES ASSUME BodyInv, bodyAt = "built" PROVE CommentsInHunks /\ DroppedAreTold /\ WalkthroughTells /\ StoredAndSuggested
  BY DEF BodySound
<1>1. CommentsInHunks /\ DroppedAreTold /\ WalkthroughTells
  BY DEF BodyInv
<1>2. StoredAndSuggested
  BY ONLY BodyInv, bodyAt = "built", Suggested
<1> QED
  BY ONLY <1>1, <1>2

LEMMA Written == ASSUME BodyInv, GenerateWalkthrough PROVE BodyInv'
<1>0. walkRow' = walkRow /\ walkRow = NoWalk
  BY DEF BodyInv, GenerateWalkthrough
<1>1. ReportWell(report')
  <2>1. PICK fs \in Aggregates, ca \in BOOLEAN, sk \in BOOLEAN, is \in 0..1, ow \in {<<>>, RankSuggestedReviewers} :
             report' = [findings |-> fs, capped |-> ca, skipped |-> sk, issues |-> is, owners |-> ow]
    BY DEF GenerateWalkthrough
  <2>2. PICK rep : rep = report'
    OBVIOUS
  <2>3. rep = [findings |-> fs, capped |-> ca, skipped |-> sk, issues |-> is, owners |-> ow]
    BY ONLY <2>1, <2>2
  <2>4. rep.findings = fs /\ rep.capped = ca /\ rep.skipped = sk /\ rep.issues = is /\ rep.owners = ow
    BY ONLY <2>3
  <2>5. is \in Nat
    BY ONLY is \in 0..1
  <2>6. ReportWell(rep)
    BY ONLY <2>3, <2>4, <2>5, fs \in Aggregates, ca \in BOOLEAN, sk \in BOOLEAN, ow \in {<<>>, RankSuggestedReviewers}
       DEF ReportWell
  <2> QED
    BY ONLY <2>2, <2>6
<1>2. CASE bodyAt' = "written" /\ walk' = SynthesizedFallback(report') /\ fallback' = TRUE
  <2>1. PICK w, rep : w = walk' /\ rep = report'
    OBVIOUS
  <2>2. WalkWell(w) /\ w.note = "fallback" /\ w.reviewers = <<>>
    BY ONLY <1>1, <1>2, <2>1, FallbackWell
  <2>3. WalkTrue'
    <3>1. WalkWell(walk') /\ walk'.note = "fallback" /\ walk'.reviewers = <<>>
      BY ONLY <2>1, <2>2
    <3> QED
      BY ONLY <1>2, <3>1 DEF WalkTrue
  <2> QED
    BY ONLY <1>0, <1>1, <1>2, <2>3 DEF BodyInv
<1>3. CASE \E w \in ParsedWalkthroughs, leaked \in BOOLEAN :
             /\ bodyAt' = "written" /\ walk' = Embed(PropagateAggregationSignals(w, report'), report', leaked)
             /\ silenced' = (w.note = "empty") /\ fallback' = FALSE
  <2>1. PICK w \in ParsedWalkthroughs, leaked \in BOOLEAN :
             /\ bodyAt' = "written" /\ walk' = Embed(PropagateAggregationSignals(w, report'), report', leaked)
             /\ silenced' = (w.note = "empty") /\ fallback' = FALSE
    BY ONLY <1>3
  <2>2. PICK rep, y, x : rep = report' /\ y = PropagateAggregationSignals(w, rep) /\ x = Embed(y, rep, leaked)
    OBVIOUS
  <2>3. x = walk' /\ ReportWell(rep)
    BY ONLY <1>1, <2>1, <2>2
  <2>4. WalkWell(w) /\ w.note \in {"none", "empty", "own"}
    BY ONLY w \in ParsedWalkthroughs, ParsedWell
  <2>5. WalkWell(y) /\ y.truncated = rep.capped /\ (rep.skipped /\ w.note # "empty" => y.note \notin {"none", "empty"})
    <3>1. y = PropagateAggregationSignals(w, rep) /\ ReportWell(rep)
      BY ONLY <2>2, <2>3
    <3> QED
      BY ONLY <2>4, <3>1, SignalsWell, Zenon
  <2>6. /\ WalkWell(x) /\ x.truncated = y.truncated /\ x.note = y.note
        /\ rep.owners # <<>> => x.reviewers = rep.owners
    <3>1. x = Embed(y, rep, leaked) /\ ReportWell(rep) /\ WalkWell(y)
      BY ONLY <2>2, <2>3, <2>5
    <3> QED
      BY ONLY <3>1, EmbedWell
  <2>7. rep.owners \in {<<>>, RankSuggestedReviewers}
    BY ONLY <2>3 DEF ReportWell
  <2>8. WalkTrue'
    <3>1. WalkWell(walk')
      BY ONLY <2>3, <2>6
    <3>2. report'.capped /\ ~fallback' => walk'.truncated
      BY ONLY <2>2, <2>3, <2>5, <2>6
    <3>3. report'.skipped /\ ~silenced' => walk'.note \notin {"none", "empty"}
      BY ONLY <2>1, <2>2, <2>3, <2>5, <2>6
    <3>4. report'.owners # <<>> => walk'.reviewers \in {<<>>, RankSuggestedReviewers}
      BY ONLY <2>2, <2>3, <2>6, <2>7
    <3> QED
      BY ONLY <3>1, <3>2, <3>3, <3>4 DEF WalkTrue
  <2> QED
    BY ONLY <1>0, <1>1, <2>1, <2>8 DEF BodyInv
<1>4. CASE bodyAt' = "failed"
  BY ONLY <1>4 DEF BodyInv
<1> QED
  BY <1>2, <1>3, <1>4 DEF GenerateWalkthrough

LEMMA Persisted == ASSUME BodyInv, PersistReviewWalkthrough PROVE BodyInv'
<1>1. /\ bodyAt = "written" /\ bodyAt' = "stored" /\ (walkRow' = walk \/ walkRow' = walkRow)
      /\ report' = report /\ walk' = walk /\ fallback' = fallback /\ silenced' = silenced
  BY DEF PersistReviewWalkthrough, Upsert
<1>2. ReportWell(report) /\ WalkTrue /\ walkRow = NoWalk
  BY <1>1 DEF BodyInv
<1>3. WalkTrue'
  BY ONLY <1>1, <1>2 DEF WalkTrue
<1> QED
  BY ONLY <1>1, <1>2, <1>3 DEF BodyInv

LEMMA Built == ASSUME BodyInv, BuildReview PROVE BodyInv'
<1>1. bodyAt = "stored" /\ report' = report /\ walk' = walk /\ fallback' = fallback /\ silenced' = silenced /\ walkRow' = walkRow
  BY DEF BuildReview
<1>2. ReportWell(report) /\ WalkTrue /\ walkRow \in {NoWalk, walk}
  BY <1>1 DEF BodyInv
<1>3. WalkTrue'
  BY ONLY <1>1, <1>2 DEF WalkTrue
<1>4. PICK all, valid : all = report.findings /\ valid = {k \in DOMAIN all : Outcome(all[k]) = "valid"}
  OBVIOUS
<1>5. PICK keptAt, lostAt : keptAt = Positions(valid) /\ lostAt = Positions(DOMAIN all \ valid)
  OBVIOUS
<1>6. \/ bodyAt' = "refused"
      \/ /\ bodyAt' = "built"
         /\ \E rendered, arbitrated \in BOOLEAN :
              posted' = [md |-> BuildReviewBody(walk, arbitrated), rendered |-> rendered,
                         section |-> IF rendered THEN RenderDropped(EntriesAt(all, DOMAIN all \ valid)) ELSE <<>>,
                         inline |-> [k \in DOMAIN keptAt |-> InlineComment(all[keptAt[k]])], keptAt |-> keptAt,
                         dropped |-> [k \in DOMAIN lostAt |-> <<lostAt[k], Outcome(all[lostAt[k]])>>]]
  BY ONLY <1>4, <1>5, BuildReview DEF BuildReview
<1>7. CASE bodyAt' = "refused"
  BY ONLY <1>7 DEF BodyInv
<1>8. CASE bodyAt' = "built"
  <2>1. PICK rendered \in BOOLEAN, arb \in BOOLEAN :
              posted' = [md |-> BuildReviewBody(walk, arb), rendered |-> rendered,
                         section |-> IF rendered THEN RenderDropped(EntriesAt(all, DOMAIN all \ valid)) ELSE <<>>,
                         inline |-> [k \in DOMAIN keptAt |-> InlineComment(all[keptAt[k]])], keptAt |-> keptAt,
                         dropped |-> [k \in DOMAIN lostAt |-> <<lostAt[k], Outcome(all[lostAt[k]])>>]]
    BY ONLY <1>6, <1>8
  <2>2. PICK md, section, inline, dropped, lost :
          /\ md = BuildReviewBody(walk, arb) /\ lost = EntriesAt(all, DOMAIN all \ valid)
          /\ section = (IF rendered THEN RenderDropped(lost) ELSE <<>>)
          /\ inline = [k \in DOMAIN keptAt |-> InlineComment(all[keptAt[k]])]
          /\ dropped = [k \in DOMAIN lostAt |-> <<lostAt[k], Outcome(all[lostAt[k]])>>]
    OBVIOUS
  <2>3. posted' = [md |-> md, rendered |-> rendered, section |-> section, inline |-> inline, keptAt |-> keptAt, dropped |-> dropped]
    BY ONLY <2>1, <2>2
  <2>4. /\ posted'.md = md /\ posted'.rendered = rendered /\ posted'.section = section /\ posted'.inline = inline
        /\ posted'.keptAt = keptAt /\ posted'.dropped = dropped
    BY ONLY <2>3
  <2>5. all \in Aggregates
    BY ONLY <1>2, <1>4 DEF ReportWell
  <2>6. Placed(all, keptAt, inline, dropped) /\ lost \in Seq(ToSet(all)) /\ Len(lost) = Len(dropped)
    <3>1. Placing(all, valid, keptAt, lostAt, inline, dropped, lost)
      BY ONLY <1>4, <1>5, <2>2 DEF Placing
    <3> QED
      BY ONLY <2>5, <3>1, FindingsPlaced
  <2>7. CommentsInHunks'
    <3>1. report'.findings = all
      BY ONLY <1>1, <1>4
    <3>2. Placed(report'.findings, posted'.keptAt, posted'.inline, posted'.dropped)
      BY ONLY <2>4, <2>6, <3>1
    <3> QED
      BY ONLY <3>2 DEF CommentsInHunks, Placed, InHunks
  <2>8. DroppedAreTold'
    <3>0. DroppedAreTold' <=> (posted'.rendered => ToldAll(posted'.section, Len(posted'.dropped)))
      BY ONLY DEF DroppedAreTold, ToldAll, Weights, Weight
    <3>1. ASSUME rendered PROVE ToldAll(section, Len(dropped))
      <4>1. section = RenderDropped(lost)
        BY ONLY <2>2, <3>1
      <4>2. PICK F : F = ToSet(all)
        OBVIOUS
      <4>3. lost \in Seq(F) /\ Len(lost) = Len(dropped)
        BY ONLY <2>6, <4>2
      <4>4. Opens(section) = 0 /\ (Has(section, <<"section cut">>) \/ Tally(Weights(section)) = Len(lost))
        BY ONLY <4>1, <4>3, DroppedTells
      <4> QED
        BY ONLY <4>3, <4>4 DEF ToldAll
    <3>2. posted'.rendered = rendered /\ posted'.section = section /\ posted'.dropped = dropped
      BY ONLY <2>4
    <3>3. posted'.rendered => ToldAll(posted'.section, Len(posted'.dropped))
      BY ONLY <3>1, <3>2, Zenon
    <3> QED
      BY ONLY <3>0, <3>3, Zenon
  <2>9. WalkthroughTells'
    <3>1. WalkWell(walk)
      BY ONLY <1>2 DEF WalkTrue
    <3>2. PICK w : w = walk
      OBVIOUS
    <3>3. /\ w.truncated => Has(md, "cap notice")
          /\ w.note \notin {"none", "empty"} => Has(md, "note")
          /\ Cardinality(LinesLike(md, "row")) < Len(w.rows) => Has(md, "table cut")
      BY ONLY <2>2, <3>1, <3>2, arb \in BOOLEAN, BodySays
    <3>4. /\ report'.capped /\ ~fallback' => w.truncated
          /\ report'.skipped /\ ~silenced' => w.note \notin {"none", "empty"}
      BY ONLY <1>1, <1>2, <3>2 DEF WalkTrue
    <3>5. walk' = w
      BY ONLY <1>1, <3>2
    <3> QED
      BY ONLY <2>4, <3>3, <3>4, <3>5 DEF WalkthroughTells
  <2>10. ReportWell(report') /\ walkRow' \in {NoWalk, walk'}
    BY ONLY <1>1, <1>2
  <2> QED
    BY ONLY <1>3, <1>8, <2>7, <2>8, <2>9, <2>10 DEF BodyInv
<1> QED
  BY ONLY <1>6, <1>7, <1>8

LEMMA BodyKeep == BodyInv /\ [BodyNext]_bodyVars => BodyInv'
<1> SUFFICES ASSUME BodyInv, [BodyNext]_bodyVars PROVE BodyInv'
  OBVIOUS
<1>1. CASE UNCHANGED bodyVars
  <2>1. /\ bodyAt' = bodyAt /\ report' = report /\ walk' = walk /\ fallback' = fallback /\ silenced' = silenced
        /\ walkRow' = walkRow /\ posted' = posted
    BY ONLY <1>1 DEF bodyVars
  <2>2. WalkTrue' <=> WalkTrue
    BY ONLY <2>1 DEF WalkTrue
  <2>3. (CommentsInHunks' <=> CommentsInHunks) /\ (WalkthroughTells' <=> WalkthroughTells)
    BY ONLY <2>1 DEF CommentsInHunks, WalkthroughTells
  <2>4. DroppedAreTold' <=> DroppedAreTold
    BY ONLY <2>1 DEF DroppedAreTold
  <2> QED
    BY ONLY <2>1, <2>2, <2>3, <2>4, BodyInv DEF BodyInv
<1> QED
  BY <1>1, Written, Persisted, Built DEF BodyNext

(* What GitHub shows, for any attempts and findings: however attempts die    *)
(* and overlap, at most one fix prompt and, after a teardown, no placeholder *)
(* older than it; comments inside one hunk each, every other finding listed, *)
(* counted or said to be cut off, no notice lost to the size cap, and no     *)
(* reviewer suggested over one who owns more (doPost, renderWalkthrough).    *)
THEOREM PublishedStaysSound == ReviewSpec => []PublishedSound
<1>1. ReviewInit => CommentsInv /\ BodyInv
  BY PartsInit, CommentsStart, BodyStart
<1>2. (CommentsInv /\ BodyInv) /\ [ReviewNext]_reviewVars => (CommentsInv /\ BodyInv)'
  <2>1. CommentsInv /\ [ReviewNext]_reviewVars => CommentsInv'
    BY ONLY PartsStep, CommentsKeep
  <2>2. BodyInv /\ [ReviewNext]_reviewVars => BodyInv'
    BY ONLY PartsStep, BodyKeep
  <2> QED
    BY ONLY <2>1, <2>2
<1>3. CommentsInv /\ BodyInv => PublishedSound
  <2>1. CommentsInv => CommentsTidy
    BY DEF CommentsInv, CommentsTidy
  <2> QED
    BY ONLY <2>1, BodyHolds DEF PublishedSound
<1> QED
  BY <1>1, <1>2, <1>3, PTL DEF ReviewSpec

(* The values a function takes on a finite set are finitely many. *)
LEMMA ValuesFinite ==
  ASSUME NEW S, IsFiniteSet(S), NEW f, NEW T, T = {f[x] : x \in S}
  PROVE  IsFiniteSet(T)
<1>1. PICK g : g = [x \in S |-> f[x]]
  OBVIOUS
<1>2. g \in [S -> T] /\ \A x \in S : g[x] = f[x]
  BY ONLY <1>1, T = {f[x] : x \in S}
<1>3. \A t \in T : \E x \in S : g[x] = t
  BY ONLY <1>2, T = {f[x] : x \in S}
<1>4. g \in Surjection(S, T)
  BY ONLY <1>2, <1>3 DEF Surjection
<1> QED
  BY <1>4, FS_Surjection

(* SetToSeq lists a finite set. *)
LEMMA SetListed ==
  ASSUME NEW S, IsFiniteSet(S), NEW s, s = SetToSeq(S)
  PROVE  s \in Seq(S) /\ ToSet(s) = S
<1>1. PICK n \in Nat : n = Cardinality(S)
  BY FS_CardinalityType
<1>2. PICK m \in Nat : ExistsBijection(1..m, S)
  BY FS_NatBijection
<1>3. m = n
  BY <1>1, <1>2, FS_CountingElements
<1>4. PICK f : f \in Bijection(1..n, S)
  BY <1>2, <1>3 DEF ExistsBijection
<1>5. f \in [1..n -> S] /\ \A i, j \in 1..n : f[i] = f[j] => i = j
  BY <1>4 DEF Bijection, Injection, IsInjective
<1>6. IsInjective(f)
  BY ONLY <1>5 DEF IsInjective
<1>7. s = CHOOSE g \in [1..n -> S] : IsInjective(g)
  BY ONLY <1>1, s = SetToSeq(S) DEF SetToSeq
<1>8. s \in [1..n -> S] /\ IsInjective(s)
  BY ONLY <1>5, <1>6, <1>7
<1>9. s \in Injection(1..n, S)
  BY ONLY <1>8 DEF Injection
<1>10. IsFiniteSet(1..n) /\ Cardinality(1..n) = n
  BY FS_Interval
<1>11. s \in Surjection(1..n, S)
  BY <1>1, <1>9, <1>10, FS_Injection
<1>12. \A x \in S : \E i \in 1..n : s[i] = x
  BY <1>11 DEF Surjection
<1>13. ToSet(s) = S
  BY ONLY <1>8, <1>12 DEF ToSet
<1>14. s \in Seq(S)
  BY ONLY <1>8, n \in Nat
<1> QED
  BY ONLY <1>13, <1>14

-----------------------------------------------------------------------------
(* Arbitration. A row of the attempt under way is a decision of it, so that  *)
(* a repeated write finds its own row; and until all is written, what is not *)
(* written yet is still in the list.                                         *)

Tier2Row == [id |-> <<0, 1>>, suppressed |-> FALSE]
Granted(id) == Wanted(id) /\ IsSuppressible(ToolAt(id), Winner(id).conf)
DecisionOn(id) == [id |-> id, suppressed |-> Granted(id)]

Tasks == {<<"row", d>> : d \in Decisions} \cup {<<"refusal", r>> : r \in Rejections}

RowKnown(r) ==
  \/ r = Tier2Row
  \/ /\ r.id[1] \in 1..arbPass /\ r.suppressed \in BOOLEAN
     /\ r.suppressed => MinConfidence[ToolAt(r.id)] # Never
     /\ r.id[1] = arbPass => r \in Decisions

OneRowEach == \A a, b \in arbRows.rows : a.id = b.id => a = b

IntentsKnown ==
  /\ IsFiniteSet(intents)
  /\ \A i \in intents : i.conf \in 0..1

Stored(d) == d \in arbRows.rows
Refused(r) == <<r[1], r[2], arbPass>> \in arbRows.refusals

Listing ==
  /\ toStore \in Seq(Tasks)
  /\ \A d \in Decisions : Stored(d) \/ <<"row", d>> \in ToSet(toStore)
  /\ \A r \in Rejections : Refused(r) \/ <<"refusal", r>> \in ToSet(toStore)

ArbInv ==
  /\ arbPass \in Nat /\ arbAt \in {"idle", "decide", "store", "applied", "dropped"}
  /\ arbPass = 0 => arbAt = "idle"
  /\ arbRows = [rows |-> arbRows.rows, refusals |-> arbRows.refusals]
  /\ IntentsKnown /\ OneRowEach
  /\ \A r \in arbRows.rows : RowKnown(r)
  /\ arbAt = "store" => Listing
  /\ arbAt = "applied" => /\ \A d \in Decisions : Stored(d)
                          /\ \A r \in Rejections : Refused(r)
                          /\ disclosed = {d.id : d \in {x \in Decisions : x.suppressed}}

LEMMA DecisionOnIs ==
  ASSUME NEW id
  PROVE  DecisionOn(id).id = id /\ DecisionOn(id).suppressed \in BOOLEAN /\ DecisionOn(id).suppressed = Granted(id)
<1>1. Granted(id) \in BOOLEAN
  BY Zenon DEF Granted
<1>2. PICK b \in BOOLEAN : b = Granted(id)
  BY <1>1
<1>3. DecisionOn(id) = [id |-> id, suppressed |-> b]
  BY <1>2 DEF DecisionOn
<1> QED
  BY ONLY <1>2, <1>3

LEMMA DecisionsAre == Decisions = {Tier2Row} \cup {DecisionOn(id) : id \in IdsNow}
BY DEF Decisions, Tier2Row, DecisionOn, Granted

LEMMA IdsAre == \A id \in IdsNow : id[1] = arbPass
BY DEF IdsNow

LEMMA DecisionFacts ==
  ASSUME arbPass \in Nat \ {0}
  PROVE  /\ \A d \in Decisions : d = Tier2Row \/ (d.id \in IdsNow /\ d.id[1] = arbPass /\ d = DecisionOn(d.id))
         /\ \A a, b \in Decisions : a.id = b.id => a = b
         /\ \A id \in IdsNow : DecisionOn(id) \in Decisions
         /\ Tier2Row \in Decisions
<1>1. Tier2Row.id = <<0, 1>>
  BY DEF Tier2Row
<1>2. ASSUME NEW d \in Decisions PROVE d = Tier2Row \/ (d.id \in IdsNow /\ d.id[1] = arbPass /\ d = DecisionOn(d.id))
  <2>1. ASSUME NEW id \in IdsNow, d = DecisionOn(id) PROVE d.id \in IdsNow /\ d.id[1] = arbPass /\ d = DecisionOn(d.id)
    <3>1. d.id = id
      BY ONLY <2>1, DecisionOnIs
    <3> QED
      BY ONLY <2>1, <3>1, IdsAre
  <2>2. d = Tier2Row \/ \E id \in IdsNow : d = DecisionOn(id)
    BY ONLY <1>2, DecisionsAre
  <2> QED
    BY ONLY <2>1, <2>2
<1>3. ASSUME NEW a \in Decisions, NEW b \in Decisions, a.id = b.id PROVE a = b
  <2>1. Tier2Row.id[1] = 0
    BY ONLY <1>1
  <2> QED
    BY ONLY <1>2, <1>3, <2>1, arbPass \in Nat \ {0}
<1>4. (\A id \in IdsNow : DecisionOn(id) \in Decisions) /\ Tier2Row \in Decisions
  BY ONLY DecisionsAre
<1> QED
  BY ONLY <1>2, <1>3, <1>4

LEMMA WinnerIs ==
  ASSUME IntentsKnown, NEW id, Wanted(id)
  PROVE  Winner(id) \in intents /\ Winner(id).target = id
<1>1. \E i \in intents : i.target = id /\ \A k \in intents : k.target = id => k.conf <= i.conf
  <2>0. \A i \in intents : i.conf \in 0..1
    BY DEF IntentsKnown
  <2>1. PICK i \in intents : i.target = id
    BY DEF Wanted
  <2>2. CASE \E k \in intents : k.target = id /\ k.conf = 1
    BY <2>0, <2>2
  <2>3. CASE ~\E k \in intents : k.target = id /\ k.conf = 1
    <3>1. \A k \in intents : k.target = id => k.conf = 0
      BY <2>0, <2>3
    <3> QED
      BY <2>1, <3>1
  <2> QED
    BY <2>2, <2>3
<1>2. Winner(id) = CHOOSE i \in intents : i.target = id /\ \A k \in intents : k.target = id => k.conf <= i.conf
  BY DEF Winner
<1> QED
  BY ONLY <1>1, <1>2

LEMMA ArbConstants == IsFiniteSet(Problem1) /\ IsFiniteSet(Targets) /\ MaxPasses \in Nat
BY MergeAssumption DEF Problem1

LEMMA TasksFinite ==
  ASSUME IntentsKnown
  PROVE  IsFiniteSet(Decisions) /\ IsFiniteSet(Rejections)
<1>1. IsFiniteSet(IdsNow)
  <2>1. PICK f : f = [q \in Problem1 |-> <<arbPass, q>>]
    OBVIOUS
  <2>2. IdsNow = {f[q] : q \in Problem1}
    BY ONLY <2>1 DEF IdsNow
  <2> QED
    BY ONLY <2>2, ArbConstants, ValuesFinite
<1>2. IsFiniteSet(Decisions)
  <2>1. PICK f : f = [id \in IdsNow |-> DecisionOn(id)]
    OBVIOUS
  <2>2. PICK T : T = {f[id] : id \in IdsNow}
    OBVIOUS
  <2>3. IsFiniteSet(T)
    BY ONLY <1>1, <2>2, ValuesFinite
  <2>4. Decisions = T \cup {Tier2Row}
    BY ONLY <2>1, <2>2, DecisionsAre
  <2> QED
    BY ONLY <2>3, <2>4, FS_AddElement
<1>3. PICK A, B, C : /\ A = {x \in IdsNow : Wanted(x) /\ ~IsSuppressible(ToolAt(x), Winner(x).conf)}
                     /\ B = {k \in intents : k.target \notin IdsNow}
                     /\ C = Losers
  OBVIOUS
<1>4. PICK f, g, h : /\ f = [id \in A |-> <<id, WhyNot(ToolAt(id))>>]
                     /\ g = [i \in B |-> <<i.target, "target_not_found">>]
                     /\ h = [i \in C |-> <<i.target, "duplicate_intent_loser">>]
  OBVIOUS
<1>5. PICK X, Y, Z : X = {f[id] : id \in A} /\ Y = {g[i] : i \in B} /\ Z = {h[i] : i \in C}
  OBVIOUS
<1>6. Rejections = X \cup (Y \cup Z)
  <2>1. X = {<<id, WhyNot(ToolAt(id))>> : id \in A}
    BY ONLY <1>4, <1>5
  <2>2. Y = {<<i.target, "target_not_found">> : i \in B}
    BY ONLY <1>4, <1>5
  <2>3. Z = {<<i.target, "duplicate_intent_loser">> : i \in C}
    BY ONLY <1>4, <1>5
  <2> QED
    BY ONLY <1>3, <2>1, <2>2, <2>3 DEF Rejections
<1>7. IsFiniteSet(A) /\ IsFiniteSet(B) /\ IsFiniteSet(C)
  <2>1. IsFiniteSet(intents)
    BY DEF IntentsKnown
  <2>2. A \subseteq IdsNow /\ B \subseteq intents /\ C \subseteq intents
    BY ONLY <1>3 DEF Losers
  <2> QED
    BY ONLY <1>1, <2>1, <2>2, FS_Subset
<1>8. IsFiniteSet(X) /\ IsFiniteSet(Y) /\ IsFiniteSet(Z)
  BY ONLY <1>5, <1>7, ValuesFinite
<1>9. IsFiniteSet(Rejections)
  BY ONLY <1>6, <1>8, FS_Union
<1> QED
  BY ONLY <1>2, <1>9

LEMMA ArbStart == ArbInit => ArbInv
<1> SUFFICES ASSUME ArbInit PROVE ArbInv
  OBVIOUS
<1>1. IntentsKnown
  BY FS_EmptySet DEF ArbInit, IntentsKnown
<1>2. arbRows = [rows |-> {}, refusals |-> {}] /\ arbPass = 0 /\ arbAt = "idle"
  BY DEF ArbInit
<1>3. arbRows.rows = {} /\ arbRows.refusals = {}
  BY ONLY <1>2
<1> QED
  BY ONLY <1>1, <1>2, <1>3 DEF ArbInv, OneRowEach

LEMMA Begun == ASSUME ArbInv, BeginArbitration PROVE ArbInv'
<1>1. /\ arbPass \in Nat /\ arbPass' = arbPass + 1 /\ arbAt' = "decide" /\ arbRows' = arbRows
      /\ OneRowEach /\ \A r \in arbRows.rows : RowKnown(r)
      /\ arbRows = [rows |-> arbRows.rows, refusals |-> arbRows.refusals]
  BY DEF ArbInv, BeginArbitration
<1>2. PICK T : T = {<<0, 1>>} \cup {<<arbPass + 1, q>> : q \in Targets}
  OBVIOUS
<1>3. intents' \subseteq [target : T, conf : 0..1]
  BY <1>2 DEF BeginArbitration
<1>4. IsFiniteSet(T)
  <2>1. PICK f, U : f = [q \in Targets |-> <<arbPass + 1, q>>] /\ U = {f[q] : q \in Targets}
    OBVIOUS
  <2>2. IsFiniteSet(U)
    BY ONLY <2>1, ArbConstants, ValuesFinite
  <2>3. T = U \cup {<<0, 1>>}
    BY ONLY <1>2, <2>1
  <2> QED
    BY ONLY <2>2, <2>3, FS_AddElement
<1>5. IsFiniteSet([target : T, conf : 0..1])
  <2>0. PICK C : C = 0..1
    OBVIOUS
  <2>b. PICK z \in Int, u \in Int : z = 0 /\ u = 1
    OBVIOUS
  <2>c. IsFiniteSet(z..u)
    BY ONLY z \in Int, u \in Int, FS_Interval
  <2>2. IsFiniteSet(C)
    BY ONLY <2>0, <2>b, <2>c
  <2>a. IsFiniteSet(T \X C)
    BY ONLY <1>4, <2>2, FS_Product
  <2>1. PICK P : P = T \X (0..1)
    OBVIOUS
  <2>3. IsFiniteSet(P)
    BY ONLY <2>0, <2>1, <2>a
  <2>4. PICK f : f = [x \in P |-> [target |-> x[1], conf |-> x[2]]]
    OBVIOUS
  <2>5. [target : T, conf : 0..1] = {f[x] : x \in P}
    <3>1. ASSUME NEW r \in [target : T, conf : 0..1] PROVE r \in {f[x] : x \in P}
      <4>1. <<r.target, r.conf>> \in P
        BY ONLY <2>1, <3>1
      <4>2. f[<<r.target, r.conf>>] = r
        BY ONLY <2>4, <3>1, <4>1
      <4> QED
        BY ONLY <4>1, <4>2
    <3>2. ASSUME NEW x \in P PROVE f[x] \in [target : T, conf : 0..1]
      BY ONLY <2>1, <2>4, <3>2
    <3> QED
      BY ONLY <3>1, <3>2
  <2>6. PICK R : R = [target : T, conf : 0..1]
    OBVIOUS
  <2>7. R = {f[x] : x \in P}
    BY ONLY <2>5, <2>6
  <2>8. IsFiniteSet(R)
    BY ONLY <2>3, <2>7, ValuesFinite
  <2> QED
    BY ONLY <2>6, <2>8
<1>6. IntentsKnown'
  <2>1. IsFiniteSet(intents')
    BY ONLY <1>3, <1>5, FS_Subset
  <2>2. \A i \in intents' : i.conf \in 0..1
    BY ONLY <1>3
  <2> QED
    BY ONLY <2>1, <2>2 DEF IntentsKnown
<1>7. ASSUME NEW r \in arbRows'.rows PROVE RowKnown(r)'
  <2>1. RowKnown(r)
    BY ONLY <1>1, <1>7
  <2>2. CASE r = Tier2Row
    BY ONLY <2>2 DEF RowKnown, Tier2Row
  <2>3. CASE r # Tier2Row
    <3>1. /\ r.id[1] \in 1..arbPass /\ r.suppressed \in BOOLEAN
          /\ r.suppressed => MinConfidence[ToolAt(r.id)] # Never
      BY ONLY <2>1, <2>3 DEF RowKnown
    <3>2. r.id[1] \in 1..arbPass' /\ r.id[1] # arbPass'
      BY ONLY <1>1, <3>1
    <3> QED
      BY ONLY <3>1, <3>2 DEF RowKnown, ToolAt
  <2> QED
    BY ONLY <2>2, <2>3
<1>8. OneRowEach'
  BY ONLY <1>1 DEF OneRowEach
<1>9. arbPass' \in Nat /\ arbPass' # 0
  BY ONLY <1>1
<1> QED
  BY ONLY <1>1, <1>6, <1>7, <1>8, <1>9 DEF ArbInv

(* While the attempt and its requests stay, so do its decisions. *)
LEMMA SameDecisions ==
  ASSUME arbPass' = arbPass, intents' = intents
  PROVE  Decisions' = Decisions /\ Rejections' = Rejections /\ Tasks' = Tasks /\ (IntentsKnown => IntentsKnown')
<1>1. IdsNow' = IdsNow
  BY DEF IdsNow
<1>2. Decisions' = Decisions
  BY <1>1 DEF Decisions, Wanted, Winner
<1>3. Rejections' = Rejections
  BY <1>1 DEF Rejections, Losers, Wanted, Winner
<1>4. Tasks' = Tasks
  BY ONLY <1>2, <1>3 DEF Tasks
<1>5. IntentsKnown => IntentsKnown'
  BY DEF IntentsKnown
<1> QED
  BY ONLY <1>2, <1>3, <1>4, <1>5

LEMMA SameRows ==
  ASSUME ArbInv, arbPass' = arbPass, intents' = intents, arbRows' = arbRows
  PROVE  /\ (\A r \in arbRows.rows : RowKnown(r))' /\ OneRowEach'
         /\ (arbRows = [rows |-> arbRows.rows, refusals |-> arbRows.refusals])'
<1>1. Decisions' = Decisions
  BY SameDecisions
<1>2. /\ OneRowEach /\ \A r \in arbRows.rows : RowKnown(r)
      /\ arbRows = [rows |-> arbRows.rows, refusals |-> arbRows.refusals]
  BY DEF ArbInv
<1> QED
  BY ONLY <1>1, <1>2, arbPass' = arbPass, arbRows' = arbRows DEF OneRowEach, RowKnown, ToolAt

LEMMA Decided == ASSUME ArbInv, Decide PROVE ArbInv'
<1>1. /\ arbPass' = arbPass /\ intents' = intents /\ arbRows' = arbRows /\ arbAt = "decide" /\ arbAt' = "store"
      /\ toStore' = SetToSeq({<<"row", d>> : d \in Decisions}) \o SetToSeq({<<"refusal", r>> : r \in Rejections})
  BY DEF Decide
<1>2. arbPass \in Nat /\ IntentsKnown /\ (arbPass = 0 => arbAt = "idle")
  BY DEF ArbInv
<1>3. Decisions' = Decisions /\ Rejections' = Rejections /\ Tasks' = Tasks /\ IntentsKnown'
  BY ONLY <1>1, <1>2, SameDecisions
<1>4. PICK A, B : A = {<<"row", d>> : d \in Decisions} /\ B = {<<"refusal", r>> : r \in Rejections}
  OBVIOUS
<1>5. IsFiniteSet(Decisions) /\ IsFiniteSet(Rejections)
  BY ONLY <1>2, TasksFinite
<1>6. IsFiniteSet(A) /\ IsFiniteSet(B)
  <2>1. PICK f, g : f = [d \in Decisions |-> <<"row", d>>] /\ g = [r \in Rejections |-> <<"refusal", r>>]
    OBVIOUS
  <2>2. A = {f[d] : d \in Decisions} /\ B = {g[r] : r \in Rejections}
    BY ONLY <1>4, <2>1
  <2> QED
    BY ONLY <1>5, <2>2, ValuesFinite
<1>7. PICK a, b : a = SetToSeq(A) /\ b = SetToSeq(B)
  OBVIOUS
<1>8. a \in Seq(A) /\ ToSet(a) = A /\ b \in Seq(B) /\ ToSet(b) = B
  BY ONLY <1>6, <1>7, SetListed
<1>9. Tasks = A \cup B
  BY ONLY <1>4 DEF Tasks
<1>10. a \in Seq(Tasks) /\ b \in Seq(Tasks)
  BY ONLY <1>8, <1>9
<1>11. a \o b \in Seq(Tasks) /\ In(a \o b) = In(a) \cup In(b)
  BY ONLY <1>10, InConcat, ConcatProperties
<1>12. toStore' = a \o b
  BY ONLY <1>1, <1>4, <1>7
<1>13. ToSet(toStore') = A \cup B
  BY ONLY <1>8, <1>11, <1>12 DEF In, ToSet
<1>14. Listing'
  <2>1. toStore' \in Seq(Tasks')
    BY ONLY <1>3, <1>11, <1>12
  <2>2. \A d \in Decisions' : <<"row", d>> \in ToSet(toStore')
    BY ONLY <1>3, <1>4, <1>13
  <2>3. \A r \in Rejections' : <<"refusal", r>> \in ToSet(toStore')
    BY ONLY <1>3, <1>4, <1>13
  <2> QED
    BY ONLY <2>1, <2>2, <2>3 DEF Listing
<1>15. /\ (\A r \in arbRows.rows : RowKnown(r))' /\ OneRowEach'
       /\ (arbRows = [rows |-> arbRows.rows, refusals |-> arbRows.refusals])'
  BY ONLY <1>1, ArbInv, SameRows
<1> QED
  BY ONLY <1>1, <1>2, <1>3, <1>14, <1>15 DEF ArbInv

LEMMA StoreGivenUp == ASSUME ArbInv, StoreFails PROVE ArbInv'
<1>1. /\ arbPass' = arbPass /\ intents' = intents /\ arbRows' = arbRows /\ arbAt = "store" /\ arbAt' \in {"decide", "dropped"}
  BY DEF StoreFails
<1>2. arbPass \in Nat /\ IntentsKnown /\ (arbPass = 0 => arbAt = "idle")
  BY DEF ArbInv
<1>3. IntentsKnown'
  BY ONLY <1>1, <1>2, SameDecisions
<1>4. /\ (\A r \in arbRows.rows : RowKnown(r))' /\ OneRowEach'
      /\ (arbRows = [rows |-> arbRows.rows, refusals |-> arbRows.refusals])'
  BY ONLY <1>1, ArbInv, SameRows
<1> QED
  BY ONLY <1>1, <1>2, <1>3, <1>4 DEF ArbInv

LEMMA AllApplied == ASSUME ArbInv, Applied PROVE ArbInv'
<1>1. /\ arbPass' = arbPass /\ intents' = intents /\ arbRows' = arbRows /\ arbAt = "store" /\ arbAt' = "applied"
      /\ toStore = <<>> /\ disclosed' = {d.id : d \in {x \in Decisions : x.suppressed}}
  BY DEF Applied
<1>2. arbPass \in Nat /\ IntentsKnown /\ (arbPass = 0 => arbAt = "idle") /\ Listing
  BY <1>1 DEF ArbInv
<1>3. IntentsKnown' /\ Decisions' = Decisions /\ Rejections' = Rejections
  BY ONLY <1>1, <1>2, SameDecisions
<1>4. /\ (\A r \in arbRows.rows : RowKnown(r))' /\ OneRowEach'
      /\ (arbRows = [rows |-> arbRows.rows, refusals |-> arbRows.refusals])'
  BY ONLY <1>1, ArbInv, SameRows
<1>5. ToSet(toStore) = {}
  BY ONLY <1>1 DEF ToSet
<1>6. (\A d \in Decisions : Stored(d)) /\ (\A r \in Rejections : Refused(r))
  BY ONLY <1>2, <1>5 DEF Listing
<1>7. (\A d \in Decisions' : Stored(d)') /\ (\A r \in Rejections' : Refused(r)')
  BY ONLY <1>1, <1>3, <1>6 DEF Stored, Refused
<1>8. disclosed' = {d.id : d \in {x \in Decisions' : x.suppressed}}
  BY ONLY <1>1, <1>3
<1> QED
  BY ONLY <1>1, <1>2, <1>3, <1>4, <1>7, <1>8 DEF ArbInv

(* The rows after one write. *)
LEMMA RowWritten ==
  ASSUME ArbInv, arbPass # 0, NEW d \in Decisions, NEW w,
         w = IF d.id[1] = 0 THEN UpdateTier2(d) ELSE InsertTier1(d)
  PROVE  /\ w = [rows |-> w.rows, refusals |-> arbRows.refusals] /\ d \in w.rows
         /\ \A x \in Decisions : x \in arbRows.rows => x \in w.rows
         /\ \A x \in w.rows : x \in arbRows.rows \/ x \in Decisions
         /\ \A a, b \in w.rows : a.id = b.id => a = b
<1>0. /\ arbPass \in Nat /\ OneRowEach /\ \A r \in arbRows.rows : RowKnown(r)
      /\ arbRows = [rows |-> arbRows.rows, refusals |-> arbRows.refusals]
  BY DEF ArbInv
<1>1. PICK R, Q : R = arbRows.rows /\ Q = arbRows.refusals
  OBVIOUS
<1>2. arbRows = [rows |-> R, refusals |-> Q]
  BY ONLY <1>0, <1>1
<1>3. /\ d = Tier2Row \/ (d.id \in IdsNow /\ d.id[1] = arbPass /\ d = DecisionOn(d.id))
      /\ \A a, b \in Decisions : a.id = b.id => a = b
  BY ONLY <1>0, arbPass # 0, d \in Decisions, DecisionFacts
<1>4. Tier2Row.id = <<0, 1>> /\ Tier2Row.id[1] = 0
  BY DEF Tier2Row
<1>5. CASE d.id[1] = 0
  <2>1. d = Tier2Row
    BY ONLY <1>0, <1>3, <1>5, arbPass # 0
  <2>2. PICK S : S = {r \in R : r.id # d.id} \cup {d}
    OBVIOUS
  <2>3. w = [rows |-> S, refusals |-> Q]
    BY ONLY <1>1, <1>2, <1>5, <2>2, w = IF d.id[1] = 0 THEN UpdateTier2(d) ELSE InsertTier1(d) DEF UpdateTier2
  <2>4. w.rows = S
    BY ONLY <2>3
  <2>5. \A x \in Decisions : x \in R => x \in S
    BY ONLY <1>3, <2>2, d \in Decisions
  <2>6. \A x \in S : x \in R \/ x \in Decisions
    BY ONLY <2>2, d \in Decisions
  <2>7. \A a, b \in S : a.id = b.id => a = b
    BY ONLY <1>0, <1>1, <2>2 DEF OneRowEach
  <2> QED
    BY ONLY <1>1, <2>2, <2>3, <2>4, <2>5, <2>6, <2>7
<1>6. CASE d.id[1] # 0 /\ \E r \in R : r.id = d.id
  <2>1. w = arbRows
    BY ONLY <1>1, <1>6, w = IF d.id[1] = 0 THEN UpdateTier2(d) ELSE InsertTier1(d) DEF InsertTier1
  <2>2. PICK r \in R : r.id = d.id
    BY ONLY <1>6
  <2>3. d.id[1] = arbPass
    BY ONLY <1>3, <1>4, <1>6
  <2>4. r \in Decisions
    <3>1. RowKnown(r)
      BY ONLY <1>0, <1>1, <2>2
    <3>2. r # Tier2Row
      BY ONLY <1>4, <1>6, <2>2
    <3> QED
      BY ONLY <2>2, <2>3, <3>1, <3>2 DEF RowKnown
  <2>5. r = d
    BY ONLY <1>3, <2>2, <2>4, d \in Decisions
  <2>6. d \in R
    BY ONLY <2>2, <2>5
  <2> QED
    BY ONLY <1>0, <1>1, <2>1, <2>6 DEF OneRowEach
<1>7. CASE d.id[1] # 0 /\ ~\E r \in R : r.id = d.id
  <2>1. PICK S : S = R \cup {d}
    OBVIOUS
  <2>2. w = [rows |-> S, refusals |-> Q]
    BY ONLY <1>1, <1>2, <1>7, <2>1, w = IF d.id[1] = 0 THEN UpdateTier2(d) ELSE InsertTier1(d) DEF InsertTier1
  <2>3. w.rows = S
    BY ONLY <2>2
  <2>4. \A a, b \in S : a.id = b.id => a = b
    BY ONLY <1>0, <1>1, <1>7, <2>1 DEF OneRowEach
  <2> QED
    BY ONLY <1>1, <2>1, <2>2, <2>3, <2>4, d \in Decisions
<1> QED
  BY ONLY <1>5, <1>6, <1>7

LEMMA DecisionKnown ==
  ASSUME arbPass \in Nat \ {0}, NEW d \in Decisions
  PROVE  RowKnown(d)
<1>1. d = Tier2Row \/ (d.id \in IdsNow /\ d.id[1] = arbPass /\ d = DecisionOn(d.id))
  BY DecisionFacts
<1>2. CASE d # Tier2Row
  <2>1. d.id[1] = arbPass /\ d = DecisionOn(d.id)
    BY <1>1, <1>2
  <2>2. PICK id : id = d.id
    OBVIOUS
  <2>3. d.suppressed \in BOOLEAN /\ d.suppressed = Granted(id)
    BY ONLY <2>1, <2>2, DecisionOnIs
  <2>4. d.suppressed => MinConfidence[ToolAt(id)] # Never
    BY ONLY <2>3 DEF Granted, IsSuppressible
  <2>5. d.id[1] \in 1..arbPass
    BY ONLY <2>1, arbPass \in Nat \ {0}
  <2> QED
    BY ONLY <2>2, <2>3, <2>4, <2>5, d \in Decisions DEF RowKnown
<1> QED
  BY ONLY <1>2 DEF RowKnown

LEMMA OneStored == ASSUME ArbInv, StoreOne PROVE ArbInv'
<1>1. /\ arbPass' = arbPass /\ intents' = intents /\ arbAt = "store" /\ arbAt' = "store"
      /\ toStore # <<>> /\ toStore' = Tail(toStore)
  BY DEF StoreOne
<1>2. arbPass \in Nat /\ IntentsKnown /\ arbPass # 0 /\ Listing /\ OneRowEach /\ \A r \in arbRows.rows : RowKnown(r)
  BY <1>1 DEF ArbInv
<1>3. Decisions' = Decisions /\ Rejections' = Rejections /\ Tasks' = Tasks /\ IntentsKnown'
  BY ONLY <1>1, <1>2, SameDecisions
<1>4. PICK t : t = Head(toStore)
  OBVIOUS
<1>5. toStore \in Seq(Tasks)
  BY ONLY <1>2 DEF Listing
<1>6. t \in Tasks /\ toStore' \in Seq(Tasks) /\ ToSet(toStore) \subseteq {t} \cup ToSet(toStore')
  <2>1. PICK s, T : s = toStore /\ T = Tasks
    OBVIOUS
  <2>2. s \in Seq(T) /\ s # <<>> /\ toStore' = Tail(s) /\ t = Head(s)
    BY ONLY <1>1, <1>4, <1>5, <2>1
  <2>3. /\ t = s[1] /\ t \in T /\ Tail(s) \in Seq(T) /\ Len(Tail(s)) = Len(s) - 1 /\ Len(s) \in Nat \ {0}
        /\ \A k \in 1..Len(s) - 1 : Tail(s)[k] = s[k + 1]
    BY ONLY <2>2
  <2>4. ASSUME NEW k \in DOMAIN s PROVE s[k] \in {t} \cup ToSet(Tail(s))
    <3>1. k \in 1..Len(s)
      BY ONLY <2>2, <2>4
    <3>2. CASE k = 1
      BY ONLY <2>3, <3>2
    <3>3. CASE k # 1
      <4>1. k - 1 \in 1..Len(s) - 1 /\ (k - 1) + 1 = k
        BY ONLY <2>3, <3>1, <3>3
      <4>2. k - 1 \in DOMAIN Tail(s)
        BY ONLY <2>3, <4>1
      <4>3. Tail(s)[k - 1] = s[k]
        BY ONLY <2>3, <4>1
      <4> QED
        BY ONLY <4>2, <4>3 DEF ToSet
    <3> QED
      BY ONLY <3>2, <3>3
  <2>5. ToSet(s) \subseteq {t} \cup ToSet(Tail(s))
    BY ONLY <2>4 DEF ToSet
  <2> QED
    BY ONLY <2>1, <2>2, <2>3, <2>5
<1>7. arbRows' = IF t[1] = "refusal" THEN InsertRejection(t[2])
                 ELSE IF t[2].id[1] = 0 THEN UpdateTier2(t[2]) ELSE InsertTier1(t[2])
  BY <1>4 DEF StoreOne
<1>8. CASE \E d \in Decisions : t = <<"row", d>>
  <2>1. PICK d \in Decisions : t = <<"row", d>>
    BY ONLY <1>8
  <2>2. t[1] = "row" /\ t[2] = d /\ t[1] # "refusal"
    BY ONLY <2>1
  <2>3. PICK w : w = arbRows'
    OBVIOUS
  <2>4. w = IF d.id[1] = 0 THEN UpdateTier2(d) ELSE InsertTier1(d)
    BY ONLY <1>7, <2>2, <2>3
  <2>5. /\ w = [rows |-> w.rows, refusals |-> arbRows.refusals] /\ d \in w.rows
        /\ \A x \in Decisions : x \in arbRows.rows => x \in w.rows
        /\ \A x \in w.rows : x \in arbRows.rows \/ x \in Decisions
        /\ \A a, b \in w.rows : a.id = b.id => a = b
    BY ONLY <1>2, <2>4, ArbInv, d \in Decisions, RowWritten
  <2>6. w.refusals = arbRows.refusals
    BY ONLY <2>5
  <2>7. Listing'
    <3>1. ASSUME NEW x \in Decisions PROVE x \in w.rows \/ <<"row", x>> \in ToSet(toStore')
      <4>1. x \in arbRows.rows \/ <<"row", x>> \in ToSet(toStore)
        BY ONLY <1>2, <3>1 DEF Listing, Stored
      <4>2. ASSUME <<"row", x>> = t PROVE x = d
        BY ONLY <2>2, <4>2
      <4> QED
        BY ONLY <1>6, <2>5, <4>1, <4>2
    <3>2. ASSUME NEW r \in Rejections PROVE <<r[1], r[2], arbPass>> \in w.refusals \/ <<"refusal", r>> \in ToSet(toStore')
      <4>1. <<r[1], r[2], arbPass>> \in arbRows.refusals \/ <<"refusal", r>> \in ToSet(toStore)
        BY ONLY <1>2, <3>2 DEF Listing, Refused
      <4>2. <<"refusal", r>> # t
        BY ONLY <2>2
      <4> QED
        BY ONLY <1>6, <2>6, <4>1, <4>2
    <3> QED
      BY ONLY <1>1, <1>3, <1>6, <2>3, <3>1, <3>2 DEF Listing, Stored, Refused
  <2>8. (\A r \in arbRows.rows : RowKnown(r))'
    <3>1. ASSUME NEW r \in w.rows PROVE RowKnown(r)
      <4>1. arbPass \in Nat \ {0}
        BY ONLY <1>2
      <4> QED
        BY ONLY <1>2, <2>5, <3>1, <4>1, DecisionKnown
    <3> QED
      BY ONLY <1>1, <1>3, <2>3, <3>1 DEF RowKnown, ToolAt
  <2>9. OneRowEach'
    BY ONLY <2>3, <2>5 DEF OneRowEach
  <2>10. (arbRows = [rows |-> arbRows.rows, refusals |-> arbRows.refusals])'
    BY ONLY <2>3, <2>5, <2>6
  <2> QED
    BY ONLY <1>1, <1>2, <1>3, <2>7, <2>8, <2>9, <2>10 DEF ArbInv
<1>9. CASE \E r \in Rejections : t = <<"refusal", r>>
  <2>1. PICK q \in Rejections : t = <<"refusal", q>>
    BY ONLY <1>9
  <2>2. t[1] = "refusal" /\ t[2] = q
    BY ONLY <2>1
  <2>3. PICK R, Q, e : R = arbRows.rows /\ Q = arbRows.refusals /\ e = <<q[1], q[2], arbPass>>
    OBVIOUS
  <2>4. arbRows = [rows |-> R, refusals |-> Q]
    BY ONLY <2>3, ArbInv DEF ArbInv
  <2>5. arbRows' = [arbRows EXCEPT !.refusals = @ \cup {e}]
    BY ONLY <1>7, <2>2, <2>3 DEF InsertRejection
  <2>6. arbRows' = [rows |-> R, refusals |-> Q \cup {e}]
    BY ONLY <2>4, <2>5
  <2>7. arbRows'.rows = R /\ arbRows'.refusals = Q \cup {e}
    BY ONLY <2>6
  <2>8. Listing'
    <3>1. ASSUME NEW x \in Decisions PROVE x \in R \/ <<"row", x>> \in ToSet(toStore')
      <4>1. x \in R \/ <<"row", x>> \in ToSet(toStore)
        BY ONLY <1>2, <2>3, <3>1 DEF Listing, Stored
      <4>2. <<"row", x>> # t
        BY ONLY <2>2
      <4> QED
        BY ONLY <1>6, <4>1, <4>2
    <3>2. ASSUME NEW r \in Rejections PROVE <<r[1], r[2], arbPass>> \in Q \cup {e} \/ <<"refusal", r>> \in ToSet(toStore')
      <4>1. <<r[1], r[2], arbPass>> \in Q \/ <<"refusal", r>> \in ToSet(toStore)
        BY ONLY <1>2, <2>3, <3>2 DEF Listing, Refused
      <4>2. ASSUME <<"refusal", r>> = t PROVE r = q
        BY ONLY <2>2, <4>2
      <4> QED
        BY ONLY <1>6, <2>3, <4>1, <4>2
    <3> QED
      BY ONLY <1>1, <1>3, <1>6, <2>7, <3>1, <3>2 DEF Listing, Stored, Refused
  <2>9. (\A r \in arbRows.rows : RowKnown(r))'
    BY ONLY <1>1, <1>2, <1>3, <2>3, <2>7 DEF RowKnown, ToolAt
  <2>10. OneRowEach'
    BY ONLY <1>2, <2>3, <2>7 DEF OneRowEach
  <2>11. (arbRows = [rows |-> arbRows.rows, refusals |-> arbRows.refusals])'
    BY ONLY <2>6, <2>7
  <2> QED
    BY ONLY <1>1, <1>2, <1>3, <2>8, <2>9, <2>10, <2>11 DEF ArbInv
<1> QED
  BY ONLY <1>6, <1>8, <1>9 DEF Tasks

LEMMA ArbKeep == ArbInv /\ [ArbNext]_arbVars => ArbInv'
<1> SUFFICES ASSUME ArbInv, [ArbNext]_arbVars PROVE ArbInv'
  OBVIOUS
<1>1. CASE UNCHANGED arbVars
  <2>1. UNCHANGED <<arbPass, arbAt, intents, toStore, arbRows, disclosed>>
    BY <1>1 DEF arbVars
  <2>2. Decisions' = Decisions /\ Rejections' = Rejections /\ Tasks' = Tasks
    BY ONLY <2>1, SameDecisions
  <2> QED
    BY ONLY ArbInv, <2>1, <2>2 DEF ArbInv, IntentsKnown, OneRowEach, RowKnown, ToolAt, Listing, Stored, Refused
<1>2. CASE ArbNext
  BY ONLY <1>2, ArbInv, Begun, Decided, OneStored, AllApplied, StoreGivenUp DEF ArbNext
<1> QED
  BY <1>1, <1>2

LEMMA ArbAnswers == ArbInv => RequestsAnswered
<1> SUFFICES ASSUME ArbInv PROVE RequestsAnswered
  OBVIOUS
<1>1. /\ arbPass \in Nat /\ (arbPass = 0 => arbAt = "idle") /\ IntentsKnown /\ OneRowEach
      /\ \A r \in arbRows.rows : RowKnown(r)
  BY DEF ArbInv
<1>2. Tier2Row.suppressed = FALSE /\ Tier2Row.id[1] = 0
  BY DEF Tier2Row
<1>3. ASSUME NEW r \in arbRows.rows, r.suppressed PROVE r.id[1] # 0 /\ MinConfidence[ToolAt(r.id)] # Never
  <2>1. r # Tier2Row
    BY ONLY <1>2, <1>3
  <2> QED
    BY ONLY <1>1, <1>3, <2>1 DEF RowKnown
<1>4. ASSUME arbAt = "applied"
      PROVE  /\ \A id \in IdsNow : \E r \in arbRows.rows : r.id = id
             /\ \A i \in intents : \/ \E r \in arbRows.rows : r.id = i.target /\ r.suppressed
                                   \/ \E x \in arbRows.refusals : x[1] = i.target /\ x[3] = arbPass
             /\ disclosed = {r.id : r \in {x \in arbRows.rows : x.suppressed /\ x.id[1] = arbPass}}
             /\ \A r \in arbRows.rows : r.id[1] = arbPass /\ r.suppressed =>
                  \E i \in intents : i.target = r.id /\ i.conf >= MinConfidence[ToolAt(r.id)]
  <2>1. /\ \A d \in Decisions : d \in arbRows.rows
        /\ \A r \in Rejections : <<r[1], r[2], arbPass>> \in arbRows.refusals
        /\ disclosed = {d.id : d \in {x \in Decisions : x.suppressed}}
    BY <1>4 DEF ArbInv, Stored, Refused
  <2>2. arbPass \in Nat \ {0}
    BY ONLY <1>1, <1>4
  <2>3. /\ \A d \in Decisions : d = Tier2Row \/ (d.id \in IdsNow /\ d.id[1] = arbPass /\ d = DecisionOn(d.id))
        /\ \A id \in IdsNow : DecisionOn(id) \in Decisions
    BY ONLY <2>2, DecisionFacts
  <2>4. \A id \in IdsNow : \E r \in arbRows.rows : r.id = id
    BY ONLY <2>1, <2>3, DecisionOnIs
  <2>5. ASSUME NEW r \in arbRows.rows, r.id[1] = arbPass PROVE r \in Decisions /\ r.id \in IdsNow /\ r = DecisionOn(r.id)
    <3>1. r # Tier2Row
      BY ONLY <1>2, <2>2, <2>5
    <3>2. r \in Decisions
      BY ONLY <1>1, <2>5, <3>1 DEF RowKnown
    <3> QED
      BY ONLY <2>3, <3>1, <3>2
  <2>6. disclosed = {r.id : r \in {x \in arbRows.rows : x.suppressed /\ x.id[1] = arbPass}}
    <3>1. ASSUME NEW d \in Decisions, d.suppressed PROVE d \in arbRows.rows /\ d.id[1] = arbPass
      BY ONLY <1>2, <2>1, <2>3, <3>1
    <3> QED
      BY ONLY <2>1, <2>5, <3>1
  <2>7. ASSUME NEW r \in arbRows.rows, r.id[1] = arbPass, r.suppressed
        PROVE  \E i \in intents : i.target = r.id /\ i.conf >= MinConfidence[ToolAt(r.id)]
    <3>1. r = DecisionOn(r.id)
      BY ONLY <2>5, <2>7
    <3>2. PICK id : id = r.id
      OBVIOUS
    <3>3. Granted(id)
      BY ONLY <2>7, <3>1, <3>2, DecisionOnIs
    <3>4. Wanted(id) /\ Winner(id).conf >= MinConfidence[ToolAt(id)]
      BY ONLY <3>3 DEF Granted, IsSuppressible
    <3>5. Winner(id) \in intents /\ Winner(id).target = id
      BY ONLY <1>1, <3>4, WinnerIs
    <3> QED
      BY ONLY <3>2, <3>4, <3>5
  <2>8. ASSUME NEW i \in intents
        PROVE  \/ \E r \in arbRows.rows : r.id = i.target /\ r.suppressed
               \/ \E x \in arbRows.refusals : x[1] = i.target /\ x[3] = arbPass
    <3>0. PICK id : id = i.target
      OBVIOUS
    <3>a. ASSUME NEW why, <<id, why>> \in Rejections PROVE \E x \in arbRows.refusals : x[1] = id /\ x[3] = arbPass
      <4>1. PICK r \in Rejections : r = <<id, why>>
        BY ONLY <3>a
      <4>2. <<r[1], r[2], arbPass>> \in arbRows.refusals /\ r[1] = id
        BY ONLY <2>1, <4>1
      <4> QED
        BY ONLY <4>2
    <3>1. CASE id \notin IdsNow
      <4>1. <<id, "target_not_found">> \in Rejections
        BY ONLY <2>8, <3>0, <3>1 DEF Rejections
      <4> QED
        BY ONLY <3>0, <3>a, <4>1
    <3>2. CASE id \in IdsNow /\ Granted(id)
      <4>1. DecisionOn(id) \in arbRows.rows /\ DecisionOn(id).id = id /\ DecisionOn(id).suppressed
        BY ONLY <2>1, <2>3, <3>2, DecisionOnIs
      <4> QED
        BY ONLY <3>0, <4>1
    <3>3. CASE id \in IdsNow /\ ~Granted(id)
      <4>1. Wanted(id)
        BY ONLY <2>8, <3>0 DEF Wanted
      <4>2. ~IsSuppressible(ToolAt(id), Winner(id).conf)
        BY ONLY <3>3, <4>1 DEF Granted
      <4>3. <<id, WhyNot(ToolAt(id))>> \in Rejections
        BY ONLY <3>3, <4>1, <4>2 DEF Rejections
      <4> QED
        BY ONLY <3>0, <3>a, <4>3
    <3> QED
      BY ONLY <3>1, <3>2, <3>3
  <2> QED
    BY ONLY <2>4, <2>6, <2>7, <2>8
<1>5. \A a, b \in arbRows.rows : a.id = b.id => a = b
  BY ONLY <1>1 DEF OneRowEach
<1> QED
  BY ONLY <1>3, <1>4, <1>5 DEF RequestsAnswered

-----------------------------------------------------------------------------
(* Folds. A fold over a list goes through its prefixes, one entry at a time, *)
(* as long as each step stays within a set.                                  *)

LEMMA MaxOf ==
  ASSUME NEW n \in Nat, NEW s, s \subseteq 1..n, s # {}
  PROVE  Max(s) \in s /\ \A y \in s : Max(s) >= y
<1>1. IsFiniteSet(s)
  <2>1. IsFiniteSet(1..n)
    BY InOrderInterval
  <2> QED
    BY ONLY <2>1, s \subseteq 1..n, FS_Subset
<1>2. PICK R, v : R = {x \in s \X s : x[1] > x[2]} /\ v = [x \in s |-> x]
  OBVIOUS
<1>3. ASSUME NEW x \in s, NEW y \in s PROVE <<x, y>> \in R <=> x > y
  BY ONLY <1>2, <1>3
<1>4. s \subseteq Nat
  BY ONLY s \subseteq 1..n, n \in Nat
<1>5. StrictOrder(R, s)
  <2>1. \A x \in s : v[x] = x /\ v[x] \in Nat
    BY ONLY <1>2, <1>4
  <2>2. ASSUME NEW x \in s, NEW y \in s PROVE <<x, y>> \in R <=> v[x] > v[y] \/ (v[x] = v[y] /\ x < y)
    <3>1. x \in Nat /\ y \in Nat /\ v[x] = x /\ v[y] = y
      BY ONLY <1>4, <2>1, <2>2
    <3>2. <<x, y>> \in R <=> x > y
      BY ONLY <1>3, <2>2
    <3> QED
      BY ONLY <3>1, <3>2
  <2>3. R \subseteq s \X s
    BY ONLY <1>2
  <2> QED
    BY ONLY <1>4, <2>1, <2>2, <2>3, ByMeasure
<1>6. \E x \in s : \A y \in s \ {x} : <<x, y>> \in R
  BY ONLY <1>1, <1>5, s # {}, FirstBy
<1>7. PICK x \in s : \A y \in s \ {x} : <<x, y>> \in R
  BY ONLY <1>6
<1>8. ASSUME NEW y \in s PROVE x >= y
  <2>1. x \in Nat /\ y \in Nat
    BY ONLY <1>4, x \in s, y \in s
  <2>2. CASE y # x
    <3>1. <<x, y>> \in R
      BY ONLY <1>7, <2>2, y \in s
    <3>2. x > y
      BY ONLY <1>3, <3>1, x \in s, y \in s
    <3> QED
      BY ONLY <2>1, <3>2
  <2> QED
    BY ONLY <2>1, <2>2
<1>9. Max(s) = CHOOSE z \in s : \A y \in s : z >= y
  BY ONLY DEF Max
<1> QED
  BY ONLY <1>8, <1>9, x \in s

LEMMA MaxOfPrefix ==
  ASSUME NEW k \in Nat, k # 0
  PROVE  Max(1..k) = k /\ (1..k) \ {Max(1..k)} = 1..(k - 1) /\ 1..k # {}
<1>1. k \in 1..k /\ 1..k # {}
  OBVIOUS
<1>2. Max(1..k) \in 1..k /\ \A y \in 1..k : Max(1..k) >= y
  BY <1>1, MaxOf
<1>3. Max(1..k) = k
  BY ONLY <1>1, <1>2, k \in Nat
<1>4. (1..k) \ {k} = 1..(k - 1)
  BY ONLY k \in Nat, k # 0
<1> QED
  BY ONLY <1>1, <1>3, <1>4

(* The function a fold over 1..n is defined with; F are its steps. *)
Folds(g, n, base, F) ==
  \A s \in SUBSET (1..n) : g[s] = IF s = {} THEN base ELSE F[Max(s)][g[s \ {Max(s)}]]

LEMMA FoldExists ==
  ASSUME NEW n \in Nat, NEW X, NEW base \in X, NEW F \in [1..n -> [X -> X]]
  PROVE  \E g \in [SUBSET (1..n) -> X] : Folds(g, n, base, F)
<1> DEFINE Found1(m) == \E g \in [SUBSET (1..m) -> X] : Folds(g, m, base, F)
           P == {m \in Nat : m <= n => Found1(m)}
<1>1. 0 \in P
  <2>1. PICK g : g = [s \in SUBSET (1..0) |-> base]
    OBVIOUS
  <2>2. \A s \in SUBSET (1..0) : s = {}
    OBVIOUS
  <2>3. g \in [SUBSET (1..0) -> X] /\ \A s \in SUBSET (1..0) : g[s] = base
    BY ONLY <2>1, base \in X
  <2>4. Folds(g, 0, base, F)
    BY ONLY <2>2, <2>3 DEF Folds
  <2>5. Found1(0)
    BY ONLY <2>3, <2>4
  <2> HIDE DEF Found1
  <2> QED
    BY ONLY <2>5
<1>2. ASSUME NEW m \in Nat, m \in P PROVE m + 1 \in P
  <2> SUFFICES ASSUME m + 1 <= n PROVE Found1(m + 1)
    <3> HIDE DEF Found1
    <3> QED
      OBVIOUS
  <2>1. m <= n /\ m + 1 \in 1..n /\ m + 1 \in Nat
    BY ONLY m \in Nat, n \in Nat, m + 1 <= n
  <2>a. Found1(m)
    <3> HIDE DEF Found1
    <3> QED
      BY ONLY <1>2, <2>1
  <2>2. PICK g \in [SUBSET (1..m) -> X] : Folds(g, m, base, F)
    BY ONLY <2>a
  <2>b. PICK q : q = m + 1
    OBVIOUS
  <2>c. PICK A, B, Fq : A = SUBSET (1..m) /\ B = SUBSET (1..q) /\ Fq = F[q]
    OBVIOUS
  <2>3. A = SUBSET (1..m) /\ B = SUBSET (1..q) /\ q = m + 1 /\ Fq = F[q]
    BY ONLY <2>b, <2>c
  <2>4. PICK h : h = [s \in B |-> IF q \in s THEN Fq[g[s \ {q}]] ELSE g[s]]
    OBVIOUS
  <2>5. \A s \in B : s \ {q} \in A /\ (q \notin s => s \in A)
    BY ONLY <2>3, m \in Nat
  <2>6. \A s \in A : s \in B /\ q \notin s
    BY ONLY <2>3, m \in Nat
  <2>7. Fq \in [X -> X] /\ g \in [A -> X]
    BY ONLY <2>1, <2>2, <2>3, F \in [1..n -> [X -> X]]
  <2>8. h \in [B -> X]
    BY ONLY <2>4, <2>5, <2>7
  <2>9. \A s \in A : h[s] = g[s]
    BY ONLY <2>4, <2>6
  <2>10. ASSUME NEW s \in B PROVE h[s] = IF s = {} THEN base ELSE F[Max(s)][h[s \ {Max(s)}]]
    <3>1. CASE q \in s
      <4>1. s \subseteq 1..q /\ s # {} /\ q \in Nat
        BY ONLY <2>1, <2>3, <2>10, <3>1
      <4>2. Max(s) \in s /\ Max(s) >= q
        BY ONLY <3>1, <4>1, MaxOf
      <4>a. PICK x : x = Max(s)
        OBVIOUS
      <4>b. x \in 1..q /\ x >= q
        BY ONLY <4>1, <4>2, <4>a
      <4>3. Max(s) = q
        BY ONLY <4>1, <4>a, <4>b
      <4>4. h[s] = Fq[g[s \ {q}]]
        <5>1. h[s] = IF q \in s THEN Fq[g[s \ {q}]] ELSE g[s]
          BY ONLY <2>4, <2>10
        <5> QED
          BY ONLY <3>1, <5>1
      <4>5. h[s \ {q}] = g[s \ {q}]
        BY ONLY <2>5, <2>9, <2>10
      <4> QED
        BY ONLY <2>3, <4>1, <4>3, <4>4, <4>5
    <3>2. CASE q \notin s
      <4>1. s \in A /\ h[s] = g[s]
        BY ONLY <2>5, <2>9, <2>10, <3>2
      <4>2. g[s] = IF s = {} THEN base ELSE F[Max(s)][g[s \ {Max(s)}]]
        BY ONLY <2>2, <2>3, <4>1 DEF Folds
      <4>3. s \ {Max(s)} \in A
        BY ONLY <2>3, <4>1
      <4>4. h[s \ {Max(s)}] = g[s \ {Max(s)}]
        BY ONLY <2>9, <4>3
      <4> QED
        BY ONLY <4>1, <4>2, <4>4
    <3> QED
      BY ONLY <3>1, <3>2
  <2>11. Folds(h, q, base, F)
    BY ONLY <2>3, <2>10 DEF Folds
  <2> QED
    BY ONLY <2>3, <2>8, <2>11
<1>3. Nat \subseteq P
  <2> HIDE DEF P
  <2> QED
    BY ONLY <1>1, <1>2, CountingUp
<1>4. Found1(n)
  <2> HIDE DEF Found1
  <2> QED
    BY ONLY <1>3, n \in Nat
<1> QED
  BY ONLY <1>4

(* A fold that follows the steps F as long as it stays within X has its     *)
(* prefixes there, and each is the step of the one before.                  *)
Unfolds(g, n, base, v) == \A s \in SUBSET (1..n) : g[s] = IF s = {} THEN base ELSE v[s]
Steps(g, n, X, F, v) == \A k \in 1..n : g[1..(k - 1)] \in X => v[1..k] = F[k][g[1..(k - 1)]]

Climbs(g, n, X, base, F) ==
  \E h \in [0..n -> X] : h[0] = base /\ (\A k \in 1..n : h[k] = F[k][h[k - 1]]) /\ h[n] = g[1..n]

LEMMA FoldPrefixes ==
  ASSUME NEW n \in Nat, NEW X, NEW base \in X, NEW F \in [1..n -> [X -> X]], NEW g, NEW v,
         Unfolds(g, n, base, v), Steps(g, n, X, F, v)
  PROVE  Climbs(g, n, X, base, F)
<1>a. \A s \in SUBSET (1..n) : g[s] = IF s = {} THEN base ELSE v[s]
  BY DEF Unfolds
<1>b. \A k \in 1..n : g[1..(k - 1)] \in X => v[1..k] = F[k][g[1..(k - 1)]]
  BY DEF Steps
<1> DEFINE P == {k \in Nat : k <= n => g[1..k] \in X}
<1>1. 0 \in P /\ g[1..0] = base
  <2>1. 1..0 = {} /\ 1..0 \in SUBSET (1..n)
    OBVIOUS
  <2> QED
    BY <1>a, <2>1
<1>2. ASSUME NEW k \in 1..n, g[1..(k - 1)] \in X PROVE g[1..k] = F[k][g[1..(k - 1)]] /\ g[1..k] \in X
  <2>1. PICK s : s = 1..k
    OBVIOUS
  <2>2. s \in SUBSET (1..n) /\ s # {}
    BY ONLY <2>1, k \in 1..n, n \in Nat
  <2>3. g[s] = v[s]
    BY <1>a, <2>2
  <2>4. v[s] = F[k][g[1..(k - 1)]]
    BY <1>b, <1>2, <2>1
  <2> QED
    BY <1>2, <2>1, <2>3, <2>4
<1>3. ASSUME NEW k \in Nat, k \in P PROVE k + 1 \in P
  <2>1. ASSUME k + 1 <= n PROVE g[1..(k + 1)] \in X
    <3>1. PICK q : q = k + 1
      OBVIOUS
    <3>2. q \in 1..n /\ q - 1 = k
      BY <2>1, <3>1
    <3>3. g[1..(q - 1)] \in X
      BY <1>3, <2>1, <3>2
    <3> QED
      BY <1>2, <3>1, <3>2, <3>3
  <2> QED
    BY <2>1
<1>4. Nat \subseteq P
  <2> HIDE DEF P
  <2> QED
    BY ONLY <1>1, <1>3, CountingUp
<1>5. \A k \in 0..n : g[1..k] \in X
  BY <1>4
<1>6. PICK h : h = [k \in 0..n |-> g[1..k]]
  OBVIOUS
<1>7. h \in [0..n -> X]
  BY ONLY <1>5, <1>6
<1>8. ASSUME NEW k \in 1..n PROVE h[k] = F[k][h[k - 1]]
  <2>1. k \in 0..n /\ k - 1 \in 0..n
    BY ONLY <1>8, n \in Nat
  <2>2. h[k] = g[1..k] /\ h[k - 1] = g[1..(k - 1)]
    BY ONLY <1>6, <2>1
  <2>3. g[1..(k - 1)] \in X
    BY ONLY <1>5, <2>1
  <2> QED
    BY <1>2, <2>2, <2>3
<1>9. h[0] = g[1..0] /\ h[n] = g[1..n]
  BY ONLY <1>6, n \in Nat
<1> HIDE DEF P
<1> QED
  BY ONLY <1>1, <1>7, <1>8, <1>9 DEF Climbs

LEMMA FoldStays ==
  ASSUME NEW n \in Nat, NEW X, NEW base \in X, NEW F \in [1..n -> [X -> X]], NEW g, NEW v,
         Unfolds(g, n, base, v), Steps(g, n, X, F, v)
  PROVE  g[1..n] \in X
<1>0. Climbs(g, n, X, base, F)
  BY ONLY n \in Nat, base \in X, F \in [1..n -> [X -> X]], Unfolds(g, n, base, v), Steps(g, n, X, F, v), FoldPrefixes
<1>1. PICK h \in [0..n -> X] : h[n] = g[1..n]
  BY ONLY <1>0 DEF Climbs
<1> QED
  BY ONLY <1>1, h \in [0..n -> X], n \in Nat

-----------------------------------------------------------------------------
(* Merging. A finding is covered by one of its file that is at least as      *)
(* severe and as confident, says what it says and is in scope if it is. Each *)
(* merge covers both its parts, and covering is transitive.                  *)

Texts == Seq(Nat) \ {<<>>}
ScopeKinds == {"chunk", "global"}
Finding == [file : Nat, place : Nat, sev : Nat, conf : Nat, body : Texts, by : Nat, scope : ScopeKinds]

Covers(g, f) ==
  /\ g.file = f.file /\ g.sev >= f.sev /\ g.conf >= f.conf
  /\ ToSet(f.body) \subseteq ToSet(g.body)
  /\ f.scope = "chunk" => g.scope = "chunk"

Covered(fs, gs) == \A k \in DOMAIN fs : \E m \in DOMAIN gs : Covers(gs[m], fs[k])

LEMMA FindingIs ==
  ASSUME NEW f \in Finding
  PROVE  /\ f = [file |-> f.file, place |-> f.place, sev |-> f.sev, conf |-> f.conf, body |-> f.body, by |-> f.by, scope |-> f.scope]
         /\ f.file \in Nat /\ f.place \in Nat /\ f.sev \in Nat /\ f.conf \in Nat /\ f.body \in Texts /\ f.by \in Nat
         /\ f.scope \in ScopeKinds
BY DEF Finding

LEMMA InFinding ==
  ASSUME NEW a \in Nat, NEW b \in Nat, NEW c \in Nat, NEW d \in Nat, NEW t \in Texts, NEW e \in Nat, NEW s \in ScopeKinds
  PROVE  [file |-> a, place |-> b, sev |-> c, conf |-> d, body |-> t, by |-> e, scope |-> s] \in Finding
BY DEF Finding

LEMMA CoversItself == ASSUME NEW f \in Finding PROVE Covers(f, f)
<1>1. f.sev \in Nat /\ f.conf \in Nat
  BY FindingIs
<1> QED
  BY ONLY <1>1 DEF Covers

LEMMA CoversOn ==
  ASSUME NEW f \in Finding, NEW g \in Finding, NEW h \in Finding, Covers(h, g), Covers(g, f)
  PROVE  Covers(h, f)
<1>1. f.sev \in Nat /\ f.conf \in Nat /\ g.sev \in Nat /\ g.conf \in Nat /\ h.sev \in Nat /\ h.conf \in Nat
  BY FindingIs
<1>2. PICK A, B, C : A = ToSet(f.body) /\ B = ToSet(g.body) /\ C = ToSet(h.body)
  OBVIOUS
<1>3. A \subseteq B /\ B \subseteq C
  BY ONLY <1>2, Covers(h, g), Covers(g, f) DEF Covers
<1>4. A \subseteq C
  BY ONLY <1>3
<1> QED
  BY ONLY <1>1, <1>2, <1>4, Covers(h, g), Covers(g, f) DEF Covers

LEMMA CoveredOn ==
  ASSUME NEW fs \in Seq(Finding), NEW gs \in Seq(Finding), NEW hs \in Seq(Finding), Covered(fs, gs), Covered(gs, hs)
  PROVE  Covered(fs, hs)
<1> SUFFICES ASSUME NEW k \in DOMAIN fs PROVE \E m \in DOMAIN hs : Covers(hs[m], fs[k])
  BY DEF Covered
<1>1. PICK m \in DOMAIN gs : Covers(gs[m], fs[k])
  BY DEF Covered
<1>2. PICK l \in DOMAIN hs : Covers(hs[l], gs[m])
  BY DEF Covered
<1>3. fs[k] \in Finding /\ gs[m] \in Finding /\ hs[l] \in Finding
  BY ONLY fs \in Seq(Finding), gs \in Seq(Finding), hs \in Seq(Finding), k \in DOMAIN fs, m \in DOMAIN gs, l \in DOMAIN hs
<1>4. Covers(hs[l], fs[k])
  BY ONLY <1>1, <1>2, <1>3, CoversOn
<1> QED
  BY ONLY <1>4, l \in DOMAIN hs

LEMMA CoveredItself == ASSUME NEW fs \in Seq(Finding) PROVE Covered(fs, fs)
<1>1. \A k \in DOMAIN fs : fs[k] \in Finding
  OBVIOUS
<1> QED
  BY ONLY <1>1, CoversItself DEF Covered

LEMMA JoinedIs ==
  ASSUME NEW a \in Texts, NEW b \in Texts
  PROVE  Joined(a, b) \in Texts /\ ToSet(a) \subseteq ToSet(Joined(a, b)) /\ ToSet(b) \subseteq ToSet(Joined(a, b))
<1>1. a \in Seq(Nat) /\ b \in Seq(Nat) /\ a # <<>> /\ b # <<>>
  BY DEF Texts
<1>2. CASE Len(b) = 1 /\ b[1] \in ToSet(a)
  <2>1. Joined(a, b) = a
    BY ONLY <1>2 DEF Joined
  <2>2. \A k \in DOMAIN b : k = 1
    BY ONLY <1>1, <1>2
  <2>3. ToSet(b) \subseteq ToSet(a)
    BY ONLY <1>2, <2>2 DEF ToSet
  <2> QED
    BY ONLY <2>1, <2>3, a \in Texts
<1>3. CASE ~(Len(b) = 1 /\ b[1] \in ToSet(a))
  <2>1. PICK c : c = a \o b
    OBVIOUS
  <2>2. Joined(a, b) = c
    BY ONLY <1>3, <2>1 DEF Joined
  <2>3. c \in Seq(Nat) /\ Len(c) = Len(a) + Len(b) /\ Len(a) \in Nat \ {0} /\ Len(b) \in Nat
    BY ONLY <1>1, <2>1
  <2>4. c # <<>>
    BY ONLY <2>3
  <2>5. In(c) = In(a) \cup In(b)
    BY ONLY <1>1, <2>1, InConcat
  <2> QED
    BY ONLY <2>2, <2>3, <2>4, <2>5 DEF Texts, In, ToSet
<1> QED
  BY ONLY <1>2, <1>3

LEMMA MaxIs == ASSUME NEW a \in Nat, NEW b \in Nat PROVE Max2(a, b) \in Nat /\ Max2(a, b) >= a /\ Max2(a, b) >= b
BY DEF Max2

LEMMA CombineIs ==
  ASSUME NEW a \in Finding, NEW b \in Finding, a.file = b.file
  PROVE  Combine(a, b) \in Finding /\ Covers(Combine(a, b), a) /\ Covers(Combine(a, b), b)
<1>1. PICK c : c = Combine(a, b)
  OBVIOUS
<1>2. PICK s, d, t, e : s = Max2(a.sev, b.sev) /\ d = Max2(a.conf, b.conf) /\ t = Joined(a.body, b.body)
                        /\ e = IF b.conf > a.conf THEN b.by ELSE a.by
  OBVIOUS
<1>3. /\ a.file \in Nat /\ a.place \in Nat /\ a.sev \in Nat /\ a.conf \in Nat /\ a.body \in Texts /\ a.by \in Nat
      /\ b.sev \in Nat /\ b.conf \in Nat /\ b.body \in Texts /\ b.by \in Nat
      /\ a = [file |-> a.file, place |-> a.place, sev |-> a.sev, conf |-> a.conf, body |-> a.body, by |-> a.by, scope |-> a.scope]
  BY FindingIs
<1>4. /\ s \in Nat /\ s >= a.sev /\ s >= b.sev /\ d \in Nat /\ d >= a.conf /\ d >= b.conf
  BY ONLY <1>2, <1>3, MaxIs
<1>5. t \in Texts /\ ToSet(a.body) \subseteq ToSet(t) /\ ToSet(b.body) \subseteq ToSet(t)
  BY ONLY <1>2, <1>3, JoinedIs
<1>6. e \in Nat
  BY ONLY <1>2, <1>3
<1>7. c = [a EXCEPT !.sev = s, !.conf = d, !.body = t, !.by = e, !.scope = "chunk"]
  BY ONLY <1>1, <1>2 DEF Combine
<1>8. c = [file |-> a.file, place |-> a.place, sev |-> s, conf |-> d, body |-> t, by |-> e, scope |-> "chunk"]
  BY ONLY <1>3, <1>7
<1>9. c.file = a.file /\ c.sev = s /\ c.conf = d /\ c.body = t /\ c.scope = "chunk"
  BY ONLY <1>8
<1>10. "chunk" \in ScopeKinds
  BY DEF ScopeKinds
<1>11. c \in Finding
  BY ONLY <1>3, <1>4, <1>5, <1>6, <1>8, <1>10, InFinding
<1>12. Covers(c, a)
  BY ONLY <1>4, <1>5, <1>9 DEF Covers
<1>13. Covers(c, b)
  BY ONLY <1>4, <1>5, <1>9, a.file = b.file DEF Covers
<1> QED
  BY ONLY <1>1, <1>11, <1>12, <1>13

LEMMA AbsorbIs ==
  ASSUME NEW a \in Finding, NEW b \in Finding, a.file = b.file
  PROVE  Absorb(a, b) \in Finding /\ Covers(Absorb(a, b), a) /\ Covers(Absorb(a, b), b)
<1>1. PICK c : c = Absorb(a, b)
  OBVIOUS
<1>2. PICK s, d, t : s = Max2(a.sev, b.sev) /\ d = Max2(a.conf, b.conf) /\ t = Joined(a.body, b.body)
  OBVIOUS
<1>3. /\ a.file \in Nat /\ a.place \in Nat /\ a.sev \in Nat /\ a.conf \in Nat /\ a.body \in Texts /\ a.by \in Nat
      /\ b.sev \in Nat /\ b.conf \in Nat /\ b.body \in Texts
      /\ a = [file |-> a.file, place |-> a.place, sev |-> a.sev, conf |-> a.conf, body |-> a.body, by |-> a.by, scope |-> a.scope]
  BY FindingIs
<1>4. /\ s \in Nat /\ s >= a.sev /\ s >= b.sev /\ d \in Nat /\ d >= a.conf /\ d >= b.conf
  BY ONLY <1>2, <1>3, MaxIs
<1>5. t \in Texts /\ ToSet(a.body) \subseteq ToSet(t) /\ ToSet(b.body) \subseteq ToSet(t)
  BY ONLY <1>2, <1>3, JoinedIs
<1>7. c = [a EXCEPT !.sev = s, !.conf = d, !.body = t, !.scope = "chunk"]
  BY ONLY <1>1, <1>2 DEF Absorb
<1>8. c = [file |-> a.file, place |-> a.place, sev |-> s, conf |-> d, body |-> t, by |-> a.by, scope |-> "chunk"]
  BY ONLY <1>3, <1>7
<1>9. c.file = a.file /\ c.sev = s /\ c.conf = d /\ c.body = t /\ c.scope = "chunk"
  BY ONLY <1>8
<1>10. "chunk" \in ScopeKinds
  BY DEF ScopeKinds
<1>11. c \in Finding
  BY ONLY <1>3, <1>4, <1>5, <1>8, <1>10, InFinding
<1>12. Covers(c, a)
  BY ONLY <1>4, <1>5, <1>9 DEF Covers
<1>13. Covers(c, b)
  BY ONLY <1>4, <1>5, <1>9, a.file = b.file DEF Covers
<1> QED
  BY ONLY <1>1, <1>11, <1>12, <1>13

(* One finding is added: what was there and the finding are covered. *)
LEMMA AddExactIs ==
  ASSUME NEW out \in Seq(Finding), NEW f \in Finding, NEW r, r = AddExact(out, f)
  PROVE  r \in Seq(Finding) /\ Covered(out, r) /\ \E m \in DOMAIN r : Covers(r[m], f)
<1>0. PICK n \in Nat : n = Len(out) /\ DOMAIN out = 1..n /\ \A k \in 1..n : out[k] \in Finding
  OBVIOUS
<1>1. CASE \E i \in DOMAIN out : SamePlace(out[i], f)
  <2>1. PICK i : i = CHOOSE j \in DOMAIN out : SamePlace(out[j], f)
    OBVIOUS
  <2>2. i \in DOMAIN out /\ SamePlace(out[i], f)
    BY ONLY <1>1, <2>1
  <2>3. PICK a, c : a = out[i] /\ c = Combine(a, f)
    OBVIOUS
  <2>4. a \in Finding /\ a.file = f.file
    BY ONLY <1>0, <2>2, <2>3 DEF SamePlace
  <2>5. c \in Finding /\ Covers(c, a) /\ Covers(c, f)
    BY ONLY <2>3, <2>4, f \in Finding, CombineIs
  <2>6. r = [out EXCEPT ![i] = c]
    BY ONLY <1>1, <2>1, <2>3, r = AddExact(out, f) DEF AddExact
  <2>7. /\ r \in Seq(Finding) /\ DOMAIN r = 1..n /\ r[i] = c /\ \A k \in 1..n : k # i => r[k] = out[k]
    <3>1. out \in [1..n -> Finding]
      BY ONLY <1>0, out \in Seq(Finding)
    <3>2. r \in [1..n -> Finding] /\ r[i] = c /\ \A k \in 1..n : k # i => r[k] = out[k]
      BY ONLY <1>0, <2>2, <2>5, <2>6, <3>1
    <3> QED
      BY ONLY <3>2, n \in Nat
  <2>8. \A k \in 1..n : Covers(r[k], out[k])
    BY ONLY <1>0, <2>3, <2>5, <2>7, CoversItself
  <2>9. Covered(out, r)
    BY ONLY <1>0, <2>7, <2>8 DEF Covered
  <2> QED
    BY ONLY <1>0, <2>2, <2>5, <2>7, <2>9
<1>2. CASE ~\E i \in DOMAIN out : SamePlace(out[i], f)
  <2>1. r = Append(out, f)
    BY ONLY <1>2, r = AddExact(out, f) DEF AddExact
  <2>2. r \in Seq(Finding) /\ Len(r) = n + 1 /\ (\A k \in 1..n : r[k] = out[k]) /\ r[n + 1] = f
    BY ONLY <1>0, <2>1, out \in Seq(Finding), f \in Finding, Appended
  <2>3. DOMAIN r = 1..(n + 1)
    BY ONLY <2>2
  <2>4. \A k \in 1..n : k \in DOMAIN r /\ Covers(r[k], out[k])
    BY ONLY <1>0, <2>2, <2>3, CoversItself
  <2>5. Covered(out, r)
    BY ONLY <1>0, <2>4 DEF Covered
  <2>6. Covers(r[n + 1], f) /\ n + 1 \in DOMAIN r
    BY ONLY <2>2, <2>3, f \in Finding, n \in Nat, CoversItself
  <2> QED
    BY ONLY <2>2, <2>5, <2>6
<1> QED
  BY ONLY <1>1, <1>2

ExactFold(g, fs) == g = [s \in SUBSET (DOMAIN fs) |-> IF s = {} THEN <<>> ELSE AddExact(g[s \ {Max(s)}], fs[Max(s)])]

LEMMA ExactUnfolds == ASSUME NEW fs PROVE AggregateExact(fs) = (CHOOSE g : ExactFold(g, fs))[DOMAIN fs]
BY ONLY DEF AggregateExact, FoldLeft, MapThenFoldSet, ExactFold

LEMMA ExactIs ==
  ASSUME NEW fs \in Seq(Finding)
  PROVE  AggregateExact(fs) \in Seq(Finding) /\ Covered(fs, AggregateExact(fs))
<1>0. PICK n \in Nat : n = Len(fs) /\ DOMAIN fs = 1..n /\ \A k \in 1..n : fs[k] \in Finding
  OBVIOUS
<1>1. PICK X : X = Seq(Finding)
  OBVIOUS
<1>2. PICK F : F = [k \in 1..n |-> [x \in X |-> AddExact(x, fs[k])]]
  OBVIOUS
<1>3. \A k \in 1..n, x \in X : AddExact(x, fs[k]) \in X
  BY ONLY <1>0, <1>1, AddExactIs
<1>4. F \in [1..n -> [X -> X]] /\ \A k \in 1..n, x \in X : F[k][x] = AddExact(x, fs[k])
  BY ONLY <1>2, <1>3
<1>5. <<>> \in X
  BY ONLY <1>1
<1>6. PICK g \in [SUBSET (1..n) -> X] : Folds(g, n, <<>>, F)
  BY ONLY <1>4, <1>5, n \in Nat, FoldExists
<1>7. ASSUME NEW s \in SUBSET (1..n), s # {} PROVE g[s] = AddExact(g[s \ {Max(s)}], fs[Max(s)])
  <2>1. g[s] = F[Max(s)][g[s \ {Max(s)}]]
    BY ONLY <1>6, <1>7 DEF Folds
  <2>2. Max(s) \in s
    BY ONLY <1>7, n \in Nat, MaxOf
  <2>3. Max(s) \in 1..n /\ s \ {Max(s)} \in SUBSET (1..n)
    BY ONLY <1>7, <2>2
  <2>4. g[s \ {Max(s)}] \in X
    BY ONLY <2>3, g \in [SUBSET (1..n) -> X]
  <2> QED
    BY ONLY <1>4, <2>1, <2>3, <2>4
<1>8. ExactFold(g, fs)
  <2>1. g[{}] = <<>>
    BY ONLY <1>6 DEF Folds
  <2>2. \A s \in SUBSET (1..n) : g[s] = IF s = {} THEN <<>> ELSE AddExact(g[s \ {Max(s)}], fs[Max(s)])
    BY ONLY <1>7, <2>1
  <2> QED
    BY ONLY <1>0, <2>2, g \in [SUBSET (1..n) -> X] DEF ExactFold
<1>9. PICK c : c = CHOOSE h : ExactFold(h, fs)
  OBVIOUS
<1>10. ExactFold(c, fs)
  BY ONLY <1>8, <1>9
<1>11. PICK v : v = [s \in SUBSET (1..n) |-> AddExact(c[s \ {Max(s)}], fs[Max(s)])]
  OBVIOUS
<1>12. Unfolds(c, n, <<>>, v)
  BY ONLY <1>0, <1>10, <1>11 DEF ExactFold, Unfolds
<1>13. ASSUME NEW k \in 1..n, c[1..(k - 1)] \in X PROVE v[1..k] = F[k][c[1..(k - 1)]]
  <2>1. k \in Nat /\ k # 0 /\ 1..k \in SUBSET (1..n)
    BY ONLY k \in 1..n, n \in Nat
  <2>2. Max(1..k) = k /\ (1..k) \ {Max(1..k)} = 1..(k - 1)
    BY ONLY <2>1, MaxOfPrefix
  <2>3. v[1..k] = AddExact(c[1..(k - 1)], fs[k])
    BY ONLY <1>11, <2>1, <2>2
  <2> QED
    BY ONLY <1>4, <1>13, <2>3
<1>a. Steps(c, n, X, F, v)
  BY ONLY <1>13 DEF Steps
<1>14. PICK h \in [0..n -> X] : h[0] = <<>> /\ (\A k \in 1..n : h[k] = F[k][h[k - 1]]) /\ h[n] = c[1..n]
  <2>0. F \in [1..n -> [X -> X]]
    BY ONLY <1>4
  <2>1. Climbs(c, n, X, <<>>, F)
    BY ONLY <1>5, <1>12, <1>a, <2>0, n \in Nat, FoldPrefixes
  <2> QED
    BY ONLY <2>1 DEF Climbs
<1>15. AggregateExact(fs) = h[n]
  BY ONLY <1>0, <1>9, <1>14, ExactUnfolds
<1>16. ASSUME NEW k \in 1..n PROVE Covered(h[k - 1], h[k]) /\ (\E m \in DOMAIN h[k] : Covers(h[k][m], fs[k])) /\ h[k - 1] \in X /\ h[k] \in X
  <2>1. k \in 0..n /\ k - 1 \in 0..n
    BY ONLY k \in 1..n, n \in Nat
  <2>2. h[k - 1] \in X /\ h[k] \in X
    BY ONLY <2>1, h \in [0..n -> X]
  <2>3. h[k] = AddExact(h[k - 1], fs[k])
    BY ONLY <1>4, <1>14, <2>2, k \in 1..n
  <2> QED
    BY ONLY <1>0, <1>1, <2>2, <2>3, k \in 1..n, AddExactIs
<1> DEFINE P == {k \in Nat : k <= n => \A j \in 1..k : \E m \in DOMAIN h[k] : Covers(h[k][m], fs[j])}
<1>17. 0 \in P
  OBVIOUS
<1>18. ASSUME NEW k \in Nat, k \in P PROVE k + 1 \in P
  <2> SUFFICES ASSUME k + 1 <= n, NEW j \in 1..(k + 1) PROVE \E m \in DOMAIN h[k + 1] : Covers(h[k + 1][m], fs[j])
    OBVIOUS
  <2>1. PICK q : q = k + 1
    OBVIOUS
  <2>2. q \in 1..n /\ q - 1 = k /\ k <= n
    BY ONLY <2>1, k \in Nat, n \in Nat, k + 1 <= n
  <2>3. Covered(h[k], h[q]) /\ (\E m \in DOMAIN h[q] : Covers(h[q][m], fs[q])) /\ h[k] \in X /\ h[q] \in X
    BY ONLY <1>16, <2>2
  <2>4. CASE j = q
    BY ONLY <2>1, <2>3, <2>4
  <2>5. CASE j # q
    <3>1. j \in 1..k
      BY ONLY <2>1, <2>5, k \in Nat, j \in 1..(k + 1)
    <3>2. PICK m \in DOMAIN h[k] : Covers(h[k][m], fs[j])
      BY ONLY <1>18, <2>2, <3>1
    <3>3. PICK l \in DOMAIN h[q] : Covers(h[q][l], h[k][m])
      BY ONLY <2>3 DEF Covered
    <3>4. h[k][m] \in Finding /\ h[q][l] \in Finding
      BY ONLY <1>1, <2>3, m \in DOMAIN h[k], l \in DOMAIN h[q]
    <3>5. fs[j] \in Finding
      BY ONLY <1>0, <2>2, <3>1, n \in Nat, k \in Nat
    <3>6. Covers(h[q][l], fs[j])
      BY ONLY <3>2, <3>3, <3>4, <3>5, CoversOn
    <3> QED
      BY ONLY <2>1, <3>6, l \in DOMAIN h[q]
  <2> QED
    BY ONLY <2>4, <2>5
<1>19. Nat \subseteq P
  <2> HIDE DEF P
  <2> QED
    BY ONLY <1>17, <1>18, CountingUp
<1>20. \A j \in 1..n : \E m \in DOMAIN h[n] : Covers(h[n][m], fs[j])
  BY <1>19
<1>21. h[n] \in X
  BY ONLY h \in [0..n -> X], n \in Nat
<1> QED
  BY ONLY <1>0, <1>1, <1>15, <1>20, <1>21 DEF Covered

(* The slots of the greedy pass. Whatever is needed stays covered by a slot  *)
(* that has not been consumed.                                               *)
SlotRow == [f : Finding, vec : Nat, consumed : BOOLEAN]
Open(s, k) == s[k].consumed = FALSE
CoveredIn(s, n, f) == \E m \in 1..n : Open(s, m) /\ Covers(s[m].f, f)
Slots(n, Need) == {s \in [1..n -> SlotRow] : \A f \in Need : CoveredIn(s, n, f)}

LEMMA SlotIs ==
  ASSUME NEW a \in SlotRow
  PROVE  /\ a = [f |-> a.f, vec |-> a.vec, consumed |-> a.consumed]
         /\ a.f \in Finding /\ a.vec \in Nat /\ a.consumed \in BOOLEAN
BY DEF SlotRow

LEMMA InSlot ==
  ASSUME NEW x \in Finding, NEW v \in Nat, NEW b \in BOOLEAN
  PROVE  [f |-> x, vec |-> v, consumed |-> b] \in SlotRow
BY DEF SlotRow

LEMMA TryAbsorbIs ==
  ASSUME NEW n \in Nat, NEW Need, Need \subseteq Finding, NEW s \in Slots(n, Need), NEW i \in 1..n, NEW j \in 1..n, i # j,
         Open(s, i), NEW r, r = TryAbsorb(s, i, j)
  PROVE  r \in Slots(n, Need) /\ Open(r, i)
<1>0. s \in [1..n -> SlotRow] /\ \A f \in Need : CoveredIn(s, n, f)
  BY DEF Slots
<1>1. PICK a, b : a = s[i] /\ b = s[j]
  OBVIOUS
<1>2. a \in SlotRow /\ b \in SlotRow
  BY ONLY <1>0, <1>1, i \in 1..n, j \in 1..n
<1>3. PICK af, av, bf, bv : af = a.f /\ av = a.vec /\ bf = b.f /\ bv = b.vec
  OBVIOUS
<1>4. /\ a = [f |-> af, vec |-> av, consumed |-> FALSE] /\ af \in Finding /\ av \in Nat
  BY ONLY <1>1, <1>2, <1>3, Open(s, i), SlotIs DEF Open
<1>5. CASE b.consumed \/ af.file # bf.file \/ ~Close(av, bv)
  <2>1. r = s
    BY ONLY <1>1, <1>3, <1>5, r = TryAbsorb(s, i, j) DEF TryAbsorb
  <2> QED
    BY ONLY <2>1, s \in Slots(n, Need), Open(s, i)
<1>6. CASE ~(b.consumed \/ af.file # bf.file \/ ~Close(av, bv))
  <2>1. /\ b = [f |-> bf, vec |-> bv, consumed |-> FALSE] /\ bf \in Finding /\ bv \in Nat
    <3>1. b = [f |-> bf, vec |-> bv, consumed |-> b.consumed] /\ bf \in Finding /\ bv \in Nat /\ b.consumed \in BOOLEAN
      BY ONLY <1>2, <1>3, SlotIs
    <3>2. b.consumed = FALSE
      BY ONLY <1>6, <3>1
    <3> QED
      BY ONLY <3>1, <3>2
  <2>2. af.file = bf.file
    BY ONLY <1>6
  <2>3. PICK e : e = IF bf.conf > af.conf THEN [f |-> Absorb(bf, af), vec |-> bv, consumed |-> FALSE] ELSE [a EXCEPT !.f = Absorb(af, bf)]
    OBVIOUS
  <2>4. r = [s EXCEPT ![j].consumed = TRUE, ![i] = e]
    BY ONLY <1>1, <1>3, <1>6, <2>3, r = TryAbsorb(s, i, j) DEF TryAbsorb
  <2>5. e \in SlotRow /\ e.consumed = FALSE /\ Covers(e.f, af) /\ Covers(e.f, bf)
    <3>1. CASE bf.conf > af.conf
      <4>1. PICK x : x = Absorb(bf, af)
        OBVIOUS
      <4>2. x \in Finding /\ Covers(x, bf) /\ Covers(x, af)
        BY ONLY <1>4, <2>1, <2>2, <4>1, AbsorbIs
      <4>3. e = [f |-> x, vec |-> bv, consumed |-> FALSE]
        BY ONLY <2>3, <3>1, <4>1
      <4>4. e \in SlotRow
        BY ONLY <2>1, <4>2, <4>3, InSlot
      <4> QED
        BY ONLY <4>2, <4>3, <4>4
    <3>2. CASE ~(bf.conf > af.conf)
      <4>1. PICK x : x = Absorb(af, bf)
        OBVIOUS
      <4>2. x \in Finding /\ Covers(x, bf) /\ Covers(x, af)
        BY ONLY <1>4, <2>1, <2>2, <4>1, AbsorbIs
      <4>3. e = [a EXCEPT !.f = x]
        BY ONLY <2>3, <3>2, <4>1
      <4>4. e = [f |-> x, vec |-> av, consumed |-> FALSE]
        BY ONLY <1>4, <4>3
      <4>5. e \in SlotRow
        BY ONLY <1>4, <4>2, <4>4, InSlot
      <4> QED
        BY ONLY <4>2, <4>4, <4>5
    <3> QED
      BY ONLY <3>1, <3>2
  <2>6. PICK z : z = [b EXCEPT !.consumed = TRUE]
    OBVIOUS
  <2>7. z = [f |-> bf, vec |-> bv, consumed |-> TRUE]
    BY ONLY <2>1, <2>6
  <2>8. z \in SlotRow
    BY ONLY <2>1, <2>7, InSlot
  <2>9. r = [[s EXCEPT ![j] = z] EXCEPT ![i] = e]
    BY ONLY <1>1, <2>4, <2>6
  <2>10. /\ r \in [1..n -> SlotRow] /\ r[i] = e /\ \A k \in 1..n : k # i /\ k # j => r[k] = s[k]
    BY ONLY <1>0, <2>5, <2>8, <2>9, i \in 1..n, j \in 1..n
  <2>11. ASSUME NEW f \in Need PROVE CoveredIn(r, n, f)
    <3>1. PICK m \in 1..n : Open(s, m) /\ Covers(s[m].f, f)
      BY ONLY <1>0, <2>11 DEF CoveredIn
    <3>2. f \in Finding
      BY ONLY <2>11, Need \subseteq Finding
    <3>3. CASE m # i /\ m # j
      BY ONLY <2>10, <3>1, <3>3, m \in 1..n DEF CoveredIn, Open
    <3>4. CASE m = i \/ m = j
      <4>1. Covers(af, f) \/ Covers(bf, f)
        BY ONLY <1>1, <1>3, <3>1, <3>4
      <4>2. e.f \in Finding
        BY ONLY <2>5, SlotIs
      <4>3. Covers(e.f, f)
        BY ONLY <1>4, <2>1, <2>5, <3>2, <4>1, <4>2, CoversOn
      <4> QED
        BY ONLY <2>5, <2>10, <4>3, i \in 1..n DEF CoveredIn, Open
    <3> QED
      BY ONLY <3>3, <3>4
  <2>12. Open(r, i)
    BY ONLY <2>5, <2>10 DEF Open
  <2> QED
    BY ONLY <2>10, <2>11, <2>12 DEF Slots
<1> QED
  BY ONLY <1>5, <1>6

AbsorbFold(g, t, i, m) ==
  g = [s \in SUBSET (DOMAIN m) |-> IF s = {} THEN t ELSE TryAbsorb(g[s \ {Max(s)}], i, m[Max(s)])]

Absorbing(t, i, m) == CHOOSE g : AbsorbFold(g, t, i, m)

LEMMA AbsorbUnfolds ==
  ASSUME NEW t, NEW i, ~t[i].consumed, NEW m, m = [k \in 1..(Len(t) - i) |-> i + k]
  PROVE  AbsorbFrom(t, i) = Absorbing(t, i, m)[DOMAIN m]
BY DEF AbsorbFrom, FoldLeft, MapThenFoldSet, AbsorbFold, Absorbing

LEMMA AbsorbFromIs ==
  ASSUME NEW n \in Nat, NEW Need, Need \subseteq Finding, NEW t \in Slots(n, Need), NEW i \in 1..n
  PROVE  AbsorbFrom(t, i) \in Slots(n, Need)
<1>0. t \in [1..n -> SlotRow]
  BY DEF Slots
<1>1. CASE t[i].consumed
  <2>1. AbsorbFrom(t, i) = t
    BY ONLY <1>1 DEF AbsorbFrom
  <2> QED
    BY ONLY <2>1, t \in Slots(n, Need)
<1>2. CASE ~t[i].consumed
  <2>0. Open(t, i)
    <3>1. t[i].consumed \in BOOLEAN
      BY ONLY <1>0, i \in 1..n, SlotIs
    <3> QED
      BY ONLY <1>2, <3>1 DEF Open
  <2>1. PICK X : X = {s \in Slots(n, Need) : Open(s, i)}
    OBVIOUS
  <2>2. t \in X
    BY ONLY <2>0, <2>1, t \in Slots(n, Need)
  <2>3. PICK q \in Nat : q = n - i
    BY ONLY i \in 1..n, n \in Nat
  <2>4. PICK m : m = [k \in 1..q |-> i + k]
    OBVIOUS
  <2>5. DOMAIN m = 1..q /\ \A k \in 1..q : m[k] \in 1..n /\ m[k] # i
    BY ONLY <2>3, <2>4, i \in 1..n, n \in Nat
  <2>6. PICK F : F = [k \in 1..q |-> [x \in X |-> TryAbsorb(x, i, m[k])]]
    OBVIOUS
  <2>7. ASSUME NEW k \in 1..q, NEW x \in X PROVE TryAbsorb(x, i, m[k]) \in X
    <3>1. PICK r, j : r = TryAbsorb(x, i, m[k]) /\ j = m[k]
      OBVIOUS
    <3>2. x \in Slots(n, Need) /\ Open(x, i) /\ j \in 1..n /\ i # j /\ r = TryAbsorb(x, i, j)
      BY ONLY <2>1, <2>5, <2>7, <3>1
    <3>3. r \in Slots(n, Need) /\ Open(r, i)
      BY ONLY <3>2, n \in Nat, i \in 1..n, Need \subseteq Finding, TryAbsorbIs
    <3> QED
      BY ONLY <2>1, <3>1, <3>3
  <2>8. F \in [1..q -> [X -> X]] /\ \A k \in 1..q, x \in X : F[k][x] = TryAbsorb(x, i, m[k])
    BY ONLY <2>6, <2>7
  <2>9. PICK g \in [SUBSET (1..q) -> X] : Folds(g, q, t, F)
    BY ONLY <2>2, <2>8, q \in Nat, FoldExists
  <2>10. ASSUME NEW s \in SUBSET (1..q), s # {} PROVE g[s] = TryAbsorb(g[s \ {Max(s)}], i, m[Max(s)])
    <3>1. g[s] = F[Max(s)][g[s \ {Max(s)}]]
      BY ONLY <2>9, <2>10 DEF Folds
    <3>2. Max(s) \in s
      BY ONLY <2>10, q \in Nat, MaxOf
    <3>3. Max(s) \in 1..q /\ s \ {Max(s)} \in SUBSET (1..q)
      BY ONLY <2>10, <3>2
    <3>4. g[s \ {Max(s)}] \in X
      BY ONLY <3>3, g \in [SUBSET (1..q) -> X]
    <3> QED
      BY ONLY <2>8, <3>1, <3>3, <3>4
  <2>11. AbsorbFold(g, t, i, m)
    <3>1. g[{}] = t
      BY ONLY <2>9 DEF Folds
    <3>2. \A s \in SUBSET (1..q) : g[s] = IF s = {} THEN t ELSE TryAbsorb(g[s \ {Max(s)}], i, m[Max(s)])
      BY ONLY <2>10, <3>1
    <3> QED
      BY ONLY <2>5, <3>2, g \in [SUBSET (1..q) -> X] DEF AbsorbFold
  <2>12. PICK c : c = Absorbing(t, i, m)
    OBVIOUS
  <2>13. AbsorbFold(c, t, i, m)
    BY ONLY <2>11, <2>12 DEF Absorbing
  <2>14. PICK v : v = [s \in SUBSET (1..q) |-> TryAbsorb(c[s \ {Max(s)}], i, m[Max(s)])]
    OBVIOUS
  <2>15. Unfolds(c, q, t, v)
    BY ONLY <2>5, <2>13, <2>14 DEF AbsorbFold, Unfolds
  <2>16. Steps(c, q, X, F, v)
    <3>1. ASSUME NEW k \in 1..q, c[1..(k - 1)] \in X PROVE v[1..k] = F[k][c[1..(k - 1)]]
      <4>1. k \in Nat /\ k # 0 /\ 1..k \in SUBSET (1..q)
        BY ONLY k \in 1..q, q \in Nat
      <4>2. Max(1..k) = k /\ (1..k) \ {Max(1..k)} = 1..(k - 1)
        BY ONLY <4>1, MaxOfPrefix
      <4>3. v[1..k] = TryAbsorb(c[1..(k - 1)], i, m[k])
        BY ONLY <2>14, <4>1, <4>2
      <4> QED
        BY ONLY <2>8, <3>1, <4>3
    <3> QED
      BY ONLY <3>1 DEF Steps
  <2>17. c[1..q] \in X
    <3>1. F \in [1..q -> [X -> X]]
      BY ONLY <2>8
    <3> QED
      BY ONLY <2>2, <2>15, <2>16, <3>1, q \in Nat, FoldStays
  <2>18. Len(t) = n
    BY ONLY <1>0, n \in Nat
  <2>19. AbsorbFrom(t, i) = c[1..q]
    <3>1. m = [k \in 1..(Len(t) - i) |-> i + k]
      BY ONLY <2>3, <2>4, <2>18
    <3>2. AbsorbFrom(t, i) = Absorbing(t, i, m)[DOMAIN m]
      BY ONLY <1>2, <3>1, AbsorbUnfolds
    <3> QED
      BY ONLY <2>5, <2>12, <3>2
  <2> QED
    BY ONLY <2>1, <2>17, <2>19
<1> QED
  BY ONLY <1>1, <1>2

(* Selecting positions of a list takes each of them and nothing else. *)
Selects(e, s, S) ==
  /\ \A x \in S : \E k \in DOMAIN e : e[k] = s[x]
  /\ \A k \in DOMAIN e : \E x \in S : e[k] = s[x]

LEMMA EntriesReach ==
  ASSUME NEW n \in Nat, NEW s, NEW S \in SUBSET (1..n), NEW e, e = EntriesAt(s, S)
  PROVE  DOMAIN e = 1..Cardinality(S) /\ Cardinality(S) \in Nat /\ Selects(e, s, S)
<1>1. PICK p, c : p = Positions(S) /\ c = Cardinality(S)
  OBVIOUS
<1>2. c \in Nat /\ p \in [1..c -> S] /\ \A x \in S : \E i \in 1..c : p[i] = x
  BY ONLY <1>1, n \in Nat, S \in SUBSET (1..n), PositionsAre
<1>3. e = [k \in 1..c |-> s[p[k]]]
  BY ONLY <1>1, <1>2, e = EntriesAt(s, S) DEF EntriesAt
<1>4. DOMAIN e = 1..c /\ \A k \in 1..c : e[k] = s[p[k]] /\ p[k] \in S
  BY ONLY <1>2, <1>3
<1>5. ASSUME NEW x \in S PROVE \E k \in DOMAIN e : e[k] = s[x]
  <2>1. PICK i \in 1..c : p[i] = x
    BY ONLY <1>2, <1>5
  <2> QED
    BY ONLY <1>4, <2>1
<1>6. ASSUME NEW k \in DOMAIN e PROVE \E x \in S : e[k] = s[x]
  BY ONLY <1>4, <1>6
<1>7. Selects(e, s, S)
  BY ONLY <1>5, <1>6 DEF Selects
<1> QED
  BY ONLY <1>1, <1>2, <1>4, <1>7

GreedyFold(g, t, m) ==
  g = [s \in SUBSET (DOMAIN m) |-> IF s = {} THEN t ELSE AbsorbFrom(g[s \ {Max(s)}], m[Max(s)])]
Greedy(t, m) == CHOOSE g : GreedyFold(g, t, m)
FreshSlots(fs) == [k \in DOMAIN fs |-> [f |-> fs[k], vec |-> Embedding(fs[k]), consumed |-> FALSE]]
OpenFindings(t) == LET left == EntriesAt(t, {k \in DOMAIN t : ~t[k].consumed}) IN [k \in DOMAIN left |-> left[k].f]

LEMMA SimilarUnfolds ==
  ASSUME NEW fs, NEW m, m = [k \in DOMAIN fs |-> k]
  PROVE  MergeSimilar(fs) = OpenFindings(Greedy(FreshSlots(fs), m)[DOMAIN m])
BY DEF MergeSimilar, FoldLeft, MapThenFoldSet, GreedyFold, Greedy, FreshSlots, OpenFindings

(* The greedy pass keeps whatever is needed covered. *)
LEMMA GreedyStays ==
  ASSUME NEW n \in Nat, NEW Need, Need \subseteq Finding, NEW t \in Slots(n, Need), NEW m, m = [k \in 1..n |-> k]
  PROVE  Greedy(t, m)[1..n] \in Slots(n, Need)
<1>1. PICK X : X = Slots(n, Need)
  OBVIOUS
<1>2. t \in X /\ DOMAIN m = 1..n /\ \A k \in 1..n : m[k] = k
  BY ONLY <1>1, t \in Slots(n, Need), m = [k \in 1..n |-> k]
<1>3. PICK F : F = [k \in 1..n |-> [x \in X |-> AbsorbFrom(x, m[k])]]
  OBVIOUS
<1>4. \A k \in 1..n, x \in X : AbsorbFrom(x, m[k]) \in X
  BY ONLY <1>1, <1>2, n \in Nat, Need \subseteq Finding, AbsorbFromIs
<1>5. F \in [1..n -> [X -> X]] /\ \A k \in 1..n, x \in X : F[k][x] = AbsorbFrom(x, m[k])
  BY ONLY <1>3, <1>4
<1>6. PICK g \in [SUBSET (1..n) -> X] : Folds(g, n, t, F)
  BY ONLY <1>2, <1>5, n \in Nat, FoldExists
<1>7. ASSUME NEW s \in SUBSET (1..n), s # {} PROVE g[s] = AbsorbFrom(g[s \ {Max(s)}], m[Max(s)])
  <2>1. g[s] = F[Max(s)][g[s \ {Max(s)}]]
    BY ONLY <1>6, <1>7 DEF Folds
  <2>2. Max(s) \in s
    BY ONLY <1>7, n \in Nat, MaxOf
  <2>3. Max(s) \in 1..n /\ s \ {Max(s)} \in SUBSET (1..n)
    BY ONLY <1>7, <2>2
  <2>4. g[s \ {Max(s)}] \in X
    BY ONLY <2>3, g \in [SUBSET (1..n) -> X]
  <2> QED
    BY ONLY <1>5, <2>1, <2>3, <2>4
<1>8. GreedyFold(g, t, m)
  <2>1. g[{}] = t
    BY ONLY <1>6 DEF Folds
  <2>2. \A s \in SUBSET (1..n) : g[s] = IF s = {} THEN t ELSE AbsorbFrom(g[s \ {Max(s)}], m[Max(s)])
    BY ONLY <1>7, <2>1
  <2> QED
    BY ONLY <1>2, <2>2, g \in [SUBSET (1..n) -> X] DEF GreedyFold
<1>9. PICK c : c = Greedy(t, m)
  OBVIOUS
<1>10. GreedyFold(c, t, m)
  BY ONLY <1>8, <1>9 DEF Greedy
<1>11. PICK v : v = [s \in SUBSET (1..n) |-> AbsorbFrom(c[s \ {Max(s)}], m[Max(s)])]
  OBVIOUS
<1>12. Unfolds(c, n, t, v)
  BY ONLY <1>2, <1>10, <1>11 DEF GreedyFold, Unfolds
<1>13. ASSUME NEW k \in 1..n, c[1..(k - 1)] \in X PROVE v[1..k] = F[k][c[1..(k - 1)]]
  <2>1. k \in Nat /\ k # 0 /\ 1..k \in SUBSET (1..n)
    BY ONLY k \in 1..n, n \in Nat
  <2>2. Max(1..k) = k /\ (1..k) \ {Max(1..k)} = 1..(k - 1)
    BY ONLY <2>1, MaxOfPrefix
  <2>3. v[1..k] = AbsorbFrom(c[1..(k - 1)], m[k])
    BY ONLY <1>11, <2>1, <2>2
  <2> QED
    BY ONLY <1>5, <1>13, <2>3
<1>14. Steps(c, n, X, F, v)
  BY ONLY <1>13 DEF Steps
<1>15. c[1..n] \in X
  <2>1. F \in [1..n -> [X -> X]]
    BY ONLY <1>5
  <2>2. t \in X
    BY ONLY <1>2
  <2> QED
    BY ONLY <1>12, <1>14, <2>1, <2>2, n \in Nat, FoldStays
<1> QED
  BY ONLY <1>1, <1>9, <1>15

LEMMA OpenFindingsAre ==
  ASSUME NEW n \in Nat, NEW Need, Need \subseteq Finding, NEW t \in Slots(n, Need)
  PROVE  /\ OpenFindings(t) \in Seq(Finding)
         /\ \A f \in Need : \E m \in DOMAIN OpenFindings(t) : Covers(OpenFindings(t)[m], f)
<1>0. t \in [1..n -> SlotRow] /\ \A f \in Need : CoveredIn(t, n, f)
  BY DEF Slots
<1>1. PICK S : S = {k \in DOMAIN t : ~t[k].consumed}
  OBVIOUS
<1>2. S \in SUBSET (1..n) /\ \A k \in 1..n : Open(t, k) => k \in S
  BY ONLY <1>0, <1>1 DEF Open
<1>3. PICK e, c : e = EntriesAt(t, S) /\ c = Cardinality(S)
  OBVIOUS
<1>a. DOMAIN e = 1..c /\ c \in Nat /\ Selects(e, t, S)
  BY ONLY <1>2, <1>3, n \in Nat, EntriesReach
<1>4. /\ DOMAIN e = 1..c /\ c \in Nat
      /\ \A x \in S : \E k \in DOMAIN e : e[k] = t[x]
      /\ \A k \in DOMAIN e : \E x \in S : e[k] = t[x]
  BY ONLY <1>a DEF Selects
<1>5. PICK r : r = [k \in DOMAIN e |-> e[k].f]
  OBVIOUS
<1>6. OpenFindings(t) = r
  BY ONLY <1>1, <1>3, <1>5 DEF OpenFindings
<1>7. \A x \in S : t[x] \in SlotRow
  BY ONLY <1>0, <1>2
<1>8. \A k \in 1..c : e[k] \in SlotRow
  BY ONLY <1>4, <1>7
<1>9. \A k \in 1..c : e[k].f \in Finding
  BY ONLY <1>8, SlotIs
<1>10. r \in [1..c -> Finding] /\ \A k \in 1..c : r[k] = e[k].f
  BY ONLY <1>4, <1>5, <1>9
<1>11. r \in Seq(Finding)
  BY ONLY <1>4, <1>10
<1>12. ASSUME NEW f \in Need PROVE \E m \in DOMAIN r : Covers(r[m], f)
  <2>1. PICK x \in 1..n : Open(t, x) /\ Covers(t[x].f, f)
    BY ONLY <1>0, <1>12 DEF CoveredIn
  <2>2. PICK k \in 1..c : e[k] = t[x]
    BY ONLY <1>2, <1>4, <2>1, x \in 1..n
  <2>3. r[k] = t[x].f
    BY ONLY <1>10, <2>2, k \in 1..c
  <2> QED
    BY ONLY <1>10, <2>1, <2>3, k \in 1..c
<1> QED
  BY ONLY <1>6, <1>11, <1>12

LEMMA SimilarIs ==
  ASSUME NEW fs \in Seq(Finding)
  PROVE  MergeSimilar(fs) \in Seq(Finding) /\ Covered(fs, MergeSimilar(fs))
<1>0. PICK n \in Nat : n = Len(fs) /\ DOMAIN fs = 1..n /\ \A k \in 1..n : fs[k] \in Finding
  OBVIOUS
<1>1. PICK t, m, Need : t = FreshSlots(fs) /\ m = [k \in 1..n |-> k] /\ Need = {fs[k] : k \in 1..n}
  OBVIOUS
<1>2. Need \subseteq Finding
  BY ONLY <1>0, <1>1
<1>3. ASSUME NEW k \in 1..n PROVE t[k] \in SlotRow /\ t[k].f = fs[k] /\ t[k].consumed = FALSE
  <2>1. PICK v : v = Embedding(fs[k])
    OBVIOUS
  <2>2. t[k] = [f |-> fs[k], vec |-> v, consumed |-> FALSE]
    BY ONLY <1>0, <1>1, <2>1, k \in 1..n DEF FreshSlots
  <2>3. fs[k].body \in Texts
    BY ONLY <1>0, k \in 1..n, FindingIs
  <2>4. v \in Nat
    <3>1. PICK b : b = fs[k].body
      OBVIOUS
    <3>2. b \in Seq(Nat) /\ b # <<>>
      BY ONLY <2>3, <3>1 DEF Texts
    <3>3. v = Head(b)
      BY ONLY <2>1, <3>1 DEF Embedding
    <3> QED
      BY ONLY <3>2, <3>3
  <2>5. fs[k] \in Finding
    BY ONLY <1>0, k \in 1..n
  <2>6. t[k] \in SlotRow
    BY ONLY <2>2, <2>4, <2>5, InSlot
  <2> QED
    BY ONLY <2>2, <2>6
<1>4. t \in Slots(n, Need)
  <2>1. t \in [1..n -> SlotRow]
    <3>1. t = [k \in 1..n |-> t[k]]
      BY ONLY <1>0, <1>1 DEF FreshSlots
    <3> QED
      BY ONLY <1>3, <3>1
  <2>2. ASSUME NEW k \in 1..n PROVE CoveredIn(t, n, fs[k])
    <3>1. Covers(fs[k], fs[k])
      BY ONLY <1>0, <2>2, CoversItself
    <3> QED
      BY ONLY <1>3, <2>2, <3>1 DEF CoveredIn, Open
  <2> QED
    BY ONLY <1>1, <2>1, <2>2 DEF Slots
<1>5. PICK u : u = Greedy(t, m)[1..n]
  OBVIOUS
<1>6. u \in Slots(n, Need)
  BY ONLY <1>1, <1>2, <1>4, <1>5, n \in Nat, GreedyStays
<1>7. MergeSimilar(fs) = OpenFindings(u)
  <2>1. m = [k \in DOMAIN fs |-> k] /\ DOMAIN m = 1..n
    BY ONLY <1>0, <1>1
  <2>2. MergeSimilar(fs) = OpenFindings(Greedy(FreshSlots(fs), m)[DOMAIN m])
    BY ONLY <2>1, SimilarUnfolds
  <2> QED
    BY ONLY <1>1, <1>5, <2>1, <2>2
<1>8. /\ OpenFindings(u) \in Seq(Finding)
      /\ \A f \in Need : \E l \in DOMAIN OpenFindings(u) : Covers(OpenFindings(u)[l], f)
  BY ONLY <1>2, <1>6, n \in Nat, OpenFindingsAre
<1> QED
  BY ONLY <1>0, <1>1, <1>7, <1>8 DEF Covered

LEMMA SemanticIs ==
  ASSUME NEW fs \in Seq(Finding), NEW ok, NEW gs, gs = AggregateSemantic(fs, ok)
  PROVE  gs \in Seq(Finding) /\ Covered(fs, gs)
<1>1. gs = fs \/ gs = MergeSimilar(fs)
  BY ONLY gs = AggregateSemantic(fs, ok) DEF AggregateSemantic
<1> QED
  BY ONLY <1>1, fs \in Seq(Finding), SimilarIs, CoveredItself

(* What is in scope stays, and it is all that stays. *)
LEMMA InScopeIs ==
  ASSUME NEW fs \in Seq(Finding), NEW gs, gs = InScope(fs)
  PROVE  gs \in Seq(Finding) /\ \A k \in DOMAIN fs : fs[k].scope = "chunk" => \E m \in DOMAIN gs : gs[m] = fs[k]
<1>0. PICK n \in Nat : n = Len(fs) /\ DOMAIN fs = 1..n /\ \A k \in 1..n : fs[k] \in Finding
  OBVIOUS
<1>1. PICK S : S = {k \in DOMAIN fs : fs[k].scope = "chunk"}
  OBVIOUS
<1>2. S \in SUBSET (1..n) /\ gs = EntriesAt(fs, S)
  BY ONLY <1>0, <1>1, gs = InScope(fs) DEF InScope
<1>a. Selects(gs, fs, S)
  BY ONLY <1>2, n \in Nat, EntriesReach
<1>3. \A x \in S : \E k \in DOMAIN gs : gs[k] = fs[x]
  BY ONLY <1>a DEF Selects
<1>4. ListOf(fs, n, Finding)
  BY ONLY <1>0 DEF ListOf
<1>5. gs \in Seq(Finding)
  BY ONLY <1>2, <1>4, EntriesAre
<1> QED
  BY ONLY <1>1, <1>3, <1>5

(* What is in scope of what the two sides brought. *)
Both(b) == b[1] \o b[2]
ScopeCovered(fs, gs) == \A k \in DOMAIN fs : fs[k].scope = "chunk" => \E m \in DOMAIN gs : Covers(gs[m], fs[k])

(* The stages: both sides bring findings, dedup covers all of them, and      *)
(* aggregation all that is in scope, of which the caps take the result.      *)
MergeInv ==
  /\ brought[1] \in Seq(Finding) /\ brought[2] \in Seq(Finding)
  /\ mergeAt = "aggregate" => merged \in Seq(Finding) /\ Covered(Both(brought), merged)
  /\ mergeAt = "aggregated" =>
       uncapped \in Seq(Finding) /\ merged = RankAndCap(uncapped) /\ ScopeCovered(Both(brought), uncapped)

LEMMA MergeStart == MergeInit => MergeInv
<1>1. <<>> \in Seq(Finding)
  OBVIOUS
<1>2. ASSUME MergeInit PROVE brought[1] = <<>> /\ brought[2] = <<>> /\ mergeAt = "input"
  BY ONLY <1>2 DEF MergeInit
<1> QED
  BY ONLY <1>1, <1>2 DEF MergeInv

LEMMA InputsAre == LinterIn \subseteq Seq(Finding) /\ LlmIn \subseteq Seq(Finding)
<1>1. LinterIn \cup LlmIn \subseteq Seq([file : Nat, place : Nat, sev : Nat, conf : Nat, body : Seq(Nat) \ {<<>>}, by : Nat,
                                     scope : {"chunk", "global"}])
  BY ONLY MergeAssumption
<1>2. LinterIn \cup LlmIn \subseteq Seq(Finding)
  BY ONLY <1>1 DEF Finding, Texts, ScopeKinds
<1> QED
  BY ONLY <1>2

LEMMA Deduplicated ==
  ASSUME NEW a \in Seq(Finding), NEW b \in Seq(Finding), NEW ok, NEW gs,
         gs = a \o b \/ gs = AggregateSemantic(AggregateExact(a \o b), ok)
  PROVE  gs \in Seq(Finding) /\ Covered(a \o b, gs)
<1>0. a \o b \in Seq(Finding)
  BY ONLY a \in Seq(Finding), b \in Seq(Finding)
<1>1. PICK fs : fs = a \o b
  OBVIOUS
<1>4. fs \in Seq(Finding)
  BY ONLY <1>0, <1>1
<1>2. CASE gs = fs
  BY ONLY <1>1, <1>2, <1>4, CoveredItself
<1>3. CASE gs = AggregateSemantic(AggregateExact(fs), ok)
  <2>1. PICK e : e = AggregateExact(fs)
    OBVIOUS
  <2>2. e \in Seq(Finding) /\ Covered(fs, e)
    BY ONLY <2>1, <1>4, ExactIs
  <2>3. gs \in Seq(Finding) /\ Covered(e, gs)
    BY ONLY <1>3, <2>1, <2>2, SemanticIs
  <2> QED
    BY ONLY <1>1, <2>2, <2>3, <1>4, CoveredOn
<1> QED
  BY ONLY <1>1, <1>2, <1>3, gs = a \o b \/ gs = AggregateSemantic(AggregateExact(a \o b), ok)

LEMMA Aggregated ==
  ASSUME NEW all \in Seq(Finding), NEW fs \in Seq(Finding), Covered(all, fs), NEW ok, NEW gs,
         gs = AggregateSemantic(AggregateExact(InScope(fs)), ok)
  PROVE  gs \in Seq(Finding) /\ ScopeCovered(all, gs)
<1>1. PICK s, e : s = InScope(fs) /\ e = AggregateExact(s)
  OBVIOUS
<1>2. s \in Seq(Finding) /\ \A k \in DOMAIN fs : fs[k].scope = "chunk" => \E m \in DOMAIN s : s[m] = fs[k]
  BY ONLY <1>1, fs \in Seq(Finding), InScopeIs
<1>3. e \in Seq(Finding) /\ Covered(s, e)
  BY ONLY <1>1, <1>2, ExactIs
<1>4. gs \in Seq(Finding) /\ Covered(e, gs)
  BY ONLY <1>1, <1>3, gs = AggregateSemantic(AggregateExact(InScope(fs)), ok), SemanticIs
<1>5. Covered(s, gs)
  BY ONLY <1>2, <1>3, <1>4, CoveredOn
<1>6. ASSUME NEW k \in DOMAIN all, all[k].scope = "chunk" PROVE \E m \in DOMAIN gs : Covers(gs[m], all[k])
  <2>1. PICK m \in DOMAIN fs : Covers(fs[m], all[k])
    BY ONLY <1>6, Covered(all, fs) DEF Covered
  <2>2. fs[m].scope = "chunk"
    BY ONLY <1>6, <2>1 DEF Covers
  <2>3. PICK l \in DOMAIN s : s[l] = fs[m]
    BY ONLY <1>2, <2>2, m \in DOMAIN fs
  <2>4. PICK j \in DOMAIN gs : Covers(gs[j], s[l])
    BY ONLY <1>5, l \in DOMAIN s DEF Covered
  <2>5. all[k] \in Finding /\ fs[m] \in Finding /\ gs[j] \in Finding
    BY ONLY <1>4, <1>6, m \in DOMAIN fs, j \in DOMAIN gs, all \in Seq(Finding), fs \in Seq(Finding)
  <2>6. Covers(gs[j], fs[m])
    BY ONLY <2>3, <2>4
  <2>7. Covers(gs[j], all[k])
    BY ONLY <2>1, <2>5, <2>6, CoversOn
  <2> QED
    BY ONLY <2>7, j \in DOMAIN gs
<1> QED
  BY ONLY <1>4, <1>6 DEF ScopeCovered

LEMMA MergeKeep == MergeInv /\ [MergeNext]_mergeVars => MergeInv'
<1> SUFFICES ASSUME MergeInv, [MergeNext]_mergeVars PROVE MergeInv'
  OBVIOUS
<1>0. brought[1] \in Seq(Finding) /\ brought[2] \in Seq(Finding)
  BY ONLY MergeInv DEF MergeInv
<1>1. CASE Bring
  <2>1. brought' \in LinterIn \X LlmIn /\ mergeAt' = "dedup"
    BY ONLY <1>1 DEF Bring
  <2>2. brought'[1] \in Seq(Finding) /\ brought'[2] \in Seq(Finding)
    BY ONLY <2>1, InputsAre
  <2> QED
    BY ONLY <2>1, <2>2 DEF MergeInv
<1>2. CASE DedupFindings
  <2>1. mergeAt' = "aggregate" /\ brought' = brought
    BY ONLY <1>2 DEF DedupFindings
  <2>2. PICK ok : merged' = brought[1] \o brought[2] \/ merged' = AggregateSemantic(AggregateExact(brought[1] \o brought[2]), ok)
    BY ONLY <1>2 DEF DedupFindings
  <2>3. PICK a, b, gs : a = brought[1] /\ b = brought[2] /\ gs = merged'
    OBVIOUS
  <2>a. a \in Seq(Finding) /\ b \in Seq(Finding)
    BY ONLY <1>0, <2>3
  <2>4. gs = a \o b \/ gs = AggregateSemantic(AggregateExact(a \o b), ok)
    BY ONLY <2>2, <2>3
  <2>5. gs \in Seq(Finding) /\ Covered(a \o b, gs)
    BY ONLY <2>4, <2>a, Deduplicated
  <2>6. Both(brought') = a \o b
    BY ONLY <2>1, <2>3 DEF Both
  <2>7. merged' \in Seq(Finding) /\ Covered(Both(brought'), merged')
    BY ONLY <2>3, <2>5, <2>6
  <2> QED
    BY ONLY <1>0, <2>1, <2>7 DEF MergeInv
<1>3. CASE AggregateFindings
  <2>1. mergeAt = "aggregate" /\ mergeAt' = "aggregated" /\ brought' = brought /\ merged' = RankAndCap(uncapped')
    BY ONLY <1>3 DEF AggregateFindings
  <2>2. PICK ok : uncapped' = AggregateSemantic(AggregateExact(InScope(merged)), ok)
    BY ONLY <1>3 DEF AggregateFindings
  <2>3. merged \in Seq(Finding) /\ Covered(Both(brought), merged)
    BY ONLY <2>1, MergeInv DEF MergeInv
  <2>4. Both(brought) \in Seq(Finding)
    BY ONLY <1>0 DEF Both
  <2>5. PICK gs : gs = uncapped'
    OBVIOUS
  <2>6. gs = AggregateSemantic(AggregateExact(InScope(merged)), ok)
    BY ONLY <2>2, <2>5
  <2>7. gs \in Seq(Finding) /\ ScopeCovered(Both(brought), gs)
    BY ONLY <2>3, <2>4, <2>6, Aggregated
  <2>8. uncapped' \in Seq(Finding) /\ ScopeCovered(Both(brought'), uncapped')
    BY ONLY <2>1, <2>5, <2>7
  <2> QED
    BY ONLY <1>0, <2>1, <2>8 DEF MergeInv
<1>4. CASE UNCHANGED mergeVars
  <2>1. mergeAt' = mergeAt /\ brought' = brought /\ merged' = merged /\ uncapped' = uncapped
    BY ONLY <1>4 DEF mergeVars
  <2>2. brought'[1] \in Seq(Finding) /\ brought'[2] \in Seq(Finding)
    BY ONLY <1>0, <2>1
  <2>3. ASSUME mergeAt' = "aggregate" PROVE merged' \in Seq(Finding) /\ Covered(Both(brought'), merged')
    BY ONLY <2>1, <2>3, MergeInv DEF MergeInv
  <2>4. ASSUME mergeAt' = "aggregated"
        PROVE  uncapped' \in Seq(Finding) /\ merged' = RankAndCap(uncapped') /\ ScopeCovered(Both(brought'), uncapped')
    BY ONLY <2>1, <2>4, MergeInv DEF MergeInv
  <2> QED
    BY ONLY <2>2, <2>3, <2>4 DEF MergeInv
<1> QED
  BY ONLY <1>1, <1>2, <1>3, <1>4, [MergeNext]_mergeVars DEF MergeNext

LEMMA NothingLost == MergeInv => MergingLosesNothing
<1>a. ASSUME MergeInv, mergeAt = "aggregated", NEW f \in ToSet(brought[1] \o brought[2]), f.scope = "chunk"
      PROVE  \E g \in ToSet(uncapped) :
                g.file = f.file /\ g.sev >= f.sev /\ g.conf >= f.conf /\ ToSet(f.body) \subseteq ToSet(g.body)
  <2>1. uncapped \in Seq(Finding) /\ ScopeCovered(Both(brought), uncapped)
    BY ONLY <1>a DEF MergeInv
  <2>2. PICK k \in DOMAIN Both(brought) : Both(brought)[k] = f
    <3>1. PICK b : b = brought[1] \o brought[2]
      OBVIOUS
    <3>2. \E k \in DOMAIN b : b[k] = f
      BY ONLY <3>1, <1>a DEF ToSet
    <3> QED
      BY ONLY <3>1, <3>2 DEF Both
  <2>3. PICK m \in DOMAIN uncapped : Covers(uncapped[m], f)
    BY ONLY <2>1, <2>2, <1>a DEF ScopeCovered
  <2>4. uncapped[m] \in ToSet(uncapped)
    BY ONLY m \in DOMAIN uncapped DEF ToSet
  <2>5. PICK g : g = uncapped[m]
    OBVIOUS
  <2>6. g.file = f.file /\ g.sev >= f.sev /\ g.conf >= f.conf /\ ToSet(f.body) \subseteq ToSet(g.body)
    BY ONLY <2>3, <2>5 DEF Covers
  <2> QED
    BY ONLY <2>4, <2>5, <2>6
<1> QED
  BY ONLY <1>a DEF MergingLosesNothing

-----------------------------------------------------------------------------
(* The caps. Ranking puts the more severe first, and of those the more       *)
(* confident; what comes first is never less important.                      *)
NoLess(a, d) == ~(d.sev > a.sev \/ (d.sev = a.sev /\ d.conf > a.conf))

RankOrder(fs) == {x \in (DOMAIN fs) \X (DOMAIN fs) : Outranks(fs, x[1], x[2])}

LEMMA RankedInOrder ==
  ASSUME NEW fs \in Seq(Finding), NEW n \in Nat, n = Len(fs), NEW R, R = RankOrder(fs)
  PROVE  /\ \A x, y \in 1..n : <<x, y>> \in R <=> Outranks(fs, x, y)
         /\ StrictOrder(R, 1..n)
<1>0. DOMAIN fs = 1..n /\ \A k \in 1..n : fs[k] \in Finding
  BY ONLY fs \in Seq(Finding), n = Len(fs)
<1>1. PICK a, b : a = [k \in 1..n |-> fs[k].sev] /\ b = [k \in 1..n |-> fs[k].conf]
  OBVIOUS
<1>2. \A k \in 1..n : a[k] = fs[k].sev /\ b[k] = fs[k].conf /\ fs[k].sev \in Nat /\ fs[k].conf \in Nat
  <2>1. \A k \in 1..n : fs[k].sev \in Nat /\ fs[k].conf \in Nat
    BY ONLY <1>0, FindingIs
  <2> QED
    BY ONLY <1>1, <2>1
<1>3. \A k \in 1..n : a[k] \in Nat /\ b[k] \in Nat /\ k \in Nat
  BY ONLY <1>2, n \in Nat
<1>4. \A x, y \in 1..n : <<x, y>> \in R <=> Outranks(fs, x, y)
  BY ONLY <1>0, R = RankOrder(fs) DEF RankOrder
<1>5. \A x, y \in 1..n : Outranks(fs, x, y) <=>
        \/ a[x] > a[y]
        \/ a[x] = a[y] /\ (b[x] > b[y] \/ (b[x] = b[y] /\ x < y))
  BY ONLY <1>2 DEF Outranks
<1>6. \A x, y \in 1..n : <<x, y>> \in R <=>
        \/ a[x] > a[y]
        \/ a[x] = a[y] /\ (b[x] > b[y] \/ (b[x] = b[y] /\ x < y))
  BY ONLY <1>4, <1>5
<1>7. ASSUME NEW x \in 1..n, NEW y \in 1..n PROVE x = y \/ <<x, y>> \in R \/ <<y, x>> \in R
  <2>1. a[x] \in Nat /\ b[x] \in Nat /\ x \in Nat /\ a[y] \in Nat /\ b[y] \in Nat /\ y \in Nat
    BY ONLY <1>3, <1>7
  <2>2. <<x, y>> \in R <=> a[x] > a[y] \/ (a[x] = a[y] /\ (b[x] > b[y] \/ (b[x] = b[y] /\ x < y)))
    BY ONLY <1>6, <1>7
  <2>3. <<y, x>> \in R <=> a[y] > a[x] \/ (a[y] = a[x] /\ (b[y] > b[x] \/ (b[y] = b[x] /\ y < x)))
    BY ONLY <1>6, <1>7
  <2>4. PICK i, j, k, l : i = a[x] /\ j = b[x] /\ k = a[y] /\ l = b[y]
    OBVIOUS
  <2>5. i \in Nat /\ j \in Nat /\ k \in Nat /\ l \in Nat /\ x \in Nat /\ y \in Nat
    BY ONLY <2>1, <2>4
  <2>6. x = y \/ (i > k \/ (i = k /\ (j > l \/ (j = l /\ x < y)))) \/ (k > i \/ (k = i /\ (l > j \/ (l = j /\ y < x))))
    BY ONLY <2>5
  <2> QED
    BY ONLY <2>2, <2>3, <2>4, <2>6
<1>8. ASSUME NEW x \in 1..n, NEW y \in 1..n, NEW z \in 1..n, <<x, y>> \in R, <<y, z>> \in R PROVE <<x, z>> \in R
  <2>1. a[x] > a[y] \/ (a[x] = a[y] /\ (b[x] > b[y] \/ (b[x] = b[y] /\ x < y)))
    BY ONLY <1>6, <1>8
  <2>2. a[y] > a[z] \/ (a[y] = a[z] /\ (b[y] > b[z] \/ (b[y] = b[z] /\ y < z)))
    BY ONLY <1>6, <1>8
  <2>3. PICK i, j, k, l, p, q : i = a[x] /\ j = b[x] /\ k = a[y] /\ l = b[y] /\ p = a[z] /\ q = b[z]
    OBVIOUS
  <2>4. /\ i \in Nat /\ j \in Nat /\ k \in Nat /\ l \in Nat /\ p \in Nat /\ q \in Nat
        /\ x \in Nat /\ y \in Nat /\ z \in Nat
    BY ONLY <1>3, <1>8, <2>3
  <2>5. i > k \/ (i = k /\ (j > l \/ (j = l /\ x < y)))
    BY ONLY <2>1, <2>3
  <2>6. k > p \/ (k = p /\ (l > q \/ (l = q /\ y < z)))
    BY ONLY <2>2, <2>3
  <2>7. i > p \/ (i = p /\ (j > q \/ (j = q /\ x < z)))
    BY ONLY <2>4, <2>5, <2>6
  <2>8. <<x, z>> \in R <=> a[x] > a[z] \/ (a[x] = a[z] /\ (b[x] > b[z] \/ (b[x] = b[z] /\ x < z)))
    BY ONLY <1>6, <1>8
  <2> QED
    BY ONLY <2>3, <2>7, <2>8
<1>9. ASSUME NEW x \in 1..n PROVE <<x, x>> \notin R
  <2>1. <<x, x>> \in R <=> a[x] > a[x] \/ (a[x] = a[x] /\ (b[x] > b[x] \/ (b[x] = b[x] /\ x < x)))
    BY ONLY <1>6, <1>9
  <2>2. a[x] \in Nat /\ b[x] \in Nat /\ x \in Nat
    BY ONLY <1>3, <1>9
  <2> QED
    BY ONLY <2>1, <2>2
<1>10. StrictOrder(R, 1..n)
  BY ONLY <1>7, <1>8, <1>9 DEF StrictOrder
<1> QED
  BY ONLY <1>4, <1>10

(* A ranked list: its entries, and their order. *)
RankedList(r, fs, n) ==
  /\ r \in [1..n -> Finding]
  /\ \A x \in 1..n : \E i \in 1..n : r[i] = fs[x]
  /\ \A i, j \in 1..n : i < j => NoLess(r[i], r[j])

LEMMA RankedIs ==
  ASSUME NEW fs \in Seq(Finding), NEW n \in Nat, n = Len(fs), NEW r, r = RankedFindings(fs)
  PROVE  RankedList(r, fs, n)
<1>0. DOMAIN fs = 1..n /\ \A k \in 1..n : fs[k] \in Finding
  BY ONLY fs \in Seq(Finding), n = Len(fs)
<1>1. PICK R, o : R = RankOrder(fs) /\ o = Sorted(1..n, R)
  OBVIOUS
<1>2. (\A x, y \in 1..n : <<x, y>> \in R <=> Outranks(fs, x, y)) /\ StrictOrder(R, 1..n)
  BY ONLY <1>1, fs \in Seq(Finding), n \in Nat, n = Len(fs), RankedInOrder
<1>3. IsFiniteSet(1..n) /\ Cardinality(1..n) = n
  BY ONLY n \in Nat, FS_Interval
<1>4. /\ o \in [1..n -> 1..n]
      /\ \A i, j \in 1..n : i < j => <<o[i], o[j]>> \in R
      /\ \A x \in 1..n : \E i \in 1..n : o[i] = x
  <2>1. PICK S, c : S = 1..n /\ c = Cardinality(S)
    OBVIOUS
  <2>2. IsFiniteSet(S) /\ StrictOrder(R, S) /\ o = Sorted(S, R) /\ c = n
    BY ONLY <1>1, <1>2, <1>3, <2>1
  <2>3. /\ o \in [1..Cardinality(S) -> S]
        /\ \A i, j \in 1..Cardinality(S) : i < j => <<o[i], o[j]>> \in R
        /\ \A x \in S : \E i \in 1..Cardinality(S) : o[i] = x
    BY ONLY <2>2, SortedIs
  <2> QED
    BY ONLY <2>1, <2>2, <2>3
<1>5. r = [k \in 1..n |-> fs[o[k]]]
  <2>1. r = [k \in DOMAIN fs |-> fs[Sorted(DOMAIN fs, RankOrder(fs))[k]]]
    BY ONLY r = RankedFindings(fs) DEF RankedFindings, RankOrder
  <2> QED
    BY ONLY <1>0, <1>1, <2>1
<1>6. \A k \in 1..n : o[k] \in 1..n /\ r[k] = fs[o[k]] /\ r[k] \in Finding
  BY ONLY <1>0, <1>4, <1>5
<1>7. r \in [1..n -> Finding]
  BY ONLY <1>5, <1>6
<1>8. ASSUME NEW x \in 1..n PROVE \E i \in 1..n : r[i] = fs[x]
  <2>1. PICK i \in 1..n : o[i] = x
    BY ONLY <1>4, <1>8
  <2> QED
    BY ONLY <1>6, <2>1, i \in 1..n
<1>9. ASSUME NEW i \in 1..n, NEW j \in 1..n, i < j PROVE NoLess(r[i], r[j])
  <2>1. PICK x \in 1..n, y \in 1..n : x = o[i] /\ y = o[j]
    BY ONLY <1>6, i \in 1..n, j \in 1..n
  <2>2. <<x, y>> \in R
    BY ONLY <1>4, <1>9, <2>1
  <2>3. Outranks(fs, x, y)
    BY ONLY <1>2, <2>2, x \in 1..n, y \in 1..n
  <2>4. PICK f, g : f = fs[x] /\ g = fs[y]
    OBVIOUS
  <2>5. f \in Finding /\ g \in Finding
    BY ONLY <1>0, <2>4, x \in 1..n, y \in 1..n
  <2>6. f.sev \in Nat /\ f.conf \in Nat /\ g.sev \in Nat /\ g.conf \in Nat
    BY ONLY <2>5, FindingIs
  <2>7. f.sev > g.sev \/ (f.sev = g.sev /\ f.conf >= g.conf)
    BY ONLY <2>3, <2>4, <2>6 DEF Outranks
  <2>8. NoLess(f, g)
    BY ONLY <2>6, <2>7 DEF NoLess
  <2>9. r[i] = f /\ r[j] = g
    BY ONLY <1>6, <2>1, <2>4, i \in 1..n, j \in 1..n
  <2> QED
    BY ONLY <2>8, <2>9
<1> QED
  BY ONLY <1>7, <1>8, <1>9 DEF RankedList

(* The first so many of a file. *)
Earlier(r, k, f) == {m \in 1..(k - 1) : r[m].file = f}
Admitted(r, n) == {k \in 1..n : Cardinality(Earlier(r, k, r[k].file)) < PerFile}

LEMMA BeforeIs ==
  ASSUME NEW n \in Nat, NEW r, NEW k \in 1..n, NEW f
  PROVE  /\ IsFiniteSet(Earlier(r, k, f)) /\ Cardinality(Earlier(r, k, f)) \in Nat
         /\ Earlier(r, k, f) \in SUBSET (1..n)
<1>1. Earlier(r, k, f) \subseteq 1..n
  BY ONLY n \in Nat, k \in 1..n DEF Earlier
<1>2. IsFiniteSet(1..n)
  BY ONLY n \in Nat, FS_Interval
<1>3. IsFiniteSet(Earlier(r, k, f))
  BY ONLY <1>1, <1>2, FS_Subset
<1> QED
  BY ONLY <1>1, <1>3, FS_CardinalityType

LowerThan(B, x) == {m \in B : m < x}

(* The t-th of some positions has t - 1 of them before it. *)
LEMMA BeforeTheNext ==
  ASSUME NEW n \in Nat, NEW B \in SUBSET (1..n), NEW N, N = Cardinality(B), NEW b, b = Positions(B), NEW t \in 1..N
  PROVE  Cardinality(LowerThan(B, b[t])) = t - 1
<1>1. /\ N \in Nat /\ b \in [1..N -> B]
      /\ (\A i, j \in 1..N : i < j => b[i] < b[j])
      /\ (\A i, j \in 1..N : b[i] = b[j] => i = j)
      /\ \A x \in B : \E i \in 1..N : b[i] = x
  BY ONLY n \in Nat, B \in SUBSET (1..n), N = Cardinality(B), b = Positions(B), PositionsAre
<1>2. PICK T, q : T = {m \in B : m < b[t]} /\ q = t - 1
  OBVIOUS
<1>3. PICK g : g = [i \in 1..q |-> b[i]]
  OBVIOUS
<1>4. q \in Nat /\ \A i \in 1..q : i \in 1..N /\ i < t
  BY ONLY <1>1, <1>2, t \in 1..N
<1>5. ASSUME NEW i \in 1..q PROVE g[i] = b[i] /\ b[i] \in T
  <2>1. i \in 1..N /\ i < t
    BY ONLY <1>4, <1>5
  <2>2. b[i] \in B /\ b[i] < b[t]
    BY ONLY <1>1, <2>1, t \in 1..N
  <2> QED
    BY ONLY <1>2, <1>3, <1>5, <2>2
<1>6. g \in [1..q -> T]
  BY ONLY <1>3, <1>5
<1>7. ASSUME NEW x \in T PROVE \E i \in 1..q : g[i] = x
  <2>1. x \in B /\ x < b[t]
    BY ONLY <1>2, <1>7
  <2>2. PICK i \in 1..N : b[i] = x
    BY ONLY <1>1, <2>1
  <2>3. b[i] \in Nat /\ b[t] \in Nat
    <3>1. b[i] \in B /\ b[t] \in B
      BY ONLY <1>1, i \in 1..N, t \in 1..N
    <3>2. B \subseteq Nat
      BY ONLY B \in SUBSET (1..n), n \in Nat
    <3> QED
      BY ONLY <3>1, <3>2
  <2>4. ~(t < i) /\ i # t
    <3>1. t < i => b[t] < b[i]
      BY ONLY <1>1, i \in 1..N, t \in 1..N
    <3> QED
      BY ONLY <2>1, <2>2, <2>3, <3>1
  <2>5. i \in 1..q
    BY ONLY <1>1, <1>2, <2>4, i \in 1..N, t \in 1..N
  <2> QED
    BY ONLY <1>5, <2>2, <2>5
<1>8. ASSUME NEW i \in 1..q, NEW j \in 1..q, g[i] = g[j] PROVE i = j
  <2>1. b[i] = b[j] /\ i \in 1..N /\ j \in 1..N
    BY ONLY <1>4, <1>5, <1>8
  <2> QED
    BY ONLY <1>1, <2>1
<1>9. g \in Bijection(1..q, T)
  BY ONLY <1>6, <1>7, <1>8 DEF Bijection, Injection, Surjection, IsInjective
<1>10. IsFiniteSet(1..q) /\ Cardinality(1..q) = q
  BY ONLY <1>4, FS_Interval
<1>11. Cardinality(T) = q
  <2>1. PICK I : I = 1..q
    OBVIOUS
  <2>2. ExistsBijection(I, T) /\ IsFiniteSet(I) /\ Cardinality(I) = q
    BY ONLY <1>9, <1>10, <2>1 DEF ExistsBijection
  <2>3. Cardinality(T) = Cardinality(I)
    BY ONLY <2>2, FS_Bijection
  <2> QED
    BY ONLY <2>2, <2>3
<1> QED
  BY ONLY <1>2, <1>11 DEF LowerThan

Taken(r, n, f) == {k \in Admitted(r, n) : r[k].file = f}

(* Where a file's cap leaves out a finding, it took as many before it as it  *)
(* may.                                                                      *)
LEMMA TakenIs ==
  ASSUME NEW n \in Nat, NEW r, NEW i \in 1..n, i \notin Admitted(r, n), NEW f, f = r[i].file
  PROVE  IsFiniteSet(Taken(r, n, f)) /\ Cardinality(Taken(r, n, f)) = PerFile /\ \A k \in Taken(r, n, f) : k < i
<1>0. PerFile \in Nat \ {0}
  BY MergeAssumption
<1>1. PICK B, N, b : B = Earlier(r, i, f) /\ N = Cardinality(B) /\ b = Positions(B)
  OBVIOUS
<1>2. IsFiniteSet(B) /\ N \in Nat /\ B \in SUBSET (1..n)
  BY ONLY <1>1, n \in Nat, i \in 1..n, BeforeIs
<1>a. N = Cardinality(B) /\ b = Positions(B) /\ B \in SUBSET (1..n)
  BY ONLY <1>1, <1>2
<1>3. PerFile <= N
  <2>1. ~(Cardinality(Earlier(r, i, r[i].file)) < PerFile)
    BY ONLY i \notin Admitted(r, n), i \in 1..n DEF Admitted
  <2> QED
    BY ONLY <1>0, <1>1, <1>2, <2>1, f = r[i].file
<1>4. /\ b \in [1..N -> B]
      /\ (\A t, u \in 1..N : b[t] = b[u] => t = u)
      /\ \A x \in B : \E t \in 1..N : b[t] = x
  BY ONLY <1>a, n \in Nat, PositionsAre
<1>5. \A x \in B : x \in 1..n /\ x < i /\ r[x].file = f
  BY ONLY <1>1, n \in Nat, i \in 1..n DEF Earlier
<1>6. ASSUME NEW t \in 1..N PROVE Cardinality(Earlier(r, b[t], f)) = t - 1
  <2>1. PICK x \in B : x = b[t]
    BY ONLY <1>4, <1>6
  <2>2. Earlier(r, x, f) = {m \in B : m < x}
    <3>1. ASSUME NEW m \in Earlier(r, x, f) PROVE m \in B /\ m < x
      <4>1. m \in 1..(x - 1) /\ r[m].file = f
        BY ONLY <3>1 DEF Earlier
      <4>2. m \in 1..(i - 1) /\ m < x
        BY ONLY <1>5, <4>1, x \in B, n \in Nat, i \in 1..n
      <4> QED
        BY ONLY <1>1, <4>1, <4>2 DEF Earlier
    <3>2. ASSUME NEW m \in B, m < x PROVE m \in Earlier(r, x, f)
      <4>1. m \in 1..n /\ r[m].file = f /\ x \in 1..n
        BY ONLY <1>5, <3>2, x \in B
      <4>2. m \in 1..(x - 1)
        BY ONLY <3>2, <4>1, n \in Nat
      <4> QED
        BY ONLY <4>1, <4>2 DEF Earlier
    <3> QED
      BY ONLY <3>1, <3>2
  <2>3. Cardinality(LowerThan(B, b[t])) = t - 1
    BY ONLY <1>a, <1>6, n \in Nat, BeforeTheNext
  <2> QED
    BY ONLY <2>1, <2>2, <2>3 DEF LowerThan
<1>7. PICK T : T = Taken(r, n, f)
  OBVIOUS
<1>8. ASSUME NEW k \in T PROVE k \in 1..n /\ r[k].file = f /\ Cardinality(Earlier(r, k, f)) < PerFile /\ k \in Admitted(r, n)
  BY ONLY <1>7, <1>8 DEF Taken, Admitted
<1>9. ASSUME NEW k \in T PROVE k < i
  <2> SUFFICES ASSUME ~(k < i) PROVE FALSE
    OBVIOUS
  <2>1. k \in 1..n /\ k # i
    BY ONLY <1>8, <1>9, i \notin Admitted(r, n)
  <2>2. i < k
    BY ONLY <2>1, ~(k < i), i \in 1..n, n \in Nat
  <2>3. PICK C, M : C = Earlier(r, k, f) /\ M = Cardinality(C)
    OBVIOUS
  <2>4. IsFiniteSet(C) /\ M \in Nat
    BY ONLY <2>1, <2>3, n \in Nat, BeforeIs
  <2>5. B \subseteq C
    <3>1. ASSUME NEW x \in B PROVE x \in C
      <4>1. x \in 1..n /\ x < i /\ r[x].file = f
        BY ONLY <1>5, <3>1
      <4>2. x \in 1..(k - 1)
        BY ONLY <2>1, <2>2, <4>1, n \in Nat, i \in 1..n
      <4> QED
        BY ONLY <2>3, <4>1, <4>2 DEF Earlier
    <3> QED
      BY ONLY <3>1
  <2>6. N <= M
    BY ONLY <1>1, <2>3, <2>4, <2>5, FS_Subset
  <2>7. M < PerFile
    BY ONLY <1>8, <1>9, <2>3
  <2> QED
    BY ONLY <1>0, <1>2, <1>3, <2>4, <2>6, <2>7
<1>10. PICK g : g = [t \in 1..PerFile |-> b[t]]
  OBVIOUS
<1>11. \A t \in 1..PerFile : t \in 1..N /\ t - 1 < PerFile
  BY ONLY <1>0, <1>2, <1>3
<1>12. ASSUME NEW t \in 1..PerFile PROVE g[t] = b[t] /\ b[t] \in T
  <2>1. t \in 1..N /\ t - 1 < PerFile
    BY ONLY <1>11, <1>12
  <2>2. PICK x \in B : x = b[t]
    BY ONLY <1>4, <2>1
  <2>3. x \in 1..n /\ r[x].file = f
    BY ONLY <1>5, x \in B
  <2>4. Cardinality(Earlier(r, x, f)) < PerFile
    BY ONLY <1>6, <2>1, <2>2
  <2>5. x \in T
    BY ONLY <1>7, <2>3, <2>4 DEF Taken, Admitted
  <2> QED
    BY ONLY <1>10, <1>12, <2>2, <2>5
<1>13. g \in [1..PerFile -> T]
  BY ONLY <1>10, <1>12
<1>14. ASSUME NEW k \in T PROVE \E t \in 1..PerFile : g[t] = k
  <2>1. k \in 1..n /\ r[k].file = f /\ Cardinality(Earlier(r, k, f)) < PerFile /\ k < i
    BY ONLY <1>8, <1>9, <1>14
  <2>2. k \in 1..(i - 1)
    BY ONLY <2>1, n \in Nat, i \in 1..n
  <2>3. k \in B
    BY ONLY <1>1, <2>1, <2>2 DEF Earlier
  <2>4. PICK t \in 1..N : b[t] = k
    BY ONLY <1>4, <2>3
  <2>5. t - 1 < PerFile
    BY ONLY <1>6, <2>1, <2>4, t \in 1..N
  <2>6. t \in 1..PerFile
    BY ONLY <1>0, <1>2, <2>5, t \in 1..N
  <2> QED
    BY ONLY <1>12, <2>4, <2>6
<1>15. ASSUME NEW t \in 1..PerFile, NEW u \in 1..PerFile, g[t] = g[u] PROVE t = u
  <2>1. b[t] = b[u] /\ t \in 1..N /\ u \in 1..N
    BY ONLY <1>11, <1>12, <1>15
  <2> QED
    BY ONLY <1>4, <2>1
<1>16. PICK I : I = 1..PerFile
  OBVIOUS
<1>17. g \in Bijection(I, T)
  BY ONLY <1>13, <1>14, <1>15, <1>16 DEF Bijection, Injection, Surjection, IsInjective
<1>18. IsFiniteSet(I) /\ Cardinality(I) = PerFile
  BY ONLY <1>0, <1>16, FS_Interval
<1>19. IsFiniteSet(T) /\ Cardinality(T) = Cardinality(I)
  BY ONLY <1>17, <1>18, FS_Bijection DEF ExistsBijection
<1> QED
  BY ONLY <1>7, <1>9, <1>18, <1>19

(* What the caps leave: the first so many of what the files' caps admit. *)
CappedTo(m, r, n, p, c, L) ==
  /\ c \in Nat /\ p \in [1..c -> Admitted(r, n)]
  /\ (\A i, j \in 1..c : i < j => p[i] < p[j])
  /\ (\A i, j \in 1..c : p[i] = p[j] => i = j)
  /\ (\A x \in Admitted(r, n) : \E i \in 1..c : p[i] = x)
  /\ L \in Nat /\ L <= c /\ DOMAIN m = 1..L /\ \A k \in 1..L : m[k] = r[p[k]]

LEMMA CappedIs ==
  ASSUME NEW fs \in Seq(Finding), NEW n \in Nat, n = Len(fs), NEW r, r = RankedFindings(fs), RankedList(r, fs, n),
         NEW m, m = RankAndCap(fs)
  PROVE  \E p, c, L : CappedTo(m, r, n, p, c, L)
<1>0. PerReview \in Nat \ {0}
  BY MergeAssumption
<1>1. r \in [1..n -> Finding] /\ DOMAIN r = 1..n
  BY ONLY RankedList(r, fs, n) DEF RankedList
<1>2. PICK S, p, c, e : S = Admitted(r, n) /\ p = Positions(S) /\ c = Cardinality(S) /\ e = EntriesAt(r, S)
  OBVIOUS
<1>3. S \in SUBSET (1..n)
  BY ONLY <1>2 DEF Admitted
<1>a. p = Positions(S) /\ c = Cardinality(S) /\ S \in SUBSET (1..n)
  BY ONLY <1>2, <1>3
<1>4. /\ c \in Nat /\ p \in [1..c -> S]
      /\ (\A i, j \in 1..c : i < j => p[i] < p[j])
      /\ (\A i, j \in 1..c : p[i] = p[j] => i = j)
      /\ \A x \in S : \E i \in 1..c : p[i] = x
  BY ONLY <1>a, n \in Nat, PositionsAre
<1>5. e = [k \in 1..c |-> r[p[k]]]
  BY ONLY <1>2, <1>4 DEF EntriesAt
<1>6. \A k \in 1..c : e[k] = r[p[k]] /\ e[k] \in Finding
  <2>1. \A k \in 1..c : p[k] \in 1..n
    BY ONLY <1>3, <1>4
  <2> QED
    BY ONLY <1>1, <1>5, <2>1
<1>7. e \in Seq(Finding) /\ Len(e) = c
  <2>1. e \in [1..c -> Finding]
    BY ONLY <1>5, <1>6
  <2> QED
    BY ONLY <1>4, <2>1
<1>8. m = IF Len(e) > PerReview THEN SubSeq(e, 1, PerReview) ELSE e
  <2>1. e = EntriesAt(r, {k \in DOMAIN r : Cardinality({l \in 1..(k - 1) : r[l].file = r[k].file}) < PerFile})
    BY ONLY <1>1, <1>2 DEF Admitted, Earlier
  <2> QED
    BY ONLY <2>1, m = RankAndCap(fs), r = RankedFindings(fs) DEF RankAndCap
<1>9. CASE c > PerReview
  <2>1. m = SubSeq(e, 1, PerReview) /\ PerReview \in Nat /\ PerReview <= c
    BY ONLY <1>0, <1>4, <1>7, <1>8, <1>9
  <2>2. Len(m) = PerReview /\ DOMAIN m = 1..PerReview /\ \A k \in 1..PerReview : m[k] = e[k]
    BY ONLY <1>7, <2>1
  <2>3. \A k \in 1..PerReview : k \in 1..c
    BY ONLY <1>4, <2>1
  <2>4. \A k \in 1..PerReview : m[k] = r[p[k]]
    BY ONLY <1>6, <2>2, <2>3
  <2>5. CappedTo(m, r, n, p, c, PerReview)
    BY ONLY <1>2, <1>4, <2>1, <2>2, <2>4 DEF CappedTo
  <2> QED
    BY ONLY <2>5
<1>10. CASE ~(c > PerReview)
  <2>1. m = e
    BY ONLY <1>7, <1>8, <1>10
  <2>2. DOMAIN m = 1..c /\ c <= c
    BY ONLY <1>4, <1>5, <2>1
  <2>3. CappedTo(m, r, n, p, c, c)
    BY ONLY <1>2, <1>4, <1>6, <2>1, <2>2 DEF CappedTo
  <2> QED
    BY ONLY <2>3
<1> QED
  BY ONLY <1>9, <1>10

(* Those of a list that are no less important than a finding. *)
AboveIn(m, d) == {k \in DOMAIN m : NoLess(m[k], d)}

LEMMA DroppedIs ==
  ASSUME NEW n \in Nat, NEW fs, NEW r, RankedList(r, fs, n), NEW m, NEW p, NEW c, NEW L, CappedTo(m, r, n, p, c, L),
         NEW i \in 1..n, NEW d, d = r[i], \A k \in 1..L : m[k] # d
  PROVE  \/ AboveIn(m, d) = DOMAIN m
         \/ Cardinality({k \in AboveIn(m, d) : m[k].file = d.file}) = PerFile
<1>1. /\ c \in Nat /\ p \in [1..c -> Admitted(r, n)]
      /\ (\A u, v \in 1..c : u < v => p[u] < p[v])
      /\ (\A u, v \in 1..c : p[u] = p[v] => u = v)
      /\ (\A x \in Admitted(r, n) : \E u \in 1..c : p[u] = x)
      /\ L \in Nat /\ L <= c /\ DOMAIN m = 1..L /\ \A k \in 1..L : m[k] = r[p[k]]
  BY ONLY CappedTo(m, r, n, p, c, L) DEF CappedTo
<1>2. \A u, v \in 1..n : u < v => NoLess(r[u], r[v])
  BY ONLY RankedList(r, fs, n) DEF RankedList
<1>3. Admitted(r, n) \subseteq 1..n
  BY ONLY DEF Admitted
<1>4. \A k \in 1..L : k \in 1..c /\ p[k] \in 1..n /\ p[k] \in Admitted(r, n)
  <2>1. \A k \in 1..L : k \in 1..c
    BY ONLY <1>1
  <2>2. \A k \in 1..L : p[k] \in Admitted(r, n)
    BY ONLY <1>1, <2>1
  <2> QED
    BY ONLY <1>3, <2>1, <2>2
<1>5. ASSUME NEW k \in 1..L, p[k] < i PROVE NoLess(m[k], d)
  <2>1. p[k] \in 1..n /\ m[k] = r[p[k]]
    BY ONLY <1>1, <1>4, <1>5
  <2>2. NoLess(r[p[k]], r[i])
    BY ONLY <1>2, <1>5, <2>1, i \in 1..n
  <2> QED
    BY ONLY <2>1, <2>2, d = r[i]
(* Something that comes before i was cut: all that was kept comes before i. *)
<1>6. ASSUME NEW j \in 1..c, j > L, p[j] <= i PROVE AboveIn(m, d) = DOMAIN m
  <2>1. ASSUME NEW k \in 1..L PROVE NoLess(m[k], d)
    <3>1. k \in 1..c /\ k < j /\ p[k] \in 1..n /\ p[j] \in 1..n
      <4>1. p[j] \in 1..n
        BY ONLY <1>1, <1>3, j \in 1..c
      <4> QED
        BY ONLY <1>1, <1>4, <1>6, <2>1, <4>1
    <3>2. p[k] < p[j]
      BY ONLY <1>1, <3>1, j \in 1..c
    <3>3. p[k] < i
      BY ONLY <1>6, <3>1, <3>2, i \in 1..n, n \in Nat
    <3> QED
      BY ONLY <1>5, <2>1, <3>3
  <2> QED
    BY ONLY <1>1, <2>1 DEF AboveIn
<1>7. CASE i \in Admitted(r, n)
  <2>1. PICK j \in 1..c : p[j] = i
    BY ONLY <1>1, <1>7
  <2>2. j \notin 1..L
    <3> SUFFICES ASSUME j \in 1..L PROVE FALSE
      OBVIOUS
    <3>1. m[j] = d
      BY ONLY <1>1, <2>1, j \in 1..L, d = r[i]
    <3> QED
      BY ONLY <3>1, j \in 1..L, \A k \in 1..L : m[k] # d
  <2>3. j > L /\ p[j] <= i
    BY ONLY <1>1, <2>1, <2>2, j \in 1..c, i \in 1..n, n \in Nat
  <2> QED
    BY ONLY <1>6, <2>3, j \in 1..c
<1>8. CASE i \notin Admitted(r, n)
  <2>1. PICK f, T : f = d.file /\ T = Taken(r, n, f)
    OBVIOUS
  <2>2. IsFiniteSet(T) /\ Cardinality(T) = PerFile /\ \A x \in T : x < i
    BY ONLY <1>8, <2>1, n \in Nat, i \in 1..n, d = r[i], TakenIs
  <2>3. \A x : x \in T <=> x \in Admitted(r, n) /\ r[x].file = f
    BY ONLY <2>1 DEF Taken
  <2>4. CASE \E j \in 1..c : j > L /\ p[j] \in T
    <3>1. PICK j \in 1..c : j > L /\ p[j] \in T
      BY ONLY <2>4
    <3>2. p[j] \in 1..n /\ p[j] < i
      BY ONLY <1>3, <2>2, <2>3, <3>1
    <3>3. p[j] <= i
      BY ONLY <3>2, i \in 1..n, n \in Nat
    <3> QED
      BY ONLY <1>6, <3>1, <3>3, j \in 1..c
  <2>5. CASE ~ \E j \in 1..c : j > L /\ p[j] \in T
    <3>1. PICK K : K = {k \in AboveIn(m, d) : m[k].file = d.file}
      OBVIOUS
    <3>2. ASSUME NEW k \in K PROVE k \in 1..L /\ p[k] \in T
      <4>1. k \in 1..L /\ m[k].file = f
        BY ONLY <1>1, <2>1, <3>1, <3>2 DEF AboveIn
      <4>2. r[p[k]].file = f /\ p[k] \in Admitted(r, n)
        BY ONLY <1>1, <1>4, <4>1
      <4> QED
        BY ONLY <2>3, <4>1, <4>2
    <3>3. ASSUME NEW x \in T PROVE \E k \in K : p[k] = x
      <4>1. x \in Admitted(r, n) /\ r[x].file = f /\ x < i
        BY ONLY <2>2, <2>3, <3>3
      <4>2. PICK k \in 1..c : p[k] = x
        BY ONLY <1>1, <4>1
      <4>3. ~(k > L)
        BY ONLY <2>5, <3>3, <4>2, k \in 1..c
      <4>4. k \in 1..L
        BY ONLY <1>1, <4>3, k \in 1..c
      <4>5. NoLess(m[k], d)
        BY ONLY <1>5, <4>1, <4>2, <4>4
      <4>6. m[k].file = d.file
        BY ONLY <1>1, <2>1, <4>1, <4>2, <4>4
      <4>7. k \in AboveIn(m, d)
        BY ONLY <1>1, <4>4, <4>5 DEF AboveIn
      <4>8. k \in K
        BY ONLY <3>1, <4>6, <4>7
      <4> QED
        BY ONLY <4>2, <4>8
    <3>4. PICK g : g = [k \in K |-> p[k]]
      OBVIOUS
    <3>5. g \in [K -> T] /\ \A k \in K : g[k] = p[k]
      BY ONLY <3>2, <3>4
    <3>6. ASSUME NEW k \in K, NEW l \in K, g[k] = g[l] PROVE k = l
      <4>1. p[k] = p[l] /\ k \in 1..c /\ l \in 1..c
        BY ONLY <1>4, <3>2, <3>5, <3>6
      <4> QED
        BY ONLY <1>1, <4>1
    <3>7. ASSUME NEW x \in T PROVE \E k \in K : g[k] = x
      BY ONLY <3>3, <3>5, <3>7
    <3>8. g \in Bijection(K, T)
      BY ONLY <3>5, <3>6, <3>7 DEF Bijection, Injection, Surjection, IsInjective
    <3>9. IsFiniteSet(K)
      <4>1. IsFiniteSet(1..L)
        BY ONLY <1>1, FS_Interval
      <4>2. K \subseteq 1..L
        BY ONLY <3>2
      <4> QED
        BY ONLY <4>1, <4>2, FS_Subset
    <3>10. Cardinality(K) = Cardinality(T)
      BY ONLY <3>8, <3>9, FS_Bijection DEF ExistsBijection
    <3>11. Cardinality(K) = PerFile
      BY ONLY <2>2, <3>10
    <3> QED
      BY ONLY <3>1, <3>11
  <2> QED
    BY ONLY <2>4, <2>5
<1> QED
  BY ONLY <1>7, <1>8

LEMMA LeastDropped == MergeInv => CapsDropTheLeast
<1>a. ASSUME MergeInv, mergeAt = "aggregated", NEW d \in ToSet(uncapped) \ ToSet(merged)
      PROVE  \/ AboveIn(merged, d) = DOMAIN merged
             \/ Cardinality({k \in AboveIn(merged, d) : merged[k].file = d.file}) = PerFile
  <2>1. uncapped \in Seq(Finding) /\ merged = RankAndCap(uncapped)
    BY ONLY <1>a DEF MergeInv
  <2>2. PICK fs, n, r, m : fs = uncapped /\ n = Len(uncapped) /\ r = RankedFindings(uncapped) /\ m = merged
    OBVIOUS
  <2>3. fs \in Seq(Finding) /\ n \in Nat /\ n = Len(fs) /\ r = RankedFindings(fs) /\ m = RankAndCap(fs) /\ DOMAIN fs = 1..n
    BY ONLY <2>1, <2>2
  <2>4. RankedList(r, fs, n)
    BY ONLY <2>3, RankedIs
  <2>5. \E p, c, L : CappedTo(m, r, n, p, c, L)
    BY ONLY <2>3, <2>4, CappedIs
  <2>6. PICK p, c, L : CappedTo(m, r, n, p, c, L)
    BY ONLY <2>5
  <2>7. PICK x \in 1..n : fs[x] = d
    BY ONLY <1>a, <2>2, <2>3 DEF ToSet
  <2>8. PICK i \in 1..n : r[i] = d
    BY ONLY <2>4, <2>7, x \in 1..n DEF RankedList
  <2>9. \A k \in 1..L : m[k] # d
    <3>1. DOMAIN m = 1..L
      BY ONLY <2>6 DEF CappedTo
    <3>2. d \notin ToSet(m)
      BY ONLY <1>a, <2>2
    <3> QED
      BY ONLY <3>1, <3>2 DEF ToSet
  <2>10. \/ AboveIn(m, d) = DOMAIN m
         \/ Cardinality({k \in AboveIn(m, d) : m[k].file = d.file}) = PerFile
    BY ONLY <2>3, <2>4, <2>6, <2>8, <2>9, i \in 1..n, DroppedIs
  <2> QED
    BY ONLY <2>2, <2>10
<1> QED
  BY ONLY <1>a DEF CapsDropTheLeast, AboveIn, NoLess

-----------------------------------------------------------------------------
(* The table of files. Counts of parts of 1..n that are disjoint and leave   *)
(* nothing out come to n.                                                    *)
PartsOf(P, M, n) ==
  /\ P \in [1..M -> SUBSET (1..n)]
  /\ \A x \in 1..n : \E k \in 1..M : x \in P[k]
  /\ \A k, l \in 1..M : \A x \in 1..n : x \in P[k] /\ x \in P[l] => k = l

LEMMA TallyOfParts ==
  ASSUME NEW n \in Nat, NEW M \in Nat, NEW P, PartsOf(P, M, n), NEW c, DOMAIN c = 1..M,
         \A k \in 1..M : c[k] = Cardinality(P[k])
  PROVE  Tally(c) = n
<1>0. /\ P \in [1..M -> SUBSET (1..n)]
      /\ (\A x \in 1..n : \E k \in 1..M : x \in P[k])
      /\ \A k, l \in 1..M : \A x \in 1..n : x \in P[k] /\ x \in P[l] => k = l
  BY ONLY PartsOf(P, M, n) DEF PartsOf
<1>1. ASSUME NEW k \in 1..M
      PROVE  /\ c[k] \in Nat /\ Positions(P[k]) \in [1..c[k] -> P[k]] /\ P[k] \subseteq 1..n
             /\ \A i, j \in 1..c[k] : Positions(P[k])[i] = Positions(P[k])[j] => i = j
             /\ \A x \in P[k] : \E i \in 1..c[k] : Positions(P[k])[i] = x
  <2>1. PICK Q, N : Q = P[k] /\ N = Cardinality(Q)
    OBVIOUS
  <2>2. Q \in SUBSET (1..n) /\ c[k] = N
    BY ONLY <1>0, <1>1, <2>1, \A l \in 1..M : c[l] = Cardinality(P[l])
  <2>3. /\ N \in Nat /\ Positions(Q) \in [1..N -> Q]
        /\ \A i, j \in 1..N : Positions(Q)[i] = Positions(Q)[j] => i = j
        /\ \A x \in Q : \E i \in 1..N : Positions(Q)[i] = x
    BY ONLY <2>1, <2>2, n \in Nat, PositionsAre
  <2> QED
    BY ONLY <2>1, <2>2, <2>3
<1>2. PICK U, I : U = Units(c) /\ I = 1..n
  OBVIOUS
<1>3. PICK h : h = [u \in U |-> Positions(P[u[1]])[u[2]]]
  OBVIOUS
<1>4. ASSUME NEW u \in U
      PROVE  u = <<u[1], u[2]>> /\ u[1] \in 1..M /\ u[2] \in 1..c[u[1]]
  BY ONLY <1>2, <1>4, DOMAIN c = 1..M, UnitsPairs
<1>5. ASSUME NEW u \in U PROVE h[u] = Positions(P[u[1]])[u[2]] /\ h[u] \in P[u[1]] /\ h[u] \in I
  <2>1. h[u] = Positions(P[u[1]])[u[2]]
    BY ONLY <1>3, <1>5
  <2>2. PICK k, j : k = u[1] /\ j = u[2]
    OBVIOUS
  <2>3. k \in 1..M /\ j \in 1..c[k]
    BY ONLY <1>4, <1>5, <2>2
  <2>4. Positions(P[k]) \in [1..c[k] -> P[k]] /\ P[k] \subseteq 1..n
    BY ONLY <1>1, <2>3
  <2>5. Positions(P[k])[j] \in P[k]
    BY ONLY <2>3, <2>4
  <2> QED
    BY ONLY <1>2, <2>1, <2>2, <2>4, <2>5
<1>6. h \in [U -> I]
  BY ONLY <1>3, <1>5
<1>7. ASSUME NEW u \in U, NEW v \in U, h[u] = h[v] PROVE u = v
  <2>1. PICK k, j, l, i : k = u[1] /\ j = u[2] /\ l = v[1] /\ i = v[2]
    OBVIOUS
  <2>2. k \in 1..M /\ l \in 1..M /\ j \in 1..c[k] /\ i \in 1..c[l] /\ u = <<k, j>> /\ v = <<l, i>>
    BY ONLY <1>4, <1>7, <2>1
  <2>3. h[u] \in P[k] /\ h[u] \in P[l] /\ h[u] \in 1..n
    BY ONLY <1>2, <1>5, <1>7, <2>1
  <2>4. k = l
    BY ONLY <1>0, <2>2, <2>3
  <2>5. Positions(P[k])[j] = Positions(P[k])[i]
    BY ONLY <1>5, <1>7, <2>1, <2>4
  <2>6. j = i
    BY ONLY <1>1, <2>2, <2>4, <2>5
  <2> QED
    BY ONLY <2>2, <2>4, <2>6
<1>8. ASSUME NEW x \in I PROVE \E u \in U : h[u] = x
  <2>1. PICK k \in 1..M : x \in P[k]
    BY ONLY <1>0, <1>2, <1>8
  <2>2. PICK j \in 1..c[k] : Positions(P[k])[j] = x
    BY ONLY <1>1, <2>1, k \in 1..M
  <2>3. PICK u : u = <<k, j>>
    OBVIOUS
  <2>4. u \in U
    BY ONLY <1>2, <2>3, k \in 1..M, j \in 1..c[k], DOMAIN c = 1..M, UnitsAre
  <2>5. h[u] = x
    BY ONLY <1>5, <2>2, <2>3, <2>4
  <2> QED
    BY ONLY <2>4, <2>5
<1>9. h \in Bijection(U, I)
  BY ONLY <1>6, <1>7, <1>8 DEF Bijection, Injection, Surjection, IsInjective
<1>10. ExistsBijection(I, U)
  <2>1. ExistsBijection(U, I)
    BY ONLY <1>9 DEF ExistsBijection
  <2> QED
    BY ONLY <2>1, Fun_ExistsBijSymmetric
<1>11. IsFiniteSet(I) /\ Cardinality(I) = n
  BY ONLY <1>2, n \in Nat, FS_Interval
<1>12. Cardinality(U) = Cardinality(I)
  BY ONLY <1>10, <1>11, FS_Bijection
<1>13. Tally(c) = Cardinality(Units(c))
  BY ONLY DEF Tally, Units
<1> QED
  BY ONLY <1>2, <1>11, <1>12, <1>13

(* The files of each row, and where the rows are. *)
FilesAt(k, m, q, rest) == IF k <= m THEN {q[k]} ELSE rest
RowCount(m, rest) == IF rest = {} THEN m ELSE m + 1
RowsAt(t, fs, m, q, rest) ==
  /\ DOMAIN t = 1..RowCount(m, rest) /\ Len(t) = RowCount(m, rest)
  /\ \A k \in 1..m : t[k] = RowOf(fs, q[k])
  /\ rest # {} => t[m + 1] = LastRow(fs, rest)

LEMMA RowsAreAt ==
  ASSUME NEW fs, NEW S, NEW m \in Nat, NEW q \in [1..m -> S], RowsAre(fs, S, m, q), NEW rest, rest = S \ ToSet(q)
  PROVE  RowsAt(FileRows(fs), fs, m, q, rest)
<1>1. PICK a, b, l, t : /\ a = [k \in 1..m |-> RowOf(fs, q[k])] /\ l = LastRow(fs, rest)
                        /\ b = (IF rest = {} THEN <<>> ELSE <<LastRow(fs, rest)>>) /\ t = FileRows(fs)
  OBVIOUS
<1>2. t = a \o b
  BY ONLY <1>1, RowsAre(fs, S, m, q), rest = S \ ToSet(q) DEF RowsAre
<1>3. PICK L : L = {l} \cup {RowOf(fs, q[k]) : k \in 1..m}
  OBVIOUS
<1>4. a \in [1..m -> L] /\ \A k \in 1..m : a[k] = RowOf(fs, q[k])
  BY ONLY <1>1, <1>3
<1>5. a \in Seq(L) /\ Len(a) = m
  BY ONLY <1>4, m \in Nat
<1>6. CASE rest = {}
  <2>1. b = <<>>
    BY ONLY <1>1, <1>6
  <2>2. t = a
    BY ONLY <1>2, <1>5, <2>1
  <2>3. DOMAIN t = 1..m /\ Len(t) = m
    BY ONLY <1>4, <1>5, <2>2
  <2> QED
    BY ONLY <1>1, <1>4, <1>6, <2>2, <2>3 DEF RowsAt, RowCount
<1>7. CASE rest # {}
  <2>1. b = <<l>> /\ l \in L
    BY ONLY <1>1, <1>3, <1>7
  <2>2. t = Append(a, l)
    BY ONLY <1>2, <1>5, <2>1
  <2>3. Len(t) = m + 1 /\ DOMAIN t = 1..(m + 1) /\ t[m + 1] = l /\ \A k \in 1..m : t[k] = a[k]
    BY ONLY <1>5, <2>1, <2>2, m \in Nat
  <2> QED
    BY ONLY <1>1, <1>4, <1>7, <2>3 DEF RowsAt, RowCount
<1> QED
  BY ONLY <1>6, <1>7

(* The row of the rest is as bad as the worst of it. *)
LEMMA RestWorst ==
  ASSUME NEW fs, NEW n, Numbered(fs, n), NEW rest, rest \subseteq FilesOf(fs), NEW f \in rest
  PROVE  LastRow(fs, rest).path = 0 /\ LastRow(fs, rest).sev \in Nat /\ LastRow(fs, rest).sev >= Worst(fs, f)
<1>1. PICK S, R : S = FilesOf(fs) /\ R = FileOrder(fs)
  OBVIOUS
<1>2. IsFiniteSet(S) /\ S \subseteq Nat /\ StrictOrder(R, S) /\ rest \in SUBSET S
  BY ONLY <1>1, Numbered(fs, n), rest \subseteq FilesOf(fs), FilesOrdered
<1>3. IsFiniteSet(rest) /\ StrictOrder(R, rest) /\ rest # {}
  BY ONLY <1>2, f \in rest, FS_Subset, SubsetOrdered
<1>4. PICK x \in rest : \A y \in rest \ {x} : <<x, y>> \in R
  BY ONLY <1>3, FirstBy
<1>5. \A y \in rest : Worst(fs, y) \in Nat
  BY ONLY <1>1, <1>2, Numbered(fs, n), WorstIs
<1>6. ASSUME NEW y \in rest PROVE Worst(fs, y) <= Worst(fs, x)
  <2>1. CASE y = x
    BY ONLY <1>5, <1>6, <2>1
  <2>2. CASE y # x
    <3>1. <<x, y>> \in R
      BY ONLY <1>4, <1>6, <2>2
    <3>2. Worst(fs, x) > Worst(fs, y) \/ Worst(fs, x) = Worst(fs, y)
      BY ONLY <1>1, <3>1 DEF FileOrder
    <3> QED
      BY ONLY <1>5, <1>6, <3>2, x \in rest
  <2> QED
    BY ONLY <2>1, <2>2
<1>7. PICK w : w = CHOOSE z \in rest : \A y \in rest : Worst(fs, y) <= Worst(fs, z)
  OBVIOUS
<1>8. w \in rest /\ \A y \in rest : Worst(fs, y) <= Worst(fs, w)
  BY ONLY <1>6, <1>7, x \in rest
<1>9. LastRow(fs, rest).sev = Worst(fs, w) /\ LastRow(fs, rest).path = 0
  BY ONLY <1>7 DEF LastRow
<1>10. Worst(fs, w) \in Nat /\ Worst(fs, f) \in Nat /\ Worst(fs, f) <= Worst(fs, w)
  BY ONLY <1>5, <1>8, f \in rest
<1> QED
  BY ONLY <1>9, <1>10

(* Few enough rows; their files are disjoint and leave no file out. *)
Shared(fs, S, m, q, rest) ==
  /\ m \in Nat /\ q \in [1..m -> S] /\ rest = S \ ToSet(q)
  /\ RowCount(m, rest) \in Nat /\ RowCount(m, rest) <= MaxRows
  /\ (\A i, j \in 1..m : q[i] = q[j] => i = j)
  /\ RowsAt(FileRows(fs), fs, m, q, rest)

LEMMA RowsShared ==
  ASSUME NEW fs, NEW n, Numbered(fs, n), NEW S, S = FilesOf(fs)
  PROVE  \E m, q, rest : Shared(fs, S, m, q, rest)
<1>0. MaxRows \in Nat \ {0}
  BY MergeAssumption
<1>1. PICK N, R, o : N = Cardinality(S) /\ R = FileOrder(fs) /\ o = Sorted(S, FileOrder(fs))
  OBVIOUS
<1>2. \E m \in Nat : \E q \in [1..m -> S] : Leading(o, N, m, q) /\ RowsAre(fs, S, m, q)
  BY ONLY <1>1, Numbered(fs, n), S = FilesOf(fs), FileRowsAre
<1>3. PICK m \in Nat : \E q \in [1..m -> S] : Leading(o, N, m, q) /\ RowsAre(fs, S, m, q)
  BY ONLY <1>2
<1>4. PICK q \in [1..m -> S] : Leading(o, N, m, q) /\ RowsAre(fs, S, m, q)
  BY ONLY <1>3
<1>5. PICK rest : rest = S \ ToSet(q)
  OBVIOUS
<1>6. RowsAt(FileRows(fs), fs, m, q, rest)
  BY ONLY <1>4, <1>5, m \in Nat, q \in [1..m -> S], RowsAreAt
<1>7. IsFiniteSet(S) /\ StrictOrder(R, S)
  BY ONLY <1>1, Numbered(fs, n), S = FilesOf(fs), FilesOrdered
<1>a. o = Sorted(S, R) /\ N = Cardinality(S)
  BY ONLY <1>1
<1>8. /\ N \in Nat
      /\ (\A i, j \in 1..N : o[i] = o[j] => i = j)
      /\ \A x \in S : \E i \in 1..N : o[i] = x
  BY ONLY <1>7, <1>a, SortedIs
<1>9. m = (IF N > MaxRows THEN MaxRows - 1 ELSE N) /\ m <= N /\ \A k \in 1..m : q[k] = o[k]
  BY ONLY <1>4 DEF Leading
<1>10. \A k \in 1..m : k \in 1..N
  BY ONLY <1>8, <1>9, m \in Nat
<1>11. \A i, j \in 1..m : q[i] = q[j] => i = j
  BY ONLY <1>8, <1>9, <1>10
<1>12. RowCount(m, rest) \in Nat /\ RowCount(m, rest) <= MaxRows
  <2>1. CASE N > MaxRows
    <3>1. m = MaxRows - 1
      BY ONLY <1>9, <2>1
    <3> QED
      BY ONLY <1>0, <3>1, m \in Nat DEF RowCount
  <2>2. CASE ~(N > MaxRows)
    <3>1. m = N
      BY ONLY <1>9, <2>2
    <3>2. ASSUME NEW x \in S PROVE x \in ToSet(q)
      <4>1. PICK i \in 1..N : o[i] = x
        BY ONLY <1>8, <3>2
      <4>2. i \in DOMAIN q /\ q[i] = x
        BY ONLY <1>9, <3>1, <4>1, q \in [1..m -> S]
      <4> QED
        BY ONLY <4>2 DEF ToSet
    <3>3. rest = {}
      BY ONLY <1>5, <3>2
    <3> QED
      BY ONLY <1>0, <1>8, <2>2, <3>1, <3>3 DEF RowCount
  <2> QED
    BY ONLY <2>1, <2>2
<1>13. Shared(fs, S, m, q, rest)
  BY ONLY <1>5, <1>6, <1>11, <1>12, m \in Nat, q \in [1..m -> S] DEF Shared
<1> QED
  BY ONLY <1>13

LEMMA RowsTally ==
  ASSUME NEW fs, NEW n, Numbered(fs, n), NEW S, S = FilesOf(fs), NEW m, NEW q, NEW rest, Shared(fs, S, m, q, rest),
         NEW t, t = FileRows(fs)
  PROVE  Tally([k \in DOMAIN t |-> t[k].count]) = n
<1>0. n \in Nat /\ DOMAIN fs = 1..n /\ \A x \in 1..n : fs[x].file \in S
  <2>1. n \in Nat /\ DOMAIN fs = 1..n
    BY ONLY Numbered(fs, n) DEF Numbered
  <2> QED
    BY ONLY <2>1, S = FilesOf(fs) DEF FilesOf
<1>1. /\ m \in Nat /\ q \in [1..m -> S] /\ rest = S \ ToSet(q) /\ RowCount(m, rest) \in Nat
      /\ (\A i, j \in 1..m : q[i] = q[j] => i = j) /\ RowsAt(t, fs, m, q, rest)
  BY ONLY Shared(fs, S, m, q, rest), t = FileRows(fs) DEF Shared
<1>2. PICK M : M = RowCount(m, rest)
  OBVIOUS
<1>3. /\ M \in Nat /\ DOMAIN t = 1..M /\ (\A k \in 1..m : t[k] = RowOf(fs, q[k]))
      /\ (rest # {} => t[m + 1] = LastRow(fs, rest))
  BY ONLY <1>1, <1>2 DEF RowsAt
<1>4. M = IF rest = {} THEN m ELSE m + 1
  BY ONLY <1>2 DEF RowCount
<1>5. \A k \in 1..M : k \in 1..m \/ (k = m + 1 /\ ~(k <= m) /\ rest # {})
  BY ONLY <1>1, <1>4
<1>6. PICK P : P = [k \in 1..M |-> {x \in 1..n : fs[x].file \in FilesAt(k, m, q, rest)}]
  OBVIOUS
<1>7. \A k \in 1..M : P[k] = {x \in 1..n : fs[x].file \in FilesAt(k, m, q, rest)}
  BY ONLY <1>6
<1>8. \A k \in 1..m : FilesAt(k, m, q, rest) = {q[k]} /\ q[k] \notin rest /\ q[k] \in ToSet(q)
  <2>1. ASSUME NEW k \in 1..m PROVE FilesAt(k, m, q, rest) = {q[k]}
    <3>1. k <= m
      BY ONLY <1>1, <2>1
    <3> QED
      BY ONLY <3>1 DEF FilesAt
  <2>2. ASSUME NEW k \in 1..m PROVE q[k] \in ToSet(q)
    <3>1. k \in DOMAIN q
      BY ONLY <1>1, <2>2
    <3> QED
      BY ONLY <3>1 DEF ToSet
  <2> QED
    BY ONLY <1>1, <2>1, <2>2
<1>9. ASSUME NEW k, ~(k <= m) PROVE FilesAt(k, m, q, rest) = rest
  BY ONLY <1>9 DEF FilesAt
<1>10. PICK c : c = [k \in DOMAIN t |-> t[k].count]
  OBVIOUS
<1>11. DOMAIN c = 1..M /\ \A k \in 1..M : c[k] = t[k].count
  BY ONLY <1>3, <1>10
<1>12. ASSUME NEW k \in 1..M PROVE c[k] = Cardinality(P[k])
  <2>1. CASE k \in 1..m
    <3>1. t[k].count = Cardinality({x \in 1..n : fs[x].file = q[k]})
      <4>1. PICK g : g = q[k]
        OBVIOUS
      <4>2. t[k] = RowOf(fs, g)
        BY ONLY <1>3, <2>1, <4>1
      <4>3. t[k].count = Cardinality({x \in DOMAIN fs : fs[x].file = g})
        BY ONLY <4>2 DEF RowOf
      <4>4. DOMAIN fs = 1..n
        BY ONLY <1>0
      <4> QED
        BY ONLY <4>1, <4>3, <4>4
    <3>2. P[k] = {x \in 1..n : fs[x].file = q[k]}
      <4>1. P[k] = {x \in 1..n : fs[x].file \in FilesAt(k, m, q, rest)}
        BY ONLY <1>7, <1>12
      <4>2. FilesAt(k, m, q, rest) = {q[k]}
        BY ONLY <1>8, <2>1
      <4>3. P[k] = {x \in 1..n : fs[x].file \in {q[k]}}
        BY ONLY <4>1, <4>2
      <4> QED
        BY ONLY <4>3
    <3> QED
      BY ONLY <1>11, <1>12, <3>1, <3>2
  <2>2. CASE k = m + 1 /\ ~(k <= m) /\ rest # {}
    <3>1. t[k] = LastRow(fs, rest)
      BY ONLY <1>3, <2>2
    <3>2. t[k].count = Cardinality({x \in 1..n : fs[x].file \in rest})
      BY ONLY <1>0, <3>1 DEF LastRow, OverflowCount
    <3>3. P[k] = {x \in 1..n : fs[x].file \in rest}
      BY ONLY <1>7, <1>9, <1>12, <2>2
    <3> QED
      BY ONLY <1>11, <1>12, <3>2, <3>3
  <2> QED
    BY ONLY <1>5, <1>12, <2>1, <2>2
<1>13. ASSUME NEW x \in 1..n PROVE \E k \in 1..M : x \in P[k]
  <2>1. fs[x].file \in S
    BY ONLY <1>0, <1>13
  <2>2. CASE fs[x].file \in ToSet(q)
    <3>1. PICK k \in 1..m : q[k] = fs[x].file
      BY ONLY <1>1, <2>2 DEF ToSet
    <3>2. k \in 1..M
      BY ONLY <1>1, <1>4, k \in 1..m
    <3>3. x \in P[k]
      BY ONLY <1>7, <1>8, <1>13, <3>1, <3>2, k \in 1..m
    <3> QED
      BY ONLY <3>2, <3>3
  <2>3. CASE fs[x].file \notin ToSet(q)
    <3>1. fs[x].file \in rest
      BY ONLY <1>1, <2>1, <2>3
    <3>2. rest # {}
      BY ONLY <3>1
    <3>3. PICK k : k = m + 1
      OBVIOUS
    <3>4. k \in 1..M /\ ~(k <= m)
      BY ONLY <1>1, <1>4, <3>2, <3>3
    <3>5. x \in P[k]
      BY ONLY <1>7, <1>9, <1>13, <3>1, <3>4
    <3> QED
      BY ONLY <3>4, <3>5
  <2> QED
    BY ONLY <2>2, <2>3
<1>14. ASSUME NEW k \in 1..M, NEW l \in 1..M, NEW x \in 1..n, x \in P[k], x \in P[l] PROVE k = l
  <2>1. PICK f : f = fs[x].file
    OBVIOUS
  <2>2. f \in FilesAt(k, m, q, rest) /\ f \in FilesAt(l, m, q, rest)
    BY ONLY <1>7, <1>14, <2>1
  <2>3. CASE k \in 1..m /\ l \in 1..m
    <3>1. q[k] = q[l]
      BY ONLY <1>8, <2>2, <2>3
    <3> QED
      BY ONLY <1>1, <2>3, <3>1
  <2>4. CASE k \in 1..m /\ ~(l <= m)
    <3>1. f = q[k] /\ q[k] \notin rest /\ f \in rest
      BY ONLY <1>8, <1>9, <2>2, <2>4
    <3> QED
      BY ONLY <3>1
  <2>5. CASE l \in 1..m /\ ~(k <= m)
    <3>1. f = q[l] /\ q[l] \notin rest /\ f \in rest
      BY ONLY <1>8, <1>9, <2>2, <2>5
    <3> QED
      BY ONLY <3>1
  <2>6. CASE k = m + 1 /\ l = m + 1
    BY ONLY <2>6
  <2> QED
    BY ONLY <1>5, <1>14, <2>3, <2>4, <2>5, <2>6
<1>15. PartsOf(P, M, n)
  <2>1. P \in [1..M -> SUBSET (1..n)]
    BY ONLY <1>6
  <2> QED
    BY ONLY <1>13, <1>14, <2>1 DEF PartsOf
<1>16. Tally(c) = n
  <2>1. DOMAIN c = 1..M
    BY ONLY <1>11
  <2>2. M \in Nat /\ n \in Nat
    BY ONLY <1>0, <1>3
  <2> QED
    BY ONLY <1>12, <1>15, <2>1, <2>2, TallyOfParts
<1> QED
  BY ONLY <1>10, <1>16

LEMMA RowsTellTheWorst ==
  ASSUME NEW fs, NEW n, Numbered(fs, n), NEW S, S = FilesOf(fs), NEW m, NEW q, NEW rest, Shared(fs, S, m, q, rest),
         NEW t, t = FileRows(fs), NEW x \in 1..n
  PROVE  \E k \in DOMAIN t : t[k].path \in {fs[x].file, 0} /\ t[k].sev >= fs[x].sev
<1>0. n \in Nat /\ DOMAIN fs = 1..n /\ fs[x].file \in S /\ fs[x].sev \in Nat
  <2>1. n \in Nat /\ DOMAIN fs = 1..n /\ fs[x].sev \in Nat
    BY ONLY Numbered(fs, n), x \in 1..n DEF Numbered
  <2> QED
    BY ONLY <2>1, S = FilesOf(fs), x \in 1..n DEF FilesOf
<1>1. m \in Nat /\ q \in [1..m -> S] /\ rest = S \ ToSet(q) /\ RowsAt(t, fs, m, q, rest)
  BY ONLY Shared(fs, S, m, q, rest), t = FileRows(fs) DEF Shared
<1>2. PICK f : f = fs[x].file
  OBVIOUS
<1>3. f \in S /\ Worst(fs, f) \in Nat /\ fs[x].sev <= Worst(fs, f)
  <2>1. f \in FilesOf(fs)
    BY ONLY <1>0, <1>2, S = FilesOf(fs)
  <2>2. Worst(fs, f) \in Nat /\ \A k \in 1..n : fs[k].file = f => fs[k].sev <= Worst(fs, f)
    BY ONLY <2>1, Numbered(fs, n), WorstIs
  <2> QED
    BY ONLY <1>0, <1>2, <2>2, x \in 1..n
<1>4. CASE f \in ToSet(q)
  <2>1. PICK k \in 1..m : q[k] = f
    BY ONLY <1>1, <1>4 DEF ToSet
  <2>2. t[k] = RowOf(fs, f) /\ k \in DOMAIN t
    <3>1. k \in 1..m /\ k \in 1..(m + 1)
      BY ONLY <1>1, k \in 1..m
    <3> QED
      BY ONLY <1>1, <2>1, <3>1 DEF RowsAt, RowCount
  <2>3. t[k].path = f /\ t[k].sev = Worst(fs, f)
    BY ONLY <2>2 DEF RowOf
  <2>4. t[k].sev >= fs[x].sev
    BY ONLY <1>0, <1>3, <2>3
  <2> QED
    BY ONLY <1>2, <2>2, <2>3, <2>4
<1>5. CASE f \notin ToSet(q)
  <2>1. f \in rest /\ rest \subseteq FilesOf(fs)
    BY ONLY <1>1, <1>3, <1>5, S = FilesOf(fs)
  <2>2. LastRow(fs, rest).path = 0 /\ LastRow(fs, rest).sev \in Nat /\ LastRow(fs, rest).sev >= Worst(fs, f)
    BY ONLY <2>1, Numbered(fs, n), RestWorst
  <2>3. PICK k : k = m + 1
    OBVIOUS
  <2>4. t[k] = LastRow(fs, rest) /\ k \in DOMAIN t
    <3>1. rest # {} /\ k \in 1..(m + 1)
      BY ONLY <1>1, <2>1, <2>3
    <3> QED
      BY ONLY <1>1, <2>3, <3>1 DEF RowsAt, RowCount
  <2>5. t[k].path = 0 /\ t[k].sev >= fs[x].sev
    BY ONLY <1>0, <1>3, <2>2, <2>4
  <2> QED
    BY ONLY <2>4, <2>5
<1> QED
  BY ONLY <1>4, <1>5

LEMMA EverythingCounted == MergeInv => RowsCountEverything
<1>a. ASSUME MergeInv, mergeAt = "aggregated", NEW t, t = FileRows(uncapped)
      PROVE  /\ Len(t) <= MaxRows
             /\ Tally([k \in DOMAIN t |-> t[k].count]) = Len(uncapped)
             /\ \A f \in ToSet(uncapped) : \E r \in ToSet(t) : r.path \in {f.file, 0} /\ r.sev >= f.sev
  <2>1. PICK fs, n : fs = uncapped /\ n = Len(uncapped)
    OBVIOUS
  <2>2. fs \in Seq(Finding)
    BY ONLY <1>a, <2>1 DEF MergeInv
  <2>3. n \in Nat /\ DOMAIN fs = 1..n /\ \A k \in 1..n : fs[k] \in Finding
    BY ONLY <2>1, <2>2
  <2>4. Numbered(fs, n)
    <3>1. \A k \in 1..n : fs[k].file \in Nat /\ fs[k].sev \in Nat
      BY ONLY <2>3, FindingIs
    <3> QED
      BY ONLY <2>3, <3>1 DEF Numbered
  <2>5. PICK S : S = FilesOf(fs)
    OBVIOUS
  <2>6. \E m, q, rest : Shared(fs, S, m, q, rest)
    BY ONLY <2>4, <2>5, RowsShared
  <2>7. PICK m, q, rest : Shared(fs, S, m, q, rest)
    BY ONLY <2>6
  <2>8. t = FileRows(fs)
    BY ONLY <1>a, <2>1
  <2>9. Tally([k \in DOMAIN t |-> t[k].count]) = n
    BY ONLY <2>4, <2>5, <2>7, <2>8, RowsTally
  <2>10. Len(t) <= MaxRows
    BY ONLY <2>7, <2>8 DEF Shared, RowsAt
  <2>11. ASSUME NEW f \in ToSet(fs) PROVE \E r \in ToSet(t) : r.path \in {f.file, 0} /\ r.sev >= f.sev
    <3>1. PICK x \in 1..n : fs[x] = f
      BY ONLY <2>3, <2>11 DEF ToSet
    <3>2. \E k \in DOMAIN t : t[k].path \in {fs[x].file, 0} /\ t[k].sev >= fs[x].sev
      BY ONLY <2>4, <2>5, <2>7, <2>8, x \in 1..n, RowsTellTheWorst
    <3>3. PICK k \in DOMAIN t : t[k].path \in {f.file, 0} /\ t[k].sev >= f.sev
      BY ONLY <3>1, <3>2
    <3>4. t[k] \in ToSet(t)
      BY ONLY k \in DOMAIN t DEF ToSet
    <3> QED
      BY ONLY <3>3, <3>4
  <2> QED
    BY ONLY <2>1, <2>9, <2>10, <2>11
<1> QED
  BY ONLY <1>a DEF RowsCountEverything

-----------------------------------------------------------------------------
(* Every finding the two sides bring, for any findings, files and policy, and *)
(* whether or not the embedder works: it is in the result, merged into one    *)
(* that is, or cut by a cap that cuts the least important; the table of files *)
(* counts it; and a request to suppress it is granted or refused on record,   *)
(* however often writing that down was repeated (doDedupLinterWithLlm,        *)
(* doAggregate, applyArbitration).                                            *)
THEOREM FindingsStayAccounted == ReviewSpec => []FindingsAccounted
<1>1. ReviewInit => MergeInv /\ ArbInv
  BY PartsInit, MergeStart, ArbStart
<1>2. (MergeInv /\ ArbInv) /\ [ReviewNext]_reviewVars => (MergeInv /\ ArbInv)'
  <2>1. MergeInv /\ [ReviewNext]_reviewVars => MergeInv'
    BY ONLY PartsStep, MergeKeep
  <2>2. ArbInv /\ [ReviewNext]_reviewVars => ArbInv'
    BY ONLY PartsStep, ArbKeep
  <2> QED
    BY ONLY <2>1, <2>2
<1>3. MergeInv /\ ArbInv => FindingsAccounted
  BY ONLY NothingLost, LeastDropped, EverythingCounted, ArbAnswers DEF FindingsAccounted
<1> QED
  BY <1>1, <1>2, <1>3, PTL DEF ReviewSpec
=============================================================================
