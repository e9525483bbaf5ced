--------------------------- MODULE FindingDelivery ---------------------------
(***************************************************************************)
(* What became of each finding of a pull request. Attempts follow one      *)
(* another (the PR mutex), of one run or of later pushes, and may crash    *)
(* anywhere. An attempt persists its findings under ids derived from their *)
(* content, posts them, and pairs the ids with GitHub's comment ids by     *)
(* position; core.posted_reviews has one row per pull request, so only the *)
(* first attempt creates the review and its comments, the others refresh   *)
(* its body.                                                               *)
(***************************************************************************)
EXTENDS Integers, Sequences, FiniteSets, SequencesExt

CONSTANTS
  FindingIds,   \* review_finding_id: one per content, per pull request
  MaxAttempts   \* bound on the attempts

ASSUME DeliveryAssumption == MaxAttempts \in Nat

VARIABLES
  stored,    \* core.review_findings: the delivery columns of each finding
  comments,  \* GitHub: the finding each inline comment was created for, by comment id
  review,    \* GitHub: is there a review, and which rung of the fallback posted it
  prow,      \* core.posted_reviews
  dl,        \* the running attempt
  attempts

deliveryVars == <<stored, comments, review, prow, dl, attempts>>

Absent   == [there |-> FALSE, outcome |-> "null", comment |-> 0, via |-> "none"]
NoWork   == [at |-> "idle", found |-> <<>>, ids |-> <<>>, kept |-> <<>>, outcome |-> "none", cids |-> <<>>, via |-> "none"]
Unposted == [claimed |-> FALSE, published |-> FALSE, outcome |-> "degraded_unposted", cids |-> <<>>]

Lists == {s \in SeqOf(FindingIds, Cardinality(FindingIds)) : IsInjective(s)}

DeliveryInit ==
  /\ stored = [f \in FindingIds |-> Absent] /\ comments = <<>> /\ review = "none"
  /\ prow = Unposted /\ dl = NoWork /\ attempts = 0

(* The pipeline up to its aggregated findings; the set and the order may    *)
(* differ from attempt to attempt. Which of them lie in the diff is for     *)
(* classifyFindingsAgainstDiff: kept holds their positions.                 *)
Gather ==
  /\ dl.at = "idle" /\ attempts < MaxAttempts
  /\ attempts' = attempts + 1
  /\ \E fs \in Lists, drop \in SUBSET (1..Cardinality(FindingIds)) :
       dl' = [NoWork EXCEPT !.at = "persist", !.found = fs,
                            !.kept = SetToSortSeq((1..Len(fs)) \ drop, <)]
  /\ UNCHANGED <<stored, comments, review, prow>>

\* Mutant: the ids come back in the table's order.
IdsOf_TableOrder(fs) == SetToSeq({fs[i] : i \in DOMAIN fs})

(* persistAggregated returns an id per finding, in input order. *)
IdsOf(fs) == fs

(* INSERT ... ON CONFLICT DO NOTHING; the stage is fail-open, and without   *)
(* ids nothing is recorded later.                                           *)
Persist ==
  /\ dl.at = "persist"
  /\ \/ /\ stored' = [f \in FindingIds |-> IF stored[f].there \/ f \notin {dl.found[i] : i \in DOMAIN dl.found}
                                          THEN stored[f] ELSE [Absent EXCEPT !.there = TRUE]]
        /\ dl' = [dl EXCEPT !.at = "post", !.ids = IdsOf(dl.found)]
     \/ dl' = [dl EXCEPT !.at = "post"] /\ UNCHANGED stored
  /\ UNCHANGED <<comments, review, prow, attempts>>

Capture(o, cs, via) == [dl EXCEPT !.at = "finalize", !.outcome = o, !.cids = cs, !.via = via]

(* The claim is won and the review created, inline or by body only; the     *)
(* crash that leaves the row unpublished is Crash below.                    *)
PostClaim ==
  /\ dl.at = "post" /\ ~ prow.claimed
  /\ prow' = [prow EXCEPT !.claimed = TRUE] /\ dl' = [dl EXCEPT !.at = "create"]
  /\ UNCHANGED <<stored, comments, review, attempts>>

CreateReview ==
  /\ dl.at = "create"
  /\ \/ /\ review' = "inline_posted" /\ comments' = [i \in DOMAIN dl.kept |-> dl.found[dl.kept[i]]]
        /\ dl' = [dl EXCEPT !.at = "store", !.cids = [i \in DOMAIN dl.kept |-> i], !.outcome = "inline_posted"]
     \/ /\ review' = "body_only_posted" /\ UNCHANGED comments
        /\ dl' = [dl EXCEPT !.at = "store", !.cids = <<>>, !.outcome = "body_only_posted"]
     \/ dl' = Capture("degraded_unposted", <<>>, "created") /\ UNCHANGED <<comments, review>>
  /\ UNCHANGED <<stored, prow, attempts>>

StoreReview ==
  /\ dl.at = "store"
  /\ prow' = [prow EXCEPT !.published = TRUE, !.outcome = dl.outcome, !.cids = dl.cids]
  /\ dl' = Capture(dl.outcome, dl.cids, "created")
  /\ UNCHANGED <<stored, comments, review, attempts>>

(* The row was claimed but never published: the takeover looks for the      *)
(* review on GitHub and adopts it with the comments it lists.               *)
TakeOver ==
  /\ dl.at = "post" /\ prow.claimed /\ ~ prow.published
  /\ IF review = "none"
     THEN dl' = [dl EXCEPT !.at = "create"] /\ UNCHANGED prow
     ELSE LET cs == [i \in DOMAIN comments |-> i]
              o  == IF comments = <<>> THEN "body_only_posted" ELSE "inline_posted"
          IN /\ prow' = [prow EXCEPT !.published = TRUE, !.outcome = o, !.cids = cs]
             /\ dl' = Capture(o, cs, "recovered")
  /\ UNCHANGED <<stored, comments, review, attempts>>

(* A published review: only its body is refreshed, and the stored comment   *)
(* ids and outcome are returned beside THIS attempt's kept positions.       *)
Refresh ==
  /\ dl.at = "post" /\ prow.published
  /\ dl' = Capture(prow.outcome, prow.cids, "updated")
  /\ UNCHANGED <<stored, comments, review, prow, attempts>>

Dropped == {i \in DOMAIN dl.found : \A j \in DOMAIN dl.kept : dl.kept[j] # i}

NoComment == [f \in FindingIds |-> 0]

(* The setters: only rows whose outcome is still NULL. *)
Set(fs, o, cid, via) ==
  stored' = [f \in FindingIds |-> IF f \in fs /\ stored[f].there /\ stored[f].outcome = "null"
                                 THEN [there |-> TRUE, outcome |-> o, comment |-> cid[f], via |-> via]
                                 ELSE stored[f]]

SetSkipped == Set({dl.ids[i] : i \in Dropped}, "not_applicable", NoComment, "none")

(* An unposted review whose failure carried the classification: the dropped *)
(* findings are recorded, then the failure is thrown.                       *)
PostFails ==
  /\ dl.at \in {"create", "post"}
  /\ dl.ids # <<>>
  /\ SetSkipped
  /\ dl' = NoWork
  /\ UNCHANGED <<comments, review, prow, attempts>>

(* unnest(rfids, comment_ids): the j-th kept finding gets the j-th comment. *)
CommentOf(f) == dl.cids[CHOOSE j \in DOMAIN dl.kept : dl.ids[dl.kept[j]] = f]

KeptIds == IF dl.ids = <<>> THEN {} ELSE {dl.ids[dl.kept[j]] : j \in DOMAIN dl.kept}

(* runSetter: the writes are switched off, or the setter fails; either way  *)
(* the attempt goes on.                                                     *)
Swallowed == UNCHANGED stored

(* runLifecycleBookkeeping, setter by setter. *)
Finalize ==
  /\ dl.at = "finalize" /\ dl' = [dl EXCEPT !.at = "skip"]
  /\ \/ /\ dl.outcome = "inline_posted" /\ KeptIds # {} /\ Len(dl.kept) = Len(dl.cids)
        /\ Set(KeptIds, "inline_delivered", [f \in KeptIds |-> CommentOf(f)], dl.via)
     \/ Swallowed
  /\ UNCHANGED <<comments, review, prow, attempts>>

Skip ==
  /\ dl.at = "skip" /\ dl' = [dl EXCEPT !.at = "degrade"]
  /\ \/ dl.ids # <<>> /\ SetSkipped
     \/ Swallowed
  /\ UNCHANGED <<comments, review, prow, attempts>>

(* resolveDegradedPayload *)
DegradedAs(o) == CASE o = "body_only_posted" -> "body_only_fallback" [] o = "degraded_unposted" -> "failed" [] OTHER -> "null"

Degrade ==
  /\ dl.at = "degrade" /\ dl' = NoWork
  /\ \/ DegradedAs(dl.outcome) # "null" /\ Set(KeptIds, DegradedAs(dl.outcome), NoComment, dl.via)
     \/ Swallowed
  /\ UNCHANGED <<comments, review, prow, attempts>>

(* The pod dies, or the attempt loses its lease. *)
Crash ==
  /\ dl.at # "idle" /\ dl' = NoWork
  /\ UNCHANGED <<stored, comments, review, prow, attempts>>

DeliveryNext ==
  \/ Gather \/ Persist \/ PostClaim \/ CreateReview \/ StoreReview \/ TakeOver \/ Refresh
  \/ PostFails \/ Finalize \/ Skip \/ Degrade \/ Crash

-----------------------------------------------------------------------------
(* A finding the attempt that created the review recorded as delivered has  *)
(* the comment GitHub created for it, whatever was dropped before it in the *)
(* list and whatever crashed since.                                         *)
CreatorPairsComments ==
  \A f \in FindingIds : stored[f].outcome = "inline_delivered" /\ stored[f].via = "created"
                          => comments[stored[f].comment] = f
=============================================================================
