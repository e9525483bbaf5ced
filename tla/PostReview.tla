----------------------------- MODULE PostReview -----------------------------
(***************************************************************************)
(* Publishing a review on GitHub: doPost of post_review_results, as the    *)
(* runner calls it (sameRunTakeover: true, with the composed abort         *)
(* signal). The row of core.posted_reviews is claimed in one transaction   *)
(* with the current-run guard; the winner creates the review and stores    *)
(* its id; a later call that finds the row without an id looks for a       *)
(* review carrying the marker, creates one when there is none and stores   *)
(* it by compare-and-set; a call that finds an id refreshes the body.      *)
(*                                                                         *)
(* Rows and markers are keyed by pull request, so one pull request is      *)
(* modelled. Calls overlap: a job that times out leaves its pipeline       *)
(* running while its retry starts. GitHub is external: a request that was  *)
(* sent may take effect after its caller has died.                         *)
(***************************************************************************)
EXTENDS Naturals, FiniteSets, TLC

CONSTANTS
  Attempts,   \* calls of doPost
  Runs,       \* review runs of the pull request; bounds the pushes
  ReviewIds,  \* ids GitHub may hand out; bounds the creations
  MaxSends,   \* MAX_5XX_RETRIES: sends of one request on 5xx answers
  None        \* SQL NULL

ASSUME NoneIsNoId == None \notin ReviewIds \cup Runs
ASSUME IdsAreNumbers == ReviewIds \subseteq Nat
ASSUME MaxSendsPositive == MaxSends \in Nat \ {0}

VARIABLES
  current,  \* pull_request_reviews.current_run_id
  pushed,   \* the runs allocated so far
  row,      \* the pull request's row of core.posted_reviews
  posted,   \* GitHub's reviews that carry the marker, by id
  att,      \* the calls of doPost
  raced     \* history: "yes" once a call has begun while another was under
            \* way, or a POST was sent again after it had taken effect

vars == <<current, pushed, row, posted, att, raced>>

-----------------------------------------------------------------------------
Outcomes == {"inline_posted", "body_only_posted", "degraded_unposted"}
Rungs    == {"inline_posted", "body_only_posted"}   \* of the publication ladder

PostedRow == [there : {"yes", "no"}, id : ReviewIds \cup {None}, outcome : Outcomes]

NoRow      == [there |-> "no", id |-> None, outcome |-> "degraded_unposted"]
ClaimedRow == [there |-> "yes", id |-> None, outcome |-> "degraded_unposted"]
PublishedRow(i, o) == [there |-> "yes", id |-> i, outcome |-> o]

\* What was sent: an inline POST carries the comments of the kept findings, of
\* which there may be none; a body-only POST carries no comment.
Forms == {"comments", "empty", "body_only"}
FormsOf(rung) == IF rung = "inline_posted" THEN {"comments", "empty"} ELSE {"body_only"}

\* The rung a recovery reads off a review: listReviewComments tells comments only.
RungFound(form) == IF form = "comments" THEN "inline_posted" ELSE "body_only_posted"

\* A review: the run whose body it shows and the form it was created in.
Review   == [body : Runs \cup {None}, form : Forms]
NoReview == [body |-> None, form |-> "empty"]

Steps == {"none", "claim", "lost", "scan", "gate", "post", "answer", "degrade",
          "cas", "raced", "updgate", "put", "flying", "ended"}

Results == {"none", "posted", "recovered", "updated", "degraded",
            "failed", "cancelled"}

Attempt == [run : Runs \cup {None}, at : Steps, via : {"won", "takeover", "update"},
            rung : Rungs, sends : Nat, id : ReviewIds \cup {None},
            signal : {"live", "aborted"}, res : Results]

NoAttempt == [run |-> None, at |-> "none", via |-> "won", rung |-> "inline_posted",
              sends |-> 0, id |-> None, signal |-> "live", res |-> "none"]

NewAttempt(r) == [run |-> r, at |-> "claim", via |-> "won", rung |-> "inline_posted",
                  sends |-> 0, id |-> None, signal |-> "live", res |-> "none"]

\* What is left of a call: its result, and the review id it returned.
Over(i, result) ==
  [run |-> None, at |-> "ended", via |-> "won", rung |-> "inline_posted",
   sends |-> 0, id |-> i, signal |-> "live", res |-> result]

Existing == {i \in ReviewIds : posted[i].body # None}

\* A call is busy until it has ended and nothing it sent is on the wire.
Busy(a) == att[a].at \notin {"none", "ended"}

Goto(a, s) == att' = [att EXCEPT ![a].at = s]

Returns(a, result) == att' = [att EXCEPT ![a] = Over(att[a].id, result)]

(* A call that throws, or that returns without a review. *)
Ends(a, result) == att' = [att EXCEPT ![a] = Over(None, result)]

Init ==
  /\ current = None /\ pushed = {}
  /\ row = NoRow
  /\ posted = [i \in ReviewIds |-> NoReview]
  /\ att = [a \in Attempts |-> NoAttempt]
  /\ raced = "no"

-----------------------------------------------------------------------------
(* A push allocates a run and makes it current (ReviewRuns!AllocateRun). *)
Push(r) ==
  /\ r \notin pushed
  /\ pushed' = pushed \cup {r}
  /\ current' = r
  /\ UNCHANGED <<row, posted, att, raced>>

(* The pipeline of a run, current or not, reaches its postReview port. *)
Start(a, r) ==
  /\ att[a].at = "none" /\ r \in pushed
  /\ att' = [att EXCEPT ![a] = NewAttempt(r)]
  /\ raced' = IF \E b \in Attempts : Busy(b) THEN "yes" ELSE raced
  /\ UNCHANGED <<current, pushed, row, posted>>

Abort(a) ==
  /\ att[a].at \notin {"none", "flying", "ended"}
  /\ att' = [att EXCEPT ![a].signal = "aborted"]
  /\ UNCHANGED <<current, pushed, row, posted, raced>>

(* Phase 1, one transaction: assertCurrentRun, then INSERT ... ON CONFLICT   *)
(* DO NOTHING. A superseded run throws and rolls back.                       *)
Claim(a) ==
  /\ att[a].at = "claim"
  /\ IF att[a].run # current
     THEN Ends(a, "failed") /\ UNCHANGED row
     ELSE IF row.there = "no"
          THEN /\ row' = ClaimedRow
               /\ att' = [att EXCEPT ![a].at = "gate", ![a].via = "won"]
          ELSE Goto(a, "lost") /\ UNCHANGED row
  /\ UNCHANGED <<current, pushed, posted, raced>>

(* The loser reads the row: an id is refreshed, a NULL is taken over. *)
ReadRow(a) ==
  /\ att[a].at = "lost"
  /\ att' = [att EXCEPT ![a].at = IF row.id = None THEN "scan" ELSE "updgate",
                        ![a].via = IF row.id = None THEN "takeover" ELSE "update",
                        ![a].id = row.id]
  /\ UNCHANGED <<current, pushed, row, posted, raced>>

\* Mutant: the takeover creates without looking for the crashed call's review.
Scan_Blind(a) ==
  /\ att[a].at = "scan"
  /\ Goto(a, "gate")
  /\ UNCHANGED <<current, pushed, row, posted, raced>>

(* findExistingReviewByMarker returns the oldest review with the marker and   *)
(* listReviewComments tells its rung; with none the call goes on to create.   *)
Scan(a) ==
  /\ att[a].at = "scan"
  /\ \/ Existing = {} /\ Goto(a, "gate")
     \/ \E i \in Existing :
          /\ \A k \in Existing : i <= k
          /\ att' = [att EXCEPT ![a].at = "cas", ![a].id = i, ![a].rung = RungFound(posted[i].form)]
  /\ UNCHANGED <<current, pushed, row, posted, raced>>

(* throwIfAborted, then the first POST is on its way. *)
Gate(a) ==
  /\ att[a].at = "gate"
  /\ IF att[a].signal = "aborted"
     THEN Ends(a, "cancelled")
     ELSE att' = [att EXCEPT ![a].at = "post", ![a].rung = "inline_posted", ![a].sends = 1]
  /\ UNCHANGED <<current, pushed, row, posted, raced>>

-----------------------------------------------------------------------------
(* GitHub creates the review; ids grow. *)
Create(a, i) ==
  /\ \A k \in Existing : k < i
  /\ \E f \in FormsOf(att[a].rung) :
       posted' = [posted EXCEPT ![i] = [body |-> att[a].run, form |-> f]]

PostTakesEffect(a) ==
  /\ att[a].at = "post"
  /\ \E i \in ReviewIds :
       Create(a, i) /\ att' = [att EXCEPT ![a].at = "answer", ![a].id = i]
  /\ UNCHANGED <<current, pushed, row, raced>>

(* 422: the inline POST is followed by the body-only one; the second 422 is   *)
(* degraded, which the claim's winner writes to the row.                      *)
PostRejected(a) ==
  /\ att[a].at = "post"
  /\ IF att[a].rung = "inline_posted"
     THEN att' = [att EXCEPT ![a].rung = "body_only_posted", ![a].sends = 1]
     ELSE IF att[a].via = "won" THEN Goto(a, "degrade") ELSE Ends(a, "degraded")
  /\ UNCHANGED <<current, pushed, row, posted, raced>>

(* A 5xx answer, before or after the POST took effect: _request sends it again. *)
ServerError(a) ==
  /\ att[a].at \in {"post", "answer"} /\ att[a].sends < MaxSends
  /\ att' = [att EXCEPT ![a].at = "post", ![a].sends = @ + 1, ![a].id = None]
  /\ raced' = IF att[a].at = "answer" THEN "yes" ELSE raced
  /\ UNCHANGED <<current, pushed, row, posted>>

(* The answer, and the comment ids of an inline review, have arrived. Phase 2: *)
(* the winner stores its id, without a guard.                                 *)
Store(a) ==
  /\ att[a].at = "answer" /\ att[a].via = "won"
  /\ row' = PublishedRow(att[a].id, att[a].rung)
  /\ Returns(a, "posted")
  /\ UNCHANGED <<current, pushed, posted, raced>>

(* The winner's degraded UPDATE: refused by the outcome/id CHECK when a        *)
(* takeover has published the row.                                            *)
Degrade(a) ==
  /\ att[a].at = "degrade"
  /\ Ends(a, IF row.id = None THEN "degraded" ELSE "failed")
  /\ UNCHANGED <<current, pushed, row, posted, raced>>

\* A takeover has found a review by its marker, or has created one.
HasReview(a) ==
  att[a].at = "cas" \/ (att[a].at = "answer" /\ att[a].via = "takeover")

\* Mutant: the takeover's UPDATE lacks AND github_review_id IS NULL.
Cas_Unfenced(a) ==
  /\ HasReview(a)
  /\ row' = PublishedRow(att[a].id, att[a].rung)
  /\ Returns(a, "recovered")
  /\ UNCHANGED <<current, pushed, posted, raced>>

(* The takeover's compare-and-set; a call that lost it reads the row again.   *)
Cas(a) ==
  /\ HasReview(a)
  /\ IF row.id = None
     THEN row' = PublishedRow(att[a].id, att[a].rung) /\ Returns(a, "recovered")
     ELSE Goto(a, "raced") /\ UNCHANGED row
  /\ UNCHANGED <<current, pushed, posted, raced>>

(* An id is never cleared, so the row read again has one. *)
Reread(a) ==
  /\ att[a].at = "raced"
  /\ att' = [att EXCEPT ![a].at = "updgate", ![a].via = "update", ![a].id = row.id]
  /\ UNCHANGED <<current, pushed, row, posted, raced>>

UpdateGate(a) ==
  /\ att[a].at = "updgate"
  /\ IF att[a].signal = "aborted"
     THEN Ends(a, "cancelled")
     ELSE att' = [att EXCEPT ![a].at = "put", ![a].sends = 1]
  /\ UNCHANGED <<current, pushed, row, posted, raced>>

Refresh(a) == posted' = [posted EXCEPT ![att[a].id].body = att[a].run]

(* A 5xx answer to the PUT, before or after it took effect: it is sent again. *)
UpdateServerError(a) ==
  /\ att[a].at = "put" /\ att[a].sends < MaxSends
  /\ att' = [att EXCEPT ![a].sends = @ + 1]
  /\ Refresh(a) \/ UNCHANGED posted
  /\ UNCHANGED <<current, pushed, row, raced>>

(* updateReview replaces the body and its answer arrives. *)
UpdateReview(a) ==
  /\ att[a].at = "put"
  /\ Refresh(a) /\ Returns(a, "updated")
  /\ UNCHANGED <<current, pushed, row, raced>>

(* A call throws (network, GitHub, database) or dies with its process; a       *)
(* request it had sent is still on the wire.                                  *)
Fails(a) ==
  /\ Busy(a) /\ att[a].at # "flying"
  /\ IF att[a].at \in {"post", "put"} THEN Goto(a, "flying") ELSE Ends(a, "failed")
  /\ UNCHANGED <<current, pushed, row, posted, raced>>

FlyingLands(a) ==
  /\ att[a].at = "flying"
  /\ \/ att[a].via = "update" /\ Refresh(a)
     \/ att[a].via # "update" /\ \E i \in ReviewIds : Create(a, i)
  /\ Ends(a, "failed")
  /\ UNCHANGED <<current, pushed, row, raced>>

FlyingLost(a) ==
  /\ att[a].at = "flying"
  /\ Ends(a, "failed")
  /\ UNCHANGED <<current, pushed, row, posted, raced>>

Next ==
  \/ \E r \in Runs : Push(r)
  \/ \E a \in Attempts, r \in Runs : Start(a, r)
  \/ \E a \in Attempts :
       \/ Abort(a) \/ Claim(a) \/ ReadRow(a) \/ Scan(a) \/ Gate(a)
       \/ PostTakesEffect(a) \/ PostRejected(a) \/ ServerError(a)
       \/ Store(a) \/ Degrade(a) \/ Cas(a) \/ Reread(a)
       \/ UpdateGate(a) \/ UpdateServerError(a) \/ UpdateReview(a)
       \/ Fails(a) \/ FlyingLands(a) \/ FlyingLost(a)

Spec == Init /\ [][Next]_vars

-----------------------------------------------------------------------------
(* The row, GitHub's reviews and the calls keep their types. A published row  *)
(* carries an outcome, one without an id is degraded (the outcome/id CHECK),  *)
(* and a call works on at most one review.                                    *)
TypeOK ==
  /\ current \in Runs \cup {None} /\ pushed \subseteq Runs
  /\ row \in PostedRow
  /\ row.outcome = "degraded_unposted" <=> row.id = None
  /\ posted \in [ReviewIds -> Review]
  /\ att \in [Attempts -> Attempt]
  /\ raced \in {"no", "yes"}

(* One review per pull request: as long as calls follow one another, crash    *)
(* where they may, and no POST is sent again after it took effect, GitHub     *)
(* never shows two reviews with the marker. The claim, the marker scan and    *)
(* the compare-and-set of doPost are what this rests on.                      *)
OneReviewUnlessRaced ==
  raced = "no" => \A i, k \in Existing : i = k

\* An outcome fits a review when it is the rung the review was created on, or
\* the one a recovery reads off it: they differ for an inline POST without
\* comments, which a recovery records as body_only_posted.
OutcomeFits(o, form) == form \in FormsOf(o) \/ o = RungFound(form)

(* The stored id names a review that exists on GitHub, and the stored outcome *)
(* fits that review, whichever call stored it and however calls overlap: a    *)
(* review with comments is never recorded as body-only, nor the other way.    *)
RowDescribesReview ==
  row.id # None => row.id \in Existing /\ OutcomeFits(row.outcome, posted[row.id].form)

(* What a call reports is durable: when calls follow one another, the review  *)
(* id a call returned is the id the row stores from then on.                  *)
ReturnedIdIsStored ==
  raced = "no" => \A a \in Attempts :
    att[a].res \in {"posted", "recovered", "updated"} => att[a].id = row.id

(* Only the winner of the claim, storing the review it created, ever replaces *)
(* an id the row already has; a takeover never does.                          *)
OnlyWinnerReplacesId ==
  [][row.id # None /\ row'.id # row.id =>
       \E a \in Attempts :
         att[a].at = "answer" /\ att[a].via = "won" /\ att'[a].res = "posted"]_vars

(* Once a call's abort signal has fired, the call begins no publication and   *)
(* no refresh: at most it sends the POST it had begun again, after a 5xx or   *)
(* on the body-only rung, neither of which the gate of doPost covers.         *)
NoNewWriteAfterAbort ==
  [][\A a \in Attempts :
       att[a].signal = "aborted" /\ att'[a].at \in {"post", "put"} =>
         att[a].at \in {"post", "answer", "put"}]_vars

(* What the table and the callers believe is what GitHub shows: the parts   *)
(* above.                                                                   *)
PostsSound == TypeOK /\ OneReviewUnlessRaced /\ RowDescribesReview /\ ReturnedIdIsStored

(* No call overwrites what another published, and an aborted one begins     *)
(* nothing.                                                                 *)
WritesFenced == OnlyWinnerReplacesId /\ NoNewWriteAfterAbort

-----------------------------------------------------------------------------
(* Calls are alike, and so are the runs they post for. *)
Symmetry == Permutations(Attempts) \cup Permutations(Runs)
=============================================================================
