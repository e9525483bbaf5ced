-------------------------- MODULE PostReview_proofs --------------------------
(* Proofs about PostReview, for any number of calls, pushes and review ids.  *)
EXTENDS PostReview, TLAPS

-----------------------------------------------------------------------------
(* The inductive invariant, call by call (c is a call's record).             *)
Active(c) == c.at \notin {"none", "ended"}

\* Where a call may still create a review, where it is about to store one, and
\* where it refreshes one.
Creating(c) == c.at \in {"gate", "post"} \/ (c.at = "flying" /\ c.via # "update")
Storing(c)  == c.at \in {"answer", "cas"}
Updating(c) == c.at \in {"updgate", "put"} \/ (c.at = "flying" /\ c.via = "update")

\* What a call knows: its run while it is busy, that the row exists once it is
\* past the claim, the review it stores or refreshes, no result before its end.
Knows(c) ==
  /\ Active(c) => c.run \in Runs
  /\ c.at # "ended" => c.res = "none"
  /\ Active(c) /\ c.at # "claim" => row.there = "yes"
  /\ Storing(c) => c.id \in Existing /\ OutcomeFits(c.rung, posted[c.id].form)
  /\ Updating(c) => c.id \in Existing
  /\ c.at \in {"scan", "gate", "post", "answer"} => c.via # "update"
  /\ c.at \in {"updgate", "put"} => c.via = "update"
  /\ c.at = "raced" => row.id # None

\* While calls follow one another: a call creates only when GitHub has no
\* review, stores only when the row has no id, and has returned the row's id.
CalmCall(c) ==
  /\ Creating(c) => Existing = {}
  /\ Creating(c) \/ Storing(c) \/ c.at = "scan" => row.id = None
  /\ Updating(c) => c.id = row.id
  /\ c.res \in {"posted", "recovered", "updated"} => c.id = row.id /\ row.id # None

NothingBeforeRow == row.there = "no" => row.id = None /\ Existing = {}

Alone == \A a, b \in Attempts : Active(att[a]) /\ Active(att[b]) => a = b

Calm == Alone /\ (\A i, k \in Existing : i = k) /\ \A a \in Attempts : CalmCall(att[a])

PInv ==
  /\ TypeOK /\ NothingBeforeRow /\ RowDescribesReview
  /\ \A a \in Attempts : Knows(att[a])
  /\ raced = "no" => Calm

LEMMA InitPInv == Init => PInv
<1> SUFFICES ASSUME Init PROVE PInv
  OBVIOUS
<1>1. TypeOK
  <2>1. NoAttempt \in Attempt
    BY DEF NoAttempt, Attempt, Steps, Rungs, Results
  <2>2. NoReview \in Review /\ NoRow \in PostedRow /\ NoRow.outcome = "degraded_unposted" /\ NoRow.id = None
    BY DEF Forms, NoReview, Review, NoRow, PostedRow, Rungs, Outcomes
  <2> QED
    BY <2>1, <2>2 DEF Init, TypeOK
<1>2. Existing = {}
  BY DEF Init, Existing, NoReview
<1>3. NothingBeforeRow /\ RowDescribesReview
  BY <1>2 DEF Init, NothingBeforeRow, RowDescribesReview, NoRow
<1>4. \A a \in Attempts : att[a].at = "none" /\ att[a].res = "none"
  BY DEF Init, NoAttempt
<1> QED
  BY <1>1, <1>2, <1>3, <1>4
  DEF PInv, Calm, Alone, Knows, CalmCall, Active, Creating, Storing, Updating

-----------------------------------------------------------------------------
(* A step that changes one call and neither the row nor GitHub. *)
LEMMA CallStep ==
  ASSUME PInv, NEW a \in Attempts, att' \in [Attempts -> Attempt],
         \A b \in Attempts \ {a} : att'[b] = att[b],
         UNCHANGED <<current, pushed, row, posted, raced>>,
         Knows(att'[a]), CalmCall(att[a]) => CalmCall(att'[a]),
         Active(att'[a]) => Active(att[a])
  PROVE  PInv'
<1>1. Existing' = Existing
  BY DEF Existing
<1>2. TypeOK' /\ NothingBeforeRow' /\ RowDescribesReview'
  BY <1>1 DEF PInv, TypeOK, NothingBeforeRow, RowDescribesReview
<1>3. \A b \in Attempts : Knows(att[b])'
  BY <1>1 DEF PInv, Knows
<1>4. ASSUME raced = "no" PROVE Calm'
  <2>1. Alone'
    BY <1>4 DEF PInv, Calm, Alone, Active
  <2>2. \A b \in Attempts : CalmCall(att[b])'
    BY <1>1, <1>4 DEF PInv, Calm, CalmCall
  <2> QED
    BY <1>1, <1>4, <2>1, <2>2 DEF PInv, Calm
<1> QED
  BY <1>2, <1>3, <1>4 DEF PInv

(* A step in which one call writes the row: it stores a review that exists.  *)
LEMMA RowWrite ==
  ASSUME PInv, NEW a \in Attempts, att' \in [Attempts -> Attempt],
         \A b \in Attempts \ {a} : att'[b] = att[b],
         UNCHANGED <<current, pushed, posted, raced>>,
         Storing(att[a]), row' = PublishedRow(att[a].id, att[a].rung),
         att'[a].at = "ended", att'[a].id = att[a].id
  PROVE  PInv'
<1>1. Existing' = Existing
  BY DEF Existing
<1>2. att[a].id \in Existing /\ OutcomeFits(att[a].rung, posted[att[a].id].form)
      /\ att[a].id \in ReviewIds /\ att[a].rung \in Rungs
  BY DEF PInv, Knows, Existing, TypeOK, Attempt
<1>3. row' \in PostedRow /\ row'.there = "yes" /\ row'.id = att[a].id /\ row'.outcome = att[a].rung
      /\ row'.id # None
  BY <1>2, NoneIsNoId DEF PublishedRow, PostedRow, Rungs, Outcomes
<1>4. TypeOK' /\ NothingBeforeRow' /\ RowDescribesReview'
  BY <1>1, <1>2, <1>3 DEF PInv, TypeOK, NothingBeforeRow, RowDescribesReview, Rungs
<1>5. \A b \in Attempts : Knows(att[b])'
  BY <1>1, <1>3 DEF PInv, Knows, Active, Storing, Updating
<1>6. ASSUME raced = "no" PROVE Calm'
  <2>1. Alone' /\ \A b \in Attempts \ {a} : ~ Active(att[b])
    BY <1>6 DEF PInv, Calm, Alone, Active, Storing
  <2>2. \A b \in Attempts \ {a} : CalmCall(att[b])'
    BY <1>6, <2>1 DEF PInv, Calm, CalmCall, Active, Creating, Storing, Updating
  <2>3. CalmCall(att[a])'
    BY <1>3 DEF CalmCall, Creating, Storing, Updating
  <2> QED
    BY <1>1, <1>6, <2>1, <2>2, <2>3 DEF PInv, Calm
<1> QED
  BY <1>4, <1>5, <1>6 DEF PInv

(* A step in which GitHub creates or refreshes a review for one call: no     *)
(* review disappears and none changes its form.                              *)
LEMMA GithubWrite ==
  ASSUME PInv, NEW a \in Attempts, att' \in [Attempts -> Attempt],
         \A b \in Attempts \ {a} : att'[b] = att[b],
         UNCHANGED <<current, pushed, row, raced>>,
         Active(att[a]), att[a].at # "claim",
         posted' \in [ReviewIds -> Review],
         \A k \in Existing : k \in Existing' /\ posted'[k].form = posted[k].form,
         Knows(att[a])',
         raced = "no" => CalmCall(att[a])' /\ \A i, k \in Existing' : i = k
  PROVE  PInv'
<1>1. row.there = "yes"
  BY DEF PInv, Knows
<1>2. TypeOK' /\ NothingBeforeRow' /\ RowDescribesReview'
  BY <1>1 DEF PInv, TypeOK, NothingBeforeRow, RowDescribesReview
<1>3. \A b \in Attempts \ {a} : Knows(att[b])'
  BY DEF PInv, Knows, Active, Storing, Updating
<1>4. ASSUME raced = "no" PROVE Calm'
  <2>1. \A b \in Attempts \ {a} : ~ Active(att[b])
    BY <1>4 DEF PInv, Calm, Alone
  <2>2. Alone'
    BY <2>1 DEF Alone, Active
  <2>3. \A b \in Attempts \ {a} : CalmCall(att[b])'
    BY <1>4, <2>1 DEF PInv, Calm, CalmCall, Active, Creating, Storing, Updating
  <2> QED
    BY <1>4, <2>2, <2>3 DEF Calm
<1> QED
  BY <1>2, <1>3, <1>4 DEF PInv

(* GitHub hands out an id it has not used. *)
LEMMA CreateFacts ==
  ASSUME PInv, NEW a \in Attempts, Active(att[a]), NEW i \in ReviewIds, Create(a, i)
  PROVE  /\ posted' \in [ReviewIds -> Review]
         /\ Existing' = Existing \cup {i}
         /\ posted'[i].form \in FormsOf(att[a].rung)
         /\ \A k \in Existing : posted'[k].form = posted[k].form
<1>1. att[a].run \in Runs /\ att[a].rung \in Rungs /\ posted \in [ReviewIds -> Review]
  BY DEF PInv, Knows, TypeOK, Attempt
<1>2. i \notin Existing
  BY IdsAreNumbers DEF Create, Existing
<1>3. PICK f \in FormsOf(att[a].rung) :
        posted' = [posted EXCEPT ![i] = [body |-> att[a].run, form |-> f]]
  BY DEF Create
<1>4. [body |-> att[a].run, form |-> f] \in Review
  BY <1>1 DEF Review, Forms, FormsOf
<1>5. posted' \in [ReviewIds -> Review]
  BY <1>1, <1>3, <1>4
<1>6. posted'[i].body = att[a].run /\ posted'[i].form = f
      /\ \A k \in ReviewIds \ {i} : posted'[k] = posted[k]
  BY <1>1, <1>3
<1>7. att[a].run # None
  BY <1>1, NoneIsNoId
<1>8. Existing' = Existing \cup {i}
  BY <1>6, <1>7 DEF Existing
<1> QED
  BY <1>2, <1>3, <1>5, <1>6, <1>8 DEF Existing

LEMMA RefreshFacts ==
  ASSUME PInv, NEW a \in Attempts, Active(att[a]), att[a].id \in Existing, Refresh(a)
  PROVE  /\ posted' \in [ReviewIds -> Review]
         /\ Existing' = Existing
         /\ \A k \in Existing : posted'[k].form = posted[k].form
<1>1. att[a].run \in Runs /\ posted \in [ReviewIds -> Review] /\ att[a].id \in ReviewIds
  BY DEF PInv, Knows, TypeOK, Existing
<1>2. posted' = [posted EXCEPT ![att[a].id] = [posted[att[a].id] EXCEPT !.body = att[a].run]]
  BY DEF Refresh
<1>3. /\ [posted[att[a].id] EXCEPT !.body = att[a].run] \in Review
      /\ [posted[att[a].id] EXCEPT !.body = att[a].run].body = att[a].run
      /\ [posted[att[a].id] EXCEPT !.body = att[a].run].form = posted[att[a].id].form
  BY <1>1 DEF Review
<1>4. posted' \in [ReviewIds -> Review]
  BY <1>1, <1>2, <1>3
<1>5. posted'[att[a].id].body # None /\ posted'[att[a].id].form = posted[att[a].id].form
      /\ \A k \in ReviewIds \ {att[a].id} : posted'[k] = posted[k]
  BY <1>1, <1>2, <1>3, NoneIsNoId
<1>6. Existing' = Existing
  BY <1>5 DEF Existing
<1> QED
  BY <1>4, <1>5, <1>6 DEF Existing

-----------------------------------------------------------------------------
(* What the ways of moving a call do to its record. *)
LEMMA GotoFacts ==
  ASSUME att \in [Attempts -> Attempt], NEW a \in Attempts, NEW s \in Steps, Goto(a, s)
  PROVE  /\ att' \in [Attempts -> Attempt]
         /\ \A b \in Attempts \ {a} : att'[b] = att[b]
         /\ att'[a].at = s /\ att'[a].run = att[a].run /\ att'[a].via = att[a].via
         /\ att'[a].rung = att[a].rung /\ att'[a].id = att[a].id /\ att'[a].res = att[a].res
  BY DEF Goto, Attempt

LEMMA OverFacts ==
  ASSUME att \in [Attempts -> Attempt], NEW a \in Attempts,
         NEW i \in ReviewIds \cup {None}, NEW result \in Results,
         att' = [att EXCEPT ![a] = Over(i, result)]
  PROVE  /\ att' \in [Attempts -> Attempt]
         /\ \A b \in Attempts \ {a} : att'[b] = att[b]
         /\ att'[a].at = "ended" /\ att'[a].id = i /\ att'[a].res = result
<1>1. Over(i, result) \in Attempt
  BY DEF Over, Attempt, Steps, Rungs
<1>2. Over(i, result).at = "ended" /\ Over(i, result).id = i /\ Over(i, result).res = result
  BY DEF Over
<1> QED
  BY <1>1, <1>2

(* A call may always end without a review. *)
LEMMA EndsKeeps ==
  ASSUME PInv, NEW a \in Attempts, NEW result \in {"degraded", "failed", "cancelled"},
         Ends(a, result), UNCHANGED <<current, pushed, row, posted, raced>>
  PROVE  PInv'
<1>1. /\ att' \in [Attempts -> Attempt]
      /\ \A b \in Attempts \ {a} : att'[b] = att[b]
      /\ att'[a].at = "ended" /\ att'[a].res = result
  BY OverFacts DEF Ends, PInv, TypeOK, Results
<1>2. Knows(att'[a]) /\ CalmCall(att'[a]) /\ ~ Active(att'[a])
  BY <1>1 DEF Knows, CalmCall, Active, Creating, Storing, Updating
<1> QED
  BY <1>1, <1>2, CallStep

-----------------------------------------------------------------------------
(* One lemma per action. *)
LEMMA PushKeeps == ASSUME PInv, NEW r \in Runs, Push(r) PROVE PInv'
<1>1. Existing' = Existing
  BY DEF Push, Existing
<1>2. TypeOK'
  BY DEF PInv, TypeOK, Push
<1> QED
  BY <1>1, <1>2
  DEF PInv, Push, NothingBeforeRow, RowDescribesReview, Knows, Calm, Alone, CalmCall

LEMMA StartKeeps ==
  ASSUME PInv, NEW a \in Attempts, NEW r \in Runs, Start(a, r) PROVE PInv'
<1>1. /\ NewAttempt(r) \in Attempt
      /\ NewAttempt(r).at = "claim" /\ NewAttempt(r).run = r /\ NewAttempt(r).res = "none"
  BY DEF NewAttempt, Attempt, Steps, Rungs, Results
<1>2. /\ att' \in [Attempts -> Attempt] /\ att'[a] = NewAttempt(r)
      /\ \A b \in Attempts \ {a} : att'[b] = att[b]
  BY <1>1 DEF PInv, TypeOK, Start
<1>3. Existing' = Existing
  BY DEF Start, Existing
<1>4. TypeOK' /\ NothingBeforeRow' /\ RowDescribesReview'
  BY <1>2, <1>3 DEF PInv, TypeOK, Start, NothingBeforeRow, RowDescribesReview
<1>5. Knows(att[a])' /\ CalmCall(att[a])'
  BY <1>1, <1>2 DEF Knows, CalmCall, Active, Creating, Storing, Updating
<1>6. \A b \in Attempts \ {a} : Knows(att[b])'
  BY <1>2, <1>3 DEF PInv, Knows, Start
<1>7. ASSUME raced' = "no" PROVE Calm'
  <2>1. raced = "no" /\ \A b \in Attempts : ~ Active(att[b])
    BY <1>7 DEF Start, Busy, Active
  <2>2. Alone'
    BY <1>2, <2>1 DEF Alone, Active
  <2>3. \A b \in Attempts \ {a} : CalmCall(att[b])'
    BY <1>2, <1>3, <2>1 DEF PInv, Calm, CalmCall, Start
  <2> QED
    BY <1>3, <1>5, <2>1, <2>2, <2>3 DEF PInv, Calm
<1> QED
  BY <1>4, <1>5, <1>6, <1>7 DEF PInv

LEMMA AbortKeeps == ASSUME PInv, NEW a \in Attempts, Abort(a) PROVE PInv'
<1>1. /\ att' \in [Attempts -> Attempt]
      /\ \A b \in Attempts \ {a} : att'[b] = att[b]
      /\ att'[a].at = att[a].at /\ att'[a].run = att[a].run /\ att'[a].via = att[a].via
      /\ att'[a].rung = att[a].rung /\ att'[a].id = att[a].id /\ att'[a].res = att[a].res
  BY DEF PInv, TypeOK, Abort, Attempt
<1>2. Knows(att'[a])
  BY <1>1 DEF PInv, Knows, Active, Storing, Updating
<1>3. CalmCall(att[a]) => CalmCall(att'[a])
  BY <1>1 DEF CalmCall, Creating, Storing, Updating
<1> QED
  BY <1>1, <1>2, <1>3, CallStep DEF Abort, Active

LEMMA ClaimKeeps == ASSUME PInv, NEW a \in Attempts, Claim(a) PROVE PInv'
<1> USE DEF Claim
<1>1. CASE att[a].run # current
  BY <1>1, EndsKeeps
<1>2. CASE att[a].run = current /\ row.there = "no"
  <2>1. /\ att' \in [Attempts -> Attempt]
        /\ \A b \in Attempts \ {a} : att'[b] = att[b]
        /\ att'[a].at = "gate" /\ att'[a].via = "won"
        /\ att'[a].run = att[a].run /\ att'[a].res = att[a].res
    BY <1>2 DEF PInv, TypeOK, Attempt, Steps
  <2>2. /\ row' \in PostedRow /\ row'.there = "yes" /\ row'.id = None
        /\ row'.outcome = "degraded_unposted"
    BY <1>2 DEF ClaimedRow, PostedRow, Outcomes
  <2>3. Existing' = Existing /\ Existing = {} /\ row.id = None
    BY <1>2 DEF PInv, NothingBeforeRow, Existing
  <2>4. TypeOK' /\ NothingBeforeRow' /\ RowDescribesReview'
    BY <2>1, <2>2 DEF PInv, TypeOK, NothingBeforeRow, RowDescribesReview
  <2>5. Knows(att[a])' /\ CalmCall(att[a])'
    BY <2>1, <2>2, <2>3 DEF PInv, Knows, CalmCall, Active, Creating, Storing, Updating
  <2>6. \A b \in Attempts \ {a} : Knows(att[b])'
    BY <1>2, <2>1, <2>2, <2>3 DEF PInv, Knows, Active, Storing, Updating
  <2>7. ASSUME raced = "no" PROVE Calm'
    <3>1. Alone'
      BY <2>1, <2>7 DEF PInv, Calm, Alone, Active
    <3>2. \A b \in Attempts \ {a} : CalmCall(att[b])'
      BY <2>1, <2>2, <2>3, <2>7 DEF PInv, Calm, CalmCall
    <3> QED
      BY <2>3, <2>5, <3>1, <3>2 DEF Calm
  <2> QED
    BY <2>4, <2>5, <2>6, <2>7 DEF PInv
<1>3. CASE att[a].run = current /\ row.there # "no"
  <2>1. /\ att' \in [Attempts -> Attempt]
        /\ \A b \in Attempts \ {a} : att'[b] = att[b]
        /\ att'[a].at = "lost" /\ att'[a].run = att[a].run /\ att'[a].res = att[a].res
    BY <1>3, GotoFacts DEF PInv, TypeOK, Steps
  <2>2. row.there = "yes"
    BY <1>3 DEF PInv, TypeOK, PostedRow
  <2>3. Knows(att'[a]) /\ (CalmCall(att[a]) => CalmCall(att'[a]))
    BY <2>1, <2>2 DEF PInv, Knows, CalmCall, Active, Creating, Storing, Updating
  <2> QED
    BY <1>3, <2>1, <2>3, CallStep DEF Active
<1> QED
  BY <1>1, <1>2, <1>3

LEMMA ReadRowKeeps == ASSUME PInv, NEW a \in Attempts, ReadRow(a) PROVE PInv'
<1>1. /\ att' \in [Attempts -> Attempt]
      /\ \A b \in Attempts \ {a} : att'[b] = att[b]
      /\ att'[a].at = IF row.id = None THEN "scan" ELSE "updgate"
      /\ att'[a].via = IF row.id = None THEN "takeover" ELSE "update"
      /\ att'[a].id = row.id /\ att'[a].run = att[a].run /\ att'[a].res = att[a].res
  <2> DEFINE c == [att[a] EXCEPT !.at = IF row.id = None THEN "scan" ELSE "updgate",
                                 !.via = IF row.id = None THEN "takeover" ELSE "update",
                                 !.id = row.id]
  <2>1. att[a] \in Attempt /\ row.id \in ReviewIds \cup {None}
    BY DEF PInv, TypeOK, PostedRow
  <2>2. /\ c \in Attempt
        /\ c.at = IF row.id = None THEN "scan" ELSE "updgate"
        /\ c.via = IF row.id = None THEN "takeover" ELSE "update"
        /\ c.id = row.id /\ c.run = att[a].run /\ c.res = att[a].res
    BY <2>1 DEF Attempt, Steps
  <2>3. att' = [att EXCEPT ![a] = c]
    BY DEF ReadRow
  <2> HIDE DEF c
  <2> QED
    BY <2>2, <2>3 DEF PInv, TypeOK
<1>2. Knows(att'[a]) /\ (CalmCall(att[a]) => CalmCall(att'[a]))
  BY <1>1
  DEF PInv, RowDescribesReview, Knows, CalmCall, ReadRow, Active, Creating, Storing, Updating
<1> QED
  BY <1>1, <1>2, CallStep DEF ReadRow, Active

LEMMA ScanKeeps == ASSUME PInv, NEW a \in Attempts, Scan(a) PROVE PInv'
<1>1. CASE Existing = {} /\ Goto(a, "gate")
  <2>1. /\ att' \in [Attempts -> Attempt]
        /\ \A b \in Attempts \ {a} : att'[b] = att[b]
        /\ att'[a].at = "gate" /\ att'[a].run = att[a].run /\ att'[a].via = att[a].via
        /\ att'[a].res = att[a].res
    BY <1>1, GotoFacts DEF PInv, TypeOK, Steps
  <2>2. Knows(att'[a]) /\ (CalmCall(att[a]) => CalmCall(att'[a]))
    BY <1>1, <2>1 DEF PInv, Knows, CalmCall, Scan, Active, Creating, Storing, Updating
  <2> QED
    BY <2>1, <2>2, CallStep DEF Scan, Active
<1>2. ASSUME NEW i \in Existing,
             att' = [att EXCEPT ![a].at = "cas", ![a].id = i, ![a].rung = RungFound(posted[i].form)]
      PROVE  PInv'
  <2>1. i \in ReviewIds /\ RungFound(posted[i].form) \in Rungs
    BY DEF PInv, TypeOK, Existing, Rungs, RungFound
  <2>2. /\ att' \in [Attempts -> Attempt]
        /\ \A b \in Attempts \ {a} : att'[b] = att[b]
        /\ att'[a].at = "cas" /\ att'[a].id = i /\ att'[a].rung = RungFound(posted[i].form)
        /\ att'[a].run = att[a].run /\ att'[a].res = att[a].res
    <3> DEFINE c == [att[a] EXCEPT !.at = "cas", !.id = i, !.rung = RungFound(posted[i].form)]
    <3>1. att[a] \in Attempt
      BY DEF PInv, TypeOK
    <3>2. /\ c \in Attempt /\ c.at = "cas" /\ c.id = i /\ c.rung = RungFound(posted[i].form)
          /\ c.run = att[a].run /\ c.res = att[a].res
      BY <2>1, <3>1 DEF Attempt, Steps
    <3>3. att' = [att EXCEPT ![a] = c]
      BY <1>2
    <3> HIDE DEF c
    <3> QED
      BY <3>2, <3>3 DEF PInv, TypeOK
  <2>3. Knows(att'[a]) /\ (CalmCall(att[a]) => CalmCall(att'[a]))
    BY <2>2 DEF PInv, Knows, CalmCall, Scan, Active, Creating, Storing, Updating, OutcomeFits
  <2> QED
    BY <2>2, <2>3, CallStep DEF Scan, Active
<1> QED
  BY <1>1, <1>2 DEF Scan

LEMMA GateKeeps == ASSUME PInv, NEW a \in Attempts, Gate(a) PROVE PInv'
<1>1. CASE att[a].signal = "aborted"
  BY <1>1, EndsKeeps DEF Gate
<1>2. CASE att[a].signal # "aborted"
  <2>1. /\ att' \in [Attempts -> Attempt]
        /\ \A b \in Attempts \ {a} : att'[b] = att[b]
        /\ att'[a].at = "post" /\ att'[a].run = att[a].run /\ att'[a].via = att[a].via
        /\ att'[a].res = att[a].res
    BY <1>2 DEF PInv, TypeOK, Gate, Attempt, Steps, Rungs
  <2>2. Knows(att'[a]) /\ (CalmCall(att[a]) => CalmCall(att'[a]))
    BY <2>1 DEF PInv, Knows, CalmCall, Gate, Active, Creating, Storing, Updating
  <2> QED
    BY <2>1, <2>2, CallStep DEF Gate, Active
<1> QED
  BY <1>1, <1>2

(* A busy call that creates: GitHub had no review if calls were calm. *)
LEMMA CreateKeeps ==
  ASSUME PInv, NEW a \in Attempts, Active(att[a]), att[a].at # "claim", Creating(att[a]),
         NEW i \in ReviewIds, Create(a, i), UNCHANGED <<current, pushed, row, raced>>,
         att' \in [Attempts -> Attempt],
         \A b \in Attempts \ {a} : att'[b] = att[b],
         \/ /\ att'[a].at = "answer" /\ att'[a].id = i /\ att'[a].rung = att[a].rung
            /\ att'[a].run = att[a].run /\ att'[a].res = "none" /\ att'[a].via # "update"
         \/ att'[a].at = "ended" /\ att'[a].res = "failed"
  PROVE  PInv'
<1>1. /\ posted' \in [ReviewIds -> Review]
      /\ Existing' = Existing \cup {i}
      /\ posted'[i].form \in FormsOf(att[a].rung)
      /\ \A k \in Existing : posted'[k].form = posted[k].form
  BY CreateFacts
<1>2. Knows(att[a])'
  BY <1>1 DEF PInv, Knows, Active, Storing, Updating, OutcomeFits
<1>3. ASSUME raced = "no" PROVE CalmCall(att[a])' /\ \A j, k \in Existing' : j = k
  <2>1. Existing = {} /\ row.id = None
    BY <1>3 DEF PInv, Calm, CalmCall
  <2> QED
    BY <1>1, <2>1 DEF CalmCall, Creating, Storing, Updating
<1> QED
  BY <1>1, <1>2, <1>3, GithubWrite

LEMMA PostTakesEffectKeeps == ASSUME PInv, NEW a \in Attempts, PostTakesEffect(a) PROVE PInv'
<1>1. PICK i \in ReviewIds :
        Create(a, i) /\ att' = [att EXCEPT ![a].at = "answer", ![a].id = i]
  BY DEF PostTakesEffect
<1>2. /\ att' \in [Attempts -> Attempt]
      /\ \A b \in Attempts \ {a} : att'[b] = att[b]
      /\ att'[a].at = "answer" /\ att'[a].id = i /\ att'[a].rung = att[a].rung
      /\ att'[a].run = att[a].run /\ att'[a].via = att[a].via /\ att'[a].res = att[a].res
  <2> DEFINE c == [att[a] EXCEPT !.at = "answer", !.id = i]
  <2>1. att[a] \in Attempt
    BY DEF PInv, TypeOK
  <2>2. /\ c \in Attempt /\ c.at = "answer" /\ c.id = i /\ c.rung = att[a].rung
        /\ c.run = att[a].run /\ c.via = att[a].via /\ c.res = att[a].res
    BY <2>1 DEF Attempt, Steps
  <2>3. att' = [att EXCEPT ![a] = c]
    BY <1>1
  <2> HIDE DEF c
  <2> QED
    BY <2>2, <2>3 DEF PInv, TypeOK
<1>3. att[a].via # "update" /\ att[a].res = "none"
  BY DEF PostTakesEffect, PInv, Knows
<1> QED
  BY <1>1, <1>2, <1>3, CreateKeeps DEF PostTakesEffect, Active, Creating

LEMMA PostRejectedKeeps == ASSUME PInv, NEW a \in Attempts, PostRejected(a) PROVE PInv'
<1>1. CASE att[a].rung = "inline_posted"
  <2>1. /\ att' \in [Attempts -> Attempt]
        /\ \A b \in Attempts \ {a} : att'[b] = att[b]
        /\ att'[a].at = att[a].at /\ att'[a].run = att[a].run /\ att'[a].via = att[a].via
        /\ att'[a].res = att[a].res
    BY <1>1 DEF PInv, TypeOK, PostRejected, Attempt, Rungs
  <2>2. Knows(att'[a]) /\ (CalmCall(att[a]) => CalmCall(att'[a]))
    BY <2>1 DEF PInv, Knows, CalmCall, PostRejected, Active, Creating, Storing, Updating
  <2> QED
    BY <2>1, <2>2, CallStep DEF PostRejected, Active
<1>2. CASE att[a].rung # "inline_posted" /\ att[a].via = "won"
  <2>1. /\ att' \in [Attempts -> Attempt]
        /\ \A b \in Attempts \ {a} : att'[b] = att[b]
        /\ att'[a].at = "degrade" /\ att'[a].run = att[a].run /\ att'[a].res = att[a].res
    BY <1>2, GotoFacts DEF PInv, TypeOK, PostRejected, Steps
  <2>2. Knows(att'[a]) /\ (CalmCall(att[a]) => CalmCall(att'[a]))
    BY <2>1 DEF PInv, Knows, CalmCall, PostRejected, Active, Creating, Storing, Updating
  <2> QED
    BY <2>1, <2>2, CallStep DEF PostRejected, Active
<1>3. CASE att[a].rung # "inline_posted" /\ att[a].via # "won"
  BY <1>3, EndsKeeps DEF PostRejected
<1> QED
  BY <1>1, <1>2, <1>3

LEMMA ServerErrorKeeps == ASSUME PInv, NEW a \in Attempts, ServerError(a) PROVE PInv'
<1>1. /\ att' \in [Attempts -> Attempt]
      /\ \A b \in Attempts \ {a} : att'[b] = att[b]
      /\ att'[a].at = "post" /\ att'[a].run = att[a].run /\ att'[a].via = att[a].via
      /\ att'[a].res = att[a].res
  BY DEF PInv, TypeOK, ServerError, Attempt, Steps
<1>2. Existing' = Existing
  BY DEF ServerError, Existing
<1>3. Knows(att'[a])
  BY <1>1 DEF PInv, Knows, ServerError, Active, Storing, Updating
<1>4. CASE att[a].at = "post"
  <2>1. CalmCall(att[a]) => CalmCall(att'[a])
    BY <1>1, <1>4 DEF CalmCall, Creating, Storing, Updating
  <2> QED
    BY <1>1, <1>3, <1>4, <2>1, CallStep DEF ServerError, Active
<1>5. CASE att[a].at = "answer"
  <2>1. raced' = "yes"
    BY <1>5 DEF ServerError
  <2>2. TypeOK' /\ NothingBeforeRow' /\ RowDescribesReview'
    BY <1>1, <1>2, <2>1 DEF PInv, TypeOK, ServerError, NothingBeforeRow, RowDescribesReview
  <2>3. \A b \in Attempts : Knows(att[b])'
    BY <1>1, <1>2, <1>3 DEF PInv, Knows, ServerError
  <2> QED
    BY <2>1, <2>2, <2>3 DEF PInv
<1> QED
  BY <1>4, <1>5 DEF ServerError

LEMMA StoreKeeps == ASSUME PInv, NEW a \in Attempts, Store(a) PROVE PInv'
<1>1. att[a].id \in ReviewIds \cup {None}
  BY DEF PInv, TypeOK, Attempt
<1>2. /\ att' \in [Attempts -> Attempt]
      /\ \A b \in Attempts \ {a} : att'[b] = att[b]
      /\ att'[a].at = "ended" /\ att'[a].id = att[a].id
  BY <1>1, OverFacts DEF PInv, TypeOK, Store, Returns, Results
<1> QED
  BY <1>2, RowWrite DEF Store, Storing

LEMMA DegradeKeeps == ASSUME PInv, NEW a \in Attempts, Degrade(a) PROVE PInv'
  BY EndsKeeps DEF Degrade

LEMMA CasKeeps == ASSUME PInv, NEW a \in Attempts, Cas(a) PROVE PInv'
<1>1. CASE row.id = None
  <2>1. att[a].id \in ReviewIds \cup {None}
    BY DEF PInv, TypeOK, Attempt
  <2>2. /\ att' \in [Attempts -> Attempt]
        /\ \A b \in Attempts \ {a} : att'[b] = att[b]
        /\ att'[a].at = "ended" /\ att'[a].id = att[a].id
    BY <1>1, <2>1, OverFacts DEF PInv, TypeOK, Cas, Returns, Results
  <2> QED
    BY <1>1, <2>2, RowWrite DEF Cas, HasReview, Storing
<1>2. CASE row.id # None
  <2>1. /\ att' \in [Attempts -> Attempt]
        /\ \A b \in Attempts \ {a} : att'[b] = att[b]
        /\ att'[a].at = "raced" /\ att'[a].run = att[a].run /\ att'[a].res = att[a].res
    BY <1>2, GotoFacts DEF PInv, TypeOK, Cas, Steps
  <2>2. Knows(att'[a]) /\ (CalmCall(att[a]) => CalmCall(att'[a]))
    BY <1>2, <2>1
    DEF PInv, Knows, CalmCall, Cas, HasReview, Active, Creating, Storing, Updating
  <2> QED
    BY <1>2, <2>1, <2>2, CallStep DEF Cas, HasReview, Active
<1> QED
  BY <1>1, <1>2

LEMMA RereadKeeps == ASSUME PInv, NEW a \in Attempts, Reread(a) PROVE PInv'
<1>1. /\ att' \in [Attempts -> Attempt]
      /\ \A b \in Attempts \ {a} : att'[b] = att[b]
      /\ att'[a].at = "updgate" /\ att'[a].via = "update" /\ att'[a].id = row.id
      /\ att'[a].run = att[a].run /\ att'[a].res = att[a].res
  <2> DEFINE c == [att[a] EXCEPT !.at = "updgate", !.via = "update", !.id = row.id]
  <2>1. att[a] \in Attempt /\ row.id \in ReviewIds \cup {None}
    BY DEF PInv, TypeOK, PostedRow
  <2>2. /\ c \in Attempt /\ c.at = "updgate" /\ c.via = "update" /\ c.id = row.id
        /\ c.run = att[a].run /\ c.res = att[a].res
    BY <2>1 DEF Attempt, Steps
  <2>3. att' = [att EXCEPT ![a] = c]
    BY DEF Reread
  <2> HIDE DEF c
  <2> QED
    BY <2>2, <2>3 DEF PInv, TypeOK
<1>2. row.id \in Existing
  BY DEF PInv, Knows, Reread, RowDescribesReview
<1>3. Knows(att'[a]) /\ (CalmCall(att[a]) => CalmCall(att'[a]))
  BY <1>1, <1>2 DEF PInv, Knows, CalmCall, Reread, Active, Creating, Storing, Updating
<1> QED
  BY <1>1, <1>3, CallStep DEF Reread, Active

LEMMA UpdateGateKeeps == ASSUME PInv, NEW a \in Attempts, UpdateGate(a) PROVE PInv'
<1>1. CASE att[a].signal = "aborted"
  BY <1>1, EndsKeeps DEF UpdateGate
<1>2. CASE att[a].signal # "aborted"
  <2>1. /\ att' \in [Attempts -> Attempt]
        /\ \A b \in Attempts \ {a} : att'[b] = att[b]
        /\ att'[a].at = "put" /\ att'[a].run = att[a].run /\ att'[a].via = att[a].via
        /\ att'[a].id = att[a].id /\ att'[a].res = att[a].res
    BY <1>2 DEF PInv, TypeOK, UpdateGate, Attempt, Steps
  <2>2. Knows(att'[a]) /\ (CalmCall(att[a]) => CalmCall(att'[a]))
    BY <2>1 DEF PInv, Knows, CalmCall, UpdateGate, Active, Creating, Storing, Updating
  <2> QED
    BY <1>2, <2>1, <2>2, CallStep DEF UpdateGate, Active
<1> QED
  BY <1>1, <1>2

(* A refresh, answered or not. *)
LEMMA RefreshKeeps ==
  ASSUME PInv, NEW a \in Attempts, Updating(att[a]), Refresh(a),
         UNCHANGED <<current, pushed, row, raced>>,
         att' \in [Attempts -> Attempt],
         \A b \in Attempts \ {a} : att'[b] = att[b],
         att'[a].at = "ended",
         att'[a].res = "failed" \/ att'[a].id = att[a].id
  PROVE  PInv'
<1>1. Active(att[a]) /\ att[a].at # "claim" /\ att[a].id \in Existing
  BY DEF PInv, Knows, Updating, Active
<1>2. /\ posted' \in [ReviewIds -> Review]
      /\ Existing' = Existing
      /\ \A k \in Existing : posted'[k].form = posted[k].form
  BY <1>1, RefreshFacts
<1>3. Knows(att[a])'
  BY DEF Knows, Active, Storing, Updating
<1>4. ASSUME raced = "no" PROVE CalmCall(att[a])' /\ \A i, k \in Existing' : i = k
  <2>1. att[a].id = row.id /\ row.id # None
    BY <1>1, <1>4, NoneIsNoId DEF PInv, Calm, CalmCall, Existing
  <2>2. CalmCall(att[a])'
    BY <2>1 DEF CalmCall, Creating, Storing, Updating
  <2> QED
    BY <1>2, <1>4, <2>2 DEF PInv, Calm
<1> QED
  BY <1>1, <1>2, <1>3, <1>4, GithubWrite

LEMMA UpdateServerErrorKeeps ==
  ASSUME PInv, NEW a \in Attempts, UpdateServerError(a) PROVE PInv'
<1>1. /\ att' \in [Attempts -> Attempt]
      /\ \A b \in Attempts \ {a} : att'[b] = att[b]
      /\ att'[a].at = "put" /\ att'[a].run = att[a].run /\ att'[a].via = att[a].via
      /\ att'[a].id = att[a].id /\ att'[a].res = att[a].res
  BY DEF PInv, TypeOK, UpdateServerError, Attempt, Steps
<1>2. Active(att[a]) /\ att[a].at # "claim" /\ Updating(att[a]) /\ att[a].id \in Existing
  BY DEF PInv, Knows, UpdateServerError, Updating, Active
<1>3. Knows(att'[a]) /\ (CalmCall(att[a]) => CalmCall(att'[a]))
  BY <1>1 DEF PInv, Knows, CalmCall, UpdateServerError, Active, Creating, Storing, Updating
<1>4. CASE Refresh(a)
  <2>1. /\ posted' \in [ReviewIds -> Review]
        /\ Existing' = Existing
        /\ \A k \in Existing : posted'[k].form = posted[k].form
    BY <1>2, <1>4, RefreshFacts
  <2>2. row' = row /\ raced' = raced
    BY DEF UpdateServerError
  <2>3. Knows(att[a])'
    BY <1>1, <1>2, <1>3, <2>1, <2>2 DEF Knows, Storing
  <2>4. ASSUME raced = "no" PROVE CalmCall(att[a])' /\ \A i, k \in Existing' : i = k
    BY <1>3, <2>1, <2>2, <2>4 DEF PInv, Calm, CalmCall
  <2> QED
    BY <1>1, <1>2, <2>1, <2>3, <2>4, GithubWrite DEF UpdateServerError
<1>5. CASE UNCHANGED posted
  BY <1>1, <1>2, <1>3, <1>5, CallStep DEF UpdateServerError
<1> QED
  BY <1>4, <1>5 DEF UpdateServerError

LEMMA UpdateReviewKeeps == ASSUME PInv, NEW a \in Attempts, UpdateReview(a) PROVE PInv'
<1>1. att[a].id \in ReviewIds \cup {None}
  BY DEF PInv, TypeOK, Attempt
<1>2. /\ att' \in [Attempts -> Attempt]
      /\ \A b \in Attempts \ {a} : att'[b] = att[b]
      /\ att'[a].at = "ended" /\ att'[a].id = att[a].id
  BY <1>1, OverFacts DEF PInv, TypeOK, UpdateReview, Returns, Results
<1> QED
  BY <1>2, RefreshKeeps DEF UpdateReview, Updating

LEMMA FailsKeeps == ASSUME PInv, NEW a \in Attempts, Fails(a) PROVE PInv'
<1>1. CASE att[a].at \in {"post", "put"}
  <2>1. /\ att' \in [Attempts -> Attempt]
        /\ \A b \in Attempts \ {a} : att'[b] = att[b]
        /\ att'[a].at = "flying" /\ att'[a].run = att[a].run /\ att'[a].via = att[a].via
        /\ att'[a].id = att[a].id /\ att'[a].res = att[a].res
    BY <1>1, GotoFacts DEF PInv, TypeOK, Fails, Steps
  <2>2. Knows(att'[a]) /\ (CalmCall(att[a]) => CalmCall(att'[a]))
    BY <1>1, <2>1 DEF PInv, Knows, CalmCall, Active, Creating, Storing, Updating
  <2> QED
    BY <1>1, <2>1, <2>2, CallStep DEF Fails, Active
<1>2. CASE att[a].at \notin {"post", "put"}
  BY <1>2, EndsKeeps DEF Fails
<1> QED
  BY <1>1, <1>2

LEMMA FlyingLandsKeeps == ASSUME PInv, NEW a \in Attempts, FlyingLands(a) PROVE PInv'
<1>1. /\ att' \in [Attempts -> Attempt]
      /\ \A b \in Attempts \ {a} : att'[b] = att[b]
      /\ att'[a].at = "ended" /\ att'[a].res = "failed"
  BY OverFacts DEF PInv, TypeOK, FlyingLands, Ends, Results
<1>2. CASE att[a].via = "update"
  BY <1>1, <1>2, RefreshKeeps DEF FlyingLands, Updating
<1>3. CASE att[a].via # "update"
  <2>1. PICK i \in ReviewIds : Create(a, i)
    BY <1>3 DEF FlyingLands
  <2> QED
    BY <1>1, <1>3, <2>1, CreateKeeps DEF FlyingLands, Active, Creating
<1> QED
  BY <1>2, <1>3

LEMMA FlyingLostKeeps == ASSUME PInv, NEW a \in Attempts, FlyingLost(a) PROVE PInv'
  BY EndsKeeps DEF FlyingLost

LEMMA StutterKeeps == PInv /\ UNCHANGED vars => PInv'
<1> SUFFICES ASSUME PInv, UNCHANGED vars PROVE PInv'
  OBVIOUS
<1>1. Existing' = Existing
  BY DEF vars, Existing
<1> QED
  BY <1>1
  DEF vars, PInv, TypeOK, NothingBeforeRow, RowDescribesReview, Knows, Calm, Alone, CalmCall

LEMMA NextKeeps == PInv /\ [Next]_vars => PInv'
<1> SUFFICES ASSUME PInv, Next PROVE PInv'
  BY StutterKeeps
<1>1. ASSUME NEW r \in Runs, Push(r) PROVE PInv'
  BY <1>1, PushKeeps
<1>2. ASSUME NEW a \in Attempts, NEW r \in Runs, Start(a, r) PROVE PInv'
  BY <1>2, StartKeeps
<1>3. ASSUME NEW a \in Attempts,
             Abort(a) \/ Claim(a) \/ ReadRow(a) \/ Scan(a) \/ Gate(a) \/ PostTakesEffect(a)
      PROVE  PInv'
  BY <1>3, AbortKeeps, ClaimKeeps, ReadRowKeeps, ScanKeeps, GateKeeps, PostTakesEffectKeeps
<1>4. ASSUME NEW a \in Attempts,
             PostRejected(a) \/ ServerError(a) \/ Store(a) \/ Degrade(a) \/ Cas(a) \/ Reread(a)
      PROVE  PInv'
  BY <1>4, PostRejectedKeeps, ServerErrorKeeps, StoreKeeps, DegradeKeeps, CasKeeps, RereadKeeps
<1>5. ASSUME NEW a \in Attempts,
             \/ UpdateGate(a) \/ UpdateServerError(a) \/ UpdateReview(a)
             \/ Fails(a) \/ FlyingLands(a) \/ FlyingLost(a)
      PROVE  PInv'
  BY <1>5, UpdateGateKeeps, UpdateServerErrorKeeps, UpdateReviewKeeps, FailsKeeps,
      FlyingLandsKeeps, FlyingLostKeeps
<1> QED
  BY <1>1, <1>2, <1>3, <1>4, <1>5 DEF Next

-----------------------------------------------------------------------------
(* The inductive invariant holds in every reachable state. *)
THEOREM PostInvariant == Spec => []PInv
  BY InitPInv, NextKeeps, PTL DEF Spec

(* doPost keeps the row, GitHub's reviews and its calls well typed, and the   *)
(* outcome/id CHECK of core.posted_reviews is never what a stored row breaks. *)
THEOREM PostTypeCorrect == Spec => []TypeOK
<1>1. PInv => TypeOK
  BY DEF PInv
<1> QED
  BY <1>1, PostInvariant, PTL

(* Calls of doPost that follow one another, however many die and wherever,    *)
(* publish at most one review.                                                *)
THEOREM SequentialPostsOnce == Spec => []OneReviewUnlessRaced
<1>1. PInv => OneReviewUnlessRaced
  BY DEF PInv, Calm, OneReviewUnlessRaced
<1> QED
  BY <1>1, PostInvariant, PTL

(* The row of core.posted_reviews always describes a review that exists, even *)
(* when calls overlap.                                                        *)
THEOREM RowIsTruthful == Spec => []RowDescribesReview
<1>1. PInv => RowDescribesReview
  BY DEF PInv
<1> QED
  BY <1>1, PostInvariant, PTL

(* The review id a call of doPost returned stays the stored one as long as    *)
(* calls follow one another.                                                  *)
THEOREM ReturnedIdStays == Spec => []ReturnedIdIsStored
<1>1. PInv => ReturnedIdIsStored
  BY DEF PInv, Calm, CalmCall, ReturnedIdIsStored
<1> QED
  BY <1>1, PostInvariant, PTL

(* A published id of core.posted_reviews is replaced only by the claim's      *)
(* winner storing the review it created, never by a takeover.                 *)
THEOREM TakeoverNeverOverwrites == Spec => OnlyWinnerReplacesId
<1>1. ASSUME PInv, Next, row.id # None, row'.id # row.id
      PROVE  \E a \in Attempts :
               att[a].at = "answer" /\ att[a].via = "won" /\ att'[a].res = "posted"
  <2>1. ASSUME NEW a \in Attempts, Claim(a) PROVE row' = row
    BY <1>1, <2>1 DEF Claim, PInv, NothingBeforeRow
  <2>2. ASSUME NEW a \in Attempts, Cas(a) PROVE row' = row
    BY <1>1, <2>2 DEF Cas
  <2>3. PICK a \in Attempts : Store(a)
    BY <1>1, <2>1, <2>2
    DEF Next, Push, Start, Abort, ReadRow, Scan, Gate, PostTakesEffect, PostRejected,
        ServerError, Degrade, Reread, UpdateGate, UpdateServerError, UpdateReview, Fails, FlyingLands, FlyingLost
  <2>4. att'[a].res = "posted"
    <3>1. att[a].id \in ReviewIds \cup {None} /\ att \in [Attempts -> Attempt]
      BY <1>1 DEF PInv, TypeOK, Attempt
    <3> QED
      BY <2>3, <3>1, OverFacts DEF Store, Returns, Results
  <2> QED
    BY <2>3, <2>4 DEF Store
<1>2. PInv /\ [Next]_vars
        => [row.id # None /\ row'.id # row.id =>
              \E a \in Attempts :
                att[a].at = "answer" /\ att[a].via = "won" /\ att'[a].res = "posted"]_vars
  BY <1>1 DEF vars
<1> QED
  BY <1>2, PostInvariant, PTL DEF Spec, OnlyWinnerReplacesId

(* An aborted call begins no publication and no refresh. The gates of doPost  *)
(* are the only ways into "post" and "put" from outside: Gate, Cas and        *)
(* UpdateGate look at the signal.                                             *)
THEOREM AbortedCallsBeginNothing == Spec => NoNewWriteAfterAbort
<1> DEFINE Begins(a) == att[a].signal = "aborted" /\ att'[a].at \in {"post", "put"}
                          => att[a].at \in {"post", "answer", "put"}
<1>1. ASSUME PInv, [Next]_vars, NEW a \in Attempts PROVE Begins(a)
  <2>0. att \in [Attempts -> Attempt]
    BY <1>1 DEF PInv, TypeOK
  <2>1. CASE att' = att
    BY <2>1
  <2>2. ASSUME NEW b \in Attempts, NEW new, att' = [att EXCEPT ![b] = new], 
               new.at \notin {"post", "put"} \/ att[b].signal # "aborted"
                 \/ att[b].at \in {"post", "answer", "put"}
        PROVE  Begins(a)
    BY <2>0, <2>2
  <2>3. ASSUME NEW b \in Attempts, (\E s \in Steps \ {"post", "put"} : Goto(b, s))
                 \/ \E res \in Results : Ends(b, res) \/ Returns(b, res)
        PROVE  Begins(a)
    <3>1. CASE \E s \in Steps \ {"post", "put"} : Goto(b, s)
      BY <2>0, <3>1 DEF Goto, Attempt
    <3>2. CASE \E res \in Results : Ends(b, res) \/ Returns(b, res)
      <4>1. PICK i, res : att' = [att EXCEPT ![b] = Over(i, res)]
        BY <3>2 DEF Ends, Returns
      <4>2. Over(i, res).at = "ended"
        BY DEF Over
      <4> QED
        BY <2>2, <4>1, <4>2
    <3> QED
      BY <2>3, <3>1, <3>2
  <2>4. ASSUME NEW b \in Attempts,
               Claim(b) \/ Degrade(b) \/ Cas(b) \/ Fails(b) \/ FlyingLands(b) \/ FlyingLost(b)
                 \/ Store(b) \/ UpdateReview(b)
        PROVE  Begins(a)
    <3>1. CASE att' = [att EXCEPT ![b].at = "gate", ![b].via = "won"]
      BY <2>0, <3>1 DEF Attempt
    <3> QED
      BY <2>3, <2>4, <3>1 DEF Claim, Degrade, Cas, Fails, FlyingLands, FlyingLost, Store, UpdateReview,
         Steps, Results
  <2>5. ASSUME NEW b \in Attempts, NEW r \in Runs, Start(b, r) PROVE Begins(a)
    BY <2>0, <2>5 DEF Start, NewAttempt
  <2>6. ASSUME NEW b \in Attempts, Abort(b) PROVE Begins(a)
    BY <2>0, <2>6 DEF Abort, Attempt
  <2>7. ASSUME NEW b \in Attempts, ReadRow(b) \/ Reread(b) \/ PostTakesEffect(b) PROVE Begins(a)
    BY <2>0, <2>7 DEF ReadRow, Reread, PostTakesEffect, Attempt
  <2>8. ASSUME NEW b \in Attempts, Scan(b) PROVE Begins(a)
    BY <2>0, <2>3, <2>8 DEF Scan, Attempt, Steps
  <2>9. ASSUME NEW b \in Attempts, Gate(b) \/ UpdateGate(b) PROVE Begins(a)
    BY <2>0, <2>3, <2>9 DEF Gate, UpdateGate, Attempt, Results
  <2>10. ASSUME NEW b \in Attempts, PostRejected(b) PROVE Begins(a)
    BY <2>0, <2>3, <2>10 DEF PostRejected, Attempt, Steps, Results
  <2>11. ASSUME NEW b \in Attempts, ServerError(b) \/ UpdateServerError(b) PROVE Begins(a)
    BY <2>0, <2>11 DEF ServerError, UpdateServerError, Attempt
  <2> QED
    BY <1>1, <2>1, <2>4, <2>5, <2>6, <2>7, <2>8, <2>9, <2>10, <2>11 DEF Next, Push, vars
<1>2. PInv /\ [Next]_vars => [\A a \in Attempts : Begins(a)]_vars
  BY <1>1
<1> QED
  BY <1>2, PostInvariant, PTL DEF Spec, NoNewWriteAfterAbort

(* No call of doPost overwrites what another published, and an aborted one     *)
(* begins nothing.                                                             *)
THEOREM WritesStayFenced == Spec => WritesFenced
  BY TakeoverNeverOverwrites, AbortedCallsBeginNothing, PTL DEF WritesFenced

(* doPost, whatever calls overlap or crash: what the row and the callers      *)
(* believe is what GitHub shows.                                              *)
THEOREM PostsStaySound == Spec => []PostsSound
<1>1. TypeOK /\ OneReviewUnlessRaced /\ RowDescribesReview /\ ReturnedIdIsStored => PostsSound
  BY DEF PostsSound
<1> QED
  BY <1>1, PostTypeCorrect, SequentialPostsOnce, RowIsTruthful, ReturnedIdStays, PTL
=============================================================================
