---------------------------- MODULE Outbox_proofs ----------------------------
(***************************************************************************)
(* Proofs about Outbox: for any number of rows, pods, retries and zombie   *)
(* dispatches, a row is marked dispatched only after its sink took effect, *)
(* a row that can be claimed is below the retry threshold, and a dead      *)
(* letter comes back only by an operator's replay.                         *)
(*                                                                         *)
(* The invariant is not inductive by itself: what a settle does to a row   *)
(* depends on the batch a pod read earlier, so the strengthening says what *)
(* a pod knows of the row in its hand.                                     *)
(***************************************************************************)
EXTENDS Outbox, FiniteSetTheorems, TLAPS

-----------------------------------------------------------------------------
(* A set of rows that is not empty has a lowest one. By well-foundedness of   *)
(* the strict subset order: the least row has the least set of rows below it. *)
LEMMA LowestExists ==
  ASSUME NEW n \in Nat, NEW T, T \subseteq 1..n, T # {}
  PROVE  \E x \in T : \A y \in T : x <= y
<1> DEFINE Below(x) == {y \in 1..n : y < x}
           B == {Below(x) : x \in T}
           R == StrictSubsetOrdering(1..n)
<1>1. FiniteSubsetsOf(1..n) = SUBSET (1..n)
  <2>1. IsFiniteSet(1..n)
    BY FS_Interval
  <2> QED
    BY <2>1, FS_FiniteSubsetsOfFinite
<1>2. IsWellFoundedOn(R, SUBSET (1..n))
  BY <1>1, FS_StrictSubsetOrderingWellFounded
<1>3. B \subseteq SUBSET (1..n) /\ B # {}
  OBVIOUS
<1>4. PICK b \in B : \A c \in B : ~ (<<c, b>> \in R)
  <2> HIDE DEF B, R
  <2> QED
    BY <1>2, <1>3, WFMin
<1>5. PICK x \in T : b = Below(x)
  BY <1>4
<1>6. ASSUME NEW y \in T, y < x PROVE FALSE
  <2>1. Below(y) \subseteq Below(x) /\ y \in Below(x) /\ y \notin Below(y)
    BY <1>6
  <2>2. Below(y) \in B /\ ~ (<<Below(y), Below(x)>> \in R)
    BY <1>4, <1>5
  <2>3. Below(x) \in SUBSET (1..n) /\ Below(y) \in SUBSET (1..n) /\ Below(y) # Below(x)
    BY <2>1
  <2> HIDE DEF Below
  <2> QED
    BY <2>1, <2>2, <2>3 DEF StrictSubsetOrdering
<1> QED
  BY <1>6

Lowest(todo) == CHOOSE x \in todo : \A y \in todo : x[1] <= y[1]

LEMMA LowestInBatch ==
  ASSUME NEW todo \in SUBSET (Rows \X (0..MaxAttempts)), todo # {}
  PROVE  Lowest(todo) \in todo
<1> DEFINE T == {x[1] : x \in todo}
<1>1. T \subseteq 1..NumRows /\ T # {}
  BY DEF Rows
<1>2. PICK r \in T : \A q \in T : r <= q
  <2> HIDE DEF T
  <2> QED
    BY <1>1, LowestExists, OutboxBounds
<1>3. PICK x \in todo : r = x[1]
  BY <1>2
<1>4. \A y \in todo : x[1] <= y[1]
  BY <1>2, <1>3
<1> QED
  BY <1>4 DEF Lowest

-----------------------------------------------------------------------------
(* The strengthening. A pod that is past its claim has a row in hand; what it *)
(* read at the claim is below the threshold; when its dispatch succeeded, the *)
(* row in hand has taken effect. A row that was never appended has not failed *)
(* yet, and no pod has it: a late failure counts against a row that exists.   *)

PodGood(x, done) ==
  /\ x \in Pod
  /\ x.at \notin {"idle", "down"} => x.todo # {}
  /\ \A y \in x.todo : y[2] < MaxAttempts
  /\ x.at = "ok" => Lowest(x.todo)[1] \in done

RowGood(x, r, done) ==
  /\ x \in Row
  /\ x.state = "dispatched" => r \in done
  /\ x.state = "pending" => x.attempts < MaxAttempts
  /\ x.state = "absent" => x.attempts = 0

ClaimedExist ==
  \A p \in Pods : \A y \in pod[p].todo : row[y[1]].state # "absent"

OInv ==
  /\ TypeOK
  /\ \A r \in Rows : RowGood(row[r], r, effects)
  /\ \A p \in Pods : PodGood(pod[p], effects)
  /\ ClaimedExist

LEMMA InHandFacts ==
  ASSUME OInv, NEW p \in Pods, pod[p].at \notin {"idle", "down"}
  PROVE  /\ InHand(p) = Lowest(pod[p].todo) /\ InHand(p) \in pod[p].todo
         /\ RowOf(p) \in Rows /\ Expected(p) \in Nat /\ Expected(p) < MaxAttempts
<1>1. pod[p].todo \in SUBSET (Rows \X (0..MaxAttempts)) /\ pod[p].todo # {}
  BY DEF OInv, PodGood, Pod
<1>2. InHand(p) = Lowest(pod[p].todo)
  BY DEF InHand, Lowest
<1>3. InHand(p) \in pod[p].todo
  BY <1>1, <1>2, LowestInBatch
<1>4. InHand(p) \in Rows \X (0..MaxAttempts)
  BY <1>1, <1>3
<1>5. InHand(p)[2] < MaxAttempts
  BY <1>3 DEF OInv, PodGood
<1> QED
  BY <1>2, <1>3, <1>4, <1>5, OutboxBounds DEF RowOf, Expected

(* More effects spoil nothing. *)
LEMMA GoodGrows ==
  ASSUME NEW done, NEW more, done \subseteq more
  PROVE  /\ \A x : PodGood(x, done) => PodGood(x, more)
         /\ \A x, r : RowGood(x, r, done) => RowGood(x, r, more)
  BY DEF PodGood, RowGood

(* A step keeps OInv when it keeps the small tables typed and takes good rows *)
(* and pods to good ones.                                                     *)
LEMMA StepKeeps ==
  ASSUME OInv, zombies' \subseteq Pods \X Rows \X BOOLEAN,
         effects \subseteq effects', effects' \subseteq Rows,
         \/ row' = row
         \/ \E r \in Rows : \E x :
              /\ row' = [row EXCEPT ![r] = x] /\ RowGood(x, r, effects')
              /\ x.state = "absent" => row[r].state = "absent",
         \/ pod' = pod
         \/ \E p \in Pods : \E y :
              /\ pod' = [pod EXCEPT ![p] = y] /\ PodGood(y, effects')
              /\ y.todo \subseteq pod[p].todo
  PROVE  OInv'
<1>0. row \in [Rows -> Row] /\ pod \in [Pods -> Pod]
  BY DEF OInv, TypeOK
<1>1. \A r \in Rows : RowGood(row[r], r, effects')
  BY GoodGrows DEF OInv
<1>2. \A p \in Pods : PodGood(pod[p], effects')
  BY GoodGrows DEF OInv
<1>3. row' \in [Rows -> Row] /\ \A r \in Rows : RowGood(row'[r], r, effects')
  <2>1. CASE row' = row
    BY <1>0, <1>1, <2>1
  <2>2. ASSUME NEW r \in Rows, NEW x, row' = [row EXCEPT ![r] = x], RowGood(x, r, effects')
        PROVE  row' \in [Rows -> Row] /\ \A q \in Rows : RowGood(row'[q], q, effects')
    <3>1. x \in Row
      BY <2>2 DEF RowGood
    <3>2. row' \in [Rows -> Row] /\ row'[r] = x /\ \A q \in Rows \ {r} : row'[q] = row[q]
      BY <1>0, <2>2, <3>1
    <3> QED
      BY <1>1, <2>2, <3>2
  <2>3. \/ row' = row
        \/ \E r \in Rows : \E x : row' = [row EXCEPT ![r] = x] /\ RowGood(x, r, effects')
    OBVIOUS
  <2> QED
    BY <2>1, <2>2, <2>3
<1>4. pod' \in [Pods -> Pod] /\ \A p \in Pods : PodGood(pod'[p], effects')
  <2>1. CASE pod' = pod
    BY <1>0, <1>2, <2>1
  <2>2. ASSUME NEW p \in Pods, NEW y, pod' = [pod EXCEPT ![p] = y], PodGood(y, effects')
        PROVE  pod' \in [Pods -> Pod] /\ \A q \in Pods : PodGood(pod'[q], effects')
    <3>1. y \in Pod
      BY <2>2 DEF PodGood
    <3>2. pod' \in [Pods -> Pod] /\ pod'[p] = y /\ \A q \in Pods \ {p} : pod'[q] = pod[q]
      BY <1>0, <2>2, <3>1
    <3> QED
      BY <1>2, <2>2, <3>2
  <2> QED
    BY <2>1, <2>2
<1>5. \A r \in Rows : row'[r].state = "absent" => row[r].state = "absent"
  <2>1. CASE row' = row
    BY <2>1
  <2>2. ASSUME NEW r \in Rows, NEW x, row' = [row EXCEPT ![r] = x],
               x.state = "absent" => row[r].state = "absent"
        PROVE  \A q \in Rows : row'[q].state = "absent" => row[q].state = "absent"
    BY <1>0, <2>2
  <2>3. \/ row' = row
        \/ \E r \in Rows : \E x : /\ row' = [row EXCEPT ![r] = x]
                                  /\ x.state = "absent" => row[r].state = "absent"
    OBVIOUS
  <2> QED
    BY <2>1, <2>2, <2>3
<1>6. \A p \in Pods : pod'[p].todo \subseteq pod[p].todo
  BY <1>0
<1>7. \A p \in Pods : \A y \in pod[p].todo : y[1] \in Rows
  BY <1>0 DEF Pod
<1>8. ClaimedExist'
  BY <1>5, <1>6, <1>7 DEF OInv, ClaimedExist
<1> QED
  BY <1>3, <1>4, <1>8 DEF OInv, TypeOK

-----------------------------------------------------------------------------
(* One lemma per kind of action. *)

LEMMA InitOInv == Init => OInv
<1> SUFFICES ASSUME Init PROVE OInv
  OBVIOUS
<1>1. NoRow \in Row /\ IdlePod \in Pod
  BY OutboxBounds DEF NoRow, Row, IdlePod, Pod
<1> QED
  BY <1>1 DEF Init, OInv, TypeOK, RowGood, NoRow, PodGood, IdlePod, ClaimedExist

(* A step that changes the state of one row or its lease. *)
LEMMA RowStepKeeps ==
  ASSUME OInv, NEW r \in Rows, Append(r) \/ Heartbeat(r) \/ LeaseLapses(r) \/ ReplayDead(r)
  PROVE  OInv'
<1>0. row \in [Rows -> Row] /\ RowGood(row[r], r, effects) /\ zombies \subseteq Pods \X Rows \X BOOLEAN
      /\ effects \subseteq Rows
  BY DEF OInv, TypeOK
<1>1. UNCHANGED <<pod, zombies, effects>>
  BY DEF Append, Heartbeat, LeaseLapses, ReplayDead
<1>2. CASE Append(r)
  <2> DEFINE x == [row[r] EXCEPT !.state = "pending"]
  <2>1. row' = [row EXCEPT ![r] = x]
    BY <1>2 DEF Append
  <2>2. RowGood(x, r, effects) /\ x.state # "absent"
    BY <1>0, <1>2, OutboxBounds DEF Append, RowGood, Row
  <2> QED
    BY <1>0, <1>1, <2>1, <2>2, StepKeeps
<1>3. ASSUME NEW l \in {"held", "past"}, row' = [row EXCEPT ![r].lease = l] PROVE OInv'
  <2> DEFINE x == [row[r] EXCEPT !.lease = l]
  <2>1. row' = [row EXCEPT ![r] = x]
    BY <1>3
  <2>2. RowGood(x, r, effects) /\ x.state = row[r].state
    BY <1>0 DEF RowGood, Row
  <2> QED
    BY <1>0, <1>1, <2>1, <2>2, StepKeeps
<1>4. CASE ReplayDead(r)
  <2> DEFINE x == [state |-> "pending", attempts |-> 0, lease |-> "null"]
  <2>1. row' = [row EXCEPT ![r] = x]
    BY <1>4 DEF ReplayDead
  <2>2. x \in Row
    BY OutboxBounds DEF Row
  <2>3. RowGood(x, r, effects) /\ x.state # "absent"
    BY <2>2, OutboxBounds DEF RowGood
  <2> QED
    BY <1>0, <1>1, <2>1, <2>3, StepKeeps
<1> QED
  BY <1>2, <1>3, <1>4 DEF Heartbeat, LeaseLapses

LEMMA ClaimKeeps ==
  ASSUME OInv, NEW p \in Pods, NEW batch \in SUBSET Rows, ClaimPending(p, batch)
  PROVE  OInv'
<1> DEFINE y == [at |-> "drain", beat |-> FALSE, todo |-> {<<r, row[r].attempts>> : r \in batch}]
<1>0. /\ row \in [Rows -> Row] /\ pod \in [Pods -> Pod] /\ UNCHANGED <<zombies, effects>>
      /\ pod' = [pod EXCEPT ![p] = y]
      /\ row' = [r \in Rows |-> IF r \in batch THEN [row[r] EXCEPT !.lease = "held"] ELSE row[r]]
      /\ batch # {} /\ \A r \in batch : row[r].state = "pending"
  BY DEF OInv, TypeOK, ClaimPending, Claimable
<1>1. ASSUME NEW r \in Rows PROVE RowGood(row'[r], r, effects)
  BY <1>0 DEF OInv, RowGood, Row
<1>2. row' \in [Rows -> Row]
  BY <1>0, <1>1 DEF RowGood
<1>3. \A r \in batch : row[r].attempts \in 0..MaxAttempts /\ row[r].attempts < MaxAttempts
  BY <1>0 DEF OInv, RowGood, Row
<1>4. y \in Pod
  BY <1>3 DEF Pod
<1>5. PodGood(y, effects)
  <2>1. y.at = "drain" /\ y.todo # {}
    BY <1>0
  <2>2. \A x \in y.todo : x[2] < MaxAttempts
    BY <1>3
  <2> HIDE DEF y
  <2> QED
    BY <1>4, <2>1, <2>2 DEF PodGood
<1> HIDE DEF y
<1>6. pod' \in [Pods -> Pod] /\ \A q \in Pods : PodGood(pod'[q], effects)
  BY <1>0, <1>4, <1>5 DEF OInv
<1>7. ASSUME NEW q \in Pods, NEW x \in pod'[q].todo PROVE row'[x[1]].state # "absent"
  <2>1. \A r \in Rows : row'[r].state = row[r].state
    BY <1>0 DEF Row
  <2>2. CASE q = p
    <3>1. PICK r \in batch : x = <<r, row[r].attempts>>
      BY <1>0, <1>7, <2>2 DEF y
    <3> QED
      BY <1>0, <2>1, <3>1
  <2>3. CASE q # p
    <3>1. x \in pod[q].todo
      BY <1>0, <1>7, <2>3
    <3>2. x[1] \in Rows
      BY <1>0, <3>1 DEF Pod
    <3> QED
      BY <2>1, <3>1, <3>2 DEF OInv, ClaimedExist
  <2> QED
    BY <2>2, <2>3
<1> QED
  BY <1>0, <1>1, <1>2, <1>6, <1>7 DEF OInv, TypeOK, ClaimedExist

(* The steps of the dispatch in hand. *)
LEMMA DispatchKeeps ==
  ASSUME OInv, NEW p \in Pods,
         \/ StartDispatch(p) \/ SinkSucceeds(p) \/ DispatchTimesOut(p)
         \/ \E v \in {"retryable", "permanent"} : SinkFails(p, v)
  PROVE  OInv'
<1>0. pod \in [Pods -> Pod] /\ pod[p] \in Pod /\ zombies \subseteq Pods \X Rows \X BOOLEAN
      /\ effects \subseteq Rows /\ PodGood(pod[p], effects)
  BY DEF OInv, TypeOK
<1>1. pod[p].at \in {"drain", "call"}
  BY DEF StartDispatch, SinkSucceeds, DispatchTimesOut, SinkFails
<1>2. RowOf(p) = Lowest(pod[p].todo)[1] /\ RowOf(p) \in Rows
  BY <1>1, InHandFacts DEF RowOf
<1>3. /\ row' = row
      /\ effects \subseteq effects' /\ effects' \subseteq Rows
  BY <1>0, <1>2 DEF StartDispatch, SinkSucceeds, DispatchTimesOut, SinkFails
<1>4. zombies' \subseteq Pods \X Rows \X BOOLEAN
  BY <1>0, <1>2 DEF StartDispatch, SinkSucceeds, DispatchTimesOut, SinkFails, Abandoned, Pod
<1>5. PICK v \in {"call", "ok", "retryable", "permanent"}, b \in BOOLEAN :
        /\ pod' = [pod EXCEPT ![p].at = v, ![p].beat = b]
        /\ v = "ok" => RowOf(p) \in effects'
  BY <1>3 DEF StartDispatch, SinkSucceeds, DispatchTimesOut, SinkFails
<1> DEFINE y == [pod[p] EXCEPT !.at = v, !.beat = b]
<1>6. pod' = [pod EXCEPT ![p] = y]
  BY <1>0, <1>5
<1>7. y \in Pod /\ y.at = v /\ y.todo = pod[p].todo
  BY <1>0 DEF Pod, Verdicts
<1>8. PodGood(y, effects')
  BY <1>0, <1>1, <1>2, <1>5, <1>7 DEF PodGood
<1> HIDE DEF y
<1> QED
  BY <1>3, <1>4, <1>6, <1>7, <1>8, StepKeeps

(* After a settle the pod goes on with the rest of its batch. *)
LEMMA AdvanceGood ==
  ASSUME OInv, NEW p \in Pods
  PROVE  PodGood(Advance(p), effects) /\ Advance(p).todo \subseteq pod[p].todo
<1> DEFINE rest == pod[p].todo \ {InHand(p)}
<1>1. rest \in SUBSET (Rows \X (0..MaxAttempts)) /\ \A y \in rest : y[2] < MaxAttempts
  BY DEF OInv, PodGood, Pod
<1>2. Advance(p) = [at |-> IF rest = {} THEN "idle" ELSE "drain", todo |-> rest, beat |-> FALSE]
  BY DEF Advance
<1>3. rest \subseteq pod[p].todo
  OBVIOUS
<1> HIDE DEF rest
<1> QED
  BY <1>1, <1>2, <1>3 DEF PodGood, Pod

LEMMA SettleKeeps ==
  ASSUME OInv, NEW p \in Pods,
         MarkDispatched(p) \/ MarkDispatchedThrows(p) \/ MarkAttemptFailed(p) \/ MarkAttemptFailedThrows(p)
  PROVE  OInv'
<1>0. /\ pod \in [Pods -> Pod] /\ pod[p] \in Pod /\ zombies \subseteq Pods \X Rows \X BOOLEAN
      /\ effects \subseteq Rows /\ PodGood(pod[p], effects) /\ row \in [Rows -> Row]
  BY DEF OInv, TypeOK
<1>1. UNCHANGED <<zombies, effects>> /\ pod[p].at \in Verdicts
  BY DEF MarkDispatched, MarkDispatchedThrows, MarkAttemptFailed, MarkAttemptFailedThrows, Verdicts
<1>2. /\ RowOf(p) = Lowest(pod[p].todo)[1] /\ RowOf(p) \in Rows
      /\ Expected(p) \in Nat /\ Expected(p) < MaxAttempts
  BY <1>1, InHandFacts DEF RowOf, Verdicts
<1>3. pod[p].at = "ok" => RowOf(p) \in effects
  BY <1>0, <1>2 DEF PodGood
<1>4. RowGood(row[RowOf(p)], RowOf(p), effects) /\ row[RowOf(p)].state # "absent"
  <2>1. InHand(p) \in pod[p].todo
    BY <1>1, InHandFacts DEF Verdicts
  <2> QED
    BY <1>2, <2>1 DEF OInv, ClaimedExist, RowOf
<1>5. pod[p].at = "ok" => /\ RowGood(Dispatched(row[RowOf(p)]), RowOf(p), effects)
                          /\ Dispatched(row[RowOf(p)]).state # "absent"
  BY <1>3, <1>4 DEF RowGood, Dispatched, Row
<1>6. ASSUME NEW perm \in BOOLEAN, MaySettleFailed(p)
      PROVE  /\ RowGood(Failed(row[RowOf(p)], perm), RowOf(p), effects)
             /\ Failed(row[RowOf(p)], perm).state # "absent"
  <2>1. row[RowOf(p)].attempts + 1 \in 0..MaxAttempts
    BY <1>2, <1>6, OutboxBounds DEF MaySettleFailed
  <2> QED
    BY <1>4, <2>1, OutboxBounds DEF RowGood, Failed, Row
<1>7. \/ row' = row
      \/ \E r \in Rows : \E x : /\ row' = [row EXCEPT ![r] = x] /\ RowGood(x, r, effects)
                                /\ x.state # "absent"
  <2>1. CASE MarkDispatched(p) \/ MarkDispatchedThrows(p)
    BY <1>2, <1>5, <2>1 DEF MarkDispatched, MarkDispatchedThrows
  <2>2. CASE MarkAttemptFailed(p)
    BY <1>2, <1>6, <2>2 DEF MarkAttemptFailed
  <2>3. CASE MarkAttemptFailedThrows(p)
    BY <2>3 DEF MarkAttemptFailedThrows
  <2> QED
    BY <2>1, <2>2, <2>3
<1>8. \E y : pod' = [pod EXCEPT ![p] = y] /\ PodGood(y, effects) /\ y.todo \subseteq pod[p].todo
  <2>1. CASE pod' = [pod EXCEPT ![p] = Advance(p)]
    BY <2>1, AdvanceGood
  <2>2. CASE pod' = [pod EXCEPT ![p].at = "retryable"]
    <3> DEFINE y == [pod[p] EXCEPT !.at = "retryable"]
    <3>1. y \in Pod /\ y.at = "retryable" /\ y.todo = pod[p].todo
      BY <1>0 DEF Pod, Verdicts
    <3>2. PodGood(y, effects)
      BY <1>0, <1>1, <3>1 DEF PodGood, Verdicts
    <3> QED
      BY <2>2, <3>1, <3>2
  <2>3. CASE pod' = [pod EXCEPT ![p] = DownPod]
    <3>1. PodGood(DownPod, effects) /\ DownPod.todo \subseteq pod[p].todo
      BY DEF DownPod, PodGood, Pod
    <3> QED
      BY <2>3, <3>1
  <2> QED
    BY <2>1, <2>2, <2>3 DEF MarkDispatched, MarkDispatchedThrows, MarkAttemptFailed, MarkAttemptFailedThrows
<1> QED
  BY <1>0, <1>1, <1>7, <1>8, StepKeeps

LEMMA CappedKeeps == ASSUME OInv, HeartbeatCapped PROVE OInv'
<1>0. /\ pod \in [Pods -> Pod] /\ zombies \subseteq Pods \X Rows \X BOOLEAN /\ effects \subseteq Rows
      /\ UNCHANGED <<row, effects>>
  BY DEF OInv, TypeOK, HeartbeatCapped
<1>1. ASSUME NEW p \in Pods, pod' = [pod EXCEPT ![p].beat = FALSE], UNCHANGED zombies PROVE OInv'
  <2> DEFINE y == [pod[p] EXCEPT !.beat = FALSE]
  <2>1. y \in Pod /\ y.at = pod[p].at /\ y.todo = pod[p].todo
    BY <1>0 DEF Pod
  <2>2. PodGood(y, effects)
    BY <2>1 DEF OInv, PodGood
  <2> QED
    BY <1>0, <1>1, <2>1, <2>2, StepKeeps
<1>2. ASSUME NEW z \in zombies, zombies' = (zombies \ {z}) \cup {<<z[1], z[2], FALSE>>}, UNCHANGED pod
      PROVE  OInv'
  <2>1. zombies' \subseteq Pods \X Rows \X BOOLEAN
    <3>1. z \in Pods \X Rows \X BOOLEAN
      BY <1>0
    <3>2. <<z[1], z[2], FALSE>> \in Pods \X Rows \X BOOLEAN
      BY <3>1
    <3> DEFINE new == <<z[1], z[2], FALSE>>
    <3>3. zombies' = (zombies \ {z}) \cup {new} /\ new \in Pods \X Rows \X BOOLEAN
      BY <1>2, <3>2
    <3> HIDE DEF new
    <3> QED
      BY <1>0, <3>3
  <2> QED
    BY <1>0, <1>2, <2>1, StepKeeps
<1> QED
  BY <1>1, <1>2 DEF HeartbeatCapped

LEMMA ZombieKeeps == ASSUME OInv, NEW z \in zombies, ZombieSettles(z) PROVE OInv'
<1>1. /\ zombies' \subseteq Pods \X Rows \X BOOLEAN /\ UNCHANGED <<row, pod>>
      /\ effects \subseteq effects' /\ effects' \subseteq Rows
  BY DEF ZombieSettles, OInv, TypeOK
<1> QED
  BY <1>1, StepKeeps

LEMMA RestartKeeps == ASSUME OInv, NEW p \in Pods, PodRestarts(p) PROVE OInv'
<1>1. PodGood(IdlePod, effects) /\ IdlePod.todo \subseteq pod[p].todo
  BY DEF PodGood, IdlePod, Pod
<1>2. /\ zombies' \subseteq Pods \X Rows \X BOOLEAN /\ UNCHANGED <<row, effects>>
      /\ pod' = [pod EXCEPT ![p] = IdlePod] /\ effects \subseteq Rows
  BY DEF PodRestarts, OInv, TypeOK
<1> QED
  BY <1>1, <1>2, StepKeeps

LEMMA NextKeepsOInv == OInv /\ [Next]_vars => OInv'
<1> SUFFICES ASSUME OInv, [Next]_vars PROVE OInv'
  OBVIOUS
<1>1. CASE UNCHANGED vars
  BY <1>1 DEF vars, OInv, TypeOK, ClaimedExist
<1>2. ASSUME NEW p \in Pods, ~ UNCHANGED vars,
             \/ StartDispatch(p) \/ SinkSucceeds(p) \/ DispatchTimesOut(p)
             \/ \E v \in {"retryable", "permanent"} : SinkFails(p, v)
             \/ MarkDispatched(p) \/ MarkDispatchedThrows(p)
             \/ MarkAttemptFailed(p) \/ MarkAttemptFailedThrows(p)
             \/ PodRestarts(p)
             \/ \E batch \in SUBSET Rows : ClaimPending(p, batch)
      PROVE  OInv'
  BY <1>2, DispatchKeeps, SettleKeeps, RestartKeeps, ClaimKeeps
<1> QED
  BY <1>1, <1>2, RowStepKeeps, CappedKeeps, ZombieKeeps DEF Next

THEOREM OutboxInvariant == Spec => []OInv
  BY InitOInv, NextKeepsOInv, PTL DEF Spec

(* Rows are counted and marked truthfully, whatever batches, leases, zombies,  *)
(* lost commit answers and replays do: a dispatched row's sink took effect,    *)
(* and a row that can still be claimed is below the retry threshold.           *)
THEOREM OutboxStaysSound == Spec => []OutboxSound
<1>1. OInv => OutboxSound
  BY DEF OInv, RowGood, OutboxSound, DispatchedTookEffect, PendingBelowThreshold
<1> QED
  BY <1>1, OutboxInvariant, PTL

(* A dead letter stays dead until an operator replays it: the guard            *)
(* state = 'pending' of markDispatched refuses a stale pod's late success, and *)
(* a late failure leaves the row dead.                                         *)
THEOREM DeadLettersStay == Spec => DeadUntilReplayed
<1>1. ASSUME OInv, [Next]_vars, NEW r \in Rows, row[r].state = "dead"
      PROVE  row'[r].state \in {"dead", "pending"}
  <2>0. row \in [Rows -> Row]
    BY <1>1 DEF OInv, TypeOK
  <2>1. CASE row' = row
    BY <1>1, <2>1
  <2>2. ASSUME NEW q \in Rows, Append(q) \/ Heartbeat(q) \/ LeaseLapses(q) \/ ReplayDead(q)
        PROVE  row'[r].state \in {"dead", "pending"}
    BY <1>1, <2>0, <2>2 DEF Append, Heartbeat, LeaseLapses, ReplayDead, Row
  <2>3. ASSUME NEW p \in Pods, NEW batch \in SUBSET Rows, ClaimPending(p, batch)
        PROVE  row'[r].state \in {"dead", "pending"}
    BY <1>1, <2>0, <2>3 DEF ClaimPending, Claimable
  <2>4. ASSUME NEW p \in Pods, MarkDispatched(p) \/ MarkDispatchedThrows(p)
        PROVE  row'[r].state \in {"dead", "pending"}
    BY <1>1, <2>0, <2>4 DEF MarkDispatched, MarkDispatchedThrows, MaySettleOk
  <2>5. ASSUME NEW p \in Pods, MarkAttemptFailed(p)
        PROVE  row'[r].state \in {"dead", "pending"}
    BY <1>1, <2>0, <2>5 DEF MarkAttemptFailed, Failed
  <2> QED
    BY <1>1, <2>1, <2>2, <2>3, <2>4, <2>5 DEF Next, vars, HeartbeatCapped, ZombieSettles, StartDispatch,
       SinkSucceeds, SinkFails, DispatchTimesOut, MarkAttemptFailedThrows, PodRestarts
<1>2. OInv /\ [Next]_vars
        => [\A r \in Rows : row[r].state = "dead" => row'[r].state \in {"dead", "pending"}]_vars
  BY <1>1
<1> QED
  BY <1>2, OutboxInvariant, PTL DEF Spec, DeadUntilReplayed
=============================================================================
