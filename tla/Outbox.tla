------------------------------- MODULE Outbox -------------------------------
(***************************************************************************)
(* The transactional outbox core.outbox and its drain loops, one per pod:  *)
(* a pod leases a batch of pending rows, dispatches them one by one to     *)
(* their sinks under a time bound, and settles each row on what it saw.    *)
(* The settles are fenced by the attempts count read at the claim. The     *)
(* lease of a batch is not extended while its rows wait for their turn, a  *)
(* dispatch that overran its bound lives on as a zombie whose heartbeat    *)
(* still writes the lease, and a commit's answer can be lost.              *)
(*                                                                         *)
(* What a sink does is abstracted to whether it has taken effect.          *)
(***************************************************************************)
EXTENDS Naturals, FiniteSets

CONSTANTS
  NumRows,       \* rows ever appended
  Pods,          \* dispatcher processes
  BatchSize,     \* rows claimed at once
  MaxAttempts,   \* failures that make a row dead
  MaxZombies     \* bound on the abandoned dispatches alive at one time

ASSUME OutboxBounds ==
  NumRows \in Nat /\ BatchSize \in Nat \ {0} /\ MaxAttempts \in Nat \ {0} /\ MaxZombies \in Nat

Rows == 1..NumRows    \* in the order of created_at

VARIABLES
  row,       \* core.outbox, by id
  pod,       \* each pod's drain loop
  zombies,   \* dispatches abandoned by their pod and still running
  effects    \* rows whose sink has taken effect at least once

vars == <<row, pod, zombies, effects>>

(* lease: leased_until is NULL, in the future or in the past. *)
Row == [state    : {"absent", "pending", "dispatched", "dead"},
        attempts : 0..MaxAttempts,
        lease    : {"null", "held", "past"}]

NoRow == [state |-> "absent", attempts |-> 0, lease |-> "null"]

Verdicts == {"ok", "retryable", "permanent"}

(* todo: the claimed rows not settled yet, with the attempts read at the     *)
(* claim; the lowest one is in hand. beat: the heartbeat of the dispatch in  *)
(* hand is running.                                                          *)
Pod == [at   : {"idle", "drain", "call", "down"} \cup Verdicts,
        todo : SUBSET (Rows \X (0..MaxAttempts)),
        beat : BOOLEAN]

IdlePod == [at |-> "idle", todo |-> {}, beat |-> FALSE]
DownPod == [at |-> "down", todo |-> {}, beat |-> FALSE]

-----------------------------------------------------------------------------
InHand(p)   == CHOOSE x \in pod[p].todo : \A y \in pod[p].todo : x[1] <= y[1]
RowOf(p)    == InHand(p)[1]
Expected(p) == InHand(p)[2]       \* expected_attempts

(* The row in hand is finished with; an empty batch ends the pass. *)
Advance(p) ==
  LET rest == pod[p].todo \ {InHand(p)}
  IN [at |-> IF rest = {} THEN "idle" ELSE "drain", todo |-> rest, beat |-> FALSE]

Claimable(r) == row[r].state = "pending" /\ row[r].lease # "held"

(* markAttemptFailed: one UPDATE counts the failure and either defers the    *)
(* lease by the backoff or dead-letters; the state is otherwise untouched.   *)
Failed(x, permanent) ==
  IF permanent \/ x.attempts + 1 >= MaxAttempts
  THEN [state |-> "dead", attempts |-> x.attempts + 1, lease |-> "null"]
  ELSE [state |-> x.state, attempts |-> x.attempts + 1, lease |-> "held"]

Dispatched(x) == [state |-> "dispatched", attempts |-> x.attempts, lease |-> "null"]

(* WHERE state = 'pending' AND attempts = expected_attempts *)
MaySettleOk(p) ==
  row[RowOf(p)].state = "pending" /\ row[RowOf(p)].attempts = Expected(p)

(* WHERE attempts = expected_attempts *)
MaySettleFailed(p) == row[RowOf(p)].attempts = Expected(p)

-----------------------------------------------------------------------------
(* The producers' INSERT: state and attempts from the schema's defaults. *)
Append(r) ==
  /\ row[r].state = "absent"
  /\ \A q \in Rows : q < r => row[q].state # "absent"
  /\ row' = [row EXCEPT ![r].state = "pending"]
  /\ UNCHANGED <<pod, zombies, effects>>

(* claimPending: FOR UPDATE SKIP LOCKED, so a concurrent claim may hide rows.*)
ClaimPending(p, batch) ==
  /\ pod[p].at = "idle"
  /\ batch # {} /\ Cardinality(batch) <= BatchSize
  /\ \A r \in batch : Claimable(r)
  /\ row' = [r \in Rows |-> IF r \in batch THEN [row[r] EXCEPT !.lease = "held"] ELSE row[r]]
  /\ pod' = [pod EXCEPT ![p] = [at |-> "drain", beat |-> FALSE,
                                todo |-> {<<r, row[r].attempts>> : r \in batch}]]
  /\ UNCHANGED <<zombies, effects>>

(* dispatchRow: nothing asks whether the lease of the row in hand is still   *)
(* ours. *)
StartDispatch(p) ==
  /\ pod[p].at = "drain"
  /\ pod' = [pod EXCEPT ![p].at = "call", ![p].beat = TRUE]
  /\ UNCHANGED <<row, zombies, effects>>

SinkSucceeds(p) ==
  /\ pod[p].at = "call"
  /\ pod' = [pod EXCEPT ![p].at = "ok", ![p].beat = FALSE]
  /\ effects' = effects \cup {RowOf(p)}
  /\ UNCHANGED <<row, zombies>>

(* The guard, the sink lookup or the sink throws, maybe after its effect. *)
SinkFails(p, verdict) ==
  /\ pod[p].at = "call"
  /\ pod' = [pod EXCEPT ![p].at = verdict, ![p].beat = FALSE]
  /\ effects' \in {effects, effects \cup {RowOf(p)}}
  /\ UNCHANGED <<row, zombies>>

(* The abandoned dispatch runs on; beyond the bound it is one that ends. *)
Abandoned(p) ==
  IF Cardinality(zombies) < MaxZombies
  THEN zombies \cup {<<p, RowOf(p), pod[p].beat>>}
  ELSE zombies

\* Mutant: the watchdog stands the dispatch down as if it had settled.
DispatchTimesOut_Ok(p) ==
  /\ pod[p].at = "call"
  /\ pod' = [pod EXCEPT ![p].at = "ok", ![p].beat = FALSE]
  /\ zombies' = Abandoned(p)
  /\ UNCHANGED <<row, effects>>

(* The watchdog wins the race: DispatchTimeoutError is retryable, the        *)
(* dispatch goes on unobserved with its heartbeat.                           *)
DispatchTimesOut(p) ==
  /\ pod[p].at = "call"
  /\ pod' = [pod EXCEPT ![p].at = "retryable", ![p].beat = FALSE]
  /\ zombies' = Abandoned(p)
  /\ UNCHANGED <<row, effects>>

ZombieSettles(z) ==
  /\ z \in zombies
  /\ zombies' = zombies \ {z}
  /\ effects' \in {effects, effects \cup {z[2]}}
  /\ UNCHANGED <<row, pod>>

-----------------------------------------------------------------------------
Beaten(r) ==
  \/ \E p \in Pods : pod[p].at = "call" /\ pod[p].beat /\ RowOf(p) = r
  \/ \E z \in zombies : z[2] = r /\ z[3]

(* extendLease: WHERE id = row, whatever the row's state or holder. *)
Heartbeat(r) ==
  /\ Beaten(r) /\ row[r].lease # "held"
  /\ row' = [row EXCEPT ![r].lease = "held"]
  /\ UNCHANGED <<pod, zombies, effects>>

\* Mutant: a zombie's heartbeat has no cap.
HeartbeatCapped_CallOnly ==
  /\ \E p \in Pods : /\ pod[p].at = "call" /\ pod[p].beat
                     /\ pod' = [pod EXCEPT ![p].beat = FALSE]
  /\ UNCHANGED <<row, zombies, effects>>

(* HEARTBEAT_MAX_TOTAL_SECONDS: the heartbeat ends, the handler does not. *)
HeartbeatCapped ==
  /\ \/ \E p \in Pods : /\ pod[p].at = "call" /\ pod[p].beat
                        /\ pod' = [pod EXCEPT ![p].beat = FALSE]
                        /\ UNCHANGED zombies
     \/ \E z \in zombies : /\ z[3]
                           /\ zombies' = (zombies \ {z}) \cup {<<z[1], z[2], FALSE>>}
                           /\ UNCHANGED pod
  /\ UNCHANGED <<row, effects>>

(* leased_until passes: a claim's lease, a heartbeat's, or a backoff. *)
LeaseLapses(r) ==
  /\ row[r].lease = "held"
  /\ row' = [row EXCEPT ![r].lease = "past"]
  /\ UNCHANGED <<pod, zombies, effects>>

-----------------------------------------------------------------------------
MarkDispatched(p) ==
  /\ pod[p].at = "ok"
  /\ row' = IF MaySettleOk(p) THEN [row EXCEPT ![RowOf(p)] = Dispatched(@)] ELSE row
  /\ pod' = [pod EXCEPT ![p] = Advance(p)]
  /\ UNCHANGED <<zombies, effects>>

(* markDispatched stands in the same try block as the dispatch: when it      *)
(* throws, committed or not, the row's attempt is marked failed.             *)
MarkDispatchedThrows(p) ==
  /\ pod[p].at = "ok"
  /\ row' \in {row, IF MaySettleOk(p) THEN [row EXCEPT ![RowOf(p)] = Dispatched(@)] ELSE row}
  /\ pod' = [pod EXCEPT ![p].at = "retryable"]
  /\ UNCHANGED <<zombies, effects>>

MarkAttemptFailed(p) ==
  /\ pod[p].at \in {"retryable", "permanent"}
  /\ row' = IF MaySettleFailed(p)
            THEN [row EXCEPT ![RowOf(p)] = Failed(@, pod[p].at = "permanent")]
            ELSE row
  /\ pod' = [pod EXCEPT ![p] = Advance(p)]
  /\ UNCHANGED <<zombies, effects>>

(* The settle of a failure throws: drainOnce rejects and the loop is down.   *)
(* Its zombies keep running in the pod.                                      *)
MarkAttemptFailedThrows(p) ==
  /\ pod[p].at \in {"retryable", "permanent"}
  /\ pod' = [pod EXCEPT ![p] = DownPod]
  /\ UNCHANGED <<row, zombies, effects>>

PodRestarts(p) ==
  /\ pod' = [pod EXCEPT ![p] = IdlePod]
  /\ zombies' = {z \in zombies : z[1] # p}
  /\ UNCHANGED <<row, effects>>

(* The operator's dead-letter replay. *)
ReplayDead(r) ==
  /\ row[r].state = "dead"
  /\ row' = [row EXCEPT ![r] = [state |-> "pending", attempts |-> 0, lease |-> "null"]]
  /\ UNCHANGED <<pod, zombies, effects>>

-----------------------------------------------------------------------------
Init ==
  /\ row = [r \in Rows |-> NoRow]
  /\ pod = [p \in Pods |-> IdlePod]
  /\ zombies = {}
  /\ effects = {}

Next ==
  \/ \E r \in Rows : Append(r) \/ Heartbeat(r) \/ LeaseLapses(r) \/ ReplayDead(r)
  \/ HeartbeatCapped
  \/ \E z \in zombies : ZombieSettles(z)
  \/ \E p \in Pods :
        \/ \E batch \in SUBSET Rows : ClaimPending(p, batch)
        \/ StartDispatch(p)
        \/ SinkSucceeds(p)
        \/ \E v \in {"retryable", "permanent"} : SinkFails(p, v)
        \/ DispatchTimesOut(p)
        \/ MarkDispatched(p) \/ MarkDispatchedThrows(p)
        \/ MarkAttemptFailed(p) \/ MarkAttemptFailedThrows(p)
        \/ PodRestarts(p)

Spec == Init /\ [][Next]_vars

(***************************************************************************)
(* Fairness: the heartbeat's cap fires, a lease nobody extends runs out, a *)
(* dead loop's pod is replaced. The claim is strongly fair per row (oldest *)
(* first); a dispatch, its watchdog and a settle are strongly fair: a pod  *)
(* is not killed, and a statement does not fail, every single time it gets *)
(* to that point. No sink, append or replay is obliged to happen.          *)
(***************************************************************************)
Fairness ==
  /\ WF_vars(HeartbeatCapped)
  /\ \A r \in Rows :
       /\ WF_vars(LeaseLapses(r) /\ ~ Beaten(r))
       /\ SF_vars(\E p \in Pods, batch \in SUBSET Rows : r \in batch /\ ClaimPending(p, batch))
  /\ \A p \in Pods :
       /\ SF_vars(StartDispatch(p))
       /\ SF_vars(DispatchTimesOut(p))
       /\ SF_vars(MarkDispatched(p))
       /\ SF_vars(MarkAttemptFailed(p))
       /\ WF_vars(pod[p].at = "down" /\ PodRestarts(p))

FairSpec == Spec /\ Fairness

-----------------------------------------------------------------------------
TypeOK ==
  /\ row \in [Rows -> Row]
  /\ pod \in [Pods -> Pod]
  /\ zombies \subseteq Pods \X Rows \X BOOLEAN
  /\ effects \subseteq Rows

(* Nothing is lost: a row is dispatched only after its sink has taken        *)
(* effect, through timeouts, steals, replays and lost commit answers.        *)
DispatchedTookEffect ==
  \A r \in Rows : row[r].state = "dispatched" => r \in effects

(* The retry budget: a row that can be claimed has failed fewer times than   *)
(* the threshold, whoever counted the failures.                              *)
PendingBelowThreshold ==
  \A r \in Rows : row[r].state = "pending" => row[r].attempts < MaxAttempts

(* Dead letters stay dead until an operator replays them: a stale pod's late *)
(* success never turns one into 'dispatched'.                                *)
DeadUntilReplayed ==
  [][\A r \in Rows : row[r].state = "dead" => row'[r].state \in {"dead", "pending"}]_vars

(* Every appended row is dispatched or dead-lettered in the end. *)
RowsSettle ==
  \A r \in Rows : row[r].state = "pending" ~> row[r].state \in {"dispatched", "dead"}

(* Rows are counted and marked truthfully: the parts above. *)
OutboxSound == TypeOK /\ DispatchedTookEffect /\ PendingBelowThreshold

(* Every row settles, and a dead letter comes back only by an operator.     *)
RowsSettleForGood == RowsSettle /\ DeadUntilReplayed
=============================================================================
