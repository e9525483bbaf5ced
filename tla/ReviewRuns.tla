----------------------------- MODULE ReviewRuns -----------------------------
(***************************************************************************)
(* The durable review record: one row of core.review_runs per review run   *)
(* and, per pull request, the pointer pull_request_reviews.current_run_id. *)
(* This module holds the rows, the CHECK constraints the database puts on  *)
(* them and the operations that write them: the allocator (which           *)
(* supersedes), the lifecycle primitive transitionRun, and the reapers'    *)
(* and settles' unguarded UPDATEs.                                         *)
(***************************************************************************)
EXTENDS Naturals, FiniteSets

CONSTANTS
  Reviews,  \* rows of core.pull_request_reviews (one per pull request)
  Runs,     \* run ids; a finite set bounds the number of pushes
  None      \* SQL NULL

VARIABLES
  run,      \* core.review_runs, by run_id
  current   \* pull_request_reviews.current_run_id, by review_id

runVars == <<run, current>>

Active   == {"PENDING", "RUNNING", "WAITING_RETRY"}
Terminal == {"COMPLETED", "FAILED", "CANCELLED", "PARTIAL"}

\* The terminal states that own a timestamp column (completed_at, failed_at,
\* cancelled_at). A row's `stamps` is the set of those columns that are not NULL.
Stamped == {"COMPLETED", "FAILED", "CANCELLED"}

CancelReasons == {"superseded", "operator_cancelled", "timeout"}

ASSUME NoneIsNoRow == None \notin Reviews \cup Runs \cup CancelReasons

RunRow == [state  : {"absent"} \cup Active \cup Terminal,
           review : Reviews \cup {None},
           stamps : SUBSET Stamped,
           reason : CancelReasons \cup {None},
           by     : Runs \cup {None}]        \* superseded_by_run_id

NoRow == [state |-> "absent", review |-> None, stamps |-> {},
          reason |-> None, by |-> None]

PendingRow(rv) == [state |-> "PENDING", review |-> rv, stamps |-> {},
                   reason |-> None, by |-> None]

-----------------------------------------------------------------------------
(* The CHECK constraints ck_review_runs_*: each timestamp is present exactly *)
(* in its state, and a superseded row is CANCELLED and names its successor.  *)
(* An UPDATE whose row violates them raises and its transaction rolls back.  *)
ChecksHold(row) ==
  /\ \A s \in Stamped : s \in row.stamps <=> row.state = s
  /\ row.by # None => row.state = "CANCELLED"
  /\ row.reason = "superseded" => row.by # None

(* SET lifecycle_state = s together with s's timestamp. Nothing clears a     *)
(* timestamp that an earlier UPDATE has written.                             *)
WithState(row, s) ==
  [row EXCEPT !.state = s, !.stamps = @ \cup ({s} \cap Stamped)]

Cancelled(row, why) == [WithState(row, "CANCELLED") EXCEPT !.reason = why]

(* transitionRun under SELECT ... FOR UPDATE: idempotent on the target state, *)
(* StateDrift (rollback) when the row is in neither state.                    *)
TransitionOutcome(row, from, to) ==
  CASE row.state = to   -> "ALREADY_APPLIED"
    [] row.state = from -> "APPLIED"
    [] OTHER            -> "StateDrift"

Transitioned(row, from, to) ==
  IF TransitionOutcome(row, from, to) = "APPLIED" THEN WithState(row, to) ELSE row

-----------------------------------------------------------------------------
\* Mutant: supersede forgets the runs that have not been dispatched yet.
ActiveRunsOf_RunningOnly(rv) ==
  {q \in Runs : run[q].review = rv /\ run[q].state = "RUNNING"}

ActiveRunsOf(rv) == {q \in Runs : run[q].review = rv /\ run[q].state \in Active}

RunsInit ==
  /\ run = [r \in Runs |-> NoRow]
  /\ current = [rv \in Reviews |-> None]

(* allocateRun, one transaction serialised on the review row: supersede every *)
(* active run of the review, insert the new run PENDING and flip the pointer. *)
(* flipCurrentRun rolls everything back when a run was superseded and the     *)
(* pointer was not at it.                                                     *)
AllocateRun(rv, r) ==
  /\ run[r].state = "absent"
  /\ ActiveRunsOf(rv) # {} => current[rv] \in ActiveRunsOf(rv)
  /\ run' = [q \in Runs |->
               IF q = r THEN PendingRow(rv)
               ELSE IF q \in ActiveRunsOf(rv)
                    THEN [Cancelled(run[q], "superseded") EXCEPT !.by = r]
                    ELSE run[q]]
  /\ current' = [current EXCEPT ![rv] = r]

(* assertCurrentRun: the run is the one its review points at. *)
IsCurrent(r) == run[r].review \in Reviews /\ current[run[r].review] = r

-----------------------------------------------------------------------------
RunsTypeOK ==
  /\ run \in [Runs -> RunRow]
  /\ current \in [Reviews -> Runs \cup {None}]

(* Every stored run satisfies the database's CHECK constraints. *)
RunsChecked == \A r \in Runs : ChecksHold(run[r])

(* A review has at most one active run, and it is the run the review points   *)
(* at: the allocator's supersede step never leaves a second one behind.       *)
ActiveRunIsCurrent ==
  \A r \in Runs : run[r].state \in Active => IsCurrent(r)
=============================================================================
