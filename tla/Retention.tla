----------------------------- MODULE Retention ------------------------------
(***************************************************************************)
(* The daily run_id_retention job: it closes the pull requests of          *)
(* ephemeral runs, retires old runs that ended, and deletes old events, in *)
(* this order, each sweep in a try of its own. A reclaimed attempt of the  *)
(* job may still be sweeping when the next one starts. A day passes only   *)
(* after the sweeps begun before it: a sweep never takes the days between  *)
(* the two ages.                                                           *)
(***************************************************************************)
EXTENDS Naturals, Sequences, FiniteSets

CONSTANTS
  OldRuns,    \* runs, all started on day 0
  Sweepers,   \* attempts of the job that may overlap
  PrTtl,      \* days after which a pull request is closed
  RunTtl,     \* days after which a run is retired
  EventTtl,   \* days after which events are deleted
  MaxAge      \* bound on the days

ASSUME RetentionAssumption ==
  /\ {PrTtl, RunTtl, EventTtl, MaxAge} \subseteq Nat /\ PrTtl < RunTtl

VARIABLES
  today,    \* the day
  aged,     \* core.review_runs: state, review row present, retired; rows of the trail
  pull,     \* the pull request of each run: open or closed, and audited
  events,   \* audit.workflow_events: days of each run's events
  blocked,  \* the installation is suspended
  sweep,    \* each attempt: sweep, rows to do, rows it holds locked
  excused   \* history: runs whose pull request a sweep could not list or close, or that was reopened

retentionVars == <<today, aged, pull, events, blocked, sweep, excused>>

Resting == [at |-> "none", todo |-> {}, locked |-> {}, since |-> 0]

RetentionInit ==
  /\ today = 0 /\ blocked = FALSE /\ excused = {}
  /\ aged \in [OldRuns -> [state : {"RUNNING", "COMPLETED", "CANCELLED"}, joined : BOOLEAN, retired : {FALSE}, trail : {0}]]
  /\ pull = [r \in OldRuns |-> [open |-> TRUE, audited |-> FALSE]]
  /\ events = [r \in OldRuns |-> {0}] /\ sweep = [s \in Sweepers |-> Resting]

-----------------------------------------------------------------------------
(* The world: days, runs that end, owners who suspend the installation or   *)
(* reopen a pull request.                                                   *)
NextDay ==
  /\ today < MaxAge /\ \A s \in Sweepers : sweep[s].at # "none" => sweep[s].since = today
  /\ today' = today + 1
  /\ UNCHANGED <<aged, pull, events, blocked, sweep, excused>>

RunEnds(r) ==
  /\ aged[r].state = "RUNNING"
  /\ \E e \in {"COMPLETED", "FAILED"} : aged' = [aged EXCEPT ![r].state = e]
  /\ events' = [events EXCEPT ![r] = @ \cup {today}]
  /\ UNCHANGED <<today, pull, blocked, sweep, excused>>

Suspend ==
  /\ blocked' = ~blocked /\ UNCHANGED <<today, aged, pull, events, sweep, excused>>

Reopen(r) ==
  /\ ~pull[r].open /\ pull' = [pull EXCEPT ![r].open = TRUE] /\ excused' = excused \cup {r}
  /\ UNCHANGED <<today, aged, events, blocked, sweep>>

-----------------------------------------------------------------------------
\* Mutant: runs are retired before their pull requests are closed.
SweepOrder_RetireFirst == <<"retire", "close", "delete">>

(* The handler runs three sweeps, one after the other. *)
SweepOrder == <<"close", "retire", "delete">>

ThenSweep(at) ==
  IF at = SweepOrder[3] THEN "none" ELSE SweepOrder[1 + CHOOSE i \in 1..2 : SweepOrder[i] = at]

Goes(s, at) == [sweep EXCEPT ![s] = [Resting EXCEPT !.at = at, !.since = sweep[s].since]]

(* cutoffFor *)
OlderThan(ttl) == ttl < today

(* CANDIDATE_SQL: ephemeral, not retired, old enough, not suspended, and    *)
(* joined to its review, repository and installation.                       *)
CloseCandidates ==
  IF blocked \/ ~OlderThan(PrTtl) THEN {} ELSE {r \in OldRuns : aged[r].joined /\ ~aged[r].retired}

BeginSweeps(s) ==
  /\ sweep[s].at = "none"
  /\ sweep' = [sweep EXCEPT ![s] = [Resting EXCEPT !.at = SweepOrder[1], !.since = today]]
  /\ UNCHANGED <<today, aged, pull, events, blocked, excused>>

ListCandidates(s) ==
  /\ sweep[s].at = "close"
  /\ sweep' = [sweep EXCEPT ![s].at = "closing", ![s].todo = CloseCandidates]
  /\ excused' = IF blocked THEN OldRuns ELSE excused
  /\ UNCHANGED <<today, aged, pull, events, blocked>>

(* closeOneRow: nothing open is skipped, and so is what GitHub refuses. *)
SkipPull(s, r) ==
  /\ sweep[s].at = "closing" /\ r \in sweep[s].todo
  /\ sweep' = [sweep EXCEPT ![s].todo = @ \ {r}]
  /\ excused' = IF pull[r].open THEN excused \cup {r} ELSE excused
  /\ UNCHANGED <<today, aged, pull, events, blocked>>

ClosePull(s, r) ==
  /\ sweep[s].at = "closing" /\ r \in sweep[s].todo /\ pull[r].open
  /\ pull' = [pull EXCEPT ![r].open = FALSE]
  /\ sweep' = [sweep EXCEPT ![s].at = "audit", ![s].todo = @ \ {r}, ![s].locked = {r}]
  /\ UNCHANGED <<today, aged, events, blocked, excused>>

(* emitCloseAudit, in a transaction of its own. *)
EmitCloseAudit(s) ==
  /\ sweep[s].at = "audit"
  /\ pull' = [r \in OldRuns |-> IF r \in sweep[s].locked THEN [pull[r] EXCEPT !.audited = TRUE] ELSE pull[r]]
  /\ sweep' = [sweep EXCEPT ![s].at = "closing", ![s].locked = {}]
  /\ UNCHANGED <<today, aged, events, blocked, excused>>

(* Anything but an error of the GitHub client ends this sweep: the rows it  *)
(* had left wait for the next cycle. The handler goes on.                   *)
SweepThrows(s) ==
  /\ sweep[s].at # "none"
  /\ LET at == IF sweep[s].at \in {"closing", "audit"} THEN "close" ELSE IF sweep[s].at = "retiring" THEN "retire" ELSE sweep[s].at
     IN  /\ sweep' = Goes(s, ThenSweep(at))
         /\ excused' = IF at = "close" THEN OldRuns ELSE excused
  /\ UNCHANGED <<today, aged, pull, events, blocked>>

EndClose(s) ==
  /\ sweep[s].at = "closing" /\ sweep[s].todo = {} /\ sweep' = Goes(s, ThenSweep("close"))
  /\ UNCHANGED <<today, aged, pull, events, blocked, excused>>

-----------------------------------------------------------------------------
(* RETIRE_CANDIDATE_SQL: ended runs past their age; SKIP LOCKED leaves out  *)
(* what the other attempt is retiring.                                      *)
RetireCandidates(s) ==
  {r \in OldRuns : /\ OlderThan(RunTtl) /\ ~aged[r].retired /\ aged[r].state \in {"COMPLETED", "FAILED"}
                   /\ \A t \in Sweepers \ {s} : sweep[t].at = "retiring" => r \notin sweep[t].locked}

LockBatch(s) ==
  /\ sweep[s].at = "retire"
  /\ sweep' = IF RetireCandidates(s) = {} THEN Goes(s, ThenSweep("retire"))
              ELSE [sweep EXCEPT ![s].at = "retiring", ![s].locked = RetireCandidates(s)]
  /\ UNCHANGED <<today, aged, pull, events, blocked, excused>>

(* The update and its trail commit together: an audit event, or an event of *)
(* the run when its review is gone.                                         *)
WriteBatch(s) ==
  /\ sweep[s].at = "retiring"
  /\ aged' = [r \in OldRuns |-> IF r \in sweep[s].locked THEN [aged[r] EXCEPT !.retired = TRUE, !.trail = @ + 1] ELSE aged[r]]
  /\ events' = [r \in OldRuns |-> IF r \in sweep[s].locked /\ ~aged[r].joined THEN events[r] \cup {today} ELSE events[r]]
  /\ sweep' = [sweep EXCEPT ![s].at = "retire", ![s].locked = {}]
  /\ UNCHANGED <<today, pull, blocked, excused>>

(* runIdDeleteOldEventsActivity *)
DeleteEvents(s) ==
  /\ sweep[s].at = "delete"
  /\ events' = [r \in OldRuns |-> {d \in events[r] : ~(d + EventTtl < today)}]
  /\ sweep' = Goes(s, ThenSweep("delete"))
  /\ UNCHANGED <<today, aged, pull, blocked, excused>>

SweeperDies(s) ==
  /\ sweep[s].at # "none" /\ sweep' = [sweep EXCEPT ![s] = Resting]
  /\ UNCHANGED <<today, aged, pull, events, blocked, excused>>

RetentionNext ==
  \/ NextDay \/ Suspend
  \/ \E r \in OldRuns : RunEnds(r) \/ Reopen(r)
  \/ \E s \in Sweepers :
       \/ BeginSweeps(s) \/ ListCandidates(s) \/ EmitCloseAudit(s) \/ SweepThrows(s) \/ EndClose(s)
       \/ LockBatch(s) \/ WriteBatch(s) \/ DeleteEvents(s) \/ SweeperDies(s)
       \/ \E r \in OldRuns : SkipPull(s, r) \/ ClosePull(s, r)

RetentionSpec == RetentionInit /\ [][RetentionNext]_retentionVars

-----------------------------------------------------------------------------
(* A retired run is never looked at again, so its pull request must be      *)
(* closed by then, whichever attempt retired it and however attempts        *)
(* overlap: unless GitHub or the database refused it, the installation was  *)
(* suspended, someone reopened it, or the run has lost its review.          *)
ClosedBeforeRetired ==
  \A r \in OldRuns \ excused : aged[r].retired /\ aged[r].joined => ~pull[r].open
=============================================================================
