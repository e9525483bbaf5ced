--------------------------- MODULE BackgroundJobs ---------------------------
(***************************************************************************)
(* The generic job queue core.background_jobs: producers enqueue under a   *)
(* deduplication key, one runner loop per pod claims, runs and settles     *)
(* jobs one at a time. Pods of an older build defer the jobs of a newer    *)
(* one. What a handler does is left out; how it ends is nondeterministic.  *)
(*                                                                         *)
(* A pod has at most one attempt in hand, so the (lease_owner,             *)
(* attempt_token) pair that fences a settle is the field holder: the pod   *)
(* whose latest claim the row carries, or NoPod once that pod was replaced.*)
(***************************************************************************)
EXTENDS Naturals, FiniteSets

CONSTANTS
  Pods,         \* background-runner processes
  OldPods,      \* the ones of a build that reads only envelope version 1
  NoPod,        \* lease_owner of a process that is gone
  SinkKeys,     \* workflow ids the outbox dispatches: one deduplication key each
  CronKeys,     \* schedule ids, the deduplication keys of the scheduler
  PoisonKeys,   \* keys whose jobs have no handler or a payload that fails its hash
  MaxAttempts,  \* max_attempts of every job
  NumJobs       \* bound: rows told apart at one time, a key's active row at least

ASSUME BackgroundAssumption ==
  /\ OldPods \subseteq Pods /\ NoPod \notin Pods
  /\ PoisonKeys \subseteq SinkKeys \cup CronKeys
  /\ MaxAttempts \in Nat \ {0} /\ NumJobs \in Nat

Jobs == 1..NumJobs
Keys == SinkKeys \cup CronKeys
MaxTries == 3         \* rounds of enqueue's insert-or-look-up

VARIABLES
  job,      \* core.background_jobs
  runner    \* each pod's BackgroundRunnerLoop and the attempt in its hands

jobVars == <<job, runner>>

(* ripe: run_after has passed; lapsed: leased_until has; overdue: timeout_at *)
(* has. newer: the envelope version is one OldPods do not support.           *)
JobRow == [state : {"absent", "ready", "leased", "done", "dead"}, key : Keys,
           attempts : 0..MaxAttempts, holder : Pods \cup {NoPod}, newer : BOOLEAN,
           ripe : BOOLEAN, lapsed : BOOLEAN, overdue : BOOLEAN]

(* How the attempt in hand has ended, and so which settle is due. *)
Verdicts == {"ok", "retry", "throttled", "poison"}
Runner == [at : {"idle", "work", "down"} \cup Verdicts, job : {0} \cup Jobs]

Idle == [at |-> "idle", job |-> 0]
Down == [at |-> "down", job |-> 0]

-----------------------------------------------------------------------------
Active(j) == job[j].state \in {"ready", "leased"}
Keyed(k)  == {j \in Jobs : Active(j) /\ job[j].key = k}

(* The partial unique index on dedup_key over ready and leased rows. *)
Conflicts(k) == Keyed(k) # {}

FreshRow(k, p) ==
  [state |-> "ready", key |-> k, attempts |-> 0, holder |-> NoPod, newer |-> p \notin OldPods,
   ripe |-> TRUE, lapsed |-> FALSE, overdue |-> FALSE]

(* INSERT ... ON CONFLICT DO NOTHING that found no active row of the key.    *)
(* The new row takes the place of an absent or a settled one.                *)
InsertRow(k, p) ==
  /\ ~ Conflicts(k)
  /\ \E j \in Jobs : ~ Active(j) /\ job' = [job EXCEPT ![j] = FreshRow(k, p)]

(* What a settle leaves of the lease columns. *)
Unleased(x, st) ==
  [x EXCEPT !.state = st, !.holder = NoPod, !.ripe = FALSE, !.lapsed = FALSE, !.overdue = FALSE]

-----------------------------------------------------------------------------
(* startWorkflow, once the arguments and the workflow type are accepted:     *)
(* enqueue's rounds of insert and look-up change the table at most once, and *)
(* whether the call returns an id or throws is the outbox's concern.         *)
StartWorkflow(p, k) ==
  /\ InsertRow(k, p)
  /\ UNCHANGED runner

-----------------------------------------------------------------------------
(* Jobs that crashed with their last attempt are left to the reaper. *)
Claimable(j) ==
  \/ job[j].state = "ready" /\ job[j].ripe
  \/ job[j].state = "leased" /\ job[j].lapsed /\ job[j].attempts < MaxAttempts

Leased(x, p) ==
  [x EXCEPT !.state = "leased", !.holder = p, !.attempts = @ + 1, !.lapsed = FALSE, !.overdue = FALSE]

(* The checks between the claim and the handler: the envelope's version, the *)
(* registry and the payload's hash.                                          *)
Verdict(p, j) ==
  IF job[j].newer /\ p \in OldPods THEN "throttled"
  ELSE IF job[j].key \in PoisonKeys THEN "poison" ELSE "work"

Claim(p, j) ==
  /\ runner[p].at = "idle" /\ Claimable(j)
  /\ job' = [job EXCEPT ![j] = Leased(@, p)]
  /\ runner' = [runner EXCEPT ![p] = [at |-> Verdict(p, j), job |-> j]]

(* The claim throws, committed or not: the loop ends. *)
ClaimThrows(p, j) ==
  /\ runner[p].at = "idle" /\ Claimable(j)
  /\ \/ UNCHANGED job
     \/ job' = [job EXCEPT ![j] = Leased(@, p)]
  /\ runner' = [runner EXCEPT ![p] = Down]

(* The handler returns, throws a transient, throttled or permanent error, or *)
(* is abandoned at its maximum runtime.                                      *)
HandlerEnds(p, verdict) ==
  /\ runner[p].at = "work"
  /\ runner' = [runner EXCEPT ![p].at = verdict]
  /\ UNCHANGED job

(* WHERE job_id AND state = 'leased' AND lease_owner AND attempt_token *)
Holds(p) == job[runner[p].job].state = "leased" /\ job[runner[p].job].holder = p

(* heartbeat: refused once timeout_at has passed. *)
Heartbeat(p) ==
  /\ runner[p].at = "work" /\ Holds(p)
  /\ job[runner[p].job].lapsed /\ ~ job[runner[p].job].overdue
  /\ job' = [job EXCEPT ![runner[p].job].lapsed = FALSE]
  /\ UNCHANGED runner

(* markDone, markFailed, deferRetry (which hands the attempt back) and       *)
(* terminalSettle.                                                           *)
Settled(x, verdict) ==
  CASE verdict = "ok"        -> Unleased(x, "done")
    [] verdict = "retry"     -> Unleased(x, IF x.attempts >= MaxAttempts THEN "dead" ELSE "ready")
    [] verdict = "throttled" -> Unleased([x EXCEPT !.attempts = IF @ > 0 THEN @ - 1 ELSE 0], "ready")
    [] verdict = "poison"    -> Unleased(x, "dead")

AfterSettle(p) ==
  IF Holds(p) THEN [job EXCEPT ![runner[p].job] = Settled(@, runner[p].at)] ELSE job

Settle(p) ==
  /\ runner[p].at \in Verdicts
  /\ job' = AfterSettle(p)
  /\ runner' = [runner EXCEPT ![p] = Idle]

(* A settle that throws, committed or not. markDone stands in the try block, *)
(* so its failure is settled as the handler's; the other settles take the    *)
(* loop down.                                                                *)
SettleThrows(p) ==
  /\ runner[p].at \in Verdicts
  /\ job' \in {job, AfterSettle(p)}
  /\ runner' = [runner EXCEPT ![p] = IF @.at = "ok" THEN [@ EXCEPT !.at = "retry"] ELSE Down]

Stuck(j) == job[j].state = "leased" /\ job[j].lapsed /\ job[j].attempts >= MaxAttempts

(* The idle cycle's sweep. *)
ReapStuckRuns(p) ==
  /\ runner[p].at = "idle" /\ \E j \in Jobs : Stuck(j)
  /\ job' = [j \in Jobs |-> IF Stuck(j) THEN Unleased(job[j], "dead") ELSE job[j]]
  /\ UNCHANGED runner

-----------------------------------------------------------------------------
(* Time, per row. *)
Ripens(j) ==
  /\ job[j].state = "ready" /\ ~ job[j].ripe
  /\ job' = [job EXCEPT ![j].ripe = TRUE]
  /\ UNCHANGED runner

Lapses(j) ==
  /\ job[j].state = "leased" /\ ~ job[j].lapsed
  /\ job' = [job EXCEPT ![j].lapsed = TRUE]
  /\ UNCHANGED runner

TimesOut(j) ==
  /\ job[j].state = "leased" /\ ~ job[j].overdue
  /\ job' = [job EXCEPT ![j].overdue = TRUE]
  /\ UNCHANGED runner

(* The retention sweep deletes settled rows past their time to live. *)
Retire(j) ==
  /\ job[j].state \in {"done", "dead"}
  /\ job' = [job EXCEPT ![j] = [FreshRow(@.key, NoPod) EXCEPT !.state = "absent"]]
  /\ UNCHANGED runner

(* The pod is replaced: its owner name and its calls are gone. *)
JobsForget(p) ==
  /\ job' = [j \in Jobs |-> IF job[j].holder = p THEN [job[j] EXCEPT !.holder = NoPod] ELSE job[j]]
  /\ runner' = [runner EXCEPT ![p] = Idle]

-----------------------------------------------------------------------------
AnyKey == CHOOSE k \in Keys : TRUE

JobsInit ==
  /\ job = [j \in Jobs |-> [FreshRow(AnyKey, NoPod) EXCEPT !.state = "absent"]]
  /\ runner = [p \in Pods |-> Down]      \* no process is up yet

JobsNext ==
  \/ \E j \in Jobs : Ripens(j) \/ Lapses(j) \/ TimesOut(j) \/ Retire(j)
  \/ \E p \in Pods :
       \/ \E k \in SinkKeys : StartWorkflow(p, k)
       \/ \E j \in Jobs : Claim(p, j) \/ ClaimThrows(p, j)
       \/ \E v \in Verdicts : HandlerEnds(p, v)
       \/ Heartbeat(p) \/ Settle(p) \/ SettleThrows(p) \/ ReapStuckRuns(p)

(***************************************************************************)
(* Clocks advance; the hard timeout ends every attempt; a loop that is up  *)
(* goes on. Claims and settles are strongly fair: a statement does not     *)
(* fail every single time.                                                 *)
(***************************************************************************)
JobsFairness ==
  /\ \A j \in Jobs :
       /\ WF_jobVars(Ripens(j)) /\ WF_jobVars(Lapses(j)) /\ WF_jobVars(TimesOut(j))
       /\ SF_jobVars(\E p \in Pods \ OldPods : Claim(p, j))
  /\ \A p \in Pods :
       /\ SF_jobVars(HandlerEnds(p, "retry")) /\ SF_jobVars(Settle(p)) /\ SF_jobVars(ReapStuckRuns(p))

-----------------------------------------------------------------------------
(* In particular no attempt is charged beyond max_attempts: deferrals hand   *)
(* theirs back and exhausted leases are reaped, not reclaimed.               *)
JobsTypeOK ==
  /\ job \in [Jobs -> JobRow]
  /\ runner \in [Pods -> Runner]

(* A live, unexpired lease is ended by its holder alone: a pod that was      *)
(* stolen from, timed out or restarted cannot settle its successor's job.    *)
OnlyHolderSettles ==
  [][\A j \in Jobs :
       job[j].state = "leased" /\ ~ job[j].lapsed /\ job'[j].state # "leased"
         => \E p \in Pods : job[j].holder = p /\ runner[p].job = j /\ runner'[p] # runner[p]]_jobVars
=============================================================================
