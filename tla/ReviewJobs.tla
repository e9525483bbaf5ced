----------------------------- MODULE ReviewJobs -----------------------------
(***************************************************************************)
(* The Postgres review-job platform: rows of core.review_jobs claimed      *)
(* under a lease by runner loops (runOneJob / RunnerLoop), each claim      *)
(* minting an attempt with its own fencing token, and the run the job      *)
(* drives. Processes crash, leases lapse while their holder still works,   *)
(* handlers overrun the hard runtime ceiling and live on as orphans, the   *)
(* outbox redelivers, and a newer push supersedes the run at any moment.   *)
(*                                                                         *)
(* Time is abstract: the facts "now() is past run_after / leased_until"    *)
(* and "the attempt's maximal runtime has elapsed" are Booleans that time  *)
(* turns true, in any order the database clock could.                      *)
(***************************************************************************)
EXTENDS ReviewRuns

CONSTANTS
  Jobs,         \* job ids: bounds the number of rows ever inserted
  Tokens,       \* attempt tokens: bounds the attempts alive at one time
  Workers,      \* runner processes, each with one review loop
  MaxAttempts   \* review_jobs.max_attempts

ASSUME MaxAttemptsPositive == MaxAttempts \in Nat \ {0}
ASSUME NoneIsNoToken == None \notin Tokens \cup Workers \cup Jobs

VARIABLES
  dispatch,  \* runs whose outbox dispatch passed the guard and has not enqueued yet
  job,       \* core.review_jobs, by job_id
  att,       \* the attempts in memory, by attempt_token
  loop       \* each worker's RunnerLoop

jobVars == <<dispatch, job, att, loop>>
vars    == <<run, current, dispatch, job, att, loop>>

JobRow == [state    : {"absent", "ready", "leased", "done", "cancelled", "dead"},
           run      : Runs \cup {None},
           attempts : 0..MaxAttempts,
           owner    : Workers \cup {None},
           token    : Tokens \cup {None},
           lapsed   : BOOLEAN]   \* ready: run_after <= now; leased: leased_until < now

NoJob == [state |-> "absent", run |-> None, attempts |-> 0,
          owner |-> None, token |-> None, lapsed |-> FALSE]

\* A freshly inserted row: run_after defaults to now().
ReadyJob(r) == [state |-> "ready", run |-> r, attempts |-> 0,
                owner |-> None, token |-> None, lapsed |-> TRUE]

Outcomes == {"ok", "cancel", "throttle", "fail"}

(* One runOneJob call. `hnd` is the handler (the review shell): running, on *)
(* its way out with outcome `out`, or gone. `rnr` is the runner: waiting on *)
(* the race of handler and hard timeout, settling an outcome, or over.      *)
Attempt == [job     : Jobs \cup {None},
            owner   : Workers \cup {None},
            last    : BOOLEAN,
            hnd     : {"run", "exit", "gone"},
            out     : Outcomes \cup {"none"},
            rnr     : {"wait", "over"} \cup Outcomes,
            elapsed : BOOLEAN,
            aborted : BOOLEAN]

NoAttempt == [job |-> None, owner |-> None, last |-> FALSE, hnd |-> "gone",
              out |-> "none", rnr |-> "over", elapsed |-> FALSE, aborted |-> FALSE]

-----------------------------------------------------------------------------
IsActive(j) == job[j].state \in {"ready", "leased"}

\* Mutant: no fence at all.
Holds_Unfenced(t) == att[t].job \in Jobs

(* The fence of every settling UPDATE: state = 'leased' AND lease_owner =   *)
(* owner AND attempt_token = token, for the job the attempt was claimed on. *)
Holds(t) ==
  /\ att[t].job \in Jobs
  /\ LET row == job[att[t].job]
     IN row.state = "leased" /\ row.owner = att[t].owner /\ row.token = t

(* gen_random_uuid: a token no row and no live attempt knows. *)
FreshToken(t) == att[t] = NoAttempt /\ \A j \in Jobs : job[j].token # t

Claimable(j) ==
  \/ job[j].state = "ready" /\ job[j].lapsed
  \/ job[j].state = "leased" /\ job[j].lapsed /\ job[j].attempts < MaxAttempts

\* Mutant: the exhaustion test is off by one.
Stuck_OffByOne(j) ==
  job[j].state = "leased" /\ job[j].lapsed /\ job[j].attempts > MaxAttempts

Stuck(j) ==
  job[j].state = "leased" /\ job[j].lapsed /\ job[j].attempts >= MaxAttempts

Unleased(row, s) ==
  [row EXCEPT !.state = s, !.owner = None, !.token = None, !.lapsed = FALSE]

LeasedTo(row, w, t) ==
  [state |-> "leased", run |-> row.run, attempts |-> row.attempts + 1,
   owner |-> w, token |-> t, lapsed |-> FALSE]

NewAttempt(j, w, last) ==
  [job |-> j, owner |-> w, last |-> last, hnd |-> "run", out |-> "none",
   rnr |-> "wait", elapsed |-> FALSE, aborted |-> FALSE]

(* An attempt whose handler and runner are both done leaves memory. *)
Retired(a) == IF a.hnd = "gone" /\ a.rnr = "over" THEN NoAttempt ELSE a

-----------------------------------------------------------------------------
(* Outbox dispatch of the run's webhook row: assertCurrentRun and           *)
(* PENDING -> RUNNING in one transaction, then the sink enqueues.           *)
GuardDispatch(r) ==
  /\ run[r].state # "absent" /\ IsCurrent(r)
  /\ TransitionOutcome(run[r], "PENDING", "RUNNING") # "StateDrift"
  /\ run' = [run EXCEPT ![r] = Transitioned(@, "PENDING", "RUNNING")]
  /\ dispatch' = dispatch \cup {r}
  /\ UNCHANGED <<current, job, att, loop>>

(* enqueue: the partial unique index uq_review_jobs_active_run refuses a    *)
(* second active job of the run; the conflict returns the existing one.     *)
Enqueue(r, j) ==
  /\ r \in dispatch
  /\ job[j].state = "absent"
  /\ dispatch' = dispatch \ {r}
  /\ job' = IF \E k \in Jobs : IsActive(k) /\ job[k].run = r
            THEN job
            ELSE [job EXCEPT ![j] = ReadyJob(r)]
  /\ UNCHANGED <<run, current, att, loop>>

(* The dispatcher dies between the guard and the enqueue; redelivery starts *)
(* over with the guard.                                                     *)
DispatchLost(r) ==
  /\ r \in dispatch
  /\ dispatch' = dispatch \ {r}
  /\ UNCHANGED <<run, current, job, att, loop>>

(* The age-based reaper cron: a RUNNING run with no active job is cancelled.*)
ReviewRunReaper(r) ==
  /\ run[r].state = "RUNNING"
  /\ ~ \E j \in Jobs : IsActive(j) /\ job[j].run = r
  /\ run' = [run EXCEPT ![r] = Cancelled(@, "timeout")]
  /\ UNCHANGED <<current, dispatch, job, att, loop>>

-----------------------------------------------------------------------------
(* claim: one UPDATE ... FOR UPDATE SKIP LOCKED. The priority order is left *)
(* open: SKIP LOCKED lets any claimable row be the one taken.               *)
Claim(w, j, t) ==
  /\ loop[w] = "poll"
  /\ Claimable(j)
  /\ FreshToken(t)
  /\ job' = [job EXCEPT ![j] = LeasedTo(@, w, t)]
  /\ att' = [att EXCEPT ![t] = NewAttempt(j, w, job[j].attempts + 1 >= MaxAttempts)]
  /\ loop' = [loop EXCEPT ![w] = "busy"]
  /\ UNCHANGED <<run, current, dispatch>>

(* heartbeat: extends the lease even when it has lapsed, but never past     *)
(* timeout_at. *)
Heartbeat(t) ==
  /\ att[t].rnr # "over" /\ ~ att[t].aborted
  /\ Holds(t) /\ ~ att[t].elapsed
  /\ job[att[t].job].lapsed
  /\ job' = [job EXCEPT ![att[t].job].lapsed = FALSE]
  /\ UNCHANGED <<run, current, dispatch, att, loop>>

(* A refused heartbeat, or one that throws, aborts the work and ends the    *)
(* heartbeat loop. *)
HeartbeatAborts(t) ==
  /\ att[t].rnr # "over" /\ ~ att[t].aborted
  /\ att' = [att EXCEPT ![t].aborted = TRUE]
  /\ UNCHANGED <<run, current, dispatch, job, loop>>

(* Time passes leased_until, or a backoff's run_after. *)
TimeLapses(j) ==
  /\ IsActive(j) /\ ~ job[j].lapsed
  /\ job' = [job EXCEPT ![j].lapsed = TRUE]
  /\ UNCHANGED <<run, current, dispatch, att, loop>>

(* Time passes the attempt's timeout_at. *)
RuntimeElapses(t) ==
  /\ att[t].rnr # "over" /\ ~ att[t].elapsed
  /\ att' = [att EXCEPT ![t].elapsed = TRUE]
  /\ UNCHANGED <<run, current, dispatch, job, loop>>

(* The hard-timeout branch wins the race: the runner settles a failure while *)
(* the handler goes on as an orphan. *)
HardTimeout(t) ==
  /\ att[t].rnr = "wait" /\ att[t].elapsed
  /\ att' = [att EXCEPT ![t].rnr = "fail", ![t].aborted = TRUE]
  /\ UNCHANGED <<run, current, dispatch, job, loop>>

-----------------------------------------------------------------------------
(* The handler's last step of a successful review: finalizeReviewRun moves  *)
(* the run RUNNING -> COMPLETED; StateDrift is a terminal cancel.           *)
HandlerFinalizes(t) ==
  /\ att[t].hnd = "run"
  /\ LET r == job[att[t].job].run
         o == TransitionOutcome(run[r], "RUNNING", "COMPLETED")
     IN /\ run' = [run EXCEPT ![r] = Transitioned(@, "RUNNING", "COMPLETED")]
        /\ att' = [att EXCEPT ![t].hnd = "exit",
                              ![t].out = IF o = "StateDrift" THEN "cancel" ELSE "ok"]
  /\ UNCHANGED <<current, dispatch, job, loop>>

(* The handler throws: a terminal cancel (superseded, mutex lost or busy,   *)
(* aborted, stale write), a throttle fault with a retry hint, or anything   *)
(* else. *)
HandlerThrows(t, o) ==
  /\ att[t].hnd = "run"
  /\ att' = [att EXCEPT ![t].hnd = "exit", ![t].out = o]
  /\ UNCHANGED <<run, current, dispatch, job, loop>>

(* The shell found its fenced persistMutexId refused (lease_lost): it       *)
(* returns normally without touching the run. *)
HandlerYields(t) ==
  /\ att[t].hnd = "run" /\ ~ Holds(t)
  /\ att' = [att EXCEPT ![t].hnd = "exit", ![t].out = "ok"]
  /\ UNCHANGED <<run, current, dispatch, job, loop>>

(* The handler's promise settles after its finally block; a runner that     *)
(* already gave up on it swallows the outcome. *)
HandlerReturns(t) ==
  /\ att[t].hnd = "exit"
  /\ LET a == [att[t] EXCEPT !.hnd = "gone",
                             !.rnr = IF @ = "wait" THEN att[t].out ELSE @]
     IN att' = [att EXCEPT ![t] = Retired(a)]
  /\ UNCHANGED <<run, current, dispatch, job, loop>>

-----------------------------------------------------------------------------
RunnerOver(t, l) ==
  /\ att' = [att EXCEPT ![t] = Retired([@ EXCEPT !.rnr = "over"])]
  /\ loop' = [loop EXCEPT ![att[t].owner] = l]

MarkDone(t) ==
  /\ att[t].rnr = "ok"
  /\ job' = IF Holds(t) THEN [job EXCEPT ![att[t].job] = Unleased(@, "done")] ELSE job
  /\ RunnerOver(t, "poll")
  /\ UNCHANGED <<run, current, dispatch>>

(* terminalSettle: job and run in one transaction. A stale fence touches    *)
(* neither; a CHECK violation on the run rolls both back and the exception  *)
(* ends the runner loop. The UPDATE of the run has no guard of its own.     *)
TerminalSettle(t, jobState, row) ==
  LET j == att[t].job
  IN \/ /\ ~ Holds(t)
        /\ UNCHANGED <<job, run>>
        /\ RunnerOver(t, "poll")
     \/ /\ Holds(t)
        /\ ChecksHold(row)
        /\ job' = [job EXCEPT ![j] = Unleased(@, jobState)]
        /\ run' = [run EXCEPT ![job[j].run] = row]
        /\ RunnerOver(t, "poll")
     \/ /\ Holds(t)
        /\ ~ ChecksHold(row)
        /\ UNCHANGED <<job, run>>
        /\ RunnerOver(t, "down")

SettleCancel(t) ==
  /\ att[t].rnr = "cancel"
  /\ TerminalSettle(t, "cancelled", Cancelled(run[job[att[t].job].run], "operator_cancelled"))
  /\ UNCHANGED <<current, dispatch>>

\* attempts = GREATEST(attempts - 1, 0)
Refunded(row) ==
  [Unleased(row, "ready") EXCEPT !.attempts = IF row.attempts > 0 THEN row.attempts - 1 ELSE 0]

(* deferRetry gives the attempt back; markFailed's exhaustion CASE is absent. *)
DeferRetry(t) ==
  /\ att[t].rnr = "throttle"
  /\ job' = IF Holds(t)
            THEN [job EXCEPT ![att[t].job] = Refunded(@)]
            ELSE job
  /\ RunnerOver(t, "poll")
  /\ UNCHANGED <<run, current, dispatch>>

MarkFailed(t) ==
  /\ job' = IF Holds(t)
            THEN [job EXCEPT ![att[t].job] =
                    Unleased(@, IF @.attempts >= MaxAttempts THEN "dead" ELSE "ready")]
            ELSE job
  /\ run' = run
  /\ RunnerOver(t, "poll")

\* Mutant: the last attempt is settled by markFailed too, not in lockstep.
SettleFailure_NoLockstep(t) ==
  /\ att[t].rnr = "fail"
  /\ MarkFailed(t)
  /\ UNCHANGED <<current, dispatch>>

SettleFailure(t) ==
  /\ att[t].rnr = "fail"
  /\ \/ /\ att[t].last
        /\ TerminalSettle(t, "dead", WithState(run[job[att[t].job].run], "FAILED"))
     \/ /\ ~ att[t].last
        /\ MarkFailed(t)
  /\ UNCHANGED <<current, dispatch>>

(* The settling statement throws. markDone's error - before or after the    *)
(* commit - is caught and settled as a failure; any other settle's error    *)
(* ends the runner loop. *)
MarkDoneThrows(t) ==
  /\ att[t].rnr = "ok"
  /\ att' = [att EXCEPT ![t].rnr = "fail"]
  /\ job' \in {job, IF Holds(t) THEN [job EXCEPT ![att[t].job] = Unleased(@, "done")] ELSE job}
  /\ UNCHANGED <<run, current, dispatch, loop>>

SettleThrows(t) ==
  /\ att[t].rnr \in Outcomes \ {"ok"}
  /\ RunnerOver(t, "down")
  /\ UNCHANGED <<run, current, dispatch, job>>

-----------------------------------------------------------------------------
(* The queue is empty for this worker: idle maintenance follows. *)
PollIdle(w) ==
  /\ loop[w] = "poll"
  /\ \A j \in Jobs : ~ Claimable(j)
  /\ loop' = [loop EXCEPT ![w] = "idle"]
  /\ UNCHANGED <<run, current, dispatch, job, att>>

(* reapStuckRuns: one transaction over every stuck job. Job dead, run       *)
(* CANCELLED/timeout without a guard; one CHECK violation rolls the whole   *)
(* sweep back and ends the loop. *)
ReapStuckRuns(w) ==
  LET stuck == {j \in Jobs : Stuck(j)}
      runs  == {job[j].run : j \in stuck}
      rows  == [r \in Runs |-> IF r \in runs THEN Cancelled(run[r], "timeout") ELSE run[r]]
  IN /\ loop[w] = "idle"
     /\ \/ /\ \A r \in runs : ChecksHold(rows[r])
           /\ job' = [j \in Jobs |-> IF j \in stuck THEN Unleased(job[j], "dead") ELSE job[j]]
           /\ run' = rows
           /\ loop' = [loop EXCEPT ![w] = "poll"]
        \/ /\ \E r \in runs : ~ ChecksHold(rows[r])
           /\ loop' = [loop EXCEPT ![w] = "down"]
           /\ UNCHANGED <<job, run>>
     /\ UNCHANGED <<current, dispatch, att>>

(* The process dies with every attempt and orphan it runs. *)
KillAttempts(w) == [t \in Tokens |-> IF att[t].owner = w THEN NoAttempt ELSE att[t]]

WorkerCrashes(w) ==
  /\ loop[w] # "down"
  /\ loop' = [loop EXCEPT ![w] = "down"]
  /\ att' = KillAttempts(w)
  /\ UNCHANGED <<run, current, dispatch, job>>

(* The platform replaces a pod whose loop is down. *)
WorkerRestarts(w) ==
  /\ loop[w] = "down"
  /\ loop' = [loop EXCEPT ![w] = "poll"]
  /\ att' = KillAttempts(w)
  /\ UNCHANGED <<run, current, dispatch, job>>

-----------------------------------------------------------------------------
Init ==
  /\ RunsInit
  /\ dispatch = {}
  /\ job = [j \in Jobs |-> NoJob]
  /\ att = [t \in Tokens |-> NoAttempt]
  /\ loop = [w \in Workers |-> "poll"]

PushNext ==
  \E rv \in Reviews, r \in Runs : AllocateRun(rv, r) /\ UNCHANGED jobVars

DispatchNext ==
  \E r \in Runs :
     \/ GuardDispatch(r)
     \/ \E j \in Jobs : Enqueue(r, j)
     \/ DispatchLost(r)
     \/ ReviewRunReaper(r)

HandlerNext(t) ==
  \/ HandlerFinalizes(t)
  \/ \E o \in {"cancel", "throttle", "fail"} : HandlerThrows(t, o)
  \/ HandlerYields(t)
  \/ HandlerReturns(t)

SettleNext(t) ==
  \/ MarkDone(t)
  \/ SettleCancel(t)
  \/ DeferRetry(t)
  \/ SettleFailure(t)
  \/ MarkDoneThrows(t)
  \/ SettleThrows(t)

AttemptNext ==
  \E t \in Tokens :
     \/ Heartbeat(t) \/ HeartbeatAborts(t) \/ RuntimeElapses(t) \/ HardTimeout(t)
     \/ HandlerNext(t)
     \/ SettleNext(t)

WorkerNext ==
  \E w \in Workers :
     \/ \E j \in Jobs, t \in Tokens : Claim(w, j, t)
     \/ PollIdle(w)
     \/ ReapStuckRuns(w)
     \/ WorkerCrashes(w)
     \/ WorkerRestarts(w)

Next ==
  \/ PushNext
  \/ DispatchNext
  \/ AttemptNext
  \/ WorkerNext
  \/ \E j \in Jobs : TimeLapses(j)

Spec == Init /\ [][Next]_vars
-----------------------------------------------------------------------------
(***************************************************************************)
(* Fairness. Clocks advance; a live process takes its next step; a handler *)
(* on its way out finishes its finally block; the platform restarts a dead *)
(* pod. Nothing obliges a push, a dispatch, a crash, an error, a heartbeat *)
(* or a handler's outcome. The claim is strongly fair per job because its  *)
(* ORDER BY run_after takes the longest-waiting row first and a worker may *)
(* be busy with another in between; idle polling is strongly fair because  *)
(* a backoff (seconds) outlasts the poll interval, so the queue a worker   *)
(* polls is empty again and again, and the sweep because a process is not  *)
(* killed every single time it is about to start one.                      *)
(***************************************************************************)
Fairness ==
  /\ \A j \in Jobs :
       /\ WF_vars(TimeLapses(j))
       /\ SF_vars(\E w \in Workers, t \in Tokens : Claim(w, j, t))
  /\ \A t \in Tokens :
       /\ WF_vars(RuntimeElapses(t))
       /\ WF_vars(HardTimeout(t))
       /\ WF_vars(HandlerReturns(t))
       /\ WF_vars(MarkDone(t) \/ SettleCancel(t) \/ DeferRetry(t) \/ SettleFailure(t))
  /\ \A w \in Workers :
       /\ SF_vars(PollIdle(w))
       /\ SF_vars(ReapStuckRuns(w))
       /\ WF_vars(WorkerRestarts(w))

FairSpec == Spec /\ Fairness

-----------------------------------------------------------------------------
TypeOK ==
  /\ RunsTypeOK
  /\ dispatch \subseteq Runs
  /\ job \in [Jobs -> JobRow]
  /\ att \in [Tokens -> Attempt]
  /\ loop \in [Workers -> {"poll", "busy", "idle", "down"}]

(* Invariant 1 of the review state machine, in its strongest form: a job is *)
(* done only over a COMPLETED run. A stale attempt that returns without     *)
(* finalizing (lease_lost), an orphan, a lost commit answer or a later      *)
(* settle must never leave a done job over any other run.                   *)
DoneImpliesCompleted ==
  \A j \in Jobs : job[j].state = "done" => run[job[j].run].state = "COMPLETED"

(* No split brain: a job that is dead or cancelled never strands a live run, *)
(* whichever of terminalSettle, markFailed and the reaper ended it.          *)
NoSplitBrain ==
  \A j \in Jobs : job[j].state \in {"dead", "cancelled"} => run[job[j].run].state \in Terminal

(* Invariant 5: at most one active job per run, through redelivery. *)
OneActiveJobPerRun ==
  \A j, k \in Jobs :
     IsActive(j) /\ IsActive(k) /\ job[j].run = job[k].run => j = k

(* The attempt budget: claim takes a ready job without looking at attempts,  *)
(* so every path back to ready must leave an attempt to spend.               *)
AttemptBudget ==
  \A j \in Jobs : job[j].state = "ready" => job[j].attempts < MaxAttempts

(* A run that reached a terminal state stays in it, although terminalSettle  *)
(* and the stuck-run reaper write the run without a guard.                   *)
TerminalRunIsFinal ==
  [][\A r \in Runs : run[r].state \in Terminal => run'[r].state = run[r].state]_vars

(* A job that was settled terminally is never reopened or settled again. *)
TerminalJobIsFinal ==
  [][\A j \in Jobs :
       job[j].state \in {"done", "dead", "cancelled"} => job'[j] = job[j]]_vars

(* The fence: while a lease has not lapsed, only the attempt that holds it   *)
(* can end it - no stale attempt, other worker or reaper.                    *)
OnlyHolderEndsLiveLease ==
  [][\A j \in Jobs :
       job[j].state = "leased" /\ ~ job[j].lapsed /\ job'[j].token # job[j].token
         => att[job[j].token].job = j /\ att[job[j].token].rnr \in Outcomes]_vars

LeasedBy(j, t) == job[j].state = "leased" /\ job[j].token = t

(* A stuck job whose run already ended COMPLETED or FAILED: the reaper's      *)
(* unguarded CANCELLED violates the run's CHECK constraints.                  *)
Poisoned(j) ==
  job[j].state = "leased" /\ job[j].attempts >= MaxAttempts
    /\ run[job[j].run].state \in {"COMPLETED", "FAILED"}

(* Unless such a job arises, no lease is held forever: every lease is settled *)
(* by its holder, reclaimed, or reaped.                                       *)
LeaseEndsUnlessPoisoned ==
  [](\A j \in Jobs : ~ Poisoned(j))
    => \A j \in Jobs, t \in Tokens : LeasedBy(j, t) ~> ~ LeasedBy(j, t)

(* Jobs and runs never contradict each other, however leases lapse, orphans *)
(* settle, rows are redelivered and pushes supersede: the parts above.      *)
JobsSound ==
  /\ TypeOK /\ RunsChecked /\ ActiveRunIsCurrent
  /\ DoneImpliesCompleted /\ NoSplitBrain /\ AttemptBudget

(* What has ended stays ended, and a lease is ended by its holder alone.    *)
EndingsStay == TerminalRunIsFinal /\ TerminalJobIsFinal /\ OnlyHolderEndsLiveLease
=============================================================================
