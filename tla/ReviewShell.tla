----------------------------- MODULE ReviewShell -----------------------------
(***************************************************************************)
(* The review shell (runReviewJob), the handler that ReviewJobs' attempts  *)
(* run, and the per-pull-request mutex core.pr_review_mutex it works under: *)
(* acquire or reuse the mutex, persist its id on the job row under the      *)
(* fence, run the pipeline while a loop renews the mutex lease, and release *)
(* it in the finally block. The mutex has its own lease, so it can outlive  *)
(* the attempt, the job and the process, and be lost while work goes on.    *)
(*                                                                          *)
(* Every step that ends the handler is the ReviewJobs step of that outcome  *)
(* with the shell's own effects conjoined; every other shell step leaves    *)
(* the job platform unchanged.                                              *)
(***************************************************************************)
EXTENDS ReviewJobs, TLC

CONSTANT Mutexes   \* mutex ids; an id nobody refers to any more is reused

ASSUME NoneIsNoMutex == None \notin Mutexes

VARIABLES
  mutex,      \* core.pr_review_mutex, by mutex_id
  jobMutex,   \* review_jobs.mutex_id, by job_id
  shell       \* the shell of each attempt

shellVars == <<mutex, jobMutex, shell>>
allVars   == <<vars, shellVars>>

(* A mutex row: holder_workflow_id names the run (None: released_at is set), *)
(* valid says lease_expires_at > now().                                      *)
Released == [holder |-> None, valid |-> FALSE]
MutexRow == {Released} \cup [holder : Runs, valid : BOOLEAN]
Held(r)  == [holder |-> r, valid |-> TRUE]

(* Where a shell is: "start" before the mutex, "persist" with a fresh mutex  *)
(* not yet on the job row, "drop" refused by the fence, "body" in the        *)
(* pipeline, "cleanup" in the finally block, "left" out without one.         *)
Shell == [at   : {"idle", "start", "persist", "drop", "body", "cleanup", "left"},
          m    : Mutexes \cup {None},
          lost : BOOLEAN]         \* shellAbort: the renew loop gave the mutex up

NoShell == [at |-> "idle", m |-> None, lost |-> FALSE]

-----------------------------------------------------------------------------
RunOf(t)  == job[att[t].job].run
IsLive(m)   == mutex[m].holder # None

\* The PR's row with released_at IS NULL, as a set.
LiveOf(rv) == {m \in Mutexes : IsLive(m) /\ run[mutex[m].holder].review = rv}

ReviewOf(t) == run[RunOf(t)].review

FreshMutex(m) ==
  /\ ~ IsLive(m)
  /\ \A j \in Jobs : jobMutex[j] # m
  /\ \A t \in Tokens : shell[t].m # m

\* UPDATE ... SET released_at WHERE mutex_id IN ids AND released_at IS NULL
Release(ids) == [m \in Mutexes |-> IF m \in ids THEN Released ELSE mutex[m]]

Goto(t, place) == shell' = [shell EXCEPT ![t].at = place]

(* The mutex id read with the job row at the claim is live and of this PR:   *)
(* then the renew that follows succeeds.                                     *)
Reusable(t) == shell[t].m # None /\ shell[t].m \in LiveOf(ReviewOf(t))

-----------------------------------------------------------------------------
(* The claim returns the job row, with the mutex id an earlier attempt left. *)
ShellClaim(w, j, t) ==
  /\ Claim(w, j, t)
  /\ shell' = [shell EXCEPT ![t] = [at |-> "start", m |-> jobMutex[j], lost |-> FALSE]]
  /\ UNCHANGED <<mutex, jobMutex>>

ReuseMutex(t) ==
  /\ shell[t].at = "start" /\ Reusable(t)
  /\ mutex' = [mutex EXCEPT ![shell[t].m].valid = TRUE]
  /\ Goto(t, "body")
  /\ UNCHANGED <<vars, jobMutex>>

\* Mutants: an expired row is left behind; a live lease is taken over.
AcquireMutex_KeepsExpired(t, m) ==
  /\ shell[t].at = "start" /\ ~ Reusable(t)
  /\ FreshMutex(m)
  /\ \A n \in LiveOf(ReviewOf(t)) : ~ mutex[n].valid
  /\ mutex' = [mutex EXCEPT ![m] = Held(RunOf(t))]
  /\ shell' = [shell EXCEPT ![t].at = "persist", ![t].m = m]
  /\ UNCHANGED <<vars, jobMutex>>
AcquireMutex_TakesOver(t, m) ==
  /\ shell[t].at = "start" /\ ~ Reusable(t)
  /\ FreshMutex(m)
  /\ mutex' = [Release(LiveOf(ReviewOf(t))) EXCEPT ![m] = Held(RunOf(t))]
  /\ shell' = [shell EXCEPT ![t].at = "persist", ![t].m = m]
  /\ UNCHANGED <<vars, jobMutex>>

(* acquirePrReviewMutex in one transaction under the PR's advisory lock: an  *)
(* expired row is released, then a fresh one inserted.                       *)
AcquireMutex(t, m) ==
  /\ shell[t].at = "start" /\ ~ Reusable(t)
  /\ FreshMutex(m)
  /\ \A n \in LiveOf(ReviewOf(t)) : ~ mutex[n].valid
  /\ mutex' = [Release(LiveOf(ReviewOf(t))) EXCEPT ![m] = Held(RunOf(t))]
  /\ shell' = [shell EXCEPT ![t].at = "persist", ![t].m = m]
  /\ UNCHANGED <<vars, jobMutex>>

(* Another attempt is inside the same acquire: pg_try_advisory_xact_lock     *)
(* fails.                                                                    *)
Contended(t) ==
  \E u \in Tokens \ {t} :
     shell[u].at = "start" /\ ~ Reusable(u) /\ ReviewOf(u) = ReviewOf(t)

\* Mutant: busy is answered like lease_lost, by a plain return.
AcquireBusy_Returns(t) ==
  /\ shell[t].at = "start" /\ ~ Reusable(t)
  /\ (\E n \in LiveOf(ReviewOf(t)) : mutex[n].valid) \/ Contended(t)
  /\ att' = [att EXCEPT ![t].hnd = "exit", ![t].out = "ok"]
  /\ Goto(t, "left")
  /\ UNCHANGED <<run, current, dispatch, job, loop, mutex, jobMutex>>

(* A live lease owns the PR: TerminalCancelError("mutex-busy"), thrown       *)
(* before the try block.                                                     *)
AcquireBusy(t) ==
  /\ shell[t].at = "start" /\ ~ Reusable(t)
  /\ (\E n \in LiveOf(ReviewOf(t)) : mutex[n].valid) \/ Contended(t)
  /\ HandlerThrows(t, "cancel")
  /\ Goto(t, "left")
  /\ UNCHANGED <<mutex, jobMutex>>

PersistMutex(t) ==
  /\ shell[t].at = "persist" /\ Holds(t)
  /\ jobMutex' = [jobMutex EXCEPT ![att[t].job] = shell[t].m]
  /\ Goto(t, "body")
  /\ UNCHANGED <<vars, mutex>>

PersistRefused(t) ==
  /\ shell[t].at = "persist" /\ ~ Holds(t)
  /\ Goto(t, "drop")
  /\ UNCHANGED <<vars, mutex, jobMutex>>

(* lease_lost: release the mutex just acquired and return normally. *)
DropMutex(t) ==
  /\ shell[t].at = "drop"
  /\ HandlerYields(t)
  /\ mutex' = Release({shell[t].m})
  /\ Goto(t, "left")
  /\ UNCHANGED jobMutex

(* A statement of these steps throws (payload integrity, tenancy race, lost  *)
(* connection): the mutex, if one was acquired, stays live. The persist may  *)
(* have been committed all the same.                                         *)
MutexStepThrows(t) ==
  /\ shell[t].at \in {"start", "persist", "drop"}
  /\ HandlerThrows(t, "fail")
  /\ Goto(t, "left")
  /\ \/ UNCHANGED jobMutex
     \/ /\ shell[t].at = "persist" /\ Holds(t)
        /\ jobMutex' = [jobMutex EXCEPT ![att[t].job] = shell[t].m]
  /\ UNCHANGED mutex

-----------------------------------------------------------------------------
(* The renew loop and the claim checks extend the mutex lease whenever the   *)
(* row is live, even after it expired and even for an orphan.                *)
RenewMutex(t) ==
  /\ shell[t].at = "body" /\ ~ shell[t].lost
  /\ IsLive(shell[t].m) /\ ~ mutex[shell[t].m].valid
  /\ mutex' = [mutex EXCEPT ![shell[t].m].valid = TRUE]
  /\ UNCHANGED <<vars, jobMutex, shell>>

(* classifyRenewOutcome abandons: the renew found the row released, or it    *)
(* failed MAX_CONSECUTIVE_MUTEX_RENEW_FAILURES times in a row.               *)
RenewAbandons(t) ==
  /\ shell[t].at = "body" /\ ~ shell[t].lost
  /\ shell' = [shell EXCEPT ![t].lost = TRUE]
  /\ UNCHANGED <<vars, mutex, jobMutex>>

(* A claim check throws (composed abort, mutex lost, superseded), or a write *)
(* finds the run no longer RUNNING.                                          *)
BodyCancels(t) ==
  /\ shell[t].at = "body"
  /\ \/ att[t].aborted \/ shell[t].lost
     \/ ~ IsLive(shell[t].m)
     \/ ~ IsCurrent(RunOf(t))
     \/ run[RunOf(t)].state # "RUNNING"
  /\ HandlerThrows(t, "cancel")
  /\ Goto(t, "cleanup")
  /\ UNCHANGED <<mutex, jobMutex>>

BodyThrows(t) ==
  /\ shell[t].at = "body"
  /\ \E o \in {"throttle", "fail"} : HandlerThrows(t, o)
  /\ Goto(t, "cleanup")
  /\ UNCHANGED <<mutex, jobMutex>>

BodyFinalizes(t) ==
  /\ shell[t].at = "body"
  /\ HandlerFinalizes(t)
  /\ Goto(t, "cleanup")
  /\ UNCHANGED <<mutex, jobMutex>>

(* The finally block releases the mutex whoever else works under it by now;  *)
(* a failure to release is logged and swallowed.                             *)
CleanupReleases(t) ==
  /\ shell[t].at = "cleanup"
  /\ HandlerReturns(t)
  /\ mutex' = Release({shell[t].m})
  /\ shell' = [shell EXCEPT ![t] = NoShell]
  /\ UNCHANGED jobMutex

CleanupFails(t) ==
  /\ shell[t].at = "cleanup"
  /\ HandlerReturns(t)
  /\ shell' = [shell EXCEPT ![t] = NoShell]
  /\ UNCHANGED <<mutex, jobMutex>>

ShellReturns(t) ==
  /\ shell[t].at = "left"
  /\ HandlerReturns(t)
  /\ shell' = [shell EXCEPT ![t] = NoShell]
  /\ UNCHANGED <<mutex, jobMutex>>

-----------------------------------------------------------------------------
(* Time passes lease_expires_at. *)
MutexLapses(m) ==
  /\ IsLive(m) /\ mutex[m].valid
  /\ mutex' = [mutex EXCEPT ![m].valid = FALSE]
  /\ UNCHANGED <<vars, jobMutex, shell>>

\* Mutant: rows that some job still refers to are skipped.
MutexJanitor_SkipsJobs(m) ==
  /\ IsLive(m) /\ ~ mutex[m].valid
  /\ \A j \in Jobs : jobMutex[j] # m
  /\ mutex' = Release({m})
  /\ UNCHANGED <<vars, jobMutex, shell>>

MutexJanitor(m) ==
  /\ IsLive(m) /\ ~ mutex[m].valid
  /\ mutex' = Release({m})
  /\ UNCHANGED <<vars, jobMutex, shell>>

(* Both reapers release the mutex of the jobs they end, in the same          *)
(* transaction.                                                              *)
ShellReapStuckRuns(w) ==
  /\ ReapStuckRuns(w)
  /\ mutex' = Release({jobMutex[j] : j \in {k \in Jobs : Stuck(k) /\ job'[k].state = "dead"}})
  /\ UNCHANGED <<jobMutex, shell>>

ShellRunReaper(r) ==
  /\ ReviewRunReaper(r)
  /\ mutex' = Release({jobMutex[j] : j \in {k \in Jobs : job[k].run = r}})
  /\ UNCHANGED <<jobMutex, shell>>

(* A crash leaves the mutex as it is. *)
ProcessEnds(w) ==
  /\ WorkerCrashes(w) \/ WorkerRestarts(w)
  /\ shell' = [t \in Tokens |-> IF att[t].owner = w THEN NoShell ELSE shell[t]]
  /\ UNCHANGED <<mutex, jobMutex>>

-----------------------------------------------------------------------------
ShellInit ==
  /\ Init
  /\ mutex = [m \in Mutexes |-> Released]
  /\ jobMutex = [j \in Jobs |-> None]
  /\ shell = [t \in Tokens |-> NoShell]

ShellStep(t) ==
  \/ ReuseMutex(t) \/ AcquireBusy(t)
  \/ \E m \in Mutexes : AcquireMutex(t, m)
  \/ PersistMutex(t) \/ PersistRefused(t) \/ DropMutex(t) \/ MutexStepThrows(t)
  \/ RenewMutex(t) \/ RenewAbandons(t)
  \/ BodyCancels(t) \/ BodyThrows(t) \/ BodyFinalizes(t)
  \/ CleanupReleases(t) \/ CleanupFails(t) \/ ShellReturns(t)

(* The steps of the job platform that do not concern the mutex. *)
PlatformStep ==
  \/ PushNext
  \/ \E r \in Runs :
        GuardDispatch(r) \/ DispatchLost(r) \/ \E j \in Jobs : Enqueue(r, j)
  \/ \E t \in Tokens :
        \/ Heartbeat(t) \/ HeartbeatAborts(t) \/ RuntimeElapses(t) \/ HardTimeout(t)
        \/ SettleNext(t)
  \/ \E w \in Workers : PollIdle(w)
  \/ \E j \in Jobs : TimeLapses(j)

ShellNext ==
  \/ \E t \in Tokens : ShellStep(t)
  \/ \E m \in Mutexes : MutexLapses(m) \/ MutexJanitor(m)
  \/ \E w \in Workers :
        \/ \E j \in Jobs, t \in Tokens : ShellClaim(w, j, t)
        \/ ShellReapStuckRuns(w)
        \/ ProcessEnds(w)
  \/ \E r \in Runs : ShellRunReaper(r)
  \/ PlatformStep /\ UNCHANGED shellVars

ShellSpec == ShellInit /\ [][ShellNext]_allVars

(***************************************************************************)
(* Fairness for the mutex: its lease and the janitor's cron advance, a      *)
(* pipeline comes to an end (every port it calls has a start-to-close       *)
(* timeout and a bounded retry curve), and a release that is tried again    *)
(* and again does not fail every time.                                      *)
(***************************************************************************)
ShellFairness ==
  /\ \A m \in Mutexes : WF_allVars(MutexLapses(m)) /\ WF_allVars(MutexJanitor(m))
  /\ \A t \in Tokens :
       /\ WF_allVars(BodyCancels(t) \/ BodyThrows(t) \/ BodyFinalizes(t))
       /\ WF_allVars(CleanupReleases(t) \/ CleanupFails(t))
       /\ SF_allVars(CleanupReleases(t))

ShellFairSpec == ShellSpec /\ ShellFairness

-----------------------------------------------------------------------------
ShellTypeOK ==
  /\ mutex \in [Mutexes -> MutexRow]
  /\ jobMutex \in [Jobs -> Mutexes \cup {None}]
  /\ shell \in [Tokens -> Shell]

(* A PR has at most one live mutex row: the INSERT of acquirePrReviewMutex   *)
(* never meets the unique index uq_pr_review_mutex_live_pr, so no review     *)
(* fails on it.                                                              *)
OneLiveMutexPerReview ==
  \A m, n \in Mutexes :
     IsLive(m) /\ IsLive(n) /\ run[mutex[m].holder].review = run[mutex[n].holder].review => m = n

(* Two pipelines of one PR that both still have their mutex are attempts of  *)
(* the same run (an orphan and its successor): a newer push never reviews    *)
(* alongside the run it superseded unless that run has lost its mutex.       *)
MutexSerialisesRuns ==
  \A t, u \in Tokens :
     /\ shell[t].at = "body" /\ shell[u].at = "body"
     /\ IsLive(shell[t].m) /\ IsLive(shell[u].m)
     /\ ReviewOf(t) = ReviewOf(u)
     => RunOf(t) = RunOf(u)

(* A mutex whose lease has not expired is released only on behalf of its own *)
(* run: by one of its attempts in cleanup or refused by the fence, or by a   *)
(* reaper that ends the run's job - never by another run's acquire.          *)
ValidMutexReleasedByOwnRun ==
  [][\A m \in Mutexes :
       IsLive(m) /\ mutex[m].valid /\ mutex'[m] = Released
         => \/ \E t \in Tokens : /\ shell[t].m = m /\ shell[t].at \in {"cleanup", "drop"}
                                 /\ RunOf(t) = mutex[m].holder
            \/ \E j \in Jobs : /\ jobMutex[j] = m /\ job[j].run = mutex[m].holder
                               /\ job'[j].state \in {"done", "dead", "cancelled"}]_allVars

(* The pipeline of the lease's holder works under the mutex its job row      *)
(* names: after a crash the re-run finds it there and the reaper releases    *)
(* it. A stale attempt must never overwrite that id with its own.            *)
HolderMutexOnJob ==
  \A t \in Tokens :
     shell[t].at = "body" /\ Holds(t) => jobMutex[att[t].job] = shell[t].m

(* The job platform's specification: whatever the shell does, with the mutex *)
(* and its faults, is a behaviour of ReviewJobs, so all that is proved there *)
(* holds of the composed system.                                             *)
ShellImplementsJobs == Spec

(* A PR's mutex never blocks the PR for ever: every live mutex is released.  *)
MutexEventuallyFree == \A m \in Mutexes : IsLive(m) ~> ~ IsLive(m)

(* The mutex does its work: one live mutex per pull request, one run at a   *)
(* time under it, and the holder's mutex on its job.                        *)
MutexSound ==
  ShellTypeOK /\ OneLiveMutexPerReview /\ MutexSerialisesRuns /\ HolderMutexOnJob

(* Jobs and runs stay consistent when pushes and redelivery compete for the *)
(* same pull request, and the mutex still serialises its runs.              *)
PushesSound == JobsSound /\ OneActiveJobPerRun /\ MutexSerialisesRuns

-----------------------------------------------------------------------------
(* What is alike, for the run without a liveness property. *)
Symmetry ==
  Permutations(Runs) \cup Permutations(Jobs) \cup Permutations(Tokens)
    \cup Permutations(Workers) \cup Permutations(Mutexes)
=============================================================================
