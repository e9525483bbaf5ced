-------------------------- MODULE ReviewShell_proofs --------------------------
(***************************************************************************)
(* Proofs about the core. First ReviewJobs: the inductive invariant of the *)
(* review-job platform and the safety properties that follow from it, for  *)
(* every number of runs, jobs, workers, attempts and retries. Then         *)
(* ReviewShell: with the shell and the PR mutex added, the system still    *)
(* implements ReviewJobs (so every theorem about it carries over), a pull  *)
(* request has at most one live mutex row, and the mutex keeps pipelines   *)
(* of different runs of one pull request apart.                            *)
(***************************************************************************)
EXTENDS ReviewShell, TLAPS


(* No code path writes PARTIAL: it is a state of the schema only. *)
NoPartial == \A r \in Runs : run[r].state # "PARTIAL"

JobHasRun == \A j \in Jobs : job[j].state # "absent" => job[j].run \in Runs

Live(a) == a.hnd # "gone" \/ a.rnr # "over"

(* A live attempt was claimed by some worker on an existing job. *)
AttemptHasJob ==
  \A t \in Tokens : Live(att[t]) =>
     /\ att[t].job \in Jobs /\ att[t].owner \in Workers
     /\ job[att[t].job].state # "absent"

ExitHasOutcome == \A t \in Tokens : att[t].hnd = "exit" => att[t].out # "none"

(* The holder's idea of "last attempt" is the row's. *)
LastIsExhausted ==
  \A t \in Tokens : Holds(t) => (att[t].last <=> job[att[t].job].attempts >= MaxAttempts)

Succeeded(a) == a.rnr = "ok" \/ (a.hnd = "exit" /\ a.out = "ok" /\ a.rnr = "wait")

(* A holder about to be marked done has completed its run. *)
SuccessIsCompleted ==
  \A t \in Tokens : Holds(t) /\ Succeeded(att[t]) => run[job[att[t].job].run].state = "COMPLETED"

IInv ==
  /\ TypeOK
  /\ RunsChecked
  /\ ActiveRunIsCurrent
  /\ NoPartial
  /\ JobHasRun
  /\ AttemptHasJob
  /\ ExitHasOutcome
  /\ LastIsExhausted
  /\ SuccessIsCompleted
  /\ AttemptBudget
  /\ DoneImpliesCompleted
  /\ NoSplitBrain

-----------------------------------------------------------------------------
LEMMA NoRowType == NoRow \in RunRow /\ ChecksHold(NoRow)
  BY NoneIsNoRow DEF NoRow, RunRow, Active, Terminal, Stamped, ChecksHold, CancelReasons

LEMMA NoJobType == NoJob \in JobRow
  BY MaxAttemptsPositive DEF NoJob, JobRow

LEMMA NoAttemptType == NoAttempt \in Attempt /\ ~ Live(NoAttempt)
  BY DEF NoAttempt, Attempt, Outcomes, Live

LEMMA InitIInv == Init => IInv
<1> SUFFICES ASSUME Init PROVE IInv
  OBVIOUS
<1>1. TypeOK
  BY NoRowType, NoJobType, NoAttemptType DEF Init, RunsInit, TypeOK, RunsTypeOK
<1>2. RunsChecked /\ ActiveRunIsCurrent /\ NoPartial
  BY NoRowType DEF Init, RunsInit, RunsChecked, ActiveRunIsCurrent, NoPartial, NoRow, Active
<1>3. JobHasRun /\ AttemptBudget /\ DoneImpliesCompleted /\ NoSplitBrain
  BY DEF Init, JobHasRun, AttemptBudget, DoneImpliesCompleted, NoSplitBrain, NoJob
<1>4. AttemptHasJob /\ ExitHasOutcome
  BY NoAttemptType DEF Init, AttemptHasJob, ExitHasOutcome, NoAttempt
<1>5. \A t \in Tokens : ~ Holds(t)
  BY DEF Init, Holds, NoJob
<1> QED
  BY <1>1, <1>2, <1>3, <1>4, <1>5 DEF IInv, LastIsExhausted, SuccessIsCompleted

-----------------------------------------------------------------------------
Settled == {"done", "dead", "cancelled"}

(* What is shown of every step: the invariant is kept, and neither a terminal *)
(* run nor a settled job is touched again.                                    *)
Kept ==
  /\ IInv'
  /\ \A r \in Runs : run[r].state \in Terminal => run'[r].state = run[r].state
  /\ \A j \in Jobs : job[j].state \in Settled => job'[j] = job[j]

(* What one step does to a run row, to a job row and to an attempt, for      *)
(* every step but a push and a claim.                                        *)
RowStep(old, new) ==
  /\ new \in RunRow /\ ChecksHold(new) /\ new.state # "PARTIAL"
  /\ old.state \in Terminal => new.state = old.state
  /\ new.state \in Active => old.state \in Active /\ new.review = old.review

RunStep == run' \in [Runs -> RunRow] /\ \A r \in Runs : RowStep(run[r], run'[r])

JobStep(j) ==
  /\ job[j].state # "absent" => job'[j].state # "absent" /\ job'[j].run = job[j].run
  /\ job'[j].state # "absent" => job'[j].run \in Runs
  /\ job[j].state \in Settled => job'[j] = job[j]
  /\ job'[j].state = "leased" =>
        /\ job[j].state = "leased"
        /\ job'[j].owner = job[j].owner /\ job'[j].token = job[j].token
        /\ job'[j].attempts = job[j].attempts
  /\ job'[j].state = "ready" => job'[j].attempts < MaxAttempts
  /\ job'[j].state = "done" => run'[job'[j].run].state = "COMPLETED"
  /\ job'[j].state \in {"dead", "cancelled"} => run'[job'[j].run].state \in Terminal

AttStep(t) ==
  \/ att'[t] = NoAttempt
  \/ /\ att'[t].job = att[t].job /\ att'[t].owner = att[t].owner /\ att'[t].last = att[t].last
     /\ Live(att'[t]) => Live(att[t])
     /\ att'[t].hnd = "exit" => att'[t].out # "none"
     /\ Holds(t) /\ Succeeded(att'[t])
          => Succeeded(att[t]) \/ run'[job[att[t].job].run].state = "COMPLETED"

LEMMA RowStepSame ==
  ASSUME NEW row \in RunRow, ChecksHold(row), row.state # "PARTIAL"
  PROVE  RowStep(row, row)
  BY DEF RowStep

LEMMA RowStepTransition ==
  ASSUME NEW row \in RunRow, ChecksHold(row), row.state # "PARTIAL",
         NEW from \in Active, NEW to \in {"RUNNING", "COMPLETED"}, from # to
  PROVE  RowStep(row, Transitioned(row, from, to))
<1>1. CASE row.state = to \/ row.state # from
  <2>1. TransitionOutcome(row, from, to) # "APPLIED"
    BY <1>1 DEF TransitionOutcome
  <2>2. Transitioned(row, from, to) = row
    BY <2>1 DEF Transitioned
  <2> QED
    BY <2>2, RowStepSame
<1>2. CASE row.state # to /\ row.state = from
  <2>1. Transitioned(row, from, to) = WithState(row, to)
    BY <1>2 DEF Transitioned, TransitionOutcome
  <2>2. row.stamps = {} /\ row.by = None /\ row.reason # "superseded"
    BY <1>2 DEF ChecksHold, RunRow, Stamped, Active
  <2> QED
    BY <1>2, <2>1, <2>2 DEF RowStep, WithState, RunRow, ChecksHold, Stamped, Active, Terminal
<1> QED
  BY <1>1, <1>2

(* An unguarded UPDATE to CANCELLED or FAILED that passes the CHECKs leaves a *)
(* terminal row in its state.                                                 *)
LEMMA RowStepWrite ==
  ASSUME NEW row \in RunRow, ChecksHold(row), row.state # "PARTIAL",
         NEW new,
         \/ \E why \in CancelReasons : new = Cancelled(row, why)
         \/ new = WithState(row, "FAILED"),
         ChecksHold(new)
  PROVE  RowStep(row, new) /\ new.state \in Terminal
<1>1. ASSUME NEW s \in {"CANCELLED", "FAILED"}
      PROVE  /\ WithState(row, s) \in RunRow
             /\ WithState(row, s).state = s
             /\ row.stamps \subseteq WithState(row, s).stamps
  BY DEF WithState, RunRow, Stamped, Terminal
<1>2. ASSUME NEW why \in CancelReasons
      PROVE  /\ Cancelled(row, why) \in RunRow
             /\ Cancelled(row, why).state = "CANCELLED"
             /\ row.stamps \subseteq Cancelled(row, why).stamps
  <2>1. WithState(row, "CANCELLED") \in RunRow
    BY <1>1
  <2>2. Cancelled(row, why) \in RunRow
    BY <2>1 DEF Cancelled, RunRow
  <2>3. /\ Cancelled(row, why).state = WithState(row, "CANCELLED").state
        /\ Cancelled(row, why).stamps = WithState(row, "CANCELLED").stamps
    BY <2>1 DEF Cancelled, RunRow
  <2> QED
    BY <1>1, <2>2, <2>3
<1>3. new \in RunRow /\ new.state \in {"CANCELLED", "FAILED"} /\ row.stamps \subseteq new.stamps
  BY <1>1, <1>2
<1>4. ASSUME row.state \in Terminal PROVE new.state = row.state
  <2>1. row.state \in Stamped
    BY <1>4 DEF Terminal, Stamped
  <2>2. row.state \in new.stamps
    BY <1>3, <2>1 DEF ChecksHold
  <2> QED
    BY <2>1, <2>2 DEF ChecksHold
<1> QED
  BY <1>3, <1>4 DEF RowStep, Active, Terminal

LEMMA RowStepReap ==
  ASSUME NEW row \in RunRow, ChecksHold(row), row.state = "RUNNING"
  PROVE  RowStep(row, Cancelled(row, "timeout"))
<1>1. row.stamps = {} /\ row.by = None
  BY DEF ChecksHold, RunRow, Stamped
<1>2. ChecksHold(Cancelled(row, "timeout"))
  BY <1>1 DEF ChecksHold, Cancelled, WithState, RunRow, Stamped
<1> QED
  BY <1>2, RowStepWrite DEF CancelReasons

LEMMA RunsUnchanged == IInv /\ run' = run => RunStep
  BY RowStepSame DEF IInv, TypeOK, RunsTypeOK, RunsChecked, NoPartial, RunStep

(* The step lemma: whatever changes rows and attempts only as above keeps    *)
(* the invariant.                                                            *)
LEMMA StepKeepsIInv ==
  ASSUME IInv, RunStep, current' = current, dispatch' \subseteq Runs,
         job' \in [Jobs -> JobRow], att' \in [Tokens -> Attempt],
         loop' \in [Workers -> {"poll", "busy", "idle", "down"}],
         \A j \in Jobs : JobStep(j),
         \A t \in Tokens : AttStep(t)
  PROVE  Kept
<1>1. TypeOK'
  BY DEF IInv, TypeOK, RunsTypeOK, RunStep
<1>2. RunsChecked' /\ NoPartial'
  BY DEF RunStep, RowStep, RunsChecked, NoPartial
<1>3. ActiveRunIsCurrent'
  BY DEF IInv, RunStep, RowStep, ActiveRunIsCurrent, IsCurrent
<1>4. JobHasRun' /\ AttemptBudget' /\ DoneImpliesCompleted' /\ NoSplitBrain'
  BY DEF JobStep, JobHasRun, AttemptBudget, DoneImpliesCompleted, NoSplitBrain
<1>5. AttemptHasJob' /\ ExitHasOutcome'
  <2>1. AttemptHasJob'
    BY NoAttemptType DEF IInv, AttStep, JobStep, AttemptHasJob
  <2>2. ExitHasOutcome'
    BY DEF AttStep, ExitHasOutcome, NoAttempt
  <2> QED
    BY <2>1, <2>2
<1>6. ASSUME NEW t \in Tokens, Holds(t)'
      PROVE  /\ Holds(t) /\ att'[t].job = att[t].job /\ att'[t].last = att[t].last
             /\ job'[att[t].job].run = job[att[t].job].run
             /\ job'[att[t].job].attempts = job[att[t].job].attempts
             /\ Succeeded(att'[t]) => Succeeded(att[t]) \/ run'[job[att[t].job].run].state = "COMPLETED"
  <2>1. att'[t] # NoAttempt
    BY <1>6, NoneIsNoToken DEF Holds, NoAttempt
  <2>2. att'[t].job = att[t].job /\ att[t].job \in Jobs
    BY <1>6, <2>1 DEF Holds, AttStep
  <2>3. Holds(t)
    BY <1>6, <2>1, <2>2 DEF Holds, AttStep, JobStep
  <2> QED
    BY <1>6, <2>1, <2>2, <2>3 DEF Holds, AttStep, JobStep
<1>7. LastIsExhausted'
  BY <1>6 DEF IInv, LastIsExhausted
<1>8. SuccessIsCompleted'
  <2> SUFFICES ASSUME NEW t \in Tokens, Holds(t)', Succeeded(att'[t])
               PROVE  run'[job'[att'[t].job].run].state = "COMPLETED"
    BY DEF SuccessIsCompleted
  <2>1. CASE run'[job[att[t].job].run].state = "COMPLETED"
    BY <1>6, <2>1
  <2>2. CASE Succeeded(att[t])
    <3>1. run[job[att[t].job].run].state = "COMPLETED"
      BY <1>6, <2>2 DEF IInv, SuccessIsCompleted
    <3>2. job[att[t].job].run \in Runs
      BY <1>6 DEF IInv, JobHasRun, Holds
    <3> QED
      BY <1>6, <3>1, <3>2 DEF RunStep, RowStep, Terminal
  <2> QED
    BY <1>6, <2>1, <2>2
<1>9. IInv'
  BY <1>1, <1>2, <1>3, <1>4, <1>5, <1>7, <1>8 DEF IInv
<1> QED
  BY <1>9 DEF Kept, RunStep, RowStep, JobStep

(* Rows that do not change, or only lapse, step trivially. *)
LEMMA JobsUnchanged ==
  ASSUME IInv, RunStep, NEW j \in Jobs,
         \/ job'[j] = job[j]
         \/ IsActive(j) /\ \E b \in BOOLEAN : job' = [job EXCEPT ![j].lapsed = b]
  PROVE  JobStep(j)
<1>1. /\ job'[j].state = job[j].state /\ job'[j].run = job[j].run
      /\ job'[j].owner = job[j].owner /\ job'[j].token = job[j].token
      /\ job'[j].attempts = job[j].attempts
  BY DEF IInv, TypeOK, JobRow
<1>2. job[j].state # "absent" => RowStep(run[job[j].run], run'[job[j].run])
  BY DEF IInv, JobHasRun, RunStep
<1>3. job[j].state \in Settled => job'[j] = job[j]
  BY DEF Settled, IsActive
<1> QED
  BY <1>1, <1>2, <1>3 DEF IInv, JobHasRun, AttemptBudget, DoneImpliesCompleted, NoSplitBrain,
                          JobStep, RowStep, Terminal

LEMMA AttUnchanged ==
  ASSUME IInv, NEW t \in Tokens, att'[t] = att[t]
  PROVE  AttStep(t)
  BY DEF IInv, ExitHasOutcome, AttStep

(* A step that replaces one attempt and leaves the job rows alone. *)
LEMMA AttemptReplaced ==
  ASSUME IInv, RunStep, UNCHANGED <<current, dispatch, job>>,
         loop' \in [Workers -> {"poll", "busy", "idle", "down"}],
         NEW t \in Tokens, NEW a \in Attempt, att' = [att EXCEPT ![t] = a], AttStep(t)
  PROVE  Kept
<1>1. \A u \in Tokens : AttStep(u)
  BY AttUnchanged DEF IInv, TypeOK
<1>2. \A j \in Jobs : JobStep(j)
  BY JobsUnchanged
<1> QED
  BY <1>1, <1>2, StepKeepsIInv DEF IInv, TypeOK

-----------------------------------------------------------------------------
LEMMA GuardDispatchStep ==
  ASSUME IInv, NEW r \in Runs, GuardDispatch(r) PROVE Kept
<1>1. RunStep
  <2>1. RowStep(run[r], Transitioned(run[r], "PENDING", "RUNNING"))
    BY RowStepTransition DEF IInv, TypeOK, RunsTypeOK, RunsChecked, NoPartial, Active
  <2> QED
    BY <2>1, RowStepSame DEF GuardDispatch, IInv, TypeOK, RunsTypeOK, RunsChecked, NoPartial,
                             RunStep, RowStep
<1> QED
  BY <1>1, JobsUnchanged, AttUnchanged, StepKeepsIInv DEF GuardDispatch, IInv, TypeOK

LEMMA EnqueueStep ==
  ASSUME IInv, NEW r \in Runs, NEW j \in Jobs, Enqueue(r, j) PROVE Kept
<1>1. RunStep
  BY RunsUnchanged DEF Enqueue
<1>2. ReadyJob(r) \in JobRow
  BY MaxAttemptsPositive DEF ReadyJob, JobRow
<1>3. job' \in [Jobs -> JobRow]
  BY <1>2 DEF Enqueue, IInv, TypeOK
<1>4. ASSUME NEW k \in Jobs PROVE JobStep(k)
  <2>1. CASE job'[k] = job[k]
    BY <1>1, <2>1, JobsUnchanged
  <2>2. CASE job'[k] # job[k]
    <3>1. k = j /\ job'[k] = ReadyJob(r) /\ job[k].state = "absent"
      BY <2>2 DEF Enqueue, IInv, TypeOK
    <3> QED
      BY <3>1, MaxAttemptsPositive DEF JobStep, ReadyJob, Settled
  <2> QED
    BY <2>1, <2>2
<1> QED
  BY <1>1, <1>3, <1>4, AttUnchanged, StepKeepsIInv DEF Enqueue, IInv, TypeOK

LEMMA DispatchLostStep ==
  ASSUME IInv, NEW r \in Runs, DispatchLost(r) PROVE Kept
  BY RunsUnchanged, JobsUnchanged, AttUnchanged, StepKeepsIInv DEF DispatchLost, IInv, TypeOK

LEMMA ReviewRunReaperStep ==
  ASSUME IInv, NEW r \in Runs, ReviewRunReaper(r) PROVE Kept
<1>1. RowStep(run[r], Cancelled(run[r], "timeout"))
  BY RowStepReap DEF ReviewRunReaper, IInv, TypeOK, RunsTypeOK, RunsChecked
<1>2. RunStep
  BY <1>1, RowStepSame DEF ReviewRunReaper, IInv, TypeOK, RunsTypeOK, RunsChecked, NoPartial,
                           RunStep, RowStep
<1> QED
  BY <1>2, JobsUnchanged, AttUnchanged, StepKeepsIInv DEF ReviewRunReaper, IInv, TypeOK

LEMMA LapseStep ==
  ASSUME IInv, NEW j \in Jobs, IsActive(j), NEW b \in BOOLEAN,
         job' = [job EXCEPT ![j].lapsed = b],
         UNCHANGED <<run, current, dispatch, att, loop>>
  PROVE  Kept
<1>1. job' \in [Jobs -> JobRow]
  BY DEF IInv, TypeOK, JobRow
<1>2. \A k \in Jobs : JobStep(k)
  <2>1. RunStep
    BY RunsUnchanged
  <2>2. JobStep(j)
    BY <2>1, JobsUnchanged
  <2>3. \A k \in Jobs : k # j => job'[k] = job[k]
    BY DEF IInv, TypeOK
  <2> QED
    BY <2>1, <2>2, <2>3, JobsUnchanged
<1> QED
  BY <1>1, <1>2, RunsUnchanged, AttUnchanged, StepKeepsIInv DEF IInv, TypeOK

LEMMA TimeLapsesStep ==
  ASSUME IInv, NEW j \in Jobs, TimeLapses(j) PROVE Kept
  BY LapseStep DEF TimeLapses

LEMMA HeartbeatStep ==
  ASSUME IInv, NEW t \in Tokens, Heartbeat(t) PROVE Kept
  BY LapseStep DEF Heartbeat, Holds, IsActive

(* What Unleased and Retired make of a row and of an attempt. *)
LEMMA UnleasedRow ==
  ASSUME NEW row \in JobRow, NEW s \in {"ready", "done", "cancelled", "dead"}
  PROVE  /\ Unleased(row, s) \in JobRow
         /\ Unleased(row, s).state = s /\ Unleased(row, s).run = row.run
         /\ Unleased(row, s).attempts = row.attempts
  BY DEF Unleased, JobRow

LEMMA RetiredAttempt ==
  ASSUME NEW a \in Attempt
  PROVE  Retired(a) \in Attempt /\ (Retired(a) = NoAttempt \/ Retired(a) = a)
  BY NoAttemptType DEF Retired

-----------------------------------------------------------------------------
LEMMA HeartbeatAbortsStep ==
  ASSUME IInv, NEW t \in Tokens, HeartbeatAborts(t) PROVE Kept
<1> DEFINE a == [att[t] EXCEPT !.aborted = TRUE]
<1>1. a \in Attempt /\ att' = [att EXCEPT ![t] = a]
  BY DEF HeartbeatAborts, IInv, TypeOK, Attempt
<1>2. AttStep(t)
  BY <1>1 DEF AttStep, Live, Succeeded, IInv, TypeOK, Attempt, ExitHasOutcome
<1> QED
  BY <1>1, <1>2, RunsUnchanged, AttemptReplaced DEF HeartbeatAborts, IInv, TypeOK

LEMMA RuntimeElapsesStep ==
  ASSUME IInv, NEW t \in Tokens, RuntimeElapses(t) PROVE Kept
<1> DEFINE a == [att[t] EXCEPT !.elapsed = TRUE]
<1>1. a \in Attempt /\ att' = [att EXCEPT ![t] = a]
  BY DEF RuntimeElapses, IInv, TypeOK, Attempt
<1>2. AttStep(t)
  BY <1>1 DEF AttStep, Live, Succeeded, IInv, TypeOK, Attempt, ExitHasOutcome
<1> QED
  BY <1>1, <1>2, RunsUnchanged, AttemptReplaced DEF RuntimeElapses, IInv, TypeOK

LEMMA HardTimeoutStep ==
  ASSUME IInv, NEW t \in Tokens, HardTimeout(t) PROVE Kept
<1> DEFINE a == [att[t] EXCEPT !.rnr = "fail", !.aborted = TRUE]
<1>1. a \in Attempt /\ att' = [att EXCEPT ![t] = a]
  BY DEF HardTimeout, IInv, TypeOK, Attempt, Outcomes
<1>2. AttStep(t)
  BY <1>1 DEF AttStep, Live, Succeeded, HardTimeout, IInv, TypeOK, Attempt, ExitHasOutcome
<1> QED
  BY <1>1, <1>2, RunsUnchanged, AttemptReplaced DEF HardTimeout, IInv, TypeOK

LEMMA HandlerThrowsStep ==
  ASSUME IInv, NEW t \in Tokens, NEW o \in {"cancel", "throttle", "fail"}, HandlerThrows(t, o)
  PROVE  Kept
<1> DEFINE a == [att[t] EXCEPT !.hnd = "exit", !.out = o]
<1>1. a \in Attempt /\ att' = [att EXCEPT ![t] = a]
  BY DEF HandlerThrows, IInv, TypeOK, Attempt, Outcomes
<1>2. AttStep(t)
  BY <1>1 DEF AttStep, Live, Succeeded, HandlerThrows, IInv, TypeOK, Attempt
<1> QED
  BY <1>1, <1>2, RunsUnchanged, AttemptReplaced DEF HandlerThrows, IInv, TypeOK

LEMMA HandlerYieldsStep ==
  ASSUME IInv, NEW t \in Tokens, HandlerYields(t) PROVE Kept
<1> DEFINE a == [att[t] EXCEPT !.hnd = "exit", !.out = "ok"]
<1>1. a \in Attempt /\ att' = [att EXCEPT ![t] = a]
  BY DEF HandlerYields, IInv, TypeOK, Attempt, Outcomes
<1>2. AttStep(t)
  BY <1>1 DEF AttStep, Live, HandlerYields, IInv, TypeOK, Attempt
<1> QED
  BY <1>1, <1>2, RunsUnchanged, AttemptReplaced DEF HandlerYields, IInv, TypeOK

LEMMA HandlerReturnsStep ==
  ASSUME IInv, NEW t \in Tokens, HandlerReturns(t) PROVE Kept
<1> DEFINE a == [att[t] EXCEPT !.hnd = "gone", !.rnr = IF @ = "wait" THEN att[t].out ELSE @]
<1>1. att[t] \in Attempt /\ att[t].hnd = "exit"
  BY DEF HandlerReturns, IInv, TypeOK
<1>2. att[t].out \in Outcomes
  BY <1>1 DEF Attempt, IInv, ExitHasOutcome
<1>3. a \in Attempt
  BY <1>1, <1>2 DEF Attempt
<1>4. att' = [att EXCEPT ![t] = Retired(a)] /\ Retired(a) \in Attempt
  BY <1>3, RetiredAttempt DEF HandlerReturns
<1>5. AttStep(t)
  <2>1. CASE Retired(a) = NoAttempt
    BY <1>4, <2>1 DEF AttStep, IInv, TypeOK
  <2>2. CASE Retired(a) = a
    <3>1. att'[t] = a
      BY <1>4, <2>2 DEF IInv, TypeOK
    <3> QED
      BY <1>1, <3>1 DEF AttStep, Live, Succeeded, Attempt
  <2> QED
    BY <1>3, <2>1, <2>2, RetiredAttempt
<1> QED
  BY <1>4, <1>5, RunsUnchanged, AttemptReplaced DEF HandlerReturns, IInv, TypeOK

LEMMA HandlerFinalizesStep ==
  ASSUME IInv, NEW t \in Tokens, HandlerFinalizes(t) PROVE Kept
<1> DEFINE r == job[att[t].job].run
           o == TransitionOutcome(run[r], "RUNNING", "COMPLETED")
           a == [att[t] EXCEPT !.hnd = "exit", !.out = IF o = "StateDrift" THEN "cancel" ELSE "ok"]
<1>1. att[t] \in Attempt /\ att[t].hnd = "run" /\ att[t].job \in Jobs /\ r \in Runs
  BY DEF HandlerFinalizes, IInv, TypeOK, AttemptHasJob, Live, JobHasRun
<1>2. RowStep(run[r], Transitioned(run[r], "RUNNING", "COMPLETED"))
  BY <1>1, RowStepTransition DEF IInv, TypeOK, RunsTypeOK, RunsChecked, NoPartial, Active
<1>3. RunStep
  BY <1>1, <1>2, RowStepSame DEF HandlerFinalizes, IInv, TypeOK, RunsTypeOK, RunsChecked, NoPartial,
                                 RunStep, RowStep
<1>4. a \in Attempt /\ att' = [att EXCEPT ![t] = a]
  BY <1>1 DEF HandlerFinalizes, IInv, TypeOK, Attempt, Outcomes
<1>5. o # "StateDrift" => run'[r].state = "COMPLETED"
  <2>1. run'[r] = Transitioned(run[r], "RUNNING", "COMPLETED")
    BY <1>1 DEF HandlerFinalizes, IInv, TypeOK, RunsTypeOK
  <2>2. run[r] \in RunRow
    BY <1>1 DEF IInv, TypeOK, RunsTypeOK
  <2> QED
    BY <2>1, <2>2 DEF Transitioned, TransitionOutcome, WithState, RunRow
<1>6. AttStep(t)
  <2>1. att'[t] = a
    BY <1>4 DEF IInv, TypeOK
  <2>2. a.job = att[t].job /\ a.owner = att[t].owner /\ a.last = att[t].last /\ a.rnr = att[t].rnr
        /\ a.hnd = "exit" /\ a.out = IF o = "StateDrift" THEN "cancel" ELSE "ok"
    BY <1>1 DEF Attempt
  <2>3. Succeeded(a) => Succeeded(att[t]) \/ run'[r].state = "COMPLETED"
    BY <1>5, <2>2 DEF Succeeded
  <2> HIDE DEF a
  <2> QED
    BY <1>1, <2>1, <2>2, <2>3 DEF AttStep, Live
<1> QED
  BY <1>3, <1>4, <1>6, AttemptReplaced DEF HandlerFinalizes, IInv, TypeOK

-----------------------------------------------------------------------------
(* The end of a runner: the attempt only moves to "over" or leaves memory. *)
LEMMA RunnerOverStep ==
  ASSUME IInv, NEW t \in Tokens, NEW l \in {"poll", "down"}, RunnerOver(t, l)
  PROVE  /\ att' \in [Tokens -> Attempt] /\ \A u \in Tokens : AttStep(u)
         /\ loop' \in [Workers -> {"poll", "busy", "idle", "down"}]
<1> DEFINE a == [att[t] EXCEPT !.rnr = "over"]
<1>1. att[t] \in Attempt /\ a \in Attempt
  BY DEF IInv, TypeOK, Attempt
<1>2. att' = [att EXCEPT ![t] = Retired(a)] /\ Retired(a) \in Attempt
  BY <1>1, RetiredAttempt DEF RunnerOver
<1>3. a.job = att[t].job /\ a.owner = att[t].owner /\ a.last = att[t].last /\ a.hnd = att[t].hnd
      /\ a.out = att[t].out /\ a.rnr = "over"
  BY <1>1 DEF Attempt
<1>4. AttStep(t)
  <2>1. att'[t] = NoAttempt \/ att'[t] = a
    BY <1>1, <1>2, RetiredAttempt DEF IInv, TypeOK
  <2> HIDE DEF a
  <2> QED
    BY <1>3, <2>1 DEF AttStep, Live, Succeeded, IInv, ExitHasOutcome
<1>5. \A u \in Tokens : u # t => att'[u] = att[u]
  BY <1>2 DEF IInv, TypeOK
<1>6. loop' \in [Workers -> {"poll", "busy", "idle", "down"}]
  BY DEF RunnerOver, IInv, TypeOK
<1> QED
  BY <1>2, <1>4, <1>5, <1>6, AttUnchanged DEF IInv, TypeOK

(* Settling one held job. *)
LEMMA JobSettled ==
  ASSUME IInv, RunStep, NEW t \in Tokens, Holds(t), NEW row \in JobRow,
         job' = [job EXCEPT ![att[t].job] = row],
         row.run = job[att[t].job].run, row.state \in {"ready", "done", "cancelled", "dead"},
         row.state = "ready" => row.attempts < MaxAttempts,
         row.state = "done" => run'[row.run].state = "COMPLETED",
         row.state \in {"dead", "cancelled"} => run'[row.run].state \in Terminal
  PROVE  job' \in [Jobs -> JobRow] /\ \A j \in Jobs : JobStep(j)
<1>1. att[t].job \in Jobs /\ job[att[t].job].state = "leased"
  BY DEF Holds
<1>2. job' \in [Jobs -> JobRow] /\ job'[att[t].job] = row
  BY <1>1 DEF IInv, TypeOK
<1>3. JobStep(att[t].job)
  BY <1>1, <1>2 DEF JobStep, Settled, IInv, JobHasRun
<1>4. \A j \in Jobs : j # att[t].job => job'[j] = job[j]
  BY DEF IInv, TypeOK
<1> QED
  BY <1>2, <1>3, <1>4, JobsUnchanged

LEMMA MarkDoneRow ==
  ASSUME IInv, NEW t \in Tokens, Holds(t), att[t].rnr = "ok", run' = run,
         job' = [job EXCEPT ![att[t].job] = Unleased(@, "done")]
  PROVE  job' \in [Jobs -> JobRow] /\ \A j \in Jobs : JobStep(j)
<1> DEFINE row == Unleased(job[att[t].job], "done")
<1>1. att[t].job \in Jobs /\ job[att[t].job] \in JobRow
  BY DEF Holds, IInv, TypeOK
<1>2. row \in JobRow /\ row.state = "done" /\ row.run = job[att[t].job].run
  BY <1>1, UnleasedRow
<1>3. run[row.run].state = "COMPLETED"
  BY <1>2 DEF IInv, SuccessIsCompleted, Succeeded
<1> HIDE DEF row
<1> QED
  BY <1>1, <1>2, <1>3, RunsUnchanged, JobSettled DEF row

LEMMA MarkDoneStep ==
  ASSUME IInv, NEW t \in Tokens, MarkDone(t) PROVE Kept
<1>1. RunStep
  BY RunsUnchanged DEF MarkDone
<1>2. job' \in [Jobs -> JobRow] /\ \A j \in Jobs : JobStep(j)
  <2>1. CASE Holds(t)
    BY <2>1, MarkDoneRow DEF MarkDone
  <2>2. CASE ~ Holds(t)
    BY <1>1, <2>2, JobsUnchanged DEF MarkDone, IInv, TypeOK
  <2> QED
    BY <2>1, <2>2
<1> QED
  BY <1>1, <1>2, RunnerOverStep, StepKeepsIInv DEF MarkDone, IInv, TypeOK

LEMMA MarkDoneThrowsStep ==
  ASSUME IInv, NEW t \in Tokens, MarkDoneThrows(t) PROVE Kept
<1> DEFINE a == [att[t] EXCEPT !.rnr = "fail"]
<1>1. RunStep
  BY RunsUnchanged DEF MarkDoneThrows
<1>2. job' \in [Jobs -> JobRow] /\ \A j \in Jobs : JobStep(j)
  <2>1. CASE job' = job
    BY <1>1, <2>1, JobsUnchanged DEF IInv, TypeOK
  <2>2. CASE job' # job
    BY <2>2, MarkDoneRow DEF MarkDoneThrows
  <2> QED
    BY <2>1, <2>2
<1>3. att[t] \in Attempt /\ a \in Attempt /\ att' = [att EXCEPT ![t] = a]
  BY DEF MarkDoneThrows, IInv, TypeOK, Attempt, Outcomes
<1>4. AttStep(t)
  BY <1>3 DEF AttStep, Live, Succeeded, MarkDoneThrows, IInv, TypeOK, Attempt, ExitHasOutcome
<1>5. \A u \in Tokens : AttStep(u)
  BY <1>3, <1>4, AttUnchanged DEF IInv, TypeOK
<1>6. att' \in [Tokens -> Attempt]
  BY <1>3 DEF IInv, TypeOK
<1> QED
  BY <1>1, <1>2, <1>5, <1>6, StepKeepsIInv DEF MarkDoneThrows, IInv, TypeOK

LEMMA DeferRetryStep ==
  ASSUME IInv, NEW t \in Tokens, DeferRetry(t) PROVE Kept
<1>1. RunStep
  BY RunsUnchanged DEF DeferRetry
<1>2. job' \in [Jobs -> JobRow] /\ \A j \in Jobs : JobStep(j)
  <2>1. CASE Holds(t)
    <3> DEFINE old == job[att[t].job]
               row == Refunded(old)
    <3>1. old \in JobRow
      BY <2>1 DEF Holds, IInv, TypeOK
    <3>2. /\ Unleased(old, "ready") \in JobRow /\ Unleased(old, "ready").attempts \in 0..MaxAttempts
          /\ Unleased(old, "ready").state = "ready" /\ Unleased(old, "ready").run = old.run
      BY <3>1, UnleasedRow DEF JobRow
    <3>3. row \in JobRow /\ row.state = "ready" /\ row.run = old.run /\ row.attempts < MaxAttempts
      BY <3>1, <3>2, MaxAttemptsPositive DEF Refunded, JobRow
    <3>4. job' = [job EXCEPT ![att[t].job] = row]
      BY <2>1 DEF DeferRetry
    <3> HIDE DEF row
    <3> QED
      BY <1>1, <2>1, <3>3, <3>4, JobSettled
  <2>2. CASE ~ Holds(t)
    BY <1>1, <2>2, JobsUnchanged DEF DeferRetry, IInv, TypeOK
  <2> QED
    BY <2>1, <2>2
<1> QED
  BY <1>1, <1>2, RunnerOverStep, StepKeepsIInv DEF DeferRetry, IInv, TypeOK

(* Job and run settle together, or neither does. *)
LEMMA TerminalSettleStep ==
  ASSUME IInv, NEW t \in Tokens, NEW s \in {"cancelled", "dead"}, NEW row,
         Holds(t) => \/ row = Cancelled(run[job[att[t].job].run], "operator_cancelled")
                     \/ row = WithState(run[job[att[t].job].run], "FAILED"),
         TerminalSettle(t, s, row), UNCHANGED <<current, dispatch>>
  PROVE  Kept
<1>1. CASE UNCHANGED <<job, run>>
  <2>1. att' \in [Tokens -> Attempt] /\ (\A u \in Tokens : AttStep(u))
        /\ loop' \in [Workers -> {"poll", "busy", "idle", "down"}]
    BY RunnerOverStep DEF TerminalSettle
  <2> QED
    BY <1>1, <2>1, RunsUnchanged, JobsUnchanged, StepKeepsIInv DEF IInv, TypeOK
<1>2. CASE ~ UNCHANGED <<job, run>>
  <2> DEFINE j == att[t].job
             r == job[j].run
  <2>1. /\ Holds(t) /\ ChecksHold(row)
        /\ job' = [job EXCEPT ![j] = Unleased(@, s)]
        /\ run' = [run EXCEPT ![r] = row]
        /\ RunnerOver(t, "poll")
    BY <1>2 DEF TerminalSettle
  <2>2. j \in Jobs /\ job[j] \in JobRow /\ r \in Runs /\ run[r] \in RunRow
    BY <2>1 DEF Holds, IInv, TypeOK, RunsTypeOK, JobHasRun
  <2>3. RowStep(run[r], row) /\ row.state \in Terminal
    BY <2>1, <2>2, RowStepWrite DEF IInv, RunsChecked, NoPartial, CancelReasons
  <2>4. RunStep /\ run'[r] = row
    BY <2>1, <2>2, <2>3, RowStepSame DEF IInv, TypeOK, RunsTypeOK, RunsChecked, NoPartial,
                                         RunStep, RowStep
  <2>5. Unleased(job[j], s) \in JobRow /\ Unleased(job[j], s).state = s
        /\ Unleased(job[j], s).run = r
    BY <2>2, UnleasedRow
  <2>6. job' \in [Jobs -> JobRow] /\ \A k \in Jobs : JobStep(k)
    BY <2>1, <2>3, <2>4, <2>5, JobSettled
  <2> QED
    BY <2>1, <2>4, <2>6, RunnerOverStep, StepKeepsIInv DEF IInv, TypeOK
<1> QED
  BY <1>1, <1>2

LEMMA SettleCancelStep ==
  ASSUME IInv, NEW t \in Tokens, SettleCancel(t) PROVE Kept
  BY TerminalSettleStep DEF SettleCancel

LEMMA SettleFailureStep ==
  ASSUME IInv, NEW t \in Tokens, SettleFailure(t) PROVE Kept
<1>1. CASE att[t].last
  BY <1>1, TerminalSettleStep DEF SettleFailure
<1>2. CASE ~ att[t].last
  <2>1. MarkFailed(t) /\ UNCHANGED <<current, dispatch>>
    BY <1>2 DEF SettleFailure
  <2>2. RunStep
    BY <2>1, RunsUnchanged DEF MarkFailed
  <2>3. job' \in [Jobs -> JobRow] /\ \A j \in Jobs : JobStep(j)
    <3>1. CASE Holds(t)
      <4> DEFINE old == job[att[t].job]
      <4>1. old \in JobRow /\ ~ (old.attempts >= MaxAttempts)
        BY <1>2, <3>1 DEF IInv, TypeOK, LastIsExhausted, Holds
      <4>2. job' = [job EXCEPT ![att[t].job] = Unleased(old, "ready")]
        BY <2>1, <3>1, <4>1 DEF MarkFailed
      <4>3. old.attempts < MaxAttempts
        BY <4>1, MaxAttemptsPositive DEF JobRow
      <4>4. Unleased(old, "ready") \in JobRow /\ Unleased(old, "ready").state = "ready"
            /\ Unleased(old, "ready").run = old.run /\ Unleased(old, "ready").attempts = old.attempts
        BY <4>1, UnleasedRow
      <4> QED
        BY <2>2, <3>1, <4>2, <4>3, <4>4, JobSettled
    <3>2. CASE ~ Holds(t)
      BY <2>1, <2>2, <3>2, JobsUnchanged DEF MarkFailed, IInv, TypeOK
    <3> QED
      BY <3>1, <3>2
  <2> QED
    BY <2>1, <2>2, <2>3, RunnerOverStep, StepKeepsIInv DEF MarkFailed, IInv, TypeOK
<1> QED
  BY <1>1, <1>2

LEMMA SettleThrowsStep ==
  ASSUME IInv, NEW t \in Tokens, SettleThrows(t) PROVE Kept
  BY RunsUnchanged, JobsUnchanged, RunnerOverStep, StepKeepsIInv DEF SettleThrows, IInv, TypeOK

-----------------------------------------------------------------------------
LEMMA PollIdleStep ==
  ASSUME IInv, NEW w \in Workers, PollIdle(w) PROVE Kept
  BY RunsUnchanged, JobsUnchanged, AttUnchanged, StepKeepsIInv DEF PollIdle, IInv, TypeOK

LEMMA ReapStuckRunsStep ==
  ASSUME IInv, NEW w \in Workers, ReapStuckRuns(w) PROVE Kept
<1> DEFINE stuck == {j \in Jobs : Stuck(j)}
           runs  == {job[j].run : j \in stuck}
           rows  == [r \in Runs |-> IF r \in runs THEN Cancelled(run[r], "timeout") ELSE run[r]]
<1>1. loop' \in [Workers -> {"poll", "busy", "idle", "down"}] /\ UNCHANGED <<current, dispatch, att>>
  BY DEF ReapStuckRuns, IInv, TypeOK
<1>2. CASE UNCHANGED <<job, run>>
  BY <1>1, <1>2, RunsUnchanged, JobsUnchanged, AttUnchanged, StepKeepsIInv DEF IInv, TypeOK
<1>3. CASE ~ UNCHANGED <<job, run>>
  <2>1. /\ \A r \in runs : ChecksHold(rows[r])
        /\ job' = [j \in Jobs |-> IF j \in stuck THEN Unleased(job[j], "dead") ELSE job[j]]
        /\ run' = rows
    BY <1>3 DEF ReapStuckRuns
  <2>2. ASSUME NEW r \in Runs
        PROVE  RowStep(run[r], run'[r]) /\ (r \in runs => run'[r].state \in Terminal)
    <3>0. run[r] \in RunRow /\ ChecksHold(run[r]) /\ run[r].state # "PARTIAL"
      BY DEF IInv, TypeOK, RunsTypeOK, RunsChecked, NoPartial
    <3>1. CASE r \in runs
      <4>1. run'[r] = Cancelled(run[r], "timeout") /\ ChecksHold(run'[r])
        BY <2>1, <3>1
      <4> QED
        BY <3>0, <4>1, RowStepWrite DEF CancelReasons
    <3>2. CASE r \notin runs
      BY <2>1, <3>0, <3>2, RowStepSame
    <3> QED
      BY <3>1, <3>2
  <2>3. RunStep
    BY <2>1, <2>2 DEF RunStep, RowStep
  <2>4. ASSUME NEW j \in Jobs PROVE job'[j] \in JobRow /\ JobStep(j)
    <3>0. job[j] \in JobRow
      BY DEF IInv, TypeOK
    <3>1. CASE j \in stuck
      <4>1. job'[j] = Unleased(job[j], "dead") /\ job[j].run \in runs /\ job[j].state = "leased"
        BY <2>1, <3>1 DEF Stuck
      <4>2. job[j].run \in Runs
        BY <4>1 DEF IInv, JobHasRun
      <4>3. job'[j] \in JobRow /\ job'[j].state = "dead" /\ job'[j].run = job[j].run
        BY <3>0, <4>1, UnleasedRow
      <4>4. run'[job[j].run].state \in Terminal
        BY <2>2, <4>1, <4>2
      <4> QED
        BY <4>1, <4>2, <4>3, <4>4 DEF JobStep, Settled
    <3>2. CASE j \notin stuck
      BY <2>1, <2>3, <3>0, <3>2, JobsUnchanged
    <3> QED
      BY <3>1, <3>2
  <2>5. job' \in [Jobs -> JobRow]
    BY <2>1, <2>4
  <2> QED
    BY <1>1, <2>3, <2>4, <2>5, AttUnchanged, StepKeepsIInv DEF IInv, TypeOK
<1> QED
  BY <1>2, <1>3

(* A process dies, or a pod is replaced. *)
LEMMA WorkerDiesStep ==
  ASSUME IInv, NEW w \in Workers, WorkerCrashes(w) \/ WorkerRestarts(w) PROVE Kept
<1>1. att' = KillAttempts(w) /\ UNCHANGED <<run, current, dispatch, job>>
      /\ loop' \in [Workers -> {"poll", "busy", "idle", "down"}]
  BY DEF WorkerCrashes, WorkerRestarts, IInv, TypeOK
<1>2. \A t \in Tokens : att'[t] = NoAttempt \/ att'[t] = att[t]
  BY <1>1 DEF KillAttempts
<1>3. att' \in [Tokens -> Attempt]
  BY <1>1, <1>2, NoAttemptType DEF KillAttempts, IInv, TypeOK
<1>4. \A t \in Tokens : AttStep(t)
  BY <1>2, AttUnchanged DEF AttStep
<1> QED
  BY <1>1, <1>3, <1>4, RunsUnchanged, JobsUnchanged, StepKeepsIInv DEF IInv, TypeOK

-----------------------------------------------------------------------------
(* A claim: the fresh token makes the claimed row the new attempt's and      *)
(* nobody else's.                                                            *)
LEMMA ClaimStep ==
  ASSUME IInv, NEW w \in Workers, NEW j \in Jobs, NEW t \in Tokens, Claim(w, j, t)
  PROVE  Kept
<1> DEFINE new == LeasedTo(job[j], w, t)
           a == NewAttempt(j, w, job[j].attempts + 1 >= MaxAttempts)
<1>1. job[j] \in JobRow /\ job[j].attempts < MaxAttempts /\ job[j].state \in {"ready", "leased"}
  BY DEF Claim, Claimable, IInv, TypeOK, AttemptBudget
<1>2. /\ new \in JobRow /\ new.state = "leased" /\ new.owner = w /\ new.token = t
      /\ new.attempts = job[j].attempts + 1 /\ new.run = job[j].run
  <2>1. job[j].attempts + 1 \in 0..MaxAttempts
    BY <1>1, MaxAttemptsPositive DEF JobRow
  <2> QED
    BY <1>1, <2>1 DEF JobRow, LeasedTo
<1>3. a \in Attempt
  <2>1. (job[j].attempts + 1 >= MaxAttempts) \in BOOLEAN
    OBVIOUS
  <2> QED
    BY <2>1 DEF Attempt, NewAttempt, Outcomes
<1>4. a.job = j /\ a.owner = w /\ a.hnd = "run" /\ a.rnr = "wait"
      /\ (a.last <=> job[j].attempts + 1 >= MaxAttempts)
  BY DEF NewAttempt
<1>5. job' = [job EXCEPT ![j] = new] /\ att' = [att EXCEPT ![t] = a]
      /\ UNCHANGED <<run, current, dispatch>>
      /\ loop' \in [Workers -> {"poll", "busy", "idle", "down"}]
  BY DEF Claim, IInv, TypeOK
<1> HIDE DEF new, a
<1>6. job' \in [Jobs -> JobRow] /\ att' \in [Tokens -> Attempt] /\ job'[j] = new /\ att'[t] = a
      /\ (\A k \in Jobs : k # j => job'[k] = job[k]) /\ \A u \in Tokens : u # t => att'[u] = att[u]
  BY <1>2, <1>3, <1>5 DEF IInv, TypeOK
<1>7. TypeOK' /\ RunsChecked' /\ NoPartial' /\ ActiveRunIsCurrent'
  BY <1>5, <1>6 DEF IInv, TypeOK, RunsTypeOK, RunsChecked, NoPartial, ActiveRunIsCurrent, IsCurrent
<1>8. JobHasRun' /\ AttemptBudget' /\ DoneImpliesCompleted' /\ NoSplitBrain'
  BY <1>1, <1>2, <1>5, <1>6 DEF IInv, JobHasRun, AttemptBudget, DoneImpliesCompleted, NoSplitBrain
<1>9. AttemptHasJob' /\ ExitHasOutcome'
  BY <1>2, <1>4, <1>6 DEF IInv, AttemptHasJob, ExitHasOutcome, Live
<1>10. ASSUME NEW u \in Tokens, Holds(u)', u # t
       PROVE  Holds(u) /\ att'[u] = att[u] /\ job'[att[u].job] = job[att[u].job]
  BY <1>2, <1>6, <1>10 DEF Holds
<1>11. LastIsExhausted'
  BY <1>2, <1>4, <1>6, <1>10 DEF IInv, LastIsExhausted
<1>12. SuccessIsCompleted'
  BY <1>4, <1>5, <1>6, <1>10 DEF IInv, SuccessIsCompleted, Succeeded
<1>13. IInv'
  BY <1>7, <1>8, <1>9, <1>11, <1>12 DEF IInv
<1> QED
  BY <1>1, <1>5, <1>6, <1>13 DEF Kept, Settled

(* A push: the new run becomes the review's only active run and the pointer   *)
(* moves to it in the same transaction.                                       *)
LEMMA PushStep ==
  ASSUME IInv, NEW rv \in Reviews, NEW r \in Runs, AllocateRun(rv, r), UNCHANGED jobVars
  PROVE  Kept
<1> DEFINE row(q) == [Cancelled(run[q], "superseded") EXCEPT !.by = r]
<1>1. PendingRow(rv).state = "PENDING" /\ PendingRow(rv).review = rv
  BY DEF PendingRow
<1>2. PendingRow(rv) \in RunRow /\ ChecksHold(PendingRow(rv))
  BY NoneIsNoRow DEF PendingRow, RunRow, Active, Terminal, ChecksHold, Stamped, CancelReasons
<1>3. ASSUME NEW q \in ActiveRunsOf(rv)
      PROVE  row(q) \in RunRow /\ ChecksHold(row(q)) /\ row(q).state = "CANCELLED"
  <2>1. run[q] \in RunRow /\ run[q].state \in Active /\ ChecksHold(run[q])
    BY DEF ActiveRunsOf, IInv, TypeOK, RunsTypeOK, RunsChecked
  <2>2. run[q].stamps = {}
    BY <2>1 DEF ChecksHold, RunRow, Stamped, Active
  <2> QED
    BY <2>1, <2>2, NoneIsNoRow DEF Cancelled, WithState, RunRow, ChecksHold, Stamped, Terminal, CancelReasons
<1>4. ASSUME NEW q \in Runs
      PROVE  \/ q = r /\ run'[q] = PendingRow(rv)
             \/ q # r /\ q \in ActiveRunsOf(rv) /\ run'[q] = row(q)
             \/ q # r /\ q \notin ActiveRunsOf(rv) /\ run'[q] = run[q]
  BY DEF AllocateRun
<1> HIDE DEF row
<1>5. ASSUME NEW q \in Runs
      PROVE  run'[q] \in RunRow /\ ChecksHold(run'[q]) /\ run'[q].state # "PARTIAL"
  <2>1. run[q] \in RunRow /\ ChecksHold(run[q]) /\ run[q].state # "PARTIAL"
    BY DEF IInv, TypeOK, RunsTypeOK, RunsChecked, NoPartial
  <2> QED
    BY <1>1, <1>2, <1>3, <1>4, <2>1
<1>6. run' \in [Runs -> RunRow]
  BY <1>5 DEF AllocateRun
<1>7. current' = [current EXCEPT ![rv] = r] /\ current' \in [Reviews -> Runs \cup {None}]
  BY DEF AllocateRun, IInv, TypeOK, RunsTypeOK
<1>8. TypeOK' /\ RunsChecked' /\ NoPartial'
  BY <1>5, <1>6, <1>7 DEF IInv, TypeOK, RunsTypeOK, RunsChecked, NoPartial, jobVars
<1>9. ActiveRunIsCurrent'
  <2> SUFFICES ASSUME NEW q \in Runs, run'[q].state \in Active PROVE IsCurrent(q)'
    BY DEF ActiveRunIsCurrent
  <2>1. CASE q = r
    BY <1>1, <1>4, <1>7, <2>1 DEF IsCurrent, IInv, TypeOK, RunsTypeOK
  <2>2. CASE q # r
    <3>1. run'[q] = run[q] /\ q \notin ActiveRunsOf(rv)
      BY <1>3, <1>4, <2>2 DEF Active
    <3>2. IsCurrent(q) /\ run[q].review # rv
      BY <3>1 DEF ActiveRunsOf, IInv, ActiveRunIsCurrent
    <3> QED
      BY <1>7, <3>1, <3>2 DEF IsCurrent, IInv, TypeOK, RunsTypeOK
  <2> QED
    BY <2>1, <2>2
<1>10. \A q \in Runs : run[q].state \in Terminal => run'[q].state = run[q].state
  <2>1. run[r].state = "absent"
    BY DEF AllocateRun
  <2> QED
    BY <1>4, <2>1 DEF ActiveRunsOf, Active, Terminal
<1>11. JobHasRun' /\ AttemptBudget' /\ AttemptHasJob' /\ ExitHasOutcome' /\ LastIsExhausted'
  BY DEF jobVars, IInv, JobHasRun, AttemptBudget, AttemptHasJob, ExitHasOutcome, LastIsExhausted, Holds
<1>12. DoneImpliesCompleted' /\ NoSplitBrain' /\ SuccessIsCompleted'
  BY <1>10 DEF jobVars, IInv, JobHasRun, DoneImpliesCompleted, NoSplitBrain, SuccessIsCompleted, Holds, Terminal
<1> QED
  BY <1>8, <1>9, <1>10, <1>11, <1>12 DEF Kept, IInv, jobVars

LEMMA StutterStep == IInv /\ UNCHANGED vars => Kept
  BY RunsUnchanged, JobsUnchanged, AttUnchanged, StepKeepsIInv DEF vars, IInv, TypeOK

-----------------------------------------------------------------------------
(* Every step keeps the invariant and leaves terminal rows alone. *)
LEMMA NextKept == IInv /\ [Next]_vars => Kept
<1> SUFFICES ASSUME IInv, [Next]_vars PROVE Kept
  OBVIOUS
<1>1. CASE UNCHANGED vars
  BY <1>1, StutterStep
<1>2. CASE PushNext
  BY <1>2, PushStep DEF PushNext
<1>3. CASE DispatchNext
  BY <1>3, GuardDispatchStep, EnqueueStep, DispatchLostStep, ReviewRunReaperStep DEF DispatchNext
<1>4. CASE AttemptNext
  <2> SUFFICES ASSUME NEW t \in Tokens,
                      \/ Heartbeat(t) \/ HeartbeatAborts(t) \/ RuntimeElapses(t) \/ HardTimeout(t)
                      \/ HandlerNext(t) \/ SettleNext(t)
               PROVE  Kept
    BY <1>4 DEF AttemptNext
  <2>1. CASE Heartbeat(t) \/ HeartbeatAborts(t) \/ RuntimeElapses(t) \/ HardTimeout(t)
    BY <2>1, HeartbeatStep, HeartbeatAbortsStep, RuntimeElapsesStep, HardTimeoutStep
  <2>2. CASE HandlerNext(t)
    BY <2>2, HandlerFinalizesStep, HandlerThrowsStep, HandlerYieldsStep, HandlerReturnsStep
    DEF HandlerNext
  <2>3. CASE SettleNext(t)
    BY <2>3, MarkDoneStep, SettleCancelStep, DeferRetryStep, SettleFailureStep,
       MarkDoneThrowsStep, SettleThrowsStep DEF SettleNext
  <2> QED
    BY <2>1, <2>2, <2>3
<1>5. CASE WorkerNext
  BY <1>5, ClaimStep, PollIdleStep, ReapStuckRunsStep, WorkerDiesStep DEF WorkerNext
<1>6. CASE \E j \in Jobs : TimeLapses(j)
  BY <1>6, TimeLapsesStep
<1> QED
  BY <1>1, <1>2, <1>3, <1>4, <1>5, <1>6 DEF Next

LEMMA Invariance == Spec => []IInv
<1>1. IInv /\ [Next]_vars => IInv'
  BY NextKept DEF Kept
<1> QED
  BY InitIInv, <1>1, PTL DEF Spec

(* The rows, attempts and loops always have their declared shape; in          *)
(* particular no claim ever charges more than max_attempts.                   *)
THEOREM TypeCorrect == Spec => []TypeOK
<1>1. IInv => TypeOK
  BY DEF IInv
<1> QED
  BY <1>1, Invariance, PTL

(* Whatever settles, yields, crashes or is stolen, a job is done only over a  *)
(* COMPLETED run.                                                             *)
THEOREM DoneIsCompleted == Spec => []DoneImpliesCompleted
<1>1. IInv => DoneImpliesCompleted
  BY DEF IInv
<1> QED
  BY <1>1, Invariance, PTL

(* A dead or cancelled job never strands a live run. *)
THEOREM NoStrandedRun == Spec => []NoSplitBrain
<1>1. IInv => NoSplitBrain
  BY DEF IInv
<1> QED
  BY <1>1, Invariance, PTL

(* A ready job always has an attempt left to spend. *)
THEOREM BudgetRespected == Spec => []AttemptBudget
<1>1. IInv => AttemptBudget
  BY DEF IInv
<1> QED
  BY <1>1, Invariance, PTL

(* A review's only active run is the one it points at. *)
THEOREM OneActiveRun == Spec => []ActiveRunIsCurrent
<1>1. IInv => ActiveRunIsCurrent
  BY DEF IInv
<1> QED
  BY <1>1, Invariance, PTL

(* The database CHECKs hold of every stored run. *)
THEOREM ChecksAlwaysHold == Spec => []RunsChecked
<1>1. IInv => RunsChecked
  BY DEF IInv
<1> QED
  BY <1>1, Invariance, PTL

(* A terminal run is never rewritten, although settles and reapers write runs *)
(* without a guard: the CHECK constraints refuse what would change it.        *)
THEOREM TerminalRunsStay == Spec => TerminalRunIsFinal
<1>1. IInv /\ [Next]_vars
        => [\A r \in Runs : run[r].state \in Terminal => run'[r].state = run[r].state]_vars
  BY NextKept DEF Kept
<1> QED
  BY <1>1, Invariance, PTL DEF Spec, TerminalRunIsFinal

(* A settled job is never reopened or settled again. *)
THEOREM SettledJobsStay == Spec => TerminalJobIsFinal
<1>1. IInv /\ [Next]_vars
        => [\A j \in Jobs : job[j].state \in {"done", "dead", "cancelled"} => job'[j] = job[j]]_vars
  BY NextKept DEF Kept, Settled
<1> QED
  BY <1>1, Invariance, PTL DEF Spec, TerminalJobIsFinal

(* The whole of it, as the runs check it on small instances: what claims,     *)
(* settles, reaps and supersedes do never leaves jobs and runs contradicting  *)
(* each other.                                                                *)
THEOREM JobsStaySound == Spec => []JobsSound
<1>1. IInv => JobsSound
  BY DEF IInv, JobsSound
<1> QED
  BY <1>1, Invariance, PTL
-----------------------------------------------------------------------------
(* What a step may do to the lease of a job, and how a job becomes active:    *)
(* only by an enqueue that found no other active job of its run.              *)
HolderEnds(j) ==
  job[j].state = "leased" /\ ~ job[j].lapsed /\ job'[j].token # job[j].token
    => att[job[j].token].job = j /\ att[job[j].token].rnr \in Outcomes

ActivatedAlone(j) ==
  job'[j].state \in {"ready", "leased"} =>
     \/ IsActive(j) /\ job'[j].run = job[j].run
     \/ /\ \A k \in Jobs : IsActive(k) => job[k].run # job'[j].run
        /\ \A k \in Jobs : k # j => job'[k] = job[k]

LeaseStep == \A j \in Jobs : HolderEnds(j) /\ ActivatedAlone(j)

LEMMA LeaseStepSame == job' = job => LeaseStep
  BY DEF LeaseStep, HolderEnds, ActivatedAlone, IsActive

(* A settle changes the row its attempt holds, and no other. *)
LEMMA LeaseStepSettle ==
  ASSUME IInv, NEW t \in Tokens, Holds(t), att[t].rnr \in Outcomes,
         NEW row \in JobRow, row.run = job[att[t].job].run,
         job' = [job EXCEPT ![att[t].job] = row]
  PROVE  LeaseStep
<1>1. /\ att[t].job \in Jobs /\ job[att[t].job].state = "leased" /\ job[att[t].job].token = t
      /\ job'[att[t].job] = row
      /\ \A k \in Jobs : k # att[t].job => job'[k] = job[k]
  BY DEF Holds, IInv, TypeOK
<1> QED
  BY <1>1 DEF LeaseStep, HolderEnds, ActivatedAlone, IsActive

LEMMA LeaseStepTerminalSettle ==
  ASSUME IInv, NEW t \in Tokens, att[t].rnr \in Outcomes, NEW s \in {"cancelled", "dead"}, NEW row,
         TerminalSettle(t, s, row)
  PROVE  LeaseStep
<1>1. CASE job' = job
  BY <1>1, LeaseStepSame
<1>2. CASE job' # job
  <2>1. Holds(t) /\ job' = [job EXCEPT ![att[t].job] = Unleased(job[att[t].job], s)]
    BY <1>2 DEF TerminalSettle
  <2>2. job[att[t].job] \in JobRow
    BY <2>1 DEF Holds, IInv, TypeOK
  <2> QED
    BY <2>1, <2>2, UnleasedRow, LeaseStepSettle
<1> QED
  BY <1>1, <1>2

LEMMA LeaseStepSettleNext ==
  ASSUME IInv, NEW t \in Tokens, SettleNext(t) PROVE LeaseStep
<1>1. CASE job' = job
  BY <1>1, LeaseStepSame
<1>2. CASE SettleCancel(t)
  BY <1>2, LeaseStepTerminalSettle DEF SettleCancel, Outcomes
<1>3. CASE SettleFailure(t) /\ att[t].last
  BY <1>3, LeaseStepTerminalSettle DEF SettleFailure, Outcomes
<1>4. CASE job' # job /\ ~ SettleCancel(t) /\ ~ (SettleFailure(t) /\ att[t].last)
  <2> DEFINE old == job[att[t].job]
  <2>1. Holds(t) /\ att[t].rnr \in Outcomes
    BY <1>4 DEF SettleNext, MarkDone, DeferRetry, SettleFailure, MarkFailed, MarkDoneThrows, SettleThrows, Outcomes
  <2>2. old \in JobRow
    BY <2>1 DEF Holds, IInv, TypeOK
  <2>3. \/ \E s \in {"ready", "done", "dead"} : job' = [job EXCEPT ![att[t].job] = Unleased(old, s)]
        \/ job' = [job EXCEPT ![att[t].job] = Refunded(old)]
    BY <1>4, <2>1 DEF SettleNext, MarkDone, DeferRetry, SettleFailure, MarkFailed, MarkDoneThrows, SettleThrows
  <2>4. Refunded(old) \in JobRow /\ Refunded(old).run = old.run
    <3>1. /\ Unleased(old, "ready") \in JobRow /\ Unleased(old, "ready").run = old.run
          /\ old.attempts \in 0..MaxAttempts
      BY <2>2, UnleasedRow DEF JobRow
    <3> QED
      BY <3>1, MaxAttemptsPositive DEF Refunded, JobRow
  <2>5. \A s \in {"ready", "done", "dead"} : Unleased(old, s) \in JobRow /\ Unleased(old, s).run = old.run
    BY <2>2, UnleasedRow
  <2> HIDE DEF old
  <2> QED
    BY <2>1, <2>3, <2>4, <2>5, LeaseStepSettle DEF old
<1> QED
  BY <1>1, <1>2, <1>3, <1>4

LEMMA LeaseStepLapse ==
  ASSUME IInv, NEW j \in Jobs, NEW b \in BOOLEAN, job' = [job EXCEPT ![j].lapsed = b]
  PROVE  LeaseStep
<1>1. \A k \in Jobs : /\ job'[k].state = job[k].state /\ job'[k].run = job[k].run
                      /\ job'[k].token = job[k].token
  BY DEF IInv, TypeOK, JobRow
<1> QED
  BY <1>1 DEF LeaseStep, HolderEnds, ActivatedAlone, IsActive

LEMMA LeaseStepNext == IInv /\ [Next]_vars => LeaseStep
<1> SUFFICES ASSUME IInv, [Next]_vars PROVE LeaseStep
  OBVIOUS
<1>1. CASE job' = job
  BY <1>1, LeaseStepSame
<1>2. CASE \E r \in Runs, j \in Jobs : Enqueue(r, j)
  <2> PICK r \in Runs, j \in Jobs : Enqueue(r, j)
    BY <1>2
  <2>1. CASE job' = job
    BY <2>1, LeaseStepSame
  <2>2. CASE job' # job
    <3>1. /\ job[j].state = "absent" /\ job'[j].run = r
          /\ \A k \in Jobs : k # j => job'[k] = job[k]
          /\ \A k \in Jobs : IsActive(k) => job[k].run # r
      BY <2>2 DEF Enqueue, ReadyJob, IInv, TypeOK
    <3> QED
      BY <3>1 DEF LeaseStep, HolderEnds, ActivatedAlone, IsActive
  <2> QED
    BY <2>1, <2>2
<1>3. CASE \E t \in Tokens : SettleNext(t)
  BY <1>3, LeaseStepSettleNext
<1>4. CASE \E t \in Tokens : Heartbeat(t)
  BY <1>4, LeaseStepLapse DEF Heartbeat, Holds
<1>5. CASE \E j \in Jobs : TimeLapses(j)
  BY <1>5, LeaseStepLapse DEF TimeLapses
<1>6. CASE \E w \in Workers, j \in Jobs, t \in Tokens : Claim(w, j, t)
  <2> PICK w \in Workers, j \in Jobs, t \in Tokens : Claim(w, j, t)
    BY <1>6
  <2>1. /\ job'[j].run = job[j].run /\ IsActive(j) /\ (job[j].state = "leased" => job[j].lapsed)
        /\ \A k \in Jobs : k # j => job'[k] = job[k]
    BY DEF Claim, Claimable, LeasedTo, IsActive, IInv, TypeOK
  <2> QED
    BY <2>1 DEF LeaseStep, HolderEnds, ActivatedAlone, IsActive
<1>7. CASE \E w \in Workers : ReapStuckRuns(w)
  <2>1. \A j \in Jobs : job'[j] = job[j] \/ (Stuck(j) /\ job'[j] = Unleased(job[j], "dead"))
    BY <1>7 DEF ReapStuckRuns
  <2>2. \A j \in Jobs : Unleased(job[j], "dead").state = "dead"
    BY UnleasedRow DEF IInv, TypeOK
  <2> QED
    BY <2>1, <2>2 DEF LeaseStep, HolderEnds, ActivatedAlone, IsActive, Stuck
<1>8. CASE Next
  <2>1. CASE PushNext
    BY <2>1, <1>1 DEF PushNext, jobVars
  <2>2. CASE DispatchNext
    BY <2>2, <1>1, <1>2 DEF DispatchNext, GuardDispatch, DispatchLost, ReviewRunReaper
  <2>3. CASE AttemptNext
    BY <2>3, <1>1, <1>3, <1>4 DEF AttemptNext, HandlerNext, HeartbeatAborts, RuntimeElapses, HardTimeout,
       HandlerFinalizes, HandlerThrows, HandlerYields, HandlerReturns
  <2>4. CASE WorkerNext
    BY <2>4, <1>1, <1>6, <1>7 DEF WorkerNext, PollIdle, WorkerCrashes, WorkerRestarts
  <2> QED
    BY <1>8, <1>5, <2>1, <2>2, <2>3, <2>4 DEF Next
<1> QED
  BY <1>1, <1>8 DEF vars

(* While a lease has not lapsed, nobody but the attempt that holds it can     *)
(* end it: no stale attempt, no other worker's claim and no reaper.           *)
THEOREM LeaseEndedByHolder == Spec => OnlyHolderEndsLiveLease
<1>1. IInv /\ [Next]_vars
        => [\A j \in Jobs :
              job[j].state = "leased" /\ ~ job[j].lapsed /\ job'[j].token # job[j].token
                => att[job[j].token].job = j /\ att[job[j].token].rnr \in Outcomes]_vars
  BY LeaseStepNext DEF LeaseStep, HolderEnds
<1> QED
  BY <1>1, Invariance, PTL DEF Spec, OnlyHolderEndsLiveLease

(* What has ended stays ended, and a live lease ends by its holder's hand:    *)
(* the fences and CHECKs are enough for every number of jobs and workers.     *)
THEOREM EndingsStayEnded == Spec => EndingsStay
  BY TerminalRunsStay, SettledJobsStay, LeaseEndedByHolder, PTL DEF EndingsStay

(* However often the outbox redelivers, a run never has two active jobs: the  *)
(* partial unique index is checked by the insert itself.                      *)
THEOREM OneActiveJob == Spec => []OneActiveJobPerRun
<1>1. Init => OneActiveJobPerRun
  BY DEF Init, OneActiveJobPerRun, IsActive, NoJob
<1>2. IInv /\ OneActiveJobPerRun /\ [Next]_vars => OneActiveJobPerRun'
  <2> SUFFICES ASSUME IInv, OneActiveJobPerRun, [Next]_vars, NEW j \in Jobs, NEW k \in Jobs,
                      IsActive(j)', IsActive(k)', job'[j].run = job'[k].run
               PROVE  j = k
    BY DEF OneActiveJobPerRun
  <2>1. ActivatedAlone(j) /\ ActivatedAlone(k)
    BY LeaseStepNext DEF LeaseStep
  <2> QED
    BY <2>1 DEF ActivatedAlone, OneActiveJobPerRun, IsActive
<1> QED
  BY <1>1, <1>2, Invariance, PTL DEF Spec

-----------------------------------------------------------------------------
(* Refinement. The mapping is the identity on the platform's variables.      *)

LEMMA ShellStepImplements ==
  ASSUME NEW t \in Tokens, ShellStep(t)
  PROVE  [Next]_vars
<1>1. HandlerNext(t) => Next
  BY DEF Next, AttemptNext
<1>2. (\E o \in {"cancel", "throttle", "fail"} : HandlerThrows(t, o)) \/ HandlerYields(t)
        \/ HandlerFinalizes(t) \/ HandlerReturns(t) => Next
  BY <1>1 DEF HandlerNext
<1>3. CASE ReuseMutex(t) \/ PersistMutex(t) \/ PersistRefused(t) \/ RenewMutex(t) \/ RenewAbandons(t)
  BY <1>3 DEF ReuseMutex, PersistMutex, PersistRefused, RenewMutex, RenewAbandons
<1>4. CASE \E m \in Mutexes : AcquireMutex(t, m)
  BY <1>4 DEF AcquireMutex
<1>5. CASE AcquireBusy(t) \/ DropMutex(t) \/ MutexStepThrows(t)
  BY <1>5, <1>2 DEF AcquireBusy, DropMutex, MutexStepThrows
<1>6. CASE BodyCancels(t) \/ BodyThrows(t) \/ BodyFinalizes(t)
  BY <1>6, <1>2 DEF BodyCancels, BodyThrows, BodyFinalizes
<1>7. CASE CleanupReleases(t) \/ CleanupFails(t) \/ ShellReturns(t)
  BY <1>7, <1>2 DEF CleanupReleases, CleanupFails, ShellReturns
<1> QED
  BY <1>3, <1>4, <1>5, <1>6, <1>7 DEF ShellStep

LEMMA PlatformStepImplements == PlatformStep => Next
  BY DEF PlatformStep, Next, DispatchNext, AttemptNext, WorkerNext

LEMMA ShellNextImplements == [ShellNext]_allVars => [Next]_vars
<1> SUFFICES ASSUME [ShellNext]_allVars PROVE [Next]_vars
  OBVIOUS
<1>1. CASE UNCHANGED allVars
  BY <1>1 DEF allVars
<1>2. CASE \E t \in Tokens : ShellStep(t)
  BY <1>2, ShellStepImplements
<1>3. CASE \E m \in Mutexes : MutexLapses(m) \/ MutexJanitor(m)
  BY <1>3 DEF MutexLapses, MutexJanitor
<1>4. CASE \E w \in Workers, j \in Jobs, t \in Tokens : ShellClaim(w, j, t)
  BY <1>4 DEF ShellClaim, Next, WorkerNext
<1>5. CASE \E w \in Workers : ShellReapStuckRuns(w) \/ ProcessEnds(w)
  BY <1>5 DEF ShellReapStuckRuns, ProcessEnds, Next, WorkerNext
<1>6. CASE \E r \in Runs : ShellRunReaper(r)
  BY <1>6 DEF ShellRunReaper, Next, DispatchNext
<1>7. CASE PlatformStep
  BY <1>7, PlatformStepImplements
<1> QED
  BY <1>1, <1>2, <1>3, <1>4, <1>5, <1>6, <1>7 DEF ShellNext

(* The shell, the mutex, its renewals and its janitor implement the job       *)
(* platform's specification: the initial states are the platform's and every  *)
(* step is one of its steps or leaves it alone.                               *)
THEOREM ShellRefinesJobs == ShellSpec => ShellImplementsJobs
<1>1. ShellInit => Init
  BY DEF ShellInit
<1>2. [ShellNext]_allVars => [Next]_vars
  BY ShellNextImplements
<1> QED
  BY <1>1, <1>2, PTL DEF ShellSpec, ShellImplementsJobs, Spec

-----------------------------------------------------------------------------
(* What no step of the platform does to the rows the mutex refers to: a run   *)
(* keeps its review, a job its run, an attempt its job, and only a claim      *)
(* hands a lease to another token.                                            *)

Existing == {r \in Runs : run[r].state # "absent"}

RunFrame == \A r \in Existing : run'[r].state # "absent" /\ run'[r].review = run[r].review

SameLease(old, new) == old.state = "leased" /\ new.owner = old.owner /\ new.token = old.token

JobFrame ==
  \A j \in Jobs :
     /\ job[j].state # "absent" => job'[j].state # "absent" /\ job'[j].run = job[j].run
     /\ job'[j].state # "absent" => job[j].state # "absent" \/ job'[j].run \in dispatch
     /\ job'[j].state = "leased" => SameLease(job[j], job'[j]) \/ FreshToken(job'[j].token)

AttFrame ==
  \A t \in Tokens :
     att[t].hnd # "gone" /\ att'[t].hnd # "gone"
       => att'[t].job = att[t].job /\ att'[t].owner = att[t].owner

LEMMA RowFrame ==
  ASSUME NEW row \in RunRow
  PROVE  /\ \A s \in Active \cup Terminal :
              WithState(row, s).state = s /\ WithState(row, s).review = row.review
         /\ \A why \in CancelReasons :
              Cancelled(row, why).state = "CANCELLED" /\ Cancelled(row, why).review = row.review
  BY DEF WithState, Cancelled, RunRow

LEMMA TransitionFrame ==
  ASSUME NEW row \in RunRow, NEW from, NEW to \in Active \cup Terminal, row.state # "absent"
  PROVE  /\ Transitioned(row, from, to).state # "absent"
         /\ Transitioned(row, from, to).review = row.review
<1>1. CASE Transitioned(row, from, to) = row
  BY <1>1
<1>2. CASE Transitioned(row, from, to) = WithState(row, to)
  BY <1>2, RowFrame DEF Active, Terminal
<1> QED
  BY <1>1, <1>2 DEF Transitioned

LEMMA TerminalSettleFrame ==
  ASSUME IInv, NEW t \in Tokens, NEW s, NEW row,
         TerminalSettle(t, s, row),
         Holds(t) => /\ row.state # "absent"
                     /\ row.review = run[job[att[t].job].run].review
  PROVE  RunFrame
<1>1. CASE run' = run
  BY <1>1 DEF RunFrame, Existing
<1>2. CASE Holds(t) /\ run' = [run EXCEPT ![job[att[t].job].run] = row]
  <2>1. job[att[t].job].run \in Runs
    BY <1>2 DEF Holds, IInv, JobHasRun
  <2> QED
    BY <1>2, <2>1 DEF RunFrame, Existing, IInv, TypeOK, RunsTypeOK
<1> QED
  BY <1>1, <1>2 DEF TerminalSettle

LEMMA SettleFrame ==
  ASSUME IInv, NEW t \in Tokens, SettleNext(t)
  PROVE  RunFrame
<1>1. Holds(t) => run[job[att[t].job].run] \in RunRow
  BY DEF Holds, IInv, JobHasRun, TypeOK, RunsTypeOK
<1>2. CASE SettleCancel(t)
  <2>1. Holds(t) => LET row == Cancelled(run[job[att[t].job].run], "operator_cancelled")
                    IN row.state # "absent" /\ row.review = run[job[att[t].job].run].review
    BY <1>1, RowFrame DEF CancelReasons
  <2> QED
    BY <1>2, <2>1, TerminalSettleFrame DEF SettleCancel
<1>3. CASE SettleFailure(t)
  <2>1. Holds(t) => LET row == WithState(run[job[att[t].job].run], "FAILED")
                    IN row.state # "absent" /\ row.review = run[job[att[t].job].run].review
    BY <1>1, RowFrame DEF Terminal
  <2>2. CASE run' = run
    BY <2>2 DEF RunFrame, Existing
  <2> QED
    BY <1>3, <2>1, <2>2, TerminalSettleFrame DEF SettleFailure, MarkFailed
<1>4. CASE run' = run
  BY <1>4 DEF RunFrame, Existing
<1> QED
  BY <1>2, <1>3, <1>4 DEF SettleNext, MarkDone, DeferRetry, MarkDoneThrows, SettleThrows

LEMMA RunFrameStep == IInv /\ [Next]_vars => RunFrame
<1> SUFFICES ASSUME IInv, [Next]_vars PROVE RunFrame
  OBVIOUS
<1>0. run \in [Runs -> RunRow]
  BY DEF IInv, TypeOK, RunsTypeOK
<1>1. CASE run' = run
  BY <1>1 DEF RunFrame, Existing
<1>2. ASSUME NEW rv \in Reviews, NEW r \in Runs, AllocateRun(rv, r) PROVE RunFrame
  <2> SUFFICES ASSUME NEW q \in Existing
               PROVE  run'[q].state # "absent" /\ run'[q].review = run[q].review
    BY DEF RunFrame
  <2>1. q # r /\ q \in Runs
    BY <1>2 DEF AllocateRun, Existing
  <2>2. CASE q \in ActiveRunsOf(rv)
    <3>1. run'[q] = [Cancelled(run[q], "superseded") EXCEPT !.by = r]
      BY <1>2, <2>1, <2>2 DEF AllocateRun
    <3> QED
      BY <3>1, <2>1, <1>0 DEF Cancelled, WithState, RunRow
  <2>3. CASE q \notin ActiveRunsOf(rv)
    <3>1. run'[q] = run[q]
      BY <1>2, <2>1, <2>3 DEF AllocateRun
    <3> QED
      BY <3>1 DEF Existing
  <2> QED
    BY <2>2, <2>3
<1>3. ASSUME NEW r \in Runs, GuardDispatch(r) PROVE RunFrame
  BY <1>0, <1>3, TransitionFrame DEF GuardDispatch, RunFrame, Existing, Active
<1>4. ASSUME NEW r \in Runs, ReviewRunReaper(r) PROVE RunFrame
  BY <1>0, <1>4, RowFrame DEF ReviewRunReaper, RunFrame, Existing, CancelReasons
<1>5. ASSUME NEW t \in Tokens, HandlerFinalizes(t) PROVE RunFrame
  <2> DEFINE r == job[att[t].job].run
  <2>1. r \in Runs
    BY <1>5 DEF HandlerFinalizes, IInv, AttemptHasJob, Live, JobHasRun
  <2>2. run' = [run EXCEPT ![r] = Transitioned(run[r], "RUNNING", "COMPLETED")]
    BY <1>5 DEF HandlerFinalizes
  <2> HIDE DEF r
  <2> QED
    BY <1>0, <2>1, <2>2, TransitionFrame DEF RunFrame, Existing, Terminal
<1>6. ASSUME NEW w \in Workers, ReapStuckRuns(w) PROVE RunFrame
  <2> SUFFICES ASSUME NEW q \in Existing
               PROVE  run'[q].state # "absent" /\ run'[q].review = run[q].review
    BY DEF RunFrame
  <2>1. run'[q] = run[q] \/ run'[q] = Cancelled(run[q], "timeout")
    BY <1>6 DEF ReapStuckRuns, Existing
  <2> QED
    BY <1>0, <2>1, RowFrame DEF Existing, CancelReasons
<1>7. ASSUME NEW t \in Tokens, SettleNext(t) PROVE RunFrame
  BY <1>7, SettleFrame
<1>8. CASE AttemptNext
  BY <1>1, <1>5, <1>7, <1>8 DEF AttemptNext, Heartbeat, HeartbeatAborts, RuntimeElapses, HardTimeout,
     HandlerNext, HandlerThrows, HandlerYields, HandlerReturns
<1>9. CASE WorkerNext
  BY <1>1, <1>6, <1>9 DEF WorkerNext, Claim, PollIdle, WorkerCrashes, WorkerRestarts
<1>10. CASE PushNext
  BY <1>2, <1>10 DEF PushNext
<1>11. CASE DispatchNext
  BY <1>1, <1>3, <1>4, <1>11 DEF DispatchNext, Enqueue, DispatchLost
<1>12. CASE UNCHANGED vars \/ \E j \in Jobs : TimeLapses(j)
  BY <1>1, <1>12 DEF vars, TimeLapses
<1> QED
  BY <1>8, <1>9, <1>10, <1>11, <1>12 DEF Next

LEMMA UnleasedFrame ==
  ASSUME NEW row \in JobRow, NEW s
  PROVE  /\ Unleased(row, s).state = s /\ Unleased(row, s).run = row.run
         /\ Refunded(row).state = "ready" /\ Refunded(row).run = row.run
  BY DEF Unleased, Refunded, JobRow

LEMMA JobRowFrame ==
  ASSUME job \in [Jobs -> JobRow],
         NEW k \in Jobs, NEW new, job' = [job EXCEPT ![k] = new],
         job[k].state # "absent", new.state # "absent", new.run = job[k].run,
         new.state = "leased" => FreshToken(new.token)
  PROVE  JobFrame
  BY DEF JobFrame, SameLease

LEMMA JobFrameStep == IInv /\ [Next]_vars => JobFrame
<1> SUFFICES ASSUME IInv, [Next]_vars PROVE JobFrame
  OBVIOUS
<1>0. job \in [Jobs -> JobRow]
  BY DEF IInv, TypeOK
<1>1. CASE job' = job
  BY <1>1 DEF JobFrame, SameLease
<1>2. ASSUME NEW r \in Runs, NEW k \in Jobs, Enqueue(r, k) PROVE JobFrame
  BY <1>0, <1>1, <1>2 DEF Enqueue, JobFrame, SameLease, ReadyJob
<1>3. ASSUME NEW w \in Workers, NEW k \in Jobs, NEW t \in Tokens, Claim(w, k, t) PROVE JobFrame
  <2>1. /\ job' = [job EXCEPT ![k] = LeasedTo(job[k], w, t)]
        /\ LeasedTo(job[k], w, t).state = "leased" /\ LeasedTo(job[k], w, t).run = job[k].run
        /\ job[k].state # "absent" /\ FreshToken(t) /\ LeasedTo(job[k], w, t).token = t
    BY <1>3 DEF Claim, LeasedTo, Claimable
  <2> QED
    BY <2>1, <1>0, JobRowFrame
<1>4. ASSUME NEW k \in Jobs, NEW b \in BOOLEAN, job[k].state # "absent",
             job' = [job EXCEPT ![k].lapsed = b]
      PROVE  JobFrame
  BY <1>0, <1>4 DEF JobFrame, SameLease, JobRow
<1>5. ASSUME NEW t \in Tokens, Holds(t), NEW s \in {"done", "dead", "cancelled", "ready"},
             job' = [job EXCEPT ![att[t].job] = Unleased(job[att[t].job], s)]
      PROVE  JobFrame
  <2> DEFINE k == att[t].job
             new == Unleased(job[k], s)
  <2>1. k \in Jobs /\ job[k].state = "leased" /\ job[k] \in JobRow
    BY <1>0, <1>5 DEF Holds
  <2>2. new.state = s /\ new.run = job[k].run
    BY <2>1, UnleasedFrame
  <2>3. job' = [job EXCEPT ![k] = new]
    BY <1>5
  <2> HIDE DEF k, new
  <2> QED
    BY <1>0, <2>1, <2>2, <2>3, JobRowFrame
<1>6. ASSUME NEW t \in Tokens, SettleNext(t) PROVE JobFrame
  <2>1. CASE MarkDone(t) \/ MarkDoneThrows(t)
    BY <1>1, <1>5, <2>1 DEF MarkDone, MarkDoneThrows
  <2>2. CASE SettleCancel(t)
    BY <1>1, <1>5, <2>2 DEF SettleCancel, TerminalSettle
  <2>3. CASE DeferRetry(t)
    BY <1>0, <1>1, <2>3, UnleasedFrame, JobRowFrame DEF DeferRetry, Holds
  <2>4. CASE SettleFailure(t)
    BY <1>1, <1>5, <2>4 DEF SettleFailure, TerminalSettle, MarkFailed
  <2>5. CASE SettleThrows(t)
    BY <1>1, <2>5 DEF SettleThrows
  <2> QED
    BY <1>6, <2>1, <2>2, <2>3, <2>4, <2>5 DEF SettleNext
<1>7. ASSUME NEW w \in Workers, ReapStuckRuns(w) PROVE JobFrame
  <2> SUFFICES ASSUME NEW j \in Jobs
               PROVE  \/ job'[j] = job[j]
                      \/ /\ job[j].state # "absent" /\ job'[j].state = "dead"
                         /\ job'[j].run = job[j].run
    BY DEF JobFrame, SameLease
  <2> QED
    BY <1>0, <1>7, UnleasedFrame DEF ReapStuckRuns, Stuck
<1>8. CASE AttemptNext
  BY <1>1, <1>4, <1>6, <1>8 DEF AttemptNext, Heartbeat, HeartbeatAborts, RuntimeElapses, HardTimeout,
     HandlerNext, HandlerFinalizes, HandlerThrows, HandlerYields, HandlerReturns, Holds
<1>9. CASE WorkerNext
  BY <1>1, <1>3, <1>7, <1>9 DEF WorkerNext, PollIdle, WorkerCrashes, WorkerRestarts
<1>10. CASE PushNext \/ UNCHANGED vars
  BY <1>1, <1>10 DEF PushNext, jobVars, vars
<1>11. CASE DispatchNext
  BY <1>1, <1>2, <1>11 DEF DispatchNext, GuardDispatch, DispatchLost, ReviewRunReaper
<1>12. CASE \E j \in Jobs : TimeLapses(j)
  BY <1>4, <1>12 DEF TimeLapses, IsActive
<1> QED
  BY <1>8, <1>9, <1>10, <1>11, <1>12 DEF Next

LEMMA AttRowFrame ==
  ASSUME att \in [Tokens -> Attempt], NEW t \in Tokens, NEW new,
         att' = [att EXCEPT ![t] = new],
         new.hnd # "gone" => new.job = att[t].job /\ new.owner = att[t].owner
  PROVE  AttFrame
  BY DEF AttFrame

LEMMA RetiredFrame ==
  ASSUME NEW a \in Attempt
  PROVE  Retired(a).hnd = a.hnd /\ (Retired(a).hnd # "gone" => Retired(a) = a)
  BY DEF Retired, NoAttempt, Attempt

LEMMA AttFrameStep == IInv /\ [Next]_vars => AttFrame
<1> SUFFICES ASSUME IInv, [Next]_vars PROVE AttFrame
  OBVIOUS
<1>0. att \in [Tokens -> Attempt]
  BY DEF IInv, TypeOK
<1>1. CASE att' = att
  BY <1>1 DEF AttFrame
<1>2. ASSUME NEW w \in Workers, NEW k \in Jobs, NEW t \in Tokens, Claim(w, k, t) PROVE AttFrame
  BY <1>0, <1>2 DEF Claim, FreshToken, NoAttempt, AttFrame
<1>3. ASSUME NEW t \in Tokens, NEW l, RunnerOver(t, l) PROVE AttFrame
  <2> DEFINE a == [att[t] EXCEPT !.rnr = "over"]
  <2>1. a \in Attempt /\ a.job = att[t].job /\ a.owner = att[t].owner
    BY <1>0 DEF Attempt
  <2>2. att' = [att EXCEPT ![t] = Retired(a)]
    BY <1>3 DEF RunnerOver
  <2> HIDE DEF a
  <2> QED
    BY <1>0, <2>1, <2>2, RetiredFrame, AttRowFrame
<1>4. ASSUME NEW t \in Tokens, HandlerReturns(t) PROVE AttFrame
  <2> DEFINE a == [att[t] EXCEPT !.hnd = "gone",
                                 !.rnr = IF att[t].rnr = "wait" THEN att[t].out ELSE att[t].rnr]
  <2>1. a \in Attempt /\ a.hnd = "gone"
    BY <1>0, <1>4 DEF Attempt, HandlerReturns, IInv, ExitHasOutcome
  <2>2. att' = [att EXCEPT ![t] = Retired(a)]
    BY <1>4 DEF HandlerReturns
  <2> HIDE DEF a
  <2> QED
    BY <1>0, <2>1, <2>2, RetiredFrame, AttRowFrame
<1>5. ASSUME NEW t \in Tokens,
             HeartbeatAborts(t) \/ RuntimeElapses(t) \/ HardTimeout(t) \/ HandlerFinalizes(t)
               \/ HandlerYields(t) \/ MarkDoneThrows(t) \/ \E o \in Outcomes : HandlerThrows(t, o)
      PROVE  AttFrame
  BY <1>0, <1>5 DEF AttFrame, Attempt, HeartbeatAborts, RuntimeElapses, HardTimeout, HandlerFinalizes,
     HandlerYields, MarkDoneThrows, HandlerThrows
<1>6. ASSUME NEW w \in Workers, att' = KillAttempts(w) PROVE AttFrame
  BY <1>0, <1>6 DEF KillAttempts, NoAttempt, AttFrame
<1>7. CASE AttemptNext
  BY <1>1, <1>3, <1>4, <1>5, <1>7 DEF AttemptNext, Heartbeat, HandlerNext, Outcomes, SettleNext,
     MarkDone, SettleCancel, DeferRetry, SettleFailure, TerminalSettle, MarkFailed, SettleThrows
<1>8. CASE WorkerNext
  BY <1>1, <1>2, <1>6, <1>8 DEF WorkerNext, PollIdle, ReapStuckRuns, WorkerCrashes, WorkerRestarts
<1>9. CASE PushNext \/ UNCHANGED vars \/ DispatchNext \/ \E j \in Jobs : TimeLapses(j)
  BY <1>1, <1>9 DEF PushNext, jobVars, vars, DispatchNext, GuardDispatch, DispatchLost, ReviewRunReaper,
     Enqueue, TimeLapses
<1> QED
  BY <1>7, <1>8, <1>9 DEF Next

DispatchFrame == dispatch' \subseteq dispatch \cup Existing

LEMMA DispatchFrameStep == IInv /\ [Next]_vars => DispatchFrame
<1> SUFFICES ASSUME IInv, [Next]_vars PROVE DispatchFrame
  OBVIOUS
<1>1. CASE dispatch' = dispatch
  BY <1>1 DEF DispatchFrame
<1>2. CASE DispatchNext
  BY <1>2 DEF DispatchNext, GuardDispatch, Enqueue, DispatchLost, ReviewRunReaper, DispatchFrame, Existing
<1>3. CASE AttemptNext
  BY <1>1, <1>3 DEF AttemptNext, Heartbeat, HeartbeatAborts, RuntimeElapses, HardTimeout, HandlerNext,
     HandlerFinalizes, HandlerThrows, HandlerYields, HandlerReturns, SettleNext, MarkDone, SettleCancel,
     DeferRetry, SettleFailure, MarkDoneThrows, SettleThrows
<1>4. CASE WorkerNext
  BY <1>1, <1>4 DEF WorkerNext, Claim, PollIdle, ReapStuckRuns, WorkerCrashes, WorkerRestarts
<1>5. CASE PushNext \/ UNCHANGED vars \/ \E j \in Jobs : TimeLapses(j)
  BY <1>1, <1>5 DEF PushNext, jobVars, vars, TimeLapses
<1> QED
  BY <1>2, <1>3, <1>4, <1>5 DEF Next

Frame == RunFrame /\ JobFrame /\ AttFrame /\ DispatchFrame

(* A platform step never ends a handler, so it leaves its shell's attempt. *)
LEMMA PlatformKeepsHandlers ==
  IInv /\ PlatformStep => \A t \in Tokens : att'[t].hnd = att[t].hnd
<1> SUFFICES ASSUME IInv, PlatformStep PROVE \A t \in Tokens : att'[t].hnd = att[t].hnd
  OBVIOUS
<1>0. att \in [Tokens -> Attempt]
  BY DEF IInv, TypeOK
<1>1. CASE att' = att
  BY <1>1
<1>2. ASSUME NEW u \in Tokens, NEW l, RunnerOver(u, l)
      PROVE  \A t \in Tokens : att'[t].hnd = att[t].hnd
  <2> DEFINE a == [att[u] EXCEPT !.rnr = "over"]
  <2>1. a \in Attempt /\ a.hnd = att[u].hnd
    BY <1>0 DEF Attempt
  <2>2. att' = [att EXCEPT ![u] = Retired(a)]
    BY <1>2 DEF RunnerOver
  <2> HIDE DEF a
  <2> QED
    BY <1>0, <2>1, <2>2, RetiredFrame
<1>3. ASSUME NEW u \in Tokens,
             HeartbeatAborts(u) \/ RuntimeElapses(u) \/ HardTimeout(u) \/ MarkDoneThrows(u)
      PROVE  \A t \in Tokens : att'[t].hnd = att[t].hnd
  BY <1>0, <1>3 DEF Attempt, HeartbeatAborts, RuntimeElapses, HardTimeout, MarkDoneThrows
<1>4. ASSUME NEW u \in Tokens, SettleNext(u)
      PROVE  \A t \in Tokens : att'[t].hnd = att[t].hnd
  BY <1>2, <1>3, <1>4 DEF SettleNext, MarkDone, SettleCancel, DeferRetry, SettleFailure, TerminalSettle,
     MarkFailed, SettleThrows
<1> QED
  BY <1>1, <1>3, <1>4 DEF PlatformStep, PushNext, jobVars, GuardDispatch, DispatchLost, Enqueue,
     Heartbeat, PollIdle, TimeLapses

-----------------------------------------------------------------------------
(* The invariant of the mutex. Its heart is ownership: a live mutex that an   *)
(* attempt or a job row refers to is held by the run of that attempt or job.  *)

HolderExists == \A m \in Mutexes : IsLive(m) => mutex[m].holder \in Existing

JobRunExists == \A j \in Jobs : job[j].state # "absent" => job[j].run \in Existing

DispatchExists == dispatch \subseteq Existing

ShellHasAttempt == \A t \in Tokens : shell[t].at # "idle" => att[t].hnd # "gone"

ShellHasMutex ==
  \A t \in Tokens : shell[t].at \in {"persist", "drop", "body", "cleanup"} => shell[t].m \in Mutexes

ShellOwnsMutex ==
  \A t \in Tokens :
     shell[t].at # "idle" /\ shell[t].m \in Mutexes /\ IsLive(shell[t].m)
       => mutex[shell[t].m].holder = RunOf(t)

JobOwnsMutex ==
  \A j \in Jobs :
     jobMutex[j] \in Mutexes
       => /\ job[j].state # "absent"
          /\ IsLive(jobMutex[j]) => mutex[jobMutex[j]].holder = job[j].run

SInv ==
  /\ ShellTypeOK
  /\ HolderExists
  /\ JobRunExists
  /\ DispatchExists
  /\ ShellHasAttempt
  /\ ShellHasMutex
  /\ ShellOwnsMutex
  /\ JobOwnsMutex
  /\ OneLiveMutexPerReview

LEMMA InitSInv == ShellInit => SInv
<1> SUFFICES ASSUME ShellInit PROVE SInv
  OBVIOUS
<1>1. ShellTypeOK
  BY DEF ShellInit, ShellTypeOK, MutexRow, Shell, NoShell
<1>2. \A m \in Mutexes : ~ IsLive(m)
  BY DEF ShellInit, IsLive, Released
<1>3. \A t \in Tokens : shell[t].at = "idle"
  BY DEF ShellInit, NoShell
<1>4. JobRunExists /\ DispatchExists
  BY DEF ShellInit, Init, NoJob, JobRunExists, DispatchExists
<1>5. JobOwnsMutex
  BY NoneIsNoMutex DEF ShellInit, JobOwnsMutex
<1> QED
  BY <1>1, <1>2, <1>3, <1>4, <1>5 DEF SInv, HolderExists, ShellHasAttempt, ShellHasMutex,
     ShellOwnsMutex, OneLiveMutexPerReview

(* What every step but an acquire and a claim does: no mutex becomes live or  *)
(* changes hands, a shell keeps its mutex until it is idle, and a job row     *)
(* gets only the mutex of an attempt that works on it.                        *)
MutexRowStep(m) == mutex'[m].holder = None \/ mutex'[m].holder = mutex[m].holder

ShellRowStep(t) ==
  \/ shell'[t].at = "idle"
  \/ /\ shell[t].at # "idle" /\ shell'[t].m = shell[t].m /\ att'[t].hnd # "gone"
     /\ shell'[t].at \in {"persist", "drop", "body", "cleanup"} => shell[t].m \in Mutexes

JobMutexStep(j) ==
  \/ jobMutex'[j] = jobMutex[j]
  \/ \E t \in Tokens : shell[t].at = "persist" /\ att[t].job = j /\ jobMutex'[j] = shell[t].m

(* An attempt in memory keeps its job and that job its run. *)
LEMMA RunOfStays ==
  ASSUME IInv, SInv, Frame, NEW t \in Tokens, att[t].hnd # "gone", att'[t].hnd # "gone"
  PROVE  /\ att[t].job \in Jobs /\ job[att[t].job].state # "absent"
         /\ RunOf(t) \in Existing /\ RunOf(t)' = RunOf(t)
  BY DEF IInv, SInv, AttemptHasJob, Live, JobRunExists, Frame, AttFrame, JobFrame, RunOf

(* The parts that depend only on the platform's variables. *)
LEMMA ExistsKept ==
  ASSUME IInv, SInv, Frame
  PROVE  JobRunExists' /\ DispatchExists' /\ Existing \subseteq Existing'
<1>1. Existing \subseteq Existing'
  BY DEF Frame, RunFrame, Existing
<1>2. DispatchExists'
  BY <1>1 DEF Frame, DispatchFrame, SInv, DispatchExists
<1>3. JobRunExists'
  BY <1>1 DEF Frame, JobFrame, SInv, DispatchExists, JobRunExists
<1> QED
  BY <1>1, <1>2, <1>3

LEMMA StepKeepsSInv ==
  ASSUME IInv, SInv, Frame, ShellTypeOK',
         \A m \in Mutexes : MutexRowStep(m),
         \A t \in Tokens : ShellRowStep(t),
         \A j \in Jobs : JobMutexStep(j)
  PROVE  SInv'
<1>1. \A m \in Mutexes : IsLive(m)' => IsLive(m) /\ mutex'[m].holder = mutex[m].holder
  BY DEF MutexRowStep, IsLive
<1>2. JobRunExists' /\ DispatchExists' /\ Existing \subseteq Existing'
  BY ExistsKept
<1>3. HolderExists'
  BY <1>1, <1>2 DEF SInv, HolderExists
<1>4. ShellHasAttempt' /\ ShellHasMutex'
  BY DEF ShellRowStep, ShellHasAttempt, ShellHasMutex
<1>5. ShellOwnsMutex'
  <2> SUFFICES ASSUME NEW t \in Tokens, shell'[t].at # "idle", shell'[t].m \in Mutexes,
                      IsLive(shell[t].m)'
               PROVE  mutex'[shell'[t].m].holder = RunOf(t)'
    BY DEF ShellOwnsMutex, ShellRowStep
  <2>1. shell[t].at # "idle" /\ shell'[t].m = shell[t].m /\ att'[t].hnd # "gone" /\ att[t].hnd # "gone"
    BY DEF ShellRowStep, SInv, ShellHasAttempt
  <2>2. RunOf(t)' = RunOf(t)
    BY <2>1, RunOfStays
  <2> QED
    BY <1>1, <2>1, <2>2 DEF SInv, ShellOwnsMutex
<1>6. JobOwnsMutex'
  <2> SUFFICES ASSUME NEW j \in Jobs, jobMutex'[j] \in Mutexes
               PROVE  /\ job'[j].state # "absent"
                      /\ IsLive(jobMutex[j])' => mutex'[jobMutex'[j]].holder = job'[j].run
    BY DEF JobOwnsMutex
  <2>1. CASE jobMutex'[j] = jobMutex[j]
    BY <1>1, <2>1 DEF SInv, JobOwnsMutex, Frame, JobFrame
  <2>2. ASSUME NEW t \in Tokens, shell[t].at = "persist", att[t].job = j, jobMutex'[j] = shell[t].m
        PROVE  /\ job'[j].state # "absent"
               /\ IsLive(jobMutex[j])' => mutex'[jobMutex'[j]].holder = job'[j].run
    <3>1. job[j].state # "absent"
      BY <2>2 DEF SInv, ShellHasAttempt, IInv, AttemptHasJob, Live
    <3>2. job'[j].state # "absent" /\ job'[j].run = job[j].run
      BY <3>1 DEF Frame, JobFrame
    <3>3. IsLive(shell[t].m) => mutex[shell[t].m].holder = job[j].run
      BY <2>2 DEF SInv, ShellOwnsMutex, RunOf
    <3> QED
      BY <1>1, <2>2, <3>2, <3>3
  <2> QED
    BY <2>1, <2>2 DEF JobMutexStep
<1>7. OneLiveMutexPerReview'
  BY <1>1 DEF SInv, HolderExists, OneLiveMutexPerReview, Frame, RunFrame
<1> QED
  BY <1>2, <1>3, <1>4, <1>5, <1>6, <1>7 DEF SInv

-----------------------------------------------------------------------------
LEMMA ReleaseRow ==
  ASSUME mutex \in [Mutexes -> MutexRow], NEW ids
  PROVE  /\ Release(ids) \in [Mutexes -> MutexRow]
         /\ \A m \in Mutexes : Release(ids)[m].holder = None \/ Release(ids)[m] = mutex[m]
         /\ \A m \in ids \cap Mutexes : Release(ids)[m].holder = None
  BY DEF Release, MutexRow, Released

LEMMA ValidRow ==
  ASSUME mutex \in [Mutexes -> MutexRow], NEW m \in Mutexes, IsLive(m), NEW b \in BOOLEAN,
         mutex' = [mutex EXCEPT ![m].valid = b]
  PROVE  mutex' \in [Mutexes -> MutexRow] /\ \A n \in Mutexes : MutexRowStep(n)
<1>1. mutex[m] \in [holder : Runs, valid : BOOLEAN]
  BY DEF IsLive, MutexRow, Released
<1>2. [mutex[m] EXCEPT !.valid = b] = [holder |-> mutex[m].holder, valid |-> b]
  BY <1>1
<1> QED
  BY <1>1, <1>2 DEF MutexRow, MutexRowStep

LEMMA GotoStep ==
  ASSUME ShellTypeOK, NEW t \in Tokens,
         NEW place \in {"start", "persist", "drop", "body", "cleanup", "left"}, Goto(t, place)
  PROVE  /\ shell' \in [Tokens -> Shell]
         /\ shell'[t].at = place /\ shell'[t].m = shell[t].m
         /\ \A u \in Tokens \ {t} : shell'[u] = shell[u]
  BY DEF ShellTypeOK, Goto, Shell

(* A step of t's shell that leaves every mutex live as it was or released. *)
LEMMA OwnStep ==
  ASSUME IInv, SInv, Frame, NEW t \in Tokens,
         NEW place \in {"start", "persist", "drop", "body", "cleanup", "left"},
         Goto(t, place),
         shell[t].at # "idle", att'[t].hnd # "gone",
         place \in {"persist", "drop", "body", "cleanup"} => shell[t].m \in Mutexes,
         \A u \in Tokens \ {t} : att'[u] = att[u],
         mutex' \in [Mutexes -> MutexRow], \A m \in Mutexes : MutexRowStep(m),
         jobMutex' \in [Jobs -> Mutexes \cup {None}], \A j \in Jobs : JobMutexStep(j)
  PROVE  SInv'
<1>1. /\ shell' \in [Tokens -> Shell]
      /\ shell'[t].at = place /\ shell'[t].m = shell[t].m
      /\ \A u \in Tokens \ {t} : shell'[u] = shell[u]
  BY GotoStep DEF SInv
<1>2. ShellTypeOK'
  BY <1>1 DEF ShellTypeOK
<1>3. ASSUME NEW u \in Tokens PROVE ShellRowStep(u)
  <2>1. CASE u = t
    BY <2>1, <1>1 DEF ShellRowStep
  <2>2. CASE u # t
    BY <2>2, <1>1 DEF ShellRowStep, SInv, ShellHasAttempt, ShellHasMutex
  <2> QED
    BY <2>1, <2>2
<1> QED
  BY <1>2, <1>3, StepKeepsSInv

(* The last step of t's shell. *)
LEMMA LastStep ==
  ASSUME IInv, SInv, Frame, NEW t \in Tokens,
         shell' = [shell EXCEPT ![t] = NoShell],
         \A u \in Tokens \ {t} : att'[u] = att[u],
         mutex' \in [Mutexes -> MutexRow], \A m \in Mutexes : MutexRowStep(m),
         jobMutex' = jobMutex
  PROVE  SInv'
<1>1. ShellTypeOK'
  BY DEF SInv, ShellTypeOK, NoShell, Shell
<1>2. ASSUME NEW u \in Tokens PROVE ShellRowStep(u)
  BY DEF ShellRowStep, SInv, ShellTypeOK, ShellHasAttempt, ShellHasMutex, NoShell
<1> QED
  BY <1>1, <1>2, StepKeepsSInv DEF JobMutexStep

(* A step that moves no shell and ends no handler. *)
LEMMA OtherStep ==
  ASSUME IInv, SInv, Frame,
         shell' = shell, jobMutex' = jobMutex,
         \A t \in Tokens : att'[t].hnd = att[t].hnd,
         mutex' \in [Mutexes -> MutexRow], \A m \in Mutexes : MutexRowStep(m)
  PROVE  SInv'
<1>1. ShellTypeOK'
  BY DEF SInv, ShellTypeOK
<1>2. ASSUME NEW u \in Tokens PROVE ShellRowStep(u)
  BY DEF ShellRowStep, SInv, ShellHasAttempt, ShellHasMutex
<1> QED
  BY <1>1, <1>2, StepKeepsSInv DEF JobMutexStep

LEMMA AcquireKeeps ==
  ASSUME IInv, SInv, NEW t \in Tokens, NEW m \in Mutexes, AcquireMutex(t, m)
  PROVE  SInv'
<1> DEFINE kept == Release(LiveOf(ReviewOf(t)))
<1>0. UNCHANGED vars /\ jobMutex' = jobMutex /\ shell[t].at = "start"
  BY DEF AcquireMutex
<1>1. att[t].hnd # "gone" /\ att[t].job \in Jobs /\ RunOf(t) \in Existing
  BY <1>0 DEF SInv, ShellHasAttempt, IInv, AttemptHasJob, Live, JobRunExists, RunOf
<1>2. /\ kept \in [Mutexes -> MutexRow]
      /\ \A n \in Mutexes : kept[n].holder = None \/ kept[n] = mutex[n]
      /\ \A n \in LiveOf(ReviewOf(t)) : kept[n].holder = None
  BY ReleaseRow DEF SInv, ShellTypeOK, LiveOf
<1>3. mutex' = [kept EXCEPT ![m] = Held(RunOf(t))]
  BY DEF AcquireMutex
<1>4. shell' = [shell EXCEPT ![t].at = "persist", ![t].m = m]
  BY DEF AcquireMutex
<1>5. FreshMutex(m)
  BY DEF AcquireMutex
<1> HIDE DEF kept
<1>6. /\ mutex'[m].holder = RunOf(t)
      /\ \A n \in Mutexes \ {m} : IsLive(n)' => IsLive(n) /\ mutex'[n] = mutex[n]
      /\ \A n \in Mutexes \ {m} : IsLive(n)' => n \notin LiveOf(ReviewOf(t))
  BY <1>2, <1>3 DEF IsLive, Held
<1>7. /\ shell' \in [Tokens -> Shell]
      /\ shell'[t].at = "persist" /\ shell'[t].m = m
      /\ \A u \in Tokens \ {t} : shell'[u] = shell[u]
  BY <1>4 DEF SInv, ShellTypeOK, Shell
<1>8. ShellTypeOK'
  <2>1. Held(RunOf(t)) \in MutexRow
    BY <1>1 DEF Held, MutexRow, Existing
  <2> QED
    BY <1>0, <1>2, <1>3, <1>7, <2>1 DEF SInv, ShellTypeOK
<1>9. JobRunExists' /\ DispatchExists' /\ Existing' = Existing /\ \A u \in Tokens : RunOf(u)' = RunOf(u)
  BY <1>0 DEF SInv, vars, JobRunExists, DispatchExists, Existing, RunOf
<1>10. HolderExists'
  BY <1>1, <1>6, <1>9 DEF SInv, HolderExists
<1>11. ShellHasAttempt' /\ ShellHasMutex'
  BY <1>0, <1>1, <1>7 DEF SInv, ShellHasAttempt, ShellHasMutex, vars
<1>12. ShellOwnsMutex'
  <2> SUFFICES ASSUME NEW u \in Tokens, shell'[u].at # "idle", shell'[u].m \in Mutexes,
                      IsLive(shell[u].m)'
               PROVE  mutex'[shell'[u].m].holder = RunOf(u)'
    BY DEF ShellOwnsMutex
  <2>1. CASE u = t
    BY <2>1, <1>6, <1>7, <1>9
  <2>2. CASE u # t
    <3>1. shell'[u] = shell[u] /\ shell[u].m # m
      BY <2>2, <1>5, <1>7 DEF FreshMutex
    <3> QED
      BY <3>1, <1>6, <1>9 DEF SInv, ShellOwnsMutex
  <2> QED
    BY <2>1, <2>2
<1>13. JobOwnsMutex'
  <2> SUFFICES ASSUME NEW j \in Jobs, jobMutex'[j] \in Mutexes
               PROVE  /\ job'[j].state # "absent"
                      /\ IsLive(jobMutex[j])' => mutex'[jobMutex'[j]].holder = job'[j].run
    BY DEF JobOwnsMutex
  <2>1. jobMutex'[j] = jobMutex[j] /\ jobMutex[j] # m
    BY <1>0, <1>5 DEF FreshMutex
  <2> QED
    BY <1>0, <1>6, <2>1 DEF SInv, JobOwnsMutex, vars
<1>14. OneLiveMutexPerReview'
  <2> SUFFICES ASSUME NEW n \in Mutexes, NEW o \in Mutexes, IsLive(n)', IsLive(o)',
                      run'[mutex'[n].holder].review = run'[mutex'[o].holder].review
               PROVE  n = o
    BY DEF OneLiveMutexPerReview
  <2>1. run' = run
    BY <1>0 DEF vars
  <2>2. \A k \in Mutexes \ {m} : IsLive(k)' => run[mutex'[k].holder].review # ReviewOf(t)
    BY <1>6 DEF LiveOf
  <2>3. CASE n = m \/ o = m
    BY <2>1, <2>2, <2>3, <1>6 DEF ReviewOf
  <2>4. CASE n # m /\ o # m
    BY <2>1, <2>4, <1>6 DEF SInv, OneLiveMutexPerReview
  <2> QED
    BY <2>3, <2>4
<1> QED
  BY <1>8, <1>9, <1>10, <1>11, <1>12, <1>13, <1>14 DEF SInv

LEMMA ClaimKeeps ==
  ASSUME IInv, SInv, Frame, NEW w \in Workers, NEW j \in Jobs, NEW t \in Tokens, ShellClaim(w, j, t)
  PROVE  SInv'
<1> DEFINE new == [at |-> "start", m |-> jobMutex[j], lost |-> FALSE]
<1>0. mutex' = mutex /\ jobMutex' = jobMutex /\ run' = run
  BY DEF ShellClaim, Claim
<1>1. new \in Shell
  BY DEF SInv, ShellTypeOK, Shell
<1>2. shell' = [shell EXCEPT ![t] = new]
  BY DEF ShellClaim
<1>3. new.at = "start" /\ new.m = jobMutex[j]
  OBVIOUS
<1> HIDE DEF new
<1>4. shell'[t] = new /\ \A u \in Tokens \ {t} : shell'[u] = shell[u]
  BY <1>2 DEF SInv, ShellTypeOK
<1>5. ShellTypeOK'
  BY <1>0, <1>1, <1>2 DEF SInv, ShellTypeOK
<1>6. att'[t].job = j /\ att'[t].hnd = "run" /\ \A u \in Tokens \ {t} : att'[u] = att[u]
  BY DEF ShellClaim, Claim, NewAttempt, IInv, TypeOK
<1>7. JobRunExists' /\ DispatchExists' /\ Existing' = Existing
  BY <1>0, ExistsKept DEF Existing
<1>8. HolderExists' /\ OneLiveMutexPerReview'
  BY <1>0, <1>7 DEF SInv, HolderExists, OneLiveMutexPerReview, IsLive
<1>9. ShellHasAttempt' /\ ShellHasMutex'
  BY <1>3, <1>4, <1>6 DEF SInv, ShellHasAttempt, ShellHasMutex
<1>10. JobOwnsMutex'
  BY <1>0 DEF SInv, JobOwnsMutex, Frame, JobFrame, IsLive
<1>11. ShellOwnsMutex'
  <2> SUFFICES ASSUME NEW u \in Tokens, shell'[u].at # "idle", shell'[u].m \in Mutexes,
                      IsLive(shell[u].m)'
               PROVE  mutex'[shell'[u].m].holder = RunOf(u)'
    BY DEF ShellOwnsMutex
  <2>1. CASE u = t
    <3>1. RunOf(u)' = job'[j].run
      BY <2>1, <1>6 DEF RunOf
    <3> QED
      BY <2>1, <3>1, <1>0, <1>3, <1>4, <1>10 DEF JobOwnsMutex
  <2>2. CASE u # t
    <3>1. shell'[u] = shell[u] /\ att[u].hnd # "gone" /\ att'[u].hnd # "gone"
      BY <2>2, <1>4, <1>6 DEF SInv, ShellHasAttempt
    <3>2. RunOf(u)' = RunOf(u)
      BY <3>1, RunOfStays
    <3> QED
      BY <3>1, <3>2, <1>0 DEF SInv, ShellOwnsMutex, IsLive
  <2> QED
    BY <2>1, <2>2
<1> QED
  BY <1>5, <1>7, <1>8, <1>9, <1>10, <1>11 DEF SInv

-----------------------------------------------------------------------------
(* A handler that ends becomes "exit"; the other attempts are untouched. *)
LEMMA HandlerEnds ==
  ASSUME IInv, NEW t \in Tokens,
         (\E o \in Outcomes : HandlerThrows(t, o)) \/ HandlerYields(t) \/ HandlerFinalizes(t)
  PROVE  att'[t].hnd # "gone" /\ \A u \in Tokens \ {t} : att'[u] = att[u]
  BY DEF HandlerThrows, HandlerYields, HandlerFinalizes, IInv, TypeOK, Attempt

LEMMA ShellStepKeeps ==
  ASSUME IInv, SInv, Frame, NEW t \in Tokens, ShellStep(t)
  PROVE  SInv'
<1>0. /\ mutex \in [Mutexes -> MutexRow] /\ jobMutex \in [Jobs -> Mutexes \cup {None}]
      /\ shell \in [Tokens -> Shell]
  BY DEF SInv, ShellTypeOK
<1>1. shell[t].at # "idle" => att[t].hnd # "gone" /\ att[t].job \in Jobs
  BY DEF SInv, ShellHasAttempt, IInv, AttemptHasJob, Live
<1>2. shell[t].at \in {"persist", "drop", "body", "cleanup"} => shell[t].m \in Mutexes
  BY DEF SInv, ShellHasMutex
<1>3. mutex' = mutex => mutex' \in [Mutexes -> MutexRow] /\ \A m \in Mutexes : MutexRowStep(m)
  BY <1>0 DEF MutexRowStep
<1>4. jobMutex' = jobMutex
        => jobMutex' \in [Jobs -> Mutexes \cup {None}] /\ \A j \in Jobs : JobMutexStep(j)
  BY <1>0 DEF JobMutexStep
<1>5. ASSUME NEW ids, mutex' = Release(ids)
      PROVE  mutex' \in [Mutexes -> MutexRow] /\ \A m \in Mutexes : MutexRowStep(m)
  BY <1>0, <1>5, ReleaseRow DEF MutexRowStep
<1>6. ASSUME shell[t].at = "persist", jobMutex' = [jobMutex EXCEPT ![att[t].job] = shell[t].m]
      PROVE  jobMutex' \in [Jobs -> Mutexes \cup {None}] /\ \A j \in Jobs : JobMutexStep(j)
  BY <1>0, <1>1, <1>2, <1>6 DEF JobMutexStep
<1>7. CASE ReuseMutex(t)
  <2>1. shell[t].m \in Mutexes /\ IsLive(shell[t].m) /\ shell[t].at = "start"
    BY <1>7 DEF ReuseMutex, Reusable, LiveOf
  <2>2. mutex' \in [Mutexes -> MutexRow] /\ \A m \in Mutexes : MutexRowStep(m)
    BY <1>0, <1>7, <2>1, ValidRow DEF ReuseMutex
  <2>3. Goto(t, "body") /\ att' = att /\ jobMutex' = jobMutex
    BY <1>7 DEF ReuseMutex, vars
  <2> QED
    BY <1>1, <1>4, <2>1, <2>2, <2>3, OwnStep
<1>8. CASE \E m \in Mutexes : AcquireMutex(t, m)
  BY <1>8, AcquireKeeps
<1>9. CASE PersistMutex(t) \/ PersistRefused(t)
  <2>1. /\ shell[t].at = "persist" /\ att' = att /\ mutex' = mutex
        /\ Goto(t, "body") \/ Goto(t, "drop")
        /\ jobMutex' = jobMutex \/ jobMutex' = [jobMutex EXCEPT ![att[t].job] = shell[t].m]
    BY <1>9 DEF PersistMutex, PersistRefused, vars
  <2> QED
    BY <1>1, <1>2, <1>3, <1>4, <1>6, <2>1, OwnStep
<1>10. CASE AcquireBusy(t) \/ MutexStepThrows(t)
  <2>1. /\ shell[t].at # "idle" /\ mutex' = mutex /\ Goto(t, "left")
        /\ \/ jobMutex' = jobMutex
           \/ shell[t].at = "persist" /\ jobMutex' = [jobMutex EXCEPT ![att[t].job] = shell[t].m]
        /\ \E o \in Outcomes : HandlerThrows(t, o)
    BY <1>10 DEF AcquireBusy, MutexStepThrows, Outcomes
  <2> QED
    BY <1>1, <1>3, <1>4, <1>6, <2>1, HandlerEnds, OwnStep
<1>11. CASE DropMutex(t)
  <2>1. shell[t].at # "idle" /\ Goto(t, "left") /\ HandlerYields(t) /\ jobMutex' = jobMutex
    BY <1>11 DEF DropMutex
  <2>2. mutex' \in [Mutexes -> MutexRow] /\ \A m \in Mutexes : MutexRowStep(m)
    BY <1>5, <1>11 DEF DropMutex
  <2> QED
    BY <1>4, <2>1, <2>2, HandlerEnds, OwnStep
<1>12. CASE RenewMutex(t)
  <2>1. shell[t].m \in Mutexes /\ IsLive(shell[t].m)
    BY <1>2, <1>12 DEF RenewMutex
  <2>2. mutex' \in [Mutexes -> MutexRow] /\ \A m \in Mutexes : MutexRowStep(m)
    BY <1>0, <1>12, <2>1, ValidRow DEF RenewMutex
  <2> QED
    BY <1>12, <2>2, OtherStep DEF RenewMutex, vars
<1>13. CASE RenewAbandons(t)
  <2>1. /\ shell' \in [Tokens -> Shell] /\ shell'[t].at = shell[t].at /\ shell'[t].m = shell[t].m
        /\ \A u \in Tokens \ {t} : shell'[u] = shell[u]
    BY <1>0, <1>13 DEF RenewAbandons, Shell
  <2>2. att' = att /\ mutex' = mutex /\ jobMutex' = jobMutex
    BY <1>13 DEF RenewAbandons, vars
  <2>3. ShellTypeOK'
    BY <1>0, <2>1, <2>2 DEF ShellTypeOK
  <2>4. \A u \in Tokens : ShellRowStep(u)
    BY <2>1, <2>2 DEF ShellRowStep, SInv, ShellHasAttempt, ShellHasMutex
  <2> QED
    BY <1>3, <1>4, <2>2, <2>3, <2>4, StepKeepsSInv
<1>14. CASE BodyCancels(t) \/ BodyThrows(t) \/ BodyFinalizes(t)
  <2>1. /\ shell[t].at = "body" /\ mutex' = mutex /\ jobMutex' = jobMutex /\ Goto(t, "cleanup")
        /\ (\E o \in Outcomes : HandlerThrows(t, o)) \/ HandlerFinalizes(t)
    BY <1>14 DEF BodyCancels, BodyThrows, BodyFinalizes, Outcomes
  <2> QED
    BY <1>2, <1>3, <1>4, <2>1, HandlerEnds, OwnStep
<1>15. CASE CleanupReleases(t) \/ CleanupFails(t) \/ ShellReturns(t)
  <2>1. HandlerReturns(t) /\ shell' = [shell EXCEPT ![t] = NoShell] /\ jobMutex' = jobMutex
    BY <1>15 DEF CleanupReleases, CleanupFails, ShellReturns
  <2>2. mutex' = mutex \/ \E ids \in {{shell[t].m}} : mutex' = Release(ids)
    BY <1>15 DEF CleanupReleases, CleanupFails, ShellReturns
  <2>3. \A u \in Tokens \ {t} : att'[u] = att[u]
    BY <2>1 DEF HandlerReturns, IInv, TypeOK
  <2> QED
    BY <1>3, <1>5, <2>1, <2>2, <2>3, LastStep
<1> QED
  BY <1>7, <1>8, <1>9, <1>10, <1>11, <1>12, <1>13, <1>14, <1>15 DEF ShellStep

LEMMA ShellNextKeeps == IInv /\ SInv /\ [ShellNext]_allVars => SInv'
<1> SUFFICES ASSUME IInv, SInv, [ShellNext]_allVars PROVE SInv'
  OBVIOUS
<1>0. mutex \in [Mutexes -> MutexRow]
  BY DEF SInv, ShellTypeOK
<1>1. Frame
  BY ShellNextImplements, RunFrameStep, JobFrameStep, AttFrameStep, DispatchFrameStep DEF Frame
<1>2. ASSUME NEW ids, mutex' = Release(ids)
      PROVE  mutex' \in [Mutexes -> MutexRow] /\ \A m \in Mutexes : MutexRowStep(m)
  BY <1>0, <1>2, ReleaseRow DEF MutexRowStep
<1>3. mutex' = mutex => mutex' \in [Mutexes -> MutexRow] /\ \A m \in Mutexes : MutexRowStep(m)
  BY <1>0 DEF MutexRowStep
<1>4. CASE UNCHANGED allVars
  BY <1>1, <1>3, <1>4, OtherStep DEF allVars, vars, shellVars
<1>5. CASE \E t \in Tokens : ShellStep(t)
  BY <1>1, <1>5, ShellStepKeeps
<1>6. ASSUME NEW m \in Mutexes, MutexLapses(m) PROVE SInv'
  <2>1. mutex' \in [Mutexes -> MutexRow] /\ \A n \in Mutexes : MutexRowStep(n)
    BY <1>0, <1>6, ValidRow DEF MutexLapses
  <2> QED
    BY <1>1, <1>6, <2>1, OtherStep DEF MutexLapses, vars
<1>7. ASSUME NEW m \in Mutexes, MutexJanitor(m) PROVE SInv'
  BY <1>1, <1>2, <1>7, OtherStep DEF MutexJanitor, vars
<1>8. ASSUME NEW w \in Workers, NEW j \in Jobs, NEW t \in Tokens, ShellClaim(w, j, t) PROVE SInv'
  BY <1>1, <1>8, ClaimKeeps
<1>9. ASSUME NEW w \in Workers, ShellReapStuckRuns(w) PROVE SInv'
  BY <1>1, <1>2, <1>9, OtherStep DEF ShellReapStuckRuns, ReapStuckRuns
<1>10. ASSUME NEW r \in Runs, ShellRunReaper(r) PROVE SInv'
  BY <1>1, <1>2, <1>10, OtherStep DEF ShellRunReaper, ReviewRunReaper
<1>11. ASSUME NEW w \in Workers, ProcessEnds(w) PROVE SInv'
  <2>1. /\ att' = KillAttempts(w) /\ mutex' = mutex /\ jobMutex' = jobMutex
        /\ shell' = [t \in Tokens |-> IF att[t].owner = w THEN NoShell ELSE shell[t]]
    BY <1>11 DEF ProcessEnds, WorkerCrashes, WorkerRestarts
  <2>2. ShellTypeOK'
    BY <2>1 DEF SInv, ShellTypeOK, Shell, NoShell
  <2>3. \A t \in Tokens : ShellRowStep(t)
    BY <2>1 DEF KillAttempts, ShellRowStep, NoShell, SInv, ShellHasAttempt, ShellHasMutex
  <2> QED
    BY <1>1, <1>3, <2>1, <2>2, <2>3, StepKeepsSInv DEF JobMutexStep
<1>12. CASE PlatformStep /\ UNCHANGED shellVars
  BY <1>1, <1>3, <1>12, PlatformKeepsHandlers, OtherStep DEF shellVars
<1> QED
  BY <1>4, <1>5, <1>6, <1>7, <1>8, <1>9, <1>10, <1>11, <1>12 DEF ShellNext

LEMMA ShellInvariance == ShellSpec => [](IInv /\ SInv)
<1>1. ShellInit => IInv /\ SInv
  BY InitIInv, InitSInv DEF ShellInit
<1>2. IInv /\ SInv /\ [ShellNext]_allVars => (IInv /\ SInv)'
  BY ShellNextImplements, NextKept, ShellNextKeeps DEF Kept
<1> QED
  BY <1>1, <1>2, PTL DEF ShellSpec

(* The mutex table, the job rows' mutex ids and the shells keep their types:   *)
(* in particular a renewal never puts a lease on a released row.               *)
THEOREM ShellTypeCorrect == ShellSpec => []ShellTypeOK
<1>1. SInv => ShellTypeOK
  BY DEF SInv
<1> QED
  BY <1>1, ShellInvariance, PTL

(* A pull request never has two live mutex rows, through expiry, reclaim,      *)
(* reuse, orphans and the janitor.                                             *)
THEOREM OneLiveMutex == ShellSpec => []OneLiveMutexPerReview
<1>1. SInv => OneLiveMutexPerReview
  BY DEF SInv
<1> QED
  BY <1>1, ShellInvariance, PTL

(* Pipelines of two different runs of a pull request never both have their     *)
(* mutex.                                                                      *)
THEOREM RunsSerialised == ShellSpec => []MutexSerialisesRuns
<1>1. SInv => MutexSerialisesRuns
  <2> SUFFICES ASSUME SInv, NEW t \in Tokens, NEW u \in Tokens,
                      shell[t].at = "body", shell[u].at = "body",
                      IsLive(shell[t].m), IsLive(shell[u].m), ReviewOf(t) = ReviewOf(u)
               PROVE  RunOf(t) = RunOf(u)
    BY DEF MutexSerialisesRuns
  <2>1. shell[t].m \in Mutexes /\ shell[u].m \in Mutexes
    BY DEF SInv, ShellHasMutex
  <2>2. mutex[shell[t].m].holder = RunOf(t) /\ mutex[shell[u].m].holder = RunOf(u)
    BY <2>1 DEF SInv, ShellOwnsMutex
  <2>3. shell[t].m = shell[u].m
    BY <2>1, <2>2 DEF SInv, OneLiveMutexPerReview, ReviewOf
  <2> QED
    BY <2>2, <2>3
<1> QED
  BY <1>1, ShellInvariance, PTL

(* What is proved of the job platform holds of the system with the shell and   *)
(* the mutex: a dead or cancelled job strands no run, and a done job's run is  *)
(* COMPLETED.                                                                  *)
THEOREM ShellSettlesSoundly == ShellSpec => [](NoSplitBrain /\ DoneImpliesCompleted)
<1>1. IInv => NoSplitBrain /\ DoneImpliesCompleted
  BY DEF IInv
<1> QED
  BY <1>1, ShellInvariance, PTL

-----------------------------------------------------------------------------
(* The mutex id of the lease holder. Before and in its pipeline the holder    *)
(* has the id its job row names: no other attempt can write the row, because  *)
(* a job's lease carries one token.                                           *)

HolderSeesMutex ==
  \A t \in Tokens :
     shell[t].at \in {"start", "body"} /\ Holds(t) => jobMutex[att[t].job] = shell[t].m

(* How a step changes the shells and the job rows' mutex ids. *)
SeesStep(t) ==
  shell'[t].at \in {"start", "body"} =>
     \/ shell[t].at \in {"start", "body"} /\ shell'[t].m = shell[t].m
     \/ PersistMutex(t)
     \/ \E w \in Workers, j \in Jobs : ShellClaim(w, j, t)

WriteStep ==
  \/ jobMutex' = jobMutex
  \/ \E u \in Tokens : /\ shell[u].at = "persist" /\ Holds(u)
                       /\ jobMutex' = [jobMutex EXCEPT ![att[u].job] = shell[u].m]

LEMMA ShellStepSees ==
  ASSUME SInv, NEW t \in Tokens, ShellStep(t)
  PROVE  WriteStep /\ \A u \in Tokens : SeesStep(u)
<1>0. shell \in [Tokens -> Shell]
  BY DEF SInv, ShellTypeOK
<1>1. WriteStep
  BY DEF WriteStep, ShellStep, ReuseMutex, AcquireBusy, AcquireMutex, PersistMutex, PersistRefused,
     DropMutex, MutexStepThrows, RenewMutex, RenewAbandons, BodyCancels, BodyThrows, BodyFinalizes,
     CleanupReleases, CleanupFails, ShellReturns
<1>2. ASSUME NEW place \in {"drop", "cleanup", "left"}, Goto(t, place)
      PROVE  \A u \in Tokens : SeesStep(u)
  BY <1>0, <1>2 DEF Goto, Shell, SeesStep
<1>3. CASE ReuseMutex(t)
  BY <1>0, <1>1, <1>3 DEF ReuseMutex, Goto, Shell, SeesStep
<1>4. CASE \E m \in Mutexes : AcquireMutex(t, m)
  BY <1>0, <1>1, <1>4 DEF AcquireMutex, Shell, SeesStep
<1>5. CASE PersistMutex(t)
  <2>1. \A u \in Tokens \ {t} : shell'[u] = shell[u]
    BY <1>5 DEF PersistMutex, Goto
  <2> QED
    BY <1>1, <1>5, <2>1 DEF SeesStep
<1>6. CASE RenewMutex(t) \/ RenewAbandons(t)
  BY <1>0, <1>1, <1>6 DEF RenewMutex, RenewAbandons, Shell, SeesStep
<1>7. CASE shell' = [shell EXCEPT ![t] = NoShell]
  BY <1>0, <1>1, <1>7 DEF NoShell, SeesStep
<1> QED
  BY <1>1, <1>2, <1>3, <1>4, <1>5, <1>6, <1>7 DEF ShellStep, AcquireBusy, PersistRefused, DropMutex,
     MutexStepThrows, BodyCancels, BodyThrows, BodyFinalizes, CleanupReleases, CleanupFails, ShellReturns

LEMMA ShellNextSees ==
  ASSUME SInv, [ShellNext]_allVars
  PROVE  WriteStep /\ \A t \in Tokens : SeesStep(t)
<1>1. CASE jobMutex' = jobMutex /\ shell' = shell
  BY <1>1 DEF WriteStep, SeesStep
<1>2. CASE \E t \in Tokens : ShellStep(t)
  BY <1>2, ShellStepSees
<1>3. ASSUME NEW w \in Workers, NEW j \in Jobs, NEW t \in Tokens, ShellClaim(w, j, t)
      PROVE  WriteStep /\ \A u \in Tokens : SeesStep(u)
  <2>1. jobMutex' = jobMutex /\ \A u \in Tokens \ {t} : shell'[u] = shell[u]
    BY <1>3 DEF ShellClaim
  <2> QED
    BY <1>3, <2>1 DEF WriteStep, SeesStep
<1>4. ASSUME NEW w \in Workers, ProcessEnds(w)
      PROVE  WriteStep /\ \A u \in Tokens : SeesStep(u)
  BY <1>4 DEF ProcessEnds, WriteStep, SeesStep, NoShell
<1> QED
  BY <1>1, <1>2, <1>3, <1>4 DEF ShellNext, allVars, shellVars, MutexLapses, MutexJanitor,
     ShellReapStuckRuns, ShellRunReaper

LEMMA HolderSeesKept ==
  IInv /\ SInv /\ HolderSeesMutex /\ [ShellNext]_allVars => HolderSeesMutex'
<1> SUFFICES ASSUME IInv, SInv, HolderSeesMutex, [ShellNext]_allVars,
                    NEW t \in Tokens, shell'[t].at \in {"start", "body"}, Holds(t)'
             PROVE  jobMutex'[att'[t].job] = shell'[t].m
  BY DEF HolderSeesMutex
<1>0. jobMutex \in [Jobs -> Mutexes \cup {None}]
  BY DEF SInv, ShellTypeOK
<1>1. WriteStep /\ SeesStep(t)
  BY ShellNextSees
<1>2. JobFrame /\ AttFrame
  BY ShellNextImplements, JobFrameStep, AttFrameStep
<1>3. SInv'
  BY ShellNextKeeps
<1>4. ASSUME NEW w \in Workers, NEW j \in Jobs, ShellClaim(w, j, t)
      PROVE  jobMutex'[att'[t].job] = shell'[t].m
  BY <1>4 DEF ShellClaim, Claim, NewAttempt, IInv, TypeOK, SInv, ShellTypeOK
<1>5. ASSUME shell[t].at # "idle"
      PROVE  Holds(t) /\ att'[t].job = att[t].job
  <2>1. att[t].hnd # "gone" /\ att'[t].hnd # "gone"
    BY <1>3, <1>5 DEF SInv, ShellHasAttempt
  <2>2. att'[t].job = att[t].job /\ att'[t].owner = att[t].owner
    BY <1>2, <2>1 DEF AttFrame
  <2>3. ~ FreshToken(t)
    BY <2>1 DEF FreshToken, NoAttempt
  <2> QED
    BY <1>2, <2>2, <2>3 DEF Holds, JobFrame, SameLease
<1>6. CASE PersistMutex(t)
  <2>1. Holds(t) /\ shell[t].at = "persist"
    BY <1>6 DEF PersistMutex
  <2>2. att[t].job \in Jobs /\ att'[t].job = att[t].job
    BY <1>5, <2>1 DEF Holds
  <2>3. jobMutex' = [jobMutex EXCEPT ![att[t].job] = shell[t].m] /\ shell'[t].m = shell[t].m
    BY <1>6 DEF PersistMutex, Goto, SInv, ShellTypeOK, Shell
  <2> QED
    BY <1>0, <2>2, <2>3
<1>7. CASE shell[t].at \in {"start", "body"} /\ shell'[t].m = shell[t].m
  <2>1. Holds(t) /\ att'[t].job = att[t].job
    BY <1>5, <1>7
  <2>2. jobMutex[att[t].job] = shell[t].m
    BY <1>7, <2>1 DEF HolderSeesMutex
  <2>3. ASSUME NEW u \in Tokens, shell[u].at = "persist", Holds(u),
               jobMutex' = [jobMutex EXCEPT ![att[u].job] = shell[u].m]
        PROVE  jobMutex'[att[t].job] = jobMutex[att[t].job]
    <3>1. att[u].job # att[t].job
      BY <1>7, <2>1, <2>3 DEF Holds
    <3> QED
      BY <1>0, <2>3, <3>1
  <2> QED
    BY <1>1, <1>7, <2>1, <2>2, <2>3 DEF WriteStep
<1> QED
  BY <1>1, <1>4, <1>6, <1>7 DEF SeesStep

(* The lease holder's pipeline always works under the mutex its job row names, *)
(* so a re-run can reuse that mutex and the reaper can release it; a stale      *)
(* attempt never overwrites the id.                                             *)
THEOREM HolderMutexIsOnJob == ShellSpec => []HolderMutexOnJob
<1>1. ShellInit => HolderSeesMutex
  BY DEF ShellInit, HolderSeesMutex, NoShell
<1>2. HolderSeesMutex => HolderMutexOnJob
  BY DEF HolderSeesMutex, HolderMutexOnJob
<1> QED
  BY <1>1, <1>2, HolderSeesKept, ShellInvariance, PTL DEF ShellSpec

(* acquireOrSteal, the job's mutex column and the janitor together: the      *)
(* mutex is sound for every number of runs, jobs, workers and mutexes.        *)
THEOREM MutexStaysSound == ShellSpec => []MutexSound
<1>1. ShellTypeOK /\ OneLiveMutexPerReview /\ MutexSerialisesRuns /\ HolderMutexOnJob => MutexSound
  BY DEF MutexSound
<1> QED
  BY <1>1, ShellTypeCorrect, OneLiveMutex, RunsSerialised, HolderMutexIsOnJob, PTL

(* Pushes, redelivery and the reapers leave jobs and runs consistent, give a  *)
(* run one active job, and never put two runs of a pull request to work under *)
(* its mutex.                                                                 *)
THEOREM PushesStaySound == ShellSpec => []PushesSound
<1>1. JobsSound /\ OneActiveJobPerRun /\ MutexSerialisesRuns => PushesSound
  BY DEF PushesSound
<1>2. ShellSpec => Spec
  BY ShellRefinesJobs DEF ShellImplementsJobs
<1> QED
  BY <1>1, <1>2, JobsStaySound, OneActiveJob, RunsSerialised, PTL

-----------------------------------------------------------------------------
(* Who may release a mutex whose lease still runs. *)

ForOwnRun(m) ==
  \/ \E t \in Tokens : /\ shell[t].m = m /\ shell[t].at \in {"cleanup", "drop"}
                       /\ RunOf(t) = mutex[m].holder
  \/ \E j \in Jobs : /\ jobMutex[j] = m /\ job[j].run = mutex[m].holder
                     /\ job'[j].state \in {"done", "dead", "cancelled"}

ReleaseStep(m) == IsLive(m) /\ mutex[m].valid /\ mutex'[m] = Released => ForOwnRun(m)

LEMMA ReleasesOnly ==
  ASSUME NEW ids, mutex' = Release(ids), NEW m \in Mutexes, IsLive(m), mutex'[m] = Released
  PROVE  m \in ids
  BY DEF Release, Released, IsLive

(* A change of the lease alone releases nothing. *)
LEMMA LeaseReleasesNothing ==
  ASSUME mutex \in [Mutexes -> MutexRow], NEW n \in Mutexes, NEW b \in BOOLEAN,
         mutex' = [mutex EXCEPT ![n].valid = b]
  PROVE  \A m \in Mutexes : ReleaseStep(m)
<1>1. \A m \in Mutexes : mutex'[m].holder = mutex[m].holder
  BY DEF MutexRow, Released
<1> QED
  BY <1>1 DEF ReleaseStep, IsLive, Released

LEMMA ShellStepReleases ==
  ASSUME IInv, SInv, NEW t \in Tokens, ShellStep(t), NEW m \in Mutexes
  PROVE  ReleaseStep(m)
<1>0. mutex \in [Mutexes -> MutexRow]
  BY DEF SInv, ShellTypeOK
<1>1. CASE mutex' = mutex
  BY <1>1 DEF ReleaseStep, IsLive, Released
<1>2. CASE ReuseMutex(t)
  <2>1. shell[t].m \in Mutexes /\ mutex' = [mutex EXCEPT ![shell[t].m].valid = TRUE]
    BY <1>2 DEF ReuseMutex, Reusable, LiveOf
  <2> QED
    BY <1>0, <2>1, LeaseReleasesNothing
<1>3. CASE RenewMutex(t)
  <2>1. shell[t].m \in Mutexes /\ mutex' = [mutex EXCEPT ![shell[t].m].valid = TRUE]
    BY <1>3 DEF RenewMutex, SInv, ShellHasMutex
  <2> QED
    BY <1>0, <2>1, LeaseReleasesNothing
<1>4. ASSUME NEW n \in Mutexes, AcquireMutex(t, n), IsLive(m), mutex[m].valid, mutex'[m] = Released
      PROVE  FALSE
  <2> DEFINE kept == Release(LiveOf(ReviewOf(t)))
  <2>1. mutex' = [kept EXCEPT ![n] = Held(RunOf(t))] /\ ~ IsLive(n)
    BY <1>4 DEF AcquireMutex, FreshMutex
  <2>2. kept \in [Mutexes -> MutexRow]
    BY <1>0, ReleaseRow
  <2>3. m # n
    BY <1>4, <2>1
  <2> HIDE DEF kept
  <2>4. mutex'[m] = kept[m]
    BY <2>1, <2>2, <2>3
  <2>5. kept[m] = mutex[m]
    BY <1>4 DEF kept, Release, AcquireMutex
  <2> QED
    BY <1>4, <2>4, <2>5 DEF IsLive, Released
<1>5. CASE shell[t].at \in {"cleanup", "drop"} /\ mutex' = Release({shell[t].m})
  <2> SUFFICES ASSUME IsLive(m), mutex'[m] = Released PROVE ForOwnRun(m)
    BY DEF ReleaseStep
  <2>1. shell[t].m = m
    BY <1>5, ReleasesOnly
  <2> QED
    BY <1>5, <2>1 DEF SInv, ShellOwnsMutex, ForOwnRun
<1> QED
  BY <1>1, <1>2, <1>3, <1>4, <1>5 DEF ReleaseStep, ShellStep, AcquireBusy, PersistMutex, PersistRefused,
     DropMutex, MutexStepThrows, RenewAbandons, BodyCancels, BodyThrows, BodyFinalizes,
     CleanupReleases, CleanupFails, ShellReturns, shellVars

LEMMA ReapersRelease ==
  ASSUME IInv, SInv, NEW dead \in SUBSET Jobs, mutex' = Release({jobMutex[j] : j \in dead}),
         \A j \in dead : jobMutex[j] \in Mutexes => job'[j].state \in {"done", "dead", "cancelled"},
         NEW m \in Mutexes
  PROVE  ReleaseStep(m)
<1> SUFFICES ASSUME IsLive(m), mutex'[m] = Released PROVE ForOwnRun(m)
  BY DEF ReleaseStep
<1>1. PICK j \in dead : jobMutex[j] = m
  BY ReleasesOnly
<1> QED
  BY <1>1 DEF SInv, JobOwnsMutex, ForOwnRun

LEMMA ShellNextReleases ==
  ASSUME IInv, SInv, [ShellNext]_allVars, NEW m \in Mutexes
  PROVE  ReleaseStep(m)
<1>0. mutex \in [Mutexes -> MutexRow]
  BY DEF SInv, ShellTypeOK
<1>1. CASE mutex' = mutex
  BY <1>1 DEF ReleaseStep, IsLive, Released
<1>2. CASE \E t \in Tokens : ShellStep(t)
  BY <1>2, ShellStepReleases
<1>3. ASSUME NEW n \in Mutexes, MutexLapses(n) PROVE ReleaseStep(m)
  BY <1>0, <1>3, LeaseReleasesNothing DEF MutexLapses
<1>4. ASSUME NEW n \in Mutexes, MutexJanitor(n) PROVE ReleaseStep(m)
  BY <1>4, ReleasesOnly DEF MutexJanitor, ReleaseStep
<1>5. ASSUME NEW w \in Workers, ShellReapStuckRuns(w) PROVE ReleaseStep(m)
  <2> DEFINE dead == {k \in Jobs : Stuck(k) /\ job'[k].state = "dead"}
  <2>1. mutex' = Release({jobMutex[j] : j \in dead})
    BY <1>5 DEF ShellReapStuckRuns
  <2>2. dead \in SUBSET Jobs /\ \A j \in dead : job'[j].state = "dead"
    OBVIOUS
  <2> HIDE DEF dead
  <2> QED
    BY <2>1, <2>2, ReapersRelease
<1>6. ASSUME NEW r \in Runs, ShellRunReaper(r) PROVE ReleaseStep(m)
  <2> DEFINE dead == {k \in Jobs : job[k].run = r}
  <2>1. job' = job /\ \A j \in dead : job[j].state \notin {"ready", "leased"}
    BY <1>6 DEF ShellRunReaper, ReviewRunReaper, IsActive
  <2>2. \A j \in dead : jobMutex[j] \in Mutexes => job[j].state # "absent"
    BY DEF SInv, JobOwnsMutex
  <2>3. \A j \in dead : job[j].state \in {"absent", "ready", "leased", "done", "dead", "cancelled"}
    BY DEF IInv, TypeOK, JobRow
  <2>4. mutex' = Release({jobMutex[j] : j \in dead})
    BY <1>6 DEF ShellRunReaper
  <2>5. \A j \in dead : jobMutex[j] \in Mutexes => job'[j].state \in {"done", "dead", "cancelled"}
    BY <2>1, <2>2, <2>3
  <2> HIDE DEF dead
  <2>6. dead \in SUBSET Jobs
    BY DEF dead
  <2> QED
    BY <2>4, <2>5, <2>6, ReapersRelease
<1> QED
  BY <1>1, <1>2, <1>3, <1>4, <1>5, <1>6 DEF ShellNext, allVars, shellVars, ShellClaim, ProcessEnds

(* A mutex with a running lease is released only for its own run: by one of   *)
(* that run's attempts, or by a reaper whose job of that run is over; another *)
(* run's acquire takes only expired rows.                                     *)
THEOREM ReleasedForOwnRun == ShellSpec => ValidMutexReleasedByOwnRun
<1>1. IInv /\ SInv /\ [ShellNext]_allVars => \A m \in Mutexes : ReleaseStep(m)
  BY ShellNextReleases
<1>2. (\A m \in Mutexes : ReleaseStep(m))
        => [\A m \in Mutexes :
             IsLive(m) /\ mutex[m].valid /\ mutex'[m] = Released
               => \/ \E t \in Tokens : /\ shell[t].m = m /\ shell[t].at \in {"cleanup", "drop"}
                                       /\ RunOf(t) = mutex[m].holder
                  \/ \E j \in Jobs : /\ jobMutex[j] = m /\ job[j].run = mutex[m].holder
                                     /\ job'[j].state \in {"done", "dead", "cancelled"}]_allVars
  BY DEF ReleaseStep, ForOwnRun
<1> QED
  BY <1>1, <1>2, ShellInvariance, PTL DEF ShellSpec, ValidMutexReleasedByOwnRun
=============================================================================
