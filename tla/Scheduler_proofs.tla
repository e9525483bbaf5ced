--------------------------- MODULE Scheduler_proofs ---------------------------
(***************************************************************************)
(* Proofs about BackgroundJobs and Scheduler, for any number of pods, jobs *)
(* and schedules: no job is charged more attempts than it has, a live      *)
(* lease is ended by its holder alone, a tick gets one job unless a poll   *)
(* that had enqueued for it was torn, and every schedule behaves as Ticks. *)
(***************************************************************************)
EXTENDS Scheduler, TLAPS

-----------------------------------------------------------------------------
(* The job table. A ready row has an attempt left: that is why a claim, which *)
(* does not look at the budget of a ready row, never exceeds it.              *)

RowOk(x) == x \in JobRow /\ (x.state = "ready" => x.attempts < MaxAttempts)

JInv == JobsTypeOK /\ \A j \in Jobs : RowOk(job[j])

IsActive(x) == x.state \in {"ready", "leased"}

LEMMA FreshOk ==
  ASSUME NEW k \in Keys, NEW p
  PROVE  /\ RowOk(FreshRow(k, p)) /\ FreshRow(k, p).key = k /\ FreshRow(k, p).state = "ready"
         /\ RowOk([FreshRow(k, p) EXCEPT !.state = "absent"])
         /\ ~ IsActive([FreshRow(k, p) EXCEPT !.state = "absent"])
<1> DEFINE b == p \notin OldPods
           x == FreshRow(k, p)
<1>1. b \in BOOLEAN
  OBVIOUS
<1>2. x = [state |-> "ready", key |-> k, attempts |-> 0, holder |-> NoPod, newer |-> b,
           ripe |-> TRUE, lapsed |-> FALSE, overdue |-> FALSE]
  BY DEF FreshRow
<1> HIDE DEF b, x
<1>3. x \in JobRow /\ x.attempts = 0 /\ x.key = k /\ x.state = "ready"
  BY <1>1, <1>2, BackgroundAssumption DEF JobRow
<1>4. [x EXCEPT !.state = "absent"] \in JobRow /\ [x EXCEPT !.state = "absent"].state = "absent"
  BY <1>3 DEF JobRow
<1> QED
  BY <1>3, <1>4, BackgroundAssumption DEF RowOk, IsActive, x

LEMMA UnleasedOk ==
  ASSUME NEW x \in JobRow, NEW st \in {"ready", "done", "dead"},
         st = "ready" => x.attempts < MaxAttempts
  PROVE  RowOk(Unleased(x, st)) /\ Unleased(x, st).key = x.key /\ Unleased(x, st).state = st
  BY DEF Unleased, RowOk, JobRow

LEMMA LeasedOk ==
  ASSUME NEW x, RowOk(x), NEW p \in Pods, x.attempts < MaxAttempts
  PROVE  /\ RowOk(Leased(x, p)) /\ Leased(x, p).key = x.key /\ Leased(x, p).state = "leased"
<1>1. x.attempts + 1 \in 0..MaxAttempts
  BY BackgroundAssumption DEF RowOk, JobRow
<1> QED
  BY <1>1 DEF Leased, RowOk, JobRow

LEMMA SettledOk ==
  ASSUME NEW x, RowOk(x), x.state = "leased", NEW v \in Verdicts
  PROVE  RowOk(Settled(x, v)) /\ Settled(x, v).key = x.key
<1>0. x \in JobRow /\ x.attempts \in 0..MaxAttempts
  BY DEF RowOk, JobRow
<1>1. CASE v = "ok"
  BY <1>0, <1>1, UnleasedOk DEF Settled
<1>2. CASE v = "retry"
  <2>1. Settled(x, v) = Unleased(x, IF x.attempts >= MaxAttempts THEN "dead" ELSE "ready")
    BY <1>2 DEF Settled
  <2>2. x.attempts >= MaxAttempts \/ x.attempts < MaxAttempts
    BY <1>0, BackgroundAssumption
  <2> QED
    BY <1>0, <2>1, <2>2, UnleasedOk
<1>3. CASE v = "throttled"
  <2> DEFINE y == [x EXCEPT !.attempts = IF @ > 0 THEN @ - 1 ELSE 0]
  <2>1. y \in JobRow /\ y.key = x.key /\ y.attempts < MaxAttempts
    BY <1>0, BackgroundAssumption DEF JobRow
  <2>2. Settled(x, v) = Unleased(y, "ready")
    BY <1>3 DEF Settled
  <2> HIDE DEF y
  <2> QED
    BY <2>1, <2>2, UnleasedOk
<1>4. CASE v = "poison"
  BY <1>0, <1>4, UnleasedOk DEF Settled
<1> QED
  BY <1>1, <1>2, <1>3, <1>4 DEF Verdicts

(* How the job table may change: rows stay sound, and what is active after    *)
(* the step was active before it, but for a row inserted under key k.         *)
RowStep(j) ==
  /\ RowOk(job'[j])
  /\ IsActive(job'[j]) => IsActive(job[j]) /\ job'[j].key = job[j].key

JobStep == job' \in [Jobs -> JobRow] /\ \A j \in Jobs : RowStep(j)

LEMMA OneRow ==
  ASSUME JInv, NEW k, NEW x, job' = [job EXCEPT ![k] = x],
         k \in Jobs => RowOk(x) /\ (IsActive(x) => IsActive(job[k]) /\ x.key = job[k].key)
  PROVE  JobStep
<1>0. job \in [Jobs -> JobRow] /\ \A j \in Jobs : RowOk(job[j])
  BY DEF JInv, JobsTypeOK
<1>1. CASE k \in Jobs
  <2>1. x \in JobRow
    BY <1>1 DEF RowOk
  <2>2. job' \in [Jobs -> JobRow] /\ job'[k] = x /\ \A j \in Jobs \ {k} : job'[j] = job[j]
    BY <1>0, <1>1, <2>1
  <2> QED
    BY <1>0, <1>1, <2>2 DEF JobStep, RowStep
<1>2. CASE k \notin Jobs
  <2>1. job' = job
    BY <1>0, <1>2
  <2> QED
    BY <1>0, <2>1 DEF JobStep, RowStep
<1> QED
  BY <1>1, <1>2

LEMMA NoRowStep == ASSUME JInv, job' = job PROVE JobStep
  BY DEF JInv, JobsTypeOK, JobStep, RowStep

LEMMA SettleStep ==
  ASSUME JInv, NEW p \in Pods, runner[p].at \in Verdicts, job' \in {job, AfterSettle(p)}
  PROVE  JobStep
<1> DEFINE k == runner[p].job
<1>1. CASE job' = job
  BY <1>1, NoRowStep
<1>2. CASE Holds(p) /\ job' = [job EXCEPT ![k] = Settled(job[k], runner[p].at)]
  <2>1. k \in Jobs => RowOk(job[k]) /\ job[k].state = "leased"
    BY <1>2 DEF JInv, Holds
  <2>2. k \in Jobs => RowOk(Settled(job[k], runner[p].at)) /\ Settled(job[k], runner[p].at).key = job[k].key
    BY <2>1, SettledOk
  <2> HIDE DEF k
  <2> QED
    BY <1>2, <2>1, <2>2, OneRow DEF IsActive
<1> QED
  BY <1>1, <1>2 DEF AfterSettle

LEMMA LeaseStep ==
  ASSUME JInv, NEW p \in Pods, NEW j \in Jobs, Claimable(j), job' = [job EXCEPT ![j] = Leased(job[j], p)]
  PROVE  JobStep
<1>1. RowOk(job[j]) /\ job[j].attempts < MaxAttempts /\ IsActive(job[j])
  BY DEF JInv, Claimable, RowOk, IsActive
<1>2. RowOk(Leased(job[j], p)) /\ Leased(job[j], p).key = job[j].key
  BY <1>1, LeasedOk
<1> QED
  BY <1>1, <1>2, OneRow

(* The flags that time moves. *)
LEMMA FlagStep ==
  ASSUME JInv, NEW k,
         \/ job' = [job EXCEPT ![k].ripe = TRUE]
         \/ job' = [job EXCEPT ![k].overdue = TRUE]
         \/ \E b \in BOOLEAN : job' = [job EXCEPT ![k].lapsed = b]
  PROVE  JobStep
<1>1. ASSUME NEW x, job' = [job EXCEPT ![k] = x],
             k \in Jobs => RowOk(x) /\ x.state = job[k].state /\ x.key = job[k].key
      PROVE  JobStep
  BY <1>1, OneRow DEF IsActive
<1>2. k \in Jobs => job[k] \in JobRow /\ RowOk(job[k])
  BY DEF JInv, JobsTypeOK
<1>3. CASE job' = [job EXCEPT ![k].ripe = TRUE]
  BY <1>1, <1>2, <1>3 DEF RowOk, JobRow
<1>4. CASE job' = [job EXCEPT ![k].overdue = TRUE]
  BY <1>1, <1>2, <1>4 DEF RowOk, JobRow
<1>5. CASE \E b \in BOOLEAN : job' = [job EXCEPT ![k].lapsed = b]
  BY <1>1, <1>2, <1>5 DEF RowOk, JobRow
<1> QED
  BY <1>3, <1>4, <1>5

LEMMA InsertStep ==
  ASSUME JInv, NEW k \in Keys, NEW p, InsertRow(k, p)
  PROVE  /\ job' \in [Jobs -> JobRow] /\ \A j \in Jobs : RowOk(job'[j])
         /\ \A s : s # k => (Conflicts(s)' <=> Conflicts(s))
         /\ ~ Conflicts(k) /\ Conflicts(k)'
<1>0. job \in [Jobs -> JobRow] /\ \A j \in Jobs : RowOk(job[j])
  BY DEF JInv, JobsTypeOK
<1>1. PICK j \in Jobs : ~ Active(j) /\ job' = [job EXCEPT ![j] = FreshRow(k, p)]
  BY DEF InsertRow
<1>2. RowOk(FreshRow(k, p)) /\ FreshRow(k, p).key = k /\ FreshRow(k, p).state = "ready"
  BY FreshOk
<1>3. /\ job' \in [Jobs -> JobRow] /\ job'[j] = FreshRow(k, p)
      /\ \A i \in Jobs \ {j} : job'[i] = job[i]
  BY <1>0, <1>1, <1>2 DEF RowOk
<1>4. \A i \in Jobs : RowOk(job'[i])
  BY <1>0, <1>2, <1>3
<1>5. \A s : s # k => (Conflicts(s)' <=> Conflicts(s))
  BY <1>1, <1>2, <1>3 DEF Conflicts, Keyed, Active
<1>6. ~ Conflicts(k) /\ Conflicts(k)'
  BY <1>2, <1>3 DEF InsertRow, Conflicts, Keyed, Active
<1> QED
  BY <1>3, <1>4, <1>5, <1>6

(* A step that inserts nothing ends conflicts, or leaves them. *)
LEMMA JobStepConflicts ==
  ASSUME JobStep
  PROVE  \A s : Conflicts(s)' => Conflicts(s)
  BY DEF JobStep, RowStep, IsActive, Conflicts, Keyed, Active

LEMMA RunnerStep ==
  ASSUME JInv, NEW p \in Pods, NEW y \in Runner, runner' = [runner EXCEPT ![p] = y]
  PROVE  runner' \in [Pods -> Runner]
  BY DEF JInv, JobsTypeOK

LEMMA JobsNextStep ==
  ASSUME JInv, JobsNext
  PROVE  /\ runner' \in [Pods -> Runner]
         /\ JobStep \/ \E p \in Pods, k \in SinkKeys : InsertRow(k, p)
<1>0. runner \in [Pods -> Runner] /\ Idle \in Runner /\ Down \in Runner
  BY DEF JInv, JobsTypeOK, Runner, Idle, Down
<1>1. ASSUME NEW j \in Jobs, Ripens(j) \/ Lapses(j) \/ TimesOut(j)
      PROVE  runner' = runner /\ JobStep
  BY <1>1, FlagStep DEF Ripens, Lapses, TimesOut
<1>2. ASSUME NEW j \in Jobs, Retire(j) PROVE runner' = runner /\ JobStep
  <2> DEFINE x == [FreshRow(job[j].key, NoPod) EXCEPT !.state = "absent"]
  <2>1. runner' = runner /\ job' = [job EXCEPT ![j] = x]
    BY <1>2 DEF Retire
  <2>2. RowOk(x) /\ ~ IsActive(x)
    BY FreshOk DEF JInv, JobsTypeOK, JobRow
  <2> HIDE DEF x
  <2> QED
    BY <2>1, <2>2, OneRow
<1>3. ASSUME NEW p \in Pods, NEW j \in Jobs, Claim(p, j) \/ ClaimThrows(p, j)
      PROVE  runner' \in [Pods -> Runner] /\ JobStep
  <2>1. [at |-> Verdict(p, j), job |-> j] \in Runner
    BY DEF Verdict, Runner, Verdicts
  <2>2. runner' \in [Pods -> Runner]
    BY <1>0, <1>3, <2>1, RunnerStep DEF Claim, ClaimThrows
  <2>3. Claimable(j) /\ (job' = job \/ job' = [job EXCEPT ![j] = Leased(job[j], p)])
    BY <1>3 DEF Claim, ClaimThrows
  <2> QED
    BY <2>2, <2>3, LeaseStep, NoRowStep
<1>4. ASSUME NEW p \in Pods, NEW v \in Verdicts, HandlerEnds(p, v)
      PROVE  runner' \in [Pods -> Runner] /\ JobStep
  BY <1>0, <1>4, NoRowStep DEF HandlerEnds, Runner
<1>5. ASSUME NEW p \in Pods, Heartbeat(p) PROVE runner' = runner /\ JobStep
  BY <1>5, FlagStep DEF Heartbeat
<1>6. ASSUME NEW p \in Pods, Settle(p) \/ SettleThrows(p)
      PROVE  runner' \in [Pods -> Runner] /\ JobStep
  <2>1. JobStep
    BY <1>6, SettleStep DEF Settle, SettleThrows
  <2>2. [runner[p] EXCEPT !.at = "retry"] \in Runner
    BY <1>0 DEF Runner, Verdicts
  <2>3. runner' \in [Pods -> Runner]
    BY <1>0, <1>6, <2>2 DEF Settle, SettleThrows
  <2> QED
    BY <2>1, <2>3
<1>7. ASSUME NEW p \in Pods, ReapStuckRuns(p) PROVE runner' = runner /\ JobStep
  <2>1. runner' = runner
        /\ job' = [j \in Jobs |-> IF Stuck(j) THEN Unleased(job[j], "dead") ELSE job[j]]
    BY <1>7 DEF ReapStuckRuns
  <2>2. ASSUME NEW j \in Jobs PROVE RowStep(j)
    <3>1. job[j] \in JobRow /\ RowOk(job[j])
      BY DEF JInv, JobsTypeOK
    <3>2. CASE job'[j] = job[j]
      BY <3>1, <3>2 DEF RowStep
    <3>3. CASE job'[j] = Unleased(job[j], "dead")
      BY <3>1, <3>3, UnleasedOk DEF RowStep, IsActive
    <3> QED
      BY <2>1, <3>2, <3>3
  <2> QED
    BY <2>1, <2>2 DEF JobStep, RowStep, RowOk
<1>8. ASSUME NEW p \in Pods, NEW k \in SinkKeys, StartWorkflow(p, k)
      PROVE  runner' = runner /\ InsertRow(k, p)
  BY <1>8 DEF StartWorkflow
<1> QED
  BY <1>0, <1>1, <1>2, <1>3, <1>4, <1>5, <1>6, <1>7, <1>8 DEF JobsNext

LEMMA ForgetStep ==
  ASSUME JInv, NEW p \in Pods, JobsForget(p)
  PROVE  /\ runner' \in [Pods -> Runner]
         /\ JobStep /\ \A s : Conflicts(s)' <=> Conflicts(s)
<1>0. job \in [Jobs -> JobRow] /\ \A j \in Jobs : RowOk(job[j])
  BY DEF JInv, JobsTypeOK
<1>1. runner' \in [Pods -> Runner]
  BY RunnerStep DEF JobsForget, Idle, Runner
<1>2. ASSUME NEW j \in Jobs
      PROVE  RowOk(job'[j]) /\ job'[j].state = job[j].state /\ job'[j].key = job[j].key
  <2>1. job'[j] = job[j] \/ job'[j] = [job[j] EXCEPT !.holder = NoPod]
    BY DEF JobsForget
  <2> QED
    BY <1>0, <2>1 DEF RowOk, JobRow
<1>3. job' \in [Jobs -> JobRow]
  BY <1>2 DEF RowOk, JobsForget
<1>4. JobStep
  BY <1>2, <1>3 DEF JobStep, RowStep, IsActive
<1>5. \A s : Conflicts(s)' <=> Conflicts(s)
  BY <1>2 DEF Conflicts, Keyed, Active
<1> QED
  BY <1>1, <1>4, <1>5

-----------------------------------------------------------------------------
(* The polls. Mine(c): the rows a poll has handed to the queue for the        *)
(* current tick and not advanced for good yet.                                *)

Mine(c) == c.moved \cup (IF c.at = "advance" THEN {c.cur} ELSE {})

InHand(c) == c.at \in {"insert", "look", "advance"}

Shaped(c) ==
  /\ c \in Poll
  /\ c.todo \subseteq c.rows /\ c.moved \subseteq c.rows /\ c.todo \cap c.moved = {}
  /\ InHand(c) => c.cur \in c.rows /\ c.cur \notin c.todo /\ c.cur \notin c.moved
  /\ c.at \in {"idle", "down"} => c.rows = {}
  /\ c.at = "insert" => c.tries < MaxTries

PollsShaped == \A p \in Pods : Shaped(poll[p])

(* FOR UPDATE: a schedule is locked by one poll, and only while it is due. *)
LocksApart == \A p, q \in Pods : p # q => poll[p].rows \cap poll[q].rows = {}
LockedAreDue == \A p \in Pods : \A s \in poll[p].rows : sched[s] = "due"

(* Why a tick that has had its job is not handed out again: its row is still  *)
(* locked by the poll that did it, or a poll was torn.                        *)
JobsAccounted ==
  \A s \in CronKeys : sched[s] = "due" /\ tick[s].jobs > 0
                        => tick[s].torn \/ \E p \in Pods : s \in Mine(poll[p])

MineServed == \A p \in Pods : \A s \in Mine(poll[p]) : tick[s].served

AbsentIsFresh == \A s \in CronKeys : sched[s] = "absent" => tick[s].jobs = 0

JobsPerTick == \A s \in CronKeys : tick[s].jobs > 1 => tick[s].torn

TypesOK ==
  /\ sched \in [CronKeys -> Cadence] /\ poll \in [Pods -> Poll] /\ tick \in [CronKeys -> Tick]

KInv ==
  /\ JInv
  /\ TypesOK
  /\ PollsShaped
  /\ LocksApart
  /\ LockedAreDue
  /\ JobsAccounted
  /\ MineServed
  /\ AbsentIsFresh
  /\ JobsPerTick

LEMMA MineLocked == ASSUME NEW c, Shaped(c) PROVE Mine(c) \subseteq c.rows
  BY DEF Shaped, Mine, InHand

LEMMA NoPollShaped ==
  /\ Shaped(NoPoll) /\ Shaped([NoPoll EXCEPT !.at = "down"])
  /\ NoPoll.rows = {} /\ [NoPoll EXCEPT !.at = "down"].rows = {}
<1>1. AnyCron \in CronKeys
  BY SchedulesAssumption DEF AnyCron
<1> QED
  BY <1>1 DEF NoPoll, Shaped, Poll, MaxTries, InHand

LEMMA InitKInv == Init => KInv
<1> SUFFICES ASSUME Init PROVE KInv
  OBVIOUS
<1>1. JInv
  <2>1. AnyKey \in Keys
    BY SchedulesAssumption DEF AnyKey, Keys
  <2>2. RowOk([FreshRow(AnyKey, NoPod) EXCEPT !.state = "absent"])
    BY <2>1, FreshOk
  <2>3. Down \in Runner
    BY DEF Down, Runner
  <2> QED
    BY <2>2, <2>3 DEF Init, JobsInit, JInv, JobsTypeOK, RowOk
<1> DEFINE c == [NoPoll EXCEPT !.at = "down"]
<1>2. /\ sched = [s \in CronKeys |-> "absent"] /\ tick = [s \in CronKeys |-> FreshTick]
      /\ poll = [p \in Pods |-> c]
  BY DEF Init
<1>3. Shaped(c) /\ c.rows = {}
  BY NoPollShaped
<1>4. Mine(c) = {}
  BY <1>3, MineLocked
<1>5. c \in Poll
  BY <1>3 DEF Shaped
<1> HIDE DEF c
<1>6. FreshTick \in Tick /\ FreshTick.jobs = 0
  BY DEF FreshTick, Tick
<1>7. TypesOK
  BY <1>2, <1>5, <1>6 DEF TypesOK, Cadence
<1>8. PollsShaped /\ LocksApart /\ LockedAreDue /\ MineServed
  BY <1>2, <1>3, <1>4 DEF PollsShaped, LocksApart, LockedAreDue, MineServed
<1>9. JobsAccounted /\ AbsentIsFresh /\ JobsPerTick
  BY <1>2, <1>6 DEF JobsAccounted, AbsentIsFresh, JobsPerTick
<1> QED
  BY <1>1, <1>7, <1>8, <1>9 DEF KInv

(* A step of p's poll that advances no cadence and keeps p's rows in its hand *)
(* or hands them back.                                                        *)
SeedOnly ==
  /\ sched' \in [CronKeys -> Cadence]
  /\ \A s \in CronKeys : sched'[s] = sched[s] \/ (sched[s] = "absent" /\ sched'[s] = "due")

LEMMA PollStep ==
  ASSUME KInv, JInv', SeedOnly,
         NEW p \in Pods, NEW c, poll' = [poll EXCEPT ![p] = c],
         Shaped(c), c.rows \subseteq poll[p].rows,
         tick' \in [CronKeys -> Tick],
         \A s \in CronKeys : tick[s].served => tick'[s].served,
         \A s \in Mine(c) : tick'[s].served,
         \A s \in CronKeys : sched[s] = "due" /\ tick'[s].jobs > 0
           => tick'[s].torn \/ s \in Mine(c) \/ (s \notin Mine(poll[p]) /\ tick'[s] = tick[s]),
         \A s \in CronKeys : tick'[s].jobs # tick[s].jobs => sched[s] = "due",
         \A s \in CronKeys : tick'[s].jobs > 1 => tick'[s].torn
  PROVE  KInv'
<1>0. TypesOK /\ PollsShaped /\ LocksApart /\ LockedAreDue /\ JobsAccounted /\ MineServed /\ AbsentIsFresh
  BY DEF KInv
<1>1. /\ poll' \in [Pods -> Poll] /\ poll'[p] = c /\ \A q \in Pods \ {p} : poll'[q] = poll[q]
  BY <1>0 DEF TypesOK, Shaped
<1>2. TypesOK' /\ PollsShaped'
  BY <1>0, <1>1 DEF TypesOK, PollsShaped, SeedOnly
<1>3. LocksApart' /\ LockedAreDue'
  <2>1. \A q \in Pods : poll'[q].rows \subseteq poll[q].rows /\ poll[q].rows \subseteq CronKeys
    BY <1>0, <1>1 DEF PollsShaped, Shaped, Poll
  <2>2. LockedAreDue'
    BY <1>0, <2>1 DEF LockedAreDue, SeedOnly
  <2> QED
    BY <1>0, <2>1, <2>2 DEF LocksApart
<1>4. MineServed'
  <2> SUFFICES ASSUME NEW q \in Pods, NEW s \in Mine(poll'[q]) PROVE tick'[s].served
    BY DEF MineServed
  <2>1. CASE q = p
    BY <1>1, <2>1
  <2>2. CASE q # p
    <3>1. s \in Mine(poll[q]) /\ tick[s].served
      BY <1>0, <1>1, <2>2 DEF MineServed
    <3>2. s \in CronKeys
      BY <1>0, <3>1, MineLocked DEF PollsShaped, Shaped, Poll
    <3> QED
      BY <3>1, <3>2
  <2> QED
    BY <2>1, <2>2
<1>5. JobsAccounted'
  <2> SUFFICES ASSUME NEW s \in CronKeys, sched'[s] = "due", tick'[s].jobs > 0, ~ tick'[s].torn
               PROVE  \E q \in Pods : s \in Mine(poll'[q])
    BY DEF JobsAccounted
  <2>0. sched[s] = "due"
    BY <1>0 DEF SeedOnly, AbsentIsFresh
  <2>1. CASE s \in Mine(c)
    BY <1>1, <2>1
  <2>2. CASE s \notin Mine(poll[p]) /\ tick'[s] = tick[s]
    BY <1>0, <1>1, <2>0, <2>2 DEF JobsAccounted
  <2> QED
    BY <2>0, <2>1, <2>2
<1>6. AbsentIsFresh' /\ JobsPerTick'
  BY <1>0 DEF AbsentIsFresh, JobsPerTick, SeedOnly
<1> QED
  BY <1>2, <1>3, <1>4, <1>5, <1>6 DEF KInv

(* The same for a step that leaves the ticks alone too. *)
LEMMA QuietStep ==
  ASSUME KInv, JInv', sched' = sched, tick' = tick,
         NEW p \in Pods, NEW c, poll' = [poll EXCEPT ![p] = c],
         Shaped(c), c.rows \subseteq poll[p].rows, Mine(c) = Mine(poll[p])
  PROVE  KInv'
<1>1. tick \in [CronKeys -> Tick] /\ \A s \in Mine(c) : tick[s].served
  BY DEF KInv, TypesOK, MineServed
<1>2. \A s \in CronKeys : tick[s].jobs > 1 => tick[s].torn
  BY DEF KInv, JobsPerTick
<1>3. SeedOnly
  BY DEF SeedOnly, KInv, TypesOK
<1> QED
  BY <1>1, <1>2, <1>3, PollStep

LEMMA SameJobs == ASSUME JInv, UNCHANGED jobVars PROVE JInv'
  BY DEF JInv, JobsTypeOK, jobVars

-----------------------------------------------------------------------------
LEMMA JobsNextKeeps ==
  ASSUME KInv, JobsNext, UNCHANGED <<sched, poll, tick>>
  PROVE  KInv'
<1>1. JInv'
  BY JobsNextStep, InsertStep DEF KInv, JInv, JobsTypeOK, JobStep, RowStep, Keys
<1> QED
  BY <1>1 DEF KInv, TypesOK, PollsShaped, LocksApart, LockedAreDue, JobsAccounted, MineServed,
     AbsentIsFresh, JobsPerTick

LEMMA FallsDueKeeps == ASSUME KInv, NEW s \in CronKeys, FallsDue(s) PROVE KInv'
<1>0. TypesOK /\ UNCHANGED <<jobVars, poll>> /\ sched[s] = "waiting"
      /\ sched' = [sched EXCEPT ![s] = "due"] /\ tick' = [tick EXCEPT ![s] = FreshTick]
  BY DEF KInv, FallsDue
<1>1. FreshTick \in Tick /\ FreshTick.jobs = 0
  BY DEF FreshTick, Tick
<1>2. TypesOK'
  BY <1>0, <1>1 DEF TypesOK, Cadence
<1>3. \A p \in Pods : s \notin poll[p].rows /\ s \notin Mine(poll[p])
  BY <1>0, MineLocked DEF KInv, LockedAreDue, PollsShaped
<1>4. \A q \in CronKeys \ {s} : sched'[q] = sched[q] /\ tick'[q] = tick[q]
  BY <1>0 DEF TypesOK
<1>5. sched'[s] = "due" /\ tick'[s] = FreshTick
  BY <1>0 DEF TypesOK
<1>6. PollsShaped' /\ LocksApart'
  BY <1>0 DEF KInv, PollsShaped, LocksApart
<1>7. \A p \in Pods : poll[p].rows \subseteq CronKeys /\ Mine(poll[p]) \subseteq CronKeys
  BY MineLocked DEF KInv, PollsShaped, Shaped, Poll
<1>8. LockedAreDue' /\ MineServed'
  BY <1>0, <1>3, <1>4, <1>7 DEF KInv, LockedAreDue, MineServed
<1>9. JobsAccounted' /\ AbsentIsFresh' /\ JobsPerTick'
  BY <1>0, <1>1, <1>4, <1>5 DEF KInv, JobsAccounted, AbsentIsFresh, JobsPerTick
<1>10. JInv'
  BY <1>0, SameJobs DEF KInv
<1> QED
  BY <1>2, <1>6, <1>8, <1>9, <1>10 DEF KInv

(* The lock clause: the rows a poll takes are nobody's. *)
LEMMA PollStartsKeeps == ASSUME KInv, NEW p \in Pods, PollStarts(p) PROVE KInv'
<1> DEFINE due == {s \in CronKeys : Free(s)}
           c == [NoPoll EXCEPT !.at = "rows", !.rows = due, !.todo = due]
<1>0. /\ poll' = [poll EXCEPT ![p] = c] /\ UNCHANGED <<jobVars, sched, tick>>
      /\ poll[p].at = "idle" /\ poll \in [Pods -> Poll]
  BY DEF PollStarts, KInv, TypesOK
<1>1. due \subseteq CronKeys /\ \A s \in due : sched[s] = "due" /\ \A q \in Pods : s \notin poll[q].rows
  BY DEF Free
<1>2. NoPoll \in Poll /\ NoPoll.moved = {}
  BY NoPollShaped DEF Shaped, NoPoll
<1> HIDE DEF due
<1>3. c \in Poll /\ c.at = "rows" /\ c.rows = due /\ c.todo = due /\ c.moved = {}
  BY <1>1, <1>2 DEF Poll
<1> HIDE DEF c
<1>4. Shaped(c) /\ Mine(c) = {}
  BY <1>3 DEF Shaped, Mine, InHand
<1>5. Mine(poll[p]) = {}
  BY <1>0, MineLocked DEF KInv, PollsShaped, Shaped
<1>6. poll' \in [Pods -> Poll] /\ poll'[p] = c /\ \A q \in Pods \ {p} : poll'[q] = poll[q]
  BY <1>0, <1>3
<1>7. TypesOK' /\ PollsShaped'
  BY <1>0, <1>4, <1>6 DEF KInv, TypesOK, PollsShaped
<1>8. LocksApart' /\ LockedAreDue'
  BY <1>0, <1>1, <1>3, <1>6 DEF KInv, LocksApart, LockedAreDue
<1>9. \A q \in Pods : Mine(poll'[q]) = Mine(poll[q])
  BY <1>4, <1>5, <1>6
<1>10. JobsAccounted' /\ MineServed' /\ AbsentIsFresh' /\ JobsPerTick'
  BY <1>0, <1>9 DEF KInv, JobsAccounted, MineServed, AbsentIsFresh, JobsPerTick
<1>11. JInv'
  BY <1>0, SameJobs DEF KInv
<1> QED
  BY <1>7, <1>8, <1>10, <1>11 DEF KInv

LEMMA TakeRowKeeps == ASSUME KInv, NEW p \in Pods, NEW s \in CronKeys, TakeRow(p, s) PROVE KInv'
<1> DEFINE at == IF s \in BadSchedules THEN "rows" ELSE "insert"
           c == [poll[p] EXCEPT !.todo = @ \ {s}, !.cur = s, !.tries = 0, !.at = at]
<1>0. /\ Shaped(poll[p]) /\ poll[p].at = "rows" /\ s \in poll[p].todo
      /\ UNCHANGED <<jobVars, sched, tick>>
  BY DEF TakeRow, KInv, PollsShaped
<1>1. poll' = [poll EXCEPT ![p] = c]
  BY DEF TakeRow, KInv, TypesOK
<1>2. at \in {"rows", "insert"}
  OBVIOUS
<1> HIDE DEF at
<1>3. /\ c \in Poll /\ c.at = at /\ c.todo = poll[p].todo \ {s} /\ c.cur = s /\ c.tries = 0
      /\ c.rows = poll[p].rows /\ c.moved = poll[p].moved
  <2> DEFINE rest == poll[p].todo \ {s}
  <2>1. poll[p] \in Poll /\ rest \in SUBSET CronKeys /\ 0 \in 0..MaxTries
    BY <1>0 DEF Shaped, Poll, MaxTries
  <2> HIDE DEF rest
  <2>2. c = [poll[p] EXCEPT !.todo = rest, !.cur = s, !.tries = 0, !.at = at]
    BY <2>1 DEF rest, Poll
  <2> QED
    BY <1>2, <2>1, <2>2 DEF Poll, rest
<1> HIDE DEF c
<1>4. Shaped(c) /\ Mine(c) = Mine(poll[p])
  BY <1>0, <1>2, <1>3 DEF Shaped, Mine, InHand, MaxTries
<1> QED
  BY <1>0, <1>1, <1>3, <1>4, QuietStep, SameJobs DEF KInv

(* A poll that is about to insert for a tick: if the tick has had a job, a    *)
(* poll was torn, because the row would be locked otherwise.                  *)
LEMMA SecondJobIsTorn ==
  ASSUME KInv, NEW p \in Pods, poll[p].at \in {"insert", "look"}, tick[poll[p].cur].jobs > 0
  PROVE  tick[poll[p].cur].torn
<1> DEFINE s == poll[p].cur
<1>1. Shaped(poll[p]) /\ s \in poll[p].rows /\ s \notin poll[p].moved /\ s \in CronKeys
  BY DEF KInv, PollsShaped, Shaped, InHand, Poll
<1>2. sched[s] = "due"
  BY <1>1 DEF KInv, LockedAreDue
<1>3. s \notin Mine(poll[p])
  BY <1>1 DEF Mine
<1>4. ASSUME NEW q \in Pods, q # p PROVE s \notin Mine(poll[q])
  BY <1>1, <1>4, MineLocked DEF KInv, LocksApart, PollsShaped
<1> QED
  BY <1>1, <1>2, <1>3, <1>4 DEF KInv, JobsAccounted

(* The poll in hand goes on to "advance", "look", "insert" or "rows". *)
LEMMA HandMoves ==
  ASSUME NEW c, Shaped(c), InHand(c), NEW d \in Poll, d.at \in {"look", "insert", "advance", "rows"},
         d.at = "insert" => d.tries < MaxTries,
         d.rows = c.rows, d.moved = c.moved, d.cur = c.cur, d.todo = c.todo
  PROVE  /\ Shaped(d)
         /\ Mine(d) = c.moved \cup (IF d.at = "advance" THEN {c.cur} ELSE {})
  BY DEF Shaped, Mine, InHand

LEMMA PollInsertKeeps == ASSUME KInv, NEW p \in Pods, PollInsert(p) PROVE KInv'
<1> DEFINE s == poll[p].cur
<1>0. /\ Shaped(poll[p]) /\ poll[p].at = "insert" /\ InHand(poll[p]) /\ s \in CronKeys /\ s \in poll[p].rows
      /\ poll[p].tries \in 0..MaxTries /\ poll[p].tries < MaxTries /\ poll[p].moved \subseteq CronKeys
      /\ poll \in [Pods -> Poll] /\ poll[p] \in Poll /\ tick \in [CronKeys -> Tick]
  BY DEF PollInsert, KInv, PollsShaped, Shaped, InHand, TypesOK, Poll
<1>1. sched' = sched /\ sched[s] = "due" /\ runner' = runner
  BY <1>0 DEF PollInsert, KInv, LockedAreDue
<1>2. CASE /\ InsertRow(s, p)
           /\ poll' = [poll EXCEPT ![p].at = "advance"]
           /\ tick' = [tick EXCEPT ![s].served = TRUE, ![s].jobs = IF @ < 2 THEN @ + 1 ELSE @]
  <2> DEFINE c == [poll[p] EXCEPT !.at = "advance", !.tries = poll[p].tries]
  <2>1. poll' = [poll EXCEPT ![p] = c]
    BY <1>0, <1>2 DEF Poll
  <2>2. /\ Shaped(c) /\ c.rows = poll[p].rows /\ Mine(c) = poll[p].moved \cup {s}
    <3>1. /\ c \in Poll /\ c.at = "advance" /\ c.tries = poll[p].tries
          /\ c.rows = poll[p].rows /\ c.moved = poll[p].moved /\ c.cur = s /\ c.todo = poll[p].todo
      BY <1>0 DEF Poll
    <3> HIDE DEF c
    <3> QED
      BY <1>0, <3>1, HandMoves
  <2>3. JInv'
    BY <1>0, <1>1, <1>2, InsertStep DEF KInv, JInv, JobsTypeOK, Keys
  <2>4. tick[s] \in Tick
    BY <1>0
  <2>5. /\ tick' \in [CronKeys -> Tick] /\ \A r \in CronKeys \ {s} : tick'[r] = tick[r]
        /\ tick'[s].served /\ tick'[s].torn = tick[s].torn /\ (tick'[s].jobs > 1 => tick[s].jobs > 0)
    <3> DEFINE n == IF tick[s].jobs < 2 THEN tick[s].jobs + 1 ELSE tick[s].jobs
               x == [tick[s] EXCEPT !.served = TRUE, !.jobs = n]
    <3>1. tick' = [tick EXCEPT ![s] = x]
      BY <1>0, <1>2, <2>4 DEF Tick
    <3>2. n \in 0..2 /\ (n > 1 => tick[s].jobs > 0)
      BY <2>4 DEF Tick
    <3> HIDE DEF n
    <3>3. x \in Tick /\ x.served /\ x.torn = tick[s].torn /\ x.jobs = n
      BY <2>4, <3>2 DEF Tick
    <3> HIDE DEF x
    <3> QED
      BY <1>0, <3>1, <3>2, <3>3
  <2>6. \A r \in CronKeys : tick[r].served => tick'[r].served
    BY <2>5
  <2>7. \A r \in Mine(c) : tick'[r].served
    BY <1>0, <2>2, <2>5 DEF KInv, MineServed, Mine
  <2>8. \A r \in CronKeys : tick'[r].jobs > 1 => tick'[r].torn
    BY <1>0, <2>5, SecondJobIsTorn DEF KInv, JobsPerTick
  <2>9. \A r \in CronKeys : tick'[r].torn \/ r \in Mine(c) \/ (r \notin Mine(poll[p]) /\ tick'[r] = tick[r])
    BY <1>0, <2>2, <2>5 DEF Mine
  <2>10. \A r \in CronKeys : tick'[r].jobs # tick[r].jobs => sched[r] = "due"
    BY <1>1, <2>5
  <2> HIDE DEF c
  <2> QED
    BY <1>1, <2>1, <2>2, <2>3, <2>5, <2>6, <2>7, <2>8, <2>9, <2>10, PollStep DEF SeedOnly, KInv, TypesOK
<1>3. CASE /\ Conflicts(s)
           /\ poll' = [poll EXCEPT ![p].at = "look", ![p].tries = @ + 1]
           /\ UNCHANGED <<job, tick>>
  <2> DEFINE c == [poll[p] EXCEPT !.at = "look", !.tries = poll[p].tries + 1]
  <2>1. poll' = [poll EXCEPT ![p] = c]
    BY <1>0, <1>3 DEF Poll
  <2>2. poll[p].tries + 1 \in 0..MaxTries
    BY <1>0 DEF MaxTries
  <2>3. /\ Shaped(c) /\ c.rows = poll[p].rows /\ Mine(c) = poll[p].moved
    <3>1. /\ c \in Poll /\ c.at = "look" /\ c.tries = poll[p].tries + 1
          /\ c.rows = poll[p].rows /\ c.moved = poll[p].moved /\ c.cur = s /\ c.todo = poll[p].todo
      BY <1>0, <2>2 DEF Poll
    <3> HIDE DEF c
    <3> QED
      BY <1>0, <2>2, <3>1, HandMoves
  <2>4. Mine(poll[p]) = poll[p].moved
    BY <1>0 DEF Mine
  <2>5. JInv'
    BY <1>1, <1>3, SameJobs DEF KInv, jobVars
  <2> HIDE DEF c
  <2> QED
    BY <1>1, <1>3, <2>1, <2>3, <2>4, <2>5, QuietStep
<1> QED
  BY <1>2, <1>3 DEF PollInsert

LEMMA PollLookKeeps == ASSUME KInv, NEW p \in Pods, PollLook(p) PROVE KInv'
<1> DEFINE s == poll[p].cur
<1>0. /\ Shaped(poll[p]) /\ poll[p].at = "look" /\ InHand(poll[p]) /\ s \in CronKeys /\ s \in poll[p].rows
      /\ poll[p].tries \in 0..MaxTries /\ poll[p].moved \subseteq CronKeys
      /\ poll \in [Pods -> Poll] /\ poll[p] \in Poll /\ tick \in [CronKeys -> Tick]
  BY DEF PollLook, KInv, PollsShaped, Shaped, InHand, TypesOK, Poll
<1>1. sched' = sched /\ JInv'
  BY SameJobs DEF PollLook, KInv
<1>2. CASE /\ poll' = [poll EXCEPT ![p].at = "advance"]
           /\ tick' = [tick EXCEPT ![s].served = TRUE]
  <2> DEFINE c == [poll[p] EXCEPT !.at = "advance", !.tries = poll[p].tries]
  <2>1. poll' = [poll EXCEPT ![p] = c]
    BY <1>0, <1>2 DEF Poll
  <2>2. /\ Shaped(c) /\ c.rows = poll[p].rows /\ Mine(c) = poll[p].moved \cup {s}
    <3>1. /\ c \in Poll /\ c.at = "advance" /\ c.tries = poll[p].tries
          /\ c.rows = poll[p].rows /\ c.moved = poll[p].moved /\ c.cur = s /\ c.todo = poll[p].todo
      BY <1>0 DEF Poll
    <3> HIDE DEF c
    <3> QED
      BY <1>0, <3>1, HandMoves
  <2>4. tick[s] \in Tick
    BY <1>0
  <2>5. /\ tick' \in [CronKeys -> Tick] /\ \A r \in CronKeys \ {s} : tick'[r] = tick[r]
        /\ tick'[s].served /\ tick'[s].torn = tick[s].torn /\ tick'[s].jobs = tick[s].jobs
    BY <1>0, <1>2, <2>4 DEF Tick
  <2>6. \A r \in CronKeys : tick[r].served => tick'[r].served
    BY <2>5
  <2>7. \A r \in Mine(c) : tick'[r].served
    BY <1>0, <2>2, <2>5 DEF KInv, MineServed, Mine
  <2>8. \A r \in CronKeys : tick'[r].jobs > 1 => tick'[r].torn
    BY <2>5 DEF KInv, JobsPerTick
  <2>9. \A r \in CronKeys : tick'[r].torn \/ r \in Mine(c) \/ (r \notin Mine(poll[p]) /\ tick'[r] = tick[r])
    BY <1>0, <2>2, <2>5 DEF Mine
  <2>10. \A r \in CronKeys : tick'[r].jobs = tick[r].jobs
    BY <2>5
  <2> HIDE DEF c
  <2> QED
    BY <1>1, <2>1, <2>2, <2>5, <2>6, <2>7, <2>8, <2>9, <2>10, PollStep DEF SeedOnly, KInv, TypesOK
<1>3. CASE poll' = [poll EXCEPT ![p] = LookFailed(@)] /\ UNCHANGED tick
  <2> DEFINE at == IF poll[p].tries < MaxTries THEN "insert" ELSE "rows"
             c == [poll[p] EXCEPT !.at = at, !.tries = poll[p].tries]
  <2>1. poll' = [poll EXCEPT ![p] = c]
    BY <1>0, <1>3 DEF Poll, LookFailed
  <2>2. at \in {"insert", "rows"} /\ (at = "insert" => poll[p].tries < MaxTries)
    OBVIOUS
  <2> HIDE DEF at
  <2>3. /\ Shaped(c) /\ c.rows = poll[p].rows /\ Mine(c) = poll[p].moved
    <3>1. /\ c \in Poll /\ c.at = at /\ c.tries = poll[p].tries
          /\ c.rows = poll[p].rows /\ c.moved = poll[p].moved /\ c.cur = s /\ c.todo = poll[p].todo
      BY <1>0, <2>2 DEF Poll
    <3> HIDE DEF c
    <3> QED
      BY <1>0, <2>2, <3>1, HandMoves
  <2>4. Mine(poll[p]) = poll[p].moved
    BY <1>0 DEF Mine
  <2> HIDE DEF c
  <2> QED
    BY <1>1, <1>3, <2>1, <2>3, <2>4, QuietStep
<1> QED
  BY <1>2, <1>3 DEF PollLook

LEMMA AdvanceRowKeeps == ASSUME KInv, NEW p \in Pods, AdvanceRow(p) PROVE KInv'
<1> DEFINE new == poll[p].moved \cup {poll[p].cur}
           c == [poll[p] EXCEPT !.at = "rows", !.moved = new]
<1>0. /\ Shaped(poll[p]) /\ poll[p].at = "advance" /\ UNCHANGED <<jobVars, sched, tick>>
      /\ poll[p] \in Poll /\ poll \in [Pods -> Poll]
  BY DEF AdvanceRow, KInv, PollsShaped, TypesOK
<1>1. poll' = [poll EXCEPT ![p] = c]
  BY <1>0 DEF AdvanceRow
<1>2. new \in SUBSET CronKeys
  BY <1>0 DEF Poll
<1>3. /\ c \in Poll /\ c.at = "rows" /\ c.moved = new
      /\ c.rows = poll[p].rows /\ c.todo = poll[p].todo
  <2> HIDE DEF new
  <2> QED
    BY <1>0, <1>2 DEF Poll
<1> HIDE DEF c
<1>4. Shaped(c) /\ Mine(c) = Mine(poll[p])
  BY <1>0, <1>3 DEF Shaped, Mine, InHand
<1> HIDE DEF new
<1> QED
  BY <1>0, <1>1, <1>3, <1>4, QuietStep, SameJobs DEF KInv

(* Setting torn for some schedules changes nothing else of the ticks. *)
LEMMA TornStep ==
  ASSUME tick \in [CronKeys -> Tick], NEW S,
         tick' = [s \in CronKeys |-> IF s \in S THEN [tick[s] EXCEPT !.torn = TRUE] ELSE tick[s]]
  PROVE  /\ tick' \in [CronKeys -> Tick]
         /\ \A s \in CronKeys : /\ tick'[s].served = tick[s].served /\ tick'[s].jobs = tick[s].jobs
                                /\ IF s \in S THEN tick'[s].torn = TRUE ELSE tick'[s] = tick[s]
<1>1. ASSUME NEW s \in CronKeys
      PROVE  /\ tick'[s] \in Tick /\ tick'[s].served = tick[s].served /\ tick'[s].jobs = tick[s].jobs
             /\ IF s \in S THEN tick'[s].torn = TRUE ELSE tick'[s] = tick[s]
  BY DEF Tick
<1> QED
  BY <1>1

(* A poll gives up rows it has handed to the queue: their ticks are torn. *)
LEMMA TornKeeps ==
  ASSUME KInv, JInv', SeedOnly, NEW p \in Pods, NEW c, poll' = [poll EXCEPT ![p] = c],
         Shaped(c), c.rows \subseteq poll[p].rows, NEW S,
         tick' = [s \in CronKeys |-> IF s \in S THEN [tick[s] EXCEPT !.torn = TRUE] ELSE tick[s]],
         Mine(c) \subseteq Mine(poll[p]), Mine(poll[p]) \subseteq Mine(c) \cup S
  PROVE  KInv'
<1>1. /\ tick' \in [CronKeys -> Tick]
      /\ \A s \in CronKeys : /\ tick'[s].served = tick[s].served /\ tick'[s].jobs = tick[s].jobs
                             /\ IF s \in S THEN tick'[s].torn = TRUE ELSE tick'[s] = tick[s]
  BY TornStep DEF KInv, TypesOK
<1>2. \A s \in Mine(c) : s \in CronKeys /\ tick[s].served
  BY MineLocked DEF KInv, MineServed, PollsShaped, Shaped, Poll
<1>3. \A s \in CronKeys : tick[s].jobs > 1 => tick[s].torn
  BY DEF KInv, JobsPerTick
<1>4. \A s \in CronKeys : tick'[s].jobs > 1 => tick'[s].torn
  BY <1>1, <1>3
<1>5. \A s \in Mine(c) : tick'[s].served
  BY <1>1, <1>2
<1> QED
  BY <1>1, <1>4, <1>5, PollStep

LEMMA AdvanceFailsKeeps == ASSUME KInv, NEW p \in Pods, AdvanceFails(p) PROVE KInv'
<1> DEFINE c == [poll[p] EXCEPT !.at = "rows"]
           S == {poll[p].cur}
<1>0. /\ Shaped(poll[p]) /\ poll[p].at = "advance" /\ UNCHANGED <<jobVars, sched>>
      /\ poll[p] \in Poll /\ poll \in [Pods -> Poll] /\ tick \in [CronKeys -> Tick]
      /\ sched \in [CronKeys -> Cadence]
  BY DEF AdvanceFails, KInv, PollsShaped, TypesOK
<1>1. poll' = [poll EXCEPT ![p] = c]
  BY <1>0 DEF AdvanceFails
<1>2. /\ c \in Poll /\ c.at = "rows" /\ c.moved = poll[p].moved
      /\ c.rows = poll[p].rows /\ c.todo = poll[p].todo
  BY <1>0 DEF Poll
<1>3. tick' = [s \in CronKeys |-> IF s \in S THEN [tick[s] EXCEPT !.torn = TRUE] ELSE tick[s]]
  BY <1>0 DEF AdvanceFails
<1> HIDE DEF c
<1>4. Shaped(c) /\ Mine(c) \subseteq Mine(poll[p]) /\ Mine(poll[p]) \subseteq Mine(c) \cup S
  BY <1>0, <1>2 DEF Shaped, Mine, InHand
<1>5. SeedOnly /\ JInv'
  BY <1>0, SameJobs DEF SeedOnly, KInv
<1> HIDE DEF S
<1> QED
  BY <1>1, <1>2, <1>3, <1>4, <1>5, TornKeeps

LEMMA EmptyPollKeeps ==
  ASSUME KInv, JInv', SeedOnly, NEW p \in Pods, TearTicks(p),
         poll' = [poll EXCEPT ![p] = NoPoll] \/ poll' = [poll EXCEPT ![p] = [NoPoll EXCEPT !.at = "down"]]
  PROVE  KInv'
<1>1. PICK c \in {NoPoll, [NoPoll EXCEPT !.at = "down"]} : poll' = [poll EXCEPT ![p] = c]
  OBVIOUS
<1>2. Shaped(c) /\ c.rows = {} /\ Mine(c) = {}
  BY NoPollShaped, MineLocked
<1> DEFINE S == Torn(p)
<1>3. tick' = [s \in CronKeys |-> IF s \in S THEN [tick[s] EXCEPT !.torn = TRUE] ELSE tick[s]]
  BY DEF TearTicks
<1>4. Mine(poll[p]) \subseteq Mine(c) \cup S /\ Mine(c) \subseteq Mine(poll[p])
  BY <1>2 DEF Mine, Torn
<1>5. c.rows \subseteq poll[p].rows
  BY <1>2
<1> HIDE DEF S
<1> QED
  BY <1>1, <1>2, <1>3, <1>4, <1>5, TornKeeps

LEMMA PollFailsKeeps == ASSUME KInv, NEW p \in Pods, PollFails(p) PROVE KInv'
<1>1. UNCHANGED <<jobVars, sched>> /\ SeedOnly
  BY DEF PollFails, SeedOnly, KInv, TypesOK
<1> QED
  BY <1>1, EmptyPollKeeps, SameJobs DEF KInv, PollFails

LEMMA PodBootsKeeps == ASSUME KInv, NEW p \in Pods, PodBoots(p) PROVE KInv'
<1>1. JInv'
  BY ForgetStep DEF PodBoots, KInv, JInv, JobsTypeOK, JobStep, RowStep
<1>2. SeedOnly
  BY DEF PodBoots, Seed, SeedOnly, KInv, TypesOK, Cadence
<1> QED
  BY <1>1, <1>2, EmptyPollKeeps DEF PodBoots

LEMMA PollCommitsKeeps == ASSUME KInv, NEW p \in Pods, PollCommits(p) PROVE KInv'
<1>0. /\ poll[p].at = "rows" /\ poll[p].todo = {} /\ UNCHANGED <<jobVars, tick>>
      /\ sched' = [s \in CronKeys |-> IF s \in poll[p].moved THEN "waiting" ELSE sched[s]]
      /\ poll' = [poll EXCEPT ![p] = NoPoll]
  BY DEF PollCommits, Moved
<1>1. TypesOK /\ PollsShaped /\ LocksApart /\ LockedAreDue /\ JobsAccounted /\ MineServed /\ AbsentIsFresh
      /\ JobsPerTick /\ JInv
  BY DEF KInv
<1>2. Shaped(NoPoll) /\ NoPoll.rows = {} /\ Mine(NoPoll) = {}
  BY NoPollShaped, MineLocked
<1>3. /\ poll' \in [Pods -> Poll] /\ poll'[p] = NoPoll /\ \A q \in Pods \ {p} : poll'[q] = poll[q]
  BY <1>0, <1>1, <1>2 DEF TypesOK, Shaped
<1>4. TypesOK' /\ PollsShaped'
  BY <1>0, <1>1, <1>2, <1>3 DEF TypesOK, PollsShaped, Cadence
<1>5. \A s \in CronKeys : sched'[s] = sched[s] \/ (s \in poll[p].rows /\ sched'[s] = "waiting")
  BY <1>0, <1>1 DEF PollsShaped, Shaped
<1>6. LocksApart' /\ LockedAreDue'
  <2>1. \A q \in Pods : poll[q].rows \subseteq CronKeys
    BY <1>1 DEF PollsShaped, Shaped, Poll
  <2> QED
    BY <1>1, <1>2, <1>3, <1>5, <2>1 DEF LocksApart, LockedAreDue
<1>7. MineServed'
  BY <1>0, <1>1, <1>2, <1>3 DEF MineServed
<1>8. JobsAccounted'
  <2> SUFFICES ASSUME NEW s \in CronKeys, sched'[s] = "due", tick[s].jobs > 0, ~ tick[s].torn
               PROVE  \E q \in Pods : s \in Mine(poll'[q])
    BY <1>0 DEF JobsAccounted
  <2>1. sched[s] = "due" /\ s \notin poll[p].moved
    BY <1>0, <1>5
  <2>2. PICK q \in Pods : s \in Mine(poll[q])
    BY <1>1, <2>1 DEF JobsAccounted
  <2>3. q # p
    BY <1>0, <2>1, <2>2 DEF Mine
  <2> QED
    BY <1>3, <2>2, <2>3
<1>9. AbsentIsFresh' /\ JobsPerTick' /\ JInv'
  BY <1>0, <1>1, <1>5, SameJobs DEF AbsentIsFresh, JobsPerTick
<1> QED
  BY <1>4, <1>6, <1>7, <1>8, <1>9 DEF KInv

LEMMA NextKeepsKInv == KInv /\ [Next]_vars => KInv'
<1> SUFFICES ASSUME KInv, [Next]_vars PROVE KInv'
  OBVIOUS
<1>1. CASE UNCHANGED vars
  <2>1. JInv'
    BY <1>1, SameJobs DEF KInv, vars, jobVars
  <2> QED
    BY <1>1, <2>1 DEF vars, KInv, TypesOK, PollsShaped, LocksApart, LockedAreDue, JobsAccounted, MineServed,
       AbsentIsFresh, JobsPerTick
<1>2. CASE JobsNext /\ UNCHANGED <<sched, poll, tick>>
  BY <1>2, JobsNextKeeps
<1>3. CASE \E s \in CronKeys : FallsDue(s)
  BY <1>3, FallsDueKeeps
<1>4. ASSUME NEW p \in Pods,
             \/ PollStarts(p) \/ PollInsert(p) \/ PollLook(p) \/ AdvanceRow(p) \/ AdvanceFails(p)
             \/ \E s \in CronKeys : TakeRow(p, s)
             \/ PollCommits(p) \/ PollFails(p) \/ PodBoots(p)
      PROVE  KInv'
  BY <1>4, PollStartsKeeps, PollInsertKeeps, PollLookKeeps, AdvanceRowKeeps, AdvanceFailsKeeps,
     TakeRowKeeps, PollCommitsKeeps, PollFailsKeeps, PodBootsKeeps
<1> QED
  BY <1>1, <1>2, <1>3, <1>4 DEF Next

THEOREM SchedulerInvariant == Spec => []KInv
  BY InitKInv, NextKeepsKInv, PTL DEF Spec

(* A tick gets one job: a second one is enqueued only after a poll that had    *)
(* enqueued for it could not advance the cadence. And no job is ever charged   *)
(* more attempts than it has.                                                  *)
THEOREM TickGetsOneJob == Spec => []OneJobPerTick
<1>1. KInv => OneJobPerTick
  BY DEF KInv, JInv, TypesOK, JobsPerTick, OneJobPerTick, TypeOK
<1> QED
  BY <1>1, SchedulerInvariant, PTL

-----------------------------------------------------------------------------
(* Who ends a live lease. *)

EndedByHolder(j) ==
  job[j].state = "leased" /\ ~ job[j].lapsed /\ job'[j].state # "leased"
    => \E p \in Pods : job[j].holder = p /\ runner[p].job = j /\ runner'[p] # runner[p]

LEMMA SettleEnds ==
  ASSUME JInv, NEW p \in Pods, Settle(p) \/ SettleThrows(p), NEW j \in Jobs
  PROVE  EndedByHolder(j)
<1>0. job \in [Jobs -> JobRow] /\ runner \in [Pods -> Runner] /\ runner[p] \in Runner
  BY DEF JInv, JobsTypeOK
<1>1. CASE job' = job
  BY <1>1 DEF EndedByHolder
<1>2. CASE Holds(p) /\ job' = [job EXCEPT ![runner[p].job] = Settled(job[runner[p].job], runner[p].at)]
  <2>1. CASE runner[p].job = j
    <3>1. job[j].holder = p
      BY <1>2, <2>1 DEF Holds
    <3>2. runner[p].at \in Verdicts
      BY DEF Settle, SettleThrows
    <3>3. runner'[p] # runner[p]
      <4>1. CASE Settle(p)
        BY <1>0, <3>2, <4>1 DEF Settle, Idle, Verdicts
      <4>2. CASE SettleThrows(p) /\ runner[p].at = "ok"
        <5>1. runner'[p] = [runner[p] EXCEPT !.at = "retry"]
          BY <1>0, <4>2 DEF SettleThrows
        <5>2. runner'[p].at = "retry"
          BY <1>0, <5>1 DEF Runner
        <5> QED
          BY <4>2, <5>2
      <4>3. CASE SettleThrows(p) /\ runner[p].at # "ok"
        BY <1>0, <3>2, <4>3 DEF SettleThrows, Down, Verdicts
      <4> QED
        BY <4>1, <4>2, <4>3
    <3> QED
      BY <2>1, <3>1, <3>3 DEF EndedByHolder
  <2>2. CASE runner[p].job # j
    <3>1. job'[j] = job[j]
      BY <1>0, <1>2, <2>2
    <3> QED
      BY <3>1 DEF EndedByHolder
  <2> QED
    BY <2>1, <2>2
<1> QED
  BY <1>1, <1>2 DEF Settle, SettleThrows, AfterSettle

LEMMA JobsNextEnds ==
  ASSUME JInv, JobsNext, NEW j \in Jobs
  PROVE  EndedByHolder(j)
<1>0. job \in [Jobs -> JobRow] /\ job[j] \in JobRow
  BY DEF JInv, JobsTypeOK
<1>1. CASE job' = job
  BY <1>1 DEF EndedByHolder
<1>2. ASSUME NEW k, NEW x, job' = [job EXCEPT ![k] = x],
             \/ x.state = "leased"
             \/ k \in Jobs => job[k].state # "leased"
      PROVE  EndedByHolder(j)
  BY <1>0, <1>2 DEF EndedByHolder
<1>3. ASSUME NEW k \in Jobs, Ripens(k) \/ Lapses(k) \/ TimesOut(k) \/ Retire(k) PROVE EndedByHolder(j)
  <2>1. CASE Ripens(k)
    BY <1>2, <2>1 DEF Ripens
  <2>2. CASE Retire(k)
    BY <1>2, <2>2 DEF Retire
  <2>3. CASE Lapses(k) \/ TimesOut(k)
    <3>1. job'[j].state = job[j].state
      BY <1>0, <2>3 DEF Lapses, TimesOut, JobRow
    <3> QED
      BY <3>1 DEF EndedByHolder
  <2> QED
    BY <1>3, <2>1, <2>2, <2>3
<1>4. ASSUME NEW p \in Pods, NEW k, InsertRow(k, p) PROVE EndedByHolder(j)
  <2>1. PICK i \in Jobs : ~ Active(i) /\ job' = [job EXCEPT ![i] = FreshRow(k, p)]
    BY <1>4 DEF InsertRow
  <2> QED
    BY <1>2, <2>1 DEF Active
<1>5. ASSUME NEW p \in Pods, NEW k \in Jobs, Claim(p, k) \/ ClaimThrows(p, k) PROVE EndedByHolder(j)
  <2>1. job' = job \/ job' = [job EXCEPT ![k] = Leased(job[k], p)]
    BY <1>5 DEF Claim, ClaimThrows
  <2>2. Leased(job[k], p).state = "leased"
    BY <1>0 DEF Leased, JobRow
  <2> QED
    BY <1>1, <1>2, <2>1, <2>2
<1>6. ASSUME NEW p \in Pods, Heartbeat(p) PROVE EndedByHolder(j)
  <2>1. job'[j].state = job[j].state
    BY <1>0, <1>6 DEF Heartbeat, JobRow
  <2> QED
    BY <2>1 DEF EndedByHolder
<1>7. ASSUME NEW p \in Pods, ReapStuckRuns(p) PROVE EndedByHolder(j)
  BY <1>7 DEF ReapStuckRuns, Stuck, EndedByHolder
<1> QED
  BY <1>1, <1>3, <1>4, <1>5, <1>6, <1>7, SettleEnds DEF JobsNext, StartWorkflow, HandlerEnds

LEMMA NextEnds ==
  ASSUME KInv, [Next]_vars, NEW j \in Jobs
  PROVE  EndedByHolder(j)
<1>0. job \in [Jobs -> JobRow] /\ JInv
  BY DEF KInv, JInv, JobsTypeOK
<1>1. CASE job' = job
  BY <1>1 DEF EndedByHolder
<1>2. ASSUME NEW p \in Pods, InsertRow(poll[p].cur, p) PROVE EndedByHolder(j)
  <2>1. PICK i \in Jobs : ~ Active(i) /\ job' = [job EXCEPT ![i] = FreshRow(poll[p].cur, p)]
    BY <1>2 DEF InsertRow
  <2> QED
    BY <1>0, <2>1 DEF Active, EndedByHolder
<1>3. ASSUME NEW p \in Pods, PodBoots(p) PROVE EndedByHolder(j)
  <2>1. job'[j].state = job[j].state
    BY <1>0, <1>3 DEF PodBoots, JobsForget, JobRow
  <2> QED
    BY <2>1 DEF EndedByHolder
<1> QED
  BY <1>0, <1>1, <1>2, <1>3, JobsNextEnds DEF Next, vars, FallsDue, PollStarts, PollInsert, PollLook,
     AdvanceRow, AdvanceFails, TakeRow, PollCommits, PollFails, jobVars

(* A live lease that has not lapsed is ended by the pod that holds it, in the  *)
(* settle of the job it has in hand: the fence on lease_owner and              *)
(* attempt_token.                                                              *)
THEOREM HolderEndsLease == Spec => OnlyHolderSettles
<1>1. KInv /\ [Next]_vars
        => [\A j \in Jobs :
              job[j].state = "leased" /\ ~ job[j].lapsed /\ job'[j].state # "leased"
                => \E p \in Pods : job[j].holder = p /\ runner[p].job = j /\ runner'[p] # runner[p]]_jobVars
  BY NextEnds DEF EndedByHolder
<1> QED
  BY <1>1, SchedulerInvariant, PTL DEF Spec, OnlyHolderSettles

-----------------------------------------------------------------------------
(* Refinement of Ticks. What a step may do to one schedule, in the terms of   *)
(* this module; due is sched # "waiting", active is Conflicts.                *)

Moves(s) ==
  \/ /\ sched[s] = "waiting" /\ sched'[s] # "waiting" /\ ~ tick'[s].served
     /\ Conflicts(s)' <=> Conflicts(s)
  \/ /\ sched[s] # "waiting" /\ ~ Conflicts(s) /\ Conflicts(s)' /\ tick'[s].served
     /\ sched'[s] # "waiting"
  \/ /\ sched[s] # "waiting" /\ Conflicts(s) /\ tick'[s].served /\ Conflicts(s)'
     /\ sched'[s] # "waiting"
  \/ /\ Conflicts(s) /\ ~ Conflicts(s)' /\ (sched'[s] = "waiting" <=> sched[s] = "waiting")
     /\ tick'[s].served = tick[s].served
  \/ /\ sched[s] # "waiting" /\ tick[s].served /\ sched'[s] = "waiting"
     /\ Conflicts(s)' <=> Conflicts(s)
  \/ /\ sched'[s] = "waiting" <=> sched[s] = "waiting"
     /\ Conflicts(s)' <=> Conflicts(s)
     /\ tick'[s].served = tick[s].served

LEMMA MovesAreTicks == (\A s \in CronKeys : Moves(s)) => T!Next
<1> SUFFICES ASSUME \A s \in CronKeys : Moves(s), NEW s \in CronKeys
             PROVE  \/ T!FallsDue(s) \/ T!Start(s) \/ T!Skip(s) \/ T!JobEnds(s)
                    \/ T!Advance(s) \/ T!Same(s)
  BY DEF T!Next
<1> DEFINE due    == [x \in CronKeys |-> sched[x] # "waiting"]
           active == [x \in CronKeys |-> Conflicts(x)]
           served == [x \in CronKeys |-> tick[x].served]
<1>1. Moves(s)
  OBVIOUS
<1>2. (due[s] <=> sched[s] # "waiting") /\ (due[s]' <=> sched'[s] # "waiting")
  OBVIOUS
<1>3. due[s] \in BOOLEAN /\ due[s]' \in BOOLEAN
  OBVIOUS
<1>4. (active[s] <=> Conflicts(s)) /\ (active[s]' <=> Conflicts(s)')
  OBVIOUS
<1>5. active[s] \in BOOLEAN /\ active[s]' \in BOOLEAN
  BY DEF Conflicts
<1>6. served[s] = tick[s].served /\ served[s]' = tick'[s].served
  OBVIOUS
<1> HIDE DEF due, active, served
<1>7. \/ ~ due[s] /\ due[s]' /\ ~ served[s]' /\ active[s]' = active[s]
      \/ due[s] /\ ~ active[s] /\ active[s]' /\ served[s]' /\ due[s]'
      \/ due[s] /\ active[s] /\ served[s]' /\ active[s]' /\ due[s]'
      \/ active[s] /\ ~ active[s]' /\ due[s]' = due[s] /\ served[s]' = served[s]
      \/ due[s] /\ served[s] /\ ~ due[s]' /\ active[s]' = active[s]
      \/ due[s]' = due[s] /\ active[s]' = active[s] /\ served[s]' = served[s]
  BY <1>1, <1>2, <1>3, <1>4, <1>5, <1>6 DEF Moves
<1> USE DEF due, active, served
<1> QED
  BY <1>7, Zenon DEF T!FallsDue, T!Start, T!Skip, T!JobEnds, T!Advance, T!Same

LEMMA NextMoves ==
  ASSUME KInv, [Next]_vars, NEW s \in CronKeys
  PROVE  Moves(s)
<1>0. JInv /\ TypesOK /\ PollsShaped /\ LockedAreDue /\ MineServed
  BY DEF KInv
<1>1. job' = job => (Conflicts(s)' <=> Conflicts(s))
  BY DEF Conflicts, Keyed, Active
<1>2. CASE UNCHANGED vars
  BY <1>1, <1>2 DEF vars, Moves
<1>3. CASE JobsNext /\ UNCHANGED <<sched, poll, tick>>
  <2>1. CASE JobStep
    BY <1>3, <2>1, JobStepConflicts DEF Moves
  <2>2. ASSUME NEW p \in Pods, NEW k \in SinkKeys, InsertRow(k, p) PROVE Moves(s)
    <3>1. s # k /\ k \in Keys
      BY SchedulesAssumption DEF Keys
    <3> QED
      BY <1>0, <1>3, <2>2, <3>1, InsertStep DEF Moves
  <2> QED
    BY <1>0, <1>3, <2>1, <2>2, JobsNextStep
<1>4. ASSUME NEW r \in CronKeys, FallsDue(r) PROVE Moves(s)
  <2>1. Conflicts(s)' <=> Conflicts(s)
    BY <1>1, <1>4 DEF FallsDue, jobVars
  <2>2. CASE s = r
    <3>1. sched[s] = "waiting" /\ sched'[s] # "waiting" /\ tick'[s] = FreshTick
      BY <1>0, <1>4, <2>2 DEF FallsDue, TypesOK
    <3>2. ~ tick'[s].served
      BY <3>1 DEF FreshTick
    <3> QED
      BY <2>1, <3>1, <3>2 DEF Moves
  <2>3. CASE s # r
    <3>1. sched'[s] = sched[s] /\ tick'[s] = tick[s]
      BY <1>0, <1>4, <2>3 DEF FallsDue, TypesOK
    <3> QED
      BY <2>1, <3>1 DEF Moves
  <2> QED
    BY <2>2, <2>3
<1>5. ASSUME NEW p \in Pods, PollStarts(p) \/ AdvanceRow(p) \/ \E r \in CronKeys : TakeRow(p, r)
      PROVE  Moves(s)
  BY <1>1, <1>5 DEF PollStarts, AdvanceRow, TakeRow, jobVars, Moves
<1>6. ASSUME NEW p \in Pods, InHand(poll[p])
      PROVE  poll[p].cur \in CronKeys /\ sched[poll[p].cur] = "due" /\ tick[poll[p].cur] \in Tick
  BY <1>0, <1>6 DEF PollsShaped, Shaped, Poll, LockedAreDue, TypesOK
<1>7. ASSUME NEW p \in Pods, PollInsert(p) PROVE Moves(s)
  <2>1. /\ poll[p].cur \in CronKeys /\ sched[poll[p].cur] = "due" /\ tick[poll[p].cur] \in Tick
        /\ sched' = sched
    BY <1>6, <1>7 DEF PollInsert, InHand
  <2>2. CASE UNCHANGED <<job, tick>>
    BY <1>1, <2>1, <2>2 DEF Moves
  <2>3. CASE /\ InsertRow(poll[p].cur, p)
             /\ tick' = [tick EXCEPT ![poll[p].cur].served = TRUE,
                                     ![poll[p].cur].jobs = IF @ < 2 THEN @ + 1 ELSE @]
    <3>1. poll[p].cur \in Keys
      BY <2>1 DEF Keys
    <3>2. CASE s = poll[p].cur
      <4>1. ~ Conflicts(s) /\ Conflicts(s)'
        BY <1>0, <2>3, <3>1, <3>2, InsertStep
      <4>2. tick'[s].served
        BY <1>0, <2>1, <2>3, <3>2 DEF TypesOK, Tick
      <4> QED
        BY <2>1, <3>2, <4>1, <4>2 DEF Moves
    <3>3. CASE s # poll[p].cur
      <4>1. Conflicts(s)' <=> Conflicts(s)
        BY <1>0, <2>3, <3>1, <3>3, InsertStep
      <4>2. tick'[s] = tick[s]
        BY <1>0, <2>3, <3>3 DEF TypesOK
      <4> QED
        BY <2>1, <4>1, <4>2 DEF Moves
    <3> QED
      BY <3>2, <3>3
  <2> QED
    BY <1>7, <2>2, <2>3 DEF PollInsert
<1>8. ASSUME NEW p \in Pods, PollLook(p) PROVE Moves(s)
  <2>1. /\ poll[p].cur \in CronKeys /\ sched[poll[p].cur] = "due" /\ tick[poll[p].cur] \in Tick
        /\ sched' = sched /\ (Conflicts(s)' <=> Conflicts(s))
    BY <1>1, <1>6, <1>8 DEF PollLook, InHand, jobVars
  <2>2. CASE UNCHANGED tick
    BY <2>1, <2>2 DEF Moves
  <2>3. CASE Conflicts(poll[p].cur) /\ tick' = [tick EXCEPT ![poll[p].cur].served = TRUE]
    <3>1. CASE s = poll[p].cur
      <4>1. tick'[s].served
        BY <1>0, <2>1, <2>3, <3>1 DEF TypesOK, Tick
      <4> QED
        BY <2>1, <2>3, <3>1, <4>1 DEF Moves
    <3>2. CASE s # poll[p].cur
      <4>1. tick'[s] = tick[s]
        BY <1>0, <2>3, <3>2 DEF TypesOK
      <4> QED
        BY <2>1, <4>1 DEF Moves
    <3> QED
      BY <3>1, <3>2
  <2> QED
    BY <1>8, <2>2, <2>3 DEF PollLook
<1>9. ASSUME NEW p \in Pods, AdvanceFails(p) PROVE Moves(s)
  <2>1. tick'[s].served = tick[s].served
    BY <1>0, <1>9 DEF AdvanceFails, TypesOK, Tick
  <2> QED
    BY <1>1, <1>9, <2>1 DEF AdvanceFails, jobVars, Moves
<1>10. ASSUME NEW p \in Pods, TearTicks(p) PROVE tick'[s].served = tick[s].served
  BY <1>0, <1>10, TornStep DEF TearTicks, TypesOK
<1>11. ASSUME NEW p \in Pods, PollFails(p) PROVE Moves(s)
  BY <1>1, <1>10, <1>11 DEF PollFails, jobVars, Moves
<1>12. ASSUME NEW p \in Pods, PodBoots(p) PROVE Moves(s)
  <2>1. Conflicts(s)' <=> Conflicts(s)
    BY <1>0, <1>12, ForgetStep DEF PodBoots
  <2>2. sched'[s] = "waiting" <=> sched[s] = "waiting"
    BY <1>12 DEF PodBoots, Seed
  <2> QED
    BY <1>10, <1>12, <2>1, <2>2 DEF PodBoots, Moves
<1>13. ASSUME NEW p \in Pods, PollCommits(p) PROVE Moves(s)
  <2>1. tick' = tick /\ (Conflicts(s)' <=> Conflicts(s))
        /\ sched'[s] = (IF s \in poll[p].moved THEN "waiting" ELSE sched[s])
    BY <1>1, <1>13 DEF PollCommits, Moved, jobVars
  <2>2. s \in poll[p].moved => sched[s] = "due" /\ tick[s].served
    BY <1>0 DEF PollsShaped, Shaped, LockedAreDue, MineServed, Mine
  <2> QED
    BY <2>1, <2>2 DEF Moves
<1> QED
  BY <1>2, <1>3, <1>4, <1>5, <1>7, <1>8, <1>9, <1>11, <1>12, <1>13 DEF Next

LEMMA InitIsTicks == Init => T!Init
<1> SUFFICES ASSUME Init PROVE T!Init
  OBVIOUS
<1>1. \A s \in CronKeys : ~ Conflicts(s)
  BY DEF Init, JobsInit, FreshRow, Conflicts, Keyed, Active
<1>5. \A s \in CronKeys : Conflicts(s) = FALSE
  BY <1>1 DEF Conflicts
<1>2. [s \in CronKeys |-> Conflicts(s)] = [s \in CronKeys |-> FALSE]
  BY <1>5
<1>3. [s \in CronKeys |-> tick[s].served] = [s \in CronKeys |-> FALSE]
  BY DEF Init, FreshTick
<1>4. [s \in CronKeys |-> sched[s] # "waiting"] \in [CronKeys -> BOOLEAN]
  OBVIOUS
<1> QED
  BY <1>2, <1>3, <1>4 DEF T!Init

(* The scheduler implements Ticks: through polls of several pods, torn         *)
(* transactions and reboots a tick is served before the cadence moves on,      *)
(* never beside an active job of the schedule, and no tick is skipped          *)
(* unserved; and no pod settles a job that was handed to another.              *)
THEOREM SchedulerImplementsTicks == Spec => SchedulesKeepTicks
<1>1. KInv /\ [Next]_vars => [T!Next]_(T!vars)
  BY NextMoves, MovesAreTicks
<1>2. Spec => T!Spec
  BY <1>1, InitIsTicks, SchedulerInvariant, PTL DEF Spec, T!Spec
<1> QED
  BY <1>2, HolderEndsLease, PTL DEF SchedulesKeepTicks
=============================================================================
