----------------------------- MODULE Scheduler ------------------------------
(***************************************************************************)
(* The cron scheduler over BackgroundJobs. Every pod polls: one            *)
(* transaction locks the due schedules it can get (SKIP LOCKED), enqueues  *)
(* a job for each on a connection of its own - which commits at once - and *)
(* advances the cadence inside the transaction. A row that fails is rolled *)
(* back to its savepoint; a crash rolls back the cadences but not the jobs.*)
(***************************************************************************)
EXTENDS BackgroundJobs

CONSTANT BadSchedules   \* rows this build skips: newer version, no input contract,
                        \* rejected input, unsupported cadence

(* cron_schedules.ts seeds at least one schedule, and its ids (codemaster-...) *)
(* are none of the producers' workflow ids (<type>/<subject>).                *)
ASSUME SchedulesAssumption ==
  BadSchedules \subseteq CronKeys /\ CronKeys # {} /\ SinkKeys \cap CronKeys = {}

VARIABLES
  sched,   \* core.scheduled_jobs: absent, waiting for next_run_at, or due
  poll,    \* each pod's SchedulerLoop
  tick     \* history of each schedule's current tick

vars == <<job, runner, sched, poll, tick>>

Cadence == {"absent", "waiting", "due"}

(* rows: locked by the transaction; todo: not handled yet; cur: in hand;     *)
(* moved: advanced by the open transaction.                                  *)
Poll == [at : {"idle", "rows", "insert", "look", "advance", "down"}, rows : SUBSET CronKeys,
         todo : SUBSET CronKeys, cur : CronKeys, tries : 0..MaxTries, moved : SUBSET CronKeys]

(* jobs inserted for the tick (2 stands for more), whether the tick was      *)
(* served, and whether a poll that had enqueued for it was torn: its cadence *)
(* was not advanced.                                                         *)
Tick == [jobs : 0..2, served : BOOLEAN, torn : BOOLEAN]
FreshTick == [jobs |-> 0, served |-> FALSE, torn |-> FALSE]

AnyCron == CHOOSE s \in CronKeys : TRUE
NoPoll == [at |-> "idle", rows |-> {}, todo |-> {}, cur |-> AnyCron, tries |-> 0, moved |-> {}]

-----------------------------------------------------------------------------
(* next_run_at passes. *)
FallsDue(s) ==
  /\ sched[s] = "waiting"
  /\ sched' = [sched EXCEPT ![s] = "due"]
  /\ tick' = [tick EXCEPT ![s] = FreshTick]
  /\ UNCHANGED <<jobVars, poll>>

\* Mutant: no row locks.
Free_Unlocked(s) == sched[s] = "due"

(* FOR UPDATE SKIP LOCKED *)
Free(s) == sched[s] = "due" /\ \A q \in Pods : s \notin poll[q].rows

(* SELECT ... FOR UPDATE SKIP LOCKED of the due schedules. *)
PollStarts(p) ==
  LET due == {s \in CronKeys : Free(s)} IN
  /\ poll[p].at = "idle" /\ due # {}
  /\ poll' = [poll EXCEPT ![p] = [NoPoll EXCEPT !.at = "rows", !.rows = due, !.todo = due]]
  /\ UNCHANGED <<jobVars, sched, tick>>

(* SAVEPOINT and the checks of the row: a bad one is skipped unadvanced. *)
TakeRow(p, s) ==
  /\ poll[p].at = "rows" /\ s \in poll[p].todo
  /\ poll' = [poll EXCEPT ![p].todo = @ \ {s}, ![p].cur = s, ![p].tries = 0,
                          ![p].at = IF s \in BadSchedules THEN "rows" ELSE "insert"]
  /\ UNCHANGED <<jobVars, sched, tick>>

PollInsert(p) ==
  LET s == poll[p].cur IN
  /\ poll[p].at = "insert"
  /\ \/ /\ InsertRow(s, p)
        /\ poll' = [poll EXCEPT ![p].at = "advance"]
        /\ tick' = [tick EXCEPT ![s].served = TRUE, ![s].jobs = IF @ < 2 THEN @ + 1 ELSE @]
     \/ /\ Conflicts(s)
        /\ poll' = [poll EXCEPT ![p].at = "look", ![p].tries = @ + 1]
        /\ UNCHANGED <<job, tick>>
  /\ UNCHANGED <<runner, sched>>

(* Another round of enqueue, or its throw: back to the savepoint, the row    *)
(* stays due.                                                                *)
LookFailed(c) == [c EXCEPT !.at = IF c.tries < MaxTries THEN "insert" ELSE "rows"]

PollLook(p) ==
  LET s == poll[p].cur IN
  /\ poll[p].at = "look"
  /\ \/ /\ Conflicts(s)
        /\ poll' = [poll EXCEPT ![p].at = "advance"]
        /\ tick' = [tick EXCEPT ![s].served = TRUE]
     \/ /\ ~ Conflicts(s)
        /\ poll' = [poll EXCEPT ![p] = LookFailed(@)]
        /\ UNCHANGED tick
  /\ UNCHANGED <<jobVars, sched>>

(* UPDATE next_run_at and RELEASE SAVEPOINT. *)
AdvanceRow(p) ==
  /\ poll[p].at = "advance"
  /\ poll' = [poll EXCEPT ![p].at = "rows", ![p].moved = @ \cup {poll[p].cur}]
  /\ UNCHANGED <<jobVars, sched, tick>>

(* One of them fails: ROLLBACK TO SAVEPOINT, the job stays enqueued. *)
AdvanceFails(p) ==
  /\ poll[p].at = "advance"
  /\ poll' = [poll EXCEPT ![p].at = "rows"]
  /\ tick' = [tick EXCEPT ![poll[p].cur].torn = TRUE]
  /\ UNCHANGED <<jobVars, sched>>

\* Mutant: every locked row is advanced, the failed ones too.
Moved_AllRows(p) == poll[p].rows

\* Mutant: the transaction is rolled back.
Moved_RolledBack(p) == {}

(* The cadences the transaction commits. *)
Moved(p) == poll[p].moved

PollCommits(p) ==
  /\ poll[p].at = "rows" /\ poll[p].todo = {}
  /\ sched' = [s \in CronKeys |-> IF s \in Moved(p) THEN "waiting" ELSE sched[s]]
  /\ poll' = [poll EXCEPT ![p] = NoPoll]
  /\ UNCHANGED <<jobVars, tick>>

(* The rows whose job is enqueued but whose cadence dies with the poll. *)
Torn(p) == poll[p].moved \cup (IF poll[p].at = "advance" THEN {poll[p].cur} ELSE {})
TearTicks(p) == tick' = [s \in CronKeys |-> IF s \in Torn(p) THEN [tick[s] EXCEPT !.torn = TRUE] ELSE tick[s]]

(* An error outside a savepoint (BEGIN, SELECT, COMMIT, the connection) ends *)
(* the scheduler loop alone.                                                 *)
PollFails(p) ==
  /\ poll[p].at # "down"
  /\ poll' = [poll EXCEPT ![p] = [NoPoll EXCEPT !.at = "down"]]
  /\ TearTicks(p)
  /\ UNCHANGED <<jobVars, sched>>

(* INSERT ... ON CONFLICT DO NOTHING with next_run_at = now. *)
Seed(s) == IF sched[s] = "absent" THEN "due" ELSE sched[s]

(* The pod is killed or its degraded loops noticed, and it boots again:      *)
(* ensureScheduledJobs, then all loops start.                                *)
PodBoots(p) ==
  /\ JobsForget(p)
  /\ sched' = [s \in CronKeys |-> Seed(s)]
  /\ poll' = [poll EXCEPT ![p] = NoPoll]
  /\ TearTicks(p)

-----------------------------------------------------------------------------
Init ==
  /\ JobsInit
  /\ sched = [s \in CronKeys |-> "absent"]
  /\ poll = [p \in Pods |-> [NoPoll EXCEPT !.at = "down"]]
  /\ tick = [s \in CronKeys |-> FreshTick]

Next ==
  \/ JobsNext /\ UNCHANGED <<sched, poll, tick>>
  \/ \E s \in CronKeys : FallsDue(s)
  \/ \E p \in Pods :
       \/ PollStarts(p) \/ PollInsert(p) \/ PollLook(p) \/ AdvanceRow(p) \/ AdvanceFails(p)
       \/ \E s \in CronKeys : TakeRow(p, s)
       \/ PollCommits(p) \/ PollFails(p) \/ PodBoots(p)

Spec == Init /\ [][Next]_vars

PodIsDown(p) == runner[p].at = "down" \/ poll[p].at = "down"

(***************************************************************************)
(* On top of the queue's fairness: polls go on, row by row, and do not     *)
(* fail every time; a pod whose readiness reports a dead loop is replaced. *)
(***************************************************************************)
Fairness ==
  /\ JobsFairness
  /\ \A p \in Pods :
       /\ WF_vars(PodIsDown(p) /\ PodBoots(p))
       /\ SF_vars(PollStarts(p)) /\ SF_vars(PollInsert(p)) /\ SF_vars(PollLook(p))
       /\ SF_vars(AdvanceRow(p))
       /\ WF_vars(PollCommits(p)) /\ SF_vars(poll[p].moved # {} /\ PollCommits(p))
       /\ \A s \in CronKeys : SF_vars(TakeRow(p, s))

FairSpec == Spec /\ Fairness

-----------------------------------------------------------------------------
TypeOK ==
  /\ JobsTypeOK
  /\ sched \in [CronKeys -> Cadence]
  /\ poll \in [Pods -> Poll]
  /\ tick \in [CronKeys -> Tick]

(* One job per tick: a due schedule is handed to the queue a second time     *)
(* only when a poll that had enqueued for it could not advance it, although  *)
(* every pod polls, jobs end at once and the enqueue is outside the          *)
(* transaction; and no job is charged more attempts than it has (TypeOK).    *)
OneJobPerTick ==
  TypeOK /\ \A s \in CronKeys : tick[s].jobs > 1 => tick[s].torn

(* Each schedule behaves as Ticks promises: at least once per tick, never    *)
(* two active jobs, and no tick is skipped unserved.                         *)
T == INSTANCE Ticks WITH
  Schedules <- CronKeys,
  due       <- [s \in CronKeys |-> sched[s] # "waiting"],
  active    <- [s \in CronKeys |-> Conflicts(s)],
  served    <- [s \in CronKeys |-> tick[s].served]

(* Through the two pods' polls, crashes and torn transactions every schedule *)
(* behaves as Ticks, and no pod settles a job that was handed to another.    *)
SchedulesKeepTicks == T!Spec /\ OnlyHolderSettles

(* A due schedule is served and advanced in the end, through crashes, torn   *)
(* polls and lost races.                                                     *)
DueAdvances == \A s \in CronKeys \ BadSchedules : sched[s] = "due" ~> sched[s] = "waiting"
=============================================================================
