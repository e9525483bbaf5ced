------------------------------- MODULE Ticks -------------------------------
(***************************************************************************)
(* What the scheduler promises of every schedule, without pods,            *)
(* transactions or failures: a tick that falls due is served by a job, at  *)
(* least once, never while a job of the schedule is active, and the next   *)
(* tick is awaited only after this one was served - by a new job or        *)
(* because one was still active (overlap policy SKIP). Schedules are       *)
(* independent, so one step may move several.                              *)
(***************************************************************************)
CONSTANT Schedules

VARIABLES
  due,      \* the tick has fallen due and the cadence is not advanced yet
  active,   \* a job of the schedule is ready or leased
  served    \* this tick has had its job

vars == <<due, active, served>>
Same(s) == <<due[s], active[s], served[s]>>' = <<due[s], active[s], served[s]>>

Init ==
  /\ due \in [Schedules -> BOOLEAN]
  /\ active = [s \in Schedules |-> FALSE]
  /\ served = [s \in Schedules |-> FALSE]

FallsDue(s) == ~ due[s] /\ due[s]' /\ ~ served[s]' /\ active[s]' = active[s]
Start(s)    == due[s] /\ ~ active[s] /\ active[s]' /\ served[s]' /\ due[s]'
Skip(s)     == due[s] /\ active[s] /\ served[s]' /\ active[s]' /\ due[s]'
JobEnds(s)  == active[s] /\ ~ active[s]' /\ due[s]' = due[s] /\ served[s]' = served[s]
Advance(s)  == due[s] /\ served[s] /\ ~ due[s]' /\ active[s]' = active[s]

Next == \A s \in Schedules : FallsDue(s) \/ Start(s) \/ Skip(s) \/ JobEnds(s) \/ Advance(s) \/ Same(s)

Spec == Init /\ [][Next]_vars
=============================================================================
