--------------------------- MODULE Services_proofs ---------------------------
(***************************************************************************)
(* Proofs about the services: the flags of Flags, the sweeps of Retention, *)
(* and of MCServices what rests on Approvals, Login, PodLifecycle,         *)
(* GithubTransport and the three modules of a model call.                  *)
(***************************************************************************)
EXTENDS MCServices, FiniteSetTheorems, WellFoundedInduction, TLAPS

-----------------------------------------------------------------------------
(* Flags. A first approval in the row is that of a request that asked for   *)
(* the pending value, whatever was read and overtaken in between.           *)

MaybeValue == FlagValues \cup {NoValue}
MaybeUser  == Approvers \cup {NoValue}
FlagRow    == [value : MaybeValue, stamp : Nat, pending : MaybeValue, first : MaybeUser]
PutCall    == [at : {"unsent", "select", "write", "done"}, by : MaybeUser, ask : MaybeValue,
               match : Nat, saw : FlagRow \cup {NoValue}]

FlagsTypeOK == flag \in FlagRow /\ put \in [FlagCalls -> PutCall]

Staged ==
  flag.first # NoValue =>
    \E d \in FlagCalls : put[d].at # "unsent" /\ put[d].by = flag.first /\ put[d].ask = flag.pending

UnsentAskNothing == \A c \in FlagCalls : put[c].at = "unsent" => put[c] = NoPut

FInv == FlagsTypeOK /\ UnsentAskNothing /\ Staged /\ FlagByTwoUnlessOvertaken

LEMMA FlagsInitially == FlagsInit => FInv
<1> SUFFICES ASSUME FlagsInit PROVE FInv
  OBVIOUS
<1>1. NoPut \in PutCall
  BY DEF NoPut, PutCall, MaybeUser, MaybeValue
<1>2. FlagsTypeOK
  BY <1>1 DEF FlagsInit, FlagsTypeOK, FlagRow, MaybeUser, MaybeValue
<1> QED
  BY <1>2 DEF FlagsInit, FInv, UnsentAskNothing, Staged, FlagByTwoUnlessOvertaken, FlagByTwo

(* A step that leaves the row alone and loses no request keeps the promise. *)
LEMMA FlagsKeep ==
  ASSUME FInv, flag' = flag, overtook' = overtook, put' \in [FlagCalls -> PutCall],
         \A c \in FlagCalls : put[c].at # "unsent" =>
            put'[c].at # "unsent" /\ put'[c].by = put[c].by /\ put'[c].ask = put[c].ask,
         \A c \in FlagCalls : put'[c].at = "unsent" => put'[c] = NoPut
  PROVE  FInv'
<1>0. \A c \in FlagCalls : put[c].at = "unsent" => put[c].ask = NoValue
  BY DEF FInv, UnsentAskNothing, NoPut
<1>1. FlagsTypeOK' /\ UnsentAskNothing'
  BY DEF FInv, FlagsTypeOK, UnsentAskNothing
<1>2. Staged'
  BY DEF FInv, Staged
<1>3. FlagByTwoUnlessOvertaken'
  BY <1>0 DEF FInv, FlagByTwoUnlessOvertaken, FlagByTwo
<1> QED
  BY <1>1, <1>2, <1>3 DEF FInv

LEMMA FlagsNextInv == FInv /\ [FlagsNext]_flagVars => FInv'
<1> SUFFICES ASSUME FInv, [FlagsNext]_flagVars PROVE FInv'
  OBVIOUS
<1>0. /\ flag \in FlagRow /\ put \in [FlagCalls -> PutCall]
      /\ \A c \in FlagCalls : put[c].at = "unsent" => put[c] = NoPut
  BY DEF FInv, FlagsTypeOK, UnsentAskNothing
<1>1. CASE UNCHANGED flagVars
  BY <1>0, <1>1, FlagsKeep DEF flagVars
<1>2. ASSUME NEW c \in FlagCalls, NEW u \in Approvers, NEW v \in FlagValues, SendPut(c, u, v)
      PROVE  FInv'
  <2> DEFINE new == [NoPut EXCEPT !.at = "select", !.by = u, !.ask = v, !.match = flag.stamp]
  <2>1. new \in PutCall /\ new.at = "select"
    BY <1>0 DEF NoPut, PutCall, FlagRow, MaybeUser, MaybeValue
  <2> HIDE DEF new
  <2>2. put' = [put EXCEPT ![c] = new] /\ put[c] = NoPut /\ flag' = flag /\ overtook' = overtook
    BY <1>2 DEF SendPut, new
  <2>3. put[c].at = "unsent"
    BY <2>2 DEF NoPut
  <2> QED
    BY <1>0, <2>1, <2>2, <2>3, FlagsKeep
<1>3. ASSUME NEW c \in FlagCalls, SelectFlag(c) PROVE FInv'
  <2> DEFINE new == [put[c] EXCEPT !.at = "write", !.saw = flag]
  <2>1. /\ new \in PutCall /\ new.at = "write" /\ new.by = put[c].by /\ new.ask = put[c].ask
    BY <1>0 DEF PutCall
  <2> HIDE DEF new
  <2>2. put' = [put EXCEPT ![c] = new] /\ flag' = flag /\ overtook' = overtook
    BY <1>0, <1>3 DEF SelectFlag, new
  <2> QED
    BY <1>0, <2>1, <2>2, FlagsKeep
<1>4. ASSUME NEW c \in FlagCalls, put[c].at = "write", Answered(c)
      PROVE  /\ put' \in [FlagCalls -> PutCall]
             /\ \A d \in FlagCalls : put[d].at # "unsent" =>
                  put'[d].at # "unsent" /\ put'[d].by = put[d].by /\ put'[d].ask = put[d].ask
             /\ \A d \in FlagCalls : put'[d].at = "unsent" => put'[d] = NoPut
  BY <1>0, <1>4 DEF Answered, PutCall
<1>5. ASSUME NEW c \in FlagCalls, RefusePut(c) PROVE FInv'
  BY <1>4, <1>5, FlagsKeep DEF RefusePut
<1>6. ASSUME NEW c \in FlagCalls, StageFlag(c) PROVE FInv'
  <2>0. put[c].at = "write" /\ Answered(c) /\ put[c].by \in MaybeUser /\ put[c].ask \in MaybeValue
    BY <1>0, <1>6 DEF StageFlag, PutCall
  <2>1. /\ flag' \in FlagRow /\ flag'.value = flag.value
        /\ flag'.first = put[c].by /\ flag'.pending = put[c].ask /\ overtook' = overtook
    BY <1>0, <1>6, <2>0 DEF StageFlag, FlagRow
  <2>2. FlagsTypeOK' /\ UnsentAskNothing'
    BY <1>4, <2>0, <2>1 DEF FlagsTypeOK, UnsentAskNothing
  <2>3. Staged'
    BY <1>4, <2>0, <2>1 DEF Staged
  <2>4. \A d \in FlagCalls : put[d].at = "unsent" => put[d].ask = NoValue
    BY <1>0 DEF NoPut
  <2>5. FlagByTwoUnlessOvertaken'
    BY <1>4, <2>0, <2>1, <2>4 DEF FInv, FlagByTwoUnlessOvertaken, FlagByTwo
  <2> QED
    BY <2>2, <2>3, <2>5 DEF FInv
<1>7. ASSUME NEW c \in FlagCalls, CommitFlag(c) PROVE FInv'
  <2>0. put[c].at = "write" /\ Answered(c) /\ flag.pending \in MaybeValue /\ flag.stamp \in Nat
    BY <1>0, <1>7 DEF CommitFlag, FlagRow
  <2>1. flag' \in FlagRow /\ flag'.value = flag.pending /\ flag'.first = NoValue
    BY <1>7, <2>0 DEF CommitFlag, FlagRow, MaybeValue, MaybeUser
  <2>2. FlagsTypeOK' /\ UnsentAskNothing'
    BY <1>4, <2>0, <2>1 DEF FlagsTypeOK, UnsentAskNothing
  <2>3. Staged'
    BY <2>1 DEF Staged
  <2>4. FlagByTwoUnlessOvertaken'
    <3>1. CASE flag = put[c].saw
      <4>1. flag.first # NoValue /\ flag.first # put[c].by /\ flag.pending = put[c].ask
        BY <1>7, <3>1 DEF CommitFlag, SecondApproval
      <4>2. PICK d \in FlagCalls : put[d].at # "unsent" /\ put[d].by = flag.first /\ put[d].ask = flag.pending
        BY <4>1 DEF FInv, Staged
      <4> QED
        BY <1>4, <2>0, <2>1, <4>1, <4>2 DEF FlagByTwoUnlessOvertaken, FlagByTwo
    <3>2. CASE flag # put[c].saw
      BY <1>7, <3>2 DEF CommitFlag, FlagByTwoUnlessOvertaken
    <3> QED
      BY <3>1, <3>2
  <2> QED
    BY <2>2, <2>3, <2>4 DEF FInv
<1> QED
  BY <1>1, <1>2, <1>3, <1>5, <1>6, <1>7 DEF FlagsNext

(* Two persons stand behind the value of a flag, however many requests race, *)
(* unless the row changed between an approval's read and its update.         *)
THEOREM FlagNeedsTwo == FlagsSpec => []FlagByTwoUnlessOvertaken
<1>1. FInv => FlagByTwoUnlessOvertaken
  BY DEF FInv
<1> QED
  BY <1>1, FlagsInitially, FlagsNextInv, PTL DEF FlagsSpec

-----------------------------------------------------------------------------
(* Retention. A sweep begun after the age of pull requests has seen to every *)
(* pull request by the time it retires; and none that began before it lives  *)
(* to the age of runs.                                                       *)

AgedRow == [state : {"RUNNING", "COMPLETED", "CANCELLED", "FAILED"}, joined : BOOLEAN, retired : BOOLEAN, trail : Nat]
PullRow == [open : BOOLEAN, audited : BOOLEAN]
SweepOf == [at : {"none", "close", "closing", "audit", "retire", "retiring", "delete"},
            todo : SUBSET OldRuns, locked : SUBSET OldRuns, since : Nat]

RetentionTypeOK ==
  /\ today \in Nat /\ aged \in [OldRuns -> AgedRow] /\ pull \in [OldRuns -> PullRow]
  /\ sweep \in [Sweepers -> SweepOf] /\ excused \subseteq OldRuns

SweepFresh(s) == sweep[s].at # "none" => sweep[s].since <= today /\ today <= sweep[s].since + 1

(* What a sweep has done of its pull requests. *)
SweepSeenTo(s) ==
  sweep[s].since > PrTtl =>
    \A r \in OldRuns \ excused : aged[r].joined =>
      /\ sweep[s].at \in {"closing", "audit"} => r \in sweep[s].todo \/ ~ pull[r].open
      /\ sweep[s].at \in {"retire", "retiring"} => ~ pull[r].open

SweepRetiresOld(s) == sweep[s].at = "retiring" /\ sweep[s].locked # {} => sweep[s].since > PrTtl

SweepGood(s) == SweepFresh(s) /\ SweepSeenTo(s) /\ SweepRetiresOld(s)

RInv == RetentionTypeOK /\ (\A s \in Sweepers : SweepGood(s)) /\ ClosedBeforeRetired

LEMMA SweepsInOrder ==
  ThenSweep("close") = "retire" /\ ThenSweep("retire") = "delete" /\ ThenSweep("delete") = "none"
<1>1. SweepOrder[1] = "close" /\ SweepOrder[2] = "retire" /\ SweepOrder[3] = "delete"
  BY DEF SweepOrder
<1>2. (CHOOSE i \in 1..2 : SweepOrder[i] = "close") = 1
  BY <1>1
<1>3. (CHOOSE i \in 1..2 : SweepOrder[i] = "retire") = 2
  BY <1>1
<1> QED
  BY <1>1, <1>2, <1>3 DEF ThenSweep

LEMMA RetentionInitially == RetentionInit => RInv
<1> SUFFICES ASSUME RetentionInit PROVE RInv
  OBVIOUS
<1>1. Resting \in SweepOf /\ Resting.at = "none"
  BY DEF Resting, SweepOf
<1>2. aged \in [OldRuns -> AgedRow] /\ \A r \in OldRuns : ~ aged[r].retired
  <2> DEFINE old == [state : {"RUNNING", "COMPLETED", "CANCELLED"}, joined : BOOLEAN, retired : {FALSE}, trail : {0}]
  <2>1. ASSUME NEW x \in old PROVE x \in AgedRow /\ ~ x.retired
    <3>1. x.retired = FALSE /\ x.trail = 0 /\ x.joined \in BOOLEAN /\ x.state \in {"RUNNING", "COMPLETED", "CANCELLED"}
      OBVIOUS
    <3>2. x = [state |-> x.state, joined |-> x.joined, retired |-> x.retired, trail |-> x.trail]
      OBVIOUS
    <3>3. /\ x.retired \in BOOLEAN
          /\ x.trail \in Nat /\ x.state \in {"RUNNING", "COMPLETED", "CANCELLED", "FAILED"}
      <4>1. x.retired \in BOOLEAN
        BY <3>1, Zenon
      <4>2. x.trail \in Nat /\ x.state \in {"RUNNING", "COMPLETED", "CANCELLED", "FAILED"}
        BY <3>1, SMT
      <4> QED
        BY <4>1, <4>2
    <3> HIDE DEF old
    <3>4. x \in AgedRow
      BY <3>1, <3>2, <3>3, Zenon DEF AgedRow
    <3> QED
      BY <3>1, <3>4
  <2>2. aged \in [OldRuns -> old]
    BY DEF RetentionInit
  <2> HIDE DEF old
  <2> QED
    BY <2>1, <2>2
<1>3. RetentionTypeOK
  BY <1>1, <1>2 DEF RetentionInit, RetentionTypeOK, PullRow
<1>4. \A s \in Sweepers : SweepGood(s)
  BY <1>1 DEF RetentionInit, SweepGood, SweepFresh, SweepSeenTo, SweepRetiresOld
<1>5. ClosedBeforeRetired
  BY <1>2 DEF ClosedBeforeRetired
<1> QED
  BY <1>3, <1>4, <1>5 DEF RInv

(* A step of one sweep, or of none, that reopens no pull request unexcused   *)
(* leaves what the other sweeps have seen to.                                *)
LEMMA OtherSweepsKeep ==
  ASSUME RInv, today' = today, excused \subseteq excused',
         \A r \in OldRuns : aged'[r].joined = aged[r].joined,
         \A r \in OldRuns : pull'[r].open => pull[r].open \/ r \in excused',
         NEW t \in Sweepers, sweep'[t] = sweep[t]
  PROVE  SweepGood(t)'
<1>1. SweepGood(t)
  BY DEF RInv
<1>2. SweepFresh(t)' /\ SweepRetiresOld(t)'
  BY <1>1 DEF SweepGood, SweepFresh, SweepRetiresOld
<1>3. SweepSeenTo(t)'
  BY <1>1 DEF SweepGood, SweepSeenTo
<1> QED
  BY <1>2, <1>3 DEF SweepGood

LEMMA RetentionNextInv == RInv /\ [RetentionNext]_retentionVars => RInv'
<1> SUFFICES ASSUME RInv, [RetentionNext]_retentionVars PROVE RInv'
  OBVIOUS
<1>0. /\ today \in Nat /\ aged \in [OldRuns -> AgedRow] /\ pull \in [OldRuns -> PullRow]
      /\ sweep \in [Sweepers -> SweepOf] /\ excused \subseteq OldRuns
      /\ \A s \in Sweepers : SweepGood(s)
      /\ ClosedBeforeRetired
  BY DEF RInv, RetentionTypeOK
(* A sweep that takes one step, the others standing by. *)
<1>1. ASSUME NEW s \in Sweepers, NEW new \in SweepOf, sweep' = [sweep EXCEPT ![s] = new],
             today' = today, aged' = aged, pull' \in [OldRuns -> PullRow],
             \A r \in OldRuns : pull'[r].open => pull[r].open,
             excused \subseteq excused', excused' \subseteq OldRuns, SweepGood(s)'
      PROVE  RInv'
  <2>1. RetentionTypeOK'
    BY <1>0, <1>1 DEF RetentionTypeOK
  <2>2. ASSUME NEW t \in Sweepers PROVE SweepGood(t)'
    <3>1. CASE t = s
      BY <1>1, <3>1
    <3>2. CASE t # s
      <4>1. sweep'[t] = sweep[t]
        BY <1>0, <1>1, <3>2
      <4> QED
        BY <1>1, <4>1, OtherSweepsKeep
    <3> QED
      BY <3>1, <3>2
  <2>3. ClosedBeforeRetired'
    BY <1>0, <1>1 DEF ClosedBeforeRetired
  <2> QED
    BY <2>1, <2>2, <2>3 DEF RInv
(* Nobody sweeps. *)
<1>2. ASSUME sweep' = sweep, today' = today, aged' \in [OldRuns -> AgedRow], pull' \in [OldRuns -> PullRow],
             \A r \in OldRuns : aged'[r].joined = aged[r].joined /\ aged'[r].retired = aged[r].retired,
             \A r \in OldRuns : pull'[r].open => pull[r].open \/ r \in excused',
             excused \subseteq excused', excused' \subseteq OldRuns
      PROVE  RInv'
  <2>1. RetentionTypeOK'
    BY <1>0, <1>2 DEF RetentionTypeOK
  <2>2. ASSUME NEW t \in Sweepers PROVE SweepGood(t)'
    BY <1>2, OtherSweepsKeep
  <2>3. ClosedBeforeRetired'
    BY <1>0, <1>2 DEF ClosedBeforeRetired
  <2> QED
    BY <2>1, <2>2, <2>3 DEF RInv
<1>3. CASE UNCHANGED retentionVars \/ Suspend
  BY <1>0, <1>2, <1>3 DEF retentionVars, Suspend
<1>4. ASSUME NEW r \in OldRuns, RunEnds(r) PROVE RInv'
  <2>1. PICK e \in {"COMPLETED", "FAILED"} : aged' = [aged EXCEPT ![r].state = e]
    BY <1>4 DEF RunEnds
  <2>2. /\ aged' \in [OldRuns -> AgedRow]
        /\ \A q \in OldRuns : aged'[q].joined = aged[q].joined /\ aged'[q].retired = aged[q].retired
    BY <1>0, <2>1 DEF AgedRow
  <2> QED
    BY <1>0, <1>2, <1>4, <2>2 DEF RunEnds
<1>5. ASSUME NEW r \in OldRuns, Reopen(r) PROVE RInv'
  <2>1. pull' \in [OldRuns -> PullRow] /\ \A q \in OldRuns : pull'[q].open => pull[q].open \/ q \in excused'
    BY <1>0, <1>5 DEF Reopen, PullRow
  <2> QED
    BY <1>0, <1>2, <1>5, <2>1 DEF Reopen
<1>6. CASE NextDay
  <2>1. RetentionTypeOK' /\ ClosedBeforeRetired'
    BY <1>0, <1>6 DEF NextDay, RetentionTypeOK, ClosedBeforeRetired
  <2>2. ASSUME NEW s \in Sweepers PROVE SweepGood(s)'
    <3>1. SweepGood(s) /\ sweep[s] \in SweepOf
      BY <1>0
    <3>2. SweepSeenTo(s)' /\ SweepRetiresOld(s)'
      BY <1>6, <3>1 DEF NextDay, SweepGood, SweepSeenTo, SweepRetiresOld
    <3>3. SweepFresh(s)'
      BY <1>0, <1>6, <3>1 DEF NextDay, SweepGood, SweepFresh, SweepOf
    <3> QED
      BY <3>2, <3>3 DEF SweepGood
  <2> QED
    BY <2>1, <2>2 DEF RInv
(* The steps of the sweep s. *)
<1>7. ASSUME NEW s \in Sweepers PROVE sweep[s] \in SweepOf /\ SweepGood(s) /\ sweep[s].since \in Nat
  BY <1>0 DEF SweepOf
<1>8. ASSUME NEW s \in Sweepers, NEW at \in {"retire", "delete", "none"}
      PROVE  /\ [Resting EXCEPT !.at = at, !.since = sweep[s].since] \in SweepOf
             /\ Goes(s, at) = [sweep EXCEPT ![s] = [Resting EXCEPT !.at = at, !.since = sweep[s].since]]
  BY <1>7 DEF Resting, SweepOf, Goes
<1>9. ASSUME NEW s \in Sweepers, BeginSweeps(s) PROVE RInv'
  <2> DEFINE new == [Resting EXCEPT !.at = SweepOrder[1], !.since = today]
  <2>1. new \in SweepOf /\ new.at = "close" /\ new.since = today
    BY <1>0 DEF Resting, SweepOf, SweepOrder
  <2>2. sweep' = [sweep EXCEPT ![s] = new] /\ today' = today /\ aged' = aged /\ pull' = pull /\ excused' = excused
    BY <1>9 DEF BeginSweeps
  <2> HIDE DEF new
  <2>3. sweep'[s] = new
    BY <1>0, <2>2
  <2>4. SweepGood(s)'
    BY <1>0, <2>1, <2>2, <2>3 DEF SweepGood, SweepFresh, SweepSeenTo, SweepRetiresOld
  <2> QED
    BY <1>0, <1>1, <2>1, <2>2, <2>4
<1>10. ASSUME NEW s \in Sweepers, ListCandidates(s) PROVE RInv'
  <2> DEFINE new == [sweep[s] EXCEPT !.at = "closing", !.todo = CloseCandidates]
  <2>1. new \in SweepOf /\ new.at = "closing" /\ new.todo = CloseCandidates /\ new.since = sweep[s].since
    BY <1>7 DEF SweepOf, CloseCandidates
  <2>2. sweep' = [sweep EXCEPT ![s] = new] /\ today' = today /\ aged' = aged /\ pull' = pull
        /\ excused' = IF blocked THEN OldRuns ELSE excused
    BY <1>0, <1>10 DEF ListCandidates
  <2> HIDE DEF new
  <2>3. sweep'[s] = new /\ sweep[s].at = "close"
    BY <1>0, <1>10, <2>2 DEF ListCandidates
  <2>4. SweepFresh(s)' /\ SweepRetiresOld(s)'
    BY <1>7, <2>1, <2>2, <2>3 DEF SweepGood, SweepFresh, SweepRetiresOld
  <2>5. SweepSeenTo(s)'
    <3> SUFFICES ASSUME ~ blocked, new.since > PrTtl, NEW r \in OldRuns \ excused, aged[r].joined
                 PROVE  r \in CloseCandidates \/ ~ pull[r].open
      BY <2>1, <2>2, <2>3 DEF SweepSeenTo
    <3>1. OlderThan(PrTtl)
      BY <1>0, <1>7, <2>1, <2>3, RetentionAssumption DEF OlderThan, SweepGood, SweepFresh
    <3> QED
      BY <1>0, <3>1 DEF CloseCandidates, ClosedBeforeRetired
  <2> QED
    BY <1>0, <1>1, <2>1, <2>2, <2>4, <2>5 DEF SweepGood
<1>11. ASSUME NEW s \in Sweepers, NEW r \in OldRuns, SkipPull(s, r) PROVE RInv'
  <2> DEFINE new == [sweep[s] EXCEPT !.todo = @ \ {r}]
  <2>1. new \in SweepOf /\ new.at = sweep[s].at /\ new.todo = sweep[s].todo \ {r} /\ new.since = sweep[s].since
    BY <1>7 DEF SweepOf
  <2>2. sweep' = [sweep EXCEPT ![s] = new] /\ today' = today /\ aged' = aged /\ pull' = pull
        /\ excused' = IF pull[r].open THEN excused \cup {r} ELSE excused
    BY <1>0, <1>11 DEF SkipPull
  <2> HIDE DEF new
  <2>3. sweep'[s] = new /\ sweep[s].at = "closing"
    BY <1>0, <1>11, <2>2 DEF SkipPull
  <2>4. SweepFresh(s)' /\ SweepRetiresOld(s)'
    BY <1>7, <2>1, <2>2, <2>3 DEF SweepGood, SweepFresh, SweepRetiresOld
  <2>5. SweepSeenTo(s)'
    BY <1>7, <2>1, <2>2, <2>3 DEF SweepGood, SweepSeenTo
  <2> QED
    BY <1>0, <1>1, <2>1, <2>2, <2>4, <2>5 DEF SweepGood
<1>12. ASSUME NEW s \in Sweepers, NEW r \in OldRuns, ClosePull(s, r) PROVE RInv'
  <2> DEFINE new == [sweep[s] EXCEPT !.at = "audit", !.todo = @ \ {r}, !.locked = {r}]
  <2>1. new \in SweepOf /\ new.at = "audit" /\ new.todo = sweep[s].todo \ {r} /\ new.since = sweep[s].since
    BY <1>7 DEF SweepOf
  <2>2. sweep' = [sweep EXCEPT ![s] = new] /\ today' = today /\ aged' = aged /\ excused' = excused
        /\ pull' = [pull EXCEPT ![r].open = FALSE]
    BY <1>0, <1>12 DEF ClosePull
  <2> HIDE DEF new
  <2>3. sweep'[s] = new /\ sweep[s].at = "closing"
    BY <1>0, <1>12, <2>2 DEF ClosePull
  <2>4. /\ pull' \in [OldRuns -> PullRow] /\ ~ pull'[r].open
        /\ \A q \in OldRuns : pull'[q].open => pull[q].open
    BY <1>0, <2>2 DEF PullRow
  <2>5. SweepFresh(s)' /\ SweepRetiresOld(s)'
    BY <1>7, <2>1, <2>2, <2>3 DEF SweepGood, SweepFresh, SweepRetiresOld
  <2>6. SweepSeenTo(s)'
    BY <1>7, <2>1, <2>2, <2>3, <2>4 DEF SweepGood, SweepSeenTo
  <2> QED
    BY <1>0, <1>1, <2>1, <2>2, <2>4, <2>5, <2>6 DEF SweepGood
<1>13. ASSUME NEW s \in Sweepers, EmitCloseAudit(s) PROVE RInv'
  <2> DEFINE new == [sweep[s] EXCEPT !.at = "closing", !.locked = {}]
  <2>1. new \in SweepOf /\ new.at = "closing" /\ new.todo = sweep[s].todo /\ new.since = sweep[s].since
    BY <1>7 DEF SweepOf
  <2>2. sweep' = [sweep EXCEPT ![s] = new] /\ today' = today /\ aged' = aged /\ excused' = excused
    BY <1>0, <1>13 DEF EmitCloseAudit
  <2> HIDE DEF new
  <2>3. sweep'[s] = new /\ sweep[s].at = "audit"
    BY <1>0, <1>13, <2>2 DEF EmitCloseAudit
  <2>4. /\ pull' \in [OldRuns -> PullRow]
        /\ \A q \in OldRuns : pull'[q].open = pull[q].open
    BY <1>0, <1>13 DEF EmitCloseAudit, PullRow
  <2>5. SweepFresh(s)' /\ SweepRetiresOld(s)'
    BY <1>7, <2>1, <2>2, <2>3 DEF SweepGood, SweepFresh, SweepRetiresOld
  <2>6. SweepSeenTo(s)'
    BY <1>7, <2>1, <2>2, <2>3, <2>4 DEF SweepGood, SweepSeenTo
  <2> QED
    BY <1>0, <1>1, <2>1, <2>2, <2>4, <2>5, <2>6 DEF SweepGood
(* The sweep s goes on to the next one. *)
<1>14. ASSUME NEW s \in Sweepers, NEW at \in {"retire", "delete", "none"}, sweep' = Goes(s, at),
              today' = today, aged' = aged, pull' = pull, sweep[s].at # "none",
              excused \subseteq excused', excused' \subseteq OldRuns,
              at = "retire" => \A r \in OldRuns \ excused' : sweep[s].since > PrTtl /\ aged[r].joined => ~ pull[r].open
       PROVE  RInv'
  <2> DEFINE new == [Resting EXCEPT !.at = at, !.since = sweep[s].since]
  <2>1. new \in SweepOf /\ new.at = at /\ new.since = sweep[s].since
    BY <1>8 DEF Resting
  <2>2. sweep' = [sweep EXCEPT ![s] = new]
    BY <1>8, <1>14
  <2> HIDE DEF new
  <2>3. sweep'[s] = new
    BY <1>0, <2>2
  <2>4. SweepFresh(s)' /\ SweepRetiresOld(s)'
    BY <1>7, <1>14, <2>1, <2>3 DEF SweepGood, SweepFresh, SweepRetiresOld
  <2>5. SweepSeenTo(s)'
    BY <1>14, <2>1, <2>3 DEF SweepSeenTo
  <2> QED
    BY <1>0, <1>1, <1>14, <2>1, <2>2, <2>4, <2>5 DEF SweepGood
<1>15. ASSUME NEW s \in Sweepers, EndClose(s) PROVE RInv'
  <2>1. /\ sweep[s].at = "closing" /\ sweep[s].todo = {} /\ sweep' = Goes(s, "retire")
        /\ today' = today /\ aged' = aged /\ pull' = pull /\ excused' = excused
    BY <1>15, SweepsInOrder DEF EndClose
  <2>2. \A r \in OldRuns \ excused : sweep[s].since > PrTtl /\ aged[r].joined => ~ pull[r].open
    BY <1>7, <2>1 DEF SweepGood, SweepSeenTo
  <2> QED
    BY <1>0, <1>14, <2>1, <2>2
<1>16. ASSUME NEW s \in Sweepers, SweepThrows(s) PROVE RInv'
  <2>1. sweep[s].at # "none" /\ today' = today /\ aged' = aged /\ pull' = pull
    BY <1>16 DEF SweepThrows
  <2>2. CASE sweep[s].at \in {"close", "closing", "audit"}
    <3>1. sweep' = Goes(s, "retire") /\ excused' = OldRuns
      BY <1>16, <2>2, SweepsInOrder DEF SweepThrows
    <3> QED
      BY <1>0, <1>14, <2>1, <3>1
  <2>3. CASE sweep[s].at \in {"retire", "retiring"}
    <3>1. sweep' = Goes(s, "delete") /\ excused' = excused
      BY <1>16, <2>3, SweepsInOrder DEF SweepThrows
    <3> QED
      BY <1>0, <1>14, <2>1, <3>1
  <2>4. CASE sweep[s].at = "delete"
    <3>1. sweep' = Goes(s, "none") /\ excused' = excused
      BY <1>16, <2>4, SweepsInOrder DEF SweepThrows
    <3> QED
      BY <1>0, <1>14, <2>1, <3>1
  <2> QED
    BY <1>7, <2>1, <2>2, <2>3, <2>4 DEF SweepOf
<1>17. ASSUME NEW s \in Sweepers, LockBatch(s) PROVE RInv'
  <2>0. sweep[s].at = "retire" /\ today' = today /\ aged' = aged /\ pull' = pull /\ excused' = excused
    BY <1>17 DEF LockBatch
  <2>1. CASE RetireCandidates(s) = {}
    <3>1. sweep' = Goes(s, "delete")
      BY <1>17, <2>1, SweepsInOrder DEF LockBatch
    <3> QED
      BY <1>0, <1>14, <2>0, <3>1
  <2>2. CASE RetireCandidates(s) # {}
    <3> DEFINE new == [sweep[s] EXCEPT !.at = "retiring", !.locked = RetireCandidates(s)]
    <3>1. new \in SweepOf /\ new.at = "retiring" /\ new.since = sweep[s].since
      BY <1>7 DEF SweepOf, RetireCandidates
    <3>2. sweep' = [sweep EXCEPT ![s] = new]
      BY <1>0, <1>17, <2>2 DEF LockBatch
    <3> HIDE DEF new
    <3>3. sweep'[s] = new
      BY <1>0, <3>2
    <3>4. OlderThan(RunTtl)
      BY <2>2 DEF RetireCandidates
    <3>5. sweep[s].since > PrTtl
      BY <1>0, <1>7, <2>0, <3>4, RetentionAssumption DEF SweepGood, SweepFresh, OlderThan
    <3>6. SweepFresh(s)' /\ SweepRetiresOld(s)'
      BY <1>7, <2>0, <3>1, <3>3, <3>5 DEF SweepGood, SweepFresh, SweepRetiresOld
    <3>7. SweepSeenTo(s)'
      BY <1>7, <2>0, <3>1, <3>3 DEF SweepGood, SweepSeenTo
    <3> QED
      BY <1>0, <1>1, <2>0, <3>1, <3>2, <3>6, <3>7 DEF SweepGood
  <2> QED
    BY <2>1, <2>2
<1>18. ASSUME NEW s \in Sweepers, DeleteEvents(s) PROVE RInv'
  <2>1. /\ sweep[s].at = "delete" /\ sweep' = Goes(s, "none")
        /\ today' = today /\ aged' = aged /\ pull' = pull /\ excused' = excused
    BY <1>18, SweepsInOrder DEF DeleteEvents
  <2> QED
    BY <1>0, <1>14, <2>1
<1>19. ASSUME NEW s \in Sweepers, SweeperDies(s) PROVE RInv'
  <2>1. Resting \in SweepOf /\ Resting.at = "none"
    BY DEF Resting, SweepOf
  <2>2. sweep' = [sweep EXCEPT ![s] = Resting] /\ today' = today /\ aged' = aged /\ pull' = pull /\ excused' = excused
    BY <1>19 DEF SweeperDies
  <2>3. sweep'[s] = Resting
    BY <1>0, <2>2
  <2>4. SweepGood(s)'
    BY <2>1, <2>3 DEF SweepGood, SweepFresh, SweepSeenTo, SweepRetiresOld
  <2> QED
    BY <1>0, <1>1, <2>1, <2>2, <2>4
<1>20. ASSUME NEW s \in Sweepers, WriteBatch(s) PROVE RInv'
  <2> DEFINE new == [sweep[s] EXCEPT !.at = "retire", !.locked = {}]
  <2>1. new \in SweepOf /\ new.at = "retire" /\ new.since = sweep[s].since
    BY <1>7 DEF SweepOf
  <2>2. sweep' = [sweep EXCEPT ![s] = new] /\ today' = today /\ pull' = pull /\ excused' = excused
    BY <1>0, <1>20 DEF WriteBatch
  <2> HIDE DEF new
  <2>3. sweep'[s] = new /\ sweep[s].at = "retiring"
    BY <1>0, <1>20, <2>2 DEF WriteBatch
  <2>4. /\ aged' \in [OldRuns -> AgedRow]
        /\ \A r \in OldRuns : /\ aged'[r].joined = aged[r].joined
                              /\ aged'[r].retired => aged[r].retired \/ r \in sweep[s].locked
    <3> DEFINE row(r) == [aged[r] EXCEPT !.retired = TRUE, !.trail = @ + 1]
    <3>1. ASSUME NEW r \in OldRuns PROVE row(r) \in AgedRow /\ row(r).joined = aged[r].joined
      <4>1. aged[r] \in AgedRow
        BY <1>0
      <4>2. aged[r].trail + 1 \in Nat /\ TRUE \in BOOLEAN
        BY <4>1 DEF AgedRow
      <4>3. row(r).joined = aged[r].joined
        BY <4>1, Zenon DEF AgedRow
      <4>4. row(r) \in AgedRow
        BY <4>1, <4>2 DEF AgedRow
      <4> QED
        BY <4>3, <4>4
    <3>2. aged' = [r \in OldRuns |-> IF r \in sweep[s].locked THEN row(r) ELSE aged[r]]
      BY <1>20 DEF WriteBatch
    <3> HIDE DEF row
    <3> QED
      BY <1>0, <3>1, <3>2
  <2>5. RetentionTypeOK'
    BY <1>0, <2>1, <2>2, <2>4 DEF RetentionTypeOK
  <2>6. ClosedBeforeRetired'
    <3> SUFFICES ASSUME NEW r \in OldRuns \ excused, aged'[r].retired, aged[r].joined PROVE ~ pull[r].open
      BY <2>2, <2>4 DEF ClosedBeforeRetired
    <3>1. CASE aged[r].retired
      BY <1>0, <3>1 DEF ClosedBeforeRetired
    <3>2. CASE r \in sweep[s].locked
      BY <1>7, <2>3, <3>2 DEF SweepGood, SweepRetiresOld, SweepSeenTo
    <3> QED
      BY <2>4, <3>1, <3>2
  <2>7. SweepGood(s)'
    <3>1. SweepFresh(s)' /\ SweepRetiresOld(s)'
      BY <1>7, <2>1, <2>2, <2>3 DEF SweepGood, SweepFresh, SweepRetiresOld
    <3>2. SweepSeenTo(s)'
      BY <1>7, <2>1, <2>2, <2>3, <2>4 DEF SweepGood, SweepSeenTo
    <3> QED
      BY <3>1, <3>2 DEF SweepGood
  <2>8. ASSUME NEW t \in Sweepers, t # s PROVE SweepGood(t)'
    <3>1. sweep'[t] = sweep[t]
      BY <1>0, <2>2, <2>8
    <3> QED
      BY <2>2, <2>4, <3>1, OtherSweepsKeep
  <2> QED
    BY <2>5, <2>6, <2>7, <2>8 DEF RInv
<1> QED
  BY <1>3, <1>4, <1>5, <1>6, <1>9, <1>10, <1>11, <1>12, <1>13, <1>15, <1>16, <1>17, <1>18, <1>19, <1>20 DEF RetentionNext

(* A retired run is never looked at again: by then its pull request is       *)
(* closed, whatever attempts of the job overlapped, failed or died, unless   *)
(* it is excused.                                                            *)
THEOREM RetiredIsClosed == RetentionSpec => []ClosedBeforeRetired
<1>1. RInv => ClosedBeforeRetired
  BY DEF RInv
<1> QED
  BY <1>1, RetentionInitially, RetentionNextInv, PTL DEF RetentionSpec

-----------------------------------------------------------------------------
(* Login. The failure that reaches the threshold locks, whichever it is. *)

CredRow    == [enabled : BOOLEAN, fails : Nat, locked : BOOLEAN, granted : BOOLEAN]
LoginInv   == cred \in CredRow /\ lapsed \in BOOLEAN /\ LockedAtThreshold

LEMMA CredCounted ==
  ASSUME NEW c \in CredRow, NEW n \in Nat, NEW b \in BOOLEAN
  PROVE  [c EXCEPT !.fails = n, !.locked = b] \in CredRow
<1>1. CASE b = TRUE
  <2>1. [c EXCEPT !.fails = n, !.locked = TRUE] \in CredRow
    BY DEF CredRow
  <2> QED
    BY <1>1, <2>1
<1>2. CASE b = FALSE
  <2>1. [c EXCEPT !.fails = n, !.locked = FALSE] \in CredRow
    BY DEF CredRow
  <2> QED
    BY <1>2, <2>1
<1> QED
  BY <1>1, <1>2

LEMMA LoginInitially == LoginInit => LoginInv
<1> SUFFICES ASSUME LoginInit PROVE LoginInv
  OBVIOUS
<1>1. PICK g \in BOOLEAN : cred = [enabled |-> TRUE, fails |-> 0, locked |-> FALSE, granted |-> g]
  BY DEF LoginInit
<1>2. cred \in CredRow /\ cred.fails = 0 /\ ~ cred.locked
  BY <1>1 DEF CredRow
<1>3. ~ lapsed /\ lapsed \in BOOLEAN
  BY DEF LoginInit
<1>4. Threshold \in Nat /\ Threshold # 0
  BY LoginAssumption
<1>5. ~ (cred.fails >= Threshold)
  BY <1>2, <1>4
<1> QED
  BY <1>2, <1>3, <1>5 DEF LoginInv, LockedAtThreshold

LEMMA LoginNextInv == LoginInv /\ [LoginNext]_loginVars => LoginInv'
<1> SUFFICES ASSUME LoginInv, [LoginNext]_loginVars PROVE LoginInv'
  OBVIOUS
<1>0. cred \in CredRow /\ lapsed \in BOOLEAN /\ LockedAtThreshold /\ Threshold \in Nat \ {0}
  BY LoginAssumption DEF LoginInv
<1>1. CASE UNCHANGED <<cred, lapsed>>
  BY <1>0, <1>1 DEF LoginInv, LockedAtThreshold
<1>2. ASSUME cred' \in CredRow, lapsed' \in BOOLEAN, cred'.fails = cred.fails,
             (cred'.locked \/ lapsed') <=> (cred.locked \/ lapsed)
      PROVE  LoginInv'
  BY <1>0, <1>2 DEF LoginInv, LockedAtThreshold
<1>3. CASE LockLapses
  <2>1. cred' \in CredRow /\ cred'.fails = cred.fails /\ ~ cred'.locked /\ cred.locked /\ lapsed' = TRUE
    BY <1>0, <1>3 DEF LockLapses, CredRow
  <2> QED
    BY <1>2, <2>1
<1>4. CASE Withdraw
  <2>1. cred' \in CredRow /\ cred'.fails = cred.fails /\ (cred'.locked <=> cred.locked) /\ lapsed' = lapsed
    BY <1>0, <1>4 DEF Withdraw, CredRow
  <2> QED
    BY <1>0, <1>2, <2>1
<1>5. ASSUME cred' = Attempted(TRUE), lapsed' = FALSE PROVE LoginInv'
  <2>1. cred' \in CredRow /\ cred'.fails = 0 /\ ~ cred'.locked
    BY <1>0, <1>5 DEF Attempted, CredRow
  <2>2. ~ lapsed' /\ lapsed' \in BOOLEAN
    BY <1>5
  <2>3. ~ (cred'.fails >= Threshold)
    BY <1>0, <2>1
  <2> QED
    BY <2>1, <2>2, <2>3 DEF LoginInv, LockedAtThreshold
<1>6. ASSUME cred' = Attempted(FALSE), lapsed' = lapsed PROVE LoginInv'
  <2> DEFINE lock == cred.locked \/ cred.fails + 1 = Threshold
  <2>1. cred' = [cred EXCEPT !.fails = cred.fails + 1, !.locked = lock]
    BY <1>0, <1>6 DEF Attempted
  <2>2. lock \in BOOLEAN /\ cred.fails \in Nat
    BY <1>0 DEF CredRow
  <2> HIDE DEF lock
  <2>3. cred' \in CredRow
    <3>1. cred.fails + 1 \in Nat
      BY <2>2
    <3> QED
      BY <1>0, <2>1, <2>2, <3>1, CredCounted, Zenon
  <2>4. cred'.fails = cred.fails + 1
    BY <1>0, <2>1 DEF CredRow
  <2>5. cred'.locked = lock
    BY <1>0, <2>1, Zenon DEF CredRow
  <2>6. lock <=> cred.locked \/ cred.fails + 1 = Threshold
    BY DEF lock
  <2>7. (cred.fails >= Threshold) <=> (cred.locked \/ lapsed)
    BY <1>0 DEF LockedAtThreshold
  <2>8. (cred.fails + 1 >= Threshold) <=> (cred.fails >= Threshold \/ cred.fails + 1 = Threshold)
    BY <1>0, <2>2
  <2>9. (cred'.fails >= Threshold) <=> (cred'.locked \/ lapsed')
    BY <1>6, <2>4, <2>5, <2>6, <2>7, <2>8, Zenon
  <2> QED
    BY <1>0, <1>6, <2>3, <2>9, Zenon DEF LoginInv, LockedAtThreshold
<1>7. ASSUME NEW l \in Logins, RecordAttempt(l) PROVE LoginInv'
  <2>1. CASE UNCHANGED <<cred, lapsed>>
    BY <1>1, <2>1
  <2>2. CASE cred' = Attempted(login[l].outcome = "ok") /\ lapsed' = (lapsed /\ login[l].outcome # "ok")
    <3>1. CASE login[l].outcome = "ok"
      BY <1>5, <2>2, <3>1
    <3>2. CASE login[l].outcome # "ok"
      BY <1>0, <1>6, <2>2, <3>2
    <3> QED
      BY <3>1, <3>2
  <2> QED
    BY <1>7, <2>1, <2>2 DEF RecordAttempt
<1> QED
  BY <1>1, <1>3, <1>4, <1>7
     DEF LoginNext, loginVars, CheckAllowed, ReadCredential, RecordAddress, CookieExpires, WindowPasses

-----------------------------------------------------------------------------
(* The keys of the pods. A pod that is past its keys has the key of the one  *)
(* source there is; the super admin, once active, stays.                     *)

ReplicaRow == [at : {"down", "ensure", "insert", "admins", "seed", "create", "reactivate", "up"},
               key : Replicas \cup {NoKey, VaultKey}]
HasKey(p)  == replica[p].at \in {"admins", "seed", "create", "reactivate", "up"}

KeysAgree ==
  missed \/ \A p \in Replicas :
    /\ HasKey(p) => replica[p].key = (IF vaultHas THEN VaultKey ELSE dbKey)
    /\ HasKey(p) /\ ~ vaultHas => dbKey # NoKey
    /\ replica[p].at \in {"ensure", "insert"} => ~ vaultHas

SecretsInv ==
  /\ replica \in [Replicas -> ReplicaRow] /\ dbKey \in Replicas \cup {NoKey}
  /\ missed \in BOOLEAN /\ vaultHas \in BOOLEAN
  /\ KeysAgree
  /\ \A p \in Replicas : replica[p].at = "up" => admin = "active"

LEMMA SecretsAgree == SecretsInv => ReplicasAgree
  BY DEF SecretsInv, KeysAgree, HasKey, ReplicasAgree

LEMMA SecretsInitially == SecretsInit => SecretsInv
<1> SUFFICES ASSUME SecretsInit PROVE SecretsInv
  OBVIOUS
<1>1. Down \in ReplicaRow /\ Down.at = "down"
  BY DEF Down, ReplicaRow
<1>2. \A p \in Replicas : replica[p].at = "down"
  BY <1>1 DEF SecretsInit
<1> QED
  BY <1>1, <1>2 DEF SecretsInit, SecretsInv, KeysAgree, HasKey

(* Where a pod's row goes, seen from the invariant. *)
LEMMA ReplicaSteps ==
  ASSUME SecretsInv, NEW p \in Replicas, NEW new \in ReplicaRow, replica' = [replica EXCEPT ![p] = new],
         vaultHas \in BOOLEAN, vaultHas' = vaultHas, dbKey' \in Replicas \cup {NoKey}, dbKey # NoKey => dbKey' = dbKey,
         missed' \in BOOLEAN, missed => missed', admin = "active" => admin' = "active",
         new.at = "up" => admin' = "active",
         ~ missed' /\ new.at \in {"admins", "seed", "create", "reactivate", "up"}
           => new.key = (IF vaultHas THEN VaultKey ELSE dbKey') /\ (~ vaultHas => dbKey' # NoKey),
         ~ missed' /\ new.at \in {"ensure", "insert"} => ~ vaultHas
  PROVE  SecretsInv'
<1>1. replica' \in [Replicas -> ReplicaRow] /\ replica'[p] = new
      /\ \A q \in Replicas : q # p => replica'[q] = replica[q]
  BY DEF SecretsInv
<1>2. \A q \in Replicas : replica'[q].at = "up" => admin' = "active"
  BY <1>1 DEF SecretsInv
<1>3. KeysAgree'
  <2> SUFFICES ASSUME ~ missed', NEW q \in Replicas
               PROVE  /\ HasKey(q)' => replica'[q].key = (IF vaultHas THEN VaultKey ELSE dbKey')
                      /\ HasKey(q)' /\ ~ vaultHas => dbKey' # NoKey
                      /\ replica'[q].at \in {"ensure", "insert"} => ~ vaultHas
    BY DEF KeysAgree
  <2>1. CASE q = p
    BY <1>1, <2>1 DEF HasKey
  <2>2. CASE q # p
    <3>1. /\ HasKey(q) => replica[q].key = (IF vaultHas THEN VaultKey ELSE dbKey)
          /\ HasKey(q) /\ ~ vaultHas => dbKey # NoKey
          /\ replica[q].at \in {"ensure", "insert"} => ~ vaultHas
      BY DEF SecretsInv, KeysAgree
    <3> QED
      BY <1>1, <2>2, <3>1 DEF HasKey
  <2> QED
    BY <2>1, <2>2
<1> QED
  BY <1>1, <1>2, <1>3 DEF SecretsInv

LEMMA SecretsNextInv == SecretsInv /\ [SecretsNext]_secretVars => SecretsInv'
<1> SUFFICES ASSUME SecretsInv, [SecretsNext]_secretVars PROVE SecretsInv'
  OBVIOUS
<1>0. /\ replica \in [Replicas -> ReplicaRow] /\ dbKey \in Replicas \cup {NoKey}
      /\ missed \in BOOLEAN /\ vaultHas \in BOOLEAN
      /\ KeysAgree
  BY DEF SecretsInv
<1>1. CASE UNCHANGED secretVars
  BY <1>1 DEF secretVars, SecretsInv, KeysAgree, HasKey
(* A step that keeps the key of a pod. *)
<1>2. ASSUME NEW p \in Replicas, NEW at \in {"down", "seed", "create", "reactivate", "up"},
             HasKey(p), Steps(p, at), UNCHANGED <<vaultHas, dbKey, missed>>,
             admin = "active" => admin' = "active", at = "up" => admin' = "active"
      PROVE  SecretsInv'
  <2> DEFINE new == [replica[p] EXCEPT !.at = at]
  <2>1. new \in ReplicaRow /\ new.at = at /\ new.key = replica[p].key
    BY <1>0 DEF ReplicaRow
  <2>2. replica' = [replica EXCEPT ![p] = new]
    BY <1>0, <1>2 DEF Steps
  <2> HIDE DEF new
  <2>3. \/ missed
        \/ replica[p].key = (IF vaultHas THEN VaultKey ELSE dbKey) /\ (~ vaultHas => dbKey # NoKey)
    <3> SUFFICES ASSUME ~ missed
                 PROVE  replica[p].key = (IF vaultHas THEN VaultKey ELSE dbKey) /\ (~ vaultHas => dbKey # NoKey)
      OBVIOUS
    <3> QED
      BY <1>0, <1>2 DEF KeysAgree
  <2> QED
    BY <1>0, <1>2, <2>1, <2>2, <2>3, ReplicaSteps
<1>3. ASSUME NEW p \in Replicas, ReadBase(p) PROVE SecretsInv'
  <2>1. PICK reached \in BOOLEAN :
          /\ replica' = [replica EXCEPT ![p] =
               IF vaultHas /\ reached THEN [at |-> "admins", key |-> VaultKey] ELSE [at |-> "ensure", key |-> NoKey]]
          /\ missed' = (missed \/ (vaultHas /\ ~reached))
    BY <1>3 DEF ReadBase
  <2>2. missed' \in BOOLEAN /\ (missed => missed') /\ UNCHANGED <<vaultHas, dbKey, admin>>
    BY <1>3, <2>1 DEF ReadBase
  <2> DEFINE vault == [at |-> "admins", key |-> VaultKey]
             base  == [at |-> "ensure", key |-> NoKey]
  <2>3. vault \in ReplicaRow /\ vault.at = "admins" /\ vault.key = VaultKey /\ base \in ReplicaRow /\ base.at = "ensure"
    BY DEF ReplicaRow
  <2>4. CASE vaultHas /\ reached
    <3>1. replica' = [replica EXCEPT ![p] = vault]
      BY <2>1, <2>4
    <3> HIDE DEF vault, base
    <3> QED
      BY <1>0, <2>2, <2>3, <2>4, <3>1, ReplicaSteps
  <2>5. CASE ~ (vaultHas /\ reached)
    <3>1. replica' = [replica EXCEPT ![p] = base]
      BY <2>1, <2>5
    <3>2. missed' \/ ~ vaultHas
      BY <2>1, <2>5
    <3> HIDE DEF vault, base
    <3> QED
      BY <1>0, <2>2, <2>3, <3>1, <3>2, ReplicaSteps
  <2> QED
    BY <2>4, <2>5
<1>4. ASSUME NEW p \in Replicas, ReadSecrets(p) PROVE SecretsInv'
  <2> DEFINE found == [at |-> "admins", key |-> dbKey]
             none  == [at |-> "insert", key |-> NoKey]
  <2>1. found \in ReplicaRow /\ found.at = "admins" /\ found.key = dbKey /\ none \in ReplicaRow /\ none.at = "insert"
    BY <1>0 DEF ReplicaRow
  <2>2. missed \/ ~ vaultHas
    BY <1>0, <1>4 DEF ReadSecrets, KeysAgree
  <2>3. UNCHANGED <<vaultHas, dbKey, admin, missed>>
    BY <1>4 DEF ReadSecrets
  <2>4. CASE dbKey # NoKey
    <3>1. replica' = [replica EXCEPT ![p] = found]
      BY <1>4, <2>4 DEF ReadSecrets
    <3> HIDE DEF found, none
    <3> QED
      BY <1>0, <2>1, <2>2, <2>3, <2>4, <3>1, ReplicaSteps
  <2>5. CASE dbKey = NoKey
    <3>1. replica' = [replica EXCEPT ![p] = none]
      BY <1>4, <2>5 DEF ReadSecrets
    <3> HIDE DEF found, none
    <3> QED
      BY <1>0, <2>1, <2>2, <2>3, <3>1, ReplicaSteps
  <2> QED
    BY <2>4, <2>5
<1>5. ASSUME NEW p \in Replicas, InsertSecrets(p) PROVE SecretsInv'
  <2> DEFINE new == [at |-> "admins", key |-> Persisted(p)]
  <2>1. Persisted(p) = dbKey' /\ dbKey' \in Replicas /\ (dbKey # NoKey => dbKey' = dbKey) /\ dbKey' # NoKey
    BY <1>0, <1>5, AuthSecretsAssumption DEF InsertSecrets, Persisted
  <2>2. new \in ReplicaRow /\ new.at = "admins" /\ new.key = dbKey'
    BY <2>1 DEF ReplicaRow
  <2>3. missed \/ ~ vaultHas
    BY <1>0, <1>5 DEF InsertSecrets, KeysAgree
  <2>4. replica' = [replica EXCEPT ![p] = new] /\ UNCHANGED <<vaultHas, admin, missed>>
    BY <1>5 DEF InsertSecrets
  <2> HIDE DEF new
  <2> QED
    BY <1>0, <2>1, <2>2, <2>3, <2>4, ReplicaSteps
<1>6. ASSUME NEW p \in Replicas, ListAdmins(p) \/ LookUpAdmin(p) \/ SeedDefault(p) PROVE SecretsInv'
  BY <1>2, <1>6 DEF ListAdmins, LookUpAdmin, SeedDefault, HasKey
<1>7. ASSUME NEW p \in Replicas, PodDies(p) PROVE SecretsInv'
  <2>1. Down \in ReplicaRow /\ Down.at = "down"
    BY DEF Down, ReplicaRow
  <2>2. replica' = [replica EXCEPT ![p] = Down] /\ UNCHANGED <<vaultHas, dbKey, admin, missed>>
    BY <1>7 DEF PodDies
  <2> QED
    BY <1>0, <2>1, <2>2, ReplicaSteps
<1> QED
  BY <1>1, <1>3, <1>4, <1>5, <1>6, <1>7 DEF SecretsNext

-----------------------------------------------------------------------------
(* Approvals. Rows are filled in order; what is pending at a desk with an    *)
(* index is its newest row; and a handler that is about to approve was not   *)
(* started by the requester, nor does one report a decision the row has not. *)

ChangeRow == [desk : Desks \cup {"none"}, by : Admins \cup {Nobody}, state : {"none", "pending", "applied", "rejected"},
              expired : BOOLEAN, decider : Admins \cup {Nobody}]
CallRow   == [at : {"free", "decide", "audit"}, id : 0..MaxChanges, verdict : {"none", "requested", "applied", "rejected"}]
Asked(c)  == change[c].state # "none"

ApprovalsTypeOK ==
  /\ change \in [ChangeIds -> ChangeRow] /\ setting \in [Desks -> 0..MaxChanges]
  /\ deskCall \in [Admins -> CallRow] /\ trail \subseteq ChangeIds \X {"applied", "rejected"}

RowsFilled ==
  /\ \A c \in ChangeIds : ~ Asked(c) => change[c] = NoChange
  /\ \A b, c \in ChangeIds : b < c /\ Asked(c) => Asked(b)
  /\ \A c \in ChangeIds : Asked(c) => change[c].desk \in Desks

PendingIsNewest ==
  \A b, c \in ChangeIds :
    Pending(c) /\ change[c].desk # "proposal" /\ Asked(b) /\ change[b].desk = change[c].desk => b <= c

CallSound(u) ==
  /\ deskCall[u].at \in {"decide", "audit"} => deskCall[u].id \in ChangeIds /\ Asked(deskCall[u].id)
  /\ deskCall[u].at = "decide" /\ deskCall[u].verdict = "applied" => change[deskCall[u].id].by # u
  /\ deskCall[u].at = "audit" /\ deskCall[u].verdict \in {"applied", "rejected"}
        => change[deskCall[u].id].state = deskCall[u].verdict
  /\ deskCall[u].at = "audit" => deskCall[u].verdict # "none"

AInv ==
  /\ ApprovalsTypeOK /\ RowsFilled /\ PendingIsNewest
  /\ \A u \in Admins : CallSound(u)
  /\ TwoPersonRule

LEMMA ApprovalsInitially == ApprovalsInit => AInv
<1> SUFFICES ASSUME ApprovalsInit PROVE AInv
  OBVIOUS
<1>1. NoChange \in ChangeRow /\ NoChange.state = "none" /\ Free \in CallRow /\ Free.at = "free"
  BY ApprovalsAssumption DEF NoChange, ChangeRow, Nobody, Free, CallRow
<1>2. /\ \A c \in ChangeIds : change[c] = NoChange
      /\ \A u \in Admins : deskCall[u] = Free
      /\ \A d \in Desks : setting[d] = 0
  BY DEF ApprovalsInit
<1>3. ApprovalsTypeOK
  BY <1>1, ApprovalsAssumption DEF ApprovalsInit, ApprovalsTypeOK
<1>4. RowsFilled /\ PendingIsNewest
  BY <1>1, <1>2 DEF RowsFilled, PendingIsNewest, Asked, Pending
<1>5. \A u \in Admins : CallSound(u)
  BY <1>1, <1>2 DEF CallSound
<1>6. TwoPersonRule
  BY <1>1, <1>2 DEF ApprovalsInit, TwoPersonRule
<1> QED
  BY <1>3, <1>4, <1>5, <1>6 DEF AInv

(* A step that leaves the rows alone. *)
LEMMA CallsKeep ==
  ASSUME AInv, change' = change, setting' = setting, trail' \subseteq ChangeIds \X {"applied", "rejected"},
         \A e \in trail' : e \in trail \/ change[e[1]].state = e[2],
         deskCall' \in [Admins -> CallRow],
         \A u \in Admins : CallSound(u)'
  PROVE  AInv'
<1>1. ApprovalsTypeOK' /\ RowsFilled' /\ PendingIsNewest'
  BY DEF AInv, ApprovalsTypeOK, RowsFilled, PendingIsNewest, Asked, Pending
<1>2. TwoPersonRule'
  BY DEF AInv, TwoPersonRule
<1> QED
  BY <1>1, <1>2 DEF AInv

LEMMA OneCall ==
  ASSUME AInv, NEW u \in Admins, NEW new \in CallRow, deskCall' = [deskCall EXCEPT ![u] = new],
         \A c \in ChangeIds : Asked(c) => Asked(c)' /\ change'[c].by = change[c].by,
         \A c \in ChangeIds : Asked(c) /\ ~ Pending(c) => change'[c].state = change[c].state,
         CallSound(u)'
  PROVE  deskCall' \in [Admins -> CallRow] /\ \A v \in Admins : CallSound(v)'
<1>1. deskCall' \in [Admins -> CallRow]
  BY DEF AInv, ApprovalsTypeOK
<1>2. ASSUME NEW v \in Admins, v # u PROVE CallSound(v)'
  <2>1. deskCall'[v] = deskCall[v] /\ CallSound(v)
    BY <1>2 DEF AInv, ApprovalsTypeOK
  <2> QED
    BY <2>1 DEF CallSound, Pending, Asked
<1> QED
  BY <1>1, <1>2

LEMMA ApprovalsNextInv == AInv /\ [ApprovalsNext]_approvalVars => AInv'
<1> SUFFICES ASSUME AInv, [ApprovalsNext]_approvalVars PROVE AInv'
  OBVIOUS
<1>0. /\ change \in [ChangeIds -> ChangeRow] /\ setting \in [Desks -> 0..MaxChanges]
      /\ deskCall \in [Admins -> CallRow] /\ trail \subseteq ChangeIds \X {"applied", "rejected"}
      /\ RowsFilled /\ PendingIsNewest /\ TwoPersonRule /\ MaxChanges \in Nat /\ ChangeIds = 1..MaxChanges
      /\ \A u \in Admins : CallSound(u)
  BY ApprovalsAssumption DEF AInv, ApprovalsTypeOK, ChangeIds
<1>1. CASE UNCHANGED <<change, setting, deskCall, trail>>
  BY <1>0, <1>1, CallsKeep DEF CallSound, Asked
(* The handler of u takes a step that leaves rows and trail alone. *)
<1>2. ASSUME NEW u \in Admins, NEW new \in CallRow, deskCall' = [deskCall EXCEPT ![u] = new],
             UNCHANGED <<change, setting, trail>>,
             new.at \in {"decide", "audit"} => new.id \in ChangeIds /\ Asked(new.id),
             new.at = "decide" /\ new.verdict = "applied" => change[new.id].by # u,
             new.at # "audit"
      PROVE  AInv'
  <2>1. deskCall'[u] = new
    BY <1>0, <1>2
  <2>2. CallSound(u)'
    BY <1>2, <2>1 DEF CallSound, Asked
  <2> QED
    BY <1>0, <1>2, <2>2, OneCall, CallsKeep DEF Asked
<1>3. Free \in CallRow /\ Free.at = "free"
  BY <1>0 DEF Free, CallRow
<1>4. ASSUME NEW u \in Admins, LostDecision(u) \/ HandlerDies(u) PROVE AInv'
  BY <1>2, <1>3, <1>4 DEF LostDecision, HandlerDies
<1>5. ASSUME NEW u \in Admins, NEW c \in ChangeIds, NEW verdict \in {"applied", "rejected"}, CheckChange(u, c, verdict)
      PROVE  AInv'
  <2> DEFINE new == [at |-> "decide", id |-> c, verdict |-> verdict]
  <2>1. new \in CallRow /\ new.at = "decide" /\ new.id = c /\ new.verdict = verdict
    BY <1>0 DEF CallRow
  <2>2. deskCall' = [deskCall EXCEPT ![u] = new] /\ UNCHANGED <<change, setting, trail>>
    BY <1>5 DEF CheckChange
  <2> HIDE DEF new
  <2>3. MayDecide(u, c, verdict)
    BY <1>5 DEF CheckChange
  <2>4. Pending(c) /\ (verdict = "applied" => change[c].by # u)
    BY <2>3 DEF MayDecide, MayDecideRole, MayDecideCap, MayDecideProposal, NotSelf
  <2>5. Asked(c)
    BY <2>4 DEF Pending, Asked
  <2> QED
    BY <1>2, <2>1, <2>2, <2>4, <2>5
<1>6. ASSUME NEW u \in Admins, EmitAudit(u) PROVE AInv'
  <2> DEFINE e == <<deskCall[u].id, deskCall[u].verdict>>
  <2>1. deskCall[u] \in CallRow /\ CallSound(u) /\ deskCall[u].at = "audit"
    BY <1>0, <1>6 DEF EmitAudit
  <2>2. CASE deskCall[u].verdict = "requested"
    BY <1>2, <1>3, <1>6, <2>2 DEF EmitAudit
  <2>3. CASE deskCall[u].verdict # "requested"
    <3>1. /\ e \in ChangeIds \X {"applied", "rejected"} /\ change[deskCall[u].id].state = deskCall[u].verdict
          /\ e[1] = deskCall[u].id /\ e[2] = deskCall[u].verdict
      BY <2>1, <2>3 DEF CallSound, CallRow
    <3>2. trail' = trail \cup {e} /\ change' = change /\ setting' = setting /\ deskCall' = [deskCall EXCEPT ![u] = Free]
      BY <1>6, <2>3 DEF EmitAudit
    <3> HIDE DEF e
    <3>3. deskCall'[u] = Free
      BY <1>0, <3>2
    <3>4. CallSound(u)'
      BY <1>3, <3>3 DEF CallSound
    <3>5. deskCall' \in [Admins -> CallRow] /\ \A v \in Admins : CallSound(v)'
      BY <1>3, <3>2, <3>4, OneCall DEF Asked
    <3>6. trail' \subseteq ChangeIds \X {"applied", "rejected"} /\ \A x \in trail' : x \in trail \/ change[x[1]].state = x[2]
      BY <1>0, <3>1, <3>2
    <3> QED
      BY <3>2, <3>5, <3>6, CallsKeep
  <2> QED
    BY <2>2, <2>3
(* An asked row c changes, its desk and its requester staying. *)
<1>7. ASSUME NEW c \in ChangeIds, Asked(c), NEW row \in ChangeRow, change' = [change EXCEPT ![c] = row],
             row.desk = change[c].desk, row.by = change[c].by, row.state # "none",
             row.state = "pending" => Pending(c), ~ Pending(c) => row.state = change[c].state
      PROVE  /\ change' \in [ChangeIds -> ChangeRow] /\ change'[c] = row
             /\ \A b \in ChangeIds : b # c => change'[b] = change[b]
             /\ RowsFilled' /\ PendingIsNewest'
             /\ \A b \in ChangeIds : Asked(b) => Asked(b)' /\ change'[b].by = change[b].by
             /\ \A b \in ChangeIds : Asked(b) /\ ~ Pending(b) => change'[b].state = change[b].state
  <2>1. change' \in [ChangeIds -> ChangeRow] /\ change'[c] = row /\ \A b \in ChangeIds : b # c => change'[b] = change[b]
    BY <1>0, <1>7
  <2>2. \A b \in ChangeIds : /\ (Asked(b)' <=> Asked(b)) /\ change'[b].by = change[b].by
                             /\ change'[b].desk = change[b].desk /\ (Pending(b)' => Pending(b))
    BY <1>7, <2>1 DEF Asked, Pending
  <2>3. RowsFilled'
    BY <1>0, <1>7, <2>1, <2>2 DEF RowsFilled
  <2>4. PendingIsNewest'
    BY <1>0, <2>2 DEF PendingIsNewest
  <2> QED
    BY <1>7, <2>1, <2>2, <2>3, <2>4
<1>8. ASSUME NEW c \in ChangeIds, ChangeExpires(c) PROVE AInv'
  <2> DEFINE row == [change[c] EXCEPT !.expired = TRUE]
  <2>1. row \in ChangeRow
    BY <1>0 DEF ChangeRow
  <2>2. /\ row.desk = change[c].desk /\ row.by = change[c].by /\ row.state = change[c].state
        /\ row.decider = change[c].decider
    BY <1>0 DEF ChangeRow
  <2>3. /\ change' = [change EXCEPT ![c] = row] /\ Pending(c) /\ Asked(c) /\ row.state = "pending"
        /\ setting' = setting /\ deskCall' = deskCall /\ trail' = trail
    BY <1>0, <1>8, <2>2 DEF ChangeExpires, Pending, Asked
  <2> HIDE DEF row
  <2>4. /\ change' \in [ChangeIds -> ChangeRow] /\ change'[c] = row
        /\ \A b \in ChangeIds : b # c => change'[b] = change[b]
        /\ RowsFilled' /\ PendingIsNewest'
    BY <1>7, <2>1, <2>2, <2>3
  <2>5. \A b \in ChangeIds : /\ change'[b].state = change[b].state /\ change'[b].by = change[b].by
                             /\ change'[b].desk = change[b].desk /\ change'[b].decider = change[b].decider
    BY <2>2, <2>4
  <2>6. \A u \in Admins : CallSound(u)'
    BY <1>0, <2>3, <2>5 DEF CallSound, Asked
  <2>7. TwoPersonRule'
    <3>1. \A d \in Desks : setting'[d] # 0 => change'[setting'[d]].state = "applied"
      BY <1>0, <2>3, <2>5 DEF TwoPersonRule
    <3>2. \A e \in trail' : change'[e[1]].state = e[2]
      BY <1>0, <2>3, <2>5 DEF TwoPersonRule
    <3> QED
      BY <1>0, <2>3, <2>5, <3>1, <3>2 DEF TwoPersonRule
  <2> QED
    BY <1>0, <2>3, <2>4, <2>6, <2>7 DEF AInv, ApprovalsTypeOK
(* The handler of u decides its row. *)
<1>9. ASSUME NEW u \in Admins, NEW verdict \in {"applied", "rejected"},
             deskCall[u].at = "decide", deskCall[u].verdict = verdict, Pending(deskCall[u].id),
             change' = [change EXCEPT ![deskCall[u].id].state = verdict, ![deskCall[u].id].decider = u],
             setting' = (IF verdict = "applied" THEN InForce(deskCall[u].id) ELSE setting),
             deskCall' = [deskCall EXCEPT ![u].at = "audit"], trail' = trail
      PROVE  AInv'
  <2> DEFINE c   == deskCall[u].id
             row == [change[c] EXCEPT !.state = verdict, !.decider = u]
             new == [deskCall[u] EXCEPT !.at = "audit"]
  <2>0. /\ deskCall[u] \in CallRow /\ CallSound(u) /\ c \in ChangeIds /\ change[c] \in ChangeRow
        /\ Pending(c) /\ Asked(c) /\ change[c].desk \in Desks
    BY <1>0, <1>9 DEF CallSound, RowsFilled
  <2>1. row \in ChangeRow /\ new \in CallRow
    BY <2>0 DEF ChangeRow, CallRow
  <2>2. /\ row.desk = change[c].desk /\ row.by = change[c].by /\ row.state = verdict /\ row.decider = u
        /\ new.at = "audit" /\ new.id = c /\ new.verdict = verdict
    BY <1>9, <2>0 DEF ChangeRow, CallRow
  <2>3. change' = [change EXCEPT ![c] = row] /\ deskCall' = [deskCall EXCEPT ![u] = new]
    BY <1>0, <1>9, <2>0
  <2>4. setting' = (IF verdict = "applied" /\ change[c].desk # "proposal" THEN [setting EXCEPT ![change[c].desk] = c] ELSE setting)
    BY <1>9 DEF InForce
  <2> HIDE DEF row, new
  <2>5. /\ change' \in [ChangeIds -> ChangeRow] /\ change'[c] = row
        /\ \A b \in ChangeIds : b # c => change'[b] = change[b]
        /\ RowsFilled' /\ PendingIsNewest'
        /\ \A b \in ChangeIds : Asked(b) => Asked(b)' /\ change'[b].by = change[b].by
        /\ \A b \in ChangeIds : Asked(b) /\ ~ Pending(b) => change'[b].state = change[b].state
    BY <1>7, <2>0, <2>1, <2>2, <2>3
  <2> HIDE DEF c
  <2>6. deskCall'[u] = new
    BY <1>0, <2>3
  <2>7. CallSound(u)'
    BY <2>0, <2>2, <2>5, <2>6 DEF CallSound
  <2>8. deskCall' \in [Admins -> CallRow] /\ \A v \in Admins : CallSound(v)'
    BY <2>1, <2>3, <2>5, <2>7, OneCall
  <2>9. change[c].state = "pending"
    BY <2>0 DEF Pending
  <2>10. setting' \in [Desks -> 0..MaxChanges]
    BY <1>0, <2>0, <2>4
  <2>11. \A d \in Desks : setting'[d] # 0 => change'[setting'[d]].state = "applied"
    <3> SUFFICES ASSUME NEW d \in Desks, setting'[d] # 0 PROVE change'[setting'[d]].state = "applied"
      OBVIOUS
    <3>1. CASE verdict = "applied" /\ change[c].desk = d /\ d # "proposal"
      BY <1>0, <2>2, <2>4, <2>5, <3>1
    <3>2. CASE ~ (verdict = "applied" /\ change[c].desk = d /\ d # "proposal")
      <4>1. setting'[d] = setting[d]
        BY <1>0, <2>0, <2>4, <3>2
      <4>2. change[setting[d]].state = "applied" /\ setting[d] \in ChangeIds
        BY <1>0, <4>1 DEF TwoPersonRule
      <4> QED
        BY <2>5, <2>9, <4>1, <4>2
    <3> QED
      BY <3>1, <3>2
  <2>12. ASSUME NEW b \in ChangeIds, change'[b].state = "applied"
         PROVE  /\ change'[b].decider \in Admins \ {change'[b].by}
                /\ change'[b].desk # "proposal" => setting'[change'[b].desk] >= b
    <3>1. CASE b = c
      <4>1. verdict = "applied"
        BY <2>2, <2>5, <2>12, <3>1
      <4>2. change[c].by # u
        BY <1>9, <2>0, <4>1 DEF CallSound, c
      <4>3. change[c].desk # "proposal" => setting'[change[c].desk] = c
        BY <1>0, <2>0, <2>4, <4>1
      <4> QED
        BY <1>0, <2>0, <2>2, <2>5, <3>1, <4>2, <4>3
    <3>2. CASE b # c
      <4>1. change'[b] = change[b] /\ change[b].state = "applied" /\ Asked(b) /\ change[b].desk \in Desks
        BY <1>0, <2>5, <2>12, <3>2 DEF Asked, RowsFilled
      <4>2. change[b].decider \in Admins \ {change[b].by} /\ (change[b].desk # "proposal" => setting[change[b].desk] >= b)
        BY <1>0, <4>1 DEF TwoPersonRule
      <4>3. CASE change[b].desk = change[c].desk /\ change[b].desk # "proposal" /\ verdict = "applied"
        <5>1. b <= c
          BY <1>0, <2>0, <4>1, <4>3 DEF PendingIsNewest
        <5>2. setting'[change[b].desk] = c
          BY <1>0, <2>0, <2>4, <4>3
        <5> QED
          BY <1>0, <2>0, <4>1, <4>2, <5>1, <5>2
      <4>4. CASE ~ (change[b].desk = change[c].desk /\ change[b].desk # "proposal" /\ verdict = "applied")
        <5>1. change[b].desk # "proposal" => setting'[change[b].desk] = setting[change[b].desk]
          BY <1>0, <2>0, <2>4, <4>1, <4>4
        <5> QED
          BY <4>1, <4>2, <5>1
      <4> QED
        BY <4>3, <4>4
    <3> QED
      BY <3>1, <3>2
  <2>13. \A e \in trail' : change'[e[1]].state = e[2]
    <3> SUFFICES ASSUME NEW e \in trail PROVE change'[e[1]].state = e[2]
      BY <1>9
    <3>1. e[1] \in ChangeIds /\ e[2] \in {"applied", "rejected"} /\ change[e[1]].state = e[2]
      BY <1>0 DEF TwoPersonRule
    <3> QED
      BY <2>5, <3>1 DEF Asked, Pending
  <2>14. TwoPersonRule'
    BY <2>11, <2>12, <2>13 DEF TwoPersonRule
  <2> QED
    BY <1>0, <1>9, <2>5, <2>8, <2>10, <2>14 DEF AInv, ApprovalsTypeOK
<1>10. ASSUME NEW u \in Admins, ApplyChange(u) \/ RejectChange(u) PROVE AInv'
  BY <1>9, <1>10 DEF ApplyChange, RejectChange, StillPending
<1>11. ASSUME NEW u \in Admins, NEW d \in Desks, RequestChange(u, d) PROVE AInv'
  <2>1. PICK c \in ChangeIds :
          /\ change[c] = NoChange /\ \A b \in ChangeIds : b < c => change[b] # NoChange
          /\ change' = [change EXCEPT ![c] = [NoChange EXCEPT !.desk = d, !.by = u, !.state = "pending"]]
          /\ deskCall' = [deskCall EXCEPT ![u] = [at |-> "audit", id |-> c, verdict |-> "requested"]]
    BY <1>11 DEF RequestChange
  <2> DEFINE row == [NoChange EXCEPT !.desk = d, !.by = u, !.state = "pending"]
             new == [at |-> "audit", id |-> c, verdict |-> "requested"]
  <2>2. row \in ChangeRow /\ row.desk = d /\ row.by = u /\ row.state = "pending"
    BY DEF ChangeRow, NoChange
  <2>3. new \in CallRow /\ new.at = "audit" /\ new.id = c /\ new.verdict = "requested"
    BY <1>0 DEF CallRow
  <2>4. /\ change' = [change EXCEPT ![c] = row] /\ deskCall' = [deskCall EXCEPT ![u] = new]
        /\ setting' = setting /\ trail' = trail /\ ~ DeskTaken(d)
    BY <1>11, <2>1 DEF RequestChange
  <2> HIDE DEF row, new
  <2>5. ~ Asked(c)
    BY <2>1 DEF Asked, NoChange
  <2>6. /\ change' \in [ChangeIds -> ChangeRow] /\ change'[c] = row /\ deskCall'[u] = new
        /\ \A b \in ChangeIds : b # c => change'[b] = change[b]
    BY <1>0, <2>2, <2>4
  <2>7. \A b \in ChangeIds : (b < c => Asked(b)) /\ (b > c => ~ Asked(b))
    BY <1>0, <2>1, <2>5 DEF RowsFilled
  <2>8. RowsFilled'
    <3>1. \A b \in ChangeIds : Asked(b)' <=> (Asked(b) \/ b = c)
      BY <2>2, <2>6 DEF Asked
    <3> QED
      BY <1>0, <2>2, <2>5, <2>6, <2>7, <3>1 DEF RowsFilled
  <2>9. PendingIsNewest'
    <3> SUFFICES ASSUME NEW a \in ChangeIds, NEW b \in ChangeIds, Pending(b)', change'[b].desk # "proposal", Asked(a)',
                        change'[a].desk = change'[b].desk
                 PROVE  a <= b
      BY DEF PendingIsNewest
    <3>1. CASE b = c
      <4>1. a = c \/ Asked(a)
        BY <2>6 DEF Asked
      <4> QED
        BY <1>0, <2>7, <3>1, <4>1
    <3>2. CASE b # c /\ a = c
      <4>1. change[b].desk = d /\ Pending(b) /\ d # "proposal"
        BY <2>2, <2>6, <3>2 DEF Pending
      <4> QED
        BY <2>4, <4>1 DEF DeskTaken
    <3>3. CASE b # c /\ a # c
      BY <1>0, <2>6, <3>3 DEF PendingIsNewest, Pending, Asked
    <3> QED
      BY <3>1, <3>2, <3>3
  <2>10. CallSound(u)'
    BY <2>2, <2>3, <2>6 DEF CallSound, Asked
  <2>11. /\ \A b \in ChangeIds : Asked(b) => Asked(b)' /\ change'[b].by = change[b].by
         /\ \A b \in ChangeIds : Asked(b) => change'[b].state = change[b].state
    BY <2>5, <2>6 DEF Asked
  <2>12. deskCall' \in [Admins -> CallRow] /\ \A v \in Admins : CallSound(v)'
    BY <2>3, <2>4, <2>10, <2>11, OneCall
  <2>13. TwoPersonRule'
    <3>1. ASSUME NEW x \in Desks, setting[x] # 0 PROVE change'[setting[x]].state = "applied"
      <4>1. change[setting[x]].state = "applied" /\ setting[x] \in ChangeIds
        BY <1>0, <3>1 DEF TwoPersonRule
      <4> QED
        BY <2>11, <4>1 DEF Asked
    <3>2. ASSUME NEW e \in trail PROVE change'[e[1]].state = e[2]
      <4>1. e[1] \in ChangeIds /\ e[2] \in {"applied", "rejected"} /\ change[e[1]].state = e[2]
        BY <1>0 DEF TwoPersonRule
      <4> QED
        BY <2>11, <4>1 DEF Asked
    <3>3. ASSUME NEW b \in ChangeIds, change'[b].state = "applied"
          PROVE  /\ change'[b].decider \in Admins \ {change'[b].by}
                 /\ change'[b].desk # "proposal" => setting[change'[b].desk] >= b
      <4>1. b # c /\ change'[b] = change[b]
        BY <2>2, <2>6, <3>3
      <4> QED
        BY <1>0, <3>3, <4>1 DEF TwoPersonRule
    <3> QED
      BY <2>4, <3>1, <3>2, <3>3 DEF TwoPersonRule
  <2> QED
    BY <1>0, <2>4, <2>6, <2>8, <2>9, <2>12, <2>13 DEF AInv, ApprovalsTypeOK
<1>12. ASSUME NEW u \in Admins, InitializeCaps(u) PROVE AInv'
  BY <1>1, <1>12 DEF InitializeCaps
<1> QED
  BY <1>1, <1>4, <1>5, <1>6, <1>8, <1>10, <1>11, <1>12 DEF ApprovalsNext, approvalVars

-----------------------------------------------------------------------------
(* A pod. The keys: whatever was read from the source is no newer than it,   *)
(* and a registry nobody has rotated past is the newest.                     *)
KeysInv ==
  /\ vaultKey \in Nat \ {0}
  /\ registry \in 0..vaultKey /\ held \in 0..vaultKey /\ candidate \in 0..vaultKey
  /\ sealed \subseteq 1..vaultKey
  /\ registry # 0 /\ ~staleKeys => registry = vaultKey

LEMMA KeysInitially == PodInit => KeysInv
BY DEF PodInit, KeysInv

(* Steps that take from the source, or from what was taken, and those that   *)
(* drop what they had.                                                       *)
LEMMA KeysKept ==
  ASSUME KeysInv, vaultKey' = vaultKey, sealed' = sealed,
         held' \in {held, registry, 0}, candidate' \in {candidate, vaultKey, 0},
         \/ registry' \in {registry, 0} /\ staleKeys' = staleKeys
         \/ registry' = vaultKey /\ staleKeys' = FALSE
         \/ registry' = candidate /\ staleKeys' = (candidate # vaultKey)
  PROVE  KeysInv'
<1>1. vaultKey \in 0..vaultKey /\ 0 \in 0..vaultKey
  BY DEF KeysInv
<1>2. held' \in 0..vaultKey /\ candidate' \in 0..vaultKey /\ registry' \in 0..vaultKey
  BY <1>1 DEF KeysInv
<1>3. registry' # 0 /\ ~staleKeys' => registry' = vaultKey'
  BY DEF KeysInv
<1> QED
  BY <1>2, <1>3 DEF KeysInv

LEMMA KeysNext == KeysInv /\ [PodNext]_podVars => KeysInv'
<1> SUFFICES ASSUME KeysInv, [PodNext]_podVars PROVE KeysInv'
  OBVIOUS
<1>1. CASE UNCHANGED <<registry, held, candidate, keyVars>>
  BY <1>1, KeysKept DEF keyVars
<1>2. ASSUME Refuses \/ \E s \in {"dsn", "keys", "listen", "seed"} : Enters(s) PROVE KeysInv'
  BY <1>1, <1>2 DEF Refuses, Enters
<1>3. CASE Boots \/ ParseRuntimeMode \/ ResolveDbDsn \/ Preflight
  BY <1>1, <1>2, <1>3 DEF Boots, ParseRuntimeMode, ResolveDbDsn, Preflight
<1>4. CASE InstallKeys
  BY <1>2, <1>4, KeysKept DEF InstallKeys
<1>5. CASE RunnerInstalls
  BY <1>2, <1>5, KeysKept DEF RunnerInstalls, RunnerFails
<1>6. CASE Listens
  BY <1>2, <1>6, KeysKept DEF Listens, keyVars
<1>7. CASE StartLoops
  BY <1>7, KeysKept DEF StartLoops, RunnerFails, keyVars
<1>8. CASE LoopsOver \/ ServerCloses \/ Sigkill \/ Finally \/ Sigterm
  BY <1>1, <1>8 DEF LoopsOver, ServerCloses, Sigkill, Finally, Sigterm, Exits
<1>9. CASE Restarts
  BY <1>9, KeysKept DEF Restarts, keyVars
<1>10. CASE RefreshReads
  BY <1>10, KeysKept DEF RefreshReads, keyVars
<1>11. CASE RefreshSwaps
  BY <1>11, KeysKept DEF RefreshSwaps
<1>12. CASE Rotates
  <2>1. vaultKey' \in Nat \ {0} /\ 0..vaultKey \subseteq 0..vaultKey' /\ 1..vaultKey \subseteq 1..vaultKey'
    BY <1>12 DEF Rotates, KeysInv
  <2> QED
    BY <1>12, <2>1 DEF Rotates, KeysInv
<1>13. CASE Seals
  <2>1. PICK k \in {vaultKey} \cup (WritesWith \ {0}) : sealed' = sealed \cup {k}
    BY <1>13 DEF Seals
  <2>2. k \in {vaultKey, registry, held} \ {0}
    BY <2>1 DEF WritesWith, KeysInv
  <2>3. k \in 1..vaultKey
    BY <2>2 DEF KeysInv
  <2> QED
    BY <1>13, <2>1, <2>3 DEF Seals, KeysInv
<1>14. CASE \E l \in Loops : LoopCrashes(l) \/ LoopStops(l)
  BY <1>1, <1>14 DEF LoopCrashes, LoopStops
<1>15. CASE UNCHANGED podVars
  BY <1>1, <1>15 DEF podVars
<1> QED
  BY <1>3, <1>4, <1>5, <1>6, <1>7, <1>8, <1>9, <1>10, <1>11, <1>12, <1>13, <1>14, <1>15 DEF PodNext

(* The checks: a pod that has got past them was found fit, and one that      *)
(* listens has its keys or needs none.                                       *)
Past == {"keys", "listen", "runner", "seed", "loops", "finally"}

Keyed == registry # 0 \/ KeySource(podEnv) = "none" \/ nulled

ChecksInv ==
  /\ podAt # "down" => podEnv \in PodEnvs
  /\ podAt = "down" => server = "none" /\ signals = {}
  /\ podAt \in Past => MayServe(podEnv)
  /\ podAt = "listen" => Keyed
  /\ server # "none" => podAt \in {"runner", "seed", "loops", "finally", "over"} /\ MayServe(podEnv) /\ Keyed

(* The finally block goes on from where the server and the refresh loop are. *)
LEMMA FinallyCases ==
  ASSUME FinallyStep
  PROVE  \/ server = "open" /\ server' = "closing" /\ UNCHANGED <<refreshing, pool, podAt, podExit>>
         \/ server # "open" /\ server # "closing" /\ refreshing' = FALSE /\ UNCHANGED <<server, pool, podAt, podExit>>
         \/ /\ server # "open" /\ server # "closing" /\ ~refreshing /\ UNCHANGED <<server, refreshing>>
            /\ pool' = "disposed" /\ podAt' = "over" /\ podExit' = (IF failed THEN "one" ELSE "zero")
BY DEF FinallyStep

LEMMA ChecksInitially == PodInit => ChecksInv
BY DEF PodInit, ChecksInv, Past

LEMMA ChecksNext == KeysInv /\ ChecksInv /\ [PodNext]_podVars => ChecksInv'
<1> SUFFICES ASSUME KeysInv, ChecksInv, [PodNext]_podVars PROVE ChecksInv'
  OBVIOUS
<1> USE DEF ChecksInv, Past, Keyed
<1>0. vaultKey # 0
  BY DEF KeysInv
<1>1. CASE UNCHANGED podVars
  BY <1>1 DEF podVars
<1>2. CASE Boots \/ ParseRuntimeMode \/ ResolveDbDsn \/ Preflight
  BY <1>2 DEF Boots, ParseRuntimeMode, ResolveDbDsn, Preflight, Enters, Refuses
<1>3. CASE InstallKeys
  BY <1>0, <1>3 DEF InstallKeys, Enters, Refuses
<1>4. CASE Listens
  BY <1>4 DEF Listens, Refuses
<1>5. CASE RunnerInstalls
  BY <1>0, <1>5 DEF RunnerInstalls, RunnerFails, Enters
<1>6. CASE StartLoops
  BY <1>6 DEF StartLoops, RunnerFails
<1>7. CASE LoopsOver \/ ServerCloses
  BY <1>7 DEF LoopsOver, ServerCloses
<1>71. CASE Sigkill
  BY <1>71 DEF Sigkill, Exits
<1>72. CASE Restarts
  BY <1>72 DEF Restarts
<1>8. CASE Sigterm
  BY <1>8 DEF Sigterm, Exits
<1>9. CASE Finally
  BY <1>9, FinallyCases DEF Finally
<1>10. CASE RefreshReads \/ RefreshSwaps \/ Rotates \/ Seals
  BY <1>10 DEF RefreshReads, RefreshSwaps, Rotates, Seals
<1>11. CASE \E l \in Loops : LoopCrashes(l) \/ LoopStops(l)
  BY <1>11 DEF LoopCrashes, LoopStops
<1> QED
  BY <1>1, <1>2, <1>3, <1>4, <1>5, <1>6, <1>7, <1>71, <1>72, <1>8, <1>9, <1>10, <1>11 DEF PodNext

(* The loops and the way down.                                               *)
Working(l) == loopAt[l] \in {"running", "stopping"}

LoopsInv ==
  /\ loopAt \in [Loops -> {"none", "running", "stopping", "ended", "crashed"}]
  /\ loopHealth \in [Loops -> {"unknown", "up", "down"}]
  /\ \A l \in Loops : loopAt[l] = "crashed" => loopHealth[l] = "down"
  /\ podAt \notin {"loops", "finally", "over"} => \A l \in Loops : loopAt[l] = "none"
  /\ podAt = "loops" => \A l \in Loops \ Composed(podEnv) : loopAt[l] = "none"
  /\ podAt = "finally" => \A l \in Loops : ~Working(l) /\ (loopAt[l] = "crashed" => failed)

DownInv ==
  /\ podExit # "none" => podAt = "over"
  /\ podExit = "zero" => \A l \in Loops : ~Working(l) /\ loopAt[l] # "crashed"
  /\ pool = "disposed" => podAt = "over" /\ server \notin {"open", "closing"} /\ ~refreshing /\ \A l \in Loops : ~Working(l)
  /\ "loops" \in handlers => podAt \in {"loops", "over"}
  /\ "in time" \in signals => podAt \in {"loops", "finally", "over"} /\ \A l \in Loops : loopAt[l] # "running"

LEMMA LoopsInitially == PodInit => LoopsInv /\ DownInv
BY DEF PodInit, LoopsInv, DownInv, Working

LEMMA LoopsNext == LoopsInv /\ DownInv /\ [PodNext]_podVars => LoopsInv' /\ DownInv'
<1> SUFFICES ASSUME LoopsInv, DownInv, [PodNext]_podVars PROVE LoopsInv' /\ DownInv'
  OBVIOUS
<1> USE DEF LoopsInv, DownInv, Working
<1>1. CASE UNCHANGED podVars
  BY <1>1 DEF podVars
<1>2. CASE Boots \/ ParseRuntimeMode \/ ResolveDbDsn \/ Preflight
  BY <1>2 DEF Boots, ParseRuntimeMode, ResolveDbDsn, Preflight, Enters, Refuses
<1>3. CASE InstallKeys
  BY <1>3 DEF InstallKeys, Enters, Refuses
<1>31. CASE Listens
  BY <1>31 DEF Listens, Refuses
<1>4. CASE RunnerInstalls
  BY <1>4 DEF RunnerInstalls, RunnerFails, Enters
<1>5. CASE StartLoops
  BY <1>5 DEF StartLoops, RunnerFails
<1>6. CASE LoopsOver
  BY <1>6 DEF LoopsOver
<1>7. CASE ServerCloses
  BY <1>7 DEF ServerCloses
<1>71. CASE Sigkill
  BY <1>71 DEF Sigkill, Exits
<1>8. CASE Restarts
  <2>1. LoopsInv'
    BY <1>8 DEF Restarts
  <2>2. DownInv'
    BY <1>8 DEF Restarts
  <2> QED
    BY <2>1, <2>2
<1>9. CASE Sigterm
  <2>1. CASE handlers = {}
    BY <1>9, <2>1 DEF Sigterm, Exits
  <2>2. CASE handlers # {}
    <3>1. /\ handlers' = {} /\ UNCHANGED <<podAt, podEnv, loopHealth, refreshing, pool, failed, podExit>>
          /\ signals' = signals \cup {IF "loops" \in handlers \/ podAt = "finally" THEN "in time" ELSE "early"}
          /\ server' = IF "server" \in handlers /\ server = "open" THEN "closing" ELSE server
          /\ loopAt' = [l \in Loops |-> IF "loops" \in handlers /\ loopAt[l] = "running" THEN "stopping" ELSE loopAt[l]]
          /\ podAt # "over"
      BY <1>9, <2>2 DEF Sigterm
    <3>2. \A l \in Loops :
            /\ loopAt'[l] \in {"none", "running", "stopping", "ended", "crashed"}
            /\ loopAt'[l] \in {"running", "stopping"} => Working(l)
            /\ (loopAt'[l] = "crashed") <=> (loopAt[l] = "crashed")
            /\ (loopAt'[l] = "none") <=> (loopAt[l] = "none")
            /\ loopAt'[l] = "running" => loopAt[l] = "running" /\ "loops" \notin handlers
      BY <3>1
    <3>3. LoopsInv'
      BY <3>1, <3>2
    <3>4. "in time" \in signals' => podAt \in {"loops", "finally", "over"} /\ \A l \in Loops : loopAt'[l] # "running"
      <4>1. CASE "in time" \in signals
        BY <3>2, <4>1
      <4>2. CASE "loops" \in handlers
        BY <3>1, <3>2, <4>2
      <4>3. CASE podAt = "finally"
        BY <3>2, <4>3
      <4> QED
        BY <3>1, <4>1, <4>2, <4>3
    <3> QED
      BY <3>1, <3>2, <3>3, <3>4
  <2> QED
    BY <2>1, <2>2
<1>10. CASE Finally
  <2>1. UNCHANGED <<podEnv, loopAt, loopHealth, handlers, signals, failed>> /\ podAt = "finally"
    BY <1>10 DEF Finally
  <2>2. FinallyStep
    BY <1>10 DEF Finally
  <2>3. CASE server = "open" /\ server' = "closing" /\ UNCHANGED <<refreshing, pool, podAt, podExit>>
    BY <2>1, <2>3
  <2>4. CASE server # "open" /\ server # "closing" /\ refreshing' = FALSE /\ UNCHANGED <<server, pool, podAt, podExit>>
    BY <2>1, <2>4
  <2>5. CASE /\ server # "open" /\ server # "closing" /\ ~refreshing /\ UNCHANGED <<server, refreshing>>
             /\ pool' = "disposed" /\ podAt' = "over" /\ podExit' = (IF failed THEN "one" ELSE "zero")
    BY <2>1, <2>5
  <2> QED
    BY <2>2, <2>3, <2>4, <2>5, FinallyCases
<1>11. CASE RefreshReads \/ RefreshSwaps \/ Rotates \/ Seals
  <2>1. UNCHANGED <<podAt, podEnv, server, loopAt, loopHealth, handlers, signals, refreshing, pool, failed, podExit>>
    BY <1>11 DEF RefreshReads, RefreshSwaps, Rotates, Seals
  <2> QED
    BY <2>1
<1>12. ASSUME NEW l \in Loops, LoopCrashes(l)
       PROVE  LoopsInv' /\ DownInv'
  <2>1. /\ Working(l) /\ podAt \in {"loops", "over"} /\ podExit # "zero" /\ pool # "disposed"
        /\ podAt = "loops" => l \in Composed(podEnv)
    BY <1>12 DEF LoopCrashes
  <2>2. /\ loopAt' = [loopAt EXCEPT ![l] = "crashed"] /\ loopHealth' = [loopHealth EXCEPT ![l] = "down"]
        /\ UNCHANGED <<podAt, podEnv, server, handlers, signals, refreshing, pool, failed, podExit>>
    BY <1>12 DEF LoopCrashes, MarkDown
  <2>3. \A k \in Loops : loopAt'[k] # loopAt[k] => k = l /\ loopAt'[k] = "crashed" /\ loopHealth'[k] = "down"
    BY <2>2
  <2> HIDE DEF Working
  <2>4. LoopsInv'
    BY <2>1, <2>2, <2>3 DEF Working
  <2>5. DownInv'
    BY <2>1, <2>2, <2>3 DEF Working
  <2> QED
    BY <2>4, <2>5
<1>13. ASSUME NEW l \in Loops, LoopStops(l)
       PROVE  LoopsInv' /\ DownInv'
  <2>1. /\ Working(l) /\ podAt \in {"loops", "over"} /\ podExit # "zero" /\ pool # "disposed"
        /\ podAt = "loops" => l \in Composed(podEnv)
    BY <1>13 DEF LoopStops
  <2>2. /\ loopAt' = [loopAt EXCEPT ![l] = "ended"]
        /\ UNCHANGED <<podAt, podEnv, server, loopHealth, handlers, signals, refreshing, pool, failed, podExit>>
    BY <1>13 DEF LoopStops
  <2>4. LoopsInv'
    BY <2>1, <2>2
  <2>5. DownInv'
    BY <2>1, <2>2
  <2> QED
    BY <2>4, <2>5
<1> QED
  BY <1>1, <1>2, <1>3, <1>31, <1>4, <1>5, <1>6, <1>7, <1>71, <1>8, <1>9, <1>10, <1>11, <1>12, <1>13 DEF PodNext

PodInv == KeysInv /\ ChecksInv /\ LoopsInv /\ DownInv

(* Without a divergence the database has exactly the image's migrations.     *)
LEMMA SameMigrations ==
  ASSUME NEW e \in PodEnvs, Divergence(e) = {}
  PROVE  e.migrations = Expected
<1>1. e.migrations \in Seq(Nat) /\ Expected \in Seq(Nat)
  BY PodAssumption
<1>2. /\ Len(e.migrations) \in Nat /\ Len(Expected) \in Nat
      /\ DOMAIN e.migrations = 1..Len(e.migrations) /\ DOMAIN Expected = 1..Len(Expected)
  BY <1>1
<1>3. ASSUME NEW i \in DOMAIN e.migrations \cup DOMAIN Expected
      PROVE  i \in DOMAIN e.migrations /\ i \in DOMAIN Expected /\ e.migrations[i] = Expected[i]
  <2>1. i \in 1..(Len(e.migrations) + Len(Expected))
    BY <1>2, <1>3
  <2> QED
    BY <1>3, <2>1 DEF Divergence
<1>4. DOMAIN e.migrations = DOMAIN Expected /\ Len(e.migrations) = Len(Expected)
  BY <1>2, <1>3
<1> QED
  BY <1>1, <1>3, <1>4

LEMMA PodStaysSound == PodInv => PodSound
<1> SUFFICES ASSUME PodInv PROVE PodSound
  OBVIOUS
<1>1. ServesWhenSound
  BY SameMigrations DEF PodInv, ChecksInv, Past, Keyed, ServesWhenSound, MayServe
<1>2. DeadLoopsTold
  BY DEF PodInv, LoopsInv, DownInv, DeadLoopsTold, Ready
<1>3. TakenDownInOrder
  BY DEF PodInv, DownInv, Working, TakenDownInOrder
<1>4. ReadsWhatIsSealed
  BY DEF PodInv, KeysInv, ReadsWhatIsSealed
<1> QED
  BY <1>1, <1>2, <1>3, <1>4 DEF PodSound

-----------------------------------------------------------------------------
(* The transport. A request with a token has one that lives and that GitHub  *)
(* has not refused it, since only the exchange serves a forced refresh; and  *)
(* only the request at the head of the mutex' line is at its exchange.       *)
ReqRow == [at : {"idle", "token", "queue", "exchange", "send", "done", "failed"}, token : Nat, forced : BOOLEAN,
           no : Nat, effects : Nat, shaky : BOOLEAN, last : Nat]

RowOK(r) ==
  /\ r.token \in 0..Len(issued) /\ r.last \in 0..Len(issued)
  /\ r.last # 0 => r.forced
  /\ r.at = "send" => r.token # 0 /\ r.token # r.last /\ ticks < issued[r.token] + TokenLife
  /\ r.shaky \/ r.effects = 0 \/ (r.effects = 1 /\ r.at \in {"done", "failed"})

HoldsMutex(c) ==
  req[c].at = "exchange" => mintQueue # <<>> /\ Head(mintQueue) = c /\ (req[c].forced \/ ~CacheLookup)

TransportInv ==
  /\ ticks \in Nat /\ issued \in Seq(Nat) /\ cachedTok \in 0..Len(issued)
  /\ mintQueue \in Seq(GhCallers) /\ req \in [GhCallers -> ReqRow]
  /\ \A c \in GhCallers : RowOK(req[c]) /\ HoldsMutex(c)

LEMMA TransportConstants == TokenLife \in Nat \ {0} /\ RefreshAt \in Nat /\ RefreshAt < TokenLife /\ MaxSends \in Nat
BY TransportAssumption

LEMMA TransportInitially == TransportInit => TransportInv
<1> SUFFICES ASSUME TransportInit PROVE TransportInv
  OBVIOUS
<1>1. issued = <<>> /\ Len(issued) = 0 /\ ticks = 0 /\ cachedTok = 0 /\ mintQueue = <<>>
  BY DEF TransportInit
<1>2. Idle \in ReqRow
  BY DEF Idle, ReqRow
<1>3. \A c \in GhCallers : req[c] = Idle
  BY DEF TransportInit
<1>4. RowOK(Idle)
  BY <1>1 DEF RowOK, Idle
<1>5. \A c \in GhCallers : HoldsMutex(c)
  BY <1>3 DEF HoldsMutex, Idle
<1> QED
  BY <1>1, <1>2, <1>3, <1>4, <1>5 DEF TransportInv, TransportInit

(* A step of one request: its new record is sound, and whoever is at the     *)
(* exchange still has the mutex and nothing to serve it from the cache.      *)
LEMMA RequestSteps ==
  ASSUME TransportInv, NEW c \in GhCallers, NEW r \in ReqRow, RowOK(r),
         req' = [req EXCEPT ![c] = r], UNCHANGED <<ticks, issued>>,
         cachedTok' \in {0, cachedTok}, mintQueue' \in Seq(GhCallers),
         \A d \in GhCallers : req'[d].at = "exchange" =>
            mintQueue' # <<>> /\ Head(mintQueue') = d /\ (req'[d].forced \/ ~CacheLookup)
  PROVE  TransportInv'
<1>1. req' \in [GhCallers -> ReqRow] /\ \A d \in GhCallers : req'[d] = IF d = c THEN r ELSE req[d]
  BY DEF TransportInv
<1>2. \A d \in GhCallers : RowOK(req'[d])
  BY <1>1 DEF TransportInv
<1>3. \A d \in GhCallers : RowOK(req[d])'
  BY <1>2 DEF RowOK
<1>4. CacheLookup' => CacheLookup
  BY DEF CacheLookup
<1>5. \A d \in GhCallers : HoldsMutex(d)'
  BY <1>4 DEF HoldsMutex
<1>6. cachedTok' \in 0..Len(issued')
  BY DEF TransportInv
<1> QED
  BY <1>1, <1>3, <1>5, <1>6 DEF TransportInv

(* The same for a step that leaves the mutex and the caches alone and does   *)
(* not begin an exchange.                                                    *)
LEMMA RequestReplies ==
  ASSUME TransportInv, NEW c \in GhCallers, NEW r \in ReqRow, RowOK(r), r.at # "exchange", Replied(c, r)
  PROVE  TransportInv'
<1>1. \A d \in GhCallers : req'[d] = IF d = c THEN r ELSE req[d]
  BY DEF TransportInv, Replied
<1>2. \A d \in GhCallers : req'[d].at = "exchange" =>
        mintQueue # <<>> /\ Head(mintQueue) = d /\ (req'[d].forced \/ ~CacheLookup)
  BY <1>1 DEF TransportInv, HoldsMutex
<1> QED
  BY <1>2, RequestSteps DEF Replied, TransportInv

(* What follows an attempt that the answer ends or repeats with its token.   *)
LEMMA AnswerKeeps ==
  ASSUME TransportInv, NEW c \in GhCallers, Sending(c) \/ req[c].at = "send",
         NEW at \in {"send", "done", "failed"}, NEW done \in {0, 1}, NEW shaky \in BOOLEAN, NEW no \in Nat,
         req[c].shaky => shaky, done = 1 => shaky \/ at # "send",
         Replied(c, [req[c] EXCEPT !.at = at, !.no = no, !.effects = req[c].effects + done, !.shaky = shaky])
  PROVE  TransportInv'
<1> DEFINE r == [req[c] EXCEPT !.at = at, !.no = no, !.effects = req[c].effects + done, !.shaky = shaky]
<1>1. req[c] \in ReqRow /\ RowOK(req[c]) /\ req[c].at = "send"
  BY DEF TransportInv, Sending
<1>2. req[c].effects + done \in Nat
  BY <1>1 DEF ReqRow
<1>3. r \in ReqRow
  BY <1>1, <1>2 DEF ReqRow
<1>4. /\ r.at = at /\ r.token = req[c].token /\ r.last = req[c].last /\ r.forced = req[c].forced
      /\ r.effects = req[c].effects + done /\ r.shaky = shaky
  BY <1>1 DEF ReqRow
<1>5. Replied(c, r)
  OBVIOUS
<1> HIDE DEF r
<1>6. r.shaky \/ r.effects = 0 \/ (r.effects = 1 /\ r.at \in {"done", "failed"})
  <2>1. CASE shaky
    BY <1>4, <2>1
  <2>2. CASE ~shaky
    <3>1. req[c].effects = 0
      BY <1>1, <2>2 DEF RowOK, ReqRow
    <3> QED
      BY <1>4, <2>2, <3>1
  <2> QED
    BY <2>1, <2>2
<1>7. RowOK(r)
  BY <1>1, <1>4, <1>6 DEF RowOK
<1> QED
  BY <1>3, <1>4, <1>5, <1>7, RequestReplies

LEMMA UnauthorizedKeeps == ASSUME TransportInv, NEW c \in GhCallers, Unauthorized(c) PROVE TransportInv'
<1> DEFINE r == [req[c] EXCEPT !.at = IF req[c].forced THEN "failed" ELSE "token",
                               !.forced = TRUE, !.no = @ + 1, !.last = req[c].token]
<1>1. req[c] \in ReqRow /\ RowOK(req[c]) /\ req[c].at = "send"
  BY DEF TransportInv, Sending, Unauthorized
<1>2. req[c].no + 1 \in Nat /\ req[c].token \in Nat
  BY <1>1 DEF ReqRow
<1>3. r \in ReqRow
  BY <1>1, <1>2 DEF ReqRow
<1>4. /\ r.at \in {"failed", "token"} /\ r.token = req[c].token /\ r.last = req[c].token /\ r.forced = TRUE
      /\ r.effects = req[c].effects /\ r.shaky = req[c].shaky
  BY <1>1 DEF ReqRow
<1>5. Replied(c, r)
  BY DEF Unauthorized
<1> HIDE DEF r
<1>6. r.shaky \/ r.effects = 0
  BY <1>1, <1>4 DEF RowOK
<1>7. RowOK(r)
  BY <1>1, <1>4, <1>6 DEF RowOK
<1> QED
  BY <1>3, <1>4, <1>5, <1>7, RequestReplies

(* The answers to an attempt.                                                *)
LEMMA AnswersKeep ==
  ASSUME TransportInv, NEW c \in GhCallers,
         LoopEnds(c) \/ ServerError(c) \/ ClientError(c) \/ Succeed(c) \/ LastOfWindow(c)
  PROVE  TransportInv'
<1>1. req[c] \in ReqRow /\ RowOK(req[c]) /\ req[c].at = "send"
  BY DEF TransportInv, Sending, LoopEnds, ServerError, ClientError, Succeed, LastOfWindow
<1>2. /\ req[c].no \in Nat /\ req[c].no + 1 \in Nat /\ req[c].effects + 0 = req[c].effects
      /\ req[c].shaky \in BOOLEAN
  BY <1>1 DEF ReqRow
<1>3. CASE LoopEnds(c)
  <2>1. Replied(c, [req[c] EXCEPT !.at = "failed", !.no = req[c].no, !.effects = req[c].effects + 0, !.shaky = req[c].shaky])
    BY <1>1, <1>2, <1>3 DEF LoopEnds, ReqRow
  <2> QED
    BY <1>1, <1>2, <2>1, AnswerKeeps
<1>4. CASE ServerError(c)
  <2>1. PICK done \in {0, 1} : Replied(c, [req[c] EXCEPT !.no = @ + 1, !.effects = @ + done, !.shaky = TRUE,
                                    !.at = IF req[c].no + 1 < MaxSends THEN "send" ELSE "failed"])
    BY <1>4 DEF ServerError
  <2>2. PICK at \in {"send", "failed"} : at = IF req[c].no + 1 < MaxSends THEN "send" ELSE "failed"
    OBVIOUS
  <2>3. Replied(c, [req[c] EXCEPT !.at = at, !.no = req[c].no + 1, !.effects = req[c].effects + done, !.shaky = TRUE])
    BY <1>1, <2>1, <2>2 DEF ReqRow
  <2> QED
    BY <1>1, <1>2, <2>3, AnswerKeeps
<1>5. CASE ClientError(c)
  <2>1. Replied(c, [req[c] EXCEPT !.at = "failed", !.no = req[c].no + 1, !.effects = req[c].effects + 0, !.shaky = req[c].shaky])
    BY <1>1, <1>2, <1>5 DEF ClientError, ReqRow
  <2> QED
    BY <1>1, <1>2, <2>1, AnswerKeeps
<1>6. CASE Succeed(c)
  <2>1. Replied(c, [req[c] EXCEPT !.at = "done", !.no = req[c].no + 1, !.effects = req[c].effects + 1, !.shaky = req[c].shaky])
    BY <1>1, <1>2, <1>6 DEF Succeed, ReqRow
  <2> QED
    BY <1>1, <1>2, <2>1, AnswerKeeps
<1>7. CASE LastOfWindow(c)
  <2>1. Replied(c, [req[c] EXCEPT !.at = "failed", !.no = req[c].no + 1, !.effects = req[c].effects + 1, !.shaky = req[c].shaky])
    BY <1>1, <1>2, <1>7 DEF LastOfWindow, AtRateLimit, ReqRow
  <2> QED
    BY <1>1, <1>2, <2>1, AnswerKeeps
<1> QED
  BY <1>3, <1>4, <1>5, <1>6, <1>7

(* A request that moves without a token.                                     *)
LEMMA BecomesRow ==
  ASSUME TransportInv, NEW c \in GhCallers, req[c].at \in {"idle", "token", "queue", "exchange"},
         NEW at \in {"token", "queue", "exchange", "failed"}
  PROVE  \E r \in ReqRow : RowOK(r) /\ r.at = at /\ r.forced = req[c].forced /\ Becomes(c, at) = [req EXCEPT ![c] = r]
<1> DEFINE r == [req[c] EXCEPT !.at = at]
<1>1. req[c] \in ReqRow /\ RowOK(req[c]) /\ req \in [GhCallers -> ReqRow]
  BY DEF TransportInv
<1>2. r \in ReqRow /\ Becomes(c, at) = [req EXCEPT ![c] = r]
  BY <1>1 DEF ReqRow, Becomes
<1>3. /\ r.at = at /\ r.token = req[c].token /\ r.last = req[c].last /\ r.forced = req[c].forced
      /\ r.effects = req[c].effects /\ r.shaky = req[c].shaky
  BY <1>1 DEF ReqRow
<1>4. RowOK(r)
  BY <1>1, <1>3 DEF RowOK
<1> QED
  BY <1>2, <1>3, <1>4

(* A request that is not a refused one takes the cached token.               *)
LEMMA CachedRow ==
  ASSUME TransportInv, NEW c \in GhCallers, req[c].at \in {"token", "queue"}, CacheLookup, ~req[c].forced
  PROVE  \E r \in ReqRow : RowOK(r) /\ r.at = "send" /\ WithToken(c, cachedTok) = [req EXCEPT ![c] = r]
<1> DEFINE r == [req[c] EXCEPT !.at = "send", !.token = cachedTok]
<1>1. req[c] \in ReqRow /\ RowOK(req[c]) /\ req \in [GhCallers -> ReqRow] /\ cachedTok \in 0..Len(issued) /\ issued \in Seq(Nat)
  BY DEF TransportInv
<1>11. cachedTok \in Nat
  BY <1>1
<1>2. r \in ReqRow /\ WithToken(c, cachedTok) = [req EXCEPT ![c] = r]
  BY <1>1, <1>11 DEF ReqRow, WithToken
<1>3. /\ r.at = "send" /\ r.token = cachedTok /\ r.last = req[c].last /\ r.forced = req[c].forced
      /\ r.effects = req[c].effects /\ r.shaky = req[c].shaky
  BY <1>1 DEF ReqRow
<1>4. cachedTok # 0 /\ ticks < issued[cachedTok] + TokenLife
  <2>1. cachedTok \in 1..Len(issued) /\ issued[cachedTok] \in Nat /\ ticks < issued[cachedTok] + RefreshAt
    BY <1>1 DEF CacheLookup
  <2> QED
    BY <2>1, TransportConstants DEF TransportInv
<1>5. r.last = 0
  BY <1>1, <1>3 DEF RowOK
<1> HIDE DEF r
<1>6. RowOK(r)
  BY <1>1, <1>3, <1>4, <1>5 DEF RowOK
<1> QED
  BY <1>2, <1>3, <1>6

LEMMA BeginKeeps == ASSUME TransportInv, NEW c \in GhCallers, BeginRequest(c) PROVE TransportInv'
<1>1. PICK r \in ReqRow : RowOK(r) /\ r.at = "token" /\ req' = [req EXCEPT ![c] = r]
  BY BecomesRow DEF BeginRequest
<1>2. Replied(c, r)
  BY <1>1 DEF Replied, BeginRequest
<1> QED
  BY <1>1, <1>2, RequestReplies

LEMMA GetTokenKeeps == ASSUME TransportInv, NEW c \in GhCallers, GetToken(c) PROVE TransportInv'
<1>0. req[c].at = "token" /\ UNCHANGED <<ticks, issued, revoked, suspended, refusedTil>>
  BY DEF GetToken
<1>1. CASE Refused
  <2>1. PICK r \in ReqRow : RowOK(r) /\ r.at = "failed" /\ req' = [req EXCEPT ![c] = r]
    BY <1>0, <1>1, BecomesRow DEF GetToken
  <2>2. Replied(c, r)
    BY <1>1, <2>1 DEF Replied, GetToken
  <2> QED
    BY <2>1, <2>2, RequestReplies
<1>2. CASE ~Refused /\ CacheLookup /\ ~Forces(c)
  <2>1. PICK r \in ReqRow : RowOK(r) /\ r.at = "send" /\ req' = [req EXCEPT ![c] = r]
    BY <1>0, <1>2, CachedRow DEF GetToken, Forces
  <2>2. Replied(c, r)
    BY <1>2, <2>1 DEF Replied, GetToken
  <2> QED
    BY <2>1, <2>2, RequestReplies
<1>3. CASE ~Refused /\ ~(CacheLookup /\ ~Forces(c))
  <2>1. req' = Becomes(c, "queue") /\ mintQueue' = Append(mintQueue, c) /\ cachedTok' = IF Forces(c) THEN 0 ELSE cachedTok
    BY <1>3 DEF GetToken
  <2>2. PICK r \in ReqRow : RowOK(r) /\ r.at = "queue" /\ req' = [req EXCEPT ![c] = r]
    BY <1>0, <2>1, BecomesRow
  <2>3. mintQueue \in Seq(GhCallers)
    BY DEF TransportInv
  <2>4. mintQueue' \in Seq(GhCallers) /\ (mintQueue # <<>> => mintQueue' # <<>> /\ Head(mintQueue') = Head(mintQueue))
    BY <2>1, <2>3
  <2>5. \A d \in GhCallers : req'[d] = IF d = c THEN r ELSE req[d]
    BY <2>2 DEF TransportInv
  <2>6. \A d \in GhCallers : req'[d].at = "exchange" =>
          mintQueue' # <<>> /\ Head(mintQueue') = d /\ (req'[d].forced \/ ~CacheLookup)
    BY <2>2, <2>4, <2>5 DEF TransportInv, HoldsMutex
  <2> QED
    BY <1>0, <2>1, <2>2, <2>4, <2>6, RequestSteps
<1> QED
  BY <1>1, <1>2, <1>3

LEMMA TakeMutexKeeps == ASSUME TransportInv, NEW c \in GhCallers, TakeMutex(c) PROVE TransportInv'
<1>0. /\ req[c].at = "queue" /\ mintQueue # <<>> /\ Head(mintQueue) = c
      /\ UNCHANGED <<ticks, issued, revoked, suspended, cachedTok, refusedTil>>
  BY DEF TakeMutex
<1>1. mintQueue \in Seq(GhCallers) /\ Tail(mintQueue) \in Seq(GhCallers)
  BY <1>0 DEF TransportInv
<1>2. \A d \in GhCallers : req[d].at # "exchange"
  BY <1>0 DEF TransportInv, HoldsMutex
<1>3. CASE Reread(c)
  <2>1. req' = WithToken(c, cachedTok) /\ mintQueue' = Tail(mintQueue)
    BY <1>3 DEF TakeMutex, Releases1
  <2>2. PICK r \in ReqRow : RowOK(r) /\ r.at = "send" /\ req' = [req EXCEPT ![c] = r]
    BY <1>0, <1>3, <2>1, CachedRow DEF Reread, Forces
  <2>3. \A d \in GhCallers : req'[d].at # "exchange"
    BY <1>2, <2>2 DEF TransportInv
  <2> QED
    BY <1>0, <1>1, <2>1, <2>2, <2>3, RequestSteps
<1>4. CASE ~Reread(c)
  <2>1. req' = Becomes(c, "exchange") /\ UNCHANGED mintQueue
    BY <1>4 DEF TakeMutex
  <2>2. PICK r \in ReqRow : /\ RowOK(r) /\ r.at = "exchange" /\ r.forced = req[c].forced
                            /\ req' = [req EXCEPT ![c] = r]
    BY <1>0, <2>1, BecomesRow
  <2>3. \A d \in GhCallers : req'[d] = IF d = c THEN r ELSE req[d]
    BY <2>2 DEF TransportInv
  <2>4. \A d \in GhCallers : req'[d].at = "exchange" =>
          mintQueue' # <<>> /\ Head(mintQueue') = d /\ (req'[d].forced \/ ~CacheLookup)
    BY <1>0, <1>2, <1>4, <2>1, <2>2, <2>3 DEF Reread, Forces
  <2> QED
    BY <1>0, <1>1, <2>1, <2>2, <2>4, RequestSteps
<1> QED
  BY <1>3, <1>4

LEMMA MintRefusedKeeps ==
  ASSUME TransportInv, NEW c \in GhCallers, MintPermanent(c) \/ MintTransient(c) PROVE TransportInv'
<1>0. /\ req[c].at = "exchange" /\ req' = Becomes(c, "failed") /\ mintQueue' = Tail(mintQueue)
      /\ UNCHANGED <<ticks, issued, cachedTok>>
  BY DEF MintPermanent, MintTransient, Releases1
<1>1. mintQueue \in Seq(GhCallers) /\ mintQueue # <<>> /\ Tail(mintQueue) \in Seq(GhCallers)
  BY <1>0 DEF TransportInv, HoldsMutex
<1>2. \A d \in GhCallers \ {c} : req[d].at # "exchange"
  BY <1>0 DEF TransportInv, HoldsMutex
<1>3. PICK r \in ReqRow : RowOK(r) /\ r.at = "failed" /\ req' = [req EXCEPT ![c] = r]
  BY <1>0, BecomesRow
<1>4. \A d \in GhCallers : req'[d].at # "exchange"
  BY <1>2, <1>3 DEF TransportInv
<1> QED
  BY <1>0, <1>1, <1>3, <1>4, RequestSteps

LEMMA MintKeeps == ASSUME TransportInv, NEW c \in GhCallers, Mint(c) PROVE TransportInv'
<1> DEFINE t == Len(issued) + 1
           r == [req[c] EXCEPT !.at = "send", !.token = t]
<1>0. /\ req[c].at = "exchange" /\ req' = WithToken(c, t) /\ mintQueue' = Tail(mintQueue)
      /\ issued' = Append(issued, ticks) /\ cachedTok' = t /\ UNCHANGED ticks
  BY DEF Mint, Releases1
<1>1. mintQueue \in Seq(GhCallers) /\ mintQueue # <<>> /\ Tail(mintQueue) \in Seq(GhCallers)
  BY <1>0 DEF TransportInv, HoldsMutex
<1>2. \A d \in GhCallers \ {c} : req[d].at # "exchange"
  BY <1>0 DEF TransportInv, HoldsMutex
<1>3. issued \in Seq(Nat) /\ ticks \in Nat /\ Len(issued) \in Nat
  BY DEF TransportInv
<1>4. /\ issued' \in Seq(Nat) /\ Len(issued') = t /\ issued'[t] = ticks
      /\ \A i \in 1..Len(issued) : issued'[i] = issued[i]
  BY <1>0, <1>3
<1>5. req[c] \in ReqRow /\ RowOK(req[c]) /\ req \in [GhCallers -> ReqRow] /\ t \in Nat
  BY <1>3 DEF TransportInv
<1>6. r \in ReqRow /\ req' = [req EXCEPT ![c] = r]
  BY <1>0, <1>5 DEF ReqRow, WithToken
<1>7. /\ r.at = "send" /\ r.token = t /\ r.last = req[c].last /\ r.forced = req[c].forced
      /\ r.effects = req[c].effects /\ r.shaky = req[c].shaky
  BY <1>5 DEF ReqRow
<1> HIDE DEF r
<1>8. req' \in [GhCallers -> ReqRow] /\ \A d \in GhCallers : req'[d] = IF d = c THEN r ELSE req[d]
  BY <1>6 DEF TransportInv
<1>9. ASSUME NEW d \in GhCallers PROVE RowOK(req[d])'
  <2>1. CASE d = c
    <3>1. r.token \in 0..Len(issued') /\ r.last \in 0..Len(issued') /\ r.token # r.last /\ r.token # 0
      BY <1>3, <1>4, <1>5, <1>7 DEF RowOK
    <3>2. ticks' < issued'[r.token] + TokenLife
      BY <1>0, <1>3, <1>4, <1>7, TransportConstants
    <3>3. (r.last # 0 => r.forced) /\ (r.shaky \/ r.effects = 0)
      BY <1>0, <1>5, <1>7 DEF RowOK
    <3> QED
      BY <1>8, <2>1, <3>1, <3>2, <3>3 DEF RowOK
  <2>2. CASE d # c
    <3>1. req'[d] = req[d] /\ RowOK(req[d])
      BY <1>8, <2>2 DEF TransportInv
    <3>2. req[d].token \in 0..Len(issued') /\ req[d].last \in 0..Len(issued')
      BY <1>3, <1>4, <3>1 DEF RowOK
    <3>3. req[d].at = "send" => issued'[req[d].token] = issued[req[d].token]
      BY <1>3, <1>4, <3>1 DEF RowOK
    <3> QED
      BY <1>0, <3>1, <3>2, <3>3 DEF RowOK
  <2> QED
    BY <2>1, <2>2
<1>10. \A d \in GhCallers : req'[d].at # "exchange"
  BY <1>2, <1>7, <1>8
<1>11. cachedTok' \in 0..Len(issued')
  BY <1>0, <1>3, <1>4
<1> QED
  BY <1>0, <1>1, <1>3, <1>4, <1>8, <1>9, <1>10, <1>11 DEF TransportInv, HoldsMutex

LEMMA TransportNextInv == TransportInv /\ [TransportNext]_transportVars => TransportInv'
<1> SUFFICES ASSUME TransportInv, [TransportNext]_transportVars PROVE TransportInv'
  OBVIOUS
<1>1. CASE UNCHANGED <<ticks, issued, mintQueue, req>> /\ cachedTok' \in {0, cachedTok}
  <2>1. CacheLookup' => CacheLookup
    BY <1>1 DEF CacheLookup
  <2>2. \A c \in GhCallers : RowOK(req[c])' /\ HoldsMutex(c)'
    BY <1>1, <2>1 DEF TransportInv, RowOK, HoldsMutex
  <2>3. cachedTok' \in 0..Len(issued)
    BY <1>1 DEF TransportInv
  <2> QED
    BY <1>1, <2>2, <2>3 DEF TransportInv
<1>2. CASE UNCHANGED transportVars \/ Revoke \/ SuspendApp \/ EvictToken
  BY <1>1, <1>2 DEF transportVars, Revoke, SuspendApp, EvictToken
<1>3. CASE Tick
  <2>1. ticks \in Nat /\ ticks' = ticks + 1 /\ UNCHANGED <<issued, cachedTok, mintQueue, req>>
    BY <1>3 DEF Tick, TransportInv
  <2>2. CacheLookup' => CacheLookup
    <3>1. cachedTok # 0 => issued[cachedTok] \in Nat
      BY DEF TransportInv
    <3> QED
      BY <2>1, <3>1, TransportConstants DEF CacheLookup
  <2>3. \A c \in GhCallers : req[c].at # "send"
    BY <1>3 DEF Tick
  <2>4. \A c \in GhCallers : RowOK(req[c])'
    BY <2>1, <2>3 DEF TransportInv, RowOK
  <2>5. \A c \in GhCallers : HoldsMutex(c)'
    BY <2>1, <2>2 DEF TransportInv, HoldsMutex
  <2> QED
    BY <2>1, <2>4, <2>5 DEF TransportInv
<1> QED
  BY <1>2, <1>3, BeginKeeps, GetTokenKeeps, TakeMutexKeeps, MintKeeps, MintRefusedKeeps, UnauthorizedKeeps, AnswersKeep
     DEF TransportNext

LEMMA TransportStaysSound == TransportInv => TransportSound
<1> SUFFICES ASSUME TransportInv, NEW c \in GhCallers
             PROVE  /\ req[c].at = "exchange" /\ ~req[c].forced => ~CacheLookup
                    /\ req[c].at = "send" /\ req[c].last # 0 => req[c].token # req[c].last
                    /\ req[c].at = "send" => ticks < issued[req[c].token] + TokenLife
                    /\ req[c].effects > 1 => req[c].shaky
  BY DEF TransportSound, TokensWellUsed, RepeatedOnlyAfter5xx
<1>1. RowOK(req[c]) /\ HoldsMutex(c)
  BY DEF TransportInv
<1> QED
  BY <1>1 DEF RowOK, HoldsMutex

-----------------------------------------------------------------------------
(* Sums. The community modules add up with a recursive function: it exists  *)
(* for every finite set, and a change of one entry moves its value by as    *)
(* much. Both by counting up, with the least counterexample in place of the *)
(* induction rule.                                                          *)

Below == {ss \in Nat \X Nat : ss[1] < ss[2]}

LEMMA LeastOf ==
  ASSUME NEW T, T \subseteq Nat, T # {}
  PROVE  \E n \in T : \A m \in T : n <= m
<1>1. IsWellFoundedOn(Below, Nat)
  BY NatLessThanWellFounded DEF OpToRel, Below
<1>2. PICK n \in T : \A m \in T : ~(<<m, n>> \in Below)
  BY <1>1, WFMin
<1>3. \A m \in T : <<m, n>> \in Below <=> m < n
  BY DEF Below
<1>4. \A m \in T : n \in Nat /\ m \in Nat /\ ~(m < n)
  BY <1>2, <1>3
<1>5. \A m \in T : n <= m
  BY <1>4
<1> QED
  BY <1>5

LEMMA CountingUp ==
  ASSUME NEW P, 0 \in P, \A n \in Nat : n \in P => n + 1 \in P
  PROVE  Nat \subseteq P
<1> SUFFICES ASSUME Nat \ P # {} PROVE FALSE
  OBVIOUS
<1>1. PICK n \in Nat \ P : \A m \in Nat \ P : n <= m
  BY LeastOf
<1>2. n # 0 /\ n - 1 \in Nat /\ n - 1 \notin P
  BY <1>1
<1> QED
  BY <1>1, <1>2

OneOf(s) == CHOOSE x \in s : TRUE
Sums(g, f, S) == g = [s \in SUBSET S |-> IF s = {} THEN 0 ELSE f[OneOf(s)] + g[s \ {OneOf(s)}]]
Total(f, S) == MapThenSumSet(LAMBDA x : f[x], S)

LEMMA OneOfIn == ASSUME NEW s, s # {} PROVE OneOf(s) \in s
  BY DEF OneOf

(* Removing one element at a time reaches every subset of a finite set. *)
LEMMA Shrinking ==
  ASSUME NEW s, IsFiniteSet(s), s # {}
  PROVE  /\ OneOf(s) \in s /\ IsFiniteSet(s \ {OneOf(s)}) /\ Cardinality(s \ {OneOf(s)}) = Cardinality(s) - 1
         /\ Cardinality(s) \in Nat \ {0} 
<1>1. OneOf(s) \in s
  BY OneOfIn
<1>2. Cardinality(s) \in Nat /\ Cardinality(s) # 0
  BY FS_CardinalityType, FS_EmptySet
<1> QED
  BY <1>1, <1>2, FS_RemoveElement

LEMMA SubsetsInduct ==
  ASSUME NEW S, IsFiniteSet(S), NEW P, {} \in P,
         \A s \in SUBSET S : s # {} /\ s \ {OneOf(s)} \in P => s \in P
  PROVE  SUBSET S \subseteq P
<1> DEFINE Q == {n \in Nat : \A s \in SUBSET S : Cardinality(s) = n => s \in P}
<1>1. \A s \in SUBSET S : IsFiniteSet(s) /\ Cardinality(s) \in Nat
  BY FS_Subset, FS_CardinalityType
<1>2. 0 \in Q
  BY <1>1, FS_EmptySet
<1>3. ASSUME NEW n \in Nat, n \in Q PROVE n + 1 \in Q
  <2>1. ASSUME NEW s \in SUBSET S, Cardinality(s) = n + 1 PROVE s \in P
    <3>1. s # {}
      BY <2>1, FS_EmptySet
    <3>2. Cardinality(s \ {OneOf(s)}) = n
      BY <1>1, <2>1, <3>1, Shrinking
    <3>3. s \ {OneOf(s)} \in SUBSET S
      OBVIOUS
    <3>4. s \ {OneOf(s)} \in P
      BY <1>3, <3>2, <3>3
    <3> QED
      BY <3>1, <3>4
  <2> QED
    BY <2>1
<1>4. Nat \subseteq Q
  <2> HIDE DEF Q
  <2> QED
    BY <1>2, <1>3, CountingUp
<1> QED
  BY <1>1, <1>4

LEMMA SumExists ==
  ASSUME NEW S, IsFiniteSet(S), NEW f
  PROVE  \E g : Sums(g, f, S)
<1> DEFINE Sub(n) == {s \in SUBSET S : Cardinality(s) <= n}
           Upto(g, n) == g = [s \in Sub(n) |-> IF s = {} THEN 0 ELSE f[OneOf(s)] + g[s \ {OneOf(s)}]]
           Q == {n \in Nat : \E g : Upto(g, n)}
<1>1. \A s \in SUBSET S : IsFiniteSet(s) /\ Cardinality(s) \in Nat
  BY FS_Subset, FS_CardinalityType
<1>2. 0 \in Q
  <2>1. \A s \in Sub(0) : s = {}
    BY <1>1, FS_EmptySet
  <2>2. Upto([s \in Sub(0) |-> 0], 0)
    BY <2>1
  <2> QED
    BY <2>2
<1>3. ASSUME NEW n \in Nat, n \in Q PROVE n + 1 \in Q
  <2>1. PICK g : Upto(g, n)
    BY <1>3
  <2> DEFINE h == [s \in Sub(n + 1) |-> IF s = {} THEN 0 ELSE f[OneOf(s)] + g[s \ {OneOf(s)}]]
  <2>2. Sub(n) \subseteq Sub(n + 1)
    BY <1>1
  <2>3. \A s \in Sub(n) : h[s] = g[s]
    <3> SUFFICES ASSUME NEW s \in Sub(n) PROVE h[s] = g[s]
      OBVIOUS
    <3>1. g[s] = IF s = {} THEN 0 ELSE f[OneOf(s)] + g[s \ {OneOf(s)}]
      <4> HIDE DEF Sub
      <4> QED
        BY <2>1
    <3>2. s \in Sub(n + 1)
      BY <2>2
    <3>3. h[s] = IF s = {} THEN 0 ELSE f[OneOf(s)] + g[s \ {OneOf(s)}]
      <4> HIDE DEF Sub
      <4> QED
        BY <3>2
    <3> QED
      BY <3>1, <3>3
  <2>4. \A s \in Sub(n + 1) : s # {} => s \ {OneOf(s)} \in Sub(n)
    <3> SUFFICES ASSUME NEW s \in Sub(n + 1), s # {} PROVE s \ {OneOf(s)} \in Sub(n)
      OBVIOUS
    <3>1. Cardinality(s \ {OneOf(s)}) = Cardinality(s) - 1 /\ Cardinality(s) \in Nat
      BY <1>1, Shrinking
    <3> QED
      BY <3>1
  <2>5. Upto(h, n + 1)
    <3> HIDE DEF Sub
    <3>1. \A s \in Sub(n + 1) : (IF s = {} THEN 0 ELSE f[OneOf(s)] + g[s \ {OneOf(s)}])
                                  = (IF s = {} THEN 0 ELSE f[OneOf(s)] + h[s \ {OneOf(s)}])
      <4> HIDE DEF h
      <4> QED
        BY <2>3, <2>4
    <3> QED
      BY <3>1
  <2> HIDE DEF h, Upto
  <2> QED
    BY <2>5
<1>4. Nat \subseteq Q
  <2> HIDE DEF Q
  <2> QED
    BY <1>2, <1>3, CountingUp
<1>5. PICK g : Upto(g, Cardinality(S))
  <2>1. Cardinality(S) \in Nat
    BY FS_CardinalityType
  <2> HIDE DEF Upto
  <2> QED
    BY <1>4, <2>1
<1>6. Sub(Cardinality(S)) = SUBSET S
  BY FS_Subset
<1> HIDE DEF Sub
<1> QED
  BY <1>5, <1>6 DEF Sums

LEMMA TotalIs ==
  ASSUME NEW S, IsFiniteSet(S), NEW f
  PROVE  \E g : Sums(g, f, S) /\ Total(f, S) = g[S]
<1>1. Total(f, S) = (CHOOSE g : Sums(g, f, S))[S]
  BY DEF Total, MapThenSumSet, MapThenFoldSet, Sums, OneOf
<1>2. \E g : Sums(g, f, S)
  BY SumExists
<1> QED
  BY <1>1, <1>2

LEMMA SumsAt ==
  ASSUME NEW S, NEW f, NEW g, Sums(g, f, S), NEW s \in SUBSET S
  PROVE  g[s] = IF s = {} THEN 0 ELSE f[OneOf(s)] + g[s \ {OneOf(s)}]
  BY DEF Sums

(* A total of integers is an integer, and of naturals a natural. *)
LEMMA TotalType ==
  ASSUME NEW S, IsFiniteSet(S), NEW f, \A x \in S : f[x] \in Int
  PROVE  Total(f, S) \in Int /\ ((\A x \in S : f[x] \in Nat) => Total(f, S) \in Nat)
<1>1. PICK g : Sums(g, f, S) /\ Total(f, S) = g[S]
  BY TotalIs
<1> DEFINE P == {s \in SUBSET S : g[s] \in Int /\ ((\A x \in S : f[x] \in Nat) => g[s] \in Nat)}
<1>2. {} \in P
  <2>1. g[{}] = 0
    BY <1>1, SumsAt
  <2> QED
    BY <2>1
<1>3. ASSUME NEW s \in SUBSET S, s # {}, s \ {OneOf(s)} \in P PROVE s \in P
  <2>1. g[s] = f[OneOf(s)] + g[s \ {OneOf(s)}]
    <3>1. Sums(g, f, S)
      BY <1>1
    <3>2. g[s] = IF s = {} THEN 0 ELSE f[OneOf(s)] + g[s \ {OneOf(s)}]
      BY <3>1, SumsAt
    <3> QED
      BY <1>3, <3>2
  <2>2. OneOf(s) \in S
    BY <1>3, OneOfIn
  <2> QED
    BY <1>3, <2>1, <2>2
<1>4. S \in P
  <2> HIDE DEF P
  <2> QED
    BY <1>2, <1>3, SubsetsInduct
<1> QED
  BY <1>1, <1>4

(* Changing one entry changes the total by as much. *)
LEMMA TotalMoves ==
  ASSUME NEW S, IsFiniteSet(S), NEW f, NEW h, NEW a \in S, \A x \in S : f[x] \in Int, h[a] \in Int,
         \A x \in S \ {a} : h[x] = f[x]
  PROVE  Total(h, S) = Total(f, S) + (h[a] - f[a])
<1>1. PICK g : Sums(g, f, S) /\ Total(f, S) = g[S]
  BY TotalIs
<1>2. PICK k : Sums(k, h, S) /\ Total(h, S) = k[S]
  BY TotalIs
<1> DEFINE P == {s \in SUBSET S : g[s] \in Int /\ k[s] \in Int /\ k[s] = g[s] + (IF a \in s THEN h[a] - f[a] ELSE 0)}
<1>3. {} \in P
  <2>1. g[{}] = 0 /\ k[{}] = 0
    BY <1>1, <1>2, SumsAt
  <2> QED
    BY <2>1
<1>4. ASSUME NEW s \in SUBSET S, s # {}, s \ {OneOf(s)} \in P PROVE s \in P
  <2>1. g[s] = f[OneOf(s)] + g[s \ {OneOf(s)}] /\ k[s] = h[OneOf(s)] + k[s \ {OneOf(s)}] /\ OneOf(s) \in s
    BY <1>1, <1>2, <1>4, SumsAt, OneOfIn
  <2>2. CASE OneOf(s) = a
    BY <1>4, <2>1, <2>2
  <2>3. CASE OneOf(s) # a
    <3>1. h[OneOf(s)] = f[OneOf(s)] /\ f[OneOf(s)] \in Int
      BY <2>1, <2>3
    <3> QED
      BY <1>4, <2>1, <2>3, <3>1
  <2> QED
    BY <2>2, <2>3
<1>5. S \in P
  <2> HIDE DEF P
  <2> QED
    BY <1>3, <1>4, SubsetsInduct
<1> QED
  BY <1>1, <1>2, <1>5

LEMMA TotalOfSame ==
  ASSUME NEW S, IsFiniteSet(S), NEW f, NEW h, \A x \in S : f[x] \in Int /\ h[x] = f[x]
  PROVE  Total(h, S) = Total(f, S)
<1>1. CASE S = {}
  <2>1. PICK g : Sums(g, f, S) /\ Total(f, S) = g[S]
    BY TotalIs
  <2>2. PICK k : Sums(k, h, S) /\ Total(h, S) = k[S]
    BY TotalIs
  <2> QED
    BY <1>1, <2>1, <2>2, SumsAt
<1>2. ASSUME NEW a \in S PROVE Total(h, S) = Total(f, S)
  <2>1. Total(h, S) = Total(f, S) + (h[a] - f[a])
    BY TotalMoves
  <2>2. Total(f, S) \in Int
    BY TotalType
  <2> QED
    BY <2>1, <2>2
<1> QED
  BY <1>1, <1>2

LEMMA TotalZero ==
  ASSUME NEW S, IsFiniteSet(S), NEW f, \A x \in S : f[x] = 0
  PROVE  Total(f, S) = 0
<1>1. PICK g : Sums(g, f, S) /\ Total(f, S) = g[S]
  BY TotalIs
<1> DEFINE P == {s \in SUBSET S : g[s] = 0}
<1>2. {} \in P
  BY <1>1, SumsAt
<1>3. ASSUME NEW s \in SUBSET S, s # {}, s \ {OneOf(s)} \in P PROVE s \in P
  <2>1. g[s] = f[OneOf(s)] + g[s \ {OneOf(s)}] /\ OneOf(s) \in S
    BY <1>1, <1>3, SumsAt, OneOfIn
  <2> QED
    BY <1>3, <2>1
<1>4. S \in P
  <2> HIDE DEF P
  <2> QED
    BY <1>2, <1>3, SubsetsInduct
<1> QED
  BY <1>1, <1>4

(* No entry exceeds a total of naturals. *)
LEMMA TotalCovers ==
  ASSUME NEW S, IsFiniteSet(S), NEW f, \A x \in S : f[x] \in Nat, NEW a \in S
  PROVE  f[a] <= Total(f, S) 
<1> DEFINE h == [x \in S |-> IF x = a THEN 0 ELSE f[x]]
<1>1. \A x \in S : h[x] \in Nat
  OBVIOUS
<1>2. Total(h, S) \in Nat /\ Total(f, S) \in Nat
  <2> HIDE DEF h
  <2> QED
    BY <1>1, TotalType
<1>3. Total(f, S) = Total(h, S) + (f[a] - h[a])
  <2>1. \A x \in S \ {a} : f[x] = h[x]
    OBVIOUS
  <2> HIDE DEF h
  <2> QED
    BY <1>1, <2>1, TotalMoves
<1>4. h[a] = 0
  OBVIOUS
<1> HIDE DEF h
<1> QED
  BY <1>2, <1>3, <1>4

-----------------------------------------------------------------------------
(* LlmSpend. What is spent on a date is covered by the global row less the  *)
(* charges still open, and the row by the largest cap and what settles      *)
(* added above the estimates.                                               *)

Live == {"reserved", "sdk", "release", "store", "settle"}

(* A row as the caps see it. *)
RowOf(d, s) == IF daily[d][s] = Absent THEN 0 ELSE daily[d][s]
OrgRows(d)  == [o \in Orgs |-> RowOf(d, o)]

(* What an attempt's charge on the date still covers beyond what it paid. *)
HeldBy(c, d) ==
  IF c.day # d THEN 0
  ELSE IF c.at \in {"reserved", "sdk", "release"} THEN Estimate
  ELSE IF c.at \in {"store", "settle"} /\ c.cost < Estimate THEN Estimate - c.cost ELSE 0
Held(d) == [a \in Attempts |-> HeldBy(call[a], d)]

(* The charges of the platform's own calls still open on the date. *)
OwnBy(a, c, d) == IF OrgOf[KeyOf[a]] = Platform /\ c.day = d /\ c.at \in Live THEN Estimate ELSE 0
Own(d) == [a \in Attempts |-> OwnBy(a, call[a], d)]

(* x is what settles added above the estimates. *)
Bounded(d) ==
  \E x \in Nat : /\ RowOf(d, Global) <= books.top[d] + x
                 /\ books.spent[d] + x + Total(Held(d), Attempts) <= RowOf(d, Global) + books.over[d]
Agrees(d) == Total(OrgRows(d), Orgs) + Total(Own(d), Attempts) <= RowOf(d, Global)

RowsKnown ==
  /\ \A d \in Days, s \in Scopes : daily[d][s] = Absent \/ daily[d][s] \in Nat
  /\ \A d \in Days : d > day => \A s \in Scopes : daily[d][s] = Absent
  /\ cap[Global] <= books.top[day]
ChargesKnown == \A a \in Attempts : call[a].at \in Live => \A s \in ScopesOf(a) : daily[call[a].day][s] # Absent
MoneyInv == RowsKnown /\ ChargesKnown /\ \A d \in Days \ books.crossed : Bounded(d) /\ Agrees(d)

(* Until the ledger has a gap for the key, one attempt at a time is under   *)
(* way and nothing is paid for without the ledger or that attempt knowing.  *)
RepaidKnown(k) ==
  k \notin books.gap =>
    /\ \A a, b \in Unrecorded(k) : a = b
    /\ books.paid[k] >= 1 => k \in ledger \/ \E a \in Unrecorded(k) : call[a].at = "store"
    /\ \A a \in Unrecorded(k) : call[a].at # "store" => books.paid[k] = 0
    /\ books.paid[k] <= 1

SpendInv == SpendTypeOK /\ MoneyInv /\ \A k \in Keys : RepaidKnown(k)

LEMMA SpendConstants ==
  /\ KeyOf \in [Attempts -> Keys] /\ OrgOf \in [Keys -> Orgs \cup {Platform}] /\ Estimate \in Nat /\ Estimate > 0
  /\ \A c \in Costs : c \in Nat /\ c > 0
  /\ \A n \in CapChoices : n \in Nat
  /\ Platform \notin Orgs /\ Global \notin Orgs /\ MaxDay \in Nat /\ MaxDay >= 1 /\ IsFiniteSet(Attempts) /\ IsFiniteSet(Orgs)
  BY LlmAssumption DEF Global

LEMMA ScopesFacts ==
  /\ Global \in Scopes /\ Orgs \subseteq Scopes
  /\ \A a \in Attempts : /\ Global \in ScopesOf(a) /\ ScopesOf(a) \subseteq Scopes
                         /\ \A o \in Orgs : o \in ScopesOf(a) <=> o = OrgOf[KeyOf[a]]
  BY SpendConstants DEF Scopes, ScopesOf, OrgScopes

LEMMA BookFacts ==
  ASSUME SpendTypeOK
  PROVE  /\ books.paid \in [Keys -> Nat] /\ books.spent \in [Days -> Nat] /\ books.over \in [Days -> Nat]
         /\ books.top \in [Days -> Nat] /\ books.gap \subseteq Keys /\ books.crossed \subseteq Days
         /\ day \in Days /\ day \in Nat /\ cap[Global] \in Nat /\ call \in [Attempts -> Call]
  BY SpendConstants, ScopesFacts DEF SpendTypeOK, Books, Days

LEMMA HeldType ==
  ASSUME NEW c \in Call, NEW d
  PROVE  HeldBy(c, d) \in Nat
<1>1. c.cost \in Nat
  BY SpendConstants DEF Call
<1> QED
  BY <1>1, SpendConstants DEF HeldBy

LEMMA OwnType ==
  ASSUME NEW a, NEW c, NEW d
  PROVE  OwnBy(a, c, d) \in Nat
  BY SpendConstants DEF OwnBy

LEMMA TotalsType ==
  ASSUME SpendTypeOK, RowsKnown, NEW d \in Days
  PROVE  /\ \A a \in Attempts : Held(d)[a] \in Nat /\ Own(d)[a] \in Nat
         /\ \A s \in Scopes : RowOf(d, s) \in Nat
         /\ \A o \in Orgs : OrgRows(d)[o] \in Nat
         /\ Total(Held(d), Attempts) \in Nat /\ Total(Own(d), Attempts) \in Nat /\ Total(OrgRows(d), Orgs) \in Nat
<1>1. \A a \in Attempts : Held(d)[a] \in Nat /\ Own(d)[a] \in Nat
  BY HeldType, OwnType, BookFacts DEF Held, Own
<1>2. \A s \in Scopes : RowOf(d, s) \in Nat
  BY DEF RowOf, RowsKnown
<1>3. \A o \in Orgs : OrgRows(d)[o] \in Nat
  BY <1>2, ScopesFacts DEF OrgRows
<1>4. Total(Held(d), Attempts) \in Nat 
  BY <1>1, TotalType, SpendConstants
<1>5. Total(Own(d), Attempts) \in Nat
  BY <1>1, TotalType, SpendConstants
<1>6. Total(OrgRows(d), Orgs) \in Nat
  BY <1>3, TotalType, SpendConstants
<1> QED
  BY <1>1, <1>2, <1>3, <1>4, <1>5, <1>6

(* A step of one attempt moves the open charges by its own. *)
LEMMA HeldMoves ==
  ASSUME SpendTypeOK, RowsKnown, NEW a \in Attempts, NEW c \in Call, call' = [call EXCEPT ![a] = c], NEW d \in Days
  PROVE  /\ Total(Held(d), Attempts)' = Total(Held(d), Attempts) + (HeldBy(c, d) - HeldBy(call[a], d))
         /\ Total(Own(d), Attempts)' = Total(Own(d), Attempts) + (OwnBy(a, c, d) - OwnBy(a, call[a], d))
<1>0. call \in [Attempts -> Call]
  BY BookFacts
<1>1. PICK h : h = Held(d)
  OBVIOUS
<1>2. PICK k : k = [b \in Attempts |-> HeldBy(call'[b], d)]
  OBVIOUS
<1>3. Total(Held(d), Attempts)' = Total(k, Attempts)
  <2>1. Held(d)' = k
    BY <1>2 DEF Held
  <2> QED
    BY <2>1
<1>4. (\A b \in Attempts : h[b] \in Int) /\ k[a] \in Int /\ k[a] = HeldBy(c, d) /\ h[a] = HeldBy(call[a], d)
  BY <1>0, <1>1, <1>2, HeldType DEF Held
<1>5. \A b \in Attempts \ {a} : k[b] = h[b]
  BY <1>0, <1>1, <1>2 DEF Held
<1>6. Total(k, Attempts) = Total(h, Attempts) + (k[a] - h[a])
  BY <1>4, <1>5, TotalMoves, SpendConstants
<1>7. PICK p : p = Own(d)
  OBVIOUS
<1>8. PICK q : q = [b \in Attempts |-> OwnBy(b, call'[b], d)]
  OBVIOUS
<1>9. Total(Own(d), Attempts)' = Total(q, Attempts)
  <2>1. Own(d)' = q
    BY <1>8 DEF Own
  <2> QED
    BY <2>1
<1>10. (\A b \in Attempts : p[b] \in Int) /\ q[a] \in Int /\ q[a] = OwnBy(a, c, d) /\ p[a] = OwnBy(a, call[a], d)
  BY <1>0, <1>7, <1>8, OwnType DEF Own
<1>11. \A b \in Attempts \ {a} : q[b] = p[b]
  BY <1>0, <1>7, <1>8 DEF Own
<1>12. Total(q, Attempts) = Total(p, Attempts) + (q[a] - p[a])
  BY <1>10, <1>11, TotalMoves, SpendConstants
<1> QED
  BY <1>1, <1>3, <1>4, <1>6, <1>7, <1>9, <1>10, <1>12

LEMMA GotoRow ==
  ASSUME SpendTypeOK, NEW a \in Attempts, Goto(a, "gate") \/ Goto(a, "reserved") \/ Goto(a, "sdk") \/ Goto(a, "release") \/ Goto(a, "settle") \/ Goto(a, "ended")
  PROVE  \E c \in Call : /\ Goto(a, c.at) /\ c.day = call[a].day /\ c.cost = call[a].cost
                         /\ call' = [call EXCEPT ![a] = c]
<1>0. call \in [Attempts -> Call] /\ call[a] \in Call
  BY BookFacts
<1>1. PICK p \in {"gate", "reserved", "sdk", "release", "settle", "ended"} : Goto(a, p)
  OBVIOUS
<1>2. PICK c : c = [call[a] EXCEPT !.at = p]
  OBVIOUS
<1>3. c \in Call /\ c.at = p /\ c.day = call[a].day /\ c.cost = call[a].cost
  BY <1>0, <1>1, <1>2 DEF Call
<1>4. call' = [call EXCEPT ![a] = c]
  BY <1>1, <1>2 DEF Goto
<1> QED
  BY <1>1, <1>3, <1>4

(* Rows and books stay, and an attempt gives up some of its charge. *)
LEMMA QuietKeeps ==
  ASSUME SpendTypeOK, MoneyInv, NEW a \in Attempts, NEW c \in Call, call' = [call EXCEPT ![a] = c],
         UNCHANGED <<day, daily, cap>>,
         books'.spent = books.spent, books'.over = books.over, books'.top = books.top, books'.crossed = books.crossed,
         c.at \in Live => call[a].at \in Live /\ c.day = call[a].day,
         \A d \in Days : HeldBy(c, d) <= HeldBy(call[a], d) /\ OwnBy(a, c, d) <= OwnBy(a, call[a], d)
  PROVE  MoneyInv'
<1>0. call \in [Attempts -> Call] /\ call[a] \in Call
  BY BookFacts
<1>1. RowsKnown'
  BY DEF MoneyInv, RowsKnown
<1>2. ChargesKnown'
  <2> SUFFICES ASSUME NEW b \in Attempts, call'[b].at \in Live, NEW s \in ScopesOf(b)
               PROVE  daily[call'[b].day][s] # Absent
    BY DEF ChargesKnown, ScopesOf, OrgScopes
  <2>1. call[b].at \in Live /\ call'[b].day = call[b].day
    BY <1>0
  <2> QED
    BY <2>1 DEF MoneyInv, ChargesKnown
<1>3. ASSUME NEW d \in Days \ books'.crossed PROVE Bounded(d)' /\ Agrees(d)'
  <2>1. RowOf(d, Global)' = RowOf(d, Global) /\ OrgRows(d)' = OrgRows(d)
    BY DEF RowOf, OrgRows
  <2>2. /\ Total(Held(d), Attempts)' = Total(Held(d), Attempts) + (HeldBy(c, d) - HeldBy(call[a], d))
        /\ Total(Own(d), Attempts)' = Total(Own(d), Attempts) + (OwnBy(a, c, d) - OwnBy(a, call[a], d))
    BY HeldMoves DEF MoneyInv
  <2>3. HeldBy(c, d) \in Nat /\ HeldBy(call[a], d) \in Nat /\ OwnBy(a, c, d) \in Nat /\ OwnBy(a, call[a], d) \in Nat
    BY <1>0, HeldType, OwnType
  <2>4. /\ Total(Held(d), Attempts) \in Nat /\ Total(Own(d), Attempts) \in Nat /\ Total(OrgRows(d), Orgs) \in Nat /\ RowOf(d, Global) \in Nat
        /\ books.spent[d] \in Nat /\ books.over[d] \in Nat /\ books.top[d] \in Nat
    BY TotalsType, BookFacts, ScopesFacts DEF MoneyInv
  <2>5. /\ Total(Held(d), Attempts)' <= Total(Held(d), Attempts) /\ Total(Held(d), Attempts)' \in Int
        /\ Total(Own(d), Attempts)' <= Total(Own(d), Attempts) /\ Total(Own(d), Attempts)' \in Int
    BY <2>2, <2>3, <2>4
  <2>6. Bounded(d) /\ Agrees(d)
    BY DEF MoneyInv
  <2>7. Agrees(d)'
    BY <2>1, <2>4, <2>5, <2>6 DEF Agrees
  <2>8. PICK x \in Nat : /\ RowOf(d, Global) <= books.top[d] + x
                         /\ books.spent[d] + x + Total(Held(d), Attempts) <= RowOf(d, Global) + books.over[d]
    BY <2>6 DEF Bounded
  <2>9. books.spent[d] + x + Total(Held(d), Attempts)' <= RowOf(d, Global) + books.over[d]
    BY <2>4, <2>5, <2>8
  <2>10. Bounded(d)'
    BY <2>1, <2>8, <2>9 DEF Bounded
  <2> QED
    BY <2>7, <2>10
<1> QED
  BY <1>1, <1>2, <1>3 DEF MoneyInv

(* The gate charges the rows of today. *)
LEMMA ChargeFacts ==
  ASSUME SpendTypeOK, MoneyInv, NEW a \in Attempts, daily' = Charged(a), UNCHANGED day,
         \A s \in ScopesOf(a) : Fits(Ensured(day, ScopesOf(a)), s)
  PROVE  /\ \A s \in Scopes : RowOf(day, s)' = RowOf(day, s) + (IF s \in ScopesOf(a) THEN Estimate ELSE 0)
         /\ \A s \in Scopes : daily'[day][s] = Absent <=> daily[day][s] = Absent /\ s \notin ScopesOf(a)
         /\ \A s \in Scopes : daily'[day][s] = Absent \/ daily'[day][s] \in Nat
         /\ \A d \in Days \ {day} : daily'[d] = daily[d]
         /\ RowOf(day, Global) + Estimate <= cap[Global]
         /\ daily' \in [Days -> [Scopes -> Int]]
<1>0. /\ day \in Days /\ daily \in [Days -> [Scopes -> Int]] /\ Estimate \in Nat
      /\ \A s \in Scopes : daily[day][s] = Absent \/ daily[day][s] \in Nat
  BY SpendConstants DEF SpendTypeOK, MoneyInv, RowsKnown
<1>1. \A s \in Scopes : daily'[day][s] = Ensured(day, ScopesOf(a))[s] + (IF s \in ScopesOf(a) THEN Estimate ELSE 0)
  BY <1>0 DEF Charged
<1>2. \A d \in Days \ {day} : daily'[d] = daily[d]
  BY <1>0 DEF Charged
<1>3. \A s \in Scopes : Ensured(day, ScopesOf(a))[s] = IF s \in ScopesOf(a) THEN RowOf(day, s) ELSE daily[day][s]
  BY DEF Ensured, RowOf
<1>4. ASSUME NEW s \in Scopes
      PROVE  /\ RowOf(day, s)' = RowOf(day, s) + (IF s \in ScopesOf(a) THEN Estimate ELSE 0)
             /\ daily'[day][s] = Absent <=> daily[day][s] = Absent /\ s \notin ScopesOf(a)
             /\ daily'[day][s] = Absent \/ daily'[day][s] \in Nat
  BY <1>0, <1>1, <1>3 DEF RowOf, Absent
<1>5. RowOf(day, Global) + Estimate <= cap[Global]
  BY <1>3, ScopesFacts DEF Fits
<1>6. daily' \in [Days -> [Scopes -> Int]]
  <2> DEFINE r == [s \in Scopes |-> Ensured(day, ScopesOf(a))[s] + (IF s \in ScopesOf(a) THEN Estimate ELSE 0)]
  <2>1. r \in [Scopes -> Int]
    BY <1>0, <1>3 DEF RowOf, Absent
  <2>2. daily' = [daily EXCEPT ![day] = r]
    BY DEF Charged
  <2> HIDE DEF r
  <2> QED
    BY <1>0, <2>1, <2>2
<1> QED
  BY <1>2, <1>4, <1>5, <1>6

LEMMA OneMoves ==
  ASSUME NEW S, IsFiniteSet(S), NEW f, NEW h, NEW a \in S, NEW v \in Int, \A x \in S : f[x] \in Int,
         \A x \in S : h[x] = f[x] + (IF x = a THEN v ELSE 0)
  PROVE  Total(h, S) = Total(f, S) + v
<1>1. h[a] = f[a] + v /\ f[a] \in Int /\ h[a] \in Int
  OBVIOUS
<1>2. \A x \in S \ {a} : h[x] = f[x]
  OBVIOUS
<1>3. Total(h, S) = Total(f, S) + (h[a] - f[a])
  <2>1. h[a] \in Int
    BY <1>1
  <2> QED
    BY ONLY IsFiniteSet(S), a \in S, \A x \in S : f[x] \in Int, <1>2, <2>1, TotalMoves
<1>4. Total(f, S) \in Int
  BY TotalType
<1> QED
  BY <1>1, <1>3, <1>4

(* The organisation's row moves with the global one. *)
LEMMA OrgsMove ==
  ASSUME SpendTypeOK, MoneyInv, NEW a \in Attempts, NEW d \in Days, NEW v \in Int,
         \A s \in Scopes : RowOf(d, s)' = RowOf(d, s) + (IF s \in ScopesOf(a) THEN v ELSE 0)
  PROVE  Total(OrgRows(d), Orgs)' = Total(OrgRows(d), Orgs) + (IF OrgOf[KeyOf[a]] = Platform THEN 0 ELSE v)
<1>0. \A o \in Orgs : OrgRows(d)[o] \in Int /\ OrgRows(d)[o] = RowOf(d, o)
  <2>1. RowsKnown
    BY DEF MoneyInv
  <2>2. \A o \in Orgs : OrgRows(d)[o] \in Nat
    BY <2>1, TotalsType
  <2> QED
    BY <2>2 DEF OrgRows
<1>1. PICK f : f = OrgRows(d)
  OBVIOUS
<1>2. PICK h : h = OrgRows(d)'
  OBVIOUS
<1>3. \A o \in Orgs : h[o] = f[o] + (IF o = OrgOf[KeyOf[a]] THEN v ELSE 0)
  <2>1. \A o \in Orgs : h[o] = RowOf(d, o)'
    BY <1>2 DEF OrgRows
  <2> QED
    BY <1>0, <1>1, <2>1, ScopesFacts
<1>4. \A o \in Orgs : f[o] \in Int
  BY <1>0, <1>1
<1>5. CASE OrgOf[KeyOf[a]] = Platform
  <2>1. \A o \in Orgs : h[o] = f[o]
    BY <1>3, <1>4, <1>5, SpendConstants
  <2>2. Total(h, Orgs) = Total(f, Orgs) /\ Total(f, Orgs) \in Int
    BY <1>4, <2>1, TotalOfSame, TotalType, SpendConstants
  <2> QED
    BY <1>1, <1>2, <1>5, <2>2
<1>6. CASE OrgOf[KeyOf[a]] # Platform
  <2>1. PICK o : o = OrgOf[KeyOf[a]] /\ o \in Orgs
    BY <1>6, SpendConstants
  <2>5. Total(h, Orgs) = Total(f, Orgs) + v
    <3>1. IsFiniteSet(Orgs)
      BY SpendConstants
    <3>2. \A q \in Orgs : h[q] = f[q] + (IF q = o THEN v ELSE 0)
      BY <1>3, <2>1
    <3>3. o \in Orgs
      BY <2>1
    <3> QED
      BY ONLY <1>4, <3>1, <3>2, <3>3, v \in Int, OneMoves
  <2> QED
    BY <1>1, <1>2, <1>6, <2>5
<1> QED
  BY <1>5, <1>6

(* The amounts of one date that the arithmetic below is about. *)
LEMMA Amounts ==
  ASSUME SpendTypeOK, MoneyInv, NEW d \in Days
  PROVE  /\ Total(Held(d), Attempts) \in Nat /\ Total(Own(d), Attempts) \in Nat /\ Total(OrgRows(d), Orgs) \in Nat
         /\ RowOf(d, Global) \in Nat /\ books.spent[d] \in Nat /\ books.over[d] \in Nat /\ books.top[d] \in Nat
<1>1. RowsKnown
  BY DEF MoneyInv
<1>2. \A s \in Scopes : RowOf(d, s) \in Nat
  BY <1>1, TotalsType
<1>3. RowOf(d, Global) \in Nat
  BY <1>2, ScopesFacts
<1> QED
  BY <1>1, <1>3, TotalsType, BookFacts

(* What a date needs of a step: its row, its books and its open charges.    *)
LEMMA DateMoves ==
  ASSUME SpendTypeOK, MoneyInv, NEW d \in Days, Bounded(d), Agrees(d),
         NEW g \in Int, NEW o \in Int, NEW h \in Int, NEW w \in Int, NEW p \in Int, NEW e \in Nat, NEW y \in Nat,
         RowOf(d, Global)' = RowOf(d, Global) + g, books'.spent[d] = books.spent[d] + p, books'.over[d] = books.over[d] + e,
         books'.top[d] \in Nat, books.top[d] <= books'.top[d],
         Total(Held(d), Attempts)' = Total(Held(d), Attempts) + h, Total(Own(d), Attempts)' = Total(Own(d), Attempts) + w,
         Total(OrgRows(d), Orgs)' = Total(OrgRows(d), Orgs) + o,
         g <= y \/ RowOf(d, Global)' <= books'.top[d],
         p + y + h <= g + e, o + w <= g
  PROVE  Bounded(d)' /\ Agrees(d)'
<1>1. /\ Total(Held(d), Attempts) \in Nat /\ Total(Own(d), Attempts) \in Nat /\ Total(OrgRows(d), Orgs) \in Nat
      /\ RowOf(d, Global) \in Nat /\ books.spent[d] \in Nat /\ books.over[d] \in Nat /\ books.top[d] \in Nat
  BY Amounts
<1>2. PICK x \in Nat : /\ RowOf(d, Global) <= books.top[d] + x
                       /\ books.spent[d] + x + Total(Held(d), Attempts) <= RowOf(d, Global) + books.over[d]
  BY DEF Bounded
<1>3. RowOf(d, Global)' <= books'.top[d] + (x + y)
  BY <1>1, <1>2
<1>4. books'.spent[d] + (x + y) + Total(Held(d), Attempts)' <= RowOf(d, Global)' + books'.over[d]
  BY <1>1, <1>2
<1>5. Bounded(d)'
  <2>1. x + y \in Nat
    OBVIOUS
  <2> QED
    BY ONLY <1>3, <1>4, <2>1 DEF Bounded
<1>6. Agrees(d)'
  BY <1>1 DEF Agrees
<1> QED
  BY <1>5, <1>6

(* A date whose rows no step touches keeps its totals. *)
LEMMA RowsStay ==
  ASSUME NEW d \in Days, daily'[d] = daily[d]
  PROVE  RowOf(d, Global)' = RowOf(d, Global) /\ Total(OrgRows(d), Orgs)' = Total(OrgRows(d), Orgs)
<1>1. RowOf(d, Global)' = RowOf(d, Global)
  BY DEF RowOf
<1>2. OrgRows(d)' = OrgRows(d)
  BY DEF RowOf, OrgRows
<1> QED
  BY <1>1, <1>2

(* Reserve, and a refusal whose charge was committed: c is what the attempt *)
(* becomes.                                                                 *)
LEMMA ChargeKeeps ==
  ASSUME SpendTypeOK, MoneyInv, NEW a \in Attempts, daily' = Charged(a),
         \A s \in ScopesOf(a) : Fits(Ensured(day, ScopesOf(a)), s),
         UNCHANGED <<day, cap, books>>, call[a].at = "gate",
         NEW c \in Call, call' = [call EXCEPT ![a] = c], c.at = "ended" \/ (c.at = "reserved" /\ c.day = day)
  PROVE  MoneyInv'
<1>0. /\ call \in [Attempts -> Call] /\ call[a] \in Call /\ day \in Days /\ cap[Global] \in Nat /\ books.top[day] \in Nat /\ Estimate \in Nat
      /\ daily \in [Days -> [Scopes -> Int]]
  BY BookFacts, SpendConstants DEF SpendTypeOK
<1>1. /\ \A s \in Scopes : RowOf(day, s)' = RowOf(day, s) + (IF s \in ScopesOf(a) THEN Estimate ELSE 0)
      /\ \A s \in Scopes : daily'[day][s] = Absent <=> daily[day][s] = Absent /\ s \notin ScopesOf(a)
      /\ \A s \in Scopes : daily'[day][s] = Absent \/ daily'[day][s] \in Nat
      /\ \A d \in Days \ {day} : daily'[d] = daily[d]
      /\ RowOf(day, Global) + Estimate <= cap[Global]
  BY ChargeFacts
<1>2. RowsKnown'
  <2>0. /\ \A d \in Days, s \in Scopes : daily[d][s] = Absent \/ daily[d][s] \in Nat
        /\ \A d \in Days : d > day => \A s \in Scopes : daily[d][s] = Absent
        /\ cap[Global] <= books.top[day]
    BY DEF MoneyInv, RowsKnown
  <2>1. \A d \in Days, s \in Scopes : daily'[d][s] = Absent \/ daily'[d][s] \in Nat
    BY ONLY <1>1, <2>0
  <2>2. \A d \in Days : d > day => d # day
    BY <1>0 DEF Days
  <2>3. \A d \in Days : d > day => \A s \in Scopes : daily'[d][s] = Absent
    BY ONLY <1>1, <2>0, <2>2
  <2> QED
    BY <2>0, <2>1, <2>3 DEF RowsKnown
<1>3. ChargesKnown'
  <2> SUFFICES ASSUME NEW b \in Attempts, call'[b].at \in Live, NEW s \in ScopesOf(b)
               PROVE  daily'[call'[b].day][s] # Absent
    BY DEF ChargesKnown, ScopesOf, OrgScopes
  <2>0. s \in Scopes
    BY ScopesFacts
  <2>1. CASE b = a
    <3>1. call'[b].day = day
      BY <1>0, <2>1 DEF Live
    <3> QED
      BY <1>1, <2>0, <2>1, <3>1
  <2>2. CASE b # a
    <3>1. call'[b] = call[b] /\ call[b].day \in Days
      BY <1>0, <2>2 DEF Call
    <3>2. daily[call[b].day][s] # Absent
      BY <3>1 DEF MoneyInv, ChargesKnown
    <3>3. CASE call[b].day = day
      BY <1>1, <2>0, <3>1, <3>2, <3>3
    <3>4. CASE call[b].day # day
      BY <1>1, <3>1, <3>2, <3>4
    <3> QED
      BY <3>3, <3>4
  <2> QED
    BY <2>1, <2>2
<1>4. ASSUME NEW d \in Days \ books'.crossed PROVE Bounded(d)' /\ Agrees(d)'
  <2>0. Bounded(d) /\ Agrees(d) /\ RowsKnown
    BY DEF MoneyInv
  <2>1. /\ Total(Held(d), Attempts)' = Total(Held(d), Attempts) + (HeldBy(c, d) - HeldBy(call[a], d))
        /\ Total(Own(d), Attempts)' = Total(Own(d), Attempts) + (OwnBy(a, c, d) - OwnBy(a, call[a], d))
    BY <2>0, HeldMoves
  <2>2. HeldBy(call[a], d) = 0 /\ OwnBy(a, call[a], d) = 0
    BY DEF HeldBy, OwnBy, Live
  <2>3. /\ HeldBy(c, d) \in Nat /\ OwnBy(a, c, d) \in Nat
        /\ HeldBy(c, d) <= (IF d = day THEN Estimate ELSE 0)
        /\ OwnBy(a, c, d) <= (IF d = day /\ OrgOf[KeyOf[a]] = Platform THEN Estimate ELSE 0)
    BY <1>0, HeldType, OwnType DEF HeldBy, OwnBy, Live
  <2>4. books'.spent[d] = books.spent[d] + 0 /\ books'.over[d] = books.over[d] + 0 /\ books'.top[d] \in Nat /\ books.top[d] <= books'.top[d]
    BY BookFacts
  <2>5. CASE d = day
    <3>1. RowOf(d, Global)' = RowOf(d, Global) + Estimate
      BY <1>1, <2>5, ScopesFacts
    <3>2. Total(OrgRows(d), Orgs)' = Total(OrgRows(d), Orgs) + (IF OrgOf[KeyOf[a]] = Platform THEN 0 ELSE Estimate)
      BY <1>0, <1>1, <2>5, OrgsMove
    <3>3. RowOf(d, Global)' <= books'.top[d]
      <4>1. cap[Global] <= books.top[day]
        BY <2>0 DEF RowsKnown
      <4>2. RowOf(d, Global) \in Nat
        BY Amounts
      <4> QED
        BY <1>0, <1>1, <2>5, <3>1, <4>1, <4>2
    <3>4. PICK w : w = OwnBy(a, c, d) - OwnBy(a, call[a], d) /\ w \in Int
                   /\ w <= (IF OrgOf[KeyOf[a]] = Platform THEN Estimate ELSE 0)
      BY <1>0, <2>2, <2>3, <2>5
    <3>5. PICK h : h = HeldBy(c, d) - HeldBy(call[a], d) /\ h \in Int /\ h <= Estimate
      BY <1>0, <2>2, <2>3, <2>5
    <3>6. PICK o : o = (IF OrgOf[KeyOf[a]] = Platform THEN 0 ELSE Estimate) /\ o \in Int /\ o + w <= Estimate
      BY <1>0, <3>4
    <3>7. Estimate \in Int /\ 0 \in Nat /\ 0 \in Int /\ (0 + 0 + h <= Estimate + 0)
      BY <1>0, <3>5
    <3> QED
      BY ONLY SpendTypeOK, MoneyInv, d \in Days, <2>0, <2>1, <2>4, <3>1, <3>2, <3>3, <3>4, <3>5, <3>6, <3>7, DateMoves
  <2>6. CASE d # day
    <3>1. RowOf(d, Global)' = RowOf(d, Global) /\ Total(OrgRows(d), Orgs)' = Total(OrgRows(d), Orgs)
      BY <1>1, <2>6, RowsStay
    <3>2. HeldBy(c, d) - HeldBy(call[a], d) = 0 /\ OwnBy(a, c, d) - OwnBy(a, call[a], d) = 0
      BY <2>2, <2>3, <2>6
    <3>3. /\ Total(Held(d), Attempts)' = Total(Held(d), Attempts) /\ Total(Own(d), Attempts)' = Total(Own(d), Attempts)
      BY <2>1, <3>2, Amounts
    <3>4. Bounded(d)'
      BY <2>0, <3>1, <3>3 DEF Bounded
    <3>5. Agrees(d)'
      BY <2>0, <3>1, <3>3 DEF Agrees
    <3> QED
      BY <3>4, <3>5
  <2> QED
    BY <2>5, <2>6
<1> QED
  BY <1>2, <1>3, <1>4 DEF MoneyInv

(* The provider is paid: what the call cost above its estimate is booked,   *)
(* the rest comes out of its charge.                                        *)
LEMMA PaidKeeps ==
  ASSUME SpendTypeOK, MoneyInv, NEW a \in Attempts, NEW cost \in Costs, ProviderAnswers(a, cost)
  PROVE  MoneyInv'
<1>0. /\ call \in [Attempts -> Call] /\ call[a] \in Call /\ day \in Days /\ Estimate \in Nat /\ cost \in Nat /\ cost > 0 /\ call[a].at = "sdk"
      /\ books.spent \in [Days -> Nat] /\ books.over \in [Days -> Nat] /\ books.top \in [Days -> Nat] /\ books.crossed \subseteq Days
      /\ books \in Books /\ UNCHANGED <<day, daily, cap>>
  BY BookFacts, SpendConstants DEF ProviderAnswers, SpendTypeOK
<1>1. PICK c : c = [call[a] EXCEPT !.at = "store", !.cost = cost]
  OBVIOUS
<1>2. c \in Call /\ c.at = "store" /\ c.day = call[a].day /\ c.cost = cost
  BY <1>0, <1>1 DEF Call
<1>3. call' = [call EXCEPT ![a] = c] /\ call'[a] = c
  BY <1>0, <1>1 DEF ProviderAnswers
<1>4. PICK e : e = Excess(c) /\ e \in Nat /\ (IF cost < Estimate THEN e = 0 ELSE e = cost - Estimate)
  BY <1>0, <1>2 DEF Excess
<1>5. /\ books'.spent = [books.spent EXCEPT ![day] = @ + cost] /\ books'.over = [books.over EXCEPT ![day] = @ + e]
      /\ books'.top = books.top /\ books'.crossed = IF call[a].day = day THEN books.crossed ELSE books.crossed \cup {day}
  BY <1>0, <1>3, <1>4 DEF ProviderAnswers, Books
<1>6. RowsKnown'
  BY <1>0, <1>5 DEF MoneyInv, RowsKnown
<1>7. ChargesKnown'
  <2> SUFFICES ASSUME NEW b \in Attempts, call'[b].at \in Live, NEW s \in ScopesOf(b)
               PROVE  daily[call'[b].day][s] # Absent
    BY <1>0 DEF ChargesKnown, ScopesOf, OrgScopes
  <2>1. call[b].at \in Live /\ call'[b].day = call[b].day
    BY <1>0, <1>2, <1>3 DEF Live
  <2> QED
    BY <2>1 DEF MoneyInv, ChargesKnown
<1>8. ASSUME NEW d \in Days \ books'.crossed PROVE Bounded(d)' /\ Agrees(d)'
  <2>0. Bounded(d) /\ Agrees(d) /\ RowsKnown
    BY <1>5 DEF MoneyInv
  <2>1. /\ Total(Held(d), Attempts)' = Total(Held(d), Attempts) + (HeldBy(c, d) - HeldBy(call[a], d))
        /\ Total(Own(d), Attempts)' = Total(Own(d), Attempts) + (OwnBy(a, c, d) - OwnBy(a, call[a], d))
    BY <1>2, <1>3, <2>0, HeldMoves
  <2>2. RowOf(d, Global)' = RowOf(d, Global) /\ Total(OrgRows(d), Orgs)' = Total(OrgRows(d), Orgs)
    BY <1>0, RowsStay
  <2>3. OwnBy(a, c, d) = OwnBy(a, call[a], d) /\ OwnBy(a, c, d) \in Nat
    BY <1>0, <1>2, OwnType DEF OwnBy, Live
  <2>4. /\ HeldBy(call[a], d) = (IF call[a].day = d THEN Estimate ELSE 0)
        /\ HeldBy(c, d) = (IF call[a].day = d /\ cost < Estimate THEN Estimate - cost ELSE 0)
    BY <1>0, <1>2 DEF HeldBy
  <2>5. books'.top[d] \in Nat /\ books.top[d] <= books'.top[d] /\ books.spent[d] \in Nat /\ books.over[d] \in Nat
    BY <1>0, <1>5
  <2>6. PICK h : h = HeldBy(c, d) - HeldBy(call[a], d) /\ h \in Int
                 /\ h = (IF call[a].day # d THEN 0 ELSE IF cost < Estimate THEN - cost ELSE - Estimate)
    BY <1>0, <2>4
  <2>7. PICK w : w = OwnBy(a, c, d) - OwnBy(a, call[a], d) /\ w = 0
    BY <2>3
  <2>8. PICK p : p = (IF d = day THEN cost ELSE 0) /\ p \in Int /\ books'.spent[d] = books.spent[d] + p
    BY <1>0, <1>5, <2>5
  <2>9. PICK f : f = (IF d = day THEN e ELSE 0) /\ f \in Nat /\ books'.over[d] = books.over[d] + f
    BY <1>0, <1>4, <1>5, <2>5
  <2>10. d = day => call[a].day = day
    BY <1>0, <1>5
  <2>11. p + 0 + h <= 0 + f
    BY <1>0, <1>4, <2>6, <2>8, <2>9, <2>10
  <2>12. /\ RowOf(d, Global)' = RowOf(d, Global) + 0 /\ Total(OrgRows(d), Orgs)' = Total(OrgRows(d), Orgs) + 0
         /\ 0 \in Nat /\ 0 \in Int /\ w \in Int /\ 0 <= 0 /\ 0 + w <= 0
    BY <2>2, <2>7, Amounts
  <2> QED
    BY ONLY SpendTypeOK, MoneyInv, d \in Days, <2>0, <2>1, <2>5, <2>6, <2>7, <2>8, <2>9, <2>11, <2>12, DateMoves
<1> QED
  BY <1>6, <1>7, <1>8 DEF MoneyInv

(* Settle and Release: the difference reaches the rows of today, and the    *)
(* attempt holds nothing any more.                                          *)
LEMMA AdjustKeeps ==
  ASSUME SpendTypeOK, MoneyInv, NEW a \in Attempts, NEW diff \in Int, AdjustDaily(a, diff), Goto(a, "ended"), UNCHANGED <<day, cap>>,
         call[a].at \in {"settle", "release"},
         call[a].at = "settle" => diff = call[a].cost - Estimate, call[a].at = "release" => diff = - Estimate
  PROVE  MoneyInv'
<1>0. /\ call \in [Attempts -> Call] /\ call[a] \in Call /\ day \in Days /\ Estimate \in Nat /\ call[a].cost \in Nat
      /\ books \in Books /\ daily \in [Days -> [Scopes -> Int]] /\ call[a].day \in Days
  BY BookFacts, SpendConstants DEF SpendTypeOK, Call
<1>1. PICK c \in Call : c.at = "ended" /\ call' = [call EXCEPT ![a] = c]
  <2>1. PICK c : c = [call[a] EXCEPT !.at = "ended"]
    OBVIOUS
  <2>2. c \in Call /\ c.at = "ended"
    BY <1>0, <2>1 DEF Call
  <2>3. call' = [call EXCEPT ![a] = c]
    BY <2>1 DEF Goto
  <2> QED
    BY <2>2, <2>3
<1>2. /\ books'.spent = books.spent /\ books'.over = books.over /\ books'.top = books.top
      /\ books'.crossed = IF call[a].day = day THEN books.crossed ELSE books.crossed \cup {call[a].day, day}
  BY <1>0 DEF AdjustDaily, Books
<1>3. /\ \A d \in Days \ {day} : daily'[d] = daily[d]
      /\ \A s \in Scopes : daily'[day][s] = IF s \in ScopesOf(a) /\ daily[day][s] # Absent THEN daily[day][s] + diff ELSE daily[day][s]
      /\ \A s \in ScopesOf(a) : daily[day][s] # Absent => daily[day][s] + diff >= 0
  BY <1>0 DEF AdjustDaily, Adjusted
<1>4. \A d \in Days, s \in Scopes : daily[d][s] = Absent \/ daily[d][s] \in Nat
  BY DEF MoneyInv, RowsKnown
<1>5. \A s \in Scopes : /\ daily'[day][s] = Absent \/ daily'[day][s] \in Nat
                        /\ daily'[day][s] = Absent <=> daily[day][s] = Absent
  BY <1>0, <1>3, <1>4 DEF Absent
<1>6. RowsKnown'
  <2>0. /\ \A d \in Days : d > day => \A s \in Scopes : daily[d][s] = Absent
        /\ cap[Global] <= books.top[day]
    BY DEF MoneyInv, RowsKnown
  <2>1. \A d \in Days, s \in Scopes : daily'[d][s] = Absent \/ daily'[d][s] \in Nat
    BY ONLY <1>3, <1>4, <1>5
  <2>2. \A d \in Days : d > day => d # day
    BY <1>0 DEF Days
  <2>3. \A d \in Days : d > day => \A s \in Scopes : daily'[d][s] = Absent
    BY ONLY <1>3, <2>0, <2>2
  <2> QED
    BY <1>2, <2>0, <2>1, <2>3 DEF RowsKnown
<1>7. ChargesKnown'
  <2> SUFFICES ASSUME NEW b \in Attempts, call'[b].at \in Live, NEW s \in ScopesOf(b)
               PROVE  daily'[call'[b].day][s] # Absent
    BY DEF ChargesKnown, ScopesOf, OrgScopes
  <2>1. b # a /\ call'[b] = call[b] /\ call[b].day \in Days /\ s \in Scopes
    BY <1>0, <1>1, ScopesFacts DEF Live, Call
  <2>2. daily[call[b].day][s] # Absent
    BY <2>1 DEF MoneyInv, ChargesKnown
  <2>3. CASE call[b].day = day
    BY <1>5, <2>1, <2>2, <2>3
  <2>4. CASE call[b].day # day
    BY <1>3, <2>1, <2>2, <2>4
  <2> QED
    BY <2>3, <2>4
<1>8. ASSUME NEW d \in Days \ books'.crossed PROVE Bounded(d)' /\ Agrees(d)'
  <2>0. Bounded(d) /\ Agrees(d) /\ RowsKnown
    BY <1>2 DEF MoneyInv
  <2>1. /\ Total(Held(d), Attempts)' = Total(Held(d), Attempts) + (HeldBy(c, d) - HeldBy(call[a], d))
        /\ Total(Own(d), Attempts)' = Total(Own(d), Attempts) + (OwnBy(a, c, d) - OwnBy(a, call[a], d))
    BY <1>1, <2>0, HeldMoves
  <2>2. HeldBy(c, d) = 0 /\ OwnBy(a, c, d) = 0
    BY <1>1 DEF HeldBy, OwnBy, Live
  <2>3. HeldBy(call[a], d) \in Nat /\ OwnBy(a, call[a], d) \in Nat
    BY <1>0, HeldType, OwnType
  <2>4. books'.spent[d] = books.spent[d] + 0 /\ books'.over[d] = books.over[d] + 0 /\ books'.top[d] \in Nat /\ books.top[d] <= books'.top[d]
    BY <1>2, BookFacts
  <2>5. CASE d = day
    <3>1. call[a].day = day
      BY <1>0, <1>2, <2>5
    <3>2. \A s \in ScopesOf(a) : daily[day][s] # Absent
      BY <3>1 DEF MoneyInv, ChargesKnown, Live
    <3>3. \A s \in Scopes : RowOf(d, s)' = RowOf(d, s) + (IF s \in ScopesOf(a) THEN diff ELSE 0)
      BY <1>3, <1>4, <1>5, <2>5, <3>2 DEF RowOf, Absent
    <3>4. RowOf(d, Global)' = RowOf(d, Global) + diff
      BY <3>3, ScopesFacts
    <3>5. Total(OrgRows(d), Orgs)' = Total(OrgRows(d), Orgs) + (IF OrgOf[KeyOf[a]] = Platform THEN 0 ELSE diff)
      BY <3>3, OrgsMove
    <3>6. OwnBy(a, call[a], d) = (IF OrgOf[KeyOf[a]] = Platform THEN Estimate ELSE 0)
      BY <2>5, <3>1 DEF OwnBy, Live
    <3>7. HeldBy(call[a], d) = (IF diff < 0 THEN - diff ELSE 0)
      BY <1>0, <2>5, <3>1 DEF HeldBy
    <3>8. PICK w : w = OwnBy(a, c, d) - OwnBy(a, call[a], d) /\ w \in Int /\ w = (IF OrgOf[KeyOf[a]] = Platform THEN - Estimate ELSE 0)
      <4>1. Estimate \in Nat
        BY <1>0
      <4>2. CASE OrgOf[KeyOf[a]] = Platform
        BY ONLY <4>1, <4>2, <2>2, <3>6
      <4>3. CASE OrgOf[KeyOf[a]] # Platform
        BY ONLY <4>1, <4>3, <2>2, <3>6
      <4> QED
        BY <4>2, <4>3
    <3>9. PICK h : h = HeldBy(c, d) - HeldBy(call[a], d) /\ h \in Int /\ h = (IF diff < 0 THEN diff ELSE 0)
      BY <2>2, <3>7
    <3>10. PICK o : o = (IF OrgOf[KeyOf[a]] = Platform THEN 0 ELSE diff) /\ o \in Int /\ o + w <= diff
      BY <1>0, <3>8
    <3>11. PICK y : y = (IF diff < 0 THEN 0 ELSE diff) /\ y \in Nat /\ diff <= y
      OBVIOUS
    <3>12. 0 \in Nat /\ 0 \in Int /\ 0 + y + h <= diff + 0
      BY <3>9, <3>11
    <3> QED
      BY ONLY SpendTypeOK, MoneyInv, d \in Days, diff \in Int, <2>0, <2>1, <2>4, <3>4, <3>5, <3>8, <3>9, <3>10, <3>11, <3>12, DateMoves
  <2>6. CASE d # day
    <3>1. RowOf(d, Global)' = RowOf(d, Global) + 0 /\ Total(OrgRows(d), Orgs)' = Total(OrgRows(d), Orgs) + 0
      <4>1. daily'[d] = daily[d]
        BY <1>3, <2>6
      <4>2. RowOf(d, Global)' = RowOf(d, Global) /\ Total(OrgRows(d), Orgs)' = Total(OrgRows(d), Orgs)
        BY <4>1, RowsStay
      <4> QED
        BY <4>2, Amounts
    <3>2. PICK w : w = OwnBy(a, c, d) - OwnBy(a, call[a], d) /\ w \in Int /\ w <= 0
      BY <2>2, <2>3
    <3>3. PICK h : h = HeldBy(c, d) - HeldBy(call[a], d) /\ h \in Int /\ h <= 0
      BY <2>2, <2>3
    <3>4. 0 \in Nat /\ 0 \in Int /\ 0 + 0 + h <= 0 + 0 /\ 0 + w <= 0 /\ 0 <= 0
      BY <3>2, <3>3
    <3> QED
      BY ONLY SpendTypeOK, MoneyInv, d \in Days, <2>0, <2>1, <2>4, <3>1, <3>2, <3>3, <3>4, DateMoves
  <2> QED
    BY <2>5, <2>6
<1> QED
  BY <1>6, <1>7, <1>8 DEF MoneyInv

(* Pruning, a new cap and midnight move no charge. *)
LEMMA CalendarKeeps ==
  ASSUME SpendTypeOK, MoneyInv, UNCHANGED <<daily, call>>,
         books'.spent = books.spent, books'.over = books.over, books'.crossed = books.crossed,
         books'.top \in [Days -> Nat], day' \in Nat, day <= day',
         \A d \in Days : books.top[d] <= books'.top[d] \/ \A s \in Scopes : daily[d][s] = Absent,
         cap'[Global] <= books'.top[day']
  PROVE  MoneyInv'
<1>0. day \in Nat /\ books.top \in [Days -> Nat] /\ RowsKnown
  BY BookFacts DEF MoneyInv
<1>1. RowsKnown'
  <2>1. \A d \in Days : d > day' => d > day
    BY <1>0 DEF Days
  <2> QED
    BY <1>0, <2>1 DEF RowsKnown
<1>2. ChargesKnown'
  BY DEF MoneyInv, ChargesKnown, ScopesOf, OrgScopes
<1>3. ASSUME NEW d \in Days \ books'.crossed PROVE Bounded(d)' /\ Agrees(d)'
  <2>0. Bounded(d) /\ Agrees(d)
    BY DEF MoneyInv
  <2>1. RowOf(d, Global)' = RowOf(d, Global) /\ Total(OrgRows(d), Orgs)' = Total(OrgRows(d), Orgs)
    BY RowsStay
  <2>2. Held(d)' = Held(d) /\ Own(d)' = Own(d)
    BY DEF Held, Own
  <2>3. PICK x \in Nat : /\ RowOf(d, Global) <= books.top[d] + x
                         /\ books.spent[d] + x + Total(Held(d), Attempts) <= RowOf(d, Global) + books.over[d]
    BY <2>0 DEF Bounded
  <2>4. RowOf(d, Global)' <= books'.top[d] + x
    <3>1. books.top[d] \in Nat /\ books'.top[d] \in Nat /\ RowOf(d, Global) \in Nat
      BY <1>0, Amounts
    <3>2. CASE books.top[d] <= books'.top[d]
      BY <2>1, <2>3, <3>1, <3>2
    <3>3. CASE \A s \in Scopes : daily[d][s] = Absent
      <4>1. RowOf(d, Global) = 0
        BY <3>3, ScopesFacts DEF RowOf
      <4> QED
        BY <2>1, <3>1, <4>1
    <3> QED
      BY <3>2, <3>3
  <2>5. Bounded(d)'
    BY <2>1, <2>2, <2>3, <2>4 DEF Bounded
  <2>6. Agrees(d)'
    BY <2>0, <2>1, <2>2 DEF Agrees
  <2> QED
    BY <2>5, <2>6
<1> QED
  BY <1>1, <1>2, <1>3 DEF MoneyInv

Asking == {"gate", "reserved", "sdk", "store"}

LEMMA UnrecordedIs == \A k, a : a \in Unrecorded(k) <=> a \in Attempts /\ KeyOf[a] = k /\ call[a].at \in Asking
  BY DEF Unrecorded, Asking

LEMMA UnrecordedThen == \A k, a : a \in Unrecorded(k)' <=> a \in Attempts /\ KeyOf[a] = k /\ call'[a].at \in Asking
  BY DEF Unrecorded, Asking

(* An attempt that goes on or stops without paying; one that leaves the     *)
(* store either stored or is a gap.                                         *)
LEMMA RepaidStays ==
  ASSUME SpendTypeOK, NEW k \in Keys, RepaidKnown(k), NEW a \in Attempts, NEW c \in Call, call' = [call EXCEPT ![a] = c],
         books'.paid = books.paid, books.gap \subseteq books'.gap, ledger \subseteq ledger',
         c.at \in Asking => call[a].at \in Asking /\ (c.at = "store" <=> call[a].at = "store"),
         call[a].at = "store" /\ c.at # "store" => KeyOf[a] \in ledger' \/ KeyOf[a] \in books'.gap
  PROVE  RepaidKnown(k)'
<1> SUFFICES ASSUME k \notin books'.gap
             PROVE  /\ \A b, e \in Unrecorded(k)' : b = e
                    /\ books'.paid[k] >= 1 => k \in ledger' \/ \E b \in Unrecorded(k)' : call'[b].at = "store"
                    /\ \A b \in Unrecorded(k)' : call'[b].at # "store" => books'.paid[k] = 0
                    /\ books'.paid[k] <= 1
  BY DEF RepaidKnown
<1>0. call \in [Attempts -> Call] /\ k \notin books.gap
  BY BookFacts
<1>1. /\ \A b, e \in Unrecorded(k) : b = e
      /\ books.paid[k] >= 1 => k \in ledger \/ \E b \in Unrecorded(k) : call[b].at = "store"
      /\ \A b \in Unrecorded(k) : call[b].at # "store" => books.paid[k] = 0
      /\ books.paid[k] <= 1
  BY <1>0 DEF RepaidKnown
<1>2. \A b \in Attempts : call'[b] = IF b = a THEN c ELSE call[b]
  BY <1>0
<1>3. \A b \in Unrecorded(k)' : b \in Unrecorded(k) /\ (call'[b].at = "store" <=> call[b].at = "store")
  BY <1>2, UnrecordedIs, UnrecordedThen
<1>4. ASSUME NEW b \in Unrecorded(k), call[b].at = "store"
      PROVE  k \in ledger' \/ (b \in Unrecorded(k)' /\ call'[b].at = "store")
  <2>1. CASE b # a
    BY <1>2, <1>4, <2>1, UnrecordedIs, UnrecordedThen
  <2>2. CASE b = a
    BY <1>2, <1>4, <2>2, UnrecordedIs, UnrecordedThen DEF Asking
  <2> QED
    BY <2>1, <2>2
<1> QED
  BY <1>1, <1>3, <1>4

(* A miss is a gap unless no other attempt of the key is under way. *)
LEMMA LookupKeepsRepaid ==
  ASSUME SpendTypeOK, NEW k \in Keys, RepaidKnown(k), NEW a \in Attempts, NEW c \in Call, call' = [call EXCEPT ![a] = c],
         c.at = "gate", call[a].at = "new", KeyOf[a] \notin ledger, ledger' = ledger, books'.paid = books.paid,
         books'.gap = IF Unrecorded(KeyOf[a]) # {} THEN books.gap \cup {KeyOf[a]} ELSE books.gap
  PROVE  RepaidKnown(k)'
<1> SUFFICES ASSUME k \notin books'.gap
             PROVE  /\ \A b, e \in Unrecorded(k)' : b = e
                    /\ books'.paid[k] >= 1 => k \in ledger' \/ \E b \in Unrecorded(k)' : call'[b].at = "store"
                    /\ \A b \in Unrecorded(k)' : call'[b].at # "store" => books'.paid[k] = 0
                    /\ books'.paid[k] <= 1
  BY DEF RepaidKnown
<1>0. call \in [Attempts -> Call] /\ k \notin books.gap /\ books.paid[k] \in Nat
  BY BookFacts
<1>1. /\ \A b, e \in Unrecorded(k) : b = e
      /\ books.paid[k] >= 1 => k \in ledger \/ \E b \in Unrecorded(k) : call[b].at = "store"
      /\ \A b \in Unrecorded(k) : call[b].at # "store" => books.paid[k] = 0
      /\ books.paid[k] <= 1
  BY <1>0 DEF RepaidKnown
<1>2. \A b \in Attempts : call'[b] = IF b = a THEN c ELSE call[b]
  BY <1>0
<1>3. CASE KeyOf[a] = k
  <2>1. Unrecorded(k) = {}
    BY <1>3
  <2>2. books.paid[k] = 0
    BY <1>0, <1>1, <1>3, <2>1
  <2>3. \A b \in Unrecorded(k)' : b = a
    BY <1>2, <2>1, UnrecordedIs, UnrecordedThen
  <2> QED
    BY <2>2, <2>3
<1>4. CASE KeyOf[a] # k
  <2>1. \A b \in Attempts : KeyOf[b] = k => call'[b] = call[b]
    BY <1>2, <1>4
  <2>2. \A b : b \in Unrecorded(k)' <=> b \in Unrecorded(k)
    BY ONLY <2>1, UnrecordedIs, UnrecordedThen
  <2>3. \A b \in Unrecorded(k) : call'[b] = call[b]
    BY ONLY <2>1, UnrecordedIs
  <2>4. k \in ledger' <=> k \in ledger
    OBVIOUS
  <2> QED
    BY ONLY <1>1, <2>2, <2>3, <2>4, books'.paid = books.paid
<1> QED
  BY <1>3, <1>4

(* The only attempt of a key without a gap pays once. *)
LEMMA AnswerKeepsRepaid ==
  ASSUME SpendTypeOK, NEW k \in Keys, RepaidKnown(k), NEW a \in Attempts, NEW c \in Call, call' = [call EXCEPT ![a] = c],
         c.at = "store", call[a].at = "sdk", ledger' = ledger, books'.gap = books.gap,
         books'.paid = [books.paid EXCEPT ![KeyOf[a]] = @ + 1]
  PROVE  RepaidKnown(k)'
<1> SUFFICES ASSUME k \notin books'.gap
             PROVE  /\ \A b, e \in Unrecorded(k)' : b = e
                    /\ books'.paid[k] >= 1 => k \in ledger' \/ \E b \in Unrecorded(k)' : call'[b].at = "store"
                    /\ \A b \in Unrecorded(k)' : call'[b].at # "store" => books'.paid[k] = 0
                    /\ books'.paid[k] <= 1
  BY DEF RepaidKnown
<1>0. call \in [Attempts -> Call] /\ k \notin books.gap /\ books.paid \in [Keys -> Nat]
  BY BookFacts
<1>1. /\ \A b, e \in Unrecorded(k) : b = e
      /\ books.paid[k] >= 1 => k \in ledger \/ \E b \in Unrecorded(k) : call[b].at = "store"
      /\ \A b \in Unrecorded(k) : call[b].at # "store" => books.paid[k] = 0
      /\ books.paid[k] <= 1
  BY <1>0 DEF RepaidKnown
<1>2. \A b \in Attempts : call'[b] = IF b = a THEN c ELSE call[b]
  BY <1>0
<1>3. Unrecorded(k)' = Unrecorded(k)
  BY <1>2, UnrecordedIs, UnrecordedThen DEF Asking
<1>4. CASE KeyOf[a] = k
  <2>1. a \in Unrecorded(k) /\ call'[a].at = "store"
    BY <1>2, <1>4, UnrecordedIs DEF Asking
  <2>2. books.paid[k] = 0 /\ books'.paid[k] = 1
    BY <1>0, <1>1, <1>4, <2>1
  <2>3. \A b \in Unrecorded(k) : b = a
    BY <1>1, <2>1
  <2> QED
    BY <1>3, <2>1, <2>2, <2>3
<1>5. CASE KeyOf[a] # k
  <2>1. \A b \in Unrecorded(k) : call'[b] = call[b]
    BY <1>2, <1>5, UnrecordedIs
  <2>2. books'.paid[k] = books.paid[k]
    BY <1>0, <1>5
  <2> QED
    BY <1>1, <1>3, <2>1, <2>2
<1> QED
  BY <1>4, <1>5

LEMMA IdleKeepsRepaid ==
  ASSUME NEW k \in Keys, RepaidKnown(k), UNCHANGED call, books'.paid = books.paid, books.gap \subseteq books'.gap,
         k \in ledger => k \in ledger' \/ k \in books'.gap
  PROVE  RepaidKnown(k)'
<1>1. Unrecorded(k)' = Unrecorded(k)
  BY DEF Unrecorded
<1> QED
  BY <1>1 DEF RepaidKnown

LEMMA GapGrows ==
  ASSUME books \in Books, NEW k \in Keys, books' \in {books, [books EXCEPT !.gap = @ \cup {k}]}
  PROVE  /\ books' \in Books /\ books'.paid = books.paid /\ books'.spent = books.spent /\ books'.over = books.over
         /\ books'.top = books.top /\ books'.crossed = books.crossed /\ books.gap \subseteq books'.gap
  BY DEF Books

(* An attempt moves on, or stops, without touching rows or amounts. *)
LEMMA AttemptQuiet ==
  ASSUME SpendInv, NEW a \in Attempts, NEW p \in {"sdk", "release", "settle", "ended"}, Goto(a, p), UNCHANGED <<day, daily, cap>>,
         books' \in {books, [books EXCEPT !.gap = @ \cup {KeyOf[a]}]}, ledger' \subseteq Keys, ledger \subseteq ledger',
         p = "sdk" => call[a].at = "reserved", p = "release" => call[a].at = "sdk", p = "settle" => call[a].at = "store",
         call[a].at = "store" => KeyOf[a] \in ledger' \/ KeyOf[a] \in books'.gap
  PROVE  SpendInv'
<1>0. /\ SpendTypeOK /\ MoneyInv /\ call \in [Attempts -> Call] /\ call[a] \in Call /\ KeyOf[a] \in Keys /\ books \in Books
      /\ \A k \in Keys : RepaidKnown(k)
  BY BookFacts, SpendConstants DEF SpendInv, SpendTypeOK
<1>1. /\ books' \in Books /\ books'.paid = books.paid /\ books'.spent = books.spent /\ books'.over = books.over
      /\ books'.top = books.top /\ books'.crossed = books.crossed /\ books.gap \subseteq books'.gap
  BY <1>0, GapGrows
<1>2. PICK c : c = [call[a] EXCEPT !.at = p]
  OBVIOUS
<1>3. c \in Call /\ c.at = p /\ c.day = call[a].day /\ c.cost = call[a].cost
  BY <1>0, <1>2 DEF Call
<1>4. call' = [call EXCEPT ![a] = c]
  BY <1>2 DEF Goto
<1>5. SpendTypeOK'
  BY <1>0, <1>1, <1>3, <1>4 DEF SpendTypeOK
<1>6. c.at \in Live => call[a].at \in Live /\ c.day = call[a].day
  BY <1>3 DEF Live
<1>7. ASSUME NEW d \in Days PROVE HeldBy(c, d) <= HeldBy(call[a], d) /\ OwnBy(a, c, d) <= OwnBy(a, call[a], d)
  <2>1. HeldBy(c, d) \in Nat /\ HeldBy(call[a], d) \in Nat /\ Estimate \in Nat
    BY <1>0, <1>3, HeldType, SpendConstants
  <2>2. HeldBy(c, d) = 0 \/ HeldBy(c, d) = HeldBy(call[a], d)
    BY <1>3 DEF HeldBy
  <2>3. OwnBy(a, c, d) <= OwnBy(a, call[a], d)
    BY <1>3, <1>6, <2>1 DEF OwnBy
  <2> QED
    BY <2>1, <2>2, <2>3
<1>8. MoneyInv'
  BY <1>0, <1>1, <1>3, <1>4, <1>6, <1>7, QuietKeeps
<1>9. ASSUME NEW k \in Keys PROVE RepaidKnown(k)'
  <2>1. c.at \in Asking => call[a].at \in Asking /\ (c.at = "store" <=> call[a].at = "store")
    BY <1>3 DEF Asking
  <2> QED
    BY <1>0, <1>1, <1>3, <1>4, <2>1, RepaidStays
<1> QED
  BY <1>5, <1>8, <1>9 DEF SpendInv

LEMMA LookupKeeps == ASSUME SpendInv, NEW a \in Attempts, Lookup(a) PROVE SpendInv'
<1>0. /\ SpendTypeOK /\ MoneyInv /\ call \in [Attempts -> Call] /\ call[a] \in Call /\ KeyOf[a] \in Keys /\ books \in Books
      /\ ledger \subseteq Keys /\ \A k \in Keys : RepaidKnown(k)
  BY BookFacts, SpendConstants DEF SpendInv, SpendTypeOK
<1>1. CASE LookupHit(a)
  <2>1. Goto(a, "ended") /\ books' = books /\ call[a].at = "new" /\ UNCHANGED <<day, daily, cap, ledger>>
    BY <1>1 DEF Lookup
  <2> QED
    BY <1>0, <2>1, AttemptQuiet
<1>2. CASE ~LookupHit(a)
  <2>1. /\ Goto(a, "gate") /\ call[a].at = "new" /\ UNCHANGED <<day, daily, cap, ledger>>
        /\ books' = IF Unrecorded(KeyOf[a]) # {} THEN [books EXCEPT !.gap = @ \cup {KeyOf[a]}] ELSE books
    BY <1>2 DEF Lookup
  <2>2. /\ books' \in Books /\ books'.paid = books.paid /\ books'.spent = books.spent /\ books'.over = books.over
        /\ books'.top = books.top /\ books'.crossed = books.crossed /\ books.gap \subseteq books'.gap
    BY <1>0, <2>1, GapGrows
  <2>3. PICK c : c = [call[a] EXCEPT !.at = "gate"]
    OBVIOUS
  <2>4. c \in Call /\ c.at = "gate"
    BY <1>0, <2>3 DEF Call
  <2>5. call' = [call EXCEPT ![a] = c]
    BY <2>1, <2>3 DEF Goto
  <2>6. SpendTypeOK'
    BY <1>0, <2>1, <2>2, <2>4, <2>5 DEF SpendTypeOK
  <2>7. \A d \in Days : HeldBy(c, d) <= HeldBy(call[a], d) /\ OwnBy(a, c, d) <= OwnBy(a, call[a], d)
    <3>1. \A d \in Days : HeldBy(c, d) = 0 /\ HeldBy(call[a], d) = 0 /\ OwnBy(a, c, d) = 0 /\ OwnBy(a, call[a], d) = 0
      BY <2>1, <2>4 DEF HeldBy, OwnBy, Live
    <3> QED
      BY <3>1
  <2>8. c.at \notin Live
    BY <2>4 DEF Live
  <2>9. MoneyInv'
    BY <1>0, <2>1, <2>2, <2>4, <2>5, <2>7, <2>8, QuietKeeps
  <2>10. books'.gap = IF Unrecorded(KeyOf[a]) # {} THEN books.gap \cup {KeyOf[a]} ELSE books.gap
    BY <1>0, <2>1 DEF Books
  <2>11. KeyOf[a] \notin ledger
    BY <1>2 DEF LookupHit
  <2>12. \A k \in Keys : RepaidKnown(k)'
    BY <1>0, <2>1, <2>2, <2>4, <2>5, <2>10, <2>11, LookupKeepsRepaid
  <2> QED
    BY <2>6, <2>9, <2>12 DEF SpendInv
<1> QED
  BY <1>1, <1>2

LEMMA ReserveKeeps == ASSUME SpendInv, NEW a \in Attempts, Reserve(a) PROVE SpendInv'
<1>0. /\ SpendTypeOK /\ MoneyInv /\ call \in [Attempts -> Call] /\ call[a] \in Call /\ day \in Days /\ call[a].at = "gate"
      /\ \A k \in Keys : RepaidKnown(k)
      /\ (\A s \in ScopesOf(a) : Fits(Ensured(day, ScopesOf(a)), s)) /\ daily' = Charged(a) /\ UNCHANGED <<day, cap, ledger, books>>
  BY BookFacts DEF SpendInv, Reserve
<1>1. PICK c : c = [call[a] EXCEPT !.at = "reserved", !.day = day]
  OBVIOUS
<1>2. c \in Call /\ c.at = "reserved" /\ c.day = day
  BY <1>0, <1>1 DEF Call
<1>3. call' = [call EXCEPT ![a] = c]
  BY <1>0, <1>1 DEF Reserve
<1>4. daily' \in [Days -> [Scopes -> Int]]
  BY <1>0, ChargeFacts
<1>5. SpendTypeOK'
  BY <1>0, <1>2, <1>3, <1>4 DEF SpendTypeOK
<1>6. MoneyInv'
  BY <1>0, <1>2, <1>3, ChargeKeeps
<1>7. ASSUME NEW k \in Keys PROVE RepaidKnown(k)'
  <2>1. c.at \in Asking => call[a].at \in Asking /\ (c.at = "store" <=> call[a].at = "store")
    BY <1>0, <1>2 DEF Asking
  <2> QED
    BY <1>0, <1>2, <1>3, <2>1, RepaidStays
<1> QED
  BY <1>5, <1>6, <1>7 DEF SpendInv

LEMMA GateRefusesKeeps == ASSUME SpendInv, NEW a \in Attempts, GateRefuses(a) PROVE SpendInv'
<1>0. /\ SpendTypeOK /\ MoneyInv /\ call \in [Attempts -> Call] /\ call[a] \in Call /\ call[a].at = "gate" /\ Goto(a, "ended")
      /\ ledger \subseteq Keys /\ (\A k \in Keys : RepaidKnown(k)) /\ UNCHANGED <<day, cap, ledger, books>>
  BY BookFacts DEF SpendInv, GateRefuses, SpendTypeOK
<1>1. CASE UNCHANGED daily
  BY <1>0, <1>1, AttemptQuiet
<1>2. CASE (\A s \in ScopesOf(a) : Fits(Ensured(day, ScopesOf(a)), s)) /\ daily' = Charged(a)
  <2>1. PICK c : c = [call[a] EXCEPT !.at = "ended"]
    OBVIOUS
  <2>2. c \in Call /\ c.at = "ended"
    BY <1>0, <2>1 DEF Call
  <2>3. call' = [call EXCEPT ![a] = c]
    BY <1>0, <2>1 DEF Goto
  <2>4. daily' \in [Days -> [Scopes -> Int]]
    BY <1>0, <1>2, ChargeFacts
  <2>5. SpendTypeOK'
    BY <1>0, <2>2, <2>3, <2>4 DEF SpendTypeOK
  <2>6. MoneyInv'
    BY <1>0, <1>2, <2>2, <2>3, ChargeKeeps
  <2>7. ASSUME NEW k \in Keys PROVE RepaidKnown(k)'
    <3>1. c.at \notin Asking
      BY <2>2 DEF Asking
    <3> QED
      BY <1>0, <2>2, <2>3, <3>1, RepaidStays
  <2> QED
    BY <2>5, <2>6, <2>7 DEF SpendInv
<1> QED
  BY <1>1, <1>2 DEF GateRefuses

LEMMA AnswersKeepSpend == ASSUME SpendInv, NEW a \in Attempts, NEW cost \in Costs, ProviderAnswers(a, cost) PROVE SpendInv'
<1>0. /\ SpendTypeOK /\ MoneyInv /\ call \in [Attempts -> Call] /\ call[a] \in Call /\ day \in Days /\ call[a].at = "sdk" /\ cost \in Nat
      /\ books \in Books /\ Estimate \in Nat /\ KeyOf[a] \in Keys
      /\ (\A k \in Keys : RepaidKnown(k)) /\ UNCHANGED <<day, daily, cap, ledger>>
  BY BookFacts, SpendConstants DEF SpendInv, ProviderAnswers, SpendTypeOK
<1>1. PICK c : c = [call[a] EXCEPT !.at = "store", !.cost = cost]
  OBVIOUS
<1>2. c \in Call /\ c.at = "store" /\ c.cost = cost
  BY <1>0, <1>1 DEF Call
<1>3. call' = [call EXCEPT ![a] = c] /\ call'[a] = c
  BY <1>0, <1>1 DEF ProviderAnswers
<1>4. Excess(c) \in Nat
  BY <1>0, <1>2 DEF Excess
<1>5. PICK x : x = IF call[a].day = day THEN books.crossed ELSE books.crossed \cup {day}
  OBVIOUS
<1>6. books' = [books EXCEPT !.paid[KeyOf[a]] = @ + 1, !.spent[day] = @ + cost, !.over[day] = @ + Excess(c), !.crossed = x]
  BY <1>0, <1>3, <1>5 DEF ProviderAnswers, Books
<1>7. books' \in Books /\ books'.gap = books.gap /\ books'.paid = [books.paid EXCEPT ![KeyOf[a]] = @ + 1]
  <2>1. PICK p : p = [books.paid EXCEPT ![KeyOf[a]] = @ + 1]
    OBVIOUS
  <2>2. PICK m : m = [books.spent EXCEPT ![day] = @ + cost]
    OBVIOUS
  <2>3. PICK o : o = [books.over EXCEPT ![day] = @ + Excess(c)]
    OBVIOUS
  <2>4. /\ books.paid \in [Keys -> Nat] /\ books.spent \in [Days -> Nat] /\ books.over \in [Days -> Nat]
        /\ books.top \in [Days -> Nat] /\ books.gap \subseteq Keys /\ books.crossed \subseteq Days
    BY <1>0, BookFacts
  <2>5. p \in [Keys -> Nat]
    BY <1>0, <2>1, <2>4
  <2>6. m \in [Days -> Nat]
    BY <1>0, <2>2, <2>4
  <2>7. o \in [Days -> Nat]
    BY <1>0, <1>4, <2>3, <2>4
  <2>8. x \subseteq Days
    BY <1>0, <1>5, <2>4
  <2>9. books' = [books EXCEPT !.paid = p, !.spent = m, !.over = o, !.crossed = x]
    BY <1>0, <1>6, <2>1, <2>2, <2>3 DEF Books
  <2> QED
    BY ONLY <1>0, <2>1, <2>5, <2>6, <2>7, <2>8, <2>9 DEF Books
<1>8. SpendTypeOK'
  BY <1>0, <1>2, <1>3, <1>7 DEF SpendTypeOK
<1>9. MoneyInv'
  BY <1>0, PaidKeeps
<1>10. \A k \in Keys : RepaidKnown(k)'
  BY <1>0, <1>2, <1>3, <1>7, AnswerKeepsRepaid
<1> QED
  BY <1>8, <1>9, <1>10 DEF SpendInv

LEMMA AdjustKeepsAll ==
  ASSUME SpendInv, NEW a \in Attempts, Settle(a) \/ Release(a)
  PROVE  SpendInv'
<1>0. /\ SpendTypeOK /\ MoneyInv /\ call \in [Attempts -> Call] /\ call[a] \in Call /\ day \in Days /\ call[a].day \in Days
      /\ call[a].cost \in Nat /\ Estimate \in Nat /\ daily \in [Days -> [Scopes -> Int]]
      /\ books \in Books /\ (\A k \in Keys : RepaidKnown(k)) /\ UNCHANGED <<day, cap, ledger>> /\ Goto(a, "ended") /\ call[a].at \in {"settle", "release"}
  BY BookFacts, SpendConstants DEF SpendInv, Settle, Release, SpendTypeOK, Call
<1>1. PICK diff \in Int : /\ AdjustDaily(a, diff)
                          /\ call[a].at = "settle" => diff = call[a].cost - Estimate
                          /\ call[a].at = "release" => diff = - Estimate
  <2>1. CASE Settle(a)
    <3>1. call[a].cost - Estimate \in Int /\ call[a].at = "settle" /\ AdjustDaily(a, call[a].cost - Estimate)
      BY <1>0, <2>1 DEF Settle
    <3> QED
      BY <3>1
  <2>2. CASE Release(a)
    <3>1. - Estimate \in Int /\ call[a].at = "release" /\ AdjustDaily(a, - Estimate)
      BY <1>0, <2>2 DEF Release
    <3> QED
      BY <3>1
  <2> QED
    BY <2>1, <2>2
<1>2. MoneyInv'
  BY ONLY a \in Attempts, diff \in Int, <1>0, <1>1, AdjustKeeps
<1>3. PICK c : c = [call[a] EXCEPT !.at = "ended"]
  OBVIOUS
<1>4. c \in Call /\ c.at = "ended"
  BY <1>0, <1>3 DEF Call
<1>5. call' = [call EXCEPT ![a] = c]
  BY <1>0, <1>3 DEF Goto
<1>6. books' \in Books /\ books'.gap = books.gap /\ books'.paid = books.paid
  <2>1. PICK x : x = IF call[a].day = day THEN books.crossed ELSE books.crossed \cup {call[a].day, day}
    OBVIOUS
  <2>2. books' = [books EXCEPT !.crossed = x]
    BY <1>0, <1>1, <2>1 DEF AdjustDaily, Books
  <2> QED
    BY <1>0, <2>1, <2>2 DEF Books
<1>7. daily' \in [Days -> [Scopes -> Int]]
  <2>1. Adjusted(a, diff) \in [Scopes -> Int]
    BY <1>0 DEF Adjusted
  <2> QED
    BY <1>0, <1>1, <2>1 DEF AdjustDaily
<1>8. SpendTypeOK'
  BY <1>0, <1>4, <1>5, <1>6, <1>7 DEF SpendTypeOK
<1>9. ASSUME NEW k \in Keys PROVE RepaidKnown(k)'
  <2>1. c.at \notin Asking
    BY <1>4 DEF Asking
  <2> QED
    BY <1>0, <1>4, <1>5, <1>6, <2>1, RepaidStays
<1> QED
  BY <1>2, <1>8, <1>9 DEF SpendInv

LEMMA CalendarKeepsAll ==
  ASSUME SpendInv, Midnight \/ (\E k \in Keys : Prune(k)) \/ \E s \in Scopes, n \in CapChoices : SetCap(s, n)
  PROVE  SpendInv'
<1>0. /\ SpendTypeOK /\ MoneyInv /\ (\A k \in Keys : RepaidKnown(k)) /\ books \in Books /\ day \in Days /\ day \in Nat /\ cap \in [Scopes -> Nat]
      /\ books.top \in [Days -> Nat] /\ cap[Global] <= books.top[day] /\ Global \in Scopes /\ ledger \subseteq Keys /\ MaxDay \in Nat
      /\ \A d \in Days : d > day => \A s \in Scopes : daily[d][s] = Absent
  BY BookFacts, ScopesFacts, SpendConstants DEF SpendInv, SpendTypeOK, MoneyInv, RowsKnown
<1>1. CASE \E k \in Keys : Prune(k)
  <2>1. PICK k \in Keys : Prune(k)
    BY <1>1
  <2>2. /\ books' \in Books /\ books'.paid = books.paid /\ books'.spent = books.spent /\ books'.over = books.over
        /\ books'.top = books.top /\ books'.crossed = books.crossed /\ books.gap \subseteq books'.gap
    BY <1>0, <2>1, GapGrows DEF Prune
  <2>3. UNCHANGED <<day, daily, cap, call>> /\ ledger' = ledger \ {k} /\ k \in books'.gap
    BY <1>0, <2>1 DEF Prune, Books
  <2>4. SpendTypeOK'
    BY <1>0, <2>2, <2>3 DEF SpendTypeOK
  <2>5. \A d \in Days : books.top[d] <= books'.top[d]
    BY <1>0, <2>2
  <2>6. MoneyInv'
    BY <1>0, <2>2, <2>3, <2>5, CalendarKeeps
  <2>7. \A j \in Keys : RepaidKnown(j)'
    BY <1>0, <2>2, <2>3, IdleKeepsRepaid
  <2> QED
    BY <2>4, <2>6, <2>7 DEF SpendInv
<1>2. CASE \E s \in Scopes, n \in CapChoices : SetCap(s, n)
  <2>1. PICK s \in Scopes, n \in CapChoices : SetCap(s, n)
    BY <1>2
  <2>2. n \in Nat /\ cap' = [cap EXCEPT ![s] = n] /\ UNCHANGED <<day, daily, ledger, call>>
    BY <2>1, SpendConstants DEF SetCap
  <2>3. PICK t : t = IF s = Global /\ n > books.top[day] THEN n ELSE books.top[day]
    OBVIOUS
  <2>4. t \in Nat /\ books.top[day] <= t /\ (s = Global => n <= t)
    BY <1>0, <2>2, <2>3
  <2>5. books' = [books EXCEPT !.top[day] = t]
    BY <1>0, <2>1, <2>3 DEF SetCap, Books
  <2>6. /\ books' \in Books /\ books'.paid = books.paid /\ books'.spent = books.spent /\ books'.over = books.over
        /\ books'.top = [books.top EXCEPT ![day] = t] /\ books'.crossed = books.crossed /\ books'.gap = books.gap
    BY <1>0, <2>4, <2>5 DEF Books
  <2>7. SpendTypeOK'
    BY <1>0, <2>2, <2>6 DEF SpendTypeOK
  <2>8. books'.top \in [Days -> Nat] /\ \A d \in Days : books.top[d] <= books'.top[d]
    <3>1. PICK f : f = books.top /\ f \in [Days -> Nat]
      BY <1>0
    <3>2. PICK h : h = books'.top /\ h = [f EXCEPT ![day] = t]
      BY <2>6, <3>1
    <3>3. h \in [Days -> Nat] /\ \A d \in Days : f[d] <= h[d]
      <4>1. f[day] <= t /\ t \in Nat /\ day \in Days
        BY <1>0, <2>4, <3>1
      <4> QED
        BY ONLY <3>1, <3>2, <4>1
    <3> QED
      BY <3>1, <3>2, <3>3
  <2>9. cap'[Global] <= books'.top[day']
    <3>1. books'.top[day'] = t
      BY <1>0, <2>2, <2>6
    <3>2. cap'[Global] = IF s = Global THEN n ELSE cap[Global]
      BY <1>0, <2>2
    <3>3. cap[Global] \in Nat /\ books.top[day] \in Nat
      BY <1>0
    <3> QED
      BY <1>0, <2>2, <2>4, <3>1, <3>2, <3>3
  <2>10. MoneyInv'
    BY <1>0, <2>2, <2>6, <2>8, <2>9, CalendarKeeps
  <2>11. \A j \in Keys : RepaidKnown(j)'
    BY <1>0, <2>2, <2>6, IdleKeepsRepaid
  <2> QED
    BY <2>7, <2>10, <2>11 DEF SpendInv
<1>3. CASE Midnight
  <2>1. day' = day + 1 /\ day + 1 \in Days /\ UNCHANGED <<daily, cap, ledger, call>> /\ cap[Global] \in Nat
    BY <1>0, <1>3 DEF Midnight, Days
  <2>2. books' = [books EXCEPT !.top[day + 1] = cap[Global]]
    BY <1>3 DEF Midnight
  <2>3. /\ books' \in Books /\ books'.paid = books.paid /\ books'.spent = books.spent /\ books'.over = books.over
        /\ books'.top = [books.top EXCEPT ![day + 1] = cap[Global]] /\ books'.crossed = books.crossed /\ books'.gap = books.gap
    BY <1>0, <2>1, <2>2 DEF Books
  <2>4. SpendTypeOK'
    BY <1>0, <2>1, <2>3 DEF SpendTypeOK
  <2>5. books'.top \in [Days -> Nat] /\ cap'[Global] <= books'.top[day']
    BY <1>0, <2>1, <2>3
  <2>6. ASSUME NEW d \in Days PROVE books.top[d] <= books'.top[d] \/ \A s \in Scopes : daily[d][s] = Absent
    <3>1. CASE d = day + 1
      BY <1>0, <3>1
    <3>2. CASE d # day + 1
      BY <1>0, <2>3, <3>2
    <3> QED
      BY <3>1, <3>2
  <2>7. day' \in Nat /\ day <= day'
    BY <1>0, <2>1
  <2>8. MoneyInv'
    BY <1>0, <2>1, <2>3, <2>5, <2>6, <2>7, CalendarKeeps
  <2>9. \A j \in Keys : RepaidKnown(j)'
    BY <1>0, <2>1, <2>3, IdleKeepsRepaid
  <2> QED
    BY <2>4, <2>8, <2>9 DEF SpendInv
<1> QED
  BY <1>1, <1>2, <1>3

LEMMA SpendInitially == SpendInit => SpendInv
<1> SUFFICES ASSUME SpendInit PROVE SpendInv
  OBVIOUS
<1>0. /\ 1 \in Days /\ Global \in Scopes /\ cap \in [Scopes -> Nat] /\ IsFiniteSet(Attempts) /\ IsFiniteSet(Orgs) /\ day = 1
  BY SpendConstants, ScopesFacts DEF SpendInit, Days
<1>1. SpendTypeOK
  <2>1. books \in Books
    BY <1>0 DEF SpendInit, Books
  <2>2. call \in [Attempts -> Call]
    BY <1>0 DEF SpendInit, Call
  <2>3. daily \in [Days -> [Scopes -> Int]]
    BY DEF SpendInit, Absent
  <2> QED
    BY <1>0, <2>1, <2>2, <2>3 DEF SpendInit, SpendTypeOK
<1>2. RowsKnown /\ ChargesKnown
  BY <1>0 DEF SpendInit, RowsKnown, ChargesKnown, Live
<1>3. ASSUME NEW d \in Days PROVE Bounded(d) /\ Agrees(d)
  <2>1. \A s \in Scopes : RowOf(d, s) = 0
    BY DEF SpendInit, RowOf
  <2>2. Total(Held(d), Attempts) = 0
    <3>1. \A a \in Attempts : Held(d)[a] = 0
      BY DEF SpendInit, Held, HeldBy
    <3> QED
      BY <1>0, <3>1, TotalZero
  <2>3. Total(Own(d), Attempts) = 0
    <3>1. \A a \in Attempts : Own(d)[a] = 0
      BY DEF SpendInit, Own, OwnBy, Live
    <3> QED
      BY <1>0, <3>1, TotalZero
  <2>4. Total(OrgRows(d), Orgs) = 0
    <3>1. \A o \in Orgs : OrgRows(d)[o] = 0
      BY <2>1, ScopesFacts DEF OrgRows
    <3> QED
      BY <1>0, <3>1, TotalZero
  <2>5. RowOf(d, Global) = 0 /\ books.spent[d] = 0 /\ books.over[d] = 0 /\ books.top[d] \in Nat
    BY <1>0, <2>1 DEF SpendInit
  <2>6. Agrees(d)
    BY <2>3, <2>4, <2>5 DEF Agrees
  <2>7. RowOf(d, Global) <= books.top[d] + 0 /\ books.spent[d] + 0 + Total(Held(d), Attempts) <= RowOf(d, Global) + books.over[d]
    BY <2>2, <2>5
  <2>8. Bounded(d)
    BY <2>7 DEF Bounded
  <2> QED
    BY <2>6, <2>8
<1>4. \A k \in Keys : RepaidKnown(k)
  BY DEF SpendInit, RepaidKnown, Unrecorded
<1> QED
  BY <1>1, <1>2, <1>3, <1>4 DEF SpendInv, MoneyInv

LEMMA SpendNextInv == SpendInv /\ [SpendNext]_spendVars => SpendInv'
<1> SUFFICES ASSUME SpendInv, [SpendNext]_spendVars PROVE SpendInv'
  OBVIOUS
<1>0. SpendTypeOK /\ MoneyInv /\ (\A k \in Keys : RepaidKnown(k)) /\ books \in Books /\ ledger \subseteq Keys /\ KeyOf \in [Attempts -> Keys]
  BY SpendConstants DEF SpendInv, SpendTypeOK
<1>1. CASE UNCHANGED spendVars
  <2>1. UNCHANGED <<day, daily, cap, ledger, call, books>>
    BY <1>1 DEF spendVars
  <2>2. SpendTypeOK'
    BY <1>0, <2>1 DEF SpendTypeOK
  <2>3. /\ books.top \in [Days -> Nat] /\ day \in Nat /\ cap[Global] <= books.top[day]
        /\ \A d \in Days : books.top[d] <= books.top[d]
    BY <1>0, BookFacts DEF MoneyInv, RowsKnown
  <2>4. MoneyInv'
    BY <1>0, <2>1, <2>3, CalendarKeeps
  <2>5. \A k \in Keys : RepaidKnown(k)'
    BY <1>0, <2>1, IdleKeepsRepaid
  <2> QED
    BY <2>2, <2>4, <2>5 DEF SpendInv
<1>2. CASE Midnight \/ (\E k \in Keys : Prune(k)) \/ \E s \in Scopes, n \in CapChoices : SetCap(s, n)
  BY <1>2, CalendarKeepsAll
<1>3. ASSUME NEW a \in Attempts, Lookup(a) \/ Reserve(a) \/ GateRefuses(a) \/ Settle(a) \/ Release(a)
      PROVE  SpendInv'
  BY <1>3, LookupKeeps, ReserveKeeps, GateRefusesKeeps, AdjustKeepsAll
<1>4. ASSUME NEW a \in Attempts, NEW cost \in Costs, ProviderAnswers(a, cost) PROVE SpendInv'
  BY <1>4, AnswersKeepSpend
<1>5. ASSUME NEW a \in Attempts, ArchiveRequest(a) PROVE SpendInv'
  <2>1. PICK p \in {"sdk", "ended"} : Goto(a, p)
    BY <1>5 DEF ArchiveRequest
  <2>2. call[a].at = "reserved" /\ UNCHANGED <<day, daily, cap, ledger, books>>
    BY <1>5 DEF ArchiveRequest
  <2> QED
    BY <1>0, <2>1, <2>2, AttemptQuiet
<1>6. ASSUME NEW a \in Attempts, ProviderFails(a) PROVE SpendInv'
  <2>1. call[a].at = "sdk" /\ Goto(a, "release") /\ UNCHANGED <<day, daily, cap, ledger, books>>
    BY <1>6 DEF ProviderFails
  <2> QED
    BY <1>0, <2>1, AttemptQuiet
<1>7. ASSUME NEW a \in Attempts, Store(a) PROVE SpendInv'
  <2>1. /\ call[a].at = "store" /\ Goto(a, "settle") /\ UNCHANGED <<day, daily, cap, books>> /\ ledger' = ledger \cup {KeyOf[a]}
        /\ ledger' \subseteq Keys
    BY <1>0, <1>7 DEF Store, AfterStore
  <2> QED
    BY <2>1, AttemptQuiet
<1>8. ASSUME NEW a \in Attempts, StoreFails(a) PROVE SpendInv'
  <2>1. /\ call[a].at = "store" /\ Goto(a, "settle") /\ UNCHANGED <<day, daily, cap, ledger>>
        /\ books' = [books EXCEPT !.gap = @ \cup {KeyOf[a]}] /\ KeyOf[a] \in books'.gap
    BY <1>0, <1>8 DEF StoreFails, Books
  <2> QED
    BY <1>0, <2>1, AttemptQuiet
<1>9. ASSUME NEW a \in Attempts, Dies(a) PROVE SpendInv'
  <2>1. /\ Goto(a, "ended") /\ UNCHANGED <<day, daily, cap, ledger>>
        /\ books' = IF call[a].at = "store" THEN [books EXCEPT !.gap = @ \cup {KeyOf[a]}] ELSE books
    BY <1>9 DEF Dies
  <2>2. call[a].at = "store" => KeyOf[a] \in books'.gap
    BY <1>0, <2>1 DEF Books
  <2>3. books' \in {books, [books EXCEPT !.gap = @ \cup {KeyOf[a]}]}
    BY <2>1
  <2> QED
    BY <1>0, <2>1, <2>2, <2>3, AttemptQuiet
<1> QED
  BY <1>1, <1>2, <1>3, <1>4, <1>5, <1>6, <1>7, <1>8, <1>9 DEF SpendNext

(* The sum the property writes is the total of the rows as functions. *)
LEMMA SumOfRows ==
  ASSUME NEW S, NEW r, NEW z
  PROVE  MapThenSumSet(LAMBDA o : IF r[o] = z THEN 0 ELSE r[o], S) = Total([o \in S |-> IF r[o] = z THEN 0 ELSE r[o]], S)
  BY DEF MapThenSumSet, MapThenFoldSet, Total

LEMMA SpendingIsSound == SpendInv => SpendingSound
<1> SUFFICES ASSUME SpendInv PROVE SpendingSound
  OBVIOUS
<1>0. SpendTypeOK /\ MoneyInv
  BY DEF SpendInv
<1>1. SpendWithinCap
  <2> SUFFICES ASSUME NEW d \in Days \ books.crossed PROVE books.spent[d] <= books.top[d] + books.over[d]
    BY DEF SpendWithinCap
  <2>1. PICK x \in Nat : /\ RowOf(d, Global) <= books.top[d] + x
                         /\ books.spent[d] + x + Total(Held(d), Attempts) <= RowOf(d, Global) + books.over[d]
    BY <1>0 DEF MoneyInv, Bounded
  <2> QED
    BY <1>0, <2>1, Amounts
<1>2. ScopesAgree
  <2> SUFFICES ASSUME NEW d \in Days \ books.crossed
               PROVE  MapThenSumSet(LAMBDA o : IF daily[d][o] = Absent THEN 0 ELSE daily[d][o], Orgs)
                        <= (IF daily[d][Global] = Absent THEN 0 ELSE daily[d][Global])
    BY DEF ScopesAgree
  <2>1. MapThenSumSet(LAMBDA o : IF daily[d][o] = Absent THEN 0 ELSE daily[d][o], Orgs) = Total(OrgRows(d), Orgs)
    <3>1. MapThenSumSet(LAMBDA o : IF daily[d][o] = Absent THEN 0 ELSE daily[d][o], Orgs)
            = Total([o \in Orgs |-> IF daily[d][o] = Absent THEN 0 ELSE daily[d][o]], Orgs)
      BY SumOfRows
    <3>2. OrgRows(d) = [o \in Orgs |-> IF daily[d][o] = Absent THEN 0 ELSE daily[d][o]]
      BY DEF OrgRows, RowOf
    <3>3. Total([o \in Orgs |-> IF daily[d][o] = Absent THEN 0 ELSE daily[d][o]], Orgs) = Total(OrgRows(d), Orgs)
      BY <3>2
    <3> QED
      BY <3>1, <3>3
  <2>2. Total(OrgRows(d), Orgs) + Total(Own(d), Attempts) <= RowOf(d, Global)
    BY <1>0 DEF MoneyInv, Agrees
  <2>3. Total(OrgRows(d), Orgs) <= RowOf(d, Global)
    BY <1>0, <2>2, Amounts
  <2> QED
    BY <2>1, <2>3 DEF RowOf
<1>3. RepaidOnlyAfterGap
  <2> SUFFICES ASSUME NEW k \in Keys, books.paid[k] > 1, k \notin books.gap PROVE FALSE
    BY DEF RepaidOnlyAfterGap
  <2>1. books.paid[k] <= 1 /\ books.paid[k] \in Nat
    BY <1>0, BookFacts DEF SpendInv, RepaidKnown
  <2> QED
    BY <2>1
<1> QED
  BY <1>0, <1>1, <1>2, <1>3 DEF SpendingSound

-----------------------------------------------------------------------------
(* LlmConfig. What the two caches hold is current or known to be overtaken, *)
(* and a call is filed under the version it began at.                       *)

(* Where a call may be, and the rows of its state.                          *)
Clients == Providers \cup {"none"}
McallRow == [at : {"idle", "reconstruct", "rowRead", "creds", "refresh", "credRead", "use", "used", "failed"},
            fp : Nat, read : Nat, on : BOOLEAN, client : Clients, got : Nat, began : Nat, torn : BOOLEAN, stale : BOOLEAN]

ConfigTypeOK ==
  /\ instant \in Nat /\ settings \in [ver : Nat, provider : Providers, enabled : BOOLEAN, wrote : Nat]
  /\ built \in [provider : Clients, fp : Nat]
  /\ creds \in [ver : Nat, until : Nat, torn : BOOLEAN, there : BOOLEAN]
  /\ seenFp \in Nat /\ failing \in Nat /\ mcall \in [Calls -> McallRow]
  /\ settings.wrote <= instant /\ settings.ver <= MaxRotation /\ seenFp <= settings.ver

(* What is known of one call r: it was filed under the version it began at, *)
(* its client is the row's while no write overtook it, and what it was      *)
(* served is current, stale, or torn and then no older than its TTL.        *)
CallKnown(r) ==
  /\ r.began = r.fp /\ r.fp <= settings.ver
  /\ r.at = "credRead" /\ r.torn => settings.wrote = instant
  /\ r.at = "credRead" /\ ~r.torn => r.read = settings.ver
  /\ r.fp = settings.ver /\ r.at \in {"creds", "refresh", "credRead", "use"} => r.client = settings.provider
  /\ r.fp = settings.ver /\ r.at \in {"refresh", "credRead", "use"} => seenFp = settings.ver
  /\ r.fp = settings.ver /\ r.at = "use" => r.got = settings.ver \/ r.stale \/ r.torn
  /\ r.at = "use" /\ r.torn /\ ~r.stale => instant <= settings.wrote + CredTtl

(* What the two caches hold. *)
ClientKnown ==
  /\ built.fp <= settings.ver \/ built.fp = MaxRotation + 1
  /\ built.fp = settings.ver => built.provider = settings.provider

CredsKnown ==
  /\ creds.there /\ seenFp = settings.ver => creds.ver = settings.ver \/ creds.torn
  /\ creds.there /\ creds.torn => creds.until <= settings.wrote + CredTtl

ConfigInv == ConfigTypeOK /\ ClientKnown /\ CredsKnown /\ \A c \in Calls : CallKnown(mcall[c])

LEMMA ConfigConstants ==
  CredTtl \in Nat /\ HardStale \in Nat /\ MaxInstant \in Nat /\ MaxRotation \in Nat /\ MaxRotation > 0
  BY ConfigAssumption

LEMMA NoCallFits == NoCall \in McallRow
  BY DEF NoCall, McallRow, Clients

LEMMA ConfigInitially == ConfigInit => ConfigInv
<1> SUFFICES ASSUME ConfigInit PROVE ConfigInv
  OBVIOUS
<1>1. settings \in [ver : Nat, provider : Providers, enabled : BOOLEAN, wrote : Nat]
  BY ConfigAssumption DEF ConfigInit
<1>2. ConfigTypeOK
  BY <1>1, ConfigConstants, NoCallFits DEF ConfigInit, ConfigTypeOK, Never, NoClient, NoCreds, Clients
<1>3. ClientKnown
  BY ConfigConstants DEF ConfigInit, ClientKnown, NoClient
<1>4. CredsKnown
  BY DEF ConfigInit, CredsKnown, NoCreds
<1>5. \A c \in Calls : CallKnown(mcall[c])
  BY DEF ConfigInit, CallKnown, NoCall
<1> QED
  BY <1>2, <1>3, <1>4, <1>5 DEF ConfigInv

(* The step of one call that leaves the row alone. *)
LEMMA CallMoves ==
  ASSUME ConfigInv, NEW c \in Calls, NEW r \in McallRow, mcall' = [mcall EXCEPT ![c] = r],
         UNCHANGED <<instant, settings>>, failing' \in Nat,
         seenFp' \in {seenFp, settings.ver},
         built' \in [provider : Clients, fp : Nat], creds' \in [ver : Nat, until : Nat, torn : BOOLEAN, there : BOOLEAN],
         ClientKnown', CredsKnown', CallKnown(r)'
  PROVE  ConfigInv'
<1>1. ConfigTypeOK'
  BY DEF ConfigInv, ConfigTypeOK
<1>2. ASSUME NEW d \in Calls PROVE CallKnown(mcall[d])'
  <2>1. CASE d = c
    BY <2>1 DEF ConfigInv, ConfigTypeOK, CallKnown
  <2>2. CASE d # c
    <3>1. mcall'[d] = mcall[d]
      BY <2>2 DEF ConfigInv, ConfigTypeOK
    <3>2. CallKnown(mcall[d])
      BY DEF ConfigInv
    <3> QED
      BY <3>1, <3>2 DEF CallKnown
  <2> QED
    BY <2>1, <2>2
<1> QED
  BY <1>1, <1>2 DEF ConfigInv

LEMMA LaterKeeps == ConfigInv /\ Later => ConfigInv'
<1> SUFFICES ASSUME ConfigInv, Later PROVE ConfigInv'
  OBVIOUS
<1>1. ConfigTypeOK' /\ ClientKnown' /\ CredsKnown'
  BY DEF ConfigInv, Later, ConfigTypeOK, ClientKnown, CredsKnown
<1>2. \A c \in Calls : CallKnown(mcall[c])'
  BY DEF ConfigInv, ConfigTypeOK, Later, CallKnown, InRead
<1> QED
  BY <1>1, <1>2 DEF ConfigInv, Later

LEMMA PutKeeps == ConfigInv /\ PutSettings => ConfigInv'
<1> SUFFICES ASSUME ConfigInv, PutSettings PROVE ConfigInv'
  OBVIOUS
<1>1. /\ settings'.ver = settings.ver + 1 /\ settings'.wrote = instant /\ instant' = instant /\ built' = built
      /\ creds' = creds /\ seenFp' = seenFp /\ failing' = failing /\ settings.ver < MaxRotation
      /\ settings' \in [ver : Nat, provider : Providers, enabled : BOOLEAN, wrote : Nat]
  BY DEF PutSettings, ConfigInv, ConfigTypeOK
<1>2. ASSUME NEW c \in Calls PROVE mcall'[c] \in McallRow /\ CallKnown(mcall[c])'
  <2>0. CallKnown(mcall[c]) /\ mcall[c] \in McallRow
    BY DEF ConfigInv, ConfigTypeOK
  <2>1. CASE mcall[c].at = "credRead"
    <3> DEFINE r == [mcall[c] EXCEPT !.torn = TRUE]
    <3>1. mcall'[c] = r
      BY <2>1 DEF PutSettings
    <3>2. r \in McallRow /\ r.at = "credRead" /\ r.fp = mcall[c].fp /\ r.began = mcall[c].began /\ r.torn = TRUE
      BY <2>0, <2>1 DEF McallRow
    <3> HIDE DEF r
    <3>3. r.fp \in Nat /\ settings.ver \in Nat /\ r.fp # settings'.ver /\ r.fp <= settings'.ver
      BY <1>1, <2>0, <3>2 DEF McallRow, CallKnown, ConfigInv, ConfigTypeOK
    <3>4. CallKnown(mcall[c])'
      BY <1>1, <2>0, <3>1, <3>2, <3>3 DEF CallKnown
    <3> QED
      BY <3>1, <3>2, <3>4
  <2>2. CASE mcall[c].at # "credRead"
    <3>1. mcall'[c] = mcall[c]
      BY <2>2 DEF PutSettings
    <3>2. mcall[c].fp \in Nat /\ settings.ver \in Nat /\ mcall[c].fp # settings'.ver /\ mcall[c].fp <= settings'.ver
      BY <1>1, <2>0 DEF McallRow, CallKnown, ConfigInv, ConfigTypeOK
    <3>3. instant <= settings.wrote + CredTtl => instant <= settings'.wrote + CredTtl
      BY <1>1, ConfigConstants DEF ConfigInv, ConfigTypeOK
    <3> QED
      BY <1>1, <2>0, <2>2, <3>1, <3>2, <3>3 DEF CallKnown
  <2> QED
    BY <2>1, <2>2
<1>3. ConfigTypeOK'
  <2>1. mcall' \in [Calls -> McallRow]
    BY <1>2 DEF PutSettings
  <2> QED
    BY <1>1, <2>1, ConfigConstants DEF ConfigInv, ConfigTypeOK
<1>4. ClientKnown'
  BY <1>1, ConfigConstants DEF ConfigInv, ConfigTypeOK, ClientKnown
<1>5. CredsKnown'
  BY <1>1, ConfigConstants DEF ConfigInv, ConfigTypeOK, CredsKnown
<1> QED
  BY <1>2, <1>3, <1>4, <1>5 DEF ConfigInv

(* What the invariant says of the call about to move. *)
AboutCall(c) ==
         /\ mcall[c] \in McallRow /\ CallKnown(mcall[c]) /\ ClientKnown /\ CredsKnown
         /\ settings.ver \in Nat /\ settings.wrote \in Nat /\ instant \in Nat /\ seenFp \in Nat /\ failing \in Nat
         /\ settings.provider \in Providers /\ settings.ver <= MaxRotation /\ seenFp <= settings.ver
         /\ built \in [provider : Clients, fp : Nat] /\ creds \in [ver : Nat, until : Nat, torn : BOOLEAN, there : BOOLEAN]

LEMMA CallNow == ASSUME ConfigInv, NEW c \in Calls PROVE AboutCall(c)
  BY DEF ConfigInv, ConfigTypeOK, AboutCall

LEMMA ForRoleKeeps == ASSUME ConfigInv, NEW c \in Calls, ForRole(c) PROVE ConfigInv'
<1>0. AboutCall(c)
  BY CallNow
<1> USE <1>0 DEF AboutCall
<1>q. PICK q : q = [NoCall EXCEPT !.fp = settings.ver, !.began = settings.ver]
  OBVIOUS
<1>r. PICK r : r = IF built.fp = settings.ver THEN [q EXCEPT !.at = "creds", !.client = built.provider]
                                              ELSE [q EXCEPT !.at = "reconstruct"]
  OBVIOUS
<1>1. r \in McallRow /\ r.fp = settings.ver /\ r.began = settings.ver
      /\ ((r.at = "creds" /\ r.client = built.provider /\ built.fp = settings.ver) \/ r.at = "reconstruct")
  BY <1>q, <1>r, NoCallFits DEF McallRow, NoCall
<1>2. mcall' = [mcall EXCEPT ![c] = r]
  BY <1>q, <1>r DEF ForRole, Step
<1>3. CallKnown(r)' /\ ClientKnown' /\ CredsKnown'
  BY <1>1 DEF ForRole, CallKnown, ClientKnown, CredsKnown
<1> QED
  BY <1>1, <1>2, <1>3, CallMoves DEF ForRole

LEMMA ReconstructKeeps == ASSUME ConfigInv, NEW c \in Calls, Reconstruct(c) PROVE ConfigInv'
<1>0. AboutCall(c)
  BY CallNow
<1> USE <1>0 DEF AboutCall
<1>r. PICK r : r = IF built.fp = mcall[c].fp THEN [mcall[c] EXCEPT !.at = "creds", !.client = built.provider]
                                             ELSE [mcall[c] EXCEPT !.at = "rowRead"]
  OBVIOUS
<1>1. r \in McallRow /\ r.fp = mcall[c].fp /\ r.began = mcall[c].began
      /\ ((r.at = "creds" /\ r.client = built.provider /\ built.fp = r.fp) \/ r.at = "rowRead")
  BY <1>r DEF McallRow
<1>2. mcall' = [mcall EXCEPT ![c] = r]
  BY <1>r DEF Reconstruct, Step
<1>3. CallKnown(r)' /\ ClientKnown' /\ CredsKnown'
  BY <1>1 DEF Reconstruct, CallKnown, ClientKnown, CredsKnown
<1> QED
  BY <1>1, <1>2, <1>3, CallMoves DEF Reconstruct

(* A call that fails leaves nothing behind. *)
LEMMA FailsKeeps ==
  ASSUME ConfigInv, NEW c \in Calls, Fails(c), UNCHANGED <<instant, settings, built, creds, seenFp>>, failing' \in Nat
  PROVE  ConfigInv'
<1>0. AboutCall(c)
  BY CallNow
<1> USE <1>0 DEF AboutCall
<1>r. PICK r : r = [mcall[c] EXCEPT !.at = "failed"]
  OBVIOUS
<1>1. r \in McallRow /\ r.fp = mcall[c].fp /\ r.began = mcall[c].began /\ r.at = "failed"
  BY <1>r DEF McallRow
<1>2. mcall' = [mcall EXCEPT ![c] = r]
  BY <1>r DEF Fails, Step
<1>3. CallKnown(r)' /\ ClientKnown' /\ CredsKnown'
  BY <1>1 DEF CallKnown, ClientKnown, CredsKnown
<1> QED
  BY <1>1, <1>2, <1>3, CallMoves

LEMMA BuildClientKeeps == ASSUME ConfigInv, NEW c \in Calls, BuildClient(c) PROVE ConfigInv'
<1>0. AboutCall(c)
  BY CallNow
<1> USE <1>0 DEF AboutCall
<1>1. CASE Fails(c) /\ UNCHANGED built
  BY <1>1, FailsKeeps DEF BuildClient
<1>2. CASE built' = [provider |-> settings.provider, fp |-> mcall[c].fp]
           /\ Step(c, [mcall[c] EXCEPT !.at = "creds", !.client = settings.provider])
  <2>r. PICK r : r = [mcall[c] EXCEPT !.at = "creds", !.client = settings.provider]
    OBVIOUS
  <2>1. r \in McallRow /\ r.fp = mcall[c].fp /\ r.began = mcall[c].began /\ r.at = "creds" /\ r.client = settings.provider
    BY <2>r DEF McallRow, Clients
  <2>2. mcall' = [mcall EXCEPT ![c] = r]
    BY <1>2, <2>r DEF Step
  <2>3. CallKnown(r)' /\ CredsKnown'
    BY <2>1 DEF BuildClient, CallKnown, CredsKnown
  <2>4. ClientKnown' /\ built' \in [provider : Clients, fp : Nat]
    BY <1>2 DEF BuildClient, ClientKnown, CallKnown, McallRow, Clients
  <2> QED
    BY <2>1, <2>2, <2>3, <2>4, CallMoves DEF BuildClient
<1> QED
  BY <1>1, <1>2 DEF BuildClient

(* A call is served the entry e. *)
LEMMA ServedRow ==
  ASSUME ConfigInv, NEW c \in Calls, NEW e \in [ver : Nat, until : Nat, torn : BOOLEAN, there : BOOLEAN], NEW s \in BOOLEAN
  PROVE  LET r == Served(c, e, s)
         IN  /\ r \in McallRow /\ r.at = "use" /\ r.fp = mcall[c].fp /\ r.began = mcall[c].began /\ r.client = mcall[c].client
             /\ r.got = e.ver /\ r.torn = e.torn /\ r.stale = s
  BY CallNow DEF AboutCall, Served, McallRow

LEMMA CurrentKeeps == ASSUME ConfigInv, NEW c \in Calls, Current(c) PROVE ConfigInv'
<1>0. AboutCall(c)
  BY CallNow
<1> USE <1>0 DEF AboutCall
<1>e. PICK e : e = IF FingerprintMoved(settings.ver) THEN NoCreds ELSE creds
  OBVIOUS
<1>r. PICK r : r = IF CacheIsFresh(e) THEN Served(c, e, FALSE) ELSE [mcall[c] EXCEPT !.at = "refresh"]
  OBVIOUS
<1>1. e \in [ver : Nat, until : Nat, torn : BOOLEAN, there : BOOLEAN]
      /\ (e.there => e.ver = settings.ver \/ e.torn) /\ (e.there /\ e.torn => e.until <= settings.wrote + CredTtl)
      /\ creds' = e /\ seenFp' = settings.ver
  BY <1>e DEF Current, FingerprintMoved, NoCreds, CredsKnown
<1>2. mcall' = [mcall EXCEPT ![c] = r]
  BY <1>e, <1>r DEF Current, Step
<1>3. CredsKnown' /\ ClientKnown'
  BY <1>1 DEF Current, CredsKnown, ClientKnown
<1>4. r \in McallRow /\ CallKnown(r)'
  <2>1. CASE CacheIsFresh(e)
    <3>1. r = Served(c, e, FALSE)
      BY <1>r, <2>1
    <3>2. r \in McallRow /\ r.at = "use" /\ r.fp = mcall[c].fp /\ r.began = mcall[c].began /\ r.client = mcall[c].client
             /\ r.got = e.ver /\ r.torn = e.torn /\ r.stale = FALSE
      BY <1>1, <3>1 DEF Served, McallRow
    <3>3. e.torn => instant <= settings.wrote + CredTtl
      BY <1>1, <2>1, ConfigConstants DEF CacheIsFresh
    <3> QED
      BY <1>1, <2>1, <3>2, <3>3 DEF Current, CallKnown, CacheIsFresh
  <2>2. CASE ~CacheIsFresh(e)
    <3>1. r \in McallRow /\ r.fp = mcall[c].fp /\ r.began = mcall[c].began /\ r.client = mcall[c].client /\ r.at = "refresh"
      BY <1>r, <2>2 DEF McallRow
    <3> QED
      BY <1>1, <3>1 DEF Current, CallKnown
  <2> QED
    BY <2>1, <2>2
<1> QED
  BY <1>1, <1>2, <1>3, <1>4, CallMoves DEF Current

LEMMA TakeRoleLockKeeps == ASSUME ConfigInv, NEW c \in Calls, TakeRoleLock(c) PROVE ConfigInv'
<1>0. AboutCall(c)
  BY CallNow
<1> USE <1>0 DEF AboutCall
<1>r. PICK r : r = IF CacheIsFresh(creds) THEN Served(c, creds, FALSE)
                   ELSE [mcall[c] EXCEPT !.at = "credRead", !.read = settings.ver, !.on = settings.enabled, !.torn = FALSE]
  OBVIOUS
<1>1. mcall' = [mcall EXCEPT ![c] = r]
  BY <1>r DEF TakeRoleLock, Step
<1>2. CredsKnown' /\ ClientKnown'
  BY DEF TakeRoleLock, CredsKnown, ClientKnown
<1>3. r \in McallRow /\ CallKnown(r)'
  <2>1. CASE CacheIsFresh(creds)
    <3>1. r \in McallRow /\ r.at = "use" /\ r.fp = mcall[c].fp /\ r.began = mcall[c].began /\ r.client = mcall[c].client
             /\ r.got = creds.ver /\ r.torn = creds.torn /\ r.stale = FALSE
      BY <1>r, <2>1, ServedRow
    <3>2. creds.torn => instant <= settings.wrote + CredTtl
      BY <2>1, ConfigConstants DEF CacheIsFresh, CredsKnown
    <3> QED
      BY <2>1, <3>1, <3>2 DEF TakeRoleLock, CallKnown, CredsKnown, CacheIsFresh
  <2>2. CASE ~CacheIsFresh(creds)
    <3>0. settings.enabled \in BOOLEAN
      BY DEF ConfigInv, ConfigTypeOK
    <3>1. r \in McallRow /\ r.fp = mcall[c].fp /\ r.began = mcall[c].began /\ r.client = mcall[c].client /\ r.at = "credRead"
          /\ r.read = settings.ver /\ r.torn = FALSE
      BY <1>r, <2>2, <3>0 DEF McallRow
    <3> QED
      BY <3>1 DEF TakeRoleLock, CallKnown
  <2> QED
    BY <2>1, <2>2
<1> QED
  BY <1>1, <1>2, <1>3, CallMoves DEF TakeRoleLock

LEMMA RefreshKeeps == ASSUME ConfigInv, NEW c \in Calls, Refresh(c) PROVE ConfigInv'
<1>0. AboutCall(c)
  BY CallNow
<1> USE <1>0 DEF AboutCall
<1>e. PICK e : e = [ver |-> mcall[c].read, until |-> instant + CredTtl, torn |-> mcall[c].torn, there |-> TRUE]
  OBVIOUS
<1>r. PICK r : r = Served(c, e, FALSE)
  OBVIOUS
<1>1. e \in [ver : Nat, until : Nat, torn : BOOLEAN, there : BOOLEAN]
      /\ e.there = TRUE /\ e.ver = mcall[c].read /\ e.torn = mcall[c].torn /\ e.until = instant + CredTtl
  BY <1>e, ConfigConstants DEF McallRow
<1>2. creds' = e /\ mcall' = [mcall EXCEPT ![c] = r]
  BY <1>e, <1>r DEF Refresh, Step
<1>3. r \in McallRow /\ r.at = "use" /\ r.fp = mcall[c].fp /\ r.began = mcall[c].began /\ r.client = mcall[c].client
             /\ r.got = e.ver /\ r.torn = e.torn /\ r.stale = FALSE
  BY <1>1, <1>r DEF Served, McallRow
<1>4. e.torn => instant = settings.wrote
  BY <1>1 DEF Refresh, CallKnown
<1>5. e.torn \/ e.ver = settings.ver
  BY <1>1 DEF Refresh, CallKnown, McallRow
<1>6. e.torn => instant <= settings.wrote + CredTtl /\ e.until <= settings.wrote + CredTtl
  BY <1>1, <1>4, ConfigConstants
<1>7. CredsKnown' /\ ClientKnown'
  BY <1>2, <1>5, <1>6 DEF Refresh, CredsKnown, ClientKnown
<1>8. CallKnown(r)'
  BY <1>3, <1>5, <1>6 DEF Refresh, CallKnown
<1>9. failing' \in Nat
  BY ConfigConstants DEF Refresh, Never
<1> QED
  BY <1>1, <1>2, <1>3, <1>7, <1>8, <1>9, CallMoves DEF Refresh

LEMMA RefreshFailsKeeps == ASSUME ConfigInv, NEW c \in Calls, RefreshFails(c) PROVE ConfigInv'
<1>0. AboutCall(c)
  BY CallNow
<1> USE <1>0 DEF AboutCall
<1>1. failing' \in Nat
  BY DEF RefreshFails
<1>2. CASE Fails(c)
  BY <1>1, <1>2, FailsKeeps DEF RefreshFails
<1>3. CASE Step(c, Served(c, creds, TRUE))
  <2>r. PICK r : r = Served(c, creds, TRUE)
    OBVIOUS
  <2>1. r \in McallRow /\ r.at = "use" /\ r.fp = mcall[c].fp /\ r.began = mcall[c].began /\ r.client = mcall[c].client /\ r.stale = TRUE
    BY <2>r, ServedRow
  <2>2. mcall' = [mcall EXCEPT ![c] = r]
    BY <1>3, <2>r DEF Step
  <2>3. CallKnown(r)' /\ CredsKnown' /\ ClientKnown'
    BY <2>1 DEF RefreshFails, CallKnown, CredsKnown, ClientKnown
  <2> QED
    BY <1>1, <2>1, <2>2, <2>3, CallMoves DEF RefreshFails
<1> QED
  BY <1>2, <1>3 DEF RefreshFails

LEMMA InvokeKeeps == ASSUME ConfigInv, NEW c \in Calls, Invoke(c) PROVE ConfigInv'
<1>0. AboutCall(c)
  BY CallNow
<1> USE <1>0 DEF AboutCall
<1>r. PICK r : r = [mcall[c] EXCEPT !.at = "used"]
  OBVIOUS
<1>1. r \in McallRow /\ r.fp = mcall[c].fp /\ r.began = mcall[c].began /\ r.at = "used"
  BY <1>r DEF McallRow
<1>2. mcall' = [mcall EXCEPT ![c] = r]
  BY <1>r DEF Invoke, Step
<1>3. CallKnown(r)' /\ ClientKnown' /\ CredsKnown'
  BY <1>1 DEF Invoke, CallKnown, ClientKnown, CredsKnown
<1> QED
  BY <1>1, <1>2, <1>3, CallMoves DEF Invoke

LEMMA ConfigNextInv == ConfigInv /\ [ConfigNext]_configVars => ConfigInv'
<1> SUFFICES ASSUME ConfigInv, [ConfigNext]_configVars PROVE ConfigInv'
  OBVIOUS
<1>1. CASE UNCHANGED configVars
  BY <1>1 DEF configVars, ConfigInv, ConfigTypeOK, ClientKnown, CredsKnown, CallKnown
<1>2. CASE Later \/ PutSettings
  BY <1>2, LaterKeeps, PutKeeps
<1>3. ASSUME NEW c \in Calls,
             \/ ForRole(c) \/ Reconstruct(c) \/ BuildClient(c) \/ Current(c) \/ TakeRoleLock(c)
             \/ Refresh(c) \/ RefreshFails(c) \/ Invoke(c)
      PROVE  ConfigInv'
  BY <1>3, ForRoleKeeps, ReconstructKeeps, BuildClientKeeps, CurrentKeeps, TakeRoleLockKeeps, RefreshKeeps,
     RefreshFailsKeeps, InvokeKeeps
<1>4. ASSUME NEW c \in Calls, CurrentThrows(c) \/ RefreshDisabled(c) PROVE ConfigInv'
  <2>1. failing' \in Nat
    BY <1>4, CallNow DEF AboutCall, CurrentThrows, RefreshDisabled
  <2> QED
    BY <1>4, <2>1, FailsKeeps DEF CurrentThrows, RefreshDisabled
<1> QED
  BY <1>1, <1>2, <1>3, <1>4 DEF ConfigNext

LEMMA CallsAreCurrent == ConfigInv => CallUsesCurrentSettings
<1> SUFFICES ASSUME ConfigInv, NEW c \in Calls, mcall[c].at = "use", mcall[c].began = settings.ver
             PROVE  /\ mcall[c].client = settings.provider
                    /\ mcall[c].got = settings.ver \/ mcall[c].stale \/ mcall[c].torn
                    /\ mcall[c].torn /\ ~mcall[c].stale => instant <= settings.wrote + CredTtl
  BY DEF CallUsesCurrentSettings
<1> QED
  BY CallNow DEF CallKnown, AboutCall

-----------------------------------------------------------------------------
(* LlmRouting. The table the resolver serves was usable when it was read,   *)
(* and it is read again within the TTL.                                     *)

(* The clock, the history and the requests. *)
RoutingTypeOK ==
  /\ moment \in Nat /\ fetched \in Nat /\ fetched <= moment /\ pin \in ModelIds \cup {Seed}
  /\ usableTil \in [ModelIds -> Nat] /\ \A m \in ModelIds : usableTil[m] <= moment
  /\ DOMAIN edit = Editors /\ \A a \in Editors : edit[a].does # "nothing" => edit[a].id \in ModelIds
  /\ DOMAIN resolved = Resolvers

(* The history is exact for the pin in force, a read in flight holds what   *)
(* was usable when it was sent, and so does the table once it has answered. *)
HistoryExact == \A m \in ModelIds : Truly(models, pin, m) => usableTil[m] = moment

ReadKnown ==
  inflight # NoRead =>
    /\ fetched = moment
    /\ inflight.rows # Seed => inflight.rows \in ModelIds /\ usableTil[inflight.rows] = moment

TableKnown ==
  pinCache \notin {"null", Seed} =>
    /\ pinCache \in ModelIds
    /\ inflight = NoRead => fetched <= usableTil[pinCache]

AnswerKnown(r) ==
  resolved[r].at = "has" /\ resolved[r].got # Seed /\ ~resolved[r].beside =>
    resolved[r].got \in ModelIds /\ moment <= usableTil[resolved[r].got] + PinTtl

RoutingInv == RoutingTypeOK /\ HistoryExact /\ ReadKnown /\ TableKnown /\ \A r \in Resolvers : AnswerKnown(r)

LEMMA RoutingConstants == PinTtl \in Nat /\ Seed \notin ModelIds /\ "nobody" \notin Resolvers
  BY RoutingAssumption

LEMMA RoutingInitially == RoutingInit => RoutingInv
<1> SUFFICES ASSUME RoutingInit PROVE RoutingInv
  OBVIOUS
<1>1. RoutingTypeOK
  BY DEF RoutingInit, RoutingTypeOK, Asks
<1>2. HistoryExact /\ ReadKnown /\ TableKnown /\ \A r \in Resolvers : AnswerKnown(r)
  BY RoutingConstants DEF RoutingInit, HistoryExact, ReadKnown, TableKnown, AnswerKnown, Truly, NoModel
<1> QED
  BY <1>1, <1>2 DEF RoutingInv

(* Moving the history forward within a moment disturbs nothing.             *)
LEMMA TablesMove ==
  ASSUME RoutingInv, Kept, NEW ms, NEW p \in ModelIds \cup {Seed}, Writes(ms, p),
         DOMAIN edit' = Editors, \A a \in Editors : edit'[a].does # "nothing" => edit'[a].id \in ModelIds
  PROVE  RoutingInv'
<1>1. \A m \in ModelIds : /\ usableTil'[m] \in {usableTil[m], moment} /\ usableTil[m] <= usableTil'[m] /\ usableTil'[m] <= moment
                          /\ (Truly(ms, p, m) => usableTil'[m] = moment)
  BY DEF RoutingInv, RoutingTypeOK, Writes
<1>2. RoutingTypeOK'
  BY <1>1 DEF RoutingInv, RoutingTypeOK, Kept, Writes
<1>3. HistoryExact'
  BY <1>1 DEF HistoryExact, Writes, Truly, Kept
<1>4. ReadKnown'
  BY <1>1 DEF RoutingInv, RoutingTypeOK, ReadKnown, Kept
<1>5. TableKnown'
  BY <1>1 DEF RoutingInv, RoutingTypeOK, TableKnown, Kept
<1>6. ASSUME NEW r \in Resolvers PROVE AnswerKnown(r)'
  <2>1. AnswerKnown(r) /\ moment \in Nat /\ usableTil \in [ModelIds -> Nat]
    BY DEF RoutingInv, RoutingTypeOK
  <2> QED
    BY <1>1, <2>1, RoutingConstants DEF AnswerKnown, Kept
<1> QED
  BY <1>2, <1>3, <1>4, <1>5, <1>6 DEF RoutingInv

LEMMA TablesStay ==
  ASSUME RoutingInv, Kept, UNCHANGED <<models, pin, usableTil>>,
         DOMAIN edit' = Editors, \A a \in Editors : edit'[a].does # "nothing" => edit'[a].id \in ModelIds
  PROVE  RoutingInv'
<1>1. RoutingTypeOK'
  BY DEF RoutingInv, RoutingTypeOK, Kept
<1>2. HistoryExact' /\ ReadKnown' /\ TableKnown'
  BY DEF RoutingInv, HistoryExact, ReadKnown, TableKnown, Truly, Kept
<1>3. \A r \in Resolvers : AnswerKnown(r)'
  BY DEF RoutingInv, AnswerKnown, Kept
<1> QED
  BY <1>1, <1>2, <1>3 DEF RoutingInv

(* A request holds a catalog id or nothing. *)
LEMMA RequestFits ==
  ASSUME RoutingInv, NEW a \in Editors, NEW q, Request(a, q), q.does # "nothing" => q.id \in ModelIds
  PROVE  DOMAIN edit' = Editors /\ \A b \in Editors : edit'[b].does # "nothing" => edit'[b].id \in ModelIds
<1>1. DOMAIN edit' = Editors /\ \A b \in Editors : edit'[b] = IF b = a THEN q ELSE edit[b]
  BY DEF RoutingInv, RoutingTypeOK, Request
<1> QED
  BY <1>1 DEF RoutingInv, RoutingTypeOK

LEMMA EditorKeeps ==
  ASSUME RoutingInv, NEW a \in Editors,
         \/ PutModel(a) \/ UpsertModel(a) \/ TestModel(a) \/ SetValidation(a) \/ DeleteModel(a) \/ DeleteModelRow(a)
         \/ AssignPurpose(a) \/ UpsertPurpose(a) \/ DeletePurpose(a)
  PROVE  RoutingInv'
<1> DEFINE EditsFit == DOMAIN edit' = Editors /\ \A b \in Editors : edit'[b].does # "nothing" => edit'[b].id \in ModelIds
<1>0. pin \in ModelIds \cup {Seed} /\ (edit[a].does # "nothing" => edit[a].id \in ModelIds)
  BY DEF RoutingInv, RoutingTypeOK
<1>1. CASE PutModel(a)
  <2>1. PICK m \in ModelIds, k \in Makers : Request(a, [does |-> "put", id |-> m, maker |-> k])
    BY <1>1 DEF PutModel
  <2>2. EditsFit
    BY <2>1, RequestFits
  <2> QED
    BY <1>1, <2>2, TablesStay DEF PutModel
<1>2. CASE TestModel(a)
  <2>1. PICK m \in ModelIds : Request(a, [does |-> "test", id |-> m, maker |-> models[m].maker])
    BY <1>2 DEF TestModel
  <2>2. EditsFit
    BY <2>1, RequestFits
  <2> QED
    BY <1>2, <2>2, TablesStay DEF TestModel
<1>3. CASE DeleteModel(a)
  <2>1. PICK m \in ModelIds : Request(a, [does |-> "delete", id |-> m, maker |-> models[m].maker])
    BY <1>3 DEF DeleteModel
  <2>2. EditsFit
    BY <2>1, RequestFits
  <2> QED
    BY <1>3, <2>2, TablesStay DEF DeleteModel
<1>4. CASE AssignPurpose(a)
  <2>1. PICK m \in ModelIds : Request(a, [does |-> "pin", id |-> m, maker |-> "none"])
    BY <1>4 DEF AssignPurpose
  <2>2. EditsFit
    BY <2>1, RequestFits
  <2> QED
    BY <1>4, <2>2, TablesStay DEF AssignPurpose
<1>5. CASE Request(a, Asks) /\ Kept /\ \/ UNCHANGED <<models, pin, usableTil>> 
                                       \/ \E ms, p : p \in ModelIds \cup {Seed} /\ Writes(ms, p)
  <2>1. EditsFit
    BY <1>5, RequestFits DEF Asks
  <2>2. CASE UNCHANGED <<models, pin, usableTil>> 
    BY <1>5, <2>1, <2>2, TablesStay
  <2>3. CASE \E ms, p : p \in ModelIds \cup {Seed} /\ Writes(ms, p)
    <3>1. PICK ms, p : p \in ModelIds \cup {Seed} /\ Writes(ms, p)
      BY <2>3
    <3> QED
      BY <1>5, <2>1, <3>1, TablesMove
  <2> QED
    BY <1>5, <2>2, <2>3
<1>6. CASE UpsertModel(a)
  <2>1. Request(a, Asks) /\ Kept
    BY <1>6 DEF UpsertModel
  <2>2. UNCHANGED <<models, pin, usableTil>> \/ \E ms, p : p \in ModelIds \cup {Seed} /\ Writes(ms, p)
    <3>1. CASE UNCHANGED <<models, pin, usableTil>>
      BY <3>1
    <3>2. CASE ~UNCHANGED <<models, pin, usableTil>>
      <4>1. PICK on \in BOOLEAN : Writes([models EXCEPT ![edit[a].id] = [@ EXCEPT !.maker = edit[a].maker, !.enabled = on]], pin)
        BY <1>6, <3>2 DEF UpsertModel
      <4> QED
        BY <4>1, <1>0
    <3> QED
      BY <3>1, <3>2
  <2> QED
    BY <2>1, <2>2, <1>5
<1>7. CASE SetValidation(a)
  <2>1. Request(a, Asks) /\ Kept
    BY <1>7 DEF SetValidation
  <2>2. UNCHANGED <<models, pin, usableTil>> \/ \E ms, p : p \in ModelIds \cup {Seed} /\ Writes(ms, p)
    <3>1. CASE UNCHANGED <<models, pin, usableTil>>
      BY <3>1
    <3>2. CASE ~UNCHANGED <<models, pin, usableTil>>
      <4>1. PICK s \in {"ok", "failed"} : Writes([models EXCEPT ![edit[a].id].status = s], pin)
        BY <1>7, <3>2 DEF SetValidation
      <4> QED
        BY <4>1, <1>0
    <3> QED
      BY <3>1, <3>2
  <2> QED
    BY <2>1, <2>2, <1>5
<1>8. CASE DeleteModelRow(a)
  <2>1. Request(a, Asks) /\ Kept
    BY <1>8 DEF DeleteModelRow
  <2>2. UNCHANGED <<models, pin, usableTil>> \/ Writes([models EXCEPT ![edit[a].id] = NoModel], pin)
    BY <1>8 DEF DeleteModelRow
  <2> QED
    BY <2>1, <2>2, <1>5, <1>0
<1>9. CASE UpsertPurpose(a)
  <2>1. Request(a, Asks) /\ Kept /\ edit[a].id \in ModelIds
    BY <1>9, <1>0 DEF UpsertPurpose
  <2>2. UNCHANGED <<models, pin, usableTil>> \/ Writes(models, edit[a].id)
    BY <1>9 DEF UpsertPurpose
  <2> QED
    BY <2>1, <2>2, <1>5
<1>10. CASE DeletePurpose(a)
  <2>1. EditsFit
    BY <1>10 DEF DeletePurpose, RoutingInv, RoutingTypeOK
  <2>2. Kept /\ Writes(models, Seed)
    BY <1>10 DEF DeletePurpose
  <2> QED
    BY <2>1, <2>2, TablesMove
<1> QED
  BY <1>1, <1>2, <1>3, <1>4, <1>6, <1>7, <1>8, <1>9, <1>10

LEMMA ElapsesKeeps == RoutingInv /\ Elapses => RoutingInv'
<1> SUFFICES ASSUME RoutingInv, Elapses PROVE RoutingInv'
  OBVIOUS
<1>1. /\ moment' = moment + 1 /\ moment \in Nat /\ fetched \in Nat /\ fetched <= moment /\ inflight = NoRead
      /\ usableTil \in [ModelIds -> Nat] /\ \A m \in ModelIds : usableTil[m] <= moment
      /\ UNCHANGED <<models, pin, edit, pinCache, fetched, inflight, resolved>>
  BY DEF RoutingInv, RoutingTypeOK, Elapses
<1>2. \A m \in ModelIds : /\ usableTil'[m] \in {usableTil[m], moment + 1} /\ usableTil[m] <= usableTil'[m] /\ usableTil'[m] <= moment + 1
                          /\ (Truly(models, pin, m) => usableTil'[m] = moment + 1)
  BY <1>1 DEF Elapses
<1>3. RoutingTypeOK'
  BY <1>1, <1>2 DEF RoutingInv, RoutingTypeOK, Elapses
<1>4. HistoryExact'
  BY <1>1, <1>2 DEF HistoryExact, Truly
<1>5. ReadKnown' /\ TableKnown'
  BY <1>1, <1>2 DEF RoutingInv, ReadKnown, TableKnown
<1>6. \A r \in Resolvers : AnswerKnown(r)'
  BY <1>1 DEF Elapses, AnswerKnown
<1> QED
  BY <1>3, <1>4, <1>5, <1>6 DEF RoutingInv

LEMMA ResolveKeeps == ASSUME RoutingInv, NEW r \in Resolvers, Resolve(r) PROVE RoutingInv'
<1>0. /\ moment \in Nat /\ fetched \in Nat /\ fetched <= moment /\ usableTil \in [ModelIds -> Nat] /\ pin \in ModelIds \cup {Seed}
      /\ HistoryExact /\ ReadKnown /\ TableKnown /\ PinTtl \in Nat /\ DOMAIN resolved = Resolvers
      /\ \A s \in Resolvers : AnswerKnown(s)
  BY RoutingConstants DEF RoutingInv, RoutingTypeOK
<1>1. UNCHANGED <<moment, models, pin, edit, pinCache, usableTil>>
  BY DEF Resolve
<1>2. HistoryExact'
  BY <1>0, <1>1 DEF HistoryExact, Truly
<1>3. CASE TableFresh /\ resolved' = [resolved EXCEPT ![r] = [at |-> "has", got |-> pinCache, beside |-> inflight # NoRead]]
           /\ UNCHANGED <<fetched, inflight>>
  <2>1. RoutingTypeOK' /\ ReadKnown' /\ TableKnown'
    BY <1>0, <1>1, <1>3 DEF RoutingInv, RoutingTypeOK, ReadKnown, TableKnown
  <2>2. ASSUME NEW s \in Resolvers PROVE AnswerKnown(s)'
    <3>1. CASE s # r
      BY <1>0, <1>1, <1>3, <3>1 DEF AnswerKnown
    <3>2. CASE s = r
      <4>1. resolved'[r].got = pinCache /\ (resolved'[r].beside <=> inflight # NoRead) /\ pinCache # "null"
        BY <1>0, <1>3 DEF TableFresh
      <4>2. ASSUME pinCache # Seed, inflight = NoRead PROVE pinCache \in ModelIds /\ moment <= usableTil[pinCache] + PinTtl
        <5>1. pinCache \in ModelIds /\ fetched <= usableTil[pinCache]
          BY <1>0, <4>1, <4>2 DEF TableKnown
        <5>2. moment - fetched < PinTtl
          BY <1>3 DEF TableFresh
        <5>3. usableTil[pinCache] \in Nat
          BY <1>0, <5>1
        <5> QED
          BY <1>0, <5>1, <5>2, <5>3
      <4> QED
        BY <1>1, <3>2, <4>1, <4>2 DEF AnswerKnown
    <3> QED
      BY <3>1, <3>2
  <2> QED
    BY <1>2, <2>1, <2>2 DEF RoutingInv
<1>4. CASE resolved' = [resolved EXCEPT ![r].at = "waits"]
  <2>1. ASSUME NEW s \in Resolvers PROVE AnswerKnown(s)'
    <3>1. CASE s # r
      BY <1>0, <1>1, <1>4, <3>1 DEF AnswerKnown
    <3>2. CASE s = r
      <4>1. resolved'[r] = [resolved[r] EXCEPT !.at = "waits"]
        BY <1>0, <1>4
      <4>2. resolved'[r].at # "has"
        <5>1. PICK y : y = resolved[r]
          OBVIOUS
        <5>2. resolved'[r] = [y EXCEPT !.at = "waits"]
          BY <4>1, <5>1
        <5>3. resolved[r].at \in {"idle", "has"}
          BY DEF Resolve
        <5> QED
          BY <5>1, <5>2, <5>3
      <4> QED
        BY <3>2, <4>2 DEF AnswerKnown
    <3> QED
      BY <3>1, <3>2
  <2>2. RoutingTypeOK' /\ ReadKnown' /\ TableKnown'
    <3>1. CASE UNCHANGED <<fetched, inflight>>
      BY <1>0, <1>1, <1>4, <3>1 DEF RoutingInv, RoutingTypeOK, ReadKnown, TableKnown
    <3>2. CASE fetched' = moment /\ inflight' = [by |-> r, rows |-> IF pin # Seed /\ Usable(models, pin, pin) THEN pin ELSE Seed]
      <4>1. inflight' # NoRead
        BY <3>2, RoutingConstants DEF NoRead
      <4>2. inflight'.rows # Seed => inflight'.rows \in ModelIds /\ usableTil[inflight'.rows] = moment
        BY <1>0, <3>2 DEF HistoryExact, Usable, Truly
      <4>3. RoutingTypeOK'
        BY <1>0, <1>1, <1>4, <3>2 DEF RoutingInv, RoutingTypeOK
      <4>4. ReadKnown' /\ TableKnown'
        BY <1>0, <1>1, <3>2, <4>1, <4>2 DEF ReadKnown, TableKnown
      <4> QED
        BY <4>3, <4>4
    <3> QED
      BY <1>4, <1>3, <3>1, <3>2 DEF Resolve
  <2> QED
    BY <1>2, <2>1, <2>2 DEF RoutingInv
<1> QED
  BY <1>3, <1>4 DEF Resolve

LEMMA DoRefreshKeeps == RoutingInv /\ DoRefresh => RoutingInv'
<1> SUFFICES ASSUME RoutingInv, DoRefresh PROVE RoutingInv'
  OBVIOUS
<1>0. /\ moment \in Nat /\ usableTil \in [ModelIds -> Nat] /\ inflight # NoRead /\ inflight' = NoRead /\ fetched = moment
      /\ HistoryExact /\ ReadKnown /\ PinTtl \in Nat /\ \A s \in Resolvers : AnswerKnown(s)
      /\ UNCHANGED <<moment, models, pin, edit, fetched, usableTil>>
  BY RoutingConstants DEF RoutingInv, RoutingTypeOK, DoRefresh, ReadKnown
<1>1. PICK table \in {inflight.rows, AfterError} :
       /\ pinCache' = table
       /\ resolved' = [r \in Resolvers |-> IF resolved[r].at = "waits" THEN [at |-> "has", got |-> table, beside |-> FALSE] ELSE resolved[r]]
  BY DEF DoRefresh
<1>2. table # Seed => table \in ModelIds /\ usableTil[table] = moment
  BY <1>0, <1>1 DEF ReadKnown, AfterError
<1>3. RoutingTypeOK' /\ HistoryExact' /\ ReadKnown'
  BY <1>0, <1>1 DEF RoutingInv, RoutingTypeOK, HistoryExact, Truly, ReadKnown
<1>4. TableKnown'
  BY <1>0, <1>1, <1>2 DEF TableKnown
<1>5. ASSUME NEW s \in Resolvers PROVE AnswerKnown(s)'
  <2>1. CASE resolved[s].at = "waits"
    <3>1. resolved'[s].got = table
      BY <1>1, <2>1
    <3> QED
      BY <1>0, <1>2, <3>1 DEF AnswerKnown
  <2>2. CASE resolved[s].at # "waits"
    <3>1. resolved'[s] = resolved[s] /\ AnswerKnown(s)
      BY <1>0, <1>1, <2>2
    <3> QED
      BY <1>0, <3>1 DEF AnswerKnown
  <2> QED
    BY <2>1, <2>2
<1> QED
  BY <1>3, <1>4, <1>5 DEF RoutingInv

LEMMA DoneKeeps == ASSUME RoutingInv, NEW r \in Resolvers, Done(r) PROVE RoutingInv'
<1>1. RoutingTypeOK' /\ HistoryExact' /\ ReadKnown' /\ TableKnown'
  BY DEF RoutingInv, RoutingTypeOK, HistoryExact, Truly, ReadKnown, TableKnown, Done
<1>2. \A s \in Resolvers : AnswerKnown(s)'
  BY DEF RoutingInv, RoutingTypeOK, AnswerKnown, Done
<1> QED
  BY <1>1, <1>2 DEF RoutingInv

LEMMA RoutingNextInv == RoutingInv /\ [RoutingNext]_routingVars => RoutingInv'
<1> SUFFICES ASSUME RoutingInv, [RoutingNext]_routingVars PROVE RoutingInv'
  OBVIOUS
<1>1. CASE UNCHANGED routingVars
  <2>1. RoutingTypeOK' /\ HistoryExact' /\ ReadKnown' /\ TableKnown'
    BY <1>1 DEF routingVars, RoutingInv, RoutingTypeOK, HistoryExact, Truly, ReadKnown, TableKnown
  <2>2. \A s \in Resolvers : AnswerKnown(s)'
    BY <1>1 DEF routingVars, RoutingInv, AnswerKnown
  <2> QED
    BY <2>1, <2>2 DEF RoutingInv
<1>2. CASE Elapses \/ DoRefresh
  BY <1>2, ElapsesKeeps, DoRefreshKeeps
<1>3. CASE \E r \in Resolvers : Resolve(r) \/ Done(r)
  BY <1>3, ResolveKeeps, DoneKeeps
<1>4. ASSUME NEW a \in Editors,
             \/ PutModel(a) \/ UpsertModel(a) \/ TestModel(a) \/ SetValidation(a) \/ DeleteModel(a) \/ DeleteModelRow(a)
             \/ AssignPurpose(a) \/ UpsertPurpose(a) \/ DeletePurpose(a)
      PROVE  RoutingInv'
  BY <1>4, EditorKeeps
<1> QED
  BY <1>1, <1>2, <1>3, <1>4 DEF RoutingNext

LEMMA PinsWereUsable == RoutingInv => PinServedWasUsable
  BY DEF RoutingInv, AnswerKnown, PinServedWasUsable

-----------------------------------------------------------------------------
(* The services share no state: a step of the composition is a step of each  *)
(* or leaves it alone.                                                       *)
LEMMA ServicesStep ==
  [ServicesNext]_servicesVars =>
    /\ [ApprovalsNext]_approvalVars /\ [LoginNext]_loginVars /\ [SecretsNext]_secretVars
    /\ [PodNext]_podVars /\ [TransportNext]_transportVars
    /\ [SpendNext]_spendVars /\ [ConfigNext]_configVars /\ [RoutingNext]_routingVars
  BY DEF ServicesNext, servicesVars, AccessNext, accessVars, LlmNext, llmVars

(* Who may do what, of the composed services: every change in force was      *)
(* asked for by one administrator and approved by another, a password that   *)
(* was guessed at often enough is locked, and pods sign with one key.        *)
THEOREM AccessStaysSound == ServicesSpec => []AccessSound
<1>1. ServicesInit => AInv /\ LoginInv /\ SecretsInv
  BY ApprovalsInitially, LoginInitially, SecretsInitially DEF ServicesInit
<1>2. AInv /\ LoginInv /\ SecretsInv /\ [ServicesNext]_servicesVars => (AInv /\ LoginInv /\ SecretsInv)'
  BY ServicesStep, ApprovalsNextInv, LoginNextInv, SecretsNextInv
<1>3. AInv /\ LoginInv /\ SecretsInv => AccessSound
  BY SecretsAgree DEF AInv, LoginInv, AccessSound
<1> QED
  BY <1>1, <1>2, <1>3, PTL DEF ServicesSpec

(* What a process does around its work, of the composed services: a pod that *)
(* serves passed its checks and has its keys, its dead loops show in its     *)
(* readiness and its exit code, a signal takes it down in order, and its     *)
(* calls to GitHub present living tokens, never twice a refused one, and     *)
(* repeat a write only after a 5xx.                                          *)
THEOREM ProcessesStaySound == ServicesSpec => []ProcessesSound
<1>1. ServicesInit => PodInv /\ TransportInv
  BY KeysInitially, ChecksInitially, LoopsInitially, TransportInitially DEF ServicesInit, PodInv
<1>2. PodInv /\ TransportInv /\ [ServicesNext]_servicesVars => (PodInv /\ TransportInv)'
  BY ServicesStep, KeysNext, ChecksNext, LoopsNext, TransportNextInv DEF PodInv
<1>3. PodInv /\ TransportInv => ProcessesSound
  BY PodStaysSound, TransportStaysSound DEF ProcessesSound
<1> QED
  BY <1>1, <1>2, <1>3, PTL DEF ServicesSpec

(* What a model call rests on, of the composed services: no date's spending  *)
(* exceeds its largest cap by more than calls cost above their estimates,    *)
(* both totals move together, no answer the ledger knew is paid twice, the   *)
(* provider and the key are those of the settings in force, and the model    *)
(* served was pinned, enabled and tested within the cache's TTL.             *)
THEOREM LlmCallsStaySound == ServicesSpec => []LlmCallsSound
<1>1. ServicesInit => SpendInv /\ ConfigInv /\ RoutingInv
  BY SpendInitially, ConfigInitially, RoutingInitially DEF ServicesInit
<1>2. SpendInv /\ ConfigInv /\ RoutingInv /\ [ServicesNext]_servicesVars => (SpendInv /\ ConfigInv /\ RoutingInv)'
  BY ServicesStep, SpendNextInv, ConfigNextInv, RoutingNextInv
<1>3. SpendInv /\ ConfigInv /\ RoutingInv => LlmCallsSound
  BY SpendingIsSound, CallsAreCurrent, PinsWereUsable DEF LlmCallsSound
<1> QED
  BY <1>1, <1>2, <1>3, PTL DEF ServicesSpec
=============================================================================
