------------------------------- MODULE Flags --------------------------------
(***************************************************************************)
(* A kill switch of core.flags and the two approvals that flip it. putFlag *)
(* selects the row and updates it by what it saw, in a READ COMMITTED      *)
(* transaction: other transactions may commit between the two statements.  *)
(***************************************************************************)
EXTENDS Naturals

CONSTANTS
  Approvers,   \* users with role platform_owner or super_admin
  FlagCalls,   \* PUT requests, each sent once
  FlagValues,  \* values asked for, other than the one in force at first
  NoValue      \* SQL NULL

ASSUME FlagsAssumption == NoValue \notin FlagValues

VARIABLES
  flag,     \* the row: value, stamp of the last change, pending value and its first approver
  put,      \* the requests: step, user, value asked for, If-Match, row seen
  overtook  \* history: the row changed between some approval's read and its update

flagVars == <<flag, put, overtook>>

NoPut == [at |-> "unsent", by |-> NoValue, ask |-> NoValue, match |-> 0, saw |-> NoValue]

FlagsInit ==
  /\ flag = [value |-> NoValue, stamp |-> 0, pending |-> NoValue, first |-> NoValue]
  /\ put = [c \in FlagCalls |-> NoPut]
  /\ overtook = FALSE

-----------------------------------------------------------------------------
(* The page the user acts on showed the row as it is now; If-Match carries  *)
(* its last_changed_at.                                                     *)
SendPut(c, u, v) ==
  /\ put[c] = NoPut
  /\ put' = [put EXCEPT ![c] = [NoPut EXCEPT !.at = "select", !.by = u, !.ask = v, !.match = flag.stamp]]
  /\ UNCHANGED <<flag, overtook>>

(* selectFlag, in the transaction *)
SelectFlag(c) ==
  /\ put[c].at = "select"
  /\ put' = [put EXCEPT ![c].at = "write", ![c].saw = flag]
  /\ UNCHANGED <<flag, overtook>>

Answered(c) == put' = [put EXCEPT ![c].at = "done"]

(* The row as it was read lacks a first approval: stage the value. Only the *)
(* stamp is compared, and staging leaves it alone.                          *)
StageFlag(c) ==
  /\ put[c].at = "write" /\ put[c].saw.first = NoValue /\ flag.stamp = put[c].match
  /\ flag' = [flag EXCEPT !.pending = put[c].ask, !.first = put[c].by]
  /\ Answered(c) /\ UNCHANGED overtook

\* Mutant: the first approver may give the second approval.
SecondApproval_Self(c) == put[c].saw.first # NoValue /\ put[c].saw.pending = put[c].ask

(* The row as it was read waits for another user's approval of this value. *)
SecondApproval(c) ==
  /\ put[c].saw.first \notin {NoValue, put[c].by}
  /\ put[c].saw.pending = put[c].ask

(* The UPDATE moves whatever is pending by now; value_json is NOT NULL. *)
CommitFlag(c) ==
  /\ put[c].at = "write" /\ SecondApproval(c) /\ flag.pending # NoValue
  /\ flag' = [value |-> flag.pending, stamp |-> flag.stamp + 1, pending |-> NoValue, first |-> NoValue]
  /\ overtook' = (overtook \/ flag # put[c].saw)
  /\ Answered(c)

(* FlagStaleWriteError, SelfSecondApproverError, or the NULL refused *)
RefusePut(c) ==
  /\ put[c].at = "write"
  /\ IF put[c].saw.first = NoValue THEN flag.stamp # put[c].match
     ELSE ~SecondApproval(c) \/ flag.pending = NoValue
  /\ Answered(c) /\ UNCHANGED <<flag, overtook>>

FlagsNext ==
  \E c \in FlagCalls :
    \/ SelectFlag(c) \/ StageFlag(c) \/ CommitFlag(c) \/ RefusePut(c)
    \/ \E u \in Approvers, v \in FlagValues : SendPut(c, u, v)

FlagsSpec == FlagsInit /\ [][FlagsNext]_flagVars

-----------------------------------------------------------------------------
(* What putFlag's header says of every flip: two persons asked for it. *)
FlagByTwo ==
  flag.value # NoValue =>
    \E c, d \in FlagCalls : put[c].ask = flag.value /\ put[d].ask = flag.value /\ put[c].by # put[d].by

(* That holds, except where an approval was overtaken between its read and  *)
(* its write.                                                               *)
FlagByTwoUnlessOvertaken == overtook \/ FlagByTwo
=============================================================================
