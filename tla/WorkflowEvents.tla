---------------------------- MODULE WorkflowEvents ----------------------------
(***************************************************************************)
(* The audit log of a run: emitWorkflowEvent numbers a run's events inside *)
(* the caller's transaction, MAX + 1 under an advisory lock that only the  *)
(* end of the transaction releases. A transaction may emit for several     *)
(* runs (a push ends one and starts another), waits for locks, and commits *)
(* or rolls back; what it inserted is invisible until it commits.          *)
(***************************************************************************)
EXTENDS Integers, FiniteSets, FiniteSetsExt

CONSTANTS
  Writers,    \* transactions
  AuditRuns,  \* runs whose events are numbered
  LockKey,    \* [AuditRuns -> keys]: runIdToLockKey, the first four bytes of the id
  MaxNo       \* bound on the events of a run

ASSUME EventsAssumption == MaxNo \in Nat

VARIABLES
  log,     \* committed events: run, number and the transaction that wrote it
  tx       \* each transaction: its uncommitted rows, the locks it holds, what it waits for

eventsVars == <<log, tx>>

NoTx    == [rows |-> {}, locks |-> {}, want |-> "none"]
Used(r) == {e.no : e \in {x \in log : x.run = r}}

(* What a statement of transaction t sees: committed rows and its own. *)
Seen(t, r) == Used(r) \cup {e.no : e \in {x \in tx[t].rows : x.run = r}}

\* Mutant: the lock goes with the statement that took it.
Held_ByStatement(t, k) == FALSE

Held(t, k) == k \in tx[t].locks

(* pg_advisory_xact_lock(namespace, key): granted when no other transaction  *)
(* holds the key; one that does is waited for.                               *)
LockEvents(t, r) ==
  /\ tx[t].want = "none"
  /\ Cardinality(Seen(t, r)) < MaxNo
  /\ \A u \in Writers \ {t} : ~ Held(u, LockKey[r])
  /\ tx' = [tx EXCEPT ![t].locks = @ \cup {LockKey[r]}, ![t].want = r]
  /\ UNCHANGED log

(* SELECT COALESCE(MAX(sequence_no), 0) + 1 *)
NextNo(t, r) == Max(Seen(t, r) \cup {0}) + 1

(* The number is read and the row inserted. *)
InsertEvent(t) ==
  LET r == tx[t].want
  IN /\ r # "none"
     /\ tx' = [tx EXCEPT ![t].rows = @ \cup {[run |-> r, no |-> NextNo(t, r), by |-> t]}, ![t].want = "none"]
     /\ UNCHANGED log

(* The unique index ends in received_at, so it refuses no number that was   *)
(* taken at another instant.                                                *)
CommitEvents(t) ==
  /\ tx[t].want = "none" /\ tx[t].rows # {}
  /\ log' = log \cup tx[t].rows
  /\ tx' = [tx EXCEPT ![t] = NoTx]

(* The caller throws, or its connection is lost. *)
RollbackEvents(t) ==
  /\ tx[t] # NoTx
  /\ tx' = [tx EXCEPT ![t] = NoTx]
  /\ UNCHANGED log

EventsInit == log = {} /\ tx = [t \in Writers |-> NoTx]

EventsNext ==
  \E t \in Writers :
    \/ \E r \in AuditRuns : LockEvents(t, r)
    \/ InsertEvent(t) \/ CommitEvents(t) \/ RollbackEvents(t)

EventsSpec == EventsInit /\ [][EventsNext]_eventsVars

-----------------------------------------------------------------------------
(* A run's committed events are numbered 1, 2, ... without a gap and no      *)
(* number twice: concurrent emitters wait for each other, and a rollback     *)
(* gives its numbers back. No index would refuse a second use of a number.   *)
NumbersHaveNoGap ==
  \A r \in AuditRuns : Used(r) = 1..Cardinality({e \in log : e.run = r})
=============================================================================
