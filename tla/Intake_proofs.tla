---------------------------- MODULE Intake_proofs ----------------------------
(***************************************************************************)
(* Proofs about what reaches the system: the numbers of WorkflowEvents,    *)
(* the directory of Workspaces, and the deliveries and CODEOWNERS copies   *)
(* of Ingest.                                                              *)
(***************************************************************************)
EXTENDS Ingest, WorkflowEvents, Workspaces, FiniteSetTheorems, FunctionTheorems, TLAPS

-----------------------------------------------------------------------------
(* WorkflowEvents. A run's committed events are numbered 1..n, and a         *)
(* transaction that has events of the run in hand, alone because it holds    *)
(* the run's lock, numbers them from n + 1 on.                               *)

Own(t, r) == {e.no : e \in {x \in tx[t].rows : x.run = r}}

Numbered(S) == \A e, f \in S : e.run = f.run /\ e.no = f.no => e = f

EventRow == [run : AuditRuns, no : Nat, by : Writers]
TxRow    == [rows : SUBSET EventRow, locks : SUBSET {LockKey[r] : r \in AuditRuns}, want : AuditRuns \cup {"none"}]

EventsTypeOK == log \subseteq EventRow /\ tx \in [Writers -> TxRow]

LocksHeld ==
  /\ \A t \in Writers : \A e \in tx[t].rows : LockKey[e.run] \in tx[t].locks
  /\ \A t \in Writers : tx[t].want # "none" => LockKey[tx[t].want] \in tx[t].locks
  /\ \A t, u \in Writers : t # u => tx[t].locks \cap tx[u].locks = {}

CommittedDense == \A r \in AuditRuns : \E n \in Nat : Used(r) = 1..n

OwnFollow ==
  \A t \in Writers, r \in AuditRuns :
    \E n, m \in Nat : n <= m /\ Used(r) = 1..n /\ Own(t, r) = (n + 1)..m

NoneTwice == Numbered(log) /\ \A t \in Writers : Numbered(tx[t].rows)

EInv == EventsTypeOK /\ LocksHeld /\ CommittedDense /\ OwnFollow /\ NoneTwice

(* What the invariant says in terms of how many events a run has. *)
LEMMA DenseCounts == EInv => NumbersHaveNoGap
<1> SUFFICES ASSUME EInv, NEW r \in AuditRuns
             PROVE  Used(r) = 1..Cardinality({e \in log : e.run = r})
  BY DEF NumbersHaveNoGap
<1> DEFINE S == {e \in log : e.run = r}
           f == [e \in S |-> e.no]
<1>1. PICK n \in Nat : Used(r) = 1..n
  BY DEF EInv, CommittedDense
<1>2. Used(r) = {e.no : e \in S}
  BY DEF Used
<1>3. \A e, g \in S : e.no = g.no => e = g
  BY DEF EInv, NoneTwice, Numbered
<1>4. f \in Bijection(S, Used(r))
  <2>1. f \in [S -> Used(r)]
    BY <1>2
  <2>2. \A a, b \in S : f[a] = f[b] => a = b
    BY <1>3
  <2>3. \A y \in Used(r) : \E x \in S : f[x] = y
    BY <1>2
  <2> HIDE DEF f, S
  <2> QED
    BY <2>1, <2>2, <2>3 DEF Bijection, Injection, IsInjective, Surjection
<1>5. ExistsBijection(Used(r), S)
  <2> HIDE DEF f, S
  <2> QED
    BY <1>4, Fun_ExistsBijSymmetric DEF ExistsBijection
<1>6. IsFiniteSet(1..n) /\ Cardinality(1..n) = n
  BY FS_Interval
<1>7. Cardinality(S) = n
  <2> HIDE DEF f, S
  <2> QED
    BY <1>1, <1>5, <1>6, FS_Bijection
<1> QED
  BY <1>1, <1>7

LEMMA EventsInitially == EventsInit => EInv
<1> SUFFICES ASSUME EventsInit PROVE EInv
  OBVIOUS
<1>1. NoTx \in TxRow /\ NoTx.rows = {} /\ NoTx.locks = {} /\ NoTx.want = "none"
  BY DEF NoTx, TxRow
<1>2. \A t \in Writers : tx[t] = NoTx
  BY DEF EventsInit
<1>3. EventsTypeOK
  BY <1>1 DEF EventsInit, EventsTypeOK
<1>4. LocksHeld /\ NoneTwice
  BY <1>1, <1>2 DEF EventsInit, LocksHeld, NoneTwice, Numbered
<1>5. \A r \in AuditRuns : Used(r) = 1..0
  BY DEF EventsInit, Used
<1>6. \A t \in Writers, r \in AuditRuns : Own(t, r) = (0 + 1)..0
  BY <1>1, <1>2 DEF Own
<1>7. 0 \in Nat /\ 0 <= 0
  OBVIOUS
<1>8. CommittedDense
  BY <1>5, <1>7 DEF CommittedDense
<1>9. OwnFollow
  BY <1>5, <1>6, <1>7 DEF OwnFollow
<1> QED
  BY <1>3, <1>4, <1>8, <1>9 DEF EInv

LEMMA MaxOfRange ==
  ASSUME NEW m \in Nat
  PROVE  Max((1..m) \cup {0}) = m
<1> DEFINE S == (1..m) \cup {0}
<1>1. m \in S /\ \A y \in S : m >= y
  OBVIOUS
<1>2. \A x \in S : (\A y \in S : x >= y) => x = m
  OBVIOUS
<1> QED
  BY <1>1, <1>2 DEF Max

(* A transaction with rows of a run excludes the others from it. *)
LEMMA Alone ==
  ASSUME LocksHeld, NEW t \in Writers, NEW u \in Writers, t # u, NEW r \in AuditRuns,
         Own(t, r) # {}
  PROVE  Own(u, r) = {}
<1>1. LockKey[r] \in tx[t].locks
  BY DEF LocksHeld, Own
<1>2. LockKey[r] \notin tx[u].locks
  BY <1>1 DEF LocksHeld
<1> QED
  BY <1>2 DEF LocksHeld, Own

LEMMA LockKeeps ==
  ASSUME EInv, NEW t \in Writers, NEW r \in AuditRuns, LockEvents(t, r)
  PROVE  EInv'
<1> USE DEF EInv
<1>0. /\ tx' = [tx EXCEPT ![t] = tx'[t]] /\ tx'[t] = [tx[t] EXCEPT !.locks = @ \cup {LockKey[r]}, !.want = r]
      /\ log' = log /\ tx[t] \in TxRow
  BY DEF EventsTypeOK, LockEvents
<1>1. tx'[t] \in TxRow /\ tx'[t].rows = tx[t].rows /\ tx'[t].locks = tx[t].locks \cup {LockKey[r]} /\ tx'[t].want = r
  <2> DEFINE K == {LockKey[q] : q \in AuditRuns}
  <2>1. LockKey[r] \in K
    OBVIOUS
  <2> HIDE DEF K
  <2>2. tx[t] \in [rows : SUBSET EventRow, locks : SUBSET K, want : AuditRuns \cup {"none"}]
    BY <1>0 DEF TxRow, K
  <2>3. tx'[t] \in [rows : SUBSET EventRow, locks : SUBSET K, want : AuditRuns \cup {"none"}]
    <3>1. /\ tx[t].rows \in SUBSET EventRow /\ tx[t].locks \cup {LockKey[r]} \in SUBSET K
          /\ r \in AuditRuns \cup {"none"}
      BY <2>1, <2>2
    <3>2. tx'[t] = [rows |-> tx[t].rows, locks |-> tx[t].locks \cup {LockKey[r]}, want |-> r]
      BY <1>0, <2>2
    <3> QED
      BY <3>1, <3>2
  <2>4. tx'[t].rows = tx[t].rows /\ tx'[t].locks = tx[t].locks \cup {LockKey[r]} /\ tx'[t].want = r
    BY <1>0, <2>2
  <2> QED
    BY <2>3, <2>4 DEF TxRow, K
<1>2. \A u \in Writers : u # t => tx'[u] = tx[u]
  BY <1>0 DEF EventsTypeOK
<1>3. EventsTypeOK'
  BY <1>0, <1>1 DEF EventsTypeOK
<1>4. \A u \in Writers : tx'[u].rows = tx[u].rows
  BY <1>1, <1>2
<1>5. LocksHeld'
  <2>1. \A u \in Writers : \A e \in tx'[u].rows : LockKey[e.run] \in tx'[u].locks
    BY <1>1, <1>2, <1>4 DEF LocksHeld
  <2>2. \A u \in Writers : tx'[u].want # "none" => LockKey[tx'[u].want] \in tx'[u].locks
    <3>1. LockKey[tx'[t].want] \in tx'[t].locks
      BY <1>1
    <3> QED
      BY <1>2, <3>1 DEF LocksHeld
  <2>3. \A u \in Writers \ {t} : LockKey[r] \notin tx[u].locks
    BY DEF Held, LockEvents
  <2>4. \A u, v \in Writers : u # v => tx'[u].locks \cap tx'[v].locks = {}
    <3>1. \A u, v \in Writers : u # v => tx[u].locks \cap tx[v].locks = {}
      BY DEF LocksHeld
    <3>2. \A u \in Writers : u # t => tx'[u].locks = tx[u].locks
      BY <1>2
    <3>3. tx'[t].locks = tx[t].locks \cup {LockKey[r]}
      BY <1>1
    <3>4. \A v \in Writers : v # t => tx'[t].locks \cap tx'[v].locks = {}
      BY <2>3, <3>1, <3>2, <3>3
    <3>5. \A u, v \in Writers : u # v /\ u # t /\ v # t => tx'[u].locks \cap tx'[v].locks = {}
      BY <3>1, <3>2
    <3> QED
      BY <3>4, <3>5
  <2> QED
    BY <2>1, <2>2, <2>4 DEF LocksHeld
<1>6. \A q \in AuditRuns : Used(q)' = Used(q) /\ \A u \in Writers : Own(u, q)' = Own(u, q)
  BY <1>0, <1>4 DEF Used, Own
<1>7. CommittedDense' /\ OwnFollow'
  BY <1>6 DEF CommittedDense, OwnFollow
<1>8. NoneTwice'
  BY <1>0, <1>4 DEF NoneTwice, Numbered
<1> QED
  BY <1>3, <1>5, <1>7, <1>8

LEMMA InsertKeeps ==
  ASSUME EInv, NEW t \in Writers, InsertEvent(t)
  PROVE  EInv'
<1> USE DEF EInv
<1>a. PICK r \in AuditRuns : r = tx[t].want
  BY DEF InsertEvent, EventsTypeOK, TxRow
<1> DEFINE e == [run |-> r, no |-> NextNo(t, r), by |-> t]
<1>0. /\ r # "none" /\ log' = log /\ tx[t] \in TxRow
      /\ tx' = [tx EXCEPT ![t] = tx'[t]] /\ tx'[t] = [tx[t] EXCEPT !.rows = @ \cup {e}, !.want = "none"]
  BY <1>a DEF EventsTypeOK, InsertEvent
<1>1. r \in AuditRuns
  OBVIOUS
<1>2. PICK n, m \in Nat : n <= m /\ Used(r) = 1..n /\ Own(t, r) = (n + 1)..m
  BY <1>1 DEF OwnFollow
<1>3. Seen(t, r) = 1..m
  <2>1. Seen(t, r) = Used(r) \cup Own(t, r)
    BY DEF Seen, Own
  <2> QED
    BY <1>2, <2>1
<1>4. NextNo(t, r) = m + 1
  BY <1>3, MaxOfRange DEF NextNo
<1>5. e \in EventRow /\ e.run = r /\ e.no = m + 1
  BY <1>1, <1>4 DEF EventRow
<1> HIDE DEF e
<1>6. tx'[t] \in TxRow /\ tx'[t].rows = tx[t].rows \cup {e} /\ tx'[t].locks = tx[t].locks /\ tx'[t].want = "none"
  <2> DEFINE K == {LockKey[q] : q \in AuditRuns}
  <2> HIDE DEF K
  <2>2. tx[t] \in [rows : SUBSET EventRow, locks : SUBSET K, want : AuditRuns \cup {"none"}]
    BY <1>0 DEF TxRow, K
  <2>3. tx'[t] \in [rows : SUBSET EventRow, locks : SUBSET K, want : AuditRuns \cup {"none"}]
    <3>1. /\ tx[t].rows \cup {e} \in SUBSET EventRow /\ tx[t].locks \in SUBSET K
          /\ "none" \in AuditRuns \cup {"none"}
      BY <1>5, <2>2
    <3>2. tx'[t] = [rows |-> tx[t].rows \cup {e}, locks |-> tx[t].locks, want |-> "none"]
      BY <1>0, <2>2
    <3> QED
      BY <3>1, <3>2
  <2>4. tx'[t].rows = tx[t].rows \cup {e} /\ tx'[t].locks = tx[t].locks /\ tx'[t].want = "none"
    BY <1>0, <2>2
  <2> QED
    BY <2>3, <2>4 DEF TxRow, K
<1>7. \A u \in Writers : u # t => tx'[u] = tx[u]
  BY <1>0 DEF EventsTypeOK
<1>8. EventsTypeOK'
  BY <1>0, <1>6 DEF EventsTypeOK
<1>9. LocksHeld'
  <2>1. LockKey[r] \in tx[t].locks
    BY <1>0, <1>a DEF LocksHeld
  <2>2. \A u \in Writers : \A f \in tx'[u].rows : LockKey[f.run] \in tx'[u].locks
    BY <1>5, <1>6, <1>7, <2>1 DEF LocksHeld
  <2>3. \A u \in Writers : tx'[u].want # "none" => LockKey[tx'[u].want] \in tx'[u].locks
    BY <1>6, <1>7 DEF LocksHeld
  <2>4. \A u, v \in Writers : u # v => tx'[u].locks \cap tx'[v].locks = {}
    BY <1>6, <1>7 DEF LocksHeld
  <2> QED
    BY <2>2, <2>3, <2>4 DEF LocksHeld
<1>10. \A q \in AuditRuns : Used(q)' = Used(q)
  BY <1>0 DEF Used
<1>11. \A u \in Writers, q \in AuditRuns : u # t \/ q # r => Own(u, q)' = Own(u, q)
  BY <1>5, <1>6, <1>7 DEF Own
<1>12. Own(t, r)' = (n + 1)..(m + 1)
  <2>0. {x \in tx'[t].rows : x.run = r} = {x \in tx[t].rows : x.run = r} \cup {e}
    BY <1>5, <1>6
  <2>1. Own(t, r)' = Own(t, r) \cup {m + 1}
    BY <1>5, <2>0 DEF Own
  <2> QED
    BY <1>2, <2>1
<1>13. CommittedDense'
  BY <1>10 DEF CommittedDense
<1>14. OwnFollow'
  <2> SUFFICES ASSUME NEW u \in Writers, NEW q \in AuditRuns
               PROVE  \E i, j \in Nat : i <= j /\ Used(q)' = 1..i /\ Own(u, q)' = (i + 1)..j
    BY DEF OwnFollow
  <2>1. CASE u # t \/ q # r
    BY <1>10, <1>11, <2>1 DEF OwnFollow
  <2>2. CASE u = t /\ q = r
    <3>1. n \in Nat /\ m + 1 \in Nat /\ n <= m + 1
      BY <1>2
    <3>2. Used(q)' = 1..n /\ Own(u, q)' = (n + 1)..(m + 1)
      BY <1>2, <1>10, <1>12, <2>2
    <3> QED
      BY <3>1, <3>2
  <2> QED
    BY <2>1, <2>2
<1>15. NoneTwice'
  <2>1. \A f \in tx[t].rows : f.run = r => f.no # m + 1
    <3> SUFFICES ASSUME NEW f \in tx[t].rows, f.run = r PROVE f.no # m + 1
      OBVIOUS
    <3>1. f.no \in Own(t, r)
      BY DEF Own
    <3> QED
      BY <1>2, <3>1
  <2>2. Numbered(tx'[t].rows)
    BY <1>5, <1>6, <2>1 DEF NoneTwice, Numbered
  <2> QED
    BY <1>0, <1>7, <2>2 DEF NoneTwice, Numbered
<1> QED
  BY <1>8, <1>9, <1>13, <1>14, <1>15

(* A transaction that ends releases its locks and forgets its rows. *)
LEMMA EndedTx ==
  ASSUME EInv, NEW t \in Writers, tx' = [tx EXCEPT ![t] = NoTx]
  PROVE  /\ tx' \in [Writers -> TxRow] /\ LocksHeld'
         /\ \A u \in Writers : u # t => tx'[u] = tx[u]
         /\ \A q \in AuditRuns : Own(t, q)' = {}
         /\ \A u \in Writers : Numbered(tx'[u].rows)
<1>1. NoTx \in TxRow /\ NoTx.rows = {} /\ NoTx.locks = {} /\ NoTx.want = "none"
  BY DEF NoTx, TxRow
<1>2. tx'[t] = NoTx /\ \A u \in Writers : u # t => tx'[u] = tx[u]
  BY DEF EInv, EventsTypeOK
<1>3. tx' \in [Writers -> TxRow]
  BY <1>1 DEF EInv, EventsTypeOK
<1>4. LocksHeld'
  BY <1>1, <1>2 DEF EInv, LocksHeld
<1>5. \A q \in AuditRuns : Own(t, q)' = {}
  BY <1>1, <1>2 DEF Own
<1>6. \A u \in Writers : Numbered(tx'[u].rows)
  BY <1>1, <1>2 DEF EInv, NoneTwice, Numbered
<1> QED
  BY <1>2, <1>3, <1>4, <1>5, <1>6

LEMMA RollbackKeeps ==
  ASSUME EInv, NEW t \in Writers, RollbackEvents(t)
  PROVE  EInv'
<1>1. tx' = [tx EXCEPT ![t] = NoTx] /\ log' = log
  BY DEF RollbackEvents
<1>2. \A q \in AuditRuns : Used(q)' = Used(q)
  BY <1>1 DEF Used
<1>3. EventsTypeOK' /\ LocksHeld' /\ NoneTwice'
  BY <1>1, EndedTx DEF EInv, EventsTypeOK, NoneTwice
<1>4. CommittedDense'
  BY <1>2 DEF EInv, CommittedDense
<1>5. OwnFollow'
  <2> SUFFICES ASSUME NEW u \in Writers, NEW q \in AuditRuns
               PROVE  \E i, j \in Nat : i <= j /\ Used(q)' = 1..i /\ Own(u, q)' = (i + 1)..j
    BY DEF OwnFollow
  <2>1. PICK i, j \in Nat : i <= j /\ Used(q) = 1..i /\ Own(u, q) = (i + 1)..j
    BY DEF EInv, OwnFollow
  <2>2. CASE u # t
    <3>1. Own(u, q)' = Own(u, q)
      BY <1>1, <2>2, EndedTx DEF Own
    <3> QED
      BY <1>2, <2>1, <3>1
  <2>3. CASE u = t
    <3>0. (i + 1)..i = {}
      OBVIOUS
    <3>1. Own(u, q)' = (i + 1)..i
      BY <1>1, <2>3, <3>0, EndedTx
    <3> QED
      BY <1>2, <2>1, <3>1
  <2> QED
    BY <2>2, <2>3
<1> QED
  BY <1>3, <1>4, <1>5 DEF EInv

LEMMA CommitKeeps ==
  ASSUME EInv, NEW t \in Writers, CommitEvents(t)
  PROVE  EInv'
<1>1. tx' = [tx EXCEPT ![t] = NoTx] /\ log' = log \cup tx[t].rows
  BY DEF CommitEvents
<1>2. \A q \in AuditRuns : Used(q)' = Used(q) \cup Own(t, q)
  BY <1>1 DEF Used, Own
<1>3. tx[t].rows \subseteq EventRow
  BY DEF EInv, EventsTypeOK, TxRow
<1>4. EventsTypeOK'
  BY <1>1, <1>3, EndedTx DEF EInv, EventsTypeOK
<1>5. \A q \in AuditRuns : \E n, m \in Nat : /\ n <= m /\ Used(q) = 1..n /\ Own(t, q) = (n + 1)..m
                                             /\ Used(q)' = 1..m
  <2> SUFFICES ASSUME NEW q \in AuditRuns
               PROVE  \E n, m \in Nat : n <= m /\ Used(q) = 1..n /\ Own(t, q) = (n + 1)..m /\ Used(q)' = 1..m
    OBVIOUS
  <2>1. PICK n, m \in Nat : n <= m /\ Used(q) = 1..n /\ Own(t, q) = (n + 1)..m
    BY DEF EInv, OwnFollow
  <2>2. (1..n) \cup ((n + 1)..m) = 1..m
    BY <2>1
  <2>3. Used(q)' = 1..m
    BY <1>2, <2>1, <2>2
  <2> QED
    BY <2>1, <2>3
<1>6. CommittedDense'
  BY <1>5 DEF CommittedDense
<1>7. OwnFollow'
  <2> SUFFICES ASSUME NEW u \in Writers, NEW q \in AuditRuns
               PROVE  \E i, j \in Nat : i <= j /\ Used(q)' = 1..i /\ Own(u, q)' = (i + 1)..j
    BY DEF OwnFollow
  <2>1. PICK n, m \in Nat : n <= m /\ Used(q) = 1..n /\ Own(t, q) = (n + 1)..m /\ Used(q)' = 1..m
    BY <1>5
  <2>2. CASE u = t
    <3>0. (m + 1)..m = {}
      OBVIOUS
    <3>1. Own(u, q)' = (m + 1)..m
      BY <1>1, <2>2, <3>0, EndedTx
    <3> QED
      BY <2>1, <3>1
  <2>3. CASE u # t
    <3>1. Own(u, q)' = Own(u, q)
      BY <1>1, <2>3, EndedTx DEF Own
    <3>2. CASE Own(t, q) # {}
      <4>0. (m + 1)..m = {}
        OBVIOUS
      <4>1. Own(u, q)' = (m + 1)..m
        BY <2>3, <3>1, <3>2, <4>0, Alone DEF EInv
      <4> QED
        BY <2>1, <4>1
    <3>3. CASE Own(t, q) = {}
      <4>1. Used(q)' = Used(q)
        BY <1>2, <3>3
      <4> QED
        BY <3>1, <4>1 DEF EInv, OwnFollow
    <3> QED
      BY <3>2, <3>3
  <2> QED
    BY <2>2, <2>3
<1>8. NoneTwice'
  <2>1. \A e \in log : \A f \in tx[t].rows : e.run = f.run => e.no # f.no
    <3> SUFFICES ASSUME NEW e \in log, NEW f \in tx[t].rows, e.run = f.run PROVE e.no # f.no
      OBVIOUS
    <3>1. f.run \in AuditRuns /\ e.no \in Used(f.run) /\ f.no \in Own(t, f.run)
      BY <1>3 DEF EventRow, Used, Own
    <3>2. PICK n, m \in Nat : n <= m /\ Used(f.run) = 1..n /\ Own(t, f.run) = (n + 1)..m
      BY <1>5, <3>1
    <3> QED
      BY <3>1, <3>2
  <2>2. Numbered(log')
    BY <1>1, <2>1 DEF EInv, NoneTwice, Numbered
  <2> QED
    BY <1>1, <2>2, EndedTx DEF NoneTwice
<1> QED
  BY <1>1, <1>4, <1>6, <1>7, <1>8, EndedTx DEF EInv

LEMMA EventsStep == EInv /\ [EventsNext]_eventsVars => EInv'
<1> SUFFICES ASSUME EInv, [EventsNext]_eventsVars PROVE EInv'
  OBVIOUS
<1>1. CASE UNCHANGED eventsVars
  BY <1>1 DEF eventsVars, EInv, EventsTypeOK, LocksHeld, CommittedDense, OwnFollow, NoneTwice, Numbered, Used, Own
<1>2. CASE EventsNext
  BY <1>2, LockKeeps, InsertKeeps, CommitKeeps, RollbackKeeps DEF EventsNext
<1> QED
  BY <1>1, <1>2

(* A run's committed events are 1, 2, ... without a gap or a repetition, for *)
(* any number of transactions that emit for any number of runs, whatever     *)
(* runs share a lock key and whoever rolls back (emitWorkflowEvent).         *)
THEOREM NumbersStayDense == EventsSpec => []NumbersHaveNoGap
<1>1. EventsInit => EInv
  BY EventsInitially
<1>2. EInv /\ [EventsNext]_eventsVars => EInv'
  BY EventsStep
<1>3. EInv => NumbersHaveNoGap
  BY DenseCounts
<1> QED
  BY <1>1, <1>2, <1>3, PTL DEF EventsSpec

-----------------------------------------------------------------------------
(* Ingest: a delivery that started a run has a dedup row, or had one that    *)
(* has expired.                                                              *)

RunsRecorded == \A i \in 1..Len(runs) : runs[i] \in dedup \cup pruned

Actions ==
  {"created", "suspend", "unsuspend", "deleted", "added", "removed",
   "opened", "ready_for_review", "synchronize", "reopened", "closed", "merged"}

Webhooks ==
  [kind : {"installation", "installation_repositories", "pull_request"}, action : Actions, repo : Repos, draft : BOOLEAN]

IngestInv == runs \in Seq(Nat) /\ wire \in Seq(Webhooks) /\ RunsRecorded /\ OneRunPerDelivery

LEMMA SendKeeps ==
  ASSUME IngestInv, NEW kind \in {"installation", "installation_repositories", "pull_request"},
         NEW action \in Actions, NEW r \in Repos, NEW draft \in BOOLEAN, NEW g,
         Send(kind, action, r, draft, g)
  PROVE  IngestInv'
<1>1. Webhook(kind, action, r, draft) \in Webhooks
  BY DEF Webhook, Webhooks
<1>2. wire' \in Seq(Webhooks) /\ runs' = runs /\ dedup' = dedup /\ pruned' = pruned
  BY <1>1 DEF IngestInv, Send
<1> QED
  BY <1>2 DEF IngestInv, RunsRecorded, OneRunPerDelivery

LEMMA GitHubKeeps == ASSUME IngestInv, GitHubNext PROVE IngestInv'
<1>1. ASSUME NEW a \in Actions, NEW from, NEW to, InstallationMoves(a, from, to) PROVE IngestInv'
  BY <1>1, SendKeeps DEF InstallationMoves
<1>2. ASSUME NEW a \in Actions, NEW r \in Repos, RepositoryMoves(a, r) PROVE IngestInv'
  <2> DEFINE g == [github EXCEPT !.granted = IF a = "added" THEN @ \cup {r} ELSE @ \ {r}]
  <2>1. Send("installation_repositories", a, r, FALSE, g)
    BY <1>2 DEF RepositoryMoves
  <2> HIDE DEF g
  <2> QED
    BY <1>2, <2>1, SendKeeps
<1>3. ASSUME NEW a \in Actions, NEW d \in BOOLEAN, NEW r \in Repos, PrMoves(a, d, r) PROVE IngestInv'
  <2> DEFINE g == [github EXCEPT !.pr = IF a \in {"closed", "merged"} THEN a ELSE "open"]
  <2>1. Send("pull_request", a, r, d, g)
    BY <1>3 DEF PrMoves
  <2> HIDE DEF g
  <2> QED
    BY <1>3, <2>1, SendKeeps
<1>4. CASE \/ InstallationMoves("created", "none", "active") \/ InstallationMoves("suspend", "active", "suspended")
           \/ InstallationMoves("unsuspend", "suspended", "active") \/ InstallationMoves("deleted", "active", "none")
  BY <1>1, <1>4 DEF Actions
<1>5. ASSUME NEW r \in Repos, NEW a \in {"added", "removed"}, RepositoryMoves(a, r) PROVE IngestInv'
  BY <1>2, <1>5 DEF Actions
<1>6. ASSUME NEW r \in Repos, NEW a \in {"opened", "ready_for_review", "synchronize", "reopened", "closed", "merged"},
             NEW d \in BOOLEAN, PrMoves(a, d, r)
      PROVE  IngestInv'
  BY <1>3, <1>6 DEF Actions
<1>7. FALSE \in BOOLEAN
  OBVIOUS
<1> QED
  BY <1>4, <1>5, <1>6, <1>7 DEF GitHubNext

LEMMA WebhookKeeps ==
  ASSUME IngestInv, NEW n \in 1..Len(wire), PersistWebhook(n)
  PROVE  IngestInv'
<1>1. /\ n \in Nat /\ n \notin dedup /\ dedup' = dedup \cup {n} /\ pruned' = pruned /\ wire' = wire
      /\ runs' = Append(runs, n) \/ runs' = runs
  BY DEF IngestInv, PersistWebhook, Deduped
<1>2. CASE runs' = runs
  BY <1>1, <1>2 DEF IngestInv, RunsRecorded, OneRunPerDelivery
<1>3. CASE runs' = Append(runs, n)
  <2>1. /\ runs' \in Seq(Nat) /\ Len(runs') = Len(runs) + 1 /\ runs'[Len(runs) + 1] = n
        /\ \A i \in 1..Len(runs) : runs'[i] = runs[i]
    BY <1>1, <1>3 DEF IngestInv
  <2>2. RunsRecorded'
    BY <1>1, <2>1 DEF IngestInv, RunsRecorded
  <2>3. \A i \in 1..Len(runs) : runs[i] = n => n \in pruned
    BY <1>1 DEF IngestInv, RunsRecorded
  <2>4. OneRunPerDelivery'
    <3> SUFFICES ASSUME NEW i \in 1..Len(runs'), NEW j \in 1..Len(runs'), i # j, runs'[i] = runs'[j]
                 PROVE  runs'[i] \in pruned
      BY <1>1 DEF OneRunPerDelivery
    <3>1. \A k \in 1..Len(runs') : k \in 1..Len(runs) \/ k = Len(runs) + 1
      BY <2>1 DEF IngestInv
    <3>2. CASE i \in 1..Len(runs) /\ j \in 1..Len(runs)
      BY <2>1, <3>2 DEF IngestInv, OneRunPerDelivery
    <3>3. CASE i = Len(runs) + 1 /\ j \in 1..Len(runs)
      BY <2>1, <2>3, <3>3
    <3>4. CASE j = Len(runs) + 1 /\ i \in 1..Len(runs)
      BY <2>1, <2>3, <3>4
    <3> QED
      BY <3>1, <3>2, <3>3, <3>4
  <2> QED
    BY <1>1, <2>1, <2>2, <2>4 DEF IngestInv
<1> QED
  BY <1>1, <1>2, <1>3

LEMMA IngestStep == IngestInv /\ [IngestNext]_ingestVars => IngestInv'
<1> SUFFICES ASSUME IngestInv, [IngestNext]_ingestVars PROVE IngestInv'
  OBVIOUS
<1>1. ASSUME UNCHANGED <<wire, runs, dedup, pruned>> PROVE IngestInv'
  BY <1>1 DEF IngestInv, RunsRecorded, OneRunPerDelivery
<1>2. ASSUME NEW n \in 1..Len(wire), PersistMalformed(n) PROVE IngestInv'
  BY <1>2 DEF PersistMalformed, IngestInv, RunsRecorded, OneRunPerDelivery
<1>3. ASSUME NEW n \in 1..Len(wire), PruneDedup(n) PROVE IngestInv'
  BY <1>3 DEF PruneDedup, IngestInv, RunsRecorded, OneRunPerDelivery
<1>4. CASE UNCHANGED ingestVars
  BY <1>1, <1>4 DEF ingestVars
<1>5. ASSUME NEW x \in outbox, Dispatch(x) PROVE IngestInv'
  BY <1>1, <1>5 DEF Dispatch
<1>6. CASE ReconcileInstallation \/ ReconcileRepositories
  BY <1>1, <1>6 DEF ReconcileInstallation, ReconcileRepositories
<1>7. CASE HydrateLists \/ HydrateWrites \/ HydrateBlocked
  BY <1>1, <1>7 DEF HydrateLists, HydrateWrites, HydrateBlocked
<1>8. CASE DriftSweep \/ CooldownEnds \/ OperatorUnblocks
  BY <1>1, <1>8 DEF DriftSweep, CooldownEnds, OperatorUnblocks
<1>9. ASSUME NEW k \in JobKey, JobDies(k) PROVE IngestInv'
  BY <1>1, <1>9 DEF JobDies
<1> QED
  BY <1>2, <1>3, <1>4, <1>5, <1>6, <1>7, <1>8, <1>9, GitHubKeeps, WebhookKeeps DEF IngestNext

(* A delivery that GitHub repeats starts a second run only after its dedup   *)
(* row has expired, whatever is delivered in between (persistWebhook).       *)
THEOREM DeliveryStartsOnce == IngestSpec => []OneRunPerDelivery
<1>1. IngestInit => IngestInv
  BY DEF IngestInit, IngestInv, RunsRecorded, OneRunPerDelivery
<1>2. IngestInv /\ [IngestNext]_ingestVars => IngestInv'
  BY IngestStep
<1>3. IngestInv => OneRunPerDelivery
  BY DEF IngestInv
<1> QED
  BY <1>1, <1>2, <1>3, PTL DEF IngestSpec

-----------------------------------------------------------------------------
(* The copy of CODEOWNERS: unless it is known to lag behind, it is current,  *)
(* or a sync is under way that has, or will read, a file nobody has stored.  *)

SyncRow == [at : {"queued", "fetched", "done"}, got : FileVersions \cup {NoFile}]

OwnersTypeOK ==
  /\ file \in FileVersions \cup {NoFile} /\ sync \in Seq(SyncRow)
  /\ ownerRows \in Seq(FileVersions) /\ stale \in BOOLEAN

Coming ==
  /\ file # NoFile /\ \A i \in 1..Len(ownerRows) : ownerRows[i] # file
  /\ \E i \in 1..Len(sync) : sync[i].at # "done" /\ (sync[i].at = "queued" \/ sync[i].got = file)

OwnersInv == OwnersTypeOK /\ (~ stale => ListedOwners = file \/ Coming)

LEMMA PushKeeps ==
  ASSUME OwnersInv, NEW f \in FileVersions \cup {NoFile}, PushOwners(f)
  PROVE  OwnersInv'
<1> DEFINE q == [at |-> "queued", got |-> NoFile]
<1>1. q \in SyncRow /\ q.at = "queued"
  BY DEF SyncRow
<1> HIDE DEF q
<1>2. sync' = Append(sync, q) /\ file' = f /\ ownerRows' = ownerRows
  BY DEF PushOwners, q
<1>3. sync' \in Seq(SyncRow) /\ Len(sync) + 1 \in 1..Len(sync') /\ sync'[Len(sync) + 1] = q
  BY <1>1, <1>2 DEF OwnersInv, OwnersTypeOK
<1>4. stale' \in BOOLEAN
  BY DEF PushOwners
<1>5. ~ stale' => f # NoFile /\ \A i \in 1..Len(ownerRows) : ownerRows[i] # f
  BY DEF PushOwners
<1>6. ~ stale' => Coming'
  <2> SUFFICES ASSUME ~ stale' PROVE Coming'
    OBVIOUS
  <2>1. sync'[Len(sync) + 1].at = "queued"
    BY <1>1, <1>3
  <2>2. file' # NoFile /\ \A i \in 1..Len(ownerRows') : ownerRows'[i] # file'
    BY <1>2, <1>5
  <2> QED
    BY <1>3, <2>1, <2>2 DEF Coming
<1> QED
  BY <1>2, <1>3, <1>4, <1>6 DEF OwnersInv, OwnersTypeOK

LEMMA FetchKeeps ==
  ASSUME OwnersInv, NEW i \in 1..Len(sync), FetchOwners(i)
  PROVE  OwnersInv'
<1> DEFINE q == [at |-> "fetched", got |-> file]
<1>1. q \in SyncRow /\ q.at = "fetched" /\ q.got = file
  BY DEF SyncRow, OwnersInv, OwnersTypeOK
<1> HIDE DEF q
<1>2. sync' = [sync EXCEPT ![i] = q] /\ file' = file /\ ownerRows' = ownerRows /\ stale' = stale
  BY DEF FetchOwners, q
<1>3. /\ sync' \in Seq(SyncRow) /\ Len(sync') = Len(sync) /\ sync'[i] = q
      /\ \A j \in 1..Len(sync) : j # i => sync'[j] = sync[j]
  BY <1>1, <1>2 DEF OwnersInv, OwnersTypeOK
<1>4. Coming => Coming'
  BY <1>1, <1>2, <1>3 DEF Coming
<1> QED
  BY <1>2, <1>3, <1>4 DEF OwnersInv, OwnersTypeOK, ListedOwners

LEMMA SyncTyped ==
  ASSUME OwnersTypeOK, NEW i \in 1..Len(sync), sync' = [sync EXCEPT ![i].at = "done"]
  PROVE  sync' \in Seq(SyncRow)
<1>1. sync[i] \in SyncRow
  BY DEF OwnersTypeOK
<1>2. [sync[i] EXCEPT !.at = "done"] \in SyncRow
  BY <1>1 DEF SyncRow
<1> QED
  BY <1>2 DEF OwnersTypeOK

LEMMA UpsertKeeps ==
  ASSUME OwnersInv, NEW i \in 1..Len(sync), UpsertOwners(i)
  PROVE  OwnersInv'
<1> DEFINE v == sync[i].got
<1>1. sync' \in Seq(SyncRow) /\ file' = file /\ v \in FileVersions \cup {NoFile}
  <2>1. sync[i] \in SyncRow
    BY DEF OwnersInv, OwnersTypeOK
  <2> QED
    BY <2>1, SyncTyped DEF UpsertOwners, OwnersInv, SyncRow
<1>2. CASE v = NoFile \/ Conflicting(v)
  <2>1. ownerRows' = ownerRows /\ stale' = (stale \/ v # file)
    BY <1>2 DEF UpsertOwners
  <2>2. stale' \in BOOLEAN
    BY <2>1 DEF OwnersInv, OwnersTypeOK
  <2>3. ~ stale' => ~ stale /\ v = file
    BY <2>1
  <2>4. ~ stale' => ListedOwners = file
    BY <1>2, <2>3 DEF OwnersInv, Coming, Conflicting
  <2> QED
    BY <1>1, <2>1, <2>2, <2>4 DEF OwnersInv, OwnersTypeOK, ListedOwners
<1>3. CASE ~ (v = NoFile \/ Conflicting(v))
  <2>1. ownerRows' = Append(ownerRows, v) /\ stale' = (v # file)
    BY <1>3 DEF UpsertOwners
  <2>2. ownerRows' \in Seq(FileVersions) /\ ownerRows' # <<>> /\ ownerRows'[Len(ownerRows')] = v
    BY <1>1, <1>3, <2>1 DEF OwnersInv, OwnersTypeOK
  <2>3. ~ stale' => ListedOwners' = file'
    BY <1>1, <2>1, <2>2 DEF ListedOwners
  <2> QED
    BY <1>1, <2>1, <2>2, <2>3 DEF OwnersInv, OwnersTypeOK
<1> QED
  BY <1>2, <1>3

LEMMA OwnersStep == OwnersInv /\ [OwnersNext]_ownersVars => OwnersInv'
<1> SUFFICES ASSUME OwnersInv, [OwnersNext]_ownersVars PROVE OwnersInv'
  OBVIOUS
<1>1. CASE UNCHANGED ownersVars
  BY <1>1 DEF ownersVars, OwnersInv, OwnersTypeOK, Coming, ListedOwners
<1>2. ASSUME NEW i \in 1..Len(sync), SyncFails(i) PROVE OwnersInv'
  BY <1>2, SyncTyped DEF SyncFails, OwnersInv, OwnersTypeOK
<1> QED
  BY <1>1, <1>2, PushKeeps, FetchKeeps, UpsertKeeps DEF OwnersNext

(* Once the syncs are through, a copy of CODEOWNERS that no failure, no      *)
(* overtaken read and no return to an old version has made stale is the file *)
(* on the default branch, for any number of pushes and syncs in any order.   *)
THEOREM OwnersStayCurrent == OwnersSpec => []OwnersCurrentUnlessStale
<1>1. OwnersInit => OwnersInv
  <2> SUFFICES ASSUME OwnersInit PROVE OwnersInv
    OBVIOUS
  <2>1. ListedOwners = file
    BY DEF OwnersInit, ListedOwners
  <2>2. OwnersTypeOK
    <3>1. file \in FileVersions \cup {NoFile} /\ stale \in BOOLEAN
      BY DEF OwnersInit
    <3>2. sync \in Seq(SyncRow) /\ ownerRows \in Seq(FileVersions)
      BY DEF OwnersInit
    <3> QED
      BY <3>1, <3>2 DEF OwnersTypeOK
  <2> QED
    BY <2>1, <2>2 DEF OwnersInv
<1>2. OwnersInv /\ [OwnersNext]_ownersVars => OwnersInv'
  BY OwnersStep
<1>3. OwnersInv => OwnersCurrentUnlessStale
  BY DEF OwnersInv, OwnersTypeOK, OwnersCurrentUnlessStale, Coming, InFlight
<1> QED
  BY <1>1, <1>2, <1>3, PTL DEF OwnersSpec

-----------------------------------------------------------------------------
(* Workspaces. While attempts follow one another, no lease is orphaned and   *)
(* no cleanup fails, a run has one active lease, one releaser works on a     *)
(* row, and the directory is removed only while that lease is on its way     *)
(* out - when nobody works, because an attempt at work has an ALLOCATED one. *)

LeaseStates == {"none", "ALLOCATED", "RELEASE_REQUESTED", "RELEASED", "purged", "ORPHANED", "FAILED_CLEANUP"}
Steps       == {"away", "gone", "insert", "resolve", "assert", "clone", "work", "read", "request", "rm", "finish", "reap"}
Placed      == {"resolve", "assert", "clone", "work", "read", "request", "rm", "finish"}
Releasers   == {"request", "rm", "finish"}
UserRow     ==
  [at : Steps, row : Rows \cup {0}, saw : LeaseStates \ {"RELEASED", "purged"}, left : 0..2, todo : SUBSET Rows]
LeaseRow    == [state : LeaseStates, tries : Nat]

WTypeOK ==
  /\ lease \in [Rows -> LeaseRow] /\ user \in [Users -> UserRow]
  /\ heartbeats \in BOOLEAN /\ overlapped \in BOOLEAN

(* A row that is in use, or on the retention job's list, exists. *)
RowsExist ==
  \A u \in Users :
    /\ user[u].at \in Placed => user[u].row \in Rows /\ lease[user[u].row].state # "none"
    /\ \A l \in user[u].todo : lease[l].state # "none"

(* None of the exceptions WorkspaceStays makes has happened. *)
Calm == ~ overlapped /\ ~ heartbeats /\ \A l \in Rows : lease[l].tries = 0

Alive(a) == user[a].at \notin {"away", "gone"}

OneTenant == \A a, b \in Tenants : a # b => ~ Alive(a) \/ ~ Alive(b)

OneActive ==
  /\ \A l \in Rows : lease[l].state \notin {"ORPHANED", "FAILED_CLEANUP"}
  /\ \A k, l \in ActiveLeases : k = l

ReleaseUnderWay ==
  \A u \in Users : user[u].at \in {"rm", "finish"} =>
    lease[user[u].row].state = "RELEASE_REQUESTED" /\ user[u].saw = "RELEASE_REQUESTED"

OneReleaser ==
  \A u, v \in Users :
    u # v /\ user[u].at \in Releasers /\ user[v].at \in Releasers => user[u].row # user[v].row

TreeInUse ==
  \A a \in Tenants :
    /\ user[a].at \in {"clone", "work"} => lease[user[a].row].state = "ALLOCATED"
    /\ user[a].at = "work" => dir = a

JanitorOnlyReaps ==
  /\ user[Janitor].at # "request"
  /\ user[Janitor].at \in Placed => lease[user[Janitor].row].state # "ALLOCATED"
  /\ \A l \in user[Janitor].todo : lease[l].state # "ALLOCATED"

CalmInv == OneTenant /\ OneActive /\ ReleaseUnderWay /\ OneReleaser /\ TreeInUse /\ JanitorOnlyReaps

WInv == WTypeOK /\ RowsExist /\ (Calm => CalmInv)

-----------------------------------------------------------------------------
(* What a step of user u, which leaves it as x, owes to the others and to    *)
(* itself.                                                                   *)
OthersFit(u) ==
  /\ OneActive'
  /\ \A l \in Rows : lease'[l].state = "ALLOCATED" => lease[l].state \in {"ALLOCATED", "none"}
  /\ \A v \in Users \ {u} :
       /\ user[v].at \in {"rm", "finish"} => lease'[user[v].row].state = "RELEASE_REQUESTED"
       /\ v \in Tenants /\ user[v].at \in {"clone", "work"} => lease'[user[v].row].state = "ALLOCATED"
       /\ v \in Tenants /\ user[v].at = "work" => dir' = v

SelfFit(u, x) ==
  /\ \A v \in Users \ {u} : x.at \in Releasers /\ user[v].at \in Releasers => user[v].row # x.row
  /\ u \in Tenants /\ x.at \notin {"away", "gone"} => \A b \in Tenants \ {u} : ~ Alive(b)
  /\ x.at \in {"rm", "finish"} => lease'[x.row].state = "RELEASE_REQUESTED" /\ x.saw = "RELEASE_REQUESTED"
  /\ u \in Tenants /\ x.at \in {"clone", "work"} => lease'[x.row].state = "ALLOCATED"
  /\ u \in Tenants /\ x.at = "work" => dir' = u
  /\ u = Janitor => /\ x.at # "request"
                    /\ x.at \in Placed => lease'[x.row].state # "ALLOCATED"
                    /\ \A l \in x.todo : lease'[l].state # "ALLOCATED"

LEMMA StepKeeps ==
  ASSUME WInv, NEW u \in Users, NEW x \in UserRow, user' = [user EXCEPT ![u] = x],
         lease' \in [Rows -> LeaseRow], heartbeats' = heartbeats, overlapped' \in BOOLEAN, overlapped => overlapped',
         \A l \in Rows : lease[l].state # "none" => lease'[l].state # "none",
         \A l \in Rows : lease'[l].tries = 0 => lease[l].tries = 0,
         x.at \in Placed => x.row \in Rows /\ lease'[x.row].state # "none",
         \A l \in x.todo : lease'[l].state # "none",
         Calm' /\ CalmInv => OthersFit(u) /\ SelfFit(u, x)
  PROVE  WInv'
<1>1. WTypeOK'
  BY DEF WInv, WTypeOK
<1>2. user'[u] = x /\ \A v \in Users : v # u => user'[v] = user[v]
  BY DEF WInv, WTypeOK
<1>3. \A v \in Users : user[v].todo \subseteq Rows
  BY DEF WInv, WTypeOK, UserRow
<1>4. RowsExist'
  BY <1>2, <1>3 DEF WInv, RowsExist
<1>5. Calm' => CalmInv /\ OthersFit(u) /\ SelfFit(u, x)
  BY DEF WInv, Calm
<1>6. ASSUME Calm' PROVE CalmInv'
  <2>1. OneTenant'
    BY <1>2, <1>5, <1>6 DEF CalmInv, OneTenant, SelfFit, Alive, Users
  <2>2. OneActive'
    BY <1>5, <1>6 DEF OthersFit
  <2>3. ReleaseUnderWay'
    BY <1>2, <1>5, <1>6 DEF CalmInv, ReleaseUnderWay, OthersFit, SelfFit
  <2>4. OneReleaser'
    BY <1>2, <1>5, <1>6 DEF CalmInv, OneReleaser, SelfFit
  <2>5. TreeInUse'
    BY <1>2, <1>5, <1>6 DEF CalmInv, TreeInUse, OthersFit, SelfFit, Users
  <2>6. JanitorOnlyReaps'
    <3>1. CASE u = Janitor
      BY <1>2, <1>5, <1>6, <3>1 DEF JanitorOnlyReaps, SelfFit
    <3>2. CASE u # Janitor
      <4>1. user'[Janitor] = user[Janitor] /\ Janitor \in Users
        BY <1>2, <3>2 DEF Users
      <4>2. \A l \in Rows : lease[l].state \notin {"ALLOCATED", "none"} => lease'[l].state # "ALLOCATED"
        BY <1>5, <1>6 DEF OthersFit
      <4> QED
        BY <1>3, <1>5, <1>6, <4>1, <4>2 DEF CalmInv, JanitorOnlyReaps, WInv, RowsExist
    <3> QED
      BY <3>1, <3>2
  <2> QED
    BY <2>1, <2>2, <2>3, <2>4, <2>5, <2>6 DEF CalmInv
<1> QED
  BY <1>1, <1>4, <1>6 DEF WInv

(* A step that writes neither a lease nor the directory disturbs nobody. *)
LEMMA QuietFits ==
  ASSUME NEW u \in Users, CalmInv, lease' = lease, dir' = dir
  PROVE  OthersFit(u)
<1>1. OneActive'
  BY DEF CalmInv, OneActive, ActiveLeases
<1> QED
  BY <1>1 DEF CalmInv, OthersFit, ReleaseUnderWay, TreeInUse

LEMMA QuietKeeps ==
  ASSUME WInv, NEW u \in Users, NEW x \in UserRow, user' = [user EXCEPT ![u] = x],
         lease' = lease, dir' = dir, heartbeats' = heartbeats, overlapped' \in BOOLEAN, overlapped => overlapped',
         x.at \in Placed => x.row \in Rows /\ lease[x.row].state # "none",
         \A l \in x.todo : lease[l].state # "none",
         Calm' /\ CalmInv => SelfFit(u, x)
  PROVE  WInv'
<1>1. lease' \in [Rows -> LeaseRow]
  BY DEF WInv, WTypeOK
<1>2. Calm' /\ CalmInv => OthersFit(u) /\ SelfFit(u, x)
  BY QuietFits
<1> QED
  BY <1>1, <1>2, StepKeeps

-----------------------------------------------------------------------------
(* How a step changes the record of the user that takes it. *)
LEMMA GoIs ==
  ASSUME WTypeOK, NEW u \in Users, NEW s \in Steps, Go(u, s)
  PROVE  \E x \in UserRow : /\ user' = [user EXCEPT ![u] = x] /\ x.at = s
                            /\ x.row = user[u].row /\ x.saw = user[u].saw /\ x.todo = user[u].todo
<1> DEFINE x == [user[u] EXCEPT !.at = s]
<1>1. user[u] \in UserRow
  BY DEF WTypeOK
<1>2. x \in UserRow /\ x.at = s /\ x.row = user[u].row /\ x.saw = user[u].saw /\ x.todo = user[u].todo
  BY <1>1 DEF UserRow
<1>3. user' = [user EXCEPT ![u] = x]
  BY DEF Go
<1> QED
  BY <1>2, <1>3

LEMMA AwayIs == /\ Away \in UserRow /\ Away.at = "away" /\ Away.todo = {}
                /\ Departed \in UserRow /\ Departed.at = "gone" /\ Departed.todo = {}
BY DEF Away, Departed, UserRow, Steps, LeaseStates

LEMMA EndedIs ==
  ASSUME WTypeOK, NEW u \in Users, user' = Ended(u)
  PROVE  \E x \in UserRow : /\ user' = [user EXCEPT ![u] = x] /\ x.todo \subseteq user[u].todo
                            /\ x.at = "reap" \/ (u # Janitor /\ x.at = "gone")
                                 \/ (u # Janitor /\ x.at = "read" /\ x.row = user[u].row)
<1>1. user[u] \in UserRow
  BY DEF WTypeOK
<1>2. CASE u = Janitor
  <2> DEFINE x == [Away EXCEPT !.at = "reap", !.todo = user[u].todo]
  <2>1. x \in UserRow /\ x.at = "reap" /\ x.todo = user[u].todo
    <3>1. user[u].todo \in SUBSET Rows
      BY <1>1 DEF UserRow
    <3> QED
      BY <3>1, AwayIs DEF UserRow, Steps
  <2>2. user' = [user EXCEPT ![u] = x]
    BY <1>2 DEF Ended
  <2> QED
    BY <2>1, <2>2
<1>3. CASE u # Janitor /\ user[u].left > 1
  <2> DEFINE x == [user[u] EXCEPT !.at = "read", !.saw = "none", !.left = @ - 1]
  <2>1. user[u].left \in Int /\ user[u].left - 1 \in 0..2
    BY <1>1, <1>3 DEF UserRow
  <2>2. x \in UserRow /\ x.at = "read" /\ x.row = user[u].row /\ x.todo = user[u].todo
    BY <1>1, <2>1 DEF UserRow, Steps, LeaseStates
  <2>3. user' = [user EXCEPT ![u] = x]
    BY <1>3, <2>1 DEF Ended
  <2> QED
    BY <1>3, <2>2, <2>3
<1>4. CASE u # Janitor /\ ~ (user[u].left > 1)
  <2>1. user' = [user EXCEPT ![u] = Departed]
    BY <1>4 DEF Ended
  <2> QED
    BY <1>4, <2>1, AwayIs
<1> QED
  BY <1>2, <1>3, <1>4

LEMMA EndKeeps ==
  ASSUME WInv, NEW u \in Users, user[u].at \in Placed, user' = Ended(u),
         lease' \in [Rows -> LeaseRow], heartbeats' = heartbeats, overlapped' \in BOOLEAN, overlapped => overlapped',
         \A l \in Rows : lease[l].state # "none" => lease'[l].state # "none",
         \A l \in Rows : lease'[l].tries = 0 => lease[l].tries = 0,
         Calm' /\ CalmInv => OthersFit(u)
  PROVE  WInv'
<1>0. WTypeOK /\ RowsExist
  BY DEF WInv
<1>1. PICK x \in UserRow : /\ user' = [user EXCEPT ![u] = x] /\ x.todo \subseteq user[u].todo
                           /\ x.at = "reap" \/ (u # Janitor /\ x.at = "gone")
                                 \/ (u # Janitor /\ x.at = "read" /\ x.row = user[u].row)
  BY <1>0, EndedIs
<1>2. x.at \in Placed => x.row \in Rows /\ lease'[x.row].state # "none"
  BY <1>0, <1>1 DEF RowsExist, Placed
<1>3. user[u].todo \subseteq Rows /\ \A l \in x.todo : lease[l].state # "none"
  BY <1>0, <1>1 DEF RowsExist, WTypeOK, UserRow
<1>4. \A l \in x.todo : lease'[l].state # "none"
  BY <1>1, <1>3
<1>5. ASSUME Calm', CalmInv PROVE SelfFit(u, x)
  <2>1. OthersFit(u)
    BY <1>5
  <2>2. u \in Tenants => \A b \in Tenants \ {u} : ~ Alive(b)
    BY <1>5 DEF CalmInv, OneTenant, Alive, Placed
  <2>3. u = Janitor => x.at = "reap" /\ \A l \in x.todo : lease'[l].state # "ALLOCATED"
    BY <1>1, <1>3, <1>5, <2>1 DEF OthersFit, CalmInv, JanitorOnlyReaps
  <2> QED
    BY <1>1, <2>2, <2>3 DEF SelfFit, Placed, Releasers
<1> QED
  BY <1>1, <1>2, <1>4, <1>5, StepKeeps

-----------------------------------------------------------------------------
(* The attempt's steps. *)
LEMMA MkdirKeeps ==
  ASSUME WInv, NEW a \in Tenants, Mkdir(a)
  PROVE  WInv'
<1> DEFINE x == [Away EXCEPT !.at = "insert", !.left = 2]
<1>0. a \in Users /\ WTypeOK /\ RowsExist
  BY DEF Users, WInv
<1>1. x \in UserRow /\ x.at = "insert" /\ x.todo = {}
  <2>1. 2 \in 0..2 /\ "insert" \in Steps
    BY DEF Steps
  <2>2. x \in UserRow
    BY <2>1, AwayIs DEF UserRow
  <2>3. x.at = "insert" /\ x.todo = Away.todo
    BY DEF Away
  <2> QED
    BY <2>2, <2>3, AwayIs
<1>2. user' = [user EXCEPT ![a] = x] /\ lease' = lease /\ heartbeats' = heartbeats
  BY DEF Mkdir
<1> HIDE DEF x
<1>3. overlapped' \in BOOLEAN /\ (overlapped => overlapped')
  BY <1>0 DEF Mkdir, WTypeOK
<1>4. ASSUME Calm', CalmInv PROVE OthersFit(a) /\ SelfFit(a, x)
  <2>1. \A b \in Tenants \ {a} : ~ Alive(b)
    BY <1>4 DEF Mkdir, Calm, Alive
  <2>2. OneActive'
    BY <1>2, <1>4 DEF CalmInv, OneActive, ActiveLeases
  <2>3. OthersFit(a)
    BY <1>2, <1>4, <2>1, <2>2 DEF OthersFit, CalmInv, ReleaseUnderWay, Alive
  <2>4. a # Janitor
    BY WorkspacesAssumption
  <2> QED
    BY <1>1, <2>1, <2>3, <2>4 DEF SelfFit, Releasers, Placed
<1>5. lease' \in [Rows -> LeaseRow]
  BY <1>0, <1>2 DEF WTypeOK
<1> QED
  BY <1>0, <1>1, <1>2, <1>3, <1>4, <1>5, StepKeeps DEF Placed

(* A step of an attempt that only moves it on. *)
LEMMA TenantKeeps ==
  ASSUME WInv, NEW a \in Tenants, NEW x \in UserRow, user' = [user EXCEPT ![a] = x],
         user[a].at \notin {"away", "gone"}, lease' = lease, dir' = dir, UNCHANGED <<heartbeats, overlapped>>,
         x.at \notin Releasers, x.at # "work", x.todo \subseteq user[a].todo,
         x.at \in Placed => x.row \in Rows /\ lease[x.row].state # "none",
         x.at = "clone" => lease[x.row].state = "ALLOCATED"
  PROVE  WInv'
<1>0. a \in Users /\ WTypeOK /\ RowsExist /\ a # Janitor
  BY WorkspacesAssumption DEF Users, WInv
<1>1. overlapped' \in BOOLEAN /\ (overlapped => overlapped')
  BY <1>0 DEF WTypeOK
<1>2. \A l \in x.todo : lease[l].state # "none"
  BY <1>0 DEF RowsExist
<1>3. ASSUME CalmInv PROVE SelfFit(a, x)
  <2>1. \A b \in Tenants \ {a} : ~ Alive(b)
    BY <1>3 DEF CalmInv, OneTenant, Alive
  <2> QED
    BY <1>0, <2>1 DEF SelfFit, Releasers
<1> QED
  BY <1>0, <1>1, <1>2, <1>3, QuietKeeps

LEMMA ResolveKeeps ==
  ASSUME WInv, NEW a \in Tenants, ResolvePath(a) \/ AssertLease(a) \/ Leaves(a) \/ TenantDies(a)
  PROVE  WInv'
<1>0. a \in Users /\ WTypeOK /\ RowsExist /\ user[a] \in UserRow
  BY DEF Users, WInv, WTypeOK
<1>1. CASE ResolvePath(a) /\ dir # "absent"
  <2> DEFINE x == [user[a] EXCEPT !.at = "assert"]
  <2>1. x \in UserRow /\ x.at = "assert" /\ x.row = user[a].row /\ x.todo = user[a].todo
    BY <1>0 DEF UserRow, Steps
  <2>2. user' = [user EXCEPT ![a] = x] /\ UNCHANGED <<lease, dir, heartbeats, overlapped>> /\ user[a].at = "resolve"
    BY <1>1 DEF ResolvePath
  <2> HIDE DEF x
  <2>3. x.row \in Rows /\ lease[x.row].state # "none"
    BY <1>0, <2>1, <2>2 DEF RowsExist, Placed
  <2> QED
    BY <2>1, <2>2, <2>3, TenantKeeps DEF Releasers
<1>2. CASE (ResolvePath(a) /\ dir = "absent") \/ TenantDies(a)
  <2>1. /\ user' = [user EXCEPT ![a] = Departed] /\ UNCHANGED <<lease, dir, heartbeats, overlapped>>
        /\ user[a].at \notin {"away", "gone"}
    BY <1>2 DEF ResolvePath, TenantDies
  <2> QED
    BY <2>1, AwayIs, TenantKeeps DEF Releasers, Placed
<1>3. CASE AssertLease(a)
  <2> DEFINE s == IF lease[user[a].row].state = "ALLOCATED" THEN "clone" ELSE "read"
  <2>1. s \in Steps /\ Go(a, s) /\ user[a].at = "assert" /\ UNCHANGED <<lease, dir, heartbeats, overlapped>>
    BY <1>3 DEF AssertLease, Steps
  <2>2. PICK x \in UserRow : /\ user' = [user EXCEPT ![a] = x] /\ x.at = s
                             /\ x.row = user[a].row /\ x.saw = user[a].saw /\ x.todo = user[a].todo
    BY <1>0, <2>1, GoIs
  <2>3. x.row \in Rows /\ lease[x.row].state # "none"
    BY <1>0, <2>1, <2>2 DEF RowsExist, Placed
  <2>4. x.at \in {"clone", "read"} /\ (x.at = "clone" => lease[x.row].state = "ALLOCATED")
    BY <2>2
  <2> QED
    BY <2>1, <2>2, <2>3, <2>4, TenantKeeps DEF Releasers
<1>4. CASE Leaves(a)
  <2>1. "read" \in Steps /\ Go(a, "read") /\ user[a].at = "work" /\ UNCHANGED <<lease, dir, heartbeats, overlapped>>
    BY <1>4 DEF Leaves, Steps
  <2>2. PICK x \in UserRow : /\ user' = [user EXCEPT ![a] = x] /\ x.at = "read"
                             /\ x.row = user[a].row /\ x.saw = user[a].saw /\ x.todo = user[a].todo
    BY <1>0, <2>1, GoIs
  <2>3. x.row \in Rows /\ lease[x.row].state # "none"
    BY <1>0, <2>1, <2>2 DEF RowsExist, Placed
  <2> QED
    BY <2>1, <2>2, <2>3, TenantKeeps DEF Releasers
<1> QED
  BY <1>1, <1>2, <1>3, <1>4

LEMMA CloneKeeps ==
  ASSUME WInv, NEW a \in Tenants, CloneInto(a)
  PROVE  WInv'
<1>0. a \in Users /\ WTypeOK /\ RowsExist /\ a # Janitor
  BY WorkspacesAssumption DEF Users, WInv
<1>1. user[a].at = "clone" /\ lease' = lease /\ UNCHANGED <<heartbeats, overlapped>>
  BY DEF CloneInto
<1>2. user[a].row \in Rows /\ lease[user[a].row].state # "none"
  BY <1>0, <1>1 DEF RowsExist, Placed
<1>3. CASE Go(a, "read") /\ UNCHANGED dir
  <2>1. PICK x \in UserRow : /\ user' = [user EXCEPT ![a] = x] /\ x.at = "read"
                             /\ x.row = user[a].row /\ x.saw = user[a].saw /\ x.todo = user[a].todo
    BY <1>0, <1>3, GoIs DEF Steps
  <2> QED
    BY <1>1, <1>2, <1>3, <2>1, TenantKeeps DEF Releasers
<1>4. CASE Go(a, "work") /\ dir' = a
  <2>1. PICK x \in UserRow : /\ user' = [user EXCEPT ![a] = x] /\ x.at = "work"
                             /\ x.row = user[a].row /\ x.saw = user[a].saw /\ x.todo = user[a].todo
    BY <1>0, <1>4, GoIs DEF Steps
  <2>2. ASSUME CalmInv PROVE OthersFit(a) /\ SelfFit(a, x)
    <3>1. \A b \in Tenants \ {a} : ~ Alive(b)
      BY <1>1, <2>2 DEF CalmInv, OneTenant, Alive
    <3>2. OneActive'
      BY <1>1, <2>2 DEF CalmInv, OneActive, ActiveLeases
    <3>3. OthersFit(a)
      BY <1>1, <2>2, <3>1, <3>2 DEF OthersFit, CalmInv, ReleaseUnderWay, Alive
    <3>4. lease[user[a].row].state = "ALLOCATED"
      BY <1>1, <2>2 DEF CalmInv, TreeInUse
    <3> QED
      BY <1>0, <1>1, <1>4, <2>1, <3>1, <3>3, <3>4 DEF SelfFit, Releasers
  <2>3. lease' \in [Rows -> LeaseRow] /\ overlapped' \in BOOLEAN /\ (overlapped => overlapped')
    BY <1>0, <1>1 DEF WTypeOK
  <2>4. \A l \in x.todo : lease'[l].state # "none"
    BY <1>0, <1>1, <2>1 DEF RowsExist
  <2> QED
    BY <1>0, <1>1, <1>2, <2>1, <2>2, <2>3, <2>4, StepKeeps
<1> QED
  BY <1>3, <1>4 DEF CloneInto

(* A transition writes one row, and never lowers its failed cleanups. *)
LEMMA LeaseMoves ==
  ASSUME WTypeOK, NEW l \in Rows, NEW r \in LeaseRow, lease' = [lease EXCEPT ![l] = r]
  PROVE  lease' \in [Rows -> LeaseRow] /\ lease'[l] = r /\ \A k \in Rows : k # l => lease'[k] = lease[k]
BY DEF WTypeOK

LEMMA AfterIs ==
  ASSUME WTypeOK, NEW l \in Rows, NEW to \in LeaseStates, After(l, to)
  PROVE  /\ lease' \in [Rows -> LeaseRow] /\ lease'[l].state = to
         /\ lease'[l].tries = 0 => lease[l].tries = 0 /\ to # "FAILED_CLEANUP"
         /\ \A k \in Rows : k # l => lease'[k] = lease[k]
<1> DEFINE n == lease[l].tries + (IF to = "FAILED_CLEANUP" THEN 1 ELSE 0)
           r == [state |-> to, tries |-> n]
<1>1. lease[l].tries \in Nat
  BY DEF WTypeOK, LeaseRow
<1>2. n \in Nat /\ (n = 0 => lease[l].tries = 0 /\ to # "FAILED_CLEANUP")
  BY <1>1
<1>3. lease' = [lease EXCEPT ![l] = r]
  BY DEF After
<1> HIDE DEF n
<1>4. r \in LeaseRow /\ r.state = to /\ r.tries = n
  BY <1>2 DEF LeaseRow
<1> HIDE DEF r
<1> QED
  BY <1>2, <1>3, <1>4, LeaseMoves

LEMMA InsertLeaseKeeps ==
  ASSUME WInv, NEW a \in Tenants, InsertLease(a)
  PROVE  WInv'
<1>0. a \in Users /\ WTypeOK /\ RowsExist /\ user[a] \in UserRow /\ a # Janitor
  BY WorkspacesAssumption DEF Users, WInv, WTypeOK
<1>1. user[a].at = "insert" /\ UNCHANGED <<dir, heartbeats, overlapped>>
  BY DEF InsertLease
<1>2. ASSUME NEW l \in Rows, user' = [user EXCEPT ![a].at = "resolve", ![a].row = l]
      PROVE  \E x \in UserRow : /\ user' = [user EXCEPT ![a] = x] /\ x.at = "resolve" /\ x.row = l
                                /\ x.todo = user[a].todo
  <2> DEFINE x == [user[a] EXCEPT !.at = "resolve", !.row = l]
  <2>1. x \in UserRow /\ x.at = "resolve" /\ x.row = l /\ x.todo = user[a].todo
    BY <1>0, <1>2 DEF UserRow, Steps
  <2>2. user' = [user EXCEPT ![a] = x]
    BY <1>0, <1>2 DEF WTypeOK
  <2> QED
    BY <2>1, <2>2
<1>3. ASSUME NEW l \in ActiveLeases, user' = [user EXCEPT ![a].at = "resolve", ![a].row = l], UNCHANGED lease
      PROVE  WInv'
  <2>1. l \in Rows /\ lease[l].state # "none"
    BY <1>3 DEF ActiveLeases
  <2>2. PICK x \in UserRow : /\ user' = [user EXCEPT ![a] = x] /\ x.at = "resolve" /\ x.row = l
                             /\ x.todo = user[a].todo
    BY <1>2, <1>3, <2>1
  <2> QED
    BY <1>1, <1>3, <2>1, <2>2, TenantKeeps DEF Releasers
<1>4. ASSUME ActiveLeases = {}, NEW l \in Rows, lease[l] = NoLease,
             lease' = [lease EXCEPT ![l].state = "ALLOCATED"],
             user' = [user EXCEPT ![a].at = "resolve", ![a].row = l]
      PROVE  WInv'
  <2> DEFINE r == [lease[l] EXCEPT !.state = "ALLOCATED"]
  <2>1. PICK x \in UserRow : /\ user' = [user EXCEPT ![a] = x] /\ x.at = "resolve" /\ x.row = l
                             /\ x.todo = user[a].todo
    BY <1>2, <1>4
  <2>2. r \in LeaseRow /\ r.state = "ALLOCATED" /\ r.tries = lease[l].tries /\ lease[l].state = "none"
    <3>1. lease[l] \in LeaseRow
      BY <1>0 DEF WTypeOK
    <3> QED
      BY <1>4, <3>1 DEF LeaseRow, LeaseStates, NoLease
  <2>3. lease' = [lease EXCEPT ![l] = r]
    BY <1>4
  <2> HIDE DEF r
  <2>4. lease' \in [Rows -> LeaseRow] /\ lease'[l] = r /\ \A k \in Rows : k # l => lease'[k] = lease[k]
    BY <1>0, <1>4, <2>2, <2>3, LeaseMoves
  <2>5. ASSUME CalmInv PROVE OthersFit(a) /\ SelfFit(a, x)
    <3>1. OneActive'
      BY <1>4, <2>2, <2>4, <2>5 DEF CalmInv, OneActive, ActiveLeases
    <3>2. \A v \in Users : user[v].at \in Placed => user[v].row \in Rows /\ user[v].row # l
      BY <1>0, <2>2 DEF RowsExist
    <3>3. \A v \in Users : user[v].at \in Placed => lease'[user[v].row] = lease[user[v].row]
      BY <2>4, <3>2
    <3>4. OthersFit(a)
      BY <1>1, <2>2, <2>4, <2>5, <3>1, <3>3 DEF OthersFit, CalmInv, ReleaseUnderWay, TreeInUse, Placed
    <3>5. \A b \in Tenants \ {a} : ~ Alive(b)
      BY <1>1, <2>5 DEF CalmInv, OneTenant, Alive
    <3> QED
      BY <1>0, <2>1, <3>4, <3>5 DEF SelfFit, Releasers
  <2>6. overlapped' \in BOOLEAN /\ (overlapped => overlapped')
    BY <1>0, <1>1 DEF WTypeOK
  <2>7. user[a].todo \subseteq Rows /\ \A k \in user[a].todo : lease[k].state # "none"
    BY <1>0 DEF UserRow, RowsExist
  <2>8. \A k \in Rows : lease[k].state # "none" => lease'[k].state # "none"
    BY <2>2, <2>4
  <2>9. \A k \in Rows : lease'[k].tries = 0 => lease[k].tries = 0
    BY <2>2, <2>4
  <2>10. \A k \in x.todo : lease'[k].state # "none"
    BY <2>1, <2>7, <2>8
  <2>11. x.row \in Rows /\ lease'[x.row].state # "none"
    BY <2>1, <2>2, <2>4
  <2> QED
    BY <1>0, <1>1, <2>1, <2>4, <2>5, <2>6, <2>8, <2>9, <2>10, <2>11, StepKeeps
<1> QED
  BY <1>3, <1>4 DEF InsertLease

-----------------------------------------------------------------------------
(* The steps of a release. *)
LEMMA ReadKeeps ==
  ASSUME WInv, NEW u \in Users, ReadLease(u)
  PROVE  WInv'
<1> DEFINE s == lease[user[u].row].state
<1>0. WTypeOK /\ RowsExist /\ user[u] \in UserRow
  BY DEF WInv, WTypeOK
<1>1. user[u].at = "read" /\ UNCHANGED <<lease, dir, heartbeats>>
  BY DEF ReadLease
<1>2. user[u].row \in Rows /\ s # "none" /\ s \in LeaseStates
  BY <1>0, <1>1 DEF RowsExist, Placed, WTypeOK, LeaseRow
<1>3. overlapped' \in BOOLEAN /\ (overlapped => overlapped') /\ lease' \in [Rows -> LeaseRow]
  BY <1>0, <1>1 DEF ReadLease, WTypeOK
<1>4. CASE s \in {"RELEASED", "purged"}
  <2>1. user' = Ended(u)
    BY <1>4 DEF ReadLease
  <2>2. CalmInv => OthersFit(u)
    BY <1>1, QuietFits
  <2> QED
    BY <1>1, <1>3, <2>1, <2>2, EndKeeps DEF Placed
<1>5. CASE s \notin {"RELEASED", "purged"}
  <2> DEFINE x == [user[u] EXCEPT !.saw = s, !.at = IF s \in {"ALLOCATED", "ORPHANED"} THEN "request" ELSE "rm"]
  <2>1. user' = [user EXCEPT ![u] = x]
    BY <1>0, <1>5 DEF ReadLease, WTypeOK
  <2>2. /\ x \in UserRow /\ x.row = user[u].row /\ x.saw = s /\ x.todo = user[u].todo
        /\ x.at = IF s \in {"ALLOCATED", "ORPHANED"} THEN "request" ELSE "rm"
    BY <1>0, <1>2, <1>5 DEF UserRow, Steps
  <2> HIDE DEF x
  <2>3. ASSUME Calm', CalmInv PROVE SelfFit(u, x)
    <3>1. \A v \in Users \ {u} : user[v].at \in Releasers => user[v].row # user[u].row
      BY <2>3 DEF ReadLease, Calm, Releasers
    <3>2. s \in {"ALLOCATED", "RELEASE_REQUESTED"}
      BY <1>2, <1>5, <2>3 DEF CalmInv, OneActive, LeaseStates
    <3>3. u \in Tenants => \A b \in Tenants \ {u} : ~ Alive(b)
      BY <1>1, <2>3 DEF CalmInv, OneTenant, Alive
    <3>4. u = Janitor => s = "RELEASE_REQUESTED"
      BY <1>1, <2>3, <3>2 DEF CalmInv, JanitorOnlyReaps, Placed
    <3>5. u = Janitor => \A l \in x.todo : lease[l].state # "ALLOCATED"
      BY <2>2, <2>3 DEF CalmInv, JanitorOnlyReaps
    <3>6. x.at \in {"rm", "request"} /\ (x.at = "rm" => s = "RELEASE_REQUESTED") /\ (s = "RELEASE_REQUESTED" => x.at = "rm")
      BY <2>2, <3>2
    <3> HIDE DEF s
    <3>7. lease'[x.row].state = s
      BY <1>1, <2>2 DEF s
    <3> QED
      BY <1>1, <2>2, <3>1, <3>3, <3>4, <3>5, <3>6, <3>7 DEF SelfFit
  <2>4. \A l \in x.todo : lease[l].state # "none"
    BY <1>0, <2>2 DEF RowsExist
  <2>5. x.row \in Rows /\ lease[x.row].state # "none"
    BY <1>2, <2>2
  <2> QED
    BY <1>1, <1>3, <2>1, <2>2, <2>3, <2>4, <2>5, QuietKeeps
<1> QED
  BY <1>4, <1>5

LEMMA RequestKeeps ==
  ASSUME WInv, NEW u \in Users, RequestRelease(u)
  PROVE  WInv'
<1> DEFINE l == user[u].row
<1>0. WTypeOK /\ RowsExist /\ user[u] \in UserRow
  BY DEF WInv, WTypeOK
<1>1. user[u].at = "request" /\ UNCHANGED <<dir, heartbeats, overlapped>>
  BY DEF RequestRelease
<1>2. l \in Rows /\ lease[l].state # "none"
  BY <1>0, <1>1 DEF RowsExist, Placed
<1>3. overlapped' \in BOOLEAN /\ (overlapped => overlapped') /\ lease \in [Rows -> LeaseRow]
  BY <1>0, <1>1 DEF WTypeOK
<1>4. CASE ~ Transitions(l, user[u].saw, "RELEASE_REQUESTED")
  <2>1. user' = Ended(u) /\ lease' = lease
    BY <1>4 DEF RequestRelease
  <2>2. CalmInv => OthersFit(u)
    BY <1>1, <2>1, QuietFits
  <2> QED
    BY <1>1, <1>3, <2>1, <2>2, EndKeeps DEF Placed
<1>5. CASE Transitions(l, user[u].saw, "RELEASE_REQUESTED")
  <2> DEFINE x == [user[u] EXCEPT !.at = "rm", !.saw = "RELEASE_REQUESTED"]
  <2>1. user' = [user EXCEPT ![u] = x]
    BY <1>0, <1>5 DEF RequestRelease, WTypeOK
  <2>2. /\ x \in UserRow /\ x.row = l /\ x.saw = "RELEASE_REQUESTED" /\ x.todo = user[u].todo
        /\ x.at = "rm"
    BY <1>0 DEF UserRow, Steps, LeaseStates
  <2> HIDE DEF x
  <2>3. /\ lease' \in [Rows -> LeaseRow] /\ lease'[l].state = "RELEASE_REQUESTED"
        /\ lease'[l].tries = 0 => lease[l].tries = 0
        /\ \A k \in Rows : k # l => lease'[k] = lease[k]
        /\ lease[l].state = "RELEASE_REQUESTED" \/ ActiveLeases \subseteq {l}
    <3>1. CASE lease[l].state = "RELEASE_REQUESTED"
      BY <1>3, <1>5, <3>1 DEF RequestRelease
    <3>2. CASE lease[l].state # "RELEASE_REQUESTED"
      <4>1. After(l, "RELEASE_REQUESTED") /\ ActiveLeases \subseteq {l}
        BY <1>5, <3>2 DEF RequestRelease, Transitions, Moves
      <4>2. "RELEASE_REQUESTED" \in LeaseStates
        BY DEF LeaseStates
      <4> QED
        BY <1>0, <1>2, <4>1, <4>2, AfterIs
    <3> QED
      BY <3>1, <3>2
  <2>4. \A k \in Rows : lease[k].state # "none" => lease'[k].state # "none"
    BY <2>3
  <2>5. \A k \in Rows : lease'[k].tries = 0 => lease[k].tries = 0
    BY <2>3
  <2>6. ASSUME CalmInv PROVE OthersFit(u) /\ SelfFit(u, x)
    <3>1. u \in Tenants /\ u # Janitor
      BY <1>1, <2>6, WorkspacesAssumption DEF CalmInv, JanitorOnlyReaps, Users
    <3>2. \A b \in Tenants \ {u} : ~ Alive(b)
      BY <1>1, <2>6, <3>1 DEF CalmInv, OneTenant, Alive
    <3>3. OneActive'
      <4>1. \A k \in Rows : lease'[k].state \notin {"ORPHANED", "FAILED_CLEANUP"}
        BY <2>3, <2>6 DEF CalmInv, OneActive
      <4>2. ActiveLeases \subseteq {l}
        BY <1>2, <2>3, <2>6 DEF CalmInv, OneActive, ActiveLeases
      <4>3. ActiveLeases' \subseteq {l}
        BY <2>3, <4>2 DEF ActiveLeases
      <4> QED
        BY <4>1, <4>3 DEF OneActive
    <3>4. \A v \in Users \ {u} : user[v].at \in Releasers => user[v].row # l
      BY <1>1, <2>6 DEF CalmInv, OneReleaser, Releasers
    <3>5. \A v \in Users : user[v].at \in {"rm", "finish"} => user[v].row \in Rows /\ lease[user[v].row].state = "RELEASE_REQUESTED"
      BY <1>0, <2>6 DEF CalmInv, ReleaseUnderWay, RowsExist, Placed
    <3>6. \A v \in Users \ {u} : user[v].at \in {"rm", "finish"} => lease'[user[v].row].state = "RELEASE_REQUESTED"
      BY <2>3, <3>5
    <3>7. OthersFit(u)
      BY <2>3, <3>2, <3>3, <3>6 DEF OthersFit, Alive
    <3> HIDE DEF l
    <3> QED
      BY <2>2, <2>3, <3>1, <3>2, <3>4, <3>7 DEF SelfFit
  <2>7. user[u].todo \subseteq Rows /\ \A k \in user[u].todo : lease[k].state # "none"
    BY <1>0 DEF UserRow, RowsExist
  <2>8. \A k \in x.todo : lease'[k].state # "none"
    BY <2>2, <2>4, <2>7
  <2>9. x.row \in Rows /\ lease'[x.row].state # "none"
    BY <1>2, <2>2, <2>3
  <2> QED
    BY <1>1, <1>3, <2>1, <2>2, <2>3, <2>4, <2>5, <2>6, <2>8, <2>9, StepKeeps
<1> QED
  BY <1>4, <1>5

(* The directory is removed while the run's one active lease is on its way   *)
(* out; an attempt at work would have an ALLOCATED one.                      *)
LEMMA RemoveKeeps ==
  ASSUME WInv, NEW u \in Users, RemoveDir(u)
  PROVE  WInv'
<1>0. WTypeOK /\ RowsExist /\ user[u] \in UserRow
  BY DEF WInv, WTypeOK
<1>1. user[u].at = "rm" /\ Go(u, "finish") /\ UNCHANGED <<lease, heartbeats, overlapped>>
  BY DEF RemoveDir
<1>2. PICK x \in UserRow : /\ user' = [user EXCEPT ![u] = x] /\ x.at = "finish"
                           /\ x.row = user[u].row /\ x.saw = user[u].saw /\ x.todo = user[u].todo
  BY <1>0, <1>1, GoIs DEF Steps
<1>3. lease' \in [Rows -> LeaseRow] /\ overlapped' \in BOOLEAN /\ (overlapped => overlapped')
  BY <1>0, <1>1 DEF WTypeOK
<1>4. x.row \in Rows /\ lease'[x.row].state # "none" /\ \A l \in x.todo : lease'[l].state # "none"
  BY <1>0, <1>1, <1>2 DEF RowsExist, Placed
<1>5. ASSUME CalmInv PROVE OthersFit(u) /\ SelfFit(u, x)
  <2>1. lease[user[u].row].state = "RELEASE_REQUESTED" /\ user[u].saw = "RELEASE_REQUESTED"
    BY <1>1, <1>5 DEF CalmInv, ReleaseUnderWay
  <2>2. \A a \in Tenants : user[a].at \notin {"clone", "work"}
    <3> SUFFICES ASSUME NEW a \in Tenants, user[a].at \in {"clone", "work"} PROVE FALSE
      OBVIOUS
    <3>1. a \in Users /\ lease[user[a].row].state = "ALLOCATED"
      BY <1>5 DEF CalmInv, TreeInUse, Users
    <3>2. user[a].row \in Rows /\ user[u].row \in Rows
      BY <1>0, <1>1, <3>1 DEF RowsExist, Placed
    <3>3. user[a].row = user[u].row
      BY <1>5, <2>1, <3>1, <3>2 DEF CalmInv, OneActive, ActiveLeases
    <3> QED
      BY <2>1, <3>1, <3>3
  <2>3. OneActive'
    BY <1>1, <1>5 DEF CalmInv, OneActive, ActiveLeases
  <2>4. OthersFit(u)
    BY <1>1, <1>5, <2>2, <2>3 DEF OthersFit, CalmInv, ReleaseUnderWay
  <2>5. \A v \in Users \ {u} : user[v].at \in Releasers => user[v].row # user[u].row
    BY <1>1, <1>5 DEF CalmInv, OneReleaser, Releasers
  <2>6. u \in Tenants => \A b \in Tenants \ {u} : ~ Alive(b)
    BY <1>1, <1>5 DEF CalmInv, OneTenant, Alive
  <2>7. u = Janitor => \A l \in x.todo : lease[l].state # "ALLOCATED"
    BY <1>2, <1>5 DEF CalmInv, JanitorOnlyReaps
  <2> QED
    BY <1>1, <1>2, <2>1, <2>4, <2>5, <2>6, <2>7 DEF SelfFit
<1> QED
  BY <1>1, <1>2, <1>3, <1>4, <1>5, StepKeeps

LEMMA CleanupKeeps ==
  ASSUME WInv, NEW u \in Users, CleanupFails(u)
  PROVE  WInv'
<1> DEFINE l == user[u].row
<1>0. WTypeOK /\ RowsExist
  BY DEF WInv
<1>1. user[u].at = "rm" /\ user' = Ended(u) /\ UNCHANGED <<dir, heartbeats, overlapped>>
  BY DEF CleanupFails
<1>2. l \in Rows
  BY <1>0, <1>1 DEF RowsExist, Placed
<1>3. overlapped' \in BOOLEAN /\ (overlapped => overlapped') /\ lease \in [Rows -> LeaseRow]
  BY <1>0, <1>1 DEF WTypeOK
<1>4. CASE lease' = lease
  <2>1. CalmInv => OthersFit(u)
    BY <1>1, <1>4, QuietFits
  <2> QED
    BY <1>1, <1>3, <1>4, <2>1, EndKeeps DEF Placed
<1>5. CASE After(l, "FAILED_CLEANUP")
  <2>1. "FAILED_CLEANUP" \in LeaseStates /\ "FAILED_CLEANUP" # "none"
    BY DEF LeaseStates
  <2>2. /\ lease' \in [Rows -> LeaseRow] /\ lease'[l].state = "FAILED_CLEANUP" /\ lease'[l].tries # 0
        /\ \A k \in Rows : k # l => lease'[k] = lease[k]
    BY <1>0, <1>2, <1>5, <2>1, AfterIs
  <2>3. \A k \in Rows : lease[k].state # "none" => lease'[k].state # "none"
    BY <2>1, <2>2
  <2>4. \A k \in Rows : lease'[k].tries = 0 => lease[k].tries = 0
    BY <2>2
  <2>5. ~ Calm'
    BY <1>2, <2>2 DEF Calm
  <2> QED
    BY <1>1, <1>3, <2>2, <2>3, <2>4, <2>5, EndKeeps DEF Placed
<1> QED
  BY <1>4, <1>5 DEF CleanupFails

LEMMA FinishKeeps ==
  ASSUME WInv, NEW u \in Users, FinishRelease(u)
  PROVE  WInv'
<1> DEFINE l == user[u].row
<1>0. WTypeOK /\ RowsExist
  BY DEF WInv
<1>1. user[u].at = "finish" /\ user' = Ended(u) /\ UNCHANGED <<dir, heartbeats, overlapped>>
  BY DEF FinishRelease
<1>2. l \in Rows
  BY <1>0, <1>1 DEF RowsExist, Placed
<1>3. overlapped' \in BOOLEAN /\ (overlapped => overlapped') /\ lease \in [Rows -> LeaseRow]
  BY <1>0, <1>1 DEF WTypeOK
<1>4. CASE lease' = lease
  <2>1. CalmInv => OthersFit(u)
    BY <1>1, <1>4, QuietFits
  <2> QED
    BY <1>1, <1>3, <1>4, <2>1, EndKeeps DEF Placed
<1>5. CASE After(l, "RELEASED")
  <2>1. "RELEASED" \in LeaseStates
    BY DEF LeaseStates
  <2>2. /\ lease' \in [Rows -> LeaseRow] /\ lease'[l].state = "RELEASED" /\ (lease'[l].tries = 0 => lease[l].tries = 0)
        /\ \A k \in Rows : k # l => lease'[k] = lease[k]
    BY <1>0, <1>2, <1>5, <2>1, AfterIs
  <2>3. \A k \in Rows : lease[k].state # "none" => lease'[k].state # "none"
    BY <2>2
  <2>4. \A k \in Rows : lease'[k].tries = 0 => lease[k].tries = 0
    BY <2>2
  <2>5. ASSUME CalmInv PROVE OthersFit(u)
    <3>1. OneActive'
      BY <1>2, <2>2, <2>5 DEF CalmInv, OneActive, ActiveLeases
    <3>2. lease[l].state = "RELEASE_REQUESTED"
      BY <1>1, <2>5 DEF CalmInv, ReleaseUnderWay
    <3>3. \A v \in Users \ {u} : user[v].at \in Releasers => user[v].row # l
      BY <1>1, <2>5 DEF CalmInv, OneReleaser, Releasers
    <3>4. \A v \in Users : user[v].at \in Placed => user[v].row \in Rows
      BY <1>0 DEF RowsExist
    <3>5. \A v \in Users \ {u} : user[v].at \in {"rm", "finish"} => lease'[user[v].row].state = "RELEASE_REQUESTED"
      BY <2>2, <2>5, <3>3, <3>4 DEF CalmInv, ReleaseUnderWay, Placed, Releasers
    <3>6. \A v \in Tenants : user[v].at \in {"clone", "work"} => user[v].row # l /\ user[v].row \in Rows
      BY <2>5, <3>2, <3>4 DEF CalmInv, TreeInUse, Placed, Users
    <3>7. \A v \in Tenants : user[v].at \in {"clone", "work"} => lease'[user[v].row].state = "ALLOCATED"
      BY <2>2, <2>5, <3>6 DEF CalmInv, TreeInUse
    <3>8. \A v \in Tenants : user[v].at = "work" => dir' = v
      BY <1>1, <2>5 DEF CalmInv, TreeInUse
    <3> HIDE DEF l
    <3> QED
      BY <2>2, <3>1, <3>5, <3>7, <3>8 DEF OthersFit
  <2> QED
    BY <1>1, <1>3, <2>2, <2>3, <2>4, <2>5, EndKeeps DEF Placed
<1> QED
  BY <1>4, <1>5 DEF FinishRelease

-----------------------------------------------------------------------------
(* The retention job. *)
LEMMA SweepKeeps ==
  ASSUME WInv, ListEligible \/ ReapNext
  PROVE  WInv'
<1>0. WTypeOK /\ RowsExist /\ Janitor \in Users /\ user[Janitor] \in UserRow /\ Janitor \notin Tenants
  BY WorkspacesAssumption DEF Users, WInv, WTypeOK
<1>1. UNCHANGED <<lease, dir, heartbeats, overlapped>>
  BY DEF ListEligible, ReapNext
<1>2. overlapped' \in BOOLEAN /\ (overlapped => overlapped')
  BY <1>0, <1>1 DEF WTypeOK
<1>3. user[Janitor].todo \subseteq Rows /\ \A l \in user[Janitor].todo : lease[l].state # "none"
  BY <1>0 DEF UserRow, RowsExist
<1>4. CASE ListEligible
  <2> DEFINE E == {l \in Rows : Eligible(l)}
             x == [Away EXCEPT !.at = "reap", !.todo = E]
  <2>1. user' = [user EXCEPT ![Janitor] = x]
    BY <1>4 DEF ListEligible
  <2>2. \A l \in E : lease[l].state \notin {"none", "ALLOCATED"}
    BY DEF Eligible
  <2>3. E \subseteq Rows
    OBVIOUS
  <2> HIDE DEF E
  <2>4. x \in UserRow /\ x.at = "reap" /\ x.todo = E
    BY <2>3, AwayIs DEF UserRow, Steps
  <2> HIDE DEF x
  <2>5. SelfFit(Janitor, x)
    BY <1>0, <1>1, <2>2, <2>4 DEF SelfFit, Placed, Releasers
  <2>6. x.at \notin Placed /\ \A l \in x.todo : lease[l].state # "none"
    BY <2>2, <2>4 DEF Placed
  <2> QED
    BY <1>0, <1>1, <1>2, <2>1, <2>4, <2>5, <2>6, QuietKeeps
<1>5. ASSUME ReapNext, user[Janitor].todo = {} PROVE WInv'
  <2>1. user' = [user EXCEPT ![Janitor] = Away]
    BY <1>5 DEF ReapNext
  <2>2. SelfFit(Janitor, Away)
    BY <1>0, AwayIs DEF SelfFit, Placed, Releasers
  <2> QED
    BY <1>0, <1>1, <1>2, <2>1, <2>2, AwayIs, QuietKeeps DEF Placed
<1>6. ASSUME ReapNext, user[Janitor].todo # {} PROVE WInv'
  <2>1. PICK l \in user[Janitor].todo :
          user' = [user EXCEPT ![Janitor] = [@ EXCEPT !.at = "read", !.row = l, !.left = 1, !.todo = user[Janitor].todo \ {l}]]
    BY <1>6 DEF ReapNext
  <2> DEFINE T == user[Janitor].todo \ {l}
             x == [user[Janitor] EXCEPT !.at = "read", !.row = l, !.left = 1, !.todo = T]
  <2>2. user' = [user EXCEPT ![Janitor] = x]
    BY <2>1
  <2>3. T \in SUBSET Rows /\ T \subseteq user[Janitor].todo /\ l \in Rows /\ 1 \in 0..2
    BY <1>3, <2>1
  <2> HIDE DEF T
  <2>4. x \in UserRow /\ x.at = "read" /\ x.row = l /\ x.todo = T
    BY <1>0, <2>3 DEF UserRow, Steps
  <2> HIDE DEF x
  <2>5. ASSUME CalmInv PROVE SelfFit(Janitor, x)
    <3>1. \A k \in user[Janitor].todo : lease[k].state # "ALLOCATED"
      BY <2>5 DEF CalmInv, JanitorOnlyReaps
    <3> QED
      BY <1>0, <1>1, <2>1, <2>3, <2>4, <3>1 DEF SelfFit, Releasers
  <2>6. x.row \in Rows /\ lease[x.row].state # "none" /\ \A k \in x.todo : lease[k].state # "none"
    BY <1>3, <2>1, <2>3, <2>4
  <2> QED
    BY <1>0, <1>1, <1>2, <2>2, <2>4, <2>5, <2>6, QuietKeeps
<1> QED
  BY <1>4, <1>5, <1>6

LEMMA MarkKeeps ==
  ASSUME WInv, OrphanSweep \/ PurgeReleased
  PROVE  WInv'
<1> DEFINE x == user[Janitor]
<1>0. WTypeOK /\ RowsExist /\ Janitor \in Users /\ x \in UserRow /\ Janitor \notin Tenants
  BY WorkspacesAssumption DEF Users, WInv, WTypeOK
<1>1. UNCHANGED <<user, dir, heartbeats, overlapped>>
  BY DEF OrphanSweep, PurgeReleased
<1>2. overlapped' \in BOOLEAN /\ (overlapped => overlapped') /\ user' = [user EXCEPT ![Janitor] = x]
  BY <1>0, <1>1 DEF WTypeOK
<1>3. PICK l \in Rows, to \in {"ORPHANED", "purged"} :
        /\ lease' = [lease EXCEPT ![l].state = to]
        /\ to = "ORPHANED" => heartbeats
        /\ to = "purged" => lease[l].state = "RELEASED"
  <2>1. CASE OrphanSweep
    BY <2>1 DEF OrphanSweep
  <2>2. CASE PurgeReleased
    BY <2>2 DEF PurgeReleased
  <2> QED
    BY <2>1, <2>2
<1> DEFINE r == [lease[l] EXCEPT !.state = to]
<1>4. r \in LeaseRow /\ r.state = to /\ r.tries = lease[l].tries
  <2>1. lease[l] \in LeaseRow
    BY <1>0 DEF WTypeOK
  <2> QED
    BY <2>1 DEF LeaseRow, LeaseStates
<1>5. lease' = [lease EXCEPT ![l] = r]
  BY <1>3
<1> HIDE DEF r
<1>6. lease' \in [Rows -> LeaseRow] /\ lease'[l] = r /\ \A k \in Rows : k # l => lease'[k] = lease[k]
  BY <1>0, <1>4, <1>5, LeaseMoves
<1>7. \A k \in Rows : lease[k].state # "none" => lease'[k].state # "none"
  BY <1>4, <1>6
<1>8. \A k \in Rows : lease'[k].tries = 0 => lease[k].tries = 0
  BY <1>4, <1>6
<1>9. x.todo \subseteq Rows /\ (x.at \in Placed => x.row \in Rows /\ lease'[x.row].state # "none")
  BY <1>0, <1>7 DEF UserRow, RowsExist
<1>10. \A k \in x.todo : lease'[k].state # "none"
  BY <1>0, <1>7, <1>9 DEF RowsExist
<1>11. ASSUME Calm', CalmInv PROVE OthersFit(Janitor) /\ SelfFit(Janitor, x)
  <2>1. to = "purged" /\ lease[l].state = "RELEASED"
    BY <1>1, <1>3, <1>11 DEF Calm
  <2>2. OneActive'
    BY <1>4, <1>6, <1>11, <2>1 DEF CalmInv, OneActive, ActiveLeases
  <2>3. \A v \in Users : user[v].at \in Placed /\ lease[user[v].row].state # "RELEASED" =>
                           lease'[user[v].row] = lease[user[v].row]
    BY <1>0, <1>6, <2>1 DEF RowsExist
  <2>4. \A v \in Users : user[v].at \in {"rm", "finish"} => lease'[user[v].row].state = "RELEASE_REQUESTED"
    BY <1>11, <2>3 DEF CalmInv, ReleaseUnderWay, Placed
  <2>5. \A v \in Tenants : user[v].at \in {"clone", "work"} => lease'[user[v].row].state = "ALLOCATED"
    BY <1>11, <2>3 DEF CalmInv, TreeInUse, Placed, Users
  <2>6. \A v \in Tenants : user[v].at = "work" => dir' = v
    BY <1>1, <1>11 DEF CalmInv, TreeInUse
  <2>7. \A k \in Rows : lease'[k].state = "ALLOCATED" => lease[k].state = "ALLOCATED"
    BY <1>4, <1>6, <2>1
  <2>8. OthersFit(Janitor)
    BY <2>2, <2>4, <2>5, <2>6, <2>7 DEF OthersFit
  <2>9. \A v \in Users \ {Janitor} : x.at \in Releasers /\ user[v].at \in Releasers => user[v].row # x.row
    BY <1>0, <1>11 DEF CalmInv, OneReleaser
  <2>10. x.at # "request" /\ (x.at \in Placed => lease'[x.row].state # "ALLOCATED")
    BY <1>9, <1>11, <2>7 DEF CalmInv, JanitorOnlyReaps
  <2>11. \A k \in x.todo : lease'[k].state # "ALLOCATED"
    BY <1>9, <1>11, <2>7 DEF CalmInv, JanitorOnlyReaps
  <2>12. x.at \in {"rm", "finish"} => x.saw = "RELEASE_REQUESTED"
    BY <1>0, <1>11 DEF CalmInv, ReleaseUnderWay
  <2> QED
    BY <1>0, <2>4, <2>8, <2>9, <2>10, <2>11, <2>12 DEF SelfFit
<1> HIDE DEF x
<1> QED
  BY <1>0, <1>1, <1>2, <1>6, <1>7, <1>8, <1>9, <1>10, <1>11, StepKeeps

-----------------------------------------------------------------------------
LEMMA WorkspacesInitially == WorkspacesInit => WInv
<1> SUFFICES ASSUME WorkspacesInit PROVE WInv
  OBVIOUS
<1>1. NoLease \in LeaseRow /\ NoLease.state = "none" /\ NoLease.tries = 0
  BY DEF NoLease, LeaseRow, LeaseStates
<1>2. (\A l \in Rows : lease[l] = NoLease) /\ (\A u \in Users : user[u] = Away)
  BY DEF WorkspacesInit
<1>3. lease \in [Rows -> LeaseRow] /\ user \in [Users -> UserRow]
  BY <1>1, AwayIs DEF WorkspacesInit
<1>4. heartbeats \in BOOLEAN /\ overlapped \in BOOLEAN
  BY DEF WorkspacesInit
<1>5. WTypeOK
  BY <1>3, <1>4 DEF WTypeOK
<1>6. RowsExist
  BY <1>2, AwayIs DEF RowsExist, Placed
<1>7. OneTenant /\ ReleaseUnderWay /\ OneReleaser /\ TreeInUse /\ JanitorOnlyReaps
  BY <1>2, AwayIs DEF OneTenant, ReleaseUnderWay, OneReleaser, TreeInUse, JanitorOnlyReaps, Alive, Users, Releasers, Placed
<1>8. OneActive
  BY <1>1, <1>2 DEF OneActive, ActiveLeases
<1> QED
  BY <1>5, <1>6, <1>7, <1>8 DEF WInv, CalmInv

LEMMA WorkspacesStep == WInv /\ [WorkspacesNext]_workspaceVars => WInv'
<1> SUFFICES ASSUME WInv, [WorkspacesNext]_workspaceVars PROVE WInv'
  OBVIOUS
<1>1. CASE UNCHANGED workspaceVars
  BY <1>1 DEF workspaceVars, WInv, WTypeOK, RowsExist, Calm, CalmInv, OneTenant, Alive, OneActive, ActiveLeases,
              ReleaseUnderWay, OneReleaser, TreeInUse, JanitorOnlyReaps
<1>2. ASSUME NEW u \in Users, Releases(u) PROVE WInv'
  BY <1>2, ReadKeeps, RequestKeeps, RemoveKeeps, CleanupKeeps, FinishKeeps DEF Releases
<1>3. ASSUME NEW a \in Tenants,
             \/ Mkdir(a) \/ InsertLease(a) \/ ResolvePath(a) \/ AssertLease(a) \/ CloneInto(a) \/ Leaves(a)
             \/ TenantDies(a)
      PROVE  WInv'
  BY <1>3, MkdirKeeps, InsertLeaseKeeps, ResolveKeeps, CloneKeeps
<1>4. CASE JanitorStep \/ OrphanSweep \/ PurgeReleased
  BY <1>2, <1>4, SweepKeeps, MarkKeeps DEF JanitorStep, Users
<1> QED
  BY <1>1, <1>2, <1>3, <1>4 DEF WorkspacesNext, Users

(* Nobody removes or overwrites the tree an attempt works in, for any number *)
(* of attempts and leases, unless attempts overlap, a lease is orphaned or a *)
(* cleanup has failed (allocateWorkspace, releaseWorkspace, the retention    *)
(* job).                                                                     *)
THEOREM TreeStays == WorkspacesSpec => []WorkspaceStays
<1>1. WorkspacesInit => WInv
  BY WorkspacesInitially
<1>2. WInv /\ [WorkspacesNext]_workspaceVars => WInv'
  BY WorkspacesStep
<1>3. WInv => WorkspaceStays
  <2> SUFFICES ASSUME WInv, NEW a \in Tenants, user[a].at = "work",
                      ~ (overlapped \/ heartbeats \/ \E l \in Rows : lease[l].tries > 0)
               PROVE  dir = a
    BY DEF WorkspaceStays
  <2>1. \A l \in Rows : lease[l].tries = 0
    <3>1. \A l \in Rows : lease[l].tries \in Nat
      BY DEF WInv, WTypeOK, LeaseRow
    <3> QED
      BY <3>1
  <2> QED
    BY <2>1 DEF WInv, Calm, CalmInv, TreeInUse
<1> QED
  BY <1>1, <1>2, <1>3, PTL DEF WorkspacesSpec

LEMMA ReleasedStays ==
  ASSUME WInv, [WorkspacesNext]_workspaceVars, NEW l \in Rows, lease[l].state = "RELEASED"
  PROVE  lease'[l].state \in {"RELEASED", "purged"}
<1>0. WTypeOK /\ RowsExist
  BY DEF WInv
<1>1. CASE lease' = lease
  BY <1>1
<1>2. ASSUME NEW k \in Rows, NEW s, lease' = [lease EXCEPT ![k].state = s], lease[k].state # "RELEASED" \/ s = "purged"
      PROVE  lease'[l].state \in {"RELEASED", "purged"}
  BY <1>0, <1>2 DEF WTypeOK, LeaseRow
<1>3. ASSUME NEW k \in Rows, NEW to \in LeaseStates, After(k, to), lease[k].state # "RELEASED"
      PROVE  lease'[l].state \in {"RELEASED", "purged"}
  BY <1>0, <1>3, AfterIs
<1>4. ASSUME NEW u \in Users, Releases(u), lease' # lease PROVE lease'[l].state \in {"RELEASED", "purged"}
  <2>1. user[u].at \in Placed
    BY <1>4 DEF Releases, ReadLease, RequestRelease, RemoveDir, CleanupFails, FinishRelease, Placed
  <2>2. user[u].row \in Rows /\ user[u].saw # "RELEASED"
    BY <1>0, <2>1 DEF RowsExist, WTypeOK, UserRow
  <2>3. PICK to \in {"RELEASE_REQUESTED", "FAILED_CLEANUP", "RELEASED"} :
          After(user[u].row, to) /\ lease[user[u].row].state \in {user[u].saw, "FAILED_CLEANUP"}
    BY <1>4 DEF Releases, ReadLease, RequestRelease, RemoveDir, CleanupFails, FinishRelease, Transitions, Moves
  <2> QED
    BY <1>3, <2>2, <2>3 DEF LeaseStates
<1>5. ASSUME NEW a \in Tenants, InsertLease(a), lease' # lease PROVE lease'[l].state \in {"RELEASED", "purged"}
  BY <1>2, <1>5 DEF InsertLease, NoLease
<1>6. CASE OrphanSweep \/ PurgeReleased
  BY <1>2, <1>6 DEF OrphanSweep, PurgeReleased
<1>7. ASSUME NEW a \in Tenants, Mkdir(a) \/ ResolvePath(a) \/ AssertLease(a) \/ CloneInto(a) \/ Leaves(a) \/ TenantDies(a)
      PROVE  lease' = lease
  BY <1>7 DEF Mkdir, ResolvePath, AssertLease, CloneInto, Leaves, TenantDies
<1>8. ASSUME ListEligible \/ ReapNext \/ UNCHANGED workspaceVars PROVE lease' = lease
  BY <1>8 DEF ListEligible, ReapNext, workspaceVars
<1> QED
  BY <1>1, <1>4, <1>5, <1>6, <1>7, <1>8 DEF WorkspacesNext, JanitorStep, Users

(* A released lease is only ever purged: a second releaser compares the row  *)
(* with what it read, and nobody acts on a row it read as released           *)
(* (transitionLease).                                                        *)
THEOREM ReleasedLeasesStay == WorkspacesSpec => ReleasedIsFinal
<1>1. WorkspacesInit => WInv
  BY WorkspacesInitially
<1>2. WInv /\ [WorkspacesNext]_workspaceVars => WInv'
  BY WorkspacesStep
<1>3. WInv /\ [WorkspacesNext]_workspaceVars
        => [\A l \in Rows : lease[l].state = "RELEASED" => lease'[l].state \in {"RELEASED", "purged"}]_workspaceVars
  BY ReleasedStays
<1> QED
  BY <1>1, <1>2, <1>3, PTL DEF WorkspacesSpec, ReleasedIsFinal
=============================================================================
