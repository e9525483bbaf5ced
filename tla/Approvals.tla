----------------------------- MODULE Approvals ------------------------------
(***************************************************************************)
(* Changes that take two persons: role grants, cost caps and knowledge     *)
(* proposals. One asks, a pending row is inserted; another reads the row,  *)
(* checks it, and then decides it in a transaction of its own. The audit   *)
(* event follows the commit. Handlers run concurrently and may die between *)
(* two statements.                                                         *)
(***************************************************************************)
EXTENDS Naturals, FiniteSets

CONSTANTS
  Admins,      \* users whose session carries an administrative role
  Supers,      \* those with role super_admin
  Locals,      \* those whose session belongs to the installation of the changes
  MaxChanges   \* bound on the pending rows ever inserted; each asks for a value of its own

ASSUME ApprovalsAssumption == Supers \subseteq Admins /\ Locals \subseteq Admins /\ MaxChanges \in Nat \ {0}

(* core.role_grant_pending by scope, core.cost_cap_pending_changes, core.learning_proposals *)
Desks == {"platform_role", "tenant_role", "cap", "proposal"}
Roles == {"platform_role", "tenant_role"}

VARIABLES
  change,   \* the rows: desk, requester, state, expiry, decider
  setting,  \* per desk, the row whose value is in force, 0 for none
  capsSet,  \* core.cost_cap_settings has its rows
  deskCall, \* the handler each administrator has running: step, row, decision
  trail     \* the audit events of decisions: row and verdict

approvalVars == <<change, setting, capsSet, deskCall, trail>>

ChangeIds == 1..MaxChanges
Nobody    == "nobody"
NoChange  == [desk |-> "none", by |-> Nobody, state |-> "none", expired |-> FALSE, decider |-> Nobody]
Free      == [at |-> "free", id |-> 0, verdict |-> "none"]

ApprovalsInit ==
  /\ change = [c \in ChangeIds |-> NoChange]
  /\ setting = [d \in Desks |-> 0] /\ capsSet = FALSE
  /\ deskCall = [u \in Admins |-> Free] /\ trail = {}

-----------------------------------------------------------------------------
(* makeRequireRole admits every administrator to the three desks; the routes *)
(* keep platform-wide grants for super_admin, and a platform owner's session *)
(* names one installation.                                                   *)
MayRequest(u, d) ==
  /\ d = "platform_role" => u \in Supers
  /\ d \in {"tenant_role", "proposal"} => u \in Locals

(* assertSameTenant: a platform-wide row has no installation to compare. *)
SameTenant(u, d) == d = "tenant_role" => u \in Supers \cup Locals

(* checkPendingState *)
Pending(c) == change[c].state = "pending"

(* checkSelfApproval *)
NotSelf(u, c) == change[c].by # u

(* checkNotExpired: role requests end after ROLE_CHANGE_EXPIRES_MS. A cap's  *)
(* expires_at is the override's, a proposal has none.                        *)
NotExpired(c) == ~change[c].expired

(* The partial unique indexes; proposals have none. An expired row is still *)
(* pending.                                                                 *)
DeskTaken(d) == d # "proposal" /\ \E c \in ChangeIds : change[c].desk = d /\ Pending(c)

-----------------------------------------------------------------------------
(* initializeCostCapSettings, under its advisory lock *)
InitializeCaps(u) ==
  /\ deskCall[u] = Free /\ ~capsSet /\ capsSet' = TRUE
  /\ UNCHANGED <<change, setting, deskCall, trail>>

(* requestCostCapChange: the settings must be there to be changed. *)
CapRequestable == capsSet

(* requestRoleChange, and the same for a cap; what inserts proposals is not *)
(* part of this code.                                                       *)
RequestChange(u, d) ==
  /\ deskCall[u] = Free /\ MayRequest(u, d) /\ (d = "cap" => CapRequestable) /\ ~DeskTaken(d)
  /\ \E c \in ChangeIds :
       /\ change[c] = NoChange /\ \A b \in ChangeIds : b < c => change[b] # NoChange
       /\ change' = [change EXCEPT ![c] = [NoChange EXCEPT !.desk = d, !.by = u, !.state = "pending"]]
       /\ deskCall' = [deskCall EXCEPT ![u] = [at |-> "audit", id |-> c, verdict |-> "requested"]]
  /\ UNCHANGED <<setting, capsSet, trail>>

(* Seven days pass. Nothing writes state 'expired'. *)
ChangeExpires(c) ==
  /\ Pending(c) /\ change[c].desk \in Roles /\ ~change[c].expired
  /\ change' = [change EXCEPT ![c].expired = TRUE]
  /\ UNCHANGED <<setting, capsSet, deskCall, trail>>

(* What the handlers check on the row they read, outside any transaction.   *)
(* approveRoleChange, rejectRoleChange: the requester may withdraw.         *)
MayDecideRole(u, c, verdict) ==
  /\ SameTenant(u, change[c].desk) /\ NotExpired(c) /\ Pending(c)
  /\ verdict = "applied" => NotSelf(u, c)

(* approveCostCapChange, rejectCostCapChange: both take a second person. *)
MayDecideCap(u, c) == Pending(c) /\ NotSelf(u, c) /\ capsSet

(* validateApproveProposal, validateRejectProposal *)
MayDecideProposal(u, c, verdict) ==
  u \in Locals /\ Pending(c) /\ (verdict = "applied" => NotSelf(u, c))

MayDecide(u, c, verdict) ==
  CASE change[c].desk \in Roles     -> MayDecideRole(u, c, verdict)
    [] change[c].desk = "cap"       -> MayDecideCap(u, c)
    [] change[c].desk = "proposal"  -> MayDecideProposal(u, c, verdict)
    [] OTHER                        -> FALSE

CheckChange(u, c, verdict) ==
  /\ deskCall[u] = Free /\ MayDecide(u, c, verdict)
  /\ deskCall' = [deskCall EXCEPT ![u] = [at |-> "decide", id |-> c, verdict |-> verdict]]
  /\ UNCHANGED <<change, setting, capsSet, trail>>

\* Mutant: the decision is written whatever the row's state.
StillPending_Unfenced(c) == TRUE

(* The fence of the UPDATE: no row, and the call ends with a 409. *)
StillPending(c) == Pending(c)

(* The cap, or the grant, is written at once, whatever applied_at says; an  *)
(* approved proposal changes its row only.                                  *)
InForce(c) == IF change[c].desk = "proposal" THEN setting ELSE [setting EXCEPT ![change[c].desk] = c]

(* applyChange: the row and what it asks for in one transaction. *)
ApplyChange(u) ==
  LET c == deskCall[u].id IN
  /\ deskCall[u].at = "decide" /\ deskCall[u].verdict = "applied" /\ StillPending(c)
  /\ change' = [change EXCEPT ![c].state = "applied", ![c].decider = u]
  /\ setting' = InForce(c)
  /\ deskCall' = [deskCall EXCEPT ![u].at = "audit"]
  /\ UNCHANGED <<capsSet, trail>>

(* rejectChange, transitionProposalToTerminal *)
RejectChange(u) ==
  LET c == deskCall[u].id IN
  /\ deskCall[u].at = "decide" /\ deskCall[u].verdict = "rejected" /\ StillPending(c)
  /\ change' = [change EXCEPT ![c].state = "rejected", ![c].decider = u]
  /\ deskCall' = [deskCall EXCEPT ![u].at = "audit"]
  /\ UNCHANGED <<setting, capsSet, trail>>

(* ...StaleError, already_decided *)
LostDecision(u) ==
  /\ deskCall[u].at = "decide" /\ ~StillPending(deskCall[u].id)
  /\ deskCall' = [deskCall EXCEPT ![u] = Free]
  /\ UNCHANGED <<change, setting, capsSet, trail>>

(* makePgAuditEmitter, on a connection of its own *)
EmitAudit(u) ==
  /\ deskCall[u].at = "audit"
  /\ trail' = (IF deskCall[u].verdict = "requested" THEN trail ELSE trail \cup {<<deskCall[u].id, deskCall[u].verdict>>})
  /\ deskCall' = [deskCall EXCEPT ![u] = Free]
  /\ UNCHANGED <<change, setting, capsSet>>

(* The pod dies, or the audit insert fails and the caller gets a 500. *)
HandlerDies(u) ==
  /\ deskCall[u] # Free
  /\ deskCall' = [deskCall EXCEPT ![u] = Free]
  /\ UNCHANGED <<change, setting, capsSet, trail>>

ApprovalsNext ==
  \/ \E u \in Admins :
       \/ InitializeCaps(u) \/ ApplyChange(u) \/ RejectChange(u) \/ LostDecision(u) \/ EmitAudit(u) \/ HandlerDies(u)
       \/ \E d \in Desks : RequestChange(u, d)
       \/ \E c \in ChangeIds, verdict \in {"applied", "rejected"} : CheckChange(u, c, verdict)
  \/ \E c \in ChangeIds : ChangeExpires(c)

-----------------------------------------------------------------------------
(* Two administrators stand behind every role, cap and approved proposal in *)
(* force: it was asked for by one and approved by another, a decided row is   *)
(* not decided again, the newest applied change is the one in force, and the *)
(* trail claims no decision that the row does not carry.                     *)
TwoPersonRule ==
  /\ \A d \in Desks : setting[d] # 0 => change[setting[d]].state = "applied"
  /\ \A c \in ChangeIds : change[c].state = "applied" =>
       /\ change[c].decider \in Admins \ {change[c].by}
       /\ change[c].desk # "proposal" => setting[change[c].desk] >= c
  /\ \A e \in trail : change[e[1]].state = e[2]
=============================================================================
