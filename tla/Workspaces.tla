----------------------------- MODULE Workspaces -----------------------------
(***************************************************************************)
(* The workspace of a review run: a directory named after the run, and the *)
(* rows of core.workspace_leases that say who may use it. Attempts of the  *)
(* run allocate, clone, work and release; the workspace_retention job      *)
(* orphans, releases what was left behind and purges. A row is read before *)
(* it is changed, and the directory is shared by all leases of the run.    *)
(* An attempt may die anywhere; the next may start before it is dead.      *)
(***************************************************************************)
EXTENDS Naturals, FiniteSets

CONSTANTS
  Tenants,    \* attempts of one review run
  MaxLeases,  \* bound on the rows of the run
  MaxTries    \* CLEANUP_MAX_ATTEMPTS

Janitor == "janitor"

ASSUME WorkspacesAssumption == {MaxLeases, MaxTries} \subseteq Nat \ {0} /\ Janitor \notin Tenants

Users   == Tenants \cup {Janitor}
Rows    == 1..MaxLeases

VARIABLES
  lease,       \* the rows: state and failed cleanups
  dir,         \* the directory: absent, empty, or the attempt that cloned into it
  user,        \* each attempt, and the retention job: step, row, state read, releases left
  heartbeats,  \* core.worker_heartbeats holds a stale row for this worker
  overlapped   \* history: two attempts were alive, or two releases of a row, at once

workspaceVars == <<lease, dir, user, heartbeats, overlapped>>

NoLease == [state |-> "none", tries |-> 0]
Away    == [at |-> "away", row |-> 0, saw |-> "none", left |-> 0, todo |-> {}]

WorkspacesInit ==
  /\ lease = [l \in Rows |-> NoLease] /\ dir = "absent"
  /\ user = [u \in Users |-> Away] /\ heartbeats \in BOOLEAN /\ overlapped = FALSE

Departed == [Away EXCEPT !.at = "gone"]

Go(u, s) == user' = [user EXCEPT ![u].at = s]

-----------------------------------------------------------------------------
\* Mutant: a lease being released does not occupy the run.
ActiveLeases_AllocatedOnly == {l \in Rows : lease[l].state = "ALLOCATED"}

(* ux_workspace_active_run *)
ActiveLeases == {l \in Rows : lease[l].state \in {"ALLOCATED", "RELEASE_REQUESTED"}}

(* transitionLease: the row is locked and compared with what the caller     *)
(* read. Already there is fine, elsewhere is StateDrift.                    *)
Moves(l, from, to) ==
  /\ lease[l].state = from /\ from # to
  /\ to = "RELEASE_REQUESTED" => ActiveLeases \subseteq {l}

Transitions(l, from, to) == lease[l].state = to \/ Moves(l, from, to)

(* The row after the transition; cleanup_attempts is raised with it. *)
After(l, to) ==
  lease' = [lease EXCEPT ![l] = [state |-> to, tries |-> @.tries + (IF to = "FAILED_CLEANUP" THEN 1 ELSE 0)]]

-----------------------------------------------------------------------------
(* allocateWorkspace: mkdir -p, then one transaction that inserts a row     *)
(* unless the run has an active one and returns the active one, then the    *)
(* check of the path, which the directory must have survived.               *)
Mkdir(a) ==
  /\ user[a] = Away
  /\ dir' = (IF dir = "absent" THEN "empty" ELSE dir)
  /\ user' = [user EXCEPT ![a] = [Away EXCEPT !.at = "insert", !.left = 2]]
  /\ overlapped' = (overlapped \/ \E b \in Tenants \ {a} : user[b].at \notin {"away", "gone"})
  /\ UNCHANGED <<lease, heartbeats>>

InsertLease(a) ==
  /\ user[a].at = "insert"
  /\ IF ActiveLeases # {}
     THEN \E l \in ActiveLeases : user' = [user EXCEPT ![a].at = "resolve", ![a].row = l] /\ UNCHANGED lease
     ELSE \E l \in Rows :
            /\ lease[l] = NoLease /\ \A k \in 1..l - 1 : lease[k] # NoLease
            /\ lease' = [lease EXCEPT ![l].state = "ALLOCATED"]
            /\ user' = [user EXCEPT ![a].at = "resolve", ![a].row = l]
  /\ UNCHANGED <<dir, heartbeats, overlapped>>

(* Without a handle the shell has nothing to release. *)
ResolvePath(a) ==
  /\ user[a].at = "resolve"
  /\ user' = [user EXCEPT ![a] = IF dir = "absent" THEN Departed ELSE [@ EXCEPT !.at = "assert"]]
  /\ UNCHANGED <<lease, dir, heartbeats, overlapped>>

(* assertLeaseAllocated: ALLOCATED -> ALLOCATED, which only asserts. *)
AssertLease(a) ==
  /\ user[a].at = "assert"
  /\ Go(a, IF lease[user[a].row].state = "ALLOCATED" THEN "clone" ELSE "read")
  /\ UNCHANGED <<lease, dir, heartbeats, overlapped>>

(* cloneRepoIntoWorkspace: git writes the tree, or the clone fails or is    *)
(* too large.                                                               *)
CloneInto(a) ==
  /\ user[a].at = "clone"
  /\ \/ Go(a, "work") /\ dir' = a
     \/ Go(a, "read") /\ UNCHANGED dir
  /\ UNCHANGED <<lease, heartbeats, overlapped>>

(* The pipeline is done with the workspace, or has failed. *)
Leaves(a) ==
  /\ user[a].at = "work" /\ Go(a, "read")
  /\ UNCHANGED <<lease, dir, heartbeats, overlapped>>

-----------------------------------------------------------------------------
(* releaseWorkspace ends, with or without an exception: an attempt calls it *)
(* twice (the pipeline's finally and the shell's), the janitor goes on.     *)
Ended(u) ==
  [user EXCEPT ![u] = IF u = Janitor THEN [Away EXCEPT !.at = "reap", !.todo = user[u].todo]
                      ELSE IF user[u].left > 1 THEN [@ EXCEPT !.at = "read", !.saw = "none", !.left = user[u].left - 1]
                      ELSE Departed]

ReadLease(u) ==
  /\ user[u].at = "read"
  /\ LET s == lease[user[u].row].state
     IN user' = IF s \in {"RELEASED", "purged"} THEN Ended(u)
                ELSE [user EXCEPT ![u].saw = s, ![u].at = IF s \in {"ALLOCATED", "ORPHANED"} THEN "request" ELSE "rm"]
  /\ overlapped' = (overlapped \/ \E v \in Users \ {u} :
                      user[v].row = user[u].row /\ user[v].at \in {"request", "rm", "finish"})
  /\ UNCHANGED <<lease, dir, heartbeats>>

(* A StateDrift, or the unique index, ends the call. *)
RequestRelease(u) ==
  /\ user[u].at = "request"
  /\ LET l == user[u].row IN
     IF Transitions(l, user[u].saw, "RELEASE_REQUESTED")
     THEN /\ IF lease[l].state = "RELEASE_REQUESTED" THEN UNCHANGED lease ELSE After(l, "RELEASE_REQUESTED")
          /\ user' = [user EXCEPT ![u].at = "rm", ![u].saw = "RELEASE_REQUESTED"]
     ELSE user' = Ended(u) /\ UNCHANGED lease
  /\ UNCHANGED <<dir, heartbeats, overlapped>>

RemoveDir(u) ==
  /\ user[u].at = "rm"
  /\ dir' = "absent" /\ Go(u, "finish")
  /\ UNCHANGED <<lease, heartbeats, overlapped>>

(* The path escapes the root, or rm fails: transitionToFailedCleanup. *)
CleanupFails(u) ==
  /\ user[u].at = "rm"
  /\ LET l == user[u].row IN
     IF Transitions(l, user[u].saw, "FAILED_CLEANUP") /\ lease[l].tries < MaxTries
     THEN After(l, "FAILED_CLEANUP") ELSE UNCHANGED lease
  /\ user' = Ended(u)
  /\ UNCHANGED <<dir, heartbeats, overlapped>>

FinishRelease(u) ==
  /\ user[u].at = "finish"
  /\ LET l == user[u].row IN
     IF Moves(l, user[u].saw, "RELEASED") THEN After(l, "RELEASED") ELSE UNCHANGED lease
  /\ user' = Ended(u)
  /\ UNCHANGED <<dir, heartbeats, overlapped>>

(* The attempt's pod dies. *)
TenantDies(a) ==
  /\ user[a].at \notin {"away", "gone"}
  /\ user' = [user EXCEPT ![a] = Departed]
  /\ UNCHANGED <<lease, dir, heartbeats, overlapped>>

-----------------------------------------------------------------------------
(* workspace_retention: orphan sweep, reap, purge. Nothing in this build    *)
(* writes worker_heartbeats; a row is one an earlier worker left.           *)
OrphanSweep ==
  /\ heartbeats /\ user[Janitor].at = "away"
  /\ \E l \in Rows : lease[l].state = "ALLOCATED" /\ lease' = [lease EXCEPT ![l].state = "ORPHANED"]
  /\ UNCHANGED <<dir, user, heartbeats, overlapped>>

\* Mutant: a release that was only requested is left to its attempt.
Eligible_NotRequested(l) ==
  \/ lease[l].state = "ORPHANED"
  \/ lease[l].state = "FAILED_CLEANUP" /\ lease[l].tries < MaxTries

Eligible(l) ==
  \/ lease[l].state \in {"ORPHANED", "RELEASE_REQUESTED"}
  \/ lease[l].state = "FAILED_CLEANUP" /\ lease[l].tries < MaxTries

ListEligible ==
  /\ user[Janitor].at = "away"
  /\ user' = [user EXCEPT ![Janitor] = [Away EXCEPT !.at = "reap", !.todo = {l \in Rows : Eligible(l)}]]
  /\ UNCHANGED <<lease, dir, heartbeats, overlapped>>

(* The handler's loop: every id of the list is released in its own try. *)
ReapNext ==
  /\ user[Janitor].at = "reap"
  /\ IF user[Janitor].todo = {}
     THEN user' = [user EXCEPT ![Janitor] = Away]
     ELSE \E l \in user[Janitor].todo :
            user' = [user EXCEPT ![Janitor] = [@ EXCEPT !.at = "read", !.row = l, !.left = 1, !.todo = user[Janitor].todo \ {l}]]
  /\ UNCHANGED <<lease, dir, heartbeats, overlapped>>

PurgeReleased ==
  /\ \E l \in Rows : lease[l].state = "RELEASED" /\ lease' = [lease EXCEPT ![l].state = "purged"]
  /\ UNCHANGED <<dir, user, heartbeats, overlapped>>

Releases(u) ==
  ReadLease(u) \/ RequestRelease(u) \/ RemoveDir(u) \/ CleanupFails(u) \/ FinishRelease(u)

JanitorStep == ListEligible \/ ReapNext \/ Releases(Janitor)

WorkspacesNext ==
  \/ \E a \in Tenants :
       \/ Mkdir(a) \/ InsertLease(a) \/ ResolvePath(a) \/ AssertLease(a) \/ CloneInto(a) \/ Leaves(a)
       \/ Releases(a) \/ TenantDies(a)
  \/ JanitorStep \/ OrphanSweep \/ PurgeReleased

(* The schedule keeps running the retention job. *)
JanitorFairness == WF_workspaceVars(JanitorStep)

WorkspacesSpec == WorkspacesInit /\ [][WorkspacesNext]_workspaceVars /\ JanitorFairness

-----------------------------------------------------------------------------
(* A released lease is only ever purged, whatever a second releaser read    *)
(* before the first had finished.                                           *)
ReleasedIsFinal ==
  [][\A l \in Rows : lease[l].state = "RELEASED" => lease'[l].state \in {"RELEASED", "purged"}]_workspaceVars

(* While attempts follow one another and each row is released by one at a   *)
(* time, nobody removes or overwrites the tree an attempt works in, the     *)
(* retention job working off an earlier lease of the run included. The two  *)
(* other exceptions are the code's: a lease orphaned under a running        *)
(* attempt, and a failed cleanup, whose retry removes the directory without *)
(* asking whether the run has a new lease.                                  *)
WorkspaceStays ==
  \A a \in Tenants : user[a].at = "work" =>
    dir = a \/ overlapped \/ heartbeats \/ \E l \in Rows : lease[l].tries > 0

(* A release that was begun and abandoned is completed, or has used up its  *)
(* cleanup attempts.                                                        *)
LeaseSettles ==
  \A l \in Rows : lease[l].state = "RELEASE_REQUESTED" ~>
                    lease[l].state \in {"RELEASED", "purged"} \/ lease[l].tries >= MaxTries

(* Leases settle, and what is released stays so.                            *)
LeasesSettle == LeaseSettles /\ ReleasedIsFinal
=============================================================================
