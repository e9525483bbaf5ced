------------------------------- MODULE Ingest -------------------------------
(***************************************************************************)
(* GitHub webhooks of one installation and what the system makes of them:  *)
(* the signed delivery is deduplicated and persisted in one transaction    *)
(* with the review run it starts, the pull request's state, its issue      *)
(* links and the work it hands to the outbox; background jobs then         *)
(* reconcile the installation and its repositories, and repair a registry  *)
(* that has drifted from GitHub.                                           *)
(* GitHub delivers late, out of order and more than once. An outbox row    *)
(* becomes a job in its own time, and is dropped when a job with the same  *)
(* key is still active.                                                    *)
(***************************************************************************)
EXTENDS Naturals, Sequences, FiniteSets

CONSTANTS
  Repos,      \* repositories of the account
  MaxEvents,  \* bound on what happens on GitHub
  MaxRuns,    \* bound on the runs started
  MaxExpired  \* bound on the dedup rows that expire

ASSUME IngestAssumption == {MaxEvents, MaxRuns, MaxExpired} \subseteq Nat

VARIABLES
  github,     \* what is true on GitHub
  wire,       \* the webhooks GitHub has sent, in the order things happened
  dedup,      \* deliveries in cache.cache_idempotency
  inst,       \* core.installations: absent, active or suspended
  repo,       \* core.repositories
  pr,         \* core.pull_requests and its issue links
  runs,       \* deliveries of the runs allocated, the last one being current
  outbox,     \* undispatched reconcile rows; Outbox follows a run's dispatch row
  jobs,       \* the active background job of each dedup key
  repair,     \* cache.repository_repair_state
  pruned      \* history: deliveries whose dedup row has expired

ingestVars == <<github, wire, dedup, inst, repo, pr, runs, outbox, jobs, repair, pruned>>

NoRow     == [known |-> FALSE, enabled |-> FALSE, archived |-> FALSE]
Unlisted  == [fetched |-> FALSE, repos |-> {}]
NoJob     == [type |-> "none", n |-> 0, listed |-> Unlisted]
Row(t, n) == [type |-> t, n |-> n, listed |-> Unlisted]
JobKey    == {"installation", "repositories", "repair"}
Active    == github.inst = "active"
Clear     == [cooling |-> FALSE, blocked |-> FALSE]

-----------------------------------------------------------------------------
(* What the extractors take from a payload. *)
Webhook(kind, action, r, draft) == [kind |-> kind, action |-> action, repo |-> r, draft |-> draft]

(* GitHub: every change sends a webhook. *)
Send(kind, action, r, draft, g) ==
  /\ Len(wire) < MaxEvents
  /\ wire' = Append(wire, Webhook(kind, action, r, draft))
  /\ github' = g
  /\ UNCHANGED <<dedup, inst, repo, pr, runs, outbox, jobs, repair, pruned>>

InstallationMoves(action, from, to) ==
  /\ github.inst = from
  /\ \E r \in Repos : Send("installation", action, r, FALSE, [github EXCEPT !.inst = to])

RepositoryMoves(action, r) ==
  /\ Active /\ (r \in github.granted) = (action = "removed")
  /\ Send("installation_repositories", action, r, FALSE,
          [github EXCEPT !.granted = IF action = "added" THEN @ \cup {r} ELSE @ \ {r}])

PrMoves(action, draft, r) ==
  /\ Active /\ r \in github.granted
  /\ CASE action = "opened"   -> github.pr = "none"
       [] action = "reopened" -> github.pr = "closed"
       [] OTHER               -> github.pr = "open"
  /\ Send("pull_request", action, r, draft,
          [github EXCEPT !.pr = IF action \in {"closed", "merged"} THEN action ELSE "open"])

-----------------------------------------------------------------------------
(* resolveInternalRepositoryId, for a known installation. *)
Resolved(r) == inst # "absent" /\ repo[r].known

(* deriveStateFromAction; a transition that cannot be derived keeps the row. *)
DeriveState(action, prior) ==
  CASE action \in {"closed", "merged"} -> action
    [] action = "reopened" -> IF prior \in {"closed", "merged"} THEN "open" ELSE prior
    [] OTHER               -> "open"

(* The pull request's row and its issue links, each under its own savepoint: *)
(* a failure loses the one and keeps the rest of the transaction.            *)
StateAfter(n) == {pr.state, DeriveState(wire[n].action, pr.state)}
LinksAfter(n) == {pr.links, n}
PersistPr(n)  == {[state |-> s, links |-> l] : s \in StateAfter(n), l \in LinksAfter(n)}

(* A new or reopened pull request, a push to it, or a draft made ready; other *)
(* drafts are left alone.                                                     *)
Triggers(e) ==
  /\ e.action \in {"opened", "synchronize", "reopened", "ready_for_review"}
  /\ e.draft => e.action = "ready_for_review"

(* maybeEnqueueRepair: blocked, or attempted within the cooldown, is skipped. *)
RepairAllowed == ~ repair.blocked /\ ~ repair.cooling

EnqueueRepair(rows) ==
  IF RepairAllowed
  THEN outbox' = rows \cup {Row("repair", 0)} /\ repair' = [repair EXCEPT !.cooling = TRUE]
  ELSE outbox' = rows /\ repair' = repair

(* The reconciles a webhook leaves in the outbox. *)
Emitted(n) ==
  LET e == wire[n]
  IN CASE e.kind = "installation"                     -> {Row("installation", n)}
       [] e.kind = "installation_repositories"        -> {Row("repositories", n)}
       [] e.kind = "pull_request" /\ inst = "absent"  -> {Row("installation", n)}
       [] OTHER                                       -> {}

\* Mutant: the dedup row is written but its conflict is not looked at.
Deduped_Never(n) == FALSE

Deduped(n) == n \in dedup

(* persistWebhook, one transaction: the dedup row, then for a pull request   *)
(* either its rows and, for a triggering action, a run and its dispatch, or  *)
(* the repair of an unknown repository (under a savepoint: it may fail).     *)
PersistWebhook(n) ==
  LET e      == wire[n]
      onPr   == e.kind = "pull_request"
      starts == onPr /\ Resolved(e.repo) /\ Triggers(e)
      rows   == outbox \cup Emitted(n)
  IN /\ ~ Deduped(n)
     /\ starts => Len(runs) < MaxRuns
     /\ dedup' = dedup \cup {n}
     /\ pr' \in IF onPr /\ Resolved(e.repo) THEN PersistPr(n) ELSE {pr}
     /\ runs' = IF starts THEN Append(runs, n) ELSE runs
     /\ \/ onPr /\ ~ Resolved(e.repo) /\ EnqueueRepair(rows)
        \/ outbox' = rows /\ repair' = repair
     /\ UNCHANGED <<github, wire, inst, repo, jobs, pruned>>

(* A payload without a usable sender, account or pull request: the delivery  *)
(* is recorded and does nothing.                                             *)
PersistMalformed(n) ==
  /\ ~ Deduped(n)
  /\ dedup' = dedup \cup {n}
  /\ UNCHANGED <<github, wire, inst, repo, pr, runs, outbox, jobs, repair, pruned>>

(* A dedup row past its 24 hours is swept; GitHub may still redeliver. *)
PruneDedup(n) ==
  /\ n \in dedup /\ Cardinality(pruned) < MaxExpired
  /\ dedup' = dedup \ {n}
  /\ pruned' = pruned \cup {n}
  /\ UNCHANGED <<github, wire, inst, repo, pr, runs, outbox, jobs, repair>>

-----------------------------------------------------------------------------
(* startWorkflow behind the outbox: a row becomes a background job under its *)
(* key, unless that key has an active one: then the row is settled and its   *)
(* payload is gone.                                                          *)
Dispatch(x) ==
  /\ x \in outbox
  /\ outbox' = outbox \ {x}
  /\ jobs' = IF jobs[x.type] = NoJob THEN [jobs EXCEPT ![x.type] = x] ELSE jobs
  /\ UNCHANGED <<github, wire, dedup, inst, repo, pr, runs, repair, pruned>>

Finish(k) == jobs' = [jobs EXCEPT ![k] = NoJob]

(* reconcileInstallation: the row takes the state the event names, and a     *)
(* repair is kicked off in the same transaction.                             *)
ReconcileInstallation ==
  /\ jobs["installation"] # NoJob
  /\ inst' = IF wire[jobs["installation"].n].action \in {"deleted", "suspend"} THEN "suspended" ELSE "active"
  /\ EnqueueRepair(outbox)
  /\ Finish("installation")
  /\ UNCHANGED <<github, wire, dedup, repo, pr, runs, pruned>>

(* upsertRepository sets enabled on insert only; removeRepository clears it. *)
Upserted(row) == [known |-> TRUE, archived |-> FALSE, enabled |-> row.known => row.enabled]
Removed(row)  == IF row.known THEN [row EXCEPT !.archived = TRUE, !.enabled = FALSE] ELSE row

(* reconcileRepositories: throws while the installation is not recorded.     *)
ReconcileRepositories ==
  LET e == wire[jobs["repositories"].n]
  IN /\ jobs["repositories"] # NoJob /\ inst # "absent"
     /\ repo' = [repo EXCEPT ![e.repo] = IF e.action = "added" THEN Upserted(@) ELSE Removed(@)]
     /\ Finish("repositories")
     /\ UNCHANGED <<github, wire, dedup, inst, pr, runs, outbox, repair, pruned>>

(* doHydrateInstallationRepositories: the repositories GitHub lists, then    *)
(* one transaction that upserts them all and clears the repair state.        *)
HydrateLists ==
  /\ jobs["repair"] # NoJob /\ ~ jobs["repair"].listed.fetched /\ Active
  /\ jobs' = [jobs EXCEPT !["repair"].listed = [fetched |-> TRUE, repos |-> github.granted]]
  /\ UNCHANGED <<github, wire, dedup, inst, repo, pr, runs, outbox, repair, pruned>>

HydrateWrites ==
  LET listed == jobs["repair"].listed
  IN /\ jobs["repair"] # NoJob /\ listed.fetched
     /\ repo' = [r \in Repos |-> IF inst # "absent" /\ r \in listed.repos THEN Upserted(repo[r]) ELSE repo[r]]
     /\ repair' = Clear
     /\ Finish("repair")
     /\ UNCHANGED <<github, wire, dedup, inst, pr, runs, outbox, pruned>>

(* 404, 403 and an unauthorised app are final: markBlocked. *)
HydrateBlocked ==
  /\ jobs["repair"] # NoJob /\ ~ jobs["repair"].listed.fetched /\ ~ Active
  /\ repair' = [cooling |-> TRUE, blocked |-> TRUE]
  /\ Finish("repair")
  /\ UNCHANGED <<github, wire, dedup, inst, repo, pr, runs, outbox, pruned>>

(* A job is refused, or fails its last attempt. *)
JobDies(k) ==
  /\ jobs[k] # NoJob
  /\ Finish(k)
  /\ UNCHANGED <<github, wire, dedup, inst, repo, pr, runs, outbox, repair, pruned>>

(* installationDriftReconcile: the daily sweep over active installations. *)
DriftSweep ==
  /\ inst = "active" /\ RepairAllowed
  /\ EnqueueRepair(outbox)
  /\ UNCHANGED <<github, wire, dedup, inst, repo, pr, runs, jobs, pruned>>

\* Mutant: the attempt is compared the wrong way round and never leaves the cooldown.
CooldownEnds_Never == FALSE /\ UNCHANGED ingestVars

CooldownEnds ==
  /\ repair.cooling
  /\ repair' = [repair EXCEPT !.cooling = FALSE]
  /\ UNCHANGED <<github, wire, dedup, inst, repo, pr, runs, outbox, jobs, pruned>>

(* The runbook's unblock. *)
OperatorUnblocks ==
  /\ repair.blocked
  /\ repair' = Clear
  /\ UNCHANGED <<github, wire, dedup, inst, repo, pr, runs, outbox, jobs, pruned>>

-----------------------------------------------------------------------------
(* The App may be installed, and the pull request open or closed, before the *)
(* first webhook that arrives here.                                          *)
IngestInit ==
  /\ github \in [inst : {"none", "active"}, granted : {Repos}, pr : {"none", "closed"}]
  /\ wire = <<>> /\ dedup = {} /\ inst = "absent" /\ repo = [r \in Repos |-> NoRow]
  /\ pr = [state |-> "none", links |-> 0] /\ runs = <<>> /\ outbox = {}
  /\ jobs = [k \in JobKey |-> NoJob] /\ repair = Clear /\ pruned = {}

GitHubNext ==
  \/ InstallationMoves("created", "none", "active")
  \/ InstallationMoves("suspend", "active", "suspended")
  \/ InstallationMoves("unsuspend", "suspended", "active")
  \/ InstallationMoves("deleted", "active", "none")
  \/ \E r \in Repos :
       \/ \E a \in {"added", "removed"} : RepositoryMoves(a, r)
       \/ \E a \in {"opened", "ready_for_review"}, d \in BOOLEAN : PrMoves(a, d, r)
       \/ \E a \in {"synchronize", "reopened", "closed", "merged"} : PrMoves(a, FALSE, r)

IngestNext ==
  \/ GitHubNext
  \/ \E n \in 1..Len(wire) : PersistWebhook(n) \/ PersistMalformed(n) \/ PruneDedup(n)
  \/ \E x \in outbox : Dispatch(x)
  \/ ReconcileInstallation \/ ReconcileRepositories
  \/ HydrateLists \/ HydrateWrites \/ HydrateBlocked
  \/ \E k \in JobKey : JobDies(k)
  \/ DriftSweep \/ CooldownEnds \/ OperatorUnblocks

(* The sweep is on the schedule and the cooldown is a clock; rows are        *)
(* dispatched and jobs run. A job may die at any attempt, but the repair     *)
(* that is retried every day does not die every time.                        *)
RepairFairness ==
  /\ SF_ingestVars(DriftSweep)
  /\ WF_ingestVars(CooldownEnds)
  /\ WF_ingestVars(Dispatch(Row("repair", 0)))
  /\ SF_ingestVars(HydrateLists) /\ SF_ingestVars(HydrateWrites)

IngestSpec == IngestInit /\ [][IngestNext]_ingestVars /\ RepairFairness

-----------------------------------------------------------------------------
(* A delivery starts one run however often GitHub repeats it, as long as its *)
(* dedup row has not expired.                                                *)
OneRunPerDelivery ==
  \A i, j \in 1..Len(runs) : i # j /\ runs[i] = runs[j] => runs[i] \in pruned

(* A repository the account has granted is registered in the end, whichever  *)
(* webhooks were late, malformed or coalesced away - unless the installation *)
(* is suspended or blocked, or the grant is withdrawn.                       *)
DriftRepaired ==
  \A r \in Repos :
    inst = "active" /\ r \in github.granted
      ~> repo[r].known \/ r \notin github.granted \/ inst # "active" \/ ~ Active \/ repair.blocked

-----------------------------------------------------------------------------
(* The CODEOWNERS file of a repository and its copy in core.code_owners,     *)
(* which shares no state with the rest. Each push to the default branch      *)
(* starts a sync that fetches the file as it is then and inserts the rules   *)
(* of that version; a version seen before is left as it is, with the time it *)
(* was first synced. Readers take the version with the latest time.          *)
CONSTANTS
  FileVersions,  \* contents the file may have
  NoFile,        \* the file is missing, or has no rule
  MaxPushes      \* bound on the pushes

ASSUME OwnersAssumption == NoFile \notin FileVersions /\ MaxPushes \in Nat

VARIABLES
  file,      \* the file on the default branch
  sync,      \* the syncs in the order of their pushes
  ownerRows, \* the versions stored, in the order they were first synced
  stale      \* history: why the copy may lag behind for good

ownersVars == <<file, sync, ownerRows, stale>>

InFlight == {i \in 1..Len(sync) : sync[i].at # "done"}

(* A version that was stored before comes back, or the file is removed. *)
PushOwners(f) ==
  /\ Len(sync) < MaxPushes /\ f # file
  /\ file' = f
  /\ sync' = Append(sync, [at |-> "queued", got |-> NoFile])
  /\ stale' = (stale \/ f = NoFile \/ \E i \in 1..Len(ownerRows) : ownerRows[i] = f)
  /\ UNCHANGED ownerRows

(* fetchCodeowners reads the default branch, not the push's commit. *)
FetchOwners(i) ==
  /\ sync[i].at = "queued"
  /\ sync' = [sync EXCEPT ![i] = [at |-> "fetched", got |-> file]]
  /\ UNCHANGED <<file, ownerRows, stale>>

\* Mutant: the conflict target forgets source_file_sha.
Conflicting_AnyVersion(v) == ownerRows # <<>>

(* ON CONFLICT (repository_id, path_pattern, source_file_sha) DO NOTHING *)
Conflicting(v) == \E i \in 1..Len(ownerRows) : ownerRows[i] = v

(* upsertRules; a missing or empty file writes nothing. Another sync that    *)
(* fetched earlier and writes later stores an older file with a later time.  *)
UpsertOwners(i) ==
  LET v == sync[i].got
  IN /\ sync[i].at = "fetched"
     /\ IF v = NoFile \/ Conflicting(v)
        THEN ownerRows' = ownerRows /\ stale' = (stale \/ v # file)
        ELSE ownerRows' = Append(ownerRows, v) /\ stale' = (v # file)
     /\ sync' = [sync EXCEPT ![i].at = "done"]
     /\ UNCHANGED file

(* The flag is off, or the job fails its last attempt. *)
SyncFails(i) ==
  /\ sync[i].at # "done"
  /\ sync' = [sync EXCEPT ![i].at = "done"]
  /\ stale' = TRUE
  /\ UNCHANGED <<file, ownerRows>>

OwnersInit == file = NoFile /\ sync = <<>> /\ ownerRows = <<>> /\ stale = FALSE

OwnersNext ==
  \/ \E f \in FileVersions \cup {NoFile} : PushOwners(f)
  \/ \E i \in 1..Len(sync) : FetchOwners(i) \/ UpsertOwners(i) \/ SyncFails(i)

OwnersSpec == OwnersInit /\ [][OwnersNext]_ownersVars

-----------------------------------------------------------------------------
(* listRulesForRepository *)
ListedOwners == IF ownerRows = <<>> THEN NoFile ELSE ownerRows[Len(ownerRows)]

(* Once the syncs are through, readers see the file on the default branch -  *)
(* unless a sync failed or wrote a file that had changed since it read it,   *)
(* the file was removed, or it went back to a version stored before: then    *)
(* the copy stays behind until another version is pushed.                    *)
OwnersCurrentUnlessStale == InFlight = {} /\ ~ stale => ListedOwners = file
=============================================================================
