---------------------------- MODULE PodLifecycle ----------------------------
(***************************************************************************)
(* One pod from boot to exit: the checks it makes before it serves, the    *)
(* encryption keys it loads and refreshes, the HTTP server, the loops of   *)
(* the runner under supervision, and the order in which a signal or a      *)
(* crash takes them down. Keys are rotated and other pods write meanwhile. *)
(* The rotation adds a key and keeps the older ones, so the keys of a      *)
(* registry are the numbers up to its current one; 0 is no registry.       *)
(***************************************************************************)
EXTENDS Naturals, FiniteSets, Sequences

CONSTANTS
  PodEnvs,      \* the environments a pod may find
  Expected,     \* EXPECTED_MIGRATIONS
  MaxRotations  \* bound on key rotations

ASSUME PodAssumption ==
  MaxRotations \in Nat /\ Expected \in Seq(Nat) /\ \A e \in PodEnvs : e.migrations \in Seq(Nat)

VARIABLES
  podAt,      \* the step main has reached
  podEnv,     \* the environment, the database and the key source as found
  server,     \* the HTTP server
  loopAt,     \* the runner's loops
  loopHealth, \* LoopHealthRegistry
  handlers,   \* who listens for SIGTERM
  signals,    \* history: SIGTERM came before or after the loops listened
  registry,   \* the current key of the installed registry
  held,       \* the current key of the registry the admin surface was given
  refreshing, \* the key refresh loop runs
  candidate,  \* the current key of the registry a refresh has read
  pool,       \* the shared connection pool
  failed,     \* main will end with an error
  podExit,    \* how the process ended
  nulled,     \* history: the second install removed the registry
  vaultKey,   \* the current key at the source
  sealed,     \* keys of the encrypted rows
  staleKeys   \* history: rotated since the registry was loaded

keyVars == <<vaultKey, sealed, staleKeys>>
podVars == <<podAt, podEnv, server, loopAt, loopHealth, handlers, signals, registry, held, refreshing, candidate, pool,
             failed, podExit, nulled, keyVars>>

Loops == {"runner", "scheduler", "outbox", "review"}

(* buildBackgroundRunner: shadow mode leaves the review loop out. *)
Composed(e) == IF e.mode = "shadow" THEN Loops \ {"review"} ELSE Loops

NoEnv == [mode |-> "postgres"]

PodInit ==
  /\ podAt = "down" /\ podEnv = NoEnv /\ server = "none"
  /\ loopAt = [l \in Loops |-> "none"] /\ loopHealth = [l \in Loops |-> "unknown"]
  /\ handlers = {} /\ signals = {} /\ registry = 0 /\ held = 0 /\ refreshing = FALSE /\ candidate = 0 /\ pool = "none"
  /\ failed = FALSE /\ podExit = "none" /\ nulled = FALSE
  /\ vaultKey = 1 /\ sealed = {} /\ staleKeys = FALSE

-----------------------------------------------------------------------------
(* process.exit(1) before anything is served *)
Refuses ==
  /\ podAt' = "over" /\ podExit' = "one" /\ failed' = TRUE
  /\ UNCHANGED <<podEnv, server, loopAt, loopHealth, handlers, signals, registry, held, refreshing, candidate, pool, nulled, keyVars>>

Enters(step) ==
  /\ podAt' = step
  /\ UNCHANGED <<podEnv, server, loopAt, loopHealth, handlers, signals, registry, held, refreshing, candidate, pool, failed, podExit, nulled, keyVars>>

(* A new process. *)
Boots ==
  /\ podAt = "down" /\ podAt' = "mode" /\ podEnv' \in PodEnvs
  /\ UNCHANGED <<server, loopAt, loopHealth, handlers, signals, registry, held, refreshing, candidate, pool, failed, podExit, nulled, keyVars>>

(* parseRuntimeMode, before any I/O: a mode that was removed or is unknown  *)
(* refuses the boot.                                                        *)
ParseRuntimeMode ==
  /\ podAt = "mode"
  /\ IF podEnv.mode \in {"postgres", "shadow"} THEN Enters("dsn") ELSE Refuses

(* resolveDbDsn: credentials from the selected source or no boot; the       *)
(* shared pool opens with them.                                             *)
ResolveDbDsn ==
  /\ podAt = "dsn"
  /\ \/ Refuses
     \/ /\ podAt' = "preflight" /\ pool' = "open"
        /\ UNCHANGED <<podEnv, server, loopAt, loopHealth, handlers, signals, registry, held, refreshing, candidate, failed, podExit, nulled, keyVars>>

(* resolveFieldKeySource: an explicit source, else the one of the bootstrap *)
(* secrets; none only outside production.                                   *)
KeySource(e) ==
  CASE e.source # "unset" -> e.source
    [] e.source = "unset" /\ e.secrets = "openshift" -> "env"
    [] e.source = "unset" /\ e.secrets = "vault" -> "vault"
    [] e.source = "unset" /\ e.secrets = "unset" -> IF e.production THEN "vault" ELSE "none"

(* observeDeployState: any text in the environment counts as a keyset; in   *)
(* Vault, and in the agent's file, which is looked at for every other value *)
(* of the source, it must name its current version. Its keys are left to    *)
(* the loader, and so is a source that does not exist.                      *)
KeysetSeen(e) ==
  CASE KeySource(e) = "env" -> e.keyset.text
    [] KeySource(e) \in {"vault", "vault-agent"} -> e.keyset.version # ""
    [] KeySource(e) \notin {"env", "vault", "vault-agent"} -> e.agentFile

(* evaluateDeployContract over DEPLOY_CONTRACT: what is not met. *)
DeployFailures(e) ==
  {c \in {"dsn", "extensions", "schemas", "config"} : c \notin e.met} \cup (IF KeysetSeen(e) THEN {} ELSE {"keyset"})

(* firstDivergence: neither behind the image nor ahead of it. *)
Divergence(e) == {i \in 1..(Len(e.migrations) + Len(Expected)) :
                    \/ i \in DOMAIN e.migrations /\ i \notin DOMAIN Expected
                    \/ i \in DOMAIN Expected /\ (i \notin DOMAIN e.migrations \/ e.migrations[i] # Expected[i])}

(* assertDeployReady and assertSchemaRevision *)
MayServe(e) == DeployFailures(e) = {} /\ Divergence(e) = {}

Preflight ==
  /\ podAt = "preflight"
  /\ \/ MayServe(podEnv) /\ Enters("keys")
     \/ Refuses \* an unmet requirement, or the database cannot be asked

(* parseKeysetPayload and makeKeySet: there is a current version, it is     *)
(* among the keys, and every key decodes to AES_256_KEY_BYTES.              *)
WellFormed(keyset) ==
  /\ keyset.version # "" /\ keyset.version \in DOMAIN keyset.keys
  /\ \A v \in DOMAIN keyset.keys : keyset.keys[v] = 32

(* resolveReader, loadFieldEncryptionKeyRegistry: a source that exists and  *)
(* holds such a keyset.                                                     *)
Loadable(e) == KeySource(e) \in {"env", "vault", "vault-agent", "file"} /\ WellFormed(e.keyset)

(* installFieldKeyRegistryAtBoot in main: read, installed, and probed. A    *)
(* read that takes longer than the boot deadline refuses like one that      *)
(* fails. The refresh loop starts only after an install.                    *)
InstallKeys ==
  /\ podAt = "keys"
  /\ \/ Refuses
     \/ KeySource(podEnv) = "none" /\ Enters("listen")
     \/ /\ Loadable(podEnv) /\ podAt' = "listen"
        /\ registry' = vaultKey /\ staleKeys' = FALSE /\ refreshing' = TRUE
        /\ UNCHANGED <<held, candidate, podEnv, server, loopAt, loopHealth, handlers, signals, pool, failed, podExit, nulled, vaultKey, sealed>>

(* runServer: the admin surface needs the registry and keeps the one it is  *)
(* given. Then main listens for signals and starts the runner.              *)
Listens ==
  /\ podAt = "listen"
  /\ \/ Refuses
     \/ /\ podEnv.auth => registry # 0
        /\ podAt' = "runner" /\ server' = "open" /\ handlers' = {"server"}
        /\ held' = IF podEnv.auth THEN registry ELSE 0
        /\ UNCHANGED <<podEnv, loopAt, loopHealth, signals, registry, refreshing, candidate, pool, failed, podExit, nulled, keyVars>>

(* runBackgroundRunner throws: main goes into its finally block. *)
RunnerFails ==
  /\ podAt' = "finally" /\ failed' = TRUE
  /\ UNCHANGED <<held, podEnv, server, loopAt, loopHealth, handlers, signals, refreshing, candidate, pool, podExit, vaultKey, sealed>>

(* The runner installs the keys again. A registry that fails its probe is   *)
(* taken out, whoever uses it.                                              *)
RunnerInstalls ==
  /\ podAt = "runner"
  /\ \/ KeySource(podEnv) = "none" /\ Enters("seed")
     \/ KeySource(podEnv) # "none" /\ RunnerFails /\ UNCHANGED <<registry, staleKeys, nulled>>
     \/ KeySource(podEnv) # "none" /\ RunnerFails /\ registry' = 0 /\ nulled' = TRUE /\ UNCHANGED staleKeys
     \/ /\ Loadable(podEnv) /\ podAt' = "seed" /\ registry' = vaultKey /\ staleKeys' = FALSE
        /\ UNCHANGED <<held, podEnv, server, loopAt, loopHealth, handlers, signals, refreshing, candidate, pool, failed, podExit, nulled, vaultKey, sealed>>

(* MAX_HEARTBEAT_S, MAX_LEASE_S, MAX_RUNTIME_CEILING_S *)
Ceilings == <<1800, 3600, 86400>>

(* resolveBackgroundRunnerConfig: heartbeat, lease and runtime are positive *)
(* and below their ceilings, two heartbeats fit in a lease, and a lease in  *)
(* the runtime.                                                             *)
TimingOk(e) ==
  /\ \A i \in 1..3 : 0 < e.timing[i] /\ e.timing[i] <= Ceilings[i]
  /\ 2 * e.timing[1] <= e.timing[2] /\ e.timing[2] <= e.timing[3]

(* WORKFLOW_TYPE_TO_JOB_TYPE *)
Routed == {"reconcile_installation", "reconcile_repositories", "repair_installation_repositories",
           "sync_code_owners", "refresh_semantic_docs", "trigger_page_resync"}

(* registerEventHandlers *)
Handled == {"reconcile_installation", "reconcile_repositories", "repair_installation_repositories",
            "sync_code_owners", "refresh_semantic_docs", "trigger_page_resync"}

(* assertRoutedWorkflowTypesHaveConsumers *)
HaveConsumers(e) == Routed \subseteq Handled /\ ("review" \in Composed(e) <=> e.mode # "shadow")

(* resolveBackgroundRunnerConfig, buildBackgroundRunner, the self-check and *)
(* ensureScheduledJobs (not in shadow), which the database may fail; then   *)
(* the loops are registered as required and started, and the runner listens *)
(* for signals.                                                             *)
StartLoops ==
  /\ podAt = "seed"
  /\ \/ /\ ~TimingOk(podEnv) \/ ~HaveConsumers(podEnv) \/ podEnv.mode # "shadow"
        /\ RunnerFails /\ UNCHANGED <<registry, staleKeys, nulled>>
     \/ /\ TimingOk(podEnv) /\ HaveConsumers(podEnv)
        /\ podAt' = "loops" /\ handlers' = handlers \cup {"loops"}
        /\ loopAt' = [l \in Loops |-> IF l \in Composed(podEnv) THEN "running" ELSE "none"]
        /\ loopHealth' = [l \in Loops |-> IF l \in Composed(podEnv) THEN "up" ELSE "unknown"]
        /\ UNCHANGED <<podEnv, server, signals, registry, held, refreshing, candidate, pool, failed, podExit, nulled, keyVars>>

-----------------------------------------------------------------------------
(* markDown *)
MarkDown(l) == [loopHealth EXCEPT ![l] = "down"]

(* superviseLoop: the loop ends alone and is marked. *)
LoopCrashes(l) ==
  /\ loopAt[l] \in {"running", "stopping"}
  /\ loopAt' = [loopAt EXCEPT ![l] = "crashed"] /\ loopHealth' = MarkDown(l)
  /\ UNCHANGED <<podAt, podEnv, server, handlers, signals, registry, held, refreshing, candidate, pool, failed, podExit, nulled, keyVars>>

(* A stopped loop ends after the pass it is in. *)
LoopStops(l) ==
  /\ loopAt[l] = "stopping" /\ loopAt' = [loopAt EXCEPT ![l] = "ended"]
  /\ UNCHANGED <<podAt, podEnv, server, loopHealth, handlers, signals, registry, held, refreshing, candidate, pool, failed, podExit, nulled, keyVars>>

(* runSupervisedLoops resolves when every loop has ended; a crash is thrown *)
(* then.                                                                    *)
LoopsOver ==
  /\ podAt = "loops" /\ \A l \in Composed(podEnv) : loopAt[l] \in {"ended", "crashed"}
  /\ podAt' = "finally" /\ handlers' = handlers \ {"loops"}
  /\ failed' = (\E l \in Loops : loopAt[l] = "crashed")
  /\ UNCHANGED <<podEnv, server, loopAt, loopHealth, signals, registry, held, refreshing, candidate, pool, podExit, nulled, keyVars>>

Exits(how) ==
  /\ podAt' = "over" /\ podExit' = how
  /\ UNCHANGED <<podEnv, server, loopAt, loopHealth, handlers, signals, registry, held, refreshing, candidate, pool, failed, nulled, keyVars>>

(* SIGTERM: who listens is told once, and no longer listens. Without a      *)
(* listener the process ends there and then.                                *)
Sigterm ==
  /\ podAt \notin {"down", "over"}
  /\ IF handlers = {} THEN Exits("killed")
     ELSE /\ handlers' = {}
          /\ signals' = signals \cup {IF "loops" \in handlers \/ podAt = "finally" THEN "in time" ELSE "early"}
          /\ server' = IF "server" \in handlers /\ server = "open" THEN "closing" ELSE server
          /\ loopAt' = [l \in Loops |-> IF "loops" \in handlers /\ loopAt[l] = "running" THEN "stopping" ELSE loopAt[l]]
          /\ UNCHANGED <<podAt, podEnv, loopHealth, registry, held, refreshing, candidate, pool, failed, podExit, nulled, keyVars>>

(* The kubelet's patience ends. *)
Sigkill == signals # {} /\ podAt # "over" /\ Exits("killed")

(* The requests in flight are through, or the close failed. *)
ServerCloses ==
  /\ server = "closing" /\ server' = "closed"
  /\ UNCHANGED <<podAt, podEnv, loopAt, loopHealth, handlers, signals, registry, held, refreshing, candidate, pool, failed, podExit, nulled, keyVars>>

\* Mutant: the pool goes first.
FinallyStep_PoolFirst ==
  CASE pool = "open"      -> pool' = "disposed" /\ UNCHANGED <<server, refreshing, podAt, podExit>>
    [] server = "open"    -> server' = "closing" /\ UNCHANGED <<refreshing, pool, podAt, podExit>>
    [] server = "closing" -> FALSE
    [] server \notin {"open", "closing"} ->
         refreshing' = FALSE /\ podAt' = "over" /\ podExit' = (IF failed THEN "one" ELSE "zero") /\ UNCHANGED <<server, pool>>

(* The finally block of main: the server, the refresh loop after the pass   *)
(* it is in, the pool, and the exit code.                                   *)
FinallyStep ==
  CASE server = "open"    -> server' = "closing" /\ UNCHANGED <<refreshing, pool, podAt, podExit>>
    [] server = "closing" -> FALSE
    [] server \notin {"open", "closing"} /\ refreshing -> candidate = 0 /\ refreshing' = FALSE /\ UNCHANGED <<server, pool, podAt, podExit>>
    [] server \notin {"open", "closing"} /\ ~refreshing ->
         pool' = "disposed" /\ podAt' = "over" /\ podExit' = (IF failed THEN "one" ELSE "zero") /\ UNCHANGED <<server, refreshing>>

Finally ==
  /\ podAt = "finally" /\ FinallyStep
  /\ UNCHANGED <<podEnv, loopAt, loopHealth, handlers, signals, registry, held, candidate, failed, nulled, keyVars>>

(* The platform starts the pod again. *)
Restarts ==
  /\ podAt = "over" /\ podAt' = "down" /\ podEnv' = NoEnv /\ server' = "none"
  /\ loopAt' = [l \in Loops |-> "none"] /\ loopHealth' = [l \in Loops |-> "unknown"]
  /\ handlers' = {} /\ signals' = {} /\ registry' = 0 /\ held' = 0 /\ refreshing' = FALSE /\ candidate' = 0 /\ pool' = "none"
  /\ failed' = FALSE /\ podExit' = "none" /\ nulled' = FALSE
  /\ UNCHANGED keyVars

-----------------------------------------------------------------------------
(* refreshFieldKeyRegistryOnce: a candidate is read and probed, and then    *)
(* replaces the registry that is there by then; a pass that fails leaves it *)
(* alone.                                                                   *)
RefreshReads ==
  /\ refreshing /\ podAt # "over" /\ candidate = 0 /\ Loadable(podEnv) /\ candidate' = vaultKey
  /\ UNCHANGED <<podAt, podEnv, server, loopAt, loopHealth, handlers, signals, registry, held, refreshing, pool, failed, podExit, nulled, keyVars>>

RefreshSwaps ==
  /\ candidate # 0 /\ podAt # "over"
  /\ registry' = candidate /\ candidate' = 0 /\ staleKeys' = (candidate # vaultKey)
  /\ UNCHANGED <<held, podAt, podEnv, server, loopAt, loopHealth, handlers, signals, refreshing, pool, failed, podExit, nulled, vaultKey, sealed>>

(* An operator rotates the keys at their source (external). *)
Rotates ==
  /\ vaultKey <= MaxRotations /\ vaultKey' = vaultKey + 1 /\ staleKeys' = TRUE
  /\ UNCHANGED <<podAt, podEnv, server, loopAt, loopHealth, handlers, signals, registry, held, refreshing, candidate, pool, failed, podExit, nulled, sealed>>

(* The keys this pod writes encrypted fields with: its loops with the       *)
(* registry (in shadow they only watch), its server with the registry or    *)
(* with the one the admin surface holds; without keys none is written.      *)
WritesWith ==
  IF podAt = "over" THEN {}
  ELSE {k \in {registry} : podEnv.mode # "shadow" /\ \E l \in Loops : loopAt[l] \in {"running", "stopping"}}
       \cup {k \in {registry, held} : server \in {"open", "closing"}}

(* An encrypted field is written, by this pod or by one with newer keys.    *)
Seals ==
  /\ \E k \in {vaultKey} \cup (WritesWith \ {0}) : sealed' = sealed \cup {k}
  /\ UNCHANGED <<podAt, podEnv, server, loopAt, loopHealth, handlers, signals, registry, held, refreshing, candidate, pool, failed, podExit, nulled, vaultKey, staleKeys>>

PodNext ==
  \/ Boots \/ ParseRuntimeMode \/ ResolveDbDsn \/ Preflight \/ InstallKeys \/ Listens \/ RunnerInstalls \/ StartLoops
  \/ LoopsOver \/ Sigterm \/ Sigkill \/ ServerCloses \/ Finally \/ Restarts
  \/ RefreshReads \/ RefreshSwaps \/ Rotates \/ Seals
  \/ \E l \in Loops : LoopCrashes(l) \/ LoopStops(l)

-----------------------------------------------------------------------------
(* GET /readyz, with Postgres and Vault up. *)
Ready == server = "open" /\ \A l \in Loops : loopHealth[l] # "down"

(* What serves was checked first and has its keys, unless it may go without *)
(* or the runner's own install took them away.                              *)
ServesWhenSound ==
  server # "none" =>
    /\ MayServe(podEnv) /\ podEnv.migrations = Expected
    /\ registry # 0 \/ KeySource(podEnv) = "none" \/ nulled

(* A dead loop is told to the platform while the pod lives, and in its exit *)
(* code at the end.                                                         *)
DeadLoopsTold ==
  (\E l \in Loops : loopAt[l] = "crashed") => ~Ready /\ podExit # "zero"

(* The pool goes last; and the loops that a signal found listening were all *)
(* told to stop.                                                            *)
TakenDownInOrder ==
  /\ pool = "disposed" => server # "open" /\ server # "closing" /\ ~refreshing /\ \A l \in Loops : loopAt[l] \notin {"running", "stopping"}
  /\ "in time" \in signals => \A l \in Loops : loopAt[l] # "running"

(* A row that this pod cannot read was written after a rotation the pod has *)
(* not seen yet, whatever the restarts and refreshes before.                *)
ReadsWhatIsSealed == registry # 0 /\ (\E k \in sealed : k > registry) => staleKeys

PodSound == ServesWhenSound /\ DeadLoopsTold /\ TakenDownInOrder /\ ReadsWhatIsSealed
=============================================================================
