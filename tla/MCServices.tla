----------------------------- MODULE MCServices -----------------------------
(***************************************************************************)
(* Services of the processes, their cron jobs and what administrators do.  *)
(* The parts share no state, so a behaviour runs one of them: `part` says  *)
(* which.                                                                  *)
(***************************************************************************)
EXTENDS Approvals, Flags, Login, LlmSpend, LlmConfig, LlmRouting, GithubTransport, Retention, PodLifecycle, TLC

CONSTANTS a1, a2, a3, k1, k2, o1, zero
VARIABLE part

MCKeyOf == a1 :> k1 @@ a2 :> k1 @@ a3 :> k2
MCOrgOf == k1 :> o1 @@ k2 :> zero

MCKeyset == [text |-> TRUE, version |-> "v1", keys |-> [v \in {"v0", "v1"} |-> 32]]
MCPod ==
  [mode |-> "postgres", source |-> "env", secrets |-> "unset", production |-> TRUE, keyset |-> MCKeyset, agentFile |-> FALSE, auth |-> TRUE,
   met |-> {"dsn", "extensions", "schemas", "config"}, migrations |-> <<1, 2>>, timing |-> <<15, 60, 900>>]
MCPodEnvs ==
  {MCPod, [MCPod EXCEPT !.mode = "shadow"], [MCPod EXCEPT !.mode = "temporal"], [MCPod EXCEPT !.source = "unset", !.secrets = "vault"],
   [MCPod EXCEPT !.source = "unset", !.production = FALSE, !.agentFile = TRUE, !.auth = FALSE],
   [MCPod EXCEPT !.source = "file", !.agentFile = TRUE], 
   [MCPod EXCEPT !.keyset.keys["v0"] = 16], [MCPod EXCEPT !.keyset.version = "v2"], [MCPod EXCEPT !.source = "vault", !.keyset.version = ""],
   [MCPod EXCEPT !.keyset = [text |-> FALSE, version |-> "", keys |-> <<>>]],
   [MCPod EXCEPT !.met = {"dsn"}], [MCPod EXCEPT !.migrations = <<1, 2, 3>>], [MCPod EXCEPT !.migrations = <<1>>], [MCPod EXCEPT !.timing = <<15, 20, 900>>], [MCPod EXCEPT !.timing = <<15, 3601, 9000>>],
   [MCPod EXCEPT !.source = "consul", !.agentFile = TRUE]}
MCExpected == <<1, 2>>

accessVars == <<approvalVars, flagVars, loginVars, secretVars>>
llmVars == <<spendVars, configVars, routingVars>>
servicesVars == <<part, accessVars, llmVars, transportVars, retentionVars, podVars>>

ServicesInit ==
  /\ part \in {"approvals", "flags", "login", "secrets", "spend", "config", "routing", "transport", "retention", "pod"}
  /\ ApprovalsInit /\ FlagsInit /\ LoginInit /\ SecretsInit
  /\ SpendInit /\ ConfigInit /\ RoutingInit /\ TransportInit /\ RetentionInit /\ PodInit
  /\ part # "login" => cred.granted
  /\ part # "secrets" => vaultHas /\ admin = "active"
  /\ part # "spend" => \A s \in Scopes, c \in CapChoices : cap[s] <= c
  /\ part # "retention" => \A r \in OldRuns : aged[r].state = "RUNNING" /\ aged[r].joined

AccessNext ==
  \/ part = "approvals" /\ ApprovalsNext /\ UNCHANGED <<flagVars, loginVars, secretVars>>
  \/ part = "flags" /\ FlagsNext /\ UNCHANGED <<approvalVars, loginVars, secretVars>>
  \/ part = "login" /\ LoginNext /\ UNCHANGED <<approvalVars, flagVars, secretVars>>
  \/ part = "secrets" /\ SecretsNext /\ UNCHANGED <<approvalVars, flagVars, loginVars>>

LlmNext ==
  \/ part = "spend" /\ SpendNext /\ UNCHANGED <<configVars, routingVars>>
  \/ part = "config" /\ ConfigNext /\ UNCHANGED <<spendVars, routingVars>>
  \/ part = "routing" /\ RoutingNext /\ UNCHANGED <<spendVars, configVars>>

ServicesNext ==
  /\ UNCHANGED part
  /\ \/ AccessNext /\ UNCHANGED <<llmVars, transportVars, retentionVars, podVars>>
     \/ LlmNext /\ UNCHANGED <<accessVars, transportVars, retentionVars, podVars>>
     \/ part = "transport" /\ TransportNext /\ UNCHANGED <<accessVars, llmVars, retentionVars, podVars>>
     \/ part = "retention" /\ RetentionNext /\ UNCHANGED <<accessVars, llmVars, transportVars, podVars>>
     \/ part = "pod" /\ PodNext /\ UNCHANGED <<accessVars, llmVars, transportVars, retentionVars>>

ServicesSpec == ServicesInit /\ [][ServicesNext]_servicesVars

(* Who may do what: no role changes by one administrator's wish, a password *)
(* that was guessed at often enough is locked, and replicas that booted at  *)
(* the same time sign with one key.                                         *)
AccessSound == TwoPersonRule /\ LockedAtThreshold /\ ReplicasAgree

(* What a model call rests on: a budget that was not overdrawn, provider    *)
(* settings no older than the cache promises, and a model that was usable.  *)
LlmCallsSound == SpendingSound /\ CallUsesCurrentSettings /\ PinServedWasUsable

(* What a process does around its work: it serves only after its checks,    *)
(* tells of its dead loops and goes down in order, and it calls GitHub with *)
(* tokens that are alive and a budget that is respected.                    *)
ProcessesSound == PodSound /\ TransportSound
=============================================================================
