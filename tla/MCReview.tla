------------------------------ MODULE MCReview ------------------------------
(***************************************************************************)
(* The pipeline of one attempt and the retries of its calls; the static    *)
(* tools of attempts that share a workspace; how findings are merged and   *)
(* arbitrated; what the review says; what the attempts of a pull request   *)
(* record of their findings, and what they leave on GitHub beside the      *)
(* review. They share no state, so a behaviour runs one of them.           *)
(***************************************************************************)
EXTENDS ReviewPipeline, FindingDelivery, PrComments, StaticTools, ReviewBody, PortCalls, TLC

CONSTANTS p1, p2

VARIABLE part

attemptVars == <<pipelineVars, portVars, toolVars>>
findingVars == <<mergeVars, arbVars, bodyVars>>
publishVars == <<deliveryVars, commentVars>>
reviewVars == <<part, attemptVars, findingVars, publishVars>>

ReviewInit ==
  /\ part \in {"pipeline", "ports", "tools", "merge", "arbitration", "body", "delivery", "comments"}
  /\ PipelineInit /\ PortsInit /\ ToolsInit /\ MergeInit /\ ArbInit /\ BodyInit /\ DeliveryInit /\ CommentsInit

AttemptNext ==
  \/ part = "pipeline" /\ PipelineNext /\ UNCHANGED <<portVars, toolVars>>
  \/ part = "ports" /\ PortsNext /\ UNCHANGED <<pipelineVars, toolVars>>
  \/ part = "tools" /\ ToolsNext /\ UNCHANGED <<pipelineVars, portVars>>

FindingNext ==
  \/ part = "merge" /\ MergeNext /\ UNCHANGED <<arbVars, bodyVars>>
  \/ part = "arbitration" /\ ArbNext /\ UNCHANGED <<mergeVars, bodyVars>>
  \/ part = "body" /\ BodyNext /\ UNCHANGED <<mergeVars, arbVars>>

PublishNext ==
  \/ part = "delivery" /\ DeliveryNext /\ UNCHANGED commentVars
  \/ part = "comments" /\ CommentsNext /\ UNCHANGED deliveryVars

ReviewNext ==
  /\ UNCHANGED part
  /\ \/ AttemptNext /\ UNCHANGED <<findingVars, publishVars>>
     \/ FindingNext /\ UNCHANGED <<attemptVars, publishVars>>
     \/ PublishNext /\ UNCHANGED <<attemptVars, findingVars>>

ReviewSpec == ReviewInit /\ [][ReviewNext]_reviewVars

(* The two passes over one workspace are alike. *)
PassSymmetry == Permutations({p1, p2})

(* A linter problem, and a secret in a file under review and in another. *)
MCProblems == {<<"ruff", 1>>, <<"gitleaks", 1>>, <<"gitleaks", 2>>}

(* At most one finding of the linters and two of the model, in three files:  *)
(* texts that repeat each other in part, equal and different places.         *)
Found(files, places, bodies, who, scopes) ==
  [file : files, place : places, sev : {0, 1}, conf : {0, 1}, body : bodies, by : {who}, scope : scopes]
MCLinterIn == {<<>>} \cup {<<f>> : f \in Found({1, 3}, {1}, {<<1>>, <<3>>}, 1, {"chunk"})}
MCLlmIn ==
  {<<f, g>> : f \in Found({1, 2}, {2}, {<<1>>, <<2>>, <<1, 3>>}, 2, {"chunk"}),
              g \in Found({1, 2}, {1, 2}, {<<1>>, <<2>>, <<1, 3>>}, 3, {"chunk", "global"})}

(* The bundled policy for one tool that may be overruled and one that may not. *)
MCMinConfidence == [ruff |-> 1, gitleaks |-> Never]
MCToolOf == <<"ruff", "gitleaks">>

(* Findings inside, around and outside two changed ranges of a file, in a     *)
(* file without changed lines and in one the diff does not have.              *)
FoundAt(file, first, last, sev, category, rule, sources) ==
  [file |-> file, first |-> first, last |-> last, sev |-> sev, category |-> category, rule |-> rule, sources |-> sources,
   suggestion |-> category = "bug"]
Nit(file, first, last) == FoundAt(file, first, last, 0, "style", "style", <<>>)
MCBroad ==
  {FoundAt(place[1], place[2], place[3], 1, c, "security", <<"policy_rule", "linter_rule", "repo_path">>) :
     place \in {<<1, 1, 2>>, <<1, 2, 5>>, <<1, 4, 5>>, <<1, 4, 8>>, <<1, 7, 8>>, <<1, 1, 9>>, <<3, 1, 2>>},
     c \in {"security", "style"}}
MCNarrow == {Nit(1, 3, 4), FoundAt(1, 3, 4, 1, "bug", "style", <<>>), FoundAt(2, 1, 1, 0, "style", "style", <<"linter_rule">>)}
MCAggregates ==
  {<<>>} \cup {<<f>> : f \in {x \in MCBroad : x.category = "security"} \cup MCNarrow}
    \cup {<<f, Nit(1, 3, 4)>> : f \in {x \in MCBroad : x.category = "style"}}
    \cup {<<f, g>> : f \in MCNarrow, g \in {x \in MCBroad : x.last = 2 /\ x.file = 1 /\ x.category = "security"}}
    \cup {<<f, g, g, Nit(2, 1, 1)>> : f \in {x \in MCBroad : x.first = 4 /\ x.category = "security"},
                     g \in {Nit(1, 3, 4), FoundAt(3, 1, 2, 1, "context_breaks_consumer", "style", <<>>)}}
MCChangedLines == 1 :> <<<<1, 2>>, <<5, 8>>>> @@ 2 :> <<>>

(* Two files, one of them in a directory with an owner. *)
MCRuleFiles == {<<"d", "a">>, <<"a">>}
MCOwnerRules ==
  {[pat |-> [glob |-> <<[star |-> FALSE, letters |-> {"d"}]>>, dir |-> TRUE], owners |-> {1}],
   [pat |-> [glob |-> <<Star, [star |-> FALSE, letters |-> {"a", "b"}]>>, dir |-> FALSE], owners |-> {2, 3}]}

(* One attempt: the tools end before the workspace goes, and what is tried   *)
(* again in place neither starts late nor pays without need.                 *)
AttemptSound == ToolsKeepWorkspace /\ PortCallsSound

(* What GitHub shows: the review's text and comments, and the comments that  *)
(* are posted beside it.                                                     *)
PublishedSound == CommentsTidy /\ BodySound
=============================================================================
