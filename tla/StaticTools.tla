---------------------------- MODULE StaticTools -----------------------------
(***************************************************************************)
(* The static-analysis stage of a review: the tools run side by side, each *)
(* as a process of its own that can fail to start, hang, be cut off by its *)
(* own timeout or the stage's soft barrier, flood its output or exit with  *)
(* garbage; what they report is capped, narrowed to changed lines and      *)
(* curated by a model. The secrets scanner works on a staging directory in *)
(* the workspace, whose path is the same for every attempt: an attempt     *)
(* that was given up and its successor can both be at it.                  *)
(***************************************************************************)
EXTENDS Naturals, FiniteSets, FiniteSetsExt

CONSTANTS
  Passes,        \* attempts at the stage on one workspace
  Linters,       \* ruff, eslint
  Sources,       \* the files of the workspace, numbers
  ToReview,      \* sandbox_files: those of the pull request
  Problems,      \* pairs of a tool and a file in which it finds something
  ChangedIn,     \* files whose problem is on a changed line
  MaxRawPerTool, \* MAX_RAW_PER_TOOL
  MaxFilesPerRunner

ASSUME ToolsAssumption ==
  /\ Sources \subseteq Nat /\ ToReview \subseteq Sources /\ ChangedIn \subseteq ToReview
  /\ MaxRawPerTool \in Nat \ {0} /\ MaxFilesPerRunner \in Nat \ {0} /\ "gitleaks" \notin Linters

Scanner == "gitleaks"
AllTools == Linters \cup {Scanner}

VARIABLES
  stagePass,  \* each pass: where it is
  toolTask,   \* each pass and tool: the RunnerTask with its process
  stagingDir, \* GITLEAKS_SCAN_STAGING_DIRNAME: the files linked into it
  toolResult  \* each pass: what the activity returns

toolVars == <<stagePass, toolTask, stagingDir, toolResult>>

(* at: the step; toLink: files still to be staged; tree: the whole workspace *)
(* is scanned; proc: the child process; outcome: RunnerOutcome; got: the     *)
(* findings; excuse: why the tool may have missed something.                 *)
NoTask == [at |-> "none", toLink |-> {}, tree |-> FALSE, staged |-> FALSE, proc |-> "none",
           outcome |-> "none", got |-> {}, excuse |-> {}]
NoResult == [found |-> {}, tier1 |-> {}, errors |-> {}, truncated |-> {}, skippedCurator |-> FALSE]

ToolsInit ==
  /\ stagePass = [p \in Passes |-> "idle"] /\ toolTask = [p \in Passes |-> [t \in AllTools |-> NoTask]]
  /\ stagingDir = {} /\ toolResult = [p \in Passes |-> NoResult]

Lowest(S, n) == {x \in S : Cardinality({y \in S : y < x}) < n}

(* capRunnerFiles *)
FilesFor(t) == Lowest(ToReview, MaxFilesPerRunner)

Task(p, t, r) == toolTask' = [toolTask EXCEPT ![p][t] = r]

(* run: one task per tool that has files, the others are skipped. *)
StartTools(p) ==
  /\ stagePass[p] = "idle" /\ stagePass' = [stagePass EXCEPT ![p] = "running"]
  /\ toolTask' = [toolTask EXCEPT ![p] = [t \in AllTools |->
       [NoTask EXCEPT !.at = IF FilesFor(t) = {} THEN "skipped" ELSE IF t = Scanner THEN "stage" ELSE "spawn"]]]
  /\ UNCHANGED <<stagingDir, toolResult>>

-----------------------------------------------------------------------------
(* stageChangedFiles: the directory is emptied first, whoever uses it. The   *)
(* others' scans are disturbed from here on.                                 *)
Disturbed(p) == [q \in Passes |-> IF q # p /\ toolTask[q][Scanner].at \in {"link", "spawn", "race"} /\ ~toolTask[q][Scanner].tree
                                  THEN [toolTask[q] EXCEPT ![Scanner].excuse = @ \cup {"raced"}] ELSE toolTask[q]]

StageReset(p) ==
  /\ toolTask[p][Scanner].at = "stage" /\ stagingDir' = {}
  /\ toolTask' = [Disturbed(p) EXCEPT ![p][Scanner] =
                    [toolTask[p][Scanner] EXCEPT !.at = "link", !.toLink = FilesFor(Scanner)]]
  /\ UNCHANGED <<stagePass, toolResult>>

(* Emptying or creating it fails: the whole tree is scanned instead.         *)
StagingFails(p) ==
  /\ toolTask[p][Scanner].at = "stage" /\ stagingDir' \in {stagingDir, {}}
  /\ toolTask' = [(IF stagingDir' = {} THEN Disturbed(p) ELSE toolTask) EXCEPT
                    ![p][Scanner] = [toolTask[p][Scanner] EXCEPT !.at = "spawn", !.tree = TRUE]]
  /\ UNCHANGED <<stagePass, toolResult>>

(* One file is linked, creating the directories it needs, or skipped. *)
StageFile(p) ==
  LET r == toolTask[p][Scanner]
      f == Min(r.toLink) IN
  /\ r.at = "link" /\ r.toLink # {}
  /\ \/ /\ stagingDir' = stagingDir \cup {f}
        /\ Task(p, Scanner, [r EXCEPT !.toLink = @ \ {f}])
     \/ /\ UNCHANGED stagingDir
        /\ Task(p, Scanner, [r EXCEPT !.toLink = @ \ {f}, !.excuse = @ \cup {"unstaged"}])
  /\ UNCHANGED <<stagePass, toolResult>>

Staged(p) ==
  /\ toolTask[p][Scanner].at = "link" /\ toolTask[p][Scanner].toLink = {}
  /\ Task(p, Scanner, [toolTask[p][Scanner] EXCEPT !.at = "spawn", !.staged = TRUE])
  /\ UNCHANGED <<stagePass, stagingDir, toolResult>>

-----------------------------------------------------------------------------
(* The task is settled; the scanner's finally block removes its directory    *)
(* (or fails to, and only logs it).                                          *)
Settled(r) == [r EXCEPT !.at = "settled", !.tree = FALSE, !.staged = FALSE]

Settles(p, t, r) ==
  /\ IF r.staged
     THEN \/ /\ stagingDir' = {}
             /\ toolTask' = [Disturbed(p) EXCEPT ![p][t] = Settled(r)]
          \/ UNCHANGED stagingDir /\ Task(p, t, Settled(r))
     ELSE UNCHANGED stagingDir /\ Task(p, t, Settled(r))
  /\ UNCHANGED <<stagePass, toolResult>>

Spawn(p, t) ==
  /\ toolTask[p][t].at = "spawn" /\ Task(p, t, [toolTask[p][t] EXCEPT !.at = "race", !.proc = "running"])
  /\ UNCHANGED <<stagePass, stagingDir, toolResult>>

(* The command throws, or the child reports an error before anything else. *)
LaunchFails(p, t) ==
  /\ toolTask[p][t].at = "spawn" /\ Settles(p, t, [toolTask[p][t] EXCEPT !.outcome = "failed_startup"])

(* What a scan that ends now has seen. *)
Scanned(p, t) ==
  IF t # Scanner THEN FilesFor(t) ELSE IF toolTask[p][t].tree THEN Sources ELSE stagingDir

(* parse...Output: codes 0 and 1 are results, any other is RunnerToolError;  *)
(* a child that was killed from outside is resource-killed.                  *)
ExitOutcome(code) ==
  CASE code = "crashed" -> "failed_runtime" [] code = "sigkilled" -> "oom" [] OTHER -> "completed"

(* The child closes. Output that does not parse is an empty list. *)
ToolExits(p, t) ==
  /\ toolTask[p][t].at = "race"
  /\ \E code \in {"ok", "garbled", "crashed", "sigkilled"} :
       Settles(p, t, [toolTask[p][t] EXCEPT
         !.proc = "gone", !.outcome = ExitOutcome(code),
         !.excuse = IF code = "garbled" THEN @ \cup {"garbled"} ELSE @,
         !.got = IF code = "ok" THEN {f \in Scanned(p, t) : <<t, f>> \in Problems} ELSE {}])

(* The runner's timeout or the stage's barrier: SIGTERM to the group. Too    *)
(* much output takes the same way out as "oom".                              *)
CutOff(p, t) ==
  /\ toolTask[p][t].at = "race"
  /\ \E o \in {"timed_out", "oom"} :
       Task(p, t, [toolTask[p][t] EXCEPT !.at = "terminating", !.outcome = o])
  /\ UNCHANGED <<stagePass, stagingDir, toolResult>>

TermWorks(p, t) ==
  /\ toolTask[p][t].at = "terminating" /\ Settles(p, t, [toolTask[p][t] EXCEPT !.proc = "gone"])

(* The child ignored SIGTERM for its grace: SIGKILL. *)
GraceEnds(p, t) ==
  /\ toolTask[p][t].at = "terminating"
  /\ Task(p, t, [toolTask[p][t] EXCEPT !.at = "killing", !.proc = "killed"])
  /\ UNCHANGED <<stagePass, stagingDir, toolResult>>

(* It is gone, or a second grace ends first. *)
KillWaited(p, t) ==
  /\ toolTask[p][t].at = "killing"
  /\ \E s \in {"killed", "gone"} : Settles(p, t, [toolTask[p][t] EXCEPT !.proc = s])

-----------------------------------------------------------------------------
Reported(p) == {x \in AllTools \X Sources : x[2] \in toolTask[p][x[1]].got}
OfTool(S, t) == {x \in S : x[1] = t}

(* perToolErrorsFromStatuses *)
Degraded(p) == {t \in AllTools : toolTask[p][t].outcome \in {"failed_startup", "failed_runtime", "timed_out", "oom"}}

(* capPerTool: the first findings of each tool, in the order it reported. *)
CapPerTool(S) == {x \in S : x[2] \in Lowest({y[2] : y \in OfTool(S, x[1])}, MaxRawPerTool)}

(* filterToChangedLines *)
OnChangedLines(S) == {x \in S : x[2] \in ChangedIn}

(* run waits for every task; statuses and findings in the order of the tools. *)
Collect(p) ==
  /\ stagePass[p] = "running" /\ \A t \in AllTools : toolTask[p][t].at \in {"settled", "skipped"}
  /\ stagePass' = [stagePass EXCEPT ![p] = "curate"]
  /\ toolResult' = [toolResult EXCEPT ![p] =
       [NoResult EXCEPT !.tier1 = Reported(p), !.errors = Degraded(p),
                        !.truncated = {x[1] : x \in Reported(p) \ CapPerTool(Reported(p))},
                        !.found = OnChangedLines(CapPerTool(Reported(p)))]]
  /\ UNCHANGED <<toolTask, stagingDir>>

\* Mutant: everything is left to the model.
AlwaysPromote_None(S) == {}

(* autoPromote for ALWAYS_PROMOTE_TOOLS. *)
AlwaysPromote(S) == OfTool(S, Scanner)

(* curate: what is always promoted, and what the model picks of the rest.    *)
(* Its failure is open, except for output judged unsafe, which fails the     *)
(* stage; blocks that do not parse are dropped. The tasks are over.          *)
Curate(p) ==
  LET S == toolResult[p].found
      rest == S \ AlwaysPromote(S) IN
  /\ stagePass[p] = "curate"
  /\ \/ /\ rest # {} /\ stagePass' = [stagePass EXCEPT ![p] = "done"]
        /\ \E picked \in SUBSET rest : toolResult' = [toolResult EXCEPT ![p].found = AlwaysPromote(S) \cup picked]
     \/ /\ stagePass' = [stagePass EXCEPT ![p] = "done"]
        /\ toolResult' = [toolResult EXCEPT ![p].found = AlwaysPromote(S), ![p].skippedCurator = TRUE]
     \/ /\ rest # {} /\ stagePass' = [stagePass EXCEPT ![p] = "unsafe"] /\ UNCHANGED toolResult
  /\ toolTask' = [toolTask EXCEPT ![p] = [t \in AllTools |-> NoTask]]
  /\ UNCHANGED stagingDir

ToolsNext == \E p \in Passes :
  \/ StartTools(p) \/ StageReset(p) \/ StagingFails(p) \/ StageFile(p) \/ Staged(p) \/ Collect(p) \/ Curate(p)
  \/ \E t \in AllTools : \/ Spawn(p, t) \/ LaunchFails(p, t) \/ ToolExits(p, t) \/ CutOff(p, t)
                         \/ TermWorks(p, t) \/ GraceEnds(p, t) \/ KillWaited(p, t)

-----------------------------------------------------------------------------
(* A tool reported "completed" has found what there is to find in the files  *)
(* it was given, unless its output was garbage, a file could not be staged,  *)
(* or another pass emptied the directory under it; one that is not reported  *)
(* completed is listed among the errors and contributes nothing.             *)
CleanMeansScanned ==
  \A p \in Passes : stagePass[p] = "curate" =>
    \A t \in AllTools : LET r == toolTask[p][t] IN
      /\ r.outcome = "completed" /\ r.excuse = {} =>
           \A f \in FilesFor(t) : <<t, f>> \in Problems => <<t, f>> \in toolResult[p].tier1
      /\ r.at = "settled" /\ r.outcome # "completed" => t \in toolResult[p].errors /\ OfTool(toolResult[p].tier1, t) = {}

(* A secret found on a changed line reaches the review whatever the model    *)
(* says or does, unless the scanner reported more than the cap.              *)
SecretsReachReview ==
  \A p \in Passes : stagePass[p] = "done" =>
    OnChangedLines(OfTool(toolResult[p].tier1, Scanner)) \subseteq toolResult[p].found \/ Scanner \in toolResult[p].truncated

(* A task is settled only when its child is gone or was sent SIGKILL: no     *)
(* tool goes on reading a workspace that is about to be released.            *)
NoToolLeftRunning ==
  \A p \in Passes, t \in AllTools : toolTask[p][t].at = "settled" => toolTask[p][t].proc # "running"

(* What the tools stage tells the review is true: clean means scanned, a     *)
(* secret is not lost, and nothing runs on after its task was settled.       *)
ToolsHonest == CleanMeansScanned /\ SecretsReachReview /\ NoToolLeftRunning
=============================================================================
