----------------------------- MODULE PrComments -----------------------------
(***************************************************************************)
(* What a review leaves on the pull request besides the review itself: the *)
(* placeholder comment, the summary in the description, the fix-prompt     *)
(* comment and the check run. Each is found again by a marker, a name or a *)
(* database claim, with a gap between the look and the write. Attempts     *)
(* overlap when a lease is stolen from one that is still running.          *)
(***************************************************************************)
EXTENDS Integers, FiniteSets, FiniteSetsExt

CONSTANTS
  Attempts,  \* attempts at reviewing one head of one pull request
  MaxEdits   \* bound on the user's edits of the description

ASSUME CommentsAssumption == MaxEdits \in Nat /\ "none" \notin Attempts

VARIABLES
  hub,      \* GitHub: placeholder and fix-prompt comments by id, check runs, description
  fix,      \* core.fix_prompts: the claim on posting, and whether it was posted
  pc,       \* where each attempt is
  mine,     \* what each attempt read last
  overtook, \* history: a comment was created after its claim had passed to another
  cleared   \* history: by attempt, the newest comment when it listed for its teardown

commentVars == <<hub, fix, pc, mine, overtook, cleared>>

CommentsInit ==
  /\ hub = [last |-> 0, waiting |-> {}, prompts |-> {}, checks |-> 0, text |-> 0, shown |-> 0]
  /\ fix = [owner |-> "none", expired |-> FALSE, posted |-> FALSE]
  /\ pc = [a \in Attempts |-> "start"] /\ mine = [a \in Attempts |-> 0]
  /\ overtook = FALSE /\ cleared = [a \in Attempts |-> 0]

Step(a, from, to) == pc[a] = from /\ pc' = [pc EXCEPT ![a] = to]

(* doPostPlaceholder: list, and create when no comment has the marker. A     *)
(* failed call ends it quietly.                                              *)
ListPlaceholder(a) ==
  /\ \/ hub.waiting = {} /\ Step(a, "start", "placeholder")
     \/ Step(a, "start", "review")
  /\ UNCHANGED <<hub, fix, mine, overtook, cleared>>

CreatePlaceholder(a) ==
  /\ Step(a, "placeholder", "review")
  /\ hub' = [hub EXCEPT !.last = @ + 1, !.waiting = @ \cup {hub.last + 1}]
  /\ UNCHANGED <<fix, mine, overtook, cleared>>

(* The review is posted (PostReview); an attempt that cannot, ends here and  *)
(* leaves its placeholder.                                                   *)
Review(a) ==
  /\ \/ Step(a, "review", "check")
     \/ Step(a, "review", "dead")
  /\ UNCHANGED <<hub, fix, mine, overtook, cleared>>

(* doPostCheckRun: the check run of this head is updated, or created. *)
FindCheck(a) ==
  /\ Step(a, "check", IF hub.checks = 0 THEN "new check" ELSE "description")
  /\ UNCHANGED <<hub, fix, mine, overtook, cleared>>

CreateCheck(a) ==
  /\ Step(a, "new check", "description")
  /\ hub' = [hub EXCEPT !.checks = @ + 1]
  /\ UNCHANGED <<fix, mine, overtook, cleared>>

(* doUpdatePrDescriptionSummary: GET, replace the summary block, PATCH. *)
GetBody(a) ==
  /\ Step(a, "description", "patch")
  /\ mine' = [mine EXCEPT ![a] = hub.text]
  /\ UNCHANGED <<hub, fix, overtook, cleared>>

PatchBody(a) ==
  /\ Step(a, "patch", "prompt")
  /\ hub' = [hub EXCEPT !.shown = mine[a]]
  /\ UNCHANGED <<fix, mine, overtook, cleared>>

UserEdits ==
  /\ hub.text < MaxEdits
  /\ hub' = [hub EXCEPT !.text = @ + 1, !.shown = hub.text + 1]
  /\ UNCHANGED <<fix, pc, mine, overtook, cleared>>

MayClaim == ~ fix.posted /\ (fix.owner = "none" \/ fix.expired)

(* generateFixPrompt: persist, then claimCommentPost, which one caller wins  *)
(* until the claim's TTL has passed.                                         *)
ClaimPrompt(a) ==
  /\ IF MayClaim
     THEN Step(a, "prompt", "find") /\ fix' = [fix EXCEPT !.owner = a, !.expired = FALSE]
     ELSE Step(a, "prompt", "teardown") /\ UNCHANGED fix
  /\ UNCHANGED <<hub, mine, overtook, cleared>>

ClaimExpires ==
  /\ fix.owner # "none" /\ ~ fix.expired
  /\ fix' = [fix EXCEPT !.expired = TRUE]
  /\ UNCHANGED <<hub, pc, mine, overtook, cleared>>

Record(a) == IF fix.owner = a THEN [owner |-> "none", expired |-> FALSE, posted |-> TRUE] ELSE fix

Posted == hub.prompts

(* A comment whose response was lost is found by its marker and adopted. *)
FindPrompt(a) ==
  /\ IF Posted # {}
     THEN Step(a, "find", "teardown") /\ fix' = Record(a)
     ELSE Step(a, "find", "create") /\ UNCHANGED fix
  /\ UNCHANGED <<hub, mine, overtook, cleared>>

(* The comment is created; the answer may be lost, and then nothing recorded. *)
CreatePrompt(a) ==
  /\ Step(a, "create", "record") \/ Step(a, "create", "teardown")
  /\ hub' = [hub EXCEPT !.last = @ + 1, !.prompts = @ \cup {hub.last + 1}]
  /\ overtook' = (overtook \/ fix.owner # a)
  /\ UNCHANGED <<fix, mine, cleared>>

RecordPrompt(a) ==
  /\ Step(a, "record", "teardown")
  /\ fix' = Record(a)
  /\ UNCHANGED <<hub, mine, overtook, cleared>>

Matching == hub.waiting

(* doDeletePlaceholder: every comment with the marker goes, whichever        *)
(* attempt wrote it; a failed listing leaves them.                           *)
Teardown(a) ==
  /\ \/ /\ Step(a, "teardown", "done")
        /\ hub' = (IF hub.waiting = {} THEN hub ELSE [hub EXCEPT !.waiting = @ \ Matching])
        /\ cleared' = [cleared EXCEPT ![a] = hub.last]
     \/ Step(a, "teardown", "dead") /\ UNCHANGED <<hub, cleared>>
  /\ UNCHANGED <<fix, mine, overtook>>

(* The attempt is aborted or its pod dies. *)
Dies(a) ==
  /\ pc[a] \notin {"start", "done", "dead"}
  /\ pc' = [pc EXCEPT ![a] = "dead"]
  /\ UNCHANGED <<hub, fix, mine, overtook, cleared>>

CommentsNext ==
  \/ \E a \in Attempts :
       \/ ListPlaceholder(a) \/ CreatePlaceholder(a) \/ Review(a) \/ FindCheck(a) \/ CreateCheck(a)
       \/ GetBody(a) \/ PatchBody(a) \/ ClaimPrompt(a) \/ FindPrompt(a) \/ CreatePrompt(a)
       \/ RecordPrompt(a) \/ Teardown(a) \/ Dies(a)
  \/ UserEdits \/ ClaimExpires

-----------------------------------------------------------------------------
(* A review gets one fix-prompt comment however often it is attempted, also  *)
(* when an answer was lost or an attempt died after creating it. Only a      *)
(* claim that ran out under an attempt still posting lets two appear.        *)
OneFixPrompt == Cardinality(hub.prompts) > 1 => overtook

(* Once an attempt has torn down, every placeholder posted before that is    *)
(* gone, the ones of attempts that died or overlapped included.              *)
PlaceholdersCleared ==
  \A a \in Attempts, c \in hub.waiting : pc[a] = "done" => c > cleared[a]

(* However attempts die and overlap, a pull request is left with at most    *)
(* one fix prompt and, after a teardown, with no older placeholder.         *)
CommentsTidy == OneFixPrompt /\ PlaceholdersCleared
=============================================================================
