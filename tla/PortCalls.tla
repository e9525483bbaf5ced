----------------------------- MODULE PortCalls ------------------------------
(***************************************************************************)
(* How the review shell calls the activities of one attempt: through the   *)
(* abort gate and, for the ports whose call may be repeated, through       *)
(* runWithRetry, which races each try against its start-to-close timeout.  *)
(* What a try started may outlive it: only the cloner listens to the try's *)
(* signal. A port is called once here; "review" stands for the paid model  *)
(* call of a chunk, "read" for the read-only ports, "post" and "audit" for *)
(* the ports called once only.                                             *)
(***************************************************************************)
EXTENDS Naturals, FiniteSets

CONSTANT MaxTries   \* retry.maximumAttempts of the repeated ports

ASSUME PortAssumption == MaxTries \in Nat \ {0}

Ports == {"clone", "review", "read", "post", "audit"}

VARIABLES
  call,     \* by port: where the call is, its try, the error it saw last
  works,    \* by port: the tries whose work still runs
  told,     \* by port: the tries whose signal was aborted
  answered, \* core.llm_invocations holds the chunk's answer
  fresh,    \* tries of "review" that found no answer there
  paid,     \* history: model calls paid for
  timeouts, \* history: tries of "review" that timed out
  aborted,  \* the composed signal of the shell
  deps,     \* the memoised dependencies of the cloner: none, built or rejected
  late      \* history: a work began although the signal was aborted

portVars == <<call, works, told, answered, fresh, paid, timeouts, aborted, deps, late>>

PortsInit ==
  /\ call = [p \in Ports |-> [at |-> "idle", try |-> 0, err |-> "none"]]
  /\ works = [p \in Ports |-> {}] /\ told = [p \in Ports |-> {}]
  /\ answered = FALSE /\ fresh = {} /\ paid = 0 /\ timeouts = 0 /\ aborted = FALSE /\ deps = "none" /\ late = FALSE

-----------------------------------------------------------------------------
(* IN_PROCESS_RETRY_POLICIES: the ports whose calls are repeated, with the  *)
(* tries they have; the others are called once.                             *)
Repeated == {"clone", "review", "read"}
Budget(p) == IF p \in Repeated THEN MaxTries ELSE 1

\* Mutant: a throttled call is repeated like any other.
NonRetryable_NotThrottle(p, e) == e = "cancel" \/ (p = "review" /\ e = "declared")

(* toRetryPolicy: the errors a port declares final, throttling (the runner  *)
(* defers the job instead) and the abort gate's own.                        *)
NonRetryable(p, e) == e \in {"throttle", "cancel"} \/ (p = "review" /\ e = "declared")

(* Errors a work may end with: what it calls fails, is throttled or refuses. *)
Errors(p) ==
  {"fault"} \cup (IF p \in {"clone", "review", "post"} THEN {"throttle"} ELSE {})
            \cup (IF p = "review" THEN {"declared"} ELSE {})

(* What a try starts. The cloner's dependencies are built once and kept,    *)
(* whether that succeeded or not; the model client first looks for an       *)
(* answer in the ledger.                                                    *)
Starts(p, n) ==
  /\ works' = [works EXCEPT ![p] = @ \cup {n}]
  /\ late' = (late \/ aborted)
  /\ IF p = "clone" /\ deps = "none" THEN deps' \in {"built", "rejected"} ELSE UNCHANGED deps
  /\ fresh' = IF p = "review" /\ ~answered THEN fresh \cup {n} ELSE fresh

(* withAbortGate, and the gate of runWithRetry before each further try. *)
Gate(p) == IF aborted THEN "shut" ELSE "open"

(* The orchestrator awaits its calls one after the other and goes on after  *)
(* a failed one only where the stage may fail.                              *)
Before(p) ==
  CASE p = "clone"  -> {}
    [] p = "read"   -> {"clone"}
    [] p = "review" -> {"clone", "read"}
    [] p = "audit"  -> {"clone", "read", "review"}
    [] p = "post"   -> Ports \ {"post"}

Dispatch(p) ==
  /\ call[p].at = "idle"
  /\ \A q \in Before(p) : call[q].at = "done" \/ (q = "read" /\ call[q].at = "failed")
  /\ \/ /\ Gate(p) = "shut"
        /\ call' = [call EXCEPT ![p] = [at |-> "failed", try |-> 0, err |-> "cancel"]]
        /\ UNCHANGED <<works, late, deps, fresh>>
     \/ /\ Gate(p) = "open"
        /\ call' = [call EXCEPT ![p] = [at |-> "running", try |-> 1, err |-> "none"]]
        /\ Starts(p, 1)
  /\ UNCHANGED <<told, answered, paid, timeouts, aborted>>

(* runWithRetry's catch: over, or a pause. *)
AfterError(p, e) ==
  [call[p] EXCEPT !.err = e,
     !.at = IF p \notin Repeated \/ NonRetryable(p, e) \/ call[p].try = Budget(p) \/ aborted THEN "failed" ELSE "pause"]

(* A work ends well. The answer of the model is stored whoever still waits. *)
Succeeds(p) ==
  \E n \in works[p] :
    /\ p = "clone" => deps = "built" /\ n \notin told[p]
    /\ works' = [works EXCEPT ![p] = @ \ {n}]
    /\ answered' = (answered \/ p = "review")
    /\ paid' = IF p = "review" /\ n \in fresh THEN paid + 1 ELSE paid
    /\ call' = IF n = call[p].try /\ call[p].at = "running" THEN [call EXCEPT ![p].at = "done"] ELSE call
    /\ UNCHANGED <<told, fresh, timeouts, aborted, deps, late>>

(* A work ends with an error, or was told to stop and did. A model call     *)
(* that fails is not charged.                                               *)
Fails(p) ==
  \E n \in works[p], e \in Errors(p) \cup {"cancel"} :
    /\ e = "cancel" => p \in {"clone", "post"} /\ (n \in told[p] \/ aborted)
    /\ p = "clone" /\ deps = "rejected" => e = "fault"
    /\ works' = [works EXCEPT ![p] = @ \ {n}]
    /\ call' = IF n = call[p].try /\ call[p].at = "running" THEN [call EXCEPT ![p] = AfterError(p, e)] ELSE call
    /\ UNCHANGED <<told, answered, fresh, paid, timeouts, aborted, deps, late>>

(* ac.abort of the try that timed out. *)
TellsWork(p) == {call[p].try}

(* The timer wins Promise.race: the try's signal is aborted and the wrapper *)
(* goes on without the work.                                                *)
TimesOut(p) ==
  /\ p \in Repeated /\ call[p].at = "running"
  /\ told' = [told EXCEPT ![p] = @ \cup TellsWork(p)]
  /\ call' = [call EXCEPT ![p].err = "timeout", ![p].at = IF call[p].try = Budget(p) \/ aborted THEN "failed" ELSE "pause"]
  /\ timeouts' = IF p = "review" THEN timeouts + 1 ELSE timeouts
  /\ UNCHANGED <<works, answered, fresh, paid, aborted, deps, late>>

(* The pause ends, or the abort wakes it: the last error is thrown then. *)
PauseEnds(p) ==
  /\ call[p].at = "pause"
  /\ \/ /\ Gate(p) = "shut" /\ call' = [call EXCEPT ![p].at = "failed"]
        /\ UNCHANGED <<works, late, deps, fresh>>
     \/ /\ Gate(p) = "open" /\ call' = [call EXCEPT ![p].at = "running", ![p].try = @ + 1]
        /\ Starts(p, call[p].try + 1)
  /\ UNCHANGED <<told, answered, paid, timeouts, aborted>>

(* The lease or the mutex is lost: every current try's signal follows. *)
Aborts ==
  /\ ~aborted /\ aborted' = TRUE
  /\ told' = [p \in Ports |-> told[p] \cup (IF call[p].at = "running" /\ p \in Repeated THEN {call[p].try} ELSE {})]
  /\ UNCHANGED <<call, works, answered, fresh, paid, timeouts, deps, late>>

PortsNext ==
  Aborts \/ \E p \in Ports : Dispatch(p) \/ Succeeds(p) \/ Fails(p) \/ TimesOut(p) \/ PauseEnds(p)

-----------------------------------------------------------------------------
(* In front of GitHub and the model provider: nothing starts after the      *)
(* abort; a clone that the wrapper gave up was told to stop, so a second    *)
(* one only meets a git that is dying; throttling is never answered by      *)
(* another try; and a chunk is paid for again only after a timeout.         *)
PortCallsSound ==
  /\ ~late
  /\ \A n \in works["clone"] : n \in told["clone"] \/ (n = call["clone"].try /\ call["clone"].at = "running")
  /\ \A p \in Ports : call[p].err = "throttle" => call[p].at = "failed"
  /\ paid <= 1 + timeouts
=============================================================================
