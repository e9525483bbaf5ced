---------------------------- MODULE Generations -----------------------------
(***************************************************************************)
(* The life of an embedding generation and the singleton row that says     *)
(* which one is served. EmbedderGenerationService checks in one statement  *)
(* and writes in later ones: each step of a request is an action, and a    *)
(* request may die between them. The backfill that makes a generation      *)
(* ready is not in this code; its repository calls are.                    *)
(***************************************************************************)
EXTENDS Naturals, FiniteSets

CONSTANTS
  GenRequests,  \* administrators' requests in flight
  MaxGens       \* bound on the generations

ASSUME GenerationsAssumption == MaxGens \in Nat \ {0}

GenIds == 1..MaxGens

VARIABLES
  gens,     \* core.embedding_generations
  served,   \* core.embedder_runtime_state: active and pending generation, retrieval mode
  missing,  \* chunks without a vector of the active generation exist
  request,  \* each request: operation, step and generation
  torn      \* history: two activations overlapped, or one died between its transactions

genVars == <<gens, served, missing, request, torn>>

NoGen   == [state |-> "none", passed |-> TRUE, vectors |-> FALSE, gc |-> FALSE]
NoOp    == [op |-> "none", at |-> "done", gen |-> 0]
SeedGen == [NoGen EXCEPT !.state = "active", !.vectors = TRUE]

GenerationsInit ==
  /\ gens = [g \in GenIds |-> IF g = 1 THEN SeedGen ELSE NoGen]
  /\ served = [active |-> 1, pending |-> 0, mode |-> "fallback"] /\ missing = FALSE
  /\ request = [r \in GenRequests |-> NoOp] /\ torn = FALSE

Free(r) == request[r].at = "done"
Step(r, o, s, g) == request' = [request EXCEPT ![r] = [op |-> o, at |-> s, gen |-> g]]
End(r) == request' = [request EXCEPT ![r] = NoOp]
Busy(r, ops) == \E q \in GenRequests \ {r} : request[q].op \in ops

-----------------------------------------------------------------------------
(* startGeneration: refused while one is pending; then the row; then the    *)
(* runtime state names it.                                                  *)
BeginStart(r) ==
  /\ Free(r) /\ served.pending = 0 /\ Step(r, "start", "insert", 0)
  /\ UNCHANGED <<gens, served, missing, torn>>

InsertGeneration(r) ==
  /\ request[r].op = "start" /\ request[r].at = "insert"
  /\ \E g \in GenIds :
       /\ gens[g].state = "none" /\ \A h \in 1..g - 1 : gens[h].state # "none"
       /\ gens' = [gens EXCEPT ![g].state = "backfilling"] /\ Step(r, "start", "point", g)
  /\ UNCHANGED <<served, missing, torn>>

SetPending(r) ==
  /\ request[r].op = "start" /\ request[r].at = "point"
  /\ served' = [served EXCEPT !.pending = request[r].gen] /\ End(r)
  /\ UNCHANGED <<gens, missing, torn>>

(* The backfill: vectors, verdict, and ready if it still is backfilling. *)
Backfilled(g) ==
  /\ gens[g].state = "backfilling"
  /\ \E ok \in BOOLEAN : gens' = [gens EXCEPT ![g] = [@ EXCEPT !.state = "ready", !.passed = ok, !.vectors = TRUE]]
  /\ UNCHANGED <<served, missing, request, torn>>

(* cancelPending: read, retire, clear. *)
BeginCancel(r, g) ==
  /\ Free(r) /\ gens[g].state = "backfilling" /\ Step(r, "cancel", "retire", g)
  /\ UNCHANGED <<gens, served, missing, torn>>

\* Mutant: the retirement is not fenced on the state.
Retirable_Any(g) == gens[g].state # "none"

(* transitionToRetired: a no-op on a row that moved on. *)
Retirable(g) == gens[g].state \in {"backfilling", "ready"}
Retire(g) == gens' = IF Retirable(g) THEN [gens EXCEPT ![g].state = "retired"] ELSE gens

CancelRetire(r) ==
  /\ request[r].op = "cancel" /\ request[r].at = "retire"
  /\ Retire(request[r].gen) /\ Step(r, "cancel", "clear", request[r].gen)
  /\ UNCHANGED <<served, missing, torn>>

ClearPending(r) ==
  /\ request[r].op = "cancel" /\ request[r].at = "clear"
  /\ served' = [served EXCEPT !.pending = 0] /\ End(r)
  /\ UNCHANGED <<gens, missing, torn>>

(* manualRetire. *)
BeginRetire(r, g) ==
  /\ Free(r) /\ gens[g].state = "ready" /\ Step(r, "retire", "retire", g)
  /\ UNCHANGED <<gens, served, missing, torn>>

ManualRetire(r) ==
  /\ request[r].op = "retire" /\ Retire(request[r].gen) /\ End(r)
  /\ UNCHANGED <<served, missing, torn>>

(* activate and rollback: the checks. *)
MayActivate(g) == gens[g].state \in {"ready", "retired"} /\ gens[g].passed /\ gens[g].vectors

BeginActivate(r, g) ==
  /\ Free(r) /\ MayActivate(g) /\ Step(r, "activate", "mark", g)
  /\ torn' = (torn \/ Busy(r, {"activate"}))
  /\ UNCHANGED <<gens, served, missing>>

(* transitionToActive, one transaction: the others are demoted. *)
Demoted(g) == [h \in GenIds |-> IF h # g /\ gens[h].state = "active" THEN [gens[h] EXCEPT !.state = "ready"] ELSE gens[h]]

TransitionToActive(r) ==
  /\ request[r].op = "activate" /\ request[r].at = "mark"
  /\ gens' = [Demoted(request[r].gen) EXCEPT ![request[r].gen].state = "active"]
  /\ Step(r, "activate", "point", request[r].gen)
  /\ UNCHANGED <<served, missing, torn>>

PointActive(r) ==
  /\ request[r].op = "activate" /\ request[r].at = "point"
  /\ served' = [served EXCEPT !.active = request[r].gen, !.pending = 0] /\ End(r)
  /\ missing' \in {missing, TRUE}
  /\ UNCHANGED <<gens, torn>>

(* gc: retired and old enough; only the start is recorded. *)
RecordGc(g) ==
  /\ gens[g].state = "retired" /\ ~gens[g].gc /\ gens' = [gens EXCEPT ![g].gc = TRUE]
  /\ UNCHANGED <<served, missing, request, torn>>

(* setRetrievalMode: generation_only needs full coverage when it is read. *)
SetRetrievalMode(m) ==
  /\ m = "generation_only" => ~missing
  /\ served.mode # m /\ served' = [served EXCEPT !.mode = m]
  /\ UNCHANGED <<gens, missing, request, torn>>

(* The process serving a request dies between two of its transactions. *)
RequestDies(r) ==
  /\ request[r].op # "none"
  /\ End(r)
  /\ torn' = (torn \/ (request[r].op = "activate" /\ request[r].at = "point"))
  /\ UNCHANGED <<gens, served, missing>>

GenerationsNext ==
  \/ \E m \in {"fallback", "generation_only"} : SetRetrievalMode(m)
  \/ \E g \in GenIds : Backfilled(g) \/ RecordGc(g)
  \/ \E r \in GenRequests :
       \/ BeginStart(r) \/ InsertGeneration(r) \/ SetPending(r) \/ CancelRetire(r) \/ ClearPending(r)
       \/ ManualRetire(r) \/ TransitionToActive(r) \/ PointActive(r) \/ RequestDies(r)
       \/ \E g \in GenIds : BeginCancel(r, g) \/ BeginRetire(r, g) \/ BeginActivate(r, g)

GenerationsSpec == GenerationsInit /\ [][GenerationsNext]_genVars

-----------------------------------------------------------------------------
(* Unless two activations overlapped or one died half-way, the generation   *)
(* the runtime state serves is the one and only generation in state         *)
(* 'active' whenever no activation is between its two transactions, whoever *)
(* retires, cancels or rolls back at the same time.                         *)
ServedIsActive ==
  ~torn /\ (\A r \in GenRequests : ~(request[r].op = "activate" /\ request[r].at = "point"))
    => {g \in GenIds : gens[g].state = "active"} = {served.active}
=============================================================================
