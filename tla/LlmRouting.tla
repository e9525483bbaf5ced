----------------------------- MODULE LlmRouting -----------------------------
(***************************************************************************)
(* Which model serves a purpose. Administrators keep a catalog of models   *)
(* (core.llm_models) and pin purposes to them (core.llm_purpose_model),    *)
(* each route checking first and writing later; PurposeModelResolver reads *)
(* both through a TTL cache and falls open to the built-in choice. One     *)
(* purpose; a read is within one tick of the clock.                        *)
(***************************************************************************)
EXTENDS Naturals, FiniteSets

CONSTANTS
  ModelIds,   \* model ids of the catalog
  Makers,     \* providers of the catalog rows
  Seed,       \* modelForPurpose: the built-in choice, no catalog id
  Editors,     \* administrators' requests in flight
  Resolvers,  \* resolve calls of one process
  PinTtl,     \* ticks a fetched table is served
  MaxMoment   \* bound on the clock

ASSUME RoutingAssumption == PinTtl \in Nat \ {0} /\ MaxMoment \in Nat /\ Seed \notin ModelIds /\ "nobody" \notin Resolvers

VARIABLES
  moment,    \* the clock
  models,    \* core.llm_models by id (ids are unique across providers)
  pin,       \* core.llm_purpose_model: the purpose's model or Seed
  edit,     \* each request: what it is about to do
  pinCache,  \* the resolver's table, "null" before the first fetch
  fetched,   \* lastFetchSeconds
  inflight,  \* the resolve call whose read is in flight, and what it read
  resolved,  \* each resolve call: step, answer, and whether a read was in flight beside it
  usableTil  \* history: the last moment each pin was usable

routingVars == <<moment, models, pin, edit, pinCache, fetched, inflight, resolved, usableTil>>

NoModel == [maker |-> "none", enabled |-> FALSE, status |-> "untested"]
Asks == [does |-> "nothing", id |-> Seed, maker |-> "none"]
NoRead == [by |-> "nobody", rows |-> Seed]

RoutingInit ==
  /\ moment = 0 /\ models = [m \in ModelIds |-> NoModel] /\ pin = Seed
  /\ edit = [a \in Editors |-> Asks] /\ pinCache = "null" /\ fetched = 0 /\ inflight = NoRead
  /\ resolved = [r \in Resolvers |-> [at |-> "idle", got |-> Seed, beside |-> FALSE]]
  /\ usableTil = [m \in ModelIds |-> 0]

Listed(m) == models[m] # NoModel

(* What doRefresh keeps of a pin: its model is enabled and passed its test. *)
Usable(ms, p, m) == p = m /\ ms[m].enabled /\ ms[m].status = "ok"

Truly(ms, p, m) == p = m /\ ms[m].enabled /\ ms[m].status = "ok"

(* Every write of the two tables keeps the history. *)
Writes(ms, p) ==
  /\ models' = ms /\ pin' = p
  /\ usableTil' = [m \in ModelIds |-> IF Truly(models, pin, m) \/ Truly(ms, p, m) THEN moment ELSE usableTil[m]]

Elapses ==
  /\ moment < MaxMoment /\ inflight = NoRead /\ \A r \in Resolvers : resolved[r].at # "has"
  /\ moment' = moment + 1
  /\ usableTil' = [m \in ModelIds |-> IF Truly(models, pin, m) THEN moment + 1 ELSE usableTil[m]]
  /\ UNCHANGED <<models, pin, edit, pinCache, fetched, inflight, resolved>>

-----------------------------------------------------------------------------
Request(a, r) == edit' = [edit EXCEPT ![a] = r]
FreeEditor(a) == edit[a] = Asks
Kept == UNCHANGED <<moment, pinCache, fetched, inflight, resolved>>

(* PUT llm-models: an id of another provider is refused, first by the list, *)
(* then by the unique constraint. Updating keeps the test's status.         *)
PutModel(a) ==
  /\ FreeEditor(a)
  /\ \E m \in ModelIds, k \in Makers :
       /\ ~Listed(m) \/ models[m].maker = k
       /\ Request(a, [does |-> "put", id |-> m, maker |-> k])
  /\ UNCHANGED <<models, pin, usableTil>> /\ Kept

UpsertModel(a) ==
  /\ edit[a].does = "put" /\ Request(a, Asks)
  /\ LET m == edit[a].id IN
       IF Listed(m) /\ models[m].maker # edit[a].maker THEN UNCHANGED <<models, pin, usableTil>>
       ELSE \E on \in BOOLEAN : Writes([models EXCEPT ![m] = [@ EXCEPT !.maker = edit[a].maker, !.enabled = on]], pin)
  /\ Kept

(* POST .../test: the provider is asked, then the row, if it is still       *)
(* there, gets the outcome.                                                 *)
TestModel(a) ==
  /\ FreeEditor(a)
  /\ \E m \in {x \in ModelIds : Listed(x)} : Request(a, [does |-> "test", id |-> m, maker |-> models[m].maker])
  /\ UNCHANGED <<models, pin, usableTil>> /\ Kept

SetValidation(a) ==
  /\ edit[a].does = "test" /\ Request(a, Asks)
  /\ LET m == edit[a].id IN
       IF models[m].maker # edit[a].maker THEN UNCHANGED <<models, pin, usableTil>>
       ELSE \E s \in {"ok", "failed"} : Writes([models EXCEPT ![m].status = s], pin)
  /\ Kept

(* DELETE llm-models: refused while a purpose is pinned to it, first by the *)
(* list, then by the foreign key.                                           *)
DeleteModel(a) ==
  /\ FreeEditor(a)
  /\ \E m \in {x \in ModelIds : Listed(x)} :
       m # pin /\ Request(a, [does |-> "delete", id |-> m, maker |-> models[m].maker])
  /\ UNCHANGED <<models, pin, usableTil>> /\ Kept

DeleteModelRow(a) ==
  /\ edit[a].does = "delete" /\ Request(a, Asks)
  /\ LET m == edit[a].id IN
       IF m = pin \/ models[m].maker # edit[a].maker THEN UNCHANGED <<models, pin, usableTil>>
       ELSE Writes([models EXCEPT ![m] = NoModel], pin)
  /\ Kept

(* PUT llm-purpose-routing: the model must be listed, enabled and tested    *)
(* when it is checked; the foreign key needs it listed when it is written.  *)
AssignPurpose(a) ==
  /\ FreeEditor(a)
  /\ \E m \in ModelIds : models[m].enabled /\ models[m].status = "ok" /\ Request(a, [does |-> "pin", id |-> m, maker |-> "none"])
  /\ UNCHANGED <<models, pin, usableTil>> /\ Kept

UpsertPurpose(a) ==
  /\ edit[a].does = "pin" /\ Request(a, Asks)
  /\ IF Listed(edit[a].id) THEN Writes(models, edit[a].id) ELSE UNCHANGED <<models, pin, usableTil>>
  /\ Kept

DeletePurpose(a) ==
  /\ FreeEditor(a) /\ pin # Seed /\ Writes(models, Seed) /\ UNCHANGED edit /\ Kept

-----------------------------------------------------------------------------
(* refreshIfStale reads lastFetchSeconds, which doRefresh moves before it   *)
(* reads: a second caller is served the old table meanwhile.                *)
TableFresh == pinCache # "null" /\ moment - fetched < PinTtl

Resolve(r) ==
  /\ resolved[r].at \in {"idle", "has"}
  /\ \/ /\ TableFresh /\ resolved' = [resolved EXCEPT ![r] = [at |-> "has", got |-> pinCache, beside |-> inflight # NoRead]]
        /\ UNCHANGED <<fetched, inflight>>
     \/ /\ ~TableFresh /\ inflight # NoRead /\ resolved' = [resolved EXCEPT ![r].at = "waits"]
        /\ UNCHANGED <<fetched, inflight>>
     \/ /\ ~TableFresh /\ inflight = NoRead /\ fetched' = moment
        /\ inflight' = [by |-> r, rows |-> IF pin # Seed /\ Usable(models, pin, pin) THEN pin ELSE Seed]
        /\ resolved' = [resolved EXCEPT ![r].at = "waits"]
  /\ UNCHANGED <<moment, models, pin, edit, pinCache, usableTil>>

(* A failing read leaves an empty table: every purpose gets its seed. *)
AfterError == Seed

(* doRefresh ends, and everybody who waited for it is answered. *)
DoRefresh ==
  /\ inflight # NoRead
  /\ \E table \in {inflight.rows, AfterError} :
       /\ pinCache' = table
       /\ resolved' = [r \in Resolvers |-> IF resolved[r].at = "waits" THEN [at |-> "has", got |-> table, beside |-> FALSE] ELSE resolved[r]]
  /\ inflight' = NoRead
  /\ UNCHANGED <<moment, models, pin, edit, fetched, usableTil>>

Done(r) ==
  /\ resolved[r].at = "has" /\ resolved' = [resolved EXCEPT ![r] = [at |-> "idle", got |-> Seed, beside |-> FALSE]]
  /\ UNCHANGED <<moment, models, pin, edit, pinCache, fetched, inflight, usableTil>>

RoutingNext ==
  \/ Elapses \/ DoRefresh
  \/ \E a \in Editors :
       \/ PutModel(a) \/ UpsertModel(a) \/ TestModel(a) \/ SetValidation(a) \/ DeleteModel(a) \/ DeleteModelRow(a)
       \/ AssignPurpose(a) \/ UpsertPurpose(a) \/ DeletePurpose(a)
  \/ \E r \in Resolvers : Resolve(r) \/ Done(r)

-----------------------------------------------------------------------------
(* A model other than the seed is used only if it was pinned, enabled and   *)
(* tested at some moment of the last PinTtl: neither a check overtaken by a *)
(* write nor a failing read keeps an old pin longer. Only a caller served   *)
(* beside another's read may get an older one.                              *)
PinServedWasUsable ==
  \A r \in Resolvers :
    resolved[r].at = "has" /\ resolved[r].got # Seed /\ ~resolved[r].beside =>
      Truly(models, pin, resolved[r].got) \/ moment <= usableTil[resolved[r].got] + PinTtl
=============================================================================
