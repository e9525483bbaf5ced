---------------------------- MODULE Corpus_proofs ----------------------------
(***************************************************************************)
(* Proofs about the stored knowledge and the model that embeds it: which   *)
(* generation is served, which model made the vectors, which version of a  *)
(* page a search returns, whose documents the index holds, and what a      *)
(* query is shown of them.                                                 *)
(***************************************************************************)
EXTENDS Knowledge, RepoDocs, EmbedderConfig, Generations, Retrieval,
        FiniteSetTheorems, FunctionTheorems, SequenceTheorems, WellFoundedInduction, TLAPS

-----------------------------------------------------------------------------
(* Generations. One activation runs at a time, so the generation in state    *)
(* 'active' is the one served, or the one the activation is about to point   *)
(* to.                                                                       *)

GenRow == [state : {"none", "backfilling", "ready", "active", "retired"}, passed : BOOLEAN, vectors : BOOLEAN, gc : BOOLEAN]
OpRow  == [op : {"none", "start", "cancel", "retire", "activate"},
           at : {"done", "insert", "point", "retire", "clear", "mark"}, gen : GenIds \cup {0}]

GenTypeOK ==
  /\ gens \in [GenIds -> GenRow] /\ request \in [GenRequests -> OpRow] /\ torn \in BOOLEAN
  /\ served \in [active : GenIds, pending : GenIds \cup {0}, mode : {"fallback", "generation_only"}]

(* A request that acts on a generation names one. *)
OpsNamed ==
  \A r \in GenRequests :
    /\ request[r].op = "activate" => request[r].at \in {"mark", "point"} /\ request[r].gen \in GenIds
    /\ request[r].op \in {"cancel", "retire"} => request[r].gen \in GenIds

Pointing(r) == request[r].op = "activate" /\ request[r].at = "point"
ActiveGens  == {g \in GenIds : gens[g].state = "active"}

OneActivation ==
  /\ \A r, q \in GenRequests : request[r].op = "activate" /\ request[q].op = "activate" => r = q
  /\ (\A r \in GenRequests : ~ Pointing(r)) => ActiveGens = {served.active}
  /\ \A r \in GenRequests : Pointing(r) => ActiveGens = {request[r].gen}

GInv == GenTypeOK /\ OpsNamed /\ (~ torn => OneActivation)

(* A step of request r that leaves its record as x. *)
LEMMA OpMoves ==
  ASSUME GenTypeOK, NEW r \in GenRequests, NEW x \in OpRow, request' = [request EXCEPT ![r] = x]
  PROVE  /\ request' \in [GenRequests -> OpRow] /\ request'[r] = x
         /\ \A q \in GenRequests : q # r => request'[q] = request[q]
BY DEF GenTypeOK

LEMMA StepIs ==
  ASSUME GenTypeOK, NEW r \in GenRequests, NEW o, NEW s, NEW g, Step(r, o, s, g),
         o \in {"none", "start", "cancel", "retire", "activate"},
         s \in {"done", "insert", "point", "retire", "clear", "mark"}, g \in GenIds \cup {0}
  PROVE  /\ request' \in [GenRequests -> OpRow]
         /\ request'[r].op = o /\ request'[r].at = s /\ request'[r].gen = g
         /\ \A q \in GenRequests : q # r => request'[q] = request[q]
<1> DEFINE x == [op |-> o, at |-> s, gen |-> g]
<1>1. x \in OpRow /\ x.op = o /\ x.at = s /\ x.gen = g
  BY DEF OpRow
<1>2. request' = [request EXCEPT ![r] = x]
  BY DEF Step
<1> HIDE DEF x
<1> QED
  BY <1>1, <1>2, OpMoves

LEMMA EndIs ==
  ASSUME GenTypeOK, NEW r \in GenRequests, End(r)
  PROVE  /\ request' \in [GenRequests -> OpRow] /\ request'[r].op = "none"
         /\ \A q \in GenRequests : q # r => request'[q] = request[q]
<1>1. NoOp \in OpRow /\ NoOp.op = "none"
  BY DEF NoOp, OpRow
<1>2. request' = [request EXCEPT ![r] = NoOp]
  BY DEF End
<1> QED
  BY <1>1, <1>2, OpMoves

(* A step that writes one generation. *)
LEMMA GenMoves ==
  ASSUME GenTypeOK, NEW g \in GenIds, NEW x \in GenRow, gens' = [gens EXCEPT ![g] = x],
         gens[g].state # "active", x.state # "active"
  PROVE  gens' \in [GenIds -> GenRow] /\ ActiveGens' = ActiveGens
<1>1. gens' \in [GenIds -> GenRow] /\ gens'[g] = x /\ \A h \in GenIds : h # g => gens'[h] = gens[h]
  BY DEF GenTypeOK
<1> QED
  BY <1>1 DEF ActiveGens

LEMMA StateMoves ==
  ASSUME GenTypeOK, NEW g \in GenIds, NEW s \in {"backfilling", "ready", "retired"},
         gens' = [gens EXCEPT ![g].state = s], gens[g].state # "active"
  PROVE  gens' \in [GenIds -> GenRow] /\ ActiveGens' = ActiveGens
<1> DEFINE x == [gens[g] EXCEPT !.state = s]
<1>1. gens[g] \in GenRow
  BY DEF GenTypeOK
<1>2. x \in GenRow /\ x.state = s
  BY <1>1 DEF GenRow
<1>3. gens' = [gens EXCEPT ![g] = x]
  OBVIOUS
<1> HIDE DEF x
<1> QED
  BY <1>2, <1>3, GenMoves

(* A step that leaves the set of active generations, the one served and the  *)
(* activations alone.                                                        *)
LEMMA AsideKeeps ==
  ASSUME GInv, gens' \in [GenIds -> GenRow], ActiveGens' = ActiveGens, request' \in [GenRequests -> OpRow],
         served' \in [active : GenIds, pending : GenIds \cup {0}, mode : {"fallback", "generation_only"}],
         served'.active = served.active, torn' \in BOOLEAN, torn => torn', OpsNamed',
         \A q \in GenRequests : request'[q].op = "activate" =>
            request[q].op = "activate" /\ request'[q].at = request[q].at /\ request'[q].gen = request[q].gen,
         \A q \in GenRequests : Pointing(q) => torn' \/ Pointing(q)'
  PROVE  GInv'
<1>1. GenTypeOK'
  BY DEF GenTypeOK
<1>2. ASSUME ~ torn' PROVE OneActivation'
  <2>1. OneActivation
    BY <1>2 DEF GInv
  <2>2. \A q \in GenRequests : Pointing(q)' <=> Pointing(q)
    BY <1>2 DEF Pointing
  <2>3. \A q \in GenRequests : Pointing(q)' => request'[q].gen = request[q].gen
    BY DEF Pointing
  <2> QED
    BY <2>1, <2>2, <2>3 DEF OneActivation
<1> QED
  BY <1>1, <1>2 DEF GInv

(* What AsideKeeps asks of the requests, for a step of r that is not one of  *)
(* an activation.                                                            *)
LEMMA AsideStep ==
  ASSUME GInv, NEW r \in GenRequests, request'[r].op # "activate", request[r].op # "activate",
         request'[r].op \in {"cancel", "retire"} => request'[r].gen \in GenIds,
         \A q \in GenRequests : q # r => request'[q] = request[q]
  PROVE  /\ OpsNamed'
         /\ \A q \in GenRequests : request'[q].op = "activate" =>
              request[q].op = "activate" /\ request'[q].at = request[q].at /\ request'[q].gen = request[q].gen
         /\ \A q \in GenRequests : Pointing(q) => Pointing(q)'
<1>1. OpsNamed'
  BY DEF GInv, OpsNamed
<1>2. \A q \in GenRequests : request'[q].op = "activate" =>
              request[q].op = "activate" /\ request'[q].at = request[q].at /\ request'[q].gen = request[q].gen
  OBVIOUS
<1>3. \A q \in GenRequests : Pointing(q) => Pointing(q)'
  BY DEF Pointing
<1> QED
  BY <1>1, <1>2, <1>3

LEMMA FreeIs ==
  ASSUME GInv, NEW r \in GenRequests, Free(r)
  PROVE  request[r].op # "activate"
BY DEF GInv, OpsNamed, Free

LEMMA StartKeeps ==
  ASSUME GInv, NEW r \in GenRequests, BeginStart(r) \/ InsertGeneration(r) \/ SetPending(r)
  PROVE  GInv'
<1>0. GenTypeOK /\ OpsNamed /\ torn' = torn
  BY DEF GInv, BeginStart, InsertGeneration, SetPending
<1>1. CASE BeginStart(r)
  <2>1. /\ request' \in [GenRequests -> OpRow] /\ request'[r].op = "start"
        /\ \A q \in GenRequests : q # r => request'[q] = request[q]
    BY <1>0, <1>1, StepIs DEF BeginStart
  <2>2. request[r].op # "activate" /\ UNCHANGED <<gens, served>>
    BY <1>1, FreeIs DEF BeginStart
  <2>3. ActiveGens' = ActiveGens
    BY <2>2 DEF ActiveGens
  <2> QED
    BY <1>0, <2>1, <2>2, <2>3, AsideStep, AsideKeeps DEF GenTypeOK
<1>2. CASE InsertGeneration(r)
  <2>1. PICK g \in GenIds : /\ gens[g].state = "none" /\ gens' = [gens EXCEPT ![g].state = "backfilling"]
                            /\ Step(r, "start", "point", g)
    BY <1>2 DEF InsertGeneration
  <2>2. /\ request' \in [GenRequests -> OpRow] /\ request'[r].op = "start"
        /\ \A q \in GenRequests : q # r => request'[q] = request[q]
    BY <1>0, <2>1, StepIs
  <2>3. gens' \in [GenIds -> GenRow] /\ ActiveGens' = ActiveGens
    BY <1>0, <2>1, StateMoves
  <2>4. request[r].op = "start" /\ served' = served
    BY <1>2 DEF InsertGeneration
  <2> QED
    BY <1>0, <2>2, <2>3, <2>4, AsideStep, AsideKeeps DEF GenTypeOK
<1>3. CASE SetPending(r)
  <2>1. /\ request' \in [GenRequests -> OpRow] /\ request'[r].op = "none"
        /\ \A q \in GenRequests : q # r => request'[q] = request[q]
    BY <1>0, <1>3, EndIs DEF SetPending
  <2>2. request[r].op = "start" /\ gens' = gens /\ request[r].gen \in GenIds \cup {0}
    BY <1>0, <1>3 DEF SetPending, GenTypeOK, OpRow
  <2>3. ActiveGens' = ActiveGens
    BY <2>2 DEF ActiveGens
  <2>4. /\ served' \in [active : GenIds, pending : GenIds \cup {0}, mode : {"fallback", "generation_only"}]
        /\ served'.active = served.active
    BY <1>0, <1>3, <2>2 DEF SetPending, GenTypeOK
  <2> QED
    BY <1>0, <2>1, <2>2, <2>3, <2>4, AsideStep, AsideKeeps DEF GenTypeOK
<1> QED
  BY <1>1, <1>2, <1>3

LEMMA BackfillKeeps ==
  ASSUME GInv, NEW g \in GenIds, Backfilled(g) \/ RecordGc(g)
  PROVE  GInv'
<1>0. GenTypeOK /\ OpsNamed /\ UNCHANGED <<served, request, torn>> /\ gens[g] \in GenRow /\ gens[g].state # "active"
  BY DEF GInv, GenTypeOK, Backfilled, RecordGc
<1>1. PICK x \in GenRow : gens' = [gens EXCEPT ![g] = x] /\ x.state # "active"
  <2>1. CASE Backfilled(g)
    <3>1. PICK ok \in BOOLEAN : gens' = [gens EXCEPT ![g] = [@ EXCEPT !.state = "ready", !.passed = ok, !.vectors = TRUE]]
      BY <2>1 DEF Backfilled
    <3> DEFINE x == [gens[g] EXCEPT !.state = "ready", !.passed = ok, !.vectors = TRUE]
    <3>2. x \in GenRow /\ x.state = "ready"
      BY <1>0 DEF GenRow
    <3> QED
      BY <3>1, <3>2
  <2>2. CASE RecordGc(g)
    <3> DEFINE x == [gens[g] EXCEPT !.gc = TRUE]
    <3>1. x \in GenRow /\ x.state = gens[g].state
      BY <1>0 DEF GenRow
    <3>2. gens' = [gens EXCEPT ![g] = x]
      BY <2>2 DEF RecordGc
    <3> QED
      BY <1>0, <3>1, <3>2
  <2> QED
    BY <2>1, <2>2
<1>2. gens' \in [GenIds -> GenRow] /\ ActiveGens' = ActiveGens
  BY <1>0, <1>1, GenMoves
<1>3. OpsNamed' /\ \A q \in GenRequests : Pointing(q) => Pointing(q)'
  BY <1>0 DEF OpsNamed, Pointing
<1> QED
  BY <1>0, <1>2, <1>3, AsideKeeps DEF GenTypeOK

LEMMA RetireIs ==
  ASSUME GenTypeOK, NEW g \in GenIds, Retire(g)
  PROVE  gens' \in [GenIds -> GenRow] /\ ActiveGens' = ActiveGens
<1>1. CASE Retirable(g)
  <2>1. gens' = [gens EXCEPT ![g].state = "retired"] /\ gens[g].state # "active"
    BY <1>1 DEF Retire, Retirable
  <2> QED
    BY <2>1, StateMoves
<1>2. CASE ~ Retirable(g)
  BY <1>2 DEF Retire, ActiveGens, GenTypeOK
<1> QED
  BY <1>1, <1>2

LEMMA RetireKeeps ==
  ASSUME GInv, NEW r \in GenRequests,
         \/ \E g \in GenIds : BeginCancel(r, g) \/ BeginRetire(r, g)
         \/ CancelRetire(r) \/ ClearPending(r) \/ ManualRetire(r)
  PROVE  GInv'
<1>0. GenTypeOK /\ OpsNamed
  BY DEF GInv
<1>1. ASSUME NEW g \in GenIds, BeginCancel(r, g) \/ BeginRetire(r, g) PROVE GInv'
  <2>1. /\ request' \in [GenRequests -> OpRow] /\ request'[r].op \in {"cancel", "retire"} /\ request'[r].gen = g
        /\ \A q \in GenRequests : q # r => request'[q] = request[q]
    <3>1. CASE BeginCancel(r, g)
      BY <1>0, <3>1, StepIs DEF BeginCancel
    <3>2. CASE BeginRetire(r, g)
      BY <1>0, <3>2, StepIs DEF BeginRetire
    <3> QED
      BY <1>1, <3>1, <3>2
  <2>2. request[r].op # "activate" /\ UNCHANGED <<gens, served, torn>>
    BY <1>1, FreeIs DEF BeginCancel, BeginRetire
  <2>3. ActiveGens' = ActiveGens
    BY <2>2 DEF ActiveGens
  <2> QED
    BY <1>0, <2>1, <2>2, <2>3, AsideStep, AsideKeeps DEF GenTypeOK
<1>2. CASE CancelRetire(r)
  <2>1. request[r].op = "cancel" /\ request[r].gen \in GenIds /\ UNCHANGED <<served, torn>>
    BY <1>0, <1>2 DEF CancelRetire, OpsNamed
  <2>2. gens' \in [GenIds -> GenRow] /\ ActiveGens' = ActiveGens
    BY <1>0, <1>2, <2>1, RetireIs DEF CancelRetire
  <2>3. /\ request' \in [GenRequests -> OpRow] /\ request'[r].op = "cancel" /\ request'[r].gen = request[r].gen
        /\ \A q \in GenRequests : q # r => request'[q] = request[q]
    BY <1>0, <1>2, <2>1, StepIs DEF CancelRetire
  <2> QED
    BY <1>0, <2>1, <2>2, <2>3, AsideStep, AsideKeeps DEF GenTypeOK
<1>3. CASE ClearPending(r)
  <2>1. request[r].op = "cancel" /\ UNCHANGED <<gens, torn>>
    BY <1>3 DEF ClearPending
  <2>2. /\ request' \in [GenRequests -> OpRow] /\ request'[r].op = "none"
        /\ \A q \in GenRequests : q # r => request'[q] = request[q]
    BY <1>0, <1>3, EndIs DEF ClearPending
  <2>3. ActiveGens' = ActiveGens
    BY <2>1 DEF ActiveGens
  <2>4. /\ served' \in [active : GenIds, pending : GenIds \cup {0}, mode : {"fallback", "generation_only"}]
        /\ served'.active = served.active
    BY <1>0, <1>3 DEF ClearPending, GenTypeOK
  <2> QED
    BY <1>0, <2>1, <2>2, <2>3, <2>4, AsideStep, AsideKeeps DEF GenTypeOK
<1>4. CASE ManualRetire(r)
  <2>1. request[r].op = "retire" /\ request[r].gen \in GenIds /\ UNCHANGED <<served, torn>>
    BY <1>0, <1>4 DEF ManualRetire, OpsNamed
  <2>2. gens' \in [GenIds -> GenRow] /\ ActiveGens' = ActiveGens
    BY <1>0, <1>4, <2>1, RetireIs DEF ManualRetire
  <2>3. /\ request' \in [GenRequests -> OpRow] /\ request'[r].op = "none"
        /\ \A q \in GenRequests : q # r => request'[q] = request[q]
    BY <1>0, <1>4, EndIs DEF ManualRetire
  <2> QED
    BY <1>0, <2>1, <2>2, <2>3, AsideStep, AsideKeeps DEF GenTypeOK
<1> QED
  BY <1>1, <1>2, <1>3, <1>4

(* A second activation is the one that tears. *)
LEMMA BeginActivateKeeps ==
  ASSUME GInv, NEW r \in GenRequests, NEW g \in GenIds, BeginActivate(r, g)
  PROVE  GInv'
<1>0. GenTypeOK /\ OpsNamed /\ UNCHANGED <<gens, served>>
  BY DEF GInv, BeginActivate
<1>1. /\ request' \in [GenRequests -> OpRow] /\ request'[r].op = "activate" /\ request'[r].at = "mark"
      /\ request'[r].gen = g /\ \A q \in GenRequests : q # r => request'[q] = request[q]
  BY <1>0, StepIs DEF BeginActivate
<1>2. request[r].op # "activate"
  BY FreeIs DEF BeginActivate
<1>3. torn' \in BOOLEAN /\ (~ torn' => ~ torn /\ \A q \in GenRequests \ {r} : request[q].op # "activate")
  BY <1>0 DEF BeginActivate, Busy, GenTypeOK
<1>4. OpsNamed'
  BY <1>0, <1>1 DEF OpsNamed
<1>5. ASSUME ~ torn' PROVE OneActivation'
  <2>1. \A q \in GenRequests : ~ Pointing(q)
    BY <1>2, <1>3, <1>5 DEF Pointing
  <2>2. \A q \in GenRequests : ~ Pointing(q)'
    BY <1>1, <2>1 DEF Pointing
  <2>3. ActiveGens' = {served.active}
    BY <1>0, <1>3, <1>5, <2>1 DEF ActiveGens, GInv, OneActivation
  <2>4. \A q, t \in GenRequests : request'[q].op = "activate" /\ request'[t].op = "activate" => q = t
    BY <1>1, <1>3, <1>5
  <2> QED
    BY <1>0, <2>2, <2>3, <2>4 DEF OneActivation
<1> QED
  BY <1>0, <1>1, <1>3, <1>4, <1>5 DEF GInv, GenTypeOK

LEMMA TransitionKeeps ==
  ASSUME GInv, NEW r \in GenRequests, TransitionToActive(r)
  PROVE  GInv'
<1> DEFINE D == Demoted(request[r].gen)
<1>0. GenTypeOK /\ OpsNamed /\ UNCHANGED <<served, torn>> /\ request[r].op = "activate"
  BY DEF GInv, TransitionToActive
<1>1. PICK g \in GenIds : g = request[r].gen
  BY <1>0 DEF OpsNamed
<1>2. /\ request' \in [GenRequests -> OpRow] /\ request'[r].op = "activate" /\ request'[r].at = "point"
      /\ request'[r].gen = g /\ \A q \in GenRequests : q # r => request'[q] = request[q]
  BY <1>0, <1>1, StepIs DEF TransitionToActive
<1>3. \A h \in GenIds : [gens[h] EXCEPT !.state = "ready"] \in GenRow /\ [gens[h] EXCEPT !.state = "ready"].state = "ready"
  <2>1. \A h \in GenIds : gens[h] \in GenRow
    BY <1>0 DEF GenTypeOK
  <2> QED
    BY <2>1 DEF GenRow
<1>4. D \in [GenIds -> GenRow] /\ \A h \in GenIds : h # g => D[h].state # "active"
  <2>1. \A h \in GenIds : D[h] = IF h # g /\ gens[h].state = "active" THEN [gens[h] EXCEPT !.state = "ready"] ELSE gens[h]
    BY <1>1 DEF Demoted
  <2>2. D = [h \in GenIds |-> D[h]]
    BY DEF Demoted
  <2>3. \A h \in GenIds : gens[h] \in GenRow
    BY <1>0 DEF GenTypeOK
  <2> HIDE DEF D
  <2>4. \A h \in GenIds : D[h] \in GenRow
    BY <1>3, <2>1, <2>3
  <2>5. \A h \in GenIds : h # g => D[h].state # "active"
    BY <1>3, <2>1
  <2> QED
    BY <2>2, <2>4, <2>5
<1>5. gens' = [D EXCEPT ![g].state = "active"]
  BY <1>1 DEF TransitionToActive
<1> HIDE DEF D
<1> DEFINE x == [D[g] EXCEPT !.state = "active"]
<1>6. x \in GenRow /\ x.state = "active"
  <2>1. D[g] \in GenRow
    BY <1>4
  <2> QED
    BY <2>1 DEF GenRow
<1>7. gens' = [D EXCEPT ![g] = x]
  BY <1>5
<1> HIDE DEF x
<1>8. gens' \in [GenIds -> GenRow] /\ ActiveGens' = {g}
  <2>1. gens'[g] = x /\ \A h \in GenIds : h # g => gens'[h] = D[h]
    BY <1>4, <1>7
  <2>2. gens' \in [GenIds -> GenRow]
    BY <1>4, <1>6, <1>7
  <2> QED
    BY <1>4, <1>6, <2>1, <2>2 DEF ActiveGens
<1>9. OpsNamed'
  BY <1>0, <1>2 DEF OpsNamed
<1>10. ASSUME ~ torn' PROVE OneActivation'
  <2>1. \A q, t \in GenRequests : request'[q].op = "activate" /\ request'[t].op = "activate" => q = t
    BY <1>0, <1>2, <1>10 DEF GInv, OneActivation
  <2>2. Pointing(r)' /\ \A q \in GenRequests : Pointing(q)' => q = r
    BY <1>2, <2>1 DEF Pointing
  <2> QED
    BY <1>2, <1>8, <2>1, <2>2 DEF OneActivation
<1> QED
  BY <1>0, <1>2, <1>8, <1>9, <1>10 DEF GInv, GenTypeOK

LEMMA PointKeeps ==
  ASSUME GInv, NEW r \in GenRequests, PointActive(r)
  PROVE  GInv'
<1>0. GenTypeOK /\ OpsNamed /\ UNCHANGED <<gens, torn>> /\ request[r].op = "activate" /\ Pointing(r)
  BY DEF GInv, PointActive, Pointing
<1>1. PICK g \in GenIds : g = request[r].gen
  BY <1>0 DEF OpsNamed
<1>2. /\ request' \in [GenRequests -> OpRow] /\ request'[r].op = "none"
      /\ \A q \in GenRequests : q # r => request'[q] = request[q]
  BY <1>0, EndIs DEF PointActive
<1>3. /\ served' \in [active : GenIds, pending : GenIds \cup {0}, mode : {"fallback", "generation_only"}]
      /\ served'.active = g
  BY <1>0, <1>1 DEF PointActive, GenTypeOK
<1>4. OpsNamed'
  BY <1>0, <1>2 DEF OpsNamed
<1>5. ASSUME ~ torn' PROVE OneActivation'
  <2>1. \A q \in GenRequests : request'[q].op # "activate"
    BY <1>0, <1>2, <1>5 DEF GInv, OneActivation
  <2>2. ActiveGens' = {g}
    BY <1>0, <1>1, <1>5 DEF GInv, OneActivation, ActiveGens
  <2> QED
    BY <1>3, <2>1, <2>2 DEF OneActivation, Pointing
<1> QED
  BY <1>0, <1>2, <1>3, <1>4, <1>5 DEF GInv, GenTypeOK

LEMMA RequestDiesKeeps ==
  ASSUME GInv, NEW r \in GenRequests, RequestDies(r)
  PROVE  GInv'
<1>0. GenTypeOK /\ OpsNamed /\ UNCHANGED <<gens, served>>
  BY DEF GInv, RequestDies
<1>1. /\ request' \in [GenRequests -> OpRow] /\ request'[r].op = "none"
      /\ \A q \in GenRequests : q # r => request'[q] = request[q]
  BY <1>0, EndIs DEF RequestDies
<1>2. torn' \in BOOLEAN /\ (torn => torn') /\ (Pointing(r) => torn')
  BY <1>0 DEF RequestDies, GenTypeOK, Pointing
<1>3. OpsNamed' /\ ActiveGens' = ActiveGens
  BY <1>0, <1>1 DEF OpsNamed, ActiveGens
<1>4. \A q \in GenRequests : Pointing(q) => torn' \/ Pointing(q)'
  BY <1>1, <1>2 DEF Pointing
<1> QED
  BY <1>0, <1>1, <1>2, <1>3, <1>4, AsideKeeps DEF GenTypeOK

LEMMA GenerationsStep == GInv /\ [GenerationsNext]_genVars => GInv'
<1> SUFFICES ASSUME GInv, [GenerationsNext]_genVars PROVE GInv'
  OBVIOUS
<1>1. CASE UNCHANGED genVars
  BY <1>1 DEF genVars, GInv, GenTypeOK, OpsNamed, OneActivation, Pointing, ActiveGens
<1>2. ASSUME NEW m \in {"fallback", "generation_only"}, SetRetrievalMode(m) PROVE GInv'
  <2>1. UNCHANGED <<gens, request, torn>> /\ served' = [served EXCEPT !.mode = m]
    BY <1>2 DEF SetRetrievalMode
  <2>2. /\ served' \in [active : GenIds, pending : GenIds \cup {0}, mode : {"fallback", "generation_only"}]
        /\ served'.active = served.active
    BY <1>2, <2>1 DEF GInv, GenTypeOK
  <2>3. ActiveGens' = ActiveGens /\ OpsNamed' /\ \A q \in GenRequests : Pointing(q) => Pointing(q)'
    BY <2>1 DEF ActiveGens, GInv, OpsNamed, Pointing
  <2> QED
    BY <2>1, <2>2, <2>3, AsideKeeps DEF GInv, GenTypeOK
<1> QED
  BY <1>1, <1>2, StartKeeps, BackfillKeeps, RetireKeeps, BeginActivateKeeps, TransitionKeeps, PointKeeps,
     RequestDiesKeeps DEF GenerationsNext

(* Unless activations overlapped or one died half-way, the generation served *)
(* is the only active one outside an activation, for any number of           *)
(* generations and requests (EmbedderGenerationService).                     *)
THEOREM ServedStaysActive == GenerationsSpec => []ServedIsActive
<1>1. GenerationsInit => GInv
  <2> SUFFICES ASSUME GenerationsInit PROVE GInv
    OBVIOUS
  <2>a. NoGen \in GenRow /\ NoGen.state = "none"
    BY DEF NoGen, GenRow
  <2>b. SeedGen \in GenRow /\ SeedGen.state = "active"
    BY <2>a DEF SeedGen, GenRow
  <2>c. NoOp \in OpRow /\ NoOp.op = "none"
    BY DEF NoOp, OpRow
  <2>d. 1 \in GenIds
    BY GenerationsAssumption DEF GenIds
  <2>1. /\ SeedGen \in GenRow /\ SeedGen.state = "active" /\ NoGen \in GenRow /\ NoGen.state = "none"
        /\ NoOp \in OpRow /\ NoOp.op = "none" /\ 1 \in GenIds
    BY <2>a, <2>b, <2>c, <2>d
  <2>2. /\ gens = [g \in GenIds |-> IF g = 1 THEN SeedGen ELSE NoGen] /\ request = [r \in GenRequests |-> NoOp]
        /\ served = [active |-> 1, pending |-> 0, mode |-> "fallback"] /\ torn = FALSE
    BY DEF GenerationsInit
  <2>3. GenTypeOK
    BY <2>1, <2>2 DEF GenTypeOK
  <2>4. \A r \in GenRequests : request[r].op = "none"
    BY <2>1, <2>2
  <2>5. ActiveGens = {1}
    BY <2>1, <2>2 DEF ActiveGens
  <2> QED
    BY <2>2, <2>3, <2>4, <2>5 DEF GInv, OpsNamed, OneActivation, Pointing
<1>2. GInv /\ [GenerationsNext]_genVars => GInv'
  BY GenerationsStep
<1>3. GInv => ServedIsActive
  BY DEF GInv, OneActivation, Pointing, ActiveGens, ServedIsActive
<1> QED
  BY <1>1, <1>2, <1>3, PTL DEF GenerationsSpec
-----------------------------------------------------------------------------
(* The embedder. What is cached was adopted as its digest says, and a        *)
(* validated row was promoted with the model it still names.                 *)

SettingsRow == [rev : Nat, model : Models, status : {"none", "failed", "ok"}, on : BOOLEAN, key : Nat]
DeskRow     == [at : {"free", "put", "probe"}, rev : Nat, model : Models]
IngestRow   == [at : {"idle", "resolve", "embedded"}, digest : SettingsRow, model : Models]
AdapterRow  == [digest : SettingsRow, model : Models, there : BOOLEAN]

ConfigTypeOK ==
  /\ settings \in SettingsRow /\ contract \in Models /\ desk \in [Desks -> DeskRow]
  /\ ingest \in IngestRow /\ adapter \in AdapterRow /\ unowned \in BOOLEAN /\ crossed \in BOOLEAN

(* A probe whose revision is still the row's has the row's model. *)
ProbesCurrent ==
  \A d \in Desks : desk[d].at = "probe" =>
    desk[d].rev <= settings.rev /\ (desk[d].rev = settings.rev => desk[d].model = settings.model)

ValidatedIsRecorded == settings.status = "ok" => settings.model = contract

(* What is cached was adopted as the digest says, and what was embedded was  *)
(* embedded by the recorded model.                                           *)
CacheHonest == adapter.there => Adopted(adapter.digest) /\ adapter.model = adapter.digest.model

EmbedsRecorded == corpus \subseteq {contract} /\ (ingest.at = "embedded" => ingest.model = contract)

CInv == ConfigTypeOK /\ ProbesCurrent /\ ValidatedIsRecorded /\ (~ crossed /\ ~ unowned => CacheHonest /\ EmbedsRecorded)

LEMMA DeskMoves ==
  ASSUME ConfigTypeOK, NEW d \in Desks, NEW x \in DeskRow, desk' = [desk EXCEPT ![d] = x]
  PROVE  desk' \in [Desks -> DeskRow] /\ desk'[d] = x /\ \A e \in Desks : e # d => desk'[e] = desk[e]
BY DEF ConfigTypeOK

LEMMA FreeDeskIs == FreeDesk \in DeskRow /\ FreeDesk.at = "free"
BY EmbedderConfigAssumption DEF FreeDesk, DeskRow

LEMMA NoRowIs == NoRow \in SettingsRow /\ NoRow.status = "none" /\ NoRow.rev = 0
BY EmbedderConfigAssumption DEF NoRow, SettingsRow

LEMMA NotCachedIs == NotCached \in AdapterRow /\ NotCached.there = FALSE
BY EmbedderConfigAssumption, NoRowIs DEF NotCached, AdapterRow

(* The idle process. *)
LEMMA IdleIs ==
  /\ [at |-> "idle", digest |-> NoRow, model |-> Seeded] \in IngestRow
  /\ [at |-> "idle", digest |-> NoRow, model |-> Seeded].at = "idle"
BY EmbedderConfigAssumption, NoRowIs DEF IngestRow

LEMMA DigestIs ==
  ASSUME NEW r \in SettingsRow
  PROVE  /\ Digest(r) \in SettingsRow /\ Digest(r).model = r.model /\ Digest(r).status = r.status
         /\ Digest(r).on = r.on
         /\ Adopted(Digest(r)) <=> Adopted(r)
<1> DEFINE n == IF r.rev = 0 THEN 0 ELSE 1
<1>1. n \in Nat /\ (n > 0 <=> r.rev > 0)
  BY DEF SettingsRow
<1>2. Digest(r) = [r EXCEPT !.rev = n]
  BY DEF Digest
<1> HIDE DEF n
<1>3. Digest(r) \in SettingsRow
  BY <1>1, <1>2 DEF SettingsRow
<1>4. Digest(r).model = r.model /\ Digest(r).status = r.status /\ Digest(r).on = r.on /\ Digest(r).rev = n
  BY <1>2 DEF SettingsRow
<1> QED
  BY <1>1, <1>3, <1>4 DEF Adopted

(* A step of the ingesting process alone: the row, the contract and the      *)
(* requests stay.                                                            *)
LEMMA IngestKeeps ==
  ASSUME CInv, UNCHANGED <<settings, contract, desk>>, ingest' \in IngestRow, adapter' \in AdapterRow,
         unowned' \in BOOLEAN, crossed' \in BOOLEAN,
         ~ crossed' /\ ~ unowned' => (CacheHonest /\ EmbedsRecorded)'
  PROVE  CInv'
<1>1. ConfigTypeOK' /\ ProbesCurrent' /\ ValidatedIsRecorded'
  BY DEF CInv, ConfigTypeOK, ProbesCurrent, ValidatedIsRecorded
<1> QED
  BY <1>1 DEF CInv

LEMMA ReadDigestKeeps ==
  ASSUME CInv, ReadDigest
  PROVE  CInv'
<1>1. UNCHANGED <<settings, contract, corpus, desk, adapter, unowned, crossed>>
  BY DEF ReadDigest
<1>2. Digest(settings) \in SettingsRow
  BY DigestIs DEF CInv, ConfigTypeOK
<1>3. CASE adapter.there /\ adapter.digest = Digest(settings)
  <2>1. ingest' = [at |-> "embedded", digest |-> adapter.digest, model |-> adapter.model]
    BY <1>3 DEF ReadDigest
  <2>2. ingest' \in IngestRow /\ ingest'.model = adapter.model
    BY <2>1 DEF IngestRow, CInv, ConfigTypeOK, AdapterRow
  <2>3. ASSUME ~ crossed, ~ unowned PROVE (CacheHonest /\ EmbedsRecorded)'
    <3>1. Adopted(Digest(settings)) /\ adapter.model = Digest(settings).model
      BY <1>3, <2>3 DEF CInv, CacheHonest
    <3>2. settings.status = "ok" /\ Digest(settings).model = settings.model
      BY <3>1, DigestIs DEF Adopted, CInv, ConfigTypeOK
    <3>3. adapter.model = contract
      BY <3>1, <3>2 DEF CInv, ValidatedIsRecorded
    <3> QED
      BY <1>1, <2>2, <2>3, <3>3 DEF CInv, CacheHonest, EmbedsRecorded
  <2> QED
    BY <1>1, <2>2, <2>3, IngestKeeps DEF CInv, ConfigTypeOK
<1>4. CASE ~ (adapter.there /\ adapter.digest = Digest(settings))
  <2>1. ingest' = [ingest EXCEPT !.at = "resolve", !.digest = Digest(settings)]
    BY <1>4 DEF ReadDigest
  <2>2. ingest' \in IngestRow /\ ingest'.at = "resolve"
    BY <1>2, <2>1 DEF IngestRow, CInv, ConfigTypeOK
  <2>3. ~ crossed /\ ~ unowned => (CacheHonest /\ EmbedsRecorded)'
    BY <1>1, <2>2 DEF CInv, CacheHonest, EmbedsRecorded
  <2> QED
    BY <1>1, <2>2, <2>3, IngestKeeps DEF CInv, ConfigTypeOK
<1> QED
  BY <1>3, <1>4

LEMMA ResolveConfigKeeps ==
  ASSUME CInv, ResolveConfig
  PROVE  CInv'
<1>1. UNCHANGED <<settings, contract, corpus, desk>>
  BY DEF ResolveConfig
<1>2. CASE Adopted(settings)
  <2>1. /\ adapter' = [digest |-> ingest.digest, model |-> settings.model, there |-> TRUE]
        /\ ingest' = [ingest EXCEPT !.at = "embedded", !.model = settings.model]
        /\ crossed' = (crossed \/ ingest.digest.model # settings.model \/ ~ Adopted(ingest.digest))
        /\ unowned' = unowned
    BY <1>2 DEF ResolveConfig
  <2>2. ingest' \in IngestRow /\ ingest'.model = settings.model
    BY <2>1 DEF IngestRow, CInv, ConfigTypeOK, SettingsRow
  <2>3. adapter' \in AdapterRow /\ adapter'.digest = ingest.digest /\ adapter'.model = settings.model
    BY <2>1 DEF AdapterRow, IngestRow, CInv, ConfigTypeOK, SettingsRow
  <2>4. settings.model = contract
    BY <1>2 DEF Adopted, CInv, ValidatedIsRecorded
  <2>5. crossed' \in BOOLEAN /\ unowned' \in BOOLEAN
    BY <2>1 DEF CInv, ConfigTypeOK
  <2>6. ASSUME ~ crossed', ~ unowned' PROVE (CacheHonest /\ EmbedsRecorded)'
    <3>1. ~ crossed /\ ~ unowned /\ ingest.digest.model = settings.model /\ Adopted(ingest.digest)
      BY <2>1, <2>6
    <3>2. Adopted(adapter'.digest) /\ adapter'.model = adapter'.digest.model
      BY <2>3, <3>1
    <3> QED
      BY <1>1, <2>2, <2>4, <3>1, <3>2 DEF CInv, CacheHonest, EmbedsRecorded, Adopted
  <2> QED
    BY <1>1, <2>2, <2>3, <2>5, <2>6, IngestKeeps
<1>3. CASE ~ Adopted(settings)
  <2>1. /\ adapter' = NotCached /\ ingest' = [ingest EXCEPT !.at = "embedded", !.model = LegacyModel]
        /\ unowned' = (unowned \/ settings.rev > 0 \/ LegacyModel # contract) /\ crossed' = crossed
    BY <1>3 DEF ResolveConfig
  <2>2. ingest' \in IngestRow /\ ingest'.model = LegacyModel
    BY <2>1, EmbedderConfigAssumption DEF IngestRow, CInv, ConfigTypeOK
  <2>3. crossed' \in BOOLEAN /\ unowned' \in BOOLEAN
    BY <2>1 DEF CInv, ConfigTypeOK
  <2>4. ASSUME ~ crossed', ~ unowned' PROVE (CacheHonest /\ EmbedsRecorded)'
    <3>1. ~ crossed /\ ~ unowned /\ LegacyModel = contract
      BY <2>1, <2>4
    <3>2. ~ adapter'.there
      BY <2>1, NotCachedIs
    <3> QED
      BY <1>1, <2>2, <3>1, <3>2 DEF CInv, CacheHonest, EmbedsRecorded
  <2> QED
    BY <1>1, <2>1, <2>2, <2>3, <2>4, NotCachedIs, IngestKeeps
<1> QED
  BY <1>2, <1>3

LEMMA UnreadableKeeps ==
  ASSUME CInv, DatabaseUnreadable
  PROVE  CInv'
<1>1. /\ UNCHANGED <<settings, contract, corpus, desk, adapter, unowned>>
      /\ crossed' = (crossed \/ (adapter.there /\ adapter.model # contract))
  BY DEF DatabaseUnreadable
<1>2. crossed' \in BOOLEAN /\ unowned' \in BOOLEAN
  BY <1>1 DEF CInv, ConfigTypeOK
<1>3. CASE adapter.there
  <2>1. ingest' = [at |-> "embedded", digest |-> adapter.digest, model |-> adapter.model]
    BY <1>3 DEF DatabaseUnreadable
  <2>2. ingest' \in IngestRow /\ ingest'.model = adapter.model
    BY <2>1 DEF IngestRow, CInv, ConfigTypeOK, AdapterRow
  <2>3. ASSUME ~ crossed', ~ unowned' PROVE (CacheHonest /\ EmbedsRecorded)'
    <3>1. ~ crossed /\ ~ unowned /\ adapter.model = contract
      BY <1>1, <1>3, <2>3
    <3> QED
      BY <1>1, <2>2, <3>1 DEF CInv, CacheHonest, EmbedsRecorded
  <2> QED
    BY <1>1, <1>2, <2>2, <2>3, IngestKeeps DEF CInv, ConfigTypeOK
<1>4. CASE ~ adapter.there
  <2>1. ingest' = [ingest EXCEPT !.at = "idle", !.digest = NoRow, !.model = Seeded]
    BY <1>4 DEF DatabaseUnreadable
  <2>2. ingest' \in IngestRow /\ ingest'.at = "idle"
    BY <2>1, NoRowIs, EmbedderConfigAssumption DEF IngestRow, CInv, ConfigTypeOK
  <2>3. ~ crossed' /\ ~ unowned' => (CacheHonest /\ EmbedsRecorded)'
    BY <1>1, <2>2 DEF CInv, CacheHonest, EmbedsRecorded
  <2> QED
    BY <1>1, <1>2, <2>2, <2>3, IngestKeeps DEF CInv, ConfigTypeOK
<1> QED
  BY <1>3, <1>4

LEMMA StoreKeeps ==
  ASSUME CInv, StoreVectors
  PROVE  CInv'
<1>1. /\ ingest.at = "embedded" /\ corpus' = corpus \cup {ingest.model}
      /\ ingest' = [at |-> "idle", digest |-> NoRow, model |-> Seeded]
      /\ UNCHANGED <<settings, contract, desk, adapter, unowned, crossed>>
  BY DEF StoreVectors
<1>2. ingest' \in IngestRow /\ ingest'.at = "idle"
  BY <1>1, IdleIs
<1>3. ~ crossed /\ ~ unowned => (CacheHonest /\ EmbedsRecorded)'
  BY <1>1, <1>2 DEF CInv, CacheHonest, EmbedsRecorded
<1> QED
  BY <1>1, <1>2, <1>3, IngestKeeps DEF CInv, ConfigTypeOK

LEMMA EmbedFailsKeeps ==
  ASSUME CInv, EmbedFails
  PROVE  CInv'
<1>1. /\ ingest' = [at |-> "idle", digest |-> NoRow, model |-> Seeded] /\ adapter' \in {adapter, NotCached}
      /\ UNCHANGED <<settings, contract, corpus, desk, unowned, crossed>>
  BY DEF EmbedFails
<1>2. ingest' \in IngestRow /\ ingest'.at = "idle"
  BY <1>1, IdleIs
<1>3. adapter' \in AdapterRow /\ (adapter' = adapter \/ ~ adapter'.there)
  BY <1>1, NotCachedIs DEF CInv, ConfigTypeOK
<1>4. ~ crossed /\ ~ unowned => (CacheHonest /\ EmbedsRecorded)'
  BY <1>1, <1>2, <1>3 DEF CInv, CacheHonest, EmbedsRecorded
<1> QED
  BY <1>1, <1>2, <1>3, <1>4, IngestKeeps DEF CInv, ConfigTypeOK

(* A step that leaves the row, the contract and the ingesting process, and   *)
(* leaves no request at a probe it was not at.                               *)
LEMMA DeskKeeps ==
  ASSUME CInv, UNCHANGED <<settings, contract, corpus, ingest, adapter, unowned, crossed>>,
         desk' \in [Desks -> DeskRow],
         \A d \in Desks : desk'[d].at = "probe" =>
           desk'[d] = desk[d] \/ (desk'[d].rev = settings.rev /\ desk'[d].model = settings.model)
  PROVE  CInv'
<1>1. ConfigTypeOK'
  BY DEF CInv, ConfigTypeOK
<1>2. ProbesCurrent'
  BY DEF CInv, ConfigTypeOK, ProbesCurrent, SettingsRow
<1>3. ValidatedIsRecorded' /\ (~ crossed' /\ ~ unowned' => (CacheHonest /\ EmbedsRecorded)')
  BY DEF CInv, ValidatedIsRecorded, CacheHonest, EmbedsRecorded
<1> QED
  BY <1>1, <1>2, <1>3 DEF CInv

(* A step that writes the row and keeps the contract: the revision does not  *)
(* fall, the row does not change under its revision, and no validation       *)
(* appears.                                                                  *)
LEMMA RowKeeps ==
  ASSUME CInv, UNCHANGED <<contract, corpus, ingest, adapter, unowned, crossed>>,
         settings' \in SettingsRow, settings'.rev >= settings.rev,
         settings'.rev = settings.rev => settings'.model = settings.model,
         settings'.status = "ok" => settings.status = "ok" /\ settings'.model = settings.model,
         desk' \in [Desks -> DeskRow], \A d \in Desks : desk'[d].at = "probe" => desk'[d] = desk[d]
  PROVE  CInv'
<1>1. ConfigTypeOK'
  BY DEF CInv, ConfigTypeOK
<1>2. ProbesCurrent'
  BY DEF CInv, ConfigTypeOK, ProbesCurrent, SettingsRow, DeskRow
<1>3. ValidatedIsRecorded' /\ (~ crossed' /\ ~ unowned' => (CacheHonest /\ EmbedsRecorded)')
  BY DEF CInv, ValidatedIsRecorded, CacheHonest, EmbedsRecorded
<1> QED
  BY <1>1, <1>2, <1>3 DEF CInv

LEMMA CheckPutKeeps ==
  ASSUME CInv, NEW d \in Desks, NEW m \in Models, CheckPut(d, m)
  PROVE  CInv'
<1> DEFINE x == [FreeDesk EXCEPT !.at = "put", !.model = m]
<1>1. x \in DeskRow /\ x.at = "put"
  BY FreeDeskIs DEF DeskRow
<1>2. desk' = [desk EXCEPT ![d] = x] /\ UNCHANGED <<settings, contract, corpus, ingest, adapter, unowned, crossed>>
  BY DEF CheckPut
<1> HIDE DEF x
<1>3. desk' \in [Desks -> DeskRow] /\ desk'[d].at = "put" /\ \A e \in Desks : e # d => desk'[e] = desk[e]
  BY <1>1, <1>2, DeskMoves DEF CInv
<1> QED
  BY <1>2, <1>3, DeskKeeps

LEMMA StageKeeps ==
  ASSUME CInv, NEW d \in Desks, StageConfig(d)
  PROVE  CInv'
<1>1. PICK k \in {settings.key, settings.rev + 1} :
        settings' = [rev |-> settings.rev + 1, model |-> desk[d].model, status |-> "none", on |-> TRUE, key |-> k]
  BY DEF StageConfig
<1>2. desk' = [desk EXCEPT ![d] = FreeDesk] /\ UNCHANGED <<contract, corpus, ingest, adapter, unowned, crossed>>
  BY DEF StageConfig
<1>3. settings.rev \in Nat /\ settings.key \in Nat /\ desk[d].model \in Models
  BY DEF CInv, ConfigTypeOK, SettingsRow, DeskRow
<1>4. k \in Nat /\ settings.rev + 1 \in Nat
  BY <1>1, <1>3
<1>5. settings' \in SettingsRow /\ settings'.rev = settings.rev + 1 /\ settings'.status = "none"
  BY <1>1, <1>3, <1>4 DEF SettingsRow
<1>6. desk' \in [Desks -> DeskRow] /\ desk'[d].at = "free" /\ \A e \in Desks : e # d => desk'[e] = desk[e]
  BY <1>2, FreeDeskIs, DeskMoves DEF CInv
<1>7. settings'.rev >= settings.rev /\ settings'.rev # settings.rev
  BY <1>3, <1>5
<1> QED
  BY <1>2, <1>5, <1>6, <1>7, RowKeeps

LEMMA ToggleKeeps ==
  ASSUME CInv, ToggleEnabled
  PROVE  CInv'
<1>1. /\ settings' = [settings EXCEPT !.rev = @ + 1, !.on = ~@]
      /\ UNCHANGED <<contract, corpus, desk, ingest, adapter, unowned, crossed>>
  BY DEF ToggleEnabled
<1> DEFINE n == settings.rev + 1
           b == ~ settings.on
<1>2. n \in Nat /\ n > settings.rev /\ b \in BOOLEAN
  BY DEF CInv, ConfigTypeOK, SettingsRow
<1>3. settings' = [settings EXCEPT !.rev = n, !.on = b]
  BY <1>1 DEF CInv, ConfigTypeOK, SettingsRow
<1>4. settings \in SettingsRow /\ settings.rev \in Nat
  BY DEF CInv, ConfigTypeOK, SettingsRow
<1> HIDE DEF n, b
<1>5. /\ settings' \in SettingsRow /\ settings'.rev = n
      /\ settings'.status = settings.status /\ settings'.model = settings.model
  BY <1>2, <1>3, <1>4 DEF SettingsRow
<1>6. settings'.rev >= settings.rev /\ settings'.rev # settings.rev
  BY <1>2, <1>4, <1>5
<1> QED
  BY <1>1, <1>5, <1>6, RowKeeps DEF CInv, ConfigTypeOK

LEMMA BeginTestKeeps ==
  ASSUME CInv, NEW d \in Desks, BeginTest(d)
  PROVE  CInv'
<1> DEFINE x == [at |-> "probe", rev |-> settings.rev, model |-> settings.model]
<1>1. x \in DeskRow /\ x.rev = settings.rev /\ x.model = settings.model
  BY DEF DeskRow, CInv, ConfigTypeOK, SettingsRow
<1>2. desk' = [desk EXCEPT ![d] = x] /\ UNCHANGED <<settings, contract, corpus, ingest, adapter, unowned, crossed>>
  BY DEF BeginTest
<1> HIDE DEF x
<1>3. desk' \in [Desks -> DeskRow] /\ desk'[d] = x /\ \A e \in Desks : e # d => desk'[e] = desk[e]
  BY <1>1, <1>2, DeskMoves DEF CInv
<1> QED
  BY <1>1, <1>2, <1>3, DeskKeeps

LEMMA ProbeFailsKeeps ==
  ASSUME CInv, NEW d \in Desks, ProbeFails(d)
  PROVE  CInv'
<1>1. /\ desk' = [desk EXCEPT ![d] = FreeDesk] /\ UNCHANGED <<contract, corpus, ingest, adapter, unowned, crossed>>
      /\ settings' = IF settings.rev = desk[d].rev THEN [settings EXCEPT !.status = "failed"] ELSE settings
  BY DEF ProbeFails
<1>2. desk' \in [Desks -> DeskRow] /\ desk'[d].at = "free" /\ \A e \in Desks : e # d => desk'[e] = desk[e]
  BY <1>1, FreeDeskIs, DeskMoves DEF CInv
<1>3. settings' = settings \/ settings' = [settings EXCEPT !.status = "failed"]
  BY <1>1
<1>4. settings \in SettingsRow
  BY DEF CInv, ConfigTypeOK
<1>5. /\ settings' \in SettingsRow /\ settings'.rev = settings.rev /\ settings'.model = settings.model
      /\ settings'.status \in {settings.status, "failed"}
  BY <1>3, <1>4 DEF SettingsRow
<1>6. settings'.rev >= settings.rev
  BY <1>4, <1>5 DEF SettingsRow
<1> QED
  BY <1>1, <1>2, <1>5, <1>6, RowKeeps

LEMMA PromoteRefusedKeeps ==
  ASSUME CInv, NEW d \in Desks, PromoteRefused(d)
  PROVE  CInv'
<1>1. /\ desk' = [desk EXCEPT ![d] = FreeDesk]
      /\ UNCHANGED <<settings, contract, corpus, ingest, adapter, unowned, crossed>>
  BY DEF PromoteRefused
<1>2. desk' \in [Desks -> DeskRow] /\ desk'[d].at = "free" /\ \A e \in Desks : e # d => desk'[e] = desk[e]
  BY <1>1, FreeDeskIs, DeskMoves DEF CInv
<1> QED
  BY <1>1, <1>2, DeskKeeps

(* A promotion writes the model it probed, which the unchanged row names.    *)
LEMMA PromoteKeeps ==
  ASSUME CInv, NEW d \in Desks, Promote(d)
  PROVE  CInv'
<1>1. /\ desk[d].at = "probe" /\ settings.rev = desk[d].rev /\ (desk[d].model = contract \/ corpus = {})
      /\ settings' = [settings EXCEPT !.status = "ok", !.rev = @ + 1] /\ contract' = desk[d].model
      /\ crossed' = (crossed \/ (desk[d].model # contract /\ ingest.at # "idle"))
      /\ desk' = [desk EXCEPT ![d] = FreeDesk] /\ UNCHANGED <<corpus, ingest, adapter, unowned>>
  BY DEF Promote, SameConfig, MayAdopt, Greenfield
<1>2. settings.rev \in Nat /\ settings \in SettingsRow /\ settings.rev + 1 \in Nat /\ desk[d].model \in Models
  BY DEF CInv, ConfigTypeOK, SettingsRow, DeskRow
<1>3. settings' \in SettingsRow /\ settings'.rev = settings.rev + 1 /\ settings'.model = settings.model
  BY <1>1, <1>2 DEF SettingsRow
<1>4. desk' \in [Desks -> DeskRow] /\ desk'[d].at = "free" /\ \A e \in Desks : e # d => desk'[e] = desk[e]
  BY <1>1, FreeDeskIs, DeskMoves DEF CInv
<1>5. settings.model = desk[d].model
  BY <1>1 DEF CInv, ProbesCurrent
<1>6. crossed' \in BOOLEAN
  BY <1>1 DEF CInv, ConfigTypeOK
<1>7. ConfigTypeOK'
  BY <1>1, <1>2, <1>3, <1>4, <1>6 DEF CInv, ConfigTypeOK
<1>8. ProbesCurrent'
  <2> SUFFICES ASSUME NEW e \in Desks, desk'[e].at = "probe"
               PROVE  desk'[e].rev <= settings'.rev /\ desk'[e].rev # settings'.rev
    BY DEF ProbesCurrent
  <2>1. e # d /\ desk'[e] = desk[e]
    BY <1>4
  <2>2. desk[e].rev \in Nat /\ desk[e].rev <= settings.rev
    BY <2>1 DEF CInv, ConfigTypeOK, DeskRow, ProbesCurrent
  <2> QED
    BY <1>2, <1>3, <2>1, <2>2
<1>9. ValidatedIsRecorded'
  BY <1>1, <1>3, <1>5 DEF ValidatedIsRecorded
<1>10. ASSUME ~ crossed', ~ unowned' PROVE (CacheHonest /\ EmbedsRecorded)'
  <2>1. ~ crossed /\ ~ unowned /\ (desk[d].model = contract \/ ingest.at = "idle")
    BY <1>1, <1>10
  <2>2. CacheHonest'
    BY <1>1, <2>1 DEF CInv, CacheHonest
  <2>3. EmbedsRecorded'
    BY <1>1, <2>1 DEF CInv, EmbedsRecorded
  <2> QED
    BY <2>2, <2>3
<1> QED
  BY <1>7, <1>8, <1>9, <1>10 DEF CInv

(* The corpus, the adopted configuration and the contract of the active      *)
(* generation name one model, for any number of models, requests and         *)
(* revisions (promoteValidatedEmbedderConfig, ensureCurrent).                *)
THEOREM CorpusKeepsOneModel == EmbedderConfigSpec => []EmbedderAgrees
<1>1. EmbedderConfigInit => CInv
  <2> SUFFICES ASSUME EmbedderConfigInit PROVE CInv
    OBVIOUS
  <2>1. /\ settings = NoRow /\ contract = Seeded /\ corpus = {} /\ desk = [d \in Desks |-> FreeDesk]
        /\ ingest = [at |-> "idle", digest |-> NoRow, model |-> Seeded] /\ adapter = NotCached
        /\ unowned = FALSE /\ crossed = FALSE
    BY DEF EmbedderConfigInit
  <2>2. ingest \in IngestRow /\ ingest.at = "idle"
    BY <2>1, IdleIs
  <2>3. ConfigTypeOK
    BY <2>1, <2>2, FreeDeskIs, NoRowIs, NotCachedIs, EmbedderConfigAssumption DEF ConfigTypeOK
  <2>4. ProbesCurrent
    BY <2>1, FreeDeskIs DEF ProbesCurrent
  <2>5. ValidatedIsRecorded
    BY <2>1, NoRowIs DEF ValidatedIsRecorded
  <2>6. CacheHonest
    BY <2>1, NotCachedIs DEF CacheHonest
  <2>7. EmbedsRecorded
    BY <2>1, <2>2 DEF EmbedsRecorded
  <2> QED
    BY <2>3, <2>4, <2>5, <2>6, <2>7 DEF CInv
<1>2. CInv /\ [EmbedderConfigNext]_configVars => CInv'
  <2> SUFFICES ASSUME CInv, [EmbedderConfigNext]_configVars PROVE CInv'
    OBVIOUS
  <2>1. CASE UNCHANGED configVars
    BY <2>1 DEF configVars, CInv, ConfigTypeOK, ProbesCurrent, ValidatedIsRecorded, CacheHonest, EmbedsRecorded
  <2> QED
    BY <2>1, ReadDigestKeeps, ResolveConfigKeeps, UnreadableKeeps, StoreKeeps, EmbedFailsKeeps, CheckPutKeeps,
       StageKeeps, ToggleKeeps, BeginTestKeeps, ProbeFailsKeeps, PromoteRefusedKeeps, PromoteKeeps
    DEF EmbedderConfigNext
<1>3. CInv => EmbedderAgrees
  BY DEF CInv, EmbedderAgrees, OneModelCorpus, AdoptedIsRecorded, EmbedsRecorded, ValidatedIsRecorded, Adopted
<1> QED
  BY <1>1, <1>2, <1>3, PTL DEF EmbedderConfigSpec
-----------------------------------------------------------------------------
(* The index of documents. An attempt that nobody has overlapped is the only *)
(* one, holds the job, and what it has read and embedded is its head's.      *)

Content    == [DocPaths -> Nat]
RefreshRow == [head : Nat, by : Refreshers \cup {"nobody"}]
AttemptRow ==
  [at : {"off", "wipe", "clone", "discover", "read", "embed"}, head : Nat, listed : SUBSET DocPaths,
   seen : Content, todo : SUBSET DocPaths, alone : BOOLEAN]

DocsTypeOK ==
  /\ trees \in Seq(Content) /\ unsent \subseteq 1..Newest /\ refresh \in RefreshRow /\ refresh.head <= Newest
  /\ cacheDir \in 0..Newest /\ index \in Content /\ behind \in BOOLEAN
  /\ attempt \in [Refreshers -> AttemptRow] /\ \A a \in Refreshers : attempt[a].head <= Newest

Running(a) == attempt[a] # OffDuty

(* What an attempt x has done is right by the directory and the index.       *)
Work(x, dir, idx) ==
  /\ x.at \in {"wipe", "clone", "discover"} => x.seen = NoDocs
  /\ x.at \in {"discover", "read"} => dir = x.head
  /\ x.at = "read" => \A d \in DocPaths : d \notin x.listed => x.seen[d] = DocsAt(x.head)[d]
  /\ x.at = "embed" =>
       x.seen = DocsAt(x.head) /\ \A d \in Present(x.seen) : d \notin x.todo => idx[d] = x.seen[d]

AloneIsRight ==
  \A a \in Refreshers : Running(a) /\ attempt[a].alone =>
    /\ \A b \in Refreshers \ {a} : ~ Running(b)
    /\ refresh.by = a /\ refresh.head = attempt[a].head /\ attempt[a].head # 0 /\ attempt[a].at # "off"
    /\ Work(attempt[a], cacheDir, index)

(* The newest head is indexed, as far as it has documents. *)
Indexed == Present(DocsAt(Newest)) = {} \/ index = DocsAt(Newest)

(* Unless something went wrong, the newest head waits, is being indexed or   *)
(* is indexed.                                                               *)
HeadFollowed ==
  ~ behind =>
    /\ \A a \in Refreshers : Running(a) => attempt[a].alone
    /\ Newest \notin unsent /\ refresh.head # Newest => refresh.head = 0 /\ Indexed

DInv == DocsTypeOK /\ AloneIsRight /\ HeadFollowed

LEMMA NewestIs == ASSUME DocsTypeOK PROVE Newest \in Nat
BY DEF DocsTypeOK, Newest

LEMMA NoDocsIs == NoDocs \in Content /\ \A d \in DocPaths : NoDocs[d] = 0
BY DEF NoDocs, Content

LEMMA OffDutyIs == OffDuty \in AttemptRow /\ OffDuty.at = "off" /\ OffDuty.head = 0 /\ OffDuty.seen = NoDocs
BY NoDocsIs DEF OffDuty, AttemptRow

LEMMA NoRefreshIs == NoRefresh \in RefreshRow /\ NoRefresh.head = 0 /\ NoRefresh.by = "nobody"
BY DEF NoRefresh, RefreshRow

LEMMA DocsAtIs == ASSUME DocsTypeOK, NEW h \in 0..Newest PROVE DocsAt(h) \in Content
<1>1. CASE h = 0
  BY <1>1, NoDocsIs DEF DocsAt
<1>2. CASE h # 0
  <2>1. h \in 1..Len(trees) /\ trees \in Seq(Content)
    BY <1>2, NewestIs DEF DocsTypeOK, Newest
  <2>2. trees[h] \in Content
    BY <2>1
  <2> QED
    BY <1>2, <2>2 DEF DocsAt
<1> QED
  BY <1>1, <1>2

LEMMA AttemptMoves ==
  ASSUME DocsTypeOK, NEW a \in Refreshers, NEW x \in AttemptRow, attempt' = [attempt EXCEPT ![a] = x]
  PROVE  /\ attempt' \in [Refreshers -> AttemptRow] /\ attempt'[a] = x
         /\ \A b \in Refreshers : b # a => attempt'[b] = attempt[b]
BY DEF DocsTypeOK

(* An attempt at work moves on to x. *)
LEMMA AttemptKeeps ==
  ASSUME DInv, NEW a \in Refreshers, NEW x \in AttemptRow, attempt' = [attempt EXCEPT ![a] = x],
         attempt[a].at # "off", x.at # "off", x.head = attempt[a].head, x.alone = attempt[a].alone,
         UNCHANGED <<trees, unsent, refresh, behind>>, cacheDir' \in 0..Newest, index' \in Content,
         attempt[a].alone => Work(x, cacheDir', index')
  PROVE  DInv'
<1>1. attempt' \in [Refreshers -> AttemptRow] /\ attempt'[a] = x /\ \A b \in Refreshers : b # a => attempt'[b] = attempt[b]
  BY AttemptMoves DEF DInv
<1>2. Newest' = Newest /\ Running(a)
  BY OffDutyIs DEF Newest, Running
<1>3. DocsTypeOK'
  BY <1>1, <1>2 DEF DInv, DocsTypeOK
<1>4. \A b \in Refreshers : Running(b)' => Running(b) /\ attempt'[b].alone = attempt[b].alone
  BY <1>1, <1>2 DEF Running
<1>5. AloneIsRight'
  <2> SUFFICES ASSUME NEW c \in Refreshers, Running(c)', attempt'[c].alone
               PROVE  /\ \A b \in Refreshers \ {c} : ~ Running(b)'
                      /\ refresh'.by = c /\ refresh'.head = attempt'[c].head /\ attempt'[c].head # 0 /\ attempt'[c].at # "off"
                      /\ Work(attempt[c], cacheDir, index)'
    BY DEF AloneIsRight
  <2>1. /\ \A b \in Refreshers \ {c} : ~ Running(b)
        /\ refresh.by = c /\ refresh.head = attempt[c].head /\ attempt[c].head # 0
    BY <1>4 DEF DInv, AloneIsRight
  <2>2. c = a
    BY <1>2, <2>1
  <2>3. Work(attempt[c], cacheDir, index)'
    BY <1>1, <2>2 DEF Work, DocsAt
  <2> QED
    BY <1>1, <1>4, <2>1, <2>2, <2>3
<1>6. HeadFollowed'
  <2> SUFFICES ASSUME ~ behind
               PROVE  /\ \A b \in Refreshers : Running(b)' => attempt'[b].alone
                      /\ Newest \in unsent \/ refresh.head = Newest
    BY <1>2 DEF HeadFollowed
  <2>1. attempt[a].alone /\ refresh.head # 0
    BY <1>2 DEF DInv, HeadFollowed, AloneIsRight
  <2> QED
    BY <1>4, <2>1 DEF DInv, HeadFollowed
<1> QED
  BY <1>3, <1>5, <1>6 DEF DInv

LEMMA WipeKeeps == ASSUME DInv, NEW a \in Refreshers, WipeCache(a) PROVE DInv'
<1> DEFINE x == [attempt[a] EXCEPT !.at = "clone"]
<1>1. attempt[a] \in AttemptRow /\ attempt[a].at = "wipe"
  BY DEF WipeCache, DInv, DocsTypeOK
<1>2. x \in AttemptRow /\ x.at = "clone" /\ x.head = attempt[a].head /\ x.alone = attempt[a].alone /\ x.seen = attempt[a].seen
  BY <1>1 DEF AttemptRow
<1>3. attempt' = [attempt EXCEPT ![a] = x] /\ cacheDir' = 0 /\ UNCHANGED <<trees, unsent, refresh, index, behind>>
  BY DEF WipeCache
<1> HIDE DEF x
<1>4. attempt[a].alone => attempt[a].seen = NoDocs
  BY <1>1, OffDutyIs DEF DInv, AloneIsRight, Work, Running
<1>5. attempt[a].alone => Work(x, cacheDir', index')
  BY <1>2, <1>4 DEF Work
<1>6. cacheDir' \in 0..Newest /\ index' \in Content
  BY <1>3, NewestIs DEF DInv, DocsTypeOK
<1> QED
  BY <1>1, <1>2, <1>3, <1>5, <1>6, AttemptKeeps

LEMMA CloneKeeps == ASSUME DInv, NEW a \in Refreshers, CloneHead(a) PROVE DInv'
<1> DEFINE x == [attempt[a] EXCEPT !.at = "discover"]
<1>1. attempt[a] \in AttemptRow /\ attempt[a].at = "clone" /\ attempt[a].head <= Newest /\ attempt[a].head \in Nat
  BY DEF CloneHead, DInv, DocsTypeOK, AttemptRow
<1>2. x \in AttemptRow /\ x.at = "discover" /\ x.head = attempt[a].head /\ x.alone = attempt[a].alone /\ x.seen = attempt[a].seen
  BY <1>1 DEF AttemptRow
<1>3. attempt' = [attempt EXCEPT ![a] = x] /\ cacheDir' = attempt[a].head /\ UNCHANGED <<trees, unsent, refresh, index, behind>>
  BY DEF CloneHead
<1> HIDE DEF x
<1>4. attempt[a].alone => attempt[a].seen = NoDocs
  BY <1>1, OffDutyIs DEF DInv, AloneIsRight, Work, Running
<1>5. attempt[a].alone => Work(x, cacheDir', index')
  BY <1>2, <1>3, <1>4 DEF Work
<1>6. cacheDir' \in 0..Newest /\ index' \in Content
  BY <1>1, <1>3, NewestIs DEF DInv, DocsTypeOK
<1> QED
  BY <1>1, <1>2, <1>3, <1>5, <1>6, AttemptKeeps

LEMMA DiscoverKeeps == ASSUME DInv, NEW a \in Refreshers, DiscoverDocs(a) PROVE DInv'
<1> DEFINE K == Present(DocsAt(cacheDir))
           x == [attempt[a] EXCEPT !.at = "read", !.listed = K]
<1>1. attempt[a] \in AttemptRow /\ attempt[a].at = "discover"
  BY DEF DiscoverDocs, DInv, DocsTypeOK
<1>2. K \in SUBSET DocPaths /\ \A d \in DocPaths : d \notin K => DocsAt(cacheDir)[d] = 0
  BY DEF Present
<1>3. /\ attempt' = [attempt EXCEPT ![a] = [attempt[a] EXCEPT !.at = "read", !.listed = K]]
      /\ UNCHANGED <<trees, unsent, refresh, cacheDir, index, behind>>
  BY DEF DiscoverDocs, DInv, DocsTypeOK
<1> HIDE DEF K
<1>4. /\ x \in AttemptRow /\ x.at = "read" /\ x.head = attempt[a].head /\ x.alone = attempt[a].alone
      /\ x.seen = attempt[a].seen /\ x.listed = K
  BY <1>1, <1>2 DEF AttemptRow
<1>5. attempt' = [attempt EXCEPT ![a] = x]
  BY <1>3
<1> HIDE DEF x
<1>6. attempt[a].alone => attempt[a].seen = NoDocs /\ cacheDir = attempt[a].head
  BY <1>1, OffDutyIs DEF DInv, AloneIsRight, Work, Running
<1>7. attempt[a].alone => Work(x, cacheDir', index')
  BY <1>2, <1>3, <1>4, <1>6, NoDocsIs DEF Work
<1>8. cacheDir' \in 0..Newest /\ index' \in Content
  BY <1>3 DEF DInv, DocsTypeOK
<1> QED
  BY <1>1, <1>3, <1>4, <1>5, <1>7, <1>8, AttemptKeeps

LEMMA ReadDocKeeps == ASSUME DInv, NEW a \in Refreshers, NEW d \in DocPaths, ReadDoc(a, d) PROVE DInv'
<1> DEFINE n == DocsAt(cacheDir)[d]
           L == attempt[a].listed \ {d}
           f == [attempt[a].seen EXCEPT ![d] = n]
           x == [attempt[a] EXCEPT !.listed = L, !.seen = f]
<1>1. attempt[a] \in AttemptRow /\ attempt[a].at = "read" /\ attempt[a].seen \in Content /\ attempt[a].listed \in SUBSET DocPaths
  BY DEF ReadDoc, DInv, DocsTypeOK, AttemptRow
<1>2. DocsAt(cacheDir) \in Content
  BY DocsAtIs DEF DInv, DocsTypeOK
<1>3. n \in Nat
  BY <1>2 DEF Content
<1>4. attempt' = [attempt EXCEPT ![a] = x] /\ UNCHANGED <<trees, unsent, refresh, cacheDir, index, behind>>
  BY DEF ReadDoc, DInv, DocsTypeOK, AttemptRow
<1>5. f \in Content /\ f[d] = n /\ \A e \in DocPaths : e # d => f[e] = attempt[a].seen[e]
  BY <1>1, <1>3 DEF Content
<1>6. L \in SUBSET DocPaths /\ \A e \in DocPaths : e # d /\ e \notin L => e \notin attempt[a].listed
  BY <1>1
<1> HIDE DEF f, L
<1>7. /\ x \in AttemptRow /\ x.at = "read" /\ x.head = attempt[a].head /\ x.alone = attempt[a].alone
      /\ x.seen = f /\ x.listed = L
  BY <1>1, <1>5, <1>6 DEF AttemptRow
<1> HIDE DEF x
<1>8. attempt[a].alone =>
        /\ cacheDir = attempt[a].head
        /\ \A e \in DocPaths : e \notin attempt[a].listed => attempt[a].seen[e] = DocsAt(attempt[a].head)[e]
  BY <1>1, OffDutyIs DEF DInv, AloneIsRight, Work, Running
<1>9. attempt[a].alone => Work(x, cacheDir', index')
  <2> SUFFICES ASSUME attempt[a].alone, NEW e \in DocPaths, e \notin L PROVE f[e] = DocsAt(attempt[a].head)[e]
    BY <1>4, <1>7, <1>8 DEF Work
  <2> QED
    BY <1>5, <1>6, <1>8
<1>10. cacheDir' \in 0..Newest /\ index' \in Content
  BY <1>4 DEF DInv, DocsTypeOK
<1> QED
  BY <1>1, <1>4, <1>7, <1>9, <1>10, AttemptKeeps

LEMMA CompareKeeps == ASSUME DInv, NEW a \in Refreshers, CompareHashes(a) PROVE DInv'
<1> DEFINE K == {d \in Present(attempt[a].seen) : ~ Unchanged(a, d)}
           x == [attempt[a] EXCEPT !.at = "embed", !.todo = K]
<1>1. attempt[a] \in AttemptRow /\ attempt[a].at = "read" /\ attempt[a].listed = {} /\ attempt[a].seen \in Content
  BY DEF CompareHashes, DInv, DocsTypeOK, AttemptRow
<1>2. K \in SUBSET DocPaths /\ \A d \in Present(attempt[a].seen) : d \notin K => index[d] = attempt[a].seen[d]
  BY DEF Present, Unchanged
<1>3. attempt' = [attempt EXCEPT ![a] = x] /\ UNCHANGED <<trees, unsent, refresh, cacheDir, index, behind>>
  BY DEF CompareHashes, DInv, DocsTypeOK
<1> HIDE DEF K
<1>4. /\ x \in AttemptRow /\ x.at = "embed" /\ x.head = attempt[a].head /\ x.alone = attempt[a].alone
      /\ x.seen = attempt[a].seen /\ x.todo = K
  BY <1>1, <1>2 DEF AttemptRow
<1> HIDE DEF x
<1>5. attempt[a].alone => \A e \in DocPaths : attempt[a].seen[e] = DocsAt(attempt[a].head)[e]
  BY <1>1, OffDutyIs DEF DInv, AloneIsRight, Work, Running
<1>6. attempt[a].head \in 0..Newest
  BY NewestIs DEF DInv, DocsTypeOK, AttemptRow
<1>7. DocsAt(attempt[a].head) \in Content
  BY <1>6, DocsAtIs DEF DInv
<1>8. attempt[a].alone => attempt[a].seen = DocsAt(attempt[a].head)
  BY <1>1, <1>5, <1>7 DEF Content
<1>9. attempt[a].alone => Work(x, cacheDir', index')
  BY <1>2, <1>3, <1>4, <1>8 DEF Work
<1>10. cacheDir' \in 0..Newest /\ index' \in Content
  BY <1>3 DEF DInv, DocsTypeOK
<1> QED
  BY <1>1, <1>3, <1>4, <1>9, <1>10, AttemptKeeps

LEMMA EmbedDocKeeps == ASSUME DInv, NEW a \in Refreshers, NEW d \in DocPaths, EmbedDoc(a, d) PROVE DInv'
<1> DEFINE L == attempt[a].todo \ {d}
           x == [attempt[a] EXCEPT !.todo = L]
<1>1. attempt[a] \in AttemptRow /\ attempt[a].at = "embed" /\ attempt[a].seen \in Content /\ attempt[a].todo \in SUBSET DocPaths
  BY DEF EmbedDoc, DInv, DocsTypeOK, AttemptRow
<1>2. attempt' = [attempt EXCEPT ![a] = x] /\ UNCHANGED <<trees, unsent, refresh, cacheDir, behind>>
  BY DEF EmbedDoc, DInv, DocsTypeOK, AttemptRow
<1>3. attempt[a].seen[d] \in Nat
  BY <1>1 DEF Content
<1>4. /\ index' \in Content /\ index'[d] = attempt[a].seen[d]
      /\ \A e \in DocPaths : e # d => index'[e] = index[e]
  BY <1>3 DEF EmbedDoc, DInv, DocsTypeOK, Content
<1>5. L \in SUBSET DocPaths /\ \A e \in DocPaths : e # d /\ e \notin L => e \notin attempt[a].todo
  BY <1>1
<1> HIDE DEF L
<1>6. /\ x \in AttemptRow /\ x.at = "embed" /\ x.head = attempt[a].head /\ x.alone = attempt[a].alone
      /\ x.seen = attempt[a].seen /\ x.todo = L
  BY <1>1, <1>5 DEF AttemptRow
<1> HIDE DEF x
<1>7. attempt[a].alone =>
        /\ attempt[a].seen = DocsAt(attempt[a].head)
        /\ \A e \in Present(attempt[a].seen) : e \notin attempt[a].todo => index[e] = attempt[a].seen[e]
  BY <1>1, OffDutyIs DEF DInv, AloneIsRight, Work, Running
<1>8. attempt[a].alone => Work(x, cacheDir', index')
  <2> SUFFICES ASSUME attempt[a].alone, NEW e \in Present(attempt[a].seen), e \notin L
               PROVE  index'[e] = attempt[a].seen[e]
    BY <1>6, <1>7 DEF Work
  <2> QED
    BY <1>4, <1>5, <1>7 DEF Present
<1>9. cacheDir' \in 0..Newest
  BY <1>2 DEF DInv, DocsTypeOK
<1> QED
  BY <1>1, <1>2, <1>4, <1>6, <1>8, <1>9, AttemptKeeps

(* An attempt ends. Whoever is left has been overlapped by it.               *)
LEMMA EndKeeps ==
  ASSUME DInv, NEW a \in Refreshers, Running(a), attempt' = [attempt EXCEPT ![a] = OffDuty],
         UNCHANGED <<trees, unsent, cacheDir>>, index' \in Content, behind' \in BOOLEAN,
         refresh' \in RefreshRow, refresh'.head \in {0, refresh.head},
         ~ behind' => \/ ~ behind /\ refresh'.head = refresh.head /\ index' = index
                      \/ /\ \A b \in Refreshers \ {a} : ~ Running(b)
                         /\ Newest \notin unsent => refresh'.head = 0 /\ Indexed'
  PROVE  DInv'
<1>1. /\ attempt' \in [Refreshers -> AttemptRow] /\ attempt'[a] = OffDuty
      /\ \A b \in Refreshers : b # a => attempt'[b] = attempt[b]
  BY AttemptMoves, OffDutyIs DEF DInv
<1>2. Newest' = Newest /\ Newest \in Nat
  BY NewestIs DEF Newest, DInv
<1>3. DocsTypeOK'
  BY <1>1, <1>2, OffDutyIs DEF DInv, DocsTypeOK
<1>4. \A b \in Refreshers : Running(b)' => b # a /\ Running(b) /\ attempt'[b] = attempt[b]
  BY <1>1 DEF Running
<1>5. AloneIsRight'
  BY <1>4 DEF AloneIsRight, DInv
<1>6. HeadFollowed'
  <2> SUFFICES ASSUME ~ behind'
               PROVE  /\ \A b \in Refreshers : Running(b)' => attempt'[b].alone
                      /\ Newest' \notin unsent' /\ refresh'.head # Newest' => refresh'.head = 0 /\ Indexed'
    BY DEF HeadFollowed
  <2>1. CASE ~ behind /\ refresh'.head = refresh.head /\ index' = index
    <3>1. Indexed' <=> Indexed
      BY <1>2, <2>1 DEF Indexed, DocsAt, Present
    <3> QED
      BY <1>2, <1>4, <2>1, <3>1 DEF DInv, HeadFollowed
  <2>2. CASE /\ \A b \in Refreshers \ {a} : ~ Running(b)
             /\ Newest \notin unsent => refresh'.head = 0 /\ Indexed'
    BY <1>2, <1>4, <2>2
  <2> QED
    BY <2>1, <2>2
<1> QED
  BY <1>3, <1>5, <1>6 DEF DInv

LEMMA DegradesKeeps == ASSUME DInv, NEW a \in Refreshers, EmbedDegrades(a) PROVE DInv'
<1>1. /\ Running(a) /\ attempt' = [attempt EXCEPT ![a] = OffDuty] /\ behind' = TRUE
      /\ UNCHANGED <<trees, unsent, cacheDir, index>> /\ refresh' \in {refresh, NoRefresh}
  BY OffDutyIs DEF EmbedDegrades, Settled, Running
<1>2. refresh' \in RefreshRow /\ refresh'.head \in {0, refresh.head}
  BY <1>1, NoRefreshIs DEF DInv, DocsTypeOK
<1>3. index' \in Content
  BY <1>1 DEF DInv, DocsTypeOK
<1> QED
  BY <1>1, <1>2, <1>3, EndKeeps

LEMMA FailsKeeps == ASSUME DInv, NEW a \in Refreshers, RefreshFails(a) PROVE DInv'
<1>1. /\ Running(a) /\ attempt' = [attempt EXCEPT ![a] = OffDuty]
      /\ UNCHANGED <<trees, unsent, cacheDir, index>>
      /\ \/ UNCHANGED <<refresh, behind>>
         \/ refresh' = [refresh EXCEPT !.by = "nobody"] /\ behind' = behind
         \/ refresh' = NoRefresh /\ behind' = TRUE
  BY DEF RefreshFails, Running
<1>2. refresh \in RefreshRow /\ index \in Content /\ behind \in BOOLEAN
  BY DEF DInv, DocsTypeOK
<1>3. [refresh EXCEPT !.by = "nobody"] \in RefreshRow /\ [refresh EXCEPT !.by = "nobody"].head = refresh.head
  BY <1>2 DEF RefreshRow
<1>4. refresh' \in RefreshRow /\ refresh'.head \in {0, refresh.head} /\ (~ behind' => ~ behind /\ refresh'.head = refresh.head)
  BY <1>1, <1>2, <1>3, NoRefreshIs
<1>5. behind' \in BOOLEAN
  BY <1>1, <1>2
<1> QED
  BY <1>1, <1>2, <1>4, <1>5, EndKeeps

(* The sweep leaves the index as the head's, when the attempt was alone.     *)
LEMMA SweepKeeps == ASSUME DInv, NEW a \in Refreshers, SweepOrphans(a) PROVE DInv'
<1>1. /\ attempt[a].at = "embed" /\ attempt[a].todo = {} /\ index' = Swept(a)
      /\ attempt' = [attempt EXCEPT ![a] = OffDuty] /\ UNCHANGED <<trees, unsent, cacheDir>>
      /\ refresh' = IF refresh.by = a THEN NoRefresh ELSE refresh
      /\ behind' = (behind /\ ~ (attempt[a].head = Newest /\ attempt[a].alone))
  BY DEF SweepOrphans, Settled
<1>2. Running(a) /\ attempt[a].seen \in Content /\ index \in Content
  BY <1>1, OffDutyIs DEF Running, DInv, DocsTypeOK, AttemptRow
<1>3. index' \in Content
  BY <1>1, <1>2 DEF Swept, Content
<1>4. refresh' \in RefreshRow /\ refresh'.head \in {0, refresh.head}
  BY <1>1, NoRefreshIs DEF DInv, DocsTypeOK
<1>5. behind' \in BOOLEAN
  BY <1>1 DEF DInv, DocsTypeOK
<1>6. ASSUME ~ behind'
      PROVE  /\ \A b \in Refreshers \ {a} : ~ Running(b)
             /\ Newest \notin unsent => refresh'.head = 0 /\ Indexed'
  <2>1. attempt[a].alone
    BY <1>1, <1>2, <1>6 DEF DInv, HeadFollowed
  <2>2. /\ \A b \in Refreshers \ {a} : ~ Running(b)
        /\ refresh.by = a /\ refresh.head = attempt[a].head /\ attempt[a].head # 0
        /\ attempt[a].seen = DocsAt(attempt[a].head)
        /\ \A d \in Present(attempt[a].seen) : index[d] = attempt[a].seen[d]
    BY <1>1, <1>2, <2>1 DEF DInv, AloneIsRight, Work
  <2>3. Newest \notin unsent => attempt[a].head = Newest
    BY <1>1, <1>6, <2>2 DEF DInv, HeadFollowed
  <2>4. refresh'.head = 0
    BY <1>1, <2>2, NoRefreshIs
  <2>5. Present(attempt[a].seen) = {} \/ index' = attempt[a].seen
    <3> SUFFICES ASSUME Present(attempt[a].seen) # {} PROVE index' = attempt[a].seen
      OBVIOUS
    <3>1. index' = [d \in DocPaths |-> IF d \in Present(attempt[a].seen) THEN index[d] ELSE 0]
      BY <1>1 DEF Swept
    <3>2. \A d \in DocPaths : index'[d] = attempt[a].seen[d]
      BY <2>2, <3>1 DEF Present
    <3> QED
      BY <1>2, <1>3, <3>2 DEF Content
  <2>6. Newest \notin unsent => Indexed'
    BY <1>1, <2>2, <2>3, <2>5 DEF Indexed, DocsAt, Present, Newest
  <2> QED
    BY <2>2, <2>4, <2>6
<1> QED
  BY <1>1, <1>2, <1>3, <1>4, <1>5, <1>6, EndKeeps

LEMMA ClaimRefreshKeeps == ASSUME DInv, NEW a \in Refreshers, ClaimRefresh(a) PROVE DInv'
<1> DEFINE others == {b \in Refreshers \ {a} : attempt[b] # OffDuty}
           mine   == [OffDuty EXCEPT !.at = "wipe", !.head = refresh.head, !.alone = (others = {})]
<1>1. /\ refresh.head # 0 /\ attempt[a] = OffDuty /\ refresh' = [refresh EXCEPT !.by = a]
      /\ attempt' = [b \in Refreshers |->
                       IF b = a THEN mine ELSE IF b \in others THEN [attempt[b] EXCEPT !.alone = FALSE] ELSE attempt[b]]
      /\ behind' = (behind \/ others # {}) /\ UNCHANGED <<trees, unsent, cacheDir, index>>
  BY DEF ClaimRefresh
<1>2. refresh \in RefreshRow /\ refresh.head \in Nat /\ refresh.head <= Newest /\ behind \in BOOLEAN
  BY DEF DInv, DocsTypeOK, RefreshRow
<1>3. refresh' \in RefreshRow /\ refresh'.head = refresh.head /\ refresh'.by = a
  BY <1>1, <1>2 DEF RefreshRow
<1>4. \A b \in Refreshers : b \in others <=> b # a /\ Running(b)
  BY DEF Running
<1>5. PICK al \in BOOLEAN : al <=> others = {}
  OBVIOUS
<1>6. mine = [OffDuty EXCEPT !.at = "wipe", !.head = refresh.head, !.alone = al]
  BY <1>5
<1> HIDE DEF others, mine
<1>7. mine \in AttemptRow /\ mine.at = "wipe" /\ mine.head = refresh.head /\ mine.alone = al /\ mine.seen = NoDocs
  BY <1>2, <1>6, OffDutyIs DEF AttemptRow
<1>8. \A b \in Refreshers :
        /\ [attempt[b] EXCEPT !.alone = FALSE] \in AttemptRow /\ [attempt[b] EXCEPT !.alone = FALSE].alone = FALSE
        /\ [attempt[b] EXCEPT !.alone = FALSE].head = attempt[b].head
  BY DEF DInv, DocsTypeOK, AttemptRow
<1>9. attempt'[a] = mine /\ \A b \in Refreshers \ {a} : attempt'[b] = IF b \in others THEN [attempt[b] EXCEPT !.alone = FALSE] ELSE attempt[b]
  BY <1>1
<1>10. attempt' \in [Refreshers -> AttemptRow]
  BY <1>1, <1>7, <1>8 DEF DInv, DocsTypeOK
<1>11. Newest' = Newest /\ \A b \in Refreshers : attempt'[b].head <= Newest
  BY <1>1, <1>2, <1>7, <1>8, <1>9 DEF DInv, DocsTypeOK, Newest
<1>12. DocsTypeOK'
  BY <1>1, <1>2, <1>3, <1>10, <1>11 DEF DInv, DocsTypeOK
<1>13. \A b \in Refreshers \ {a} : attempt'[b] = OffDuty \/ (~ attempt'[b].alone /\ others # {})
  BY <1>4, <1>8, <1>9 DEF Running
<1>14. AloneIsRight'
  <2> SUFFICES ASSUME NEW c \in Refreshers, Running(c)', attempt'[c].alone
               PROVE  /\ \A b \in Refreshers \ {c} : ~ Running(b)'
                      /\ refresh'.by = c /\ refresh'.head = attempt'[c].head /\ attempt'[c].head # 0 /\ attempt'[c].at # "off"
                      /\ Work(attempt[c], cacheDir, index)'
    BY DEF AloneIsRight
  <2>1. c = a
    BY <1>13 DEF Running
  <2>2. others = {}
    BY <1>5, <1>7, <1>9, <2>1
  <2>3. \A b \in Refreshers \ {a} : ~ Running(b)'
    BY <1>13, <2>2 DEF Running
  <2>4. Work(attempt[a], cacheDir, index)'
    BY <1>7, <1>9 DEF Work, NoDocs
  <2> QED
    BY <1>1, <1>3, <1>7, <1>9, <2>1, <2>3, <2>4
<1>15. HeadFollowed'
  <2> SUFFICES ASSUME ~ behind'
               PROVE  /\ \A b \in Refreshers : Running(b)' => attempt'[b].alone
                      /\ Newest' \in unsent' \/ refresh'.head = Newest'
    BY DEF HeadFollowed
  <2>1. ~ behind /\ others = {} /\ al
    BY <1>1, <1>5
  <2>2. \A b \in Refreshers : Running(b)' => attempt'[b].alone
    BY <1>7, <1>9, <1>13, <2>1 DEF Running
  <2> QED
    BY <1>1, <1>3, <1>11, <2>1, <2>2 DEF DInv, HeadFollowed
<1> QED
  BY <1>12, <1>14, <1>15 DEF DInv

LEMMA DispatchRefreshKeeps == ASSUME DInv, NEW h \in unsent, DispatchRefresh(h) PROVE DInv'
<1>1. /\ unsent' = unsent \ {h}
      /\ refresh' = IF refresh.head = 0 THEN [NoRefresh EXCEPT !.head = h] ELSE refresh
      /\ behind' = (behind \/ refresh.head # 0 \/ \E g \in h + 1..Newest : g \notin unsent)
      /\ UNCHANGED <<trees, cacheDir, attempt, index>>
  BY DEF DispatchRefresh
<1>2. Newest' = Newest /\ Newest \in Nat /\ h \in 1..Newest
  BY <1>1, NewestIs DEF Newest, DInv, DocsTypeOK
<1>3. [NoRefresh EXCEPT !.head = h] \in RefreshRow /\ [NoRefresh EXCEPT !.head = h].head = h
  BY <1>2 DEF NoRefresh, RefreshRow
<1>4. /\ refresh' \in RefreshRow /\ refresh'.head <= Newest /\ (refresh.head = 0 => refresh'.head = h)
      /\ (refresh.head # 0 => refresh' = refresh)
  BY <1>1, <1>2, <1>3 DEF DInv, DocsTypeOK
<1>5. behind' \in BOOLEAN
  BY <1>1 DEF DInv, DocsTypeOK
<1>6. DocsTypeOK'
  BY <1>1, <1>2, <1>4, <1>5 DEF DInv, DocsTypeOK
<1>7. AloneIsRight'
  <2>1. CASE refresh.head = 0
    BY <1>1, <2>1 DEF DInv, AloneIsRight, Running
  <2>2. CASE refresh.head # 0
    BY <1>1, <1>4, <2>2 DEF DInv, AloneIsRight, Running, Work, DocsAt
  <2> QED
    BY <2>1, <2>2
<1>8. HeadFollowed'
  <2> SUFFICES ASSUME ~ behind'
               PROVE  /\ \A b \in Refreshers : Running(b)' => attempt'[b].alone
                      /\ Newest' \in unsent' \/ refresh'.head = Newest'
    BY DEF HeadFollowed
  <2>1. ~ behind /\ refresh.head = 0 /\ \A g \in h + 1..Newest : g \in unsent
    BY <1>1
  <2>2. CASE h = Newest
    BY <1>1, <1>2, <1>4, <2>1, <2>2 DEF DInv, HeadFollowed, Running
  <2>3. CASE h # Newest
    <3>1. Newest \in h + 1..Newest
      BY <1>2, <2>3
    <3> QED
      BY <1>1, <1>2, <2>1, <2>3, <3>1 DEF DInv, HeadFollowed, Running
  <2> QED
    BY <2>2, <2>3
<1> QED
  BY <1>6, <1>7, <1>8 DEF DInv

LEMMA PushKeeps == ASSUME DInv, PushDocs PROVE DInv'
<1>1. PICK t \in [DocPaths -> 0..Newest + 1] : trees' = Append(trees, t)
  BY DEF PushDocs
<1>2. unsent' = unsent \cup {Newest + 1} /\ UNCHANGED <<refresh, cacheDir, attempt, index, behind>>
  BY DEF PushDocs
<1>3. Newest \in Nat /\ trees \in Seq(Content)
  BY NewestIs DEF DInv, DocsTypeOK
<1>4. t \in Content
  BY <1>1, <1>3 DEF Content
<1>5. trees' \in Seq(Content) /\ Len(trees') = Len(trees) + 1 /\ \A h \in 1..Len(trees) : trees'[h] = trees[h]
  BY <1>1, <1>3, <1>4
<1>6. Newest' = Newest + 1
  BY <1>5 DEF Newest
<1>7. \A h \in 0..Newest : DocsAt(h)' = DocsAt(h)
  BY <1>3, <1>5 DEF DocsAt, Newest, NoDocs
<1>8. refresh.head \in Nat /\ refresh.head <= Newest + 1 /\ \A a \in Refreshers : attempt[a].head \in 0..Newest /\ attempt[a].head <= Newest + 1
  BY <1>3 DEF DInv, DocsTypeOK, RefreshRow, AttemptRow
<1>9. unsent' \subseteq 1..Newest + 1 /\ cacheDir' \in 0..Newest + 1
  BY <1>2, <1>3 DEF DInv, DocsTypeOK
<1>10. DocsTypeOK'
  BY <1>2, <1>5, <1>6, <1>8, <1>9 DEF DInv, DocsTypeOK
<1>11. AloneIsRight'
  <2> SUFFICES ASSUME NEW c \in Refreshers, Running(c)', attempt'[c].alone
               PROVE  /\ \A b \in Refreshers \ {c} : ~ Running(b)'
                      /\ refresh'.by = c /\ refresh'.head = attempt'[c].head /\ attempt'[c].head # 0 /\ attempt'[c].at # "off"
                      /\ Work(attempt[c], cacheDir, index)'
    BY DEF AloneIsRight
  <2>1. \A b \in Refreshers : Running(b)' <=> Running(b)
    BY <1>2 DEF Running
  <2>2. /\ \A b \in Refreshers \ {c} : ~ Running(b)
        /\ refresh.by = c /\ refresh.head = attempt[c].head /\ attempt[c].head # 0 /\ attempt[c].at # "off"
        /\ Work(attempt[c], cacheDir, index)
    BY <1>2, <2>1 DEF DInv, AloneIsRight
  <2>3. DocsAt(attempt[c].head)' = DocsAt(attempt[c].head)
    BY <1>2, <1>7, <1>8
  <2>4. Work(attempt[c], cacheDir, index)'
    BY <1>2, <2>2, <2>3 DEF Work, NoDocs, Present
  <2> QED
    BY <1>2, <2>1, <2>2, <2>4
<1>12. HeadFollowed'
  BY <1>2, <1>6 DEF DInv, HeadFollowed, Running
<1> QED
  BY <1>10, <1>11, <1>12 DEF DInv

(* The index holds the newest head's documents when nothing runs or waits,   *)
(* unless a refresh was dropped, degraded, overlapped or died, for any       *)
(* number of documents, pushes and attempts (refreshSemanticDocs).           *)
THEOREM IndexStaysWithHead == RepoDocsSpec => []IndexFollowsHead
<1>1. RepoDocsInit => DInv
  <2> SUFFICES ASSUME RepoDocsInit PROVE DInv
    OBVIOUS
  <2>1. /\ trees = <<>> /\ unsent = {} /\ refresh = NoRefresh /\ cacheDir = 0
        /\ attempt = [a \in Refreshers |-> OffDuty] /\ index = NoDocs /\ behind = FALSE
    BY DEF RepoDocsInit
  <2>2. Newest = 0 /\ trees \in Seq(Content)
    BY <2>1 DEF Newest
  <2>3. DocsTypeOK
    <3>1. attempt \in [Refreshers -> AttemptRow] /\ \A a \in Refreshers : attempt[a].head <= Newest
      BY <2>1, <2>2, OffDutyIs
    <3>2. unsent \subseteq 1..Newest /\ cacheDir \in 0..Newest /\ refresh \in RefreshRow /\ refresh.head <= Newest
      BY <2>1, <2>2, NoRefreshIs
    <3> QED
      BY <2>1, <2>2, <3>1, <3>2, NoDocsIs DEF DocsTypeOK
  <2>4. \A a \in Refreshers : ~ Running(a)
    BY <2>1 DEF Running
  <2>5. refresh.head = Newest
    BY <2>1, <2>2, NoRefreshIs
  <2> QED
    BY <2>3, <2>4, <2>5 DEF DInv, AloneIsRight, HeadFollowed
<1>2. DInv /\ [RepoDocsNext]_docsVars => DInv'
  <2> SUFFICES ASSUME DInv, [RepoDocsNext]_docsVars PROVE DInv'
    OBVIOUS
  <2>1. CASE UNCHANGED docsVars
    <3>1. UNCHANGED <<trees, unsent, refresh, cacheDir, attempt, index, behind>>
      BY <2>1 DEF docsVars
    <3>2. DocsTypeOK' /\ Newest' = Newest
      BY <3>1 DEF DInv, DocsTypeOK, Newest
    <3>3. AloneIsRight'
      BY <3>1 DEF DInv, AloneIsRight, Running, Work, DocsAt, NoDocs, Present
    <3>4. HeadFollowed'
      BY <3>1, <3>2 DEF DInv, HeadFollowed, Running, Indexed, DocsAt, NoDocs, Present
    <3> QED
      BY <3>2, <3>3, <3>4 DEF DInv
  <2> QED
    BY <2>1, PushKeeps, DispatchRefreshKeeps, ClaimRefreshKeeps, WipeKeeps, CloneKeeps, DiscoverKeeps, ReadDocKeeps,
       CompareKeeps, EmbedDocKeeps, DegradesKeeps, SweepKeeps, FailsKeeps DEF RepoDocsNext
<1>3. DInv => IndexFollowsHead
  <2> SUFFICES ASSUME DInv, unsent = {}, refresh = NoRefresh, ~ behind, Present(DocsAt(Newest)) # {}
               PROVE  index = DocsAt(Newest)
    BY DEF IndexFollowsHead
  <2>1. CASE Newest = 0
    BY <2>1, NoDocsIs DEF DocsAt, Present
  <2>2. CASE Newest # 0
    BY <2>2, NoRefreshIs DEF DInv, HeadFollowed, Indexed
  <2> QED
    BY <2>1, <2>2
<1> QED
  BY <1>1, <1>2, <1>3, PTL DEF RepoDocsSpec
-----------------------------------------------------------------------------
(* The pages. Rows hold what the wiki held, the cycle keeps account of its   *)
(* listing, and what it is done with is in the corpus while nothing disturbs *)
(* it.                                                                       *)

WikiRow  == [version : Versions, kind : Kinds, listed : BOOLEAN]
ChunkRow == [there : BOOLEAN, kind : Kinds, deleted : BOOLEAN, superseded : BOOLEAN, vec : BOOLEAN]
JobRow   == [at : {"idle", "next", "fetch", "embed", "write"}, page : Pages \cup {"none"}, version : Versions \cup {0},
             kind : Kinds, todo : SUBSET Pages, listing : SUBSET Pages, live : SUBSET Pages]

KnowTypeOK ==
  /\ wiki \in [Pages -> WikiRow] /\ chunks \in [Pages -> [Versions -> ChunkRow]]
  /\ job \in [Jobs -> JobRow] /\ calm \in BOOLEAN

(* A job at work on a page has it, and what it fetched was the page once:    *)
(* the wiki's version of it, or an older one.                                *)
Fetched(x) ==
  /\ x.at \in {"fetch", "embed", "write"} => x.page \in Pages
  /\ x.at \in {"embed", "write"} =>
       /\ x.version \in Versions /\ x.version <= wiki[x.page].version
       /\ x.version = wiki[x.page].version => x.kind = wiki[x.page].kind

(* Rows hold what the wiki held; the newest one is not superseded. *)
RowsFetched ==
  \A p \in Pages, v \in Versions :
    /\ chunks[p][v].there => v <= wiki[p].version
    /\ chunks[p][v].there /\ v = wiki[p].version => chunks[p][v].kind = wiki[p].kind
    /\ chunks[p][v].superseded => v < wiki[p].version
    /\ chunks[p][v].deleted => p \in gone

Live(p, v) == chunks[p][v].there /\ ~ chunks[p][v].deleted /\ ~ chunks[p][v].superseded

OneLive == \A p \in Pages : p \notin late => \A v, w \in Versions : Live(p, v) /\ Live(p, w) => v = w

(* The cycle keeps account of its listing. *)
Account(x) == x.listing \subseteq x.todo \cup x.live

Working(x) == x.at \in {"fetch", "embed", "write"}

(* While nothing disturbs the cycle, what it has done with is in the corpus. *)
CycleDone(x) ==
  /\ \A p \in Pages : wiki[p].listed => p \in x.listing
  /\ x.at \in {"embed", "write"} => x.version = wiki[x.page].version
  /\ \A p \in x.live : ~ (Working(x) /\ p = x.page) /\ wiki[p].kind = "plain" => chunks[p][wiki[p].version].there

JobsSound == (\A j \in Jobs : Fetched(job[j])) /\ Account(job["cycle"]) /\ (calm => CycleDone(job["cycle"]))

KnInv == KnowTypeOK /\ RowsFetched /\ OneLive /\ JobsSound

LEMMA IdleJobIs ==
  /\ IdleJob \in JobRow /\ IdleJob.at = "idle" /\ IdleJob.listing = {} /\ IdleJob.live = {}
  /\ "cycle" \in Jobs /\ "resync" \in Jobs /\ "cycle" # "resync"
BY DEF IdleJob, JobRow, Kinds, Jobs

LEMMA WikiIs ==
  ASSUME KnowTypeOK, NEW p \in Pages
  PROVE  wiki[p].version \in Versions /\ wiki[p].version \in Nat /\ wiki[p].kind \in Kinds
BY KnowledgeAssumption DEF KnowTypeOK, WikiRow, Versions

LEMMA JobMoves ==
  ASSUME KnowTypeOK, NEW j \in Jobs, NEW x \in JobRow, job' = [job EXCEPT ![j] = x]
  PROVE  job' \in [Jobs -> JobRow] /\ job'[j] = x /\ \A i \in Jobs : i # j => job'[i] = job[i]
BY DEF KnowTypeOK

(* A step of job j alone, to x. *)
LEMMA JobKeeps ==
  ASSUME KnInv, NEW j \in Jobs, NEW x \in JobRow, job' = [job EXCEPT ![j] = x],
         UNCHANGED <<wiki, chunks, gone, late>>, calm' \in BOOLEAN, Fetched(x),
         j = "cycle" => Account(x) /\ (calm' => CycleDone(x)),
         j # "cycle" => (calm' => calm)
  PROVE  KnInv'
<1>1. job' \in [Jobs -> JobRow] /\ job'[j] = x /\ \A i \in Jobs : i # j => job'[i] = job[i]
  BY JobMoves DEF KnInv
<1>2. KnowTypeOK'
  BY <1>1 DEF KnInv, KnowTypeOK
<1>3. RowsFetched' /\ OneLive'
  BY DEF KnInv, RowsFetched, OneLive, Live
<1>4. \A i \in Jobs : Fetched(job[i])'
  BY <1>1 DEF KnInv, JobsSound, Fetched
<1>5. CASE j = "cycle"
  <2>1. Account(job["cycle"])' /\ (calm' => CycleDone(job["cycle"])')
    BY <1>1, <1>5 DEF Account, CycleDone, Working
  <2> QED
    BY <1>2, <1>3, <1>4, <2>1 DEF KnInv, JobsSound
<1>6. CASE j # "cycle"
  <2>1. job'["cycle"] = job["cycle"]
    BY <1>1, <1>6, IdleJobIs
  <2>2. Account(job["cycle"])' /\ (calm' => CycleDone(job["cycle"])')
    BY <1>6, <2>1 DEF KnInv, JobsSound, Account, CycleDone, Working
  <2> QED
    BY <1>2, <1>3, <1>4, <2>2 DEF KnInv, JobsSound
<1> QED
  BY <1>5, <1>6

(* What a job becomes after a page. *)
LEMMA NextPageIs ==
  ASSUME KnowTypeOK, NEW j \in Jobs
  PROVE  /\ NextPage(j) \in JobRow /\ NextPage(j).at \in {"next", "idle"}
         /\ j = "cycle" => /\ NextPage(j).listing = job[j].listing /\ NextPage(j).todo = job[j].todo
                           /\ NextPage(j).live = job[j].live
<1>1. job[j] \in JobRow
  BY DEF KnowTypeOK
<1>2. "plain" \in Kinds
  BY DEF Kinds
<1>3. CASE j = "cycle"
  <2> DEFINE x == [job[j] EXCEPT !.at = "next", !.page = "none", !.version = 0, !.kind = "plain"]
  <2>1. x \in JobRow /\ x.at = "next" /\ x.listing = job[j].listing /\ x.todo = job[j].todo /\ x.live = job[j].live
    BY <1>1, <1>2 DEF JobRow
  <2>2. NextPage(j) = x
    BY <1>3 DEF NextPage
  <2> HIDE DEF x
  <2> QED
    BY <2>1, <2>2
<1>4. CASE j # "cycle"
  BY <1>4, IdleJobIs DEF NextPage
<1> QED
  BY <1>3, <1>4

LEMMA ListPagesKeeps == ASSUME KnInv, ListPages PROVE KnInv'
<1> DEFINE L == {p \in Pages : wiki[p].listed}
           x == [IdleJob EXCEPT !.at = "next", !.todo = L, !.listing = L]
<1>1. /\ job' = [job EXCEPT !["cycle"] = x] /\ calm' = TRUE /\ UNCHANGED <<wiki, chunks, gone, late>>
  BY DEF ListPages
<1>2. L \in SUBSET Pages /\ \A p \in Pages : wiki[p].listed => p \in L
  OBVIOUS
<1> HIDE DEF L
<1>3. x \in JobRow /\ x.at = "next" /\ x.todo = L /\ x.listing = L /\ x.live = {}
  BY <1>2, IdleJobIs DEF JobRow
<1> HIDE DEF x
<1>4. Fetched(x) /\ Account(x)
  BY <1>3 DEF Fetched, Account
<1>5. CycleDone(x)
  BY <1>2, <1>3 DEF CycleDone
<1> QED
  BY <1>1, <1>3, <1>4, <1>5, IdleJobIs, JobKeeps

LEMMA PickPageKeeps == ASSUME KnInv, NEW p \in Pages, PickPage(p) PROVE KnInv'
<1> DEFINE y == job["cycle"]
           x == Picked(p)
<1>1. /\ y.at = "next" /\ p \in y.todo /\ job' = [job EXCEPT !["cycle"] = x] /\ UNCHANGED <<wiki, chunks, gone, late, calm>>
  BY DEF PickPage
<1>2. y \in JobRow /\ y.todo \in SUBSET Pages /\ y.live \in SUBSET Pages
  BY IdleJobIs DEF KnInv, KnowTypeOK, JobRow
<1>3. /\ x \in JobRow /\ x.at = "fetch" /\ x.page = p /\ x.todo = y.todo \ {p} /\ x.live = y.live \cup {p}
      /\ x.listing = y.listing
  BY <1>2 DEF Picked, JobRow
<1>4. Account(y) /\ (calm => CycleDone(y))
  BY DEF KnInv, JobsSound
<1> HIDE DEF x, y
<1>5. Fetched(x) /\ Account(x)
  BY <1>3, <1>4 DEF Fetched, Account
<1>6. calm => CycleDone(x)
  BY <1>1, <1>3, <1>4 DEF CycleDone, Working
<1>7. calm' \in BOOLEAN
  BY <1>1 DEF KnInv, KnowTypeOK
<1> QED
  BY <1>1, <1>3, <1>5, <1>6, <1>7, IdleJobIs, JobKeeps

LEMMA StartResyncKeeps == ASSUME KnInv, NEW p \in Pages, StartResync(p) PROVE KnInv'
<1> DEFINE x == [IdleJob EXCEPT !.at = "fetch", !.page = p]
<1>1. job' = [job EXCEPT !["resync"] = x] /\ UNCHANGED <<wiki, chunks, gone, late, calm>>
  BY DEF StartResync
<1>2. x \in JobRow /\ x.at = "fetch" /\ x.page = p
  BY IdleJobIs DEF JobRow
<1> HIDE DEF x
<1>3. Fetched(x)
  BY <1>2 DEF Fetched
<1>4. calm' \in BOOLEAN
  BY <1>1 DEF KnInv, KnowTypeOK
<1> QED
  BY <1>1, <1>2, <1>3, <1>4, IdleJobIs, JobKeeps

LEMMA FetchBodyKeeps == ASSUME KnInv, NEW j \in Jobs, FetchBody(j) PROVE KnInv'
<1> DEFINE p == job[j].page
           w == wiki[p].version
           k == wiki[p].kind
           x == [job[j] EXCEPT !.at = "embed", !.version = w, !.kind = k]
<1>1. job[j] \in JobRow /\ job[j].at = "fetch"
  BY DEF FetchBody, KnInv, KnowTypeOK
<1>2. p \in Pages
  BY <1>1 DEF KnInv, JobsSound, Fetched
<1>3. w \in Versions /\ w \in Nat /\ k \in Kinds
  BY <1>2, WikiIs DEF KnInv
<1>4. job' = [job EXCEPT ![j] = x] /\ UNCHANGED <<wiki, chunks, gone, late, calm>>
  BY DEF FetchBody, KnInv, KnowTypeOK
<1>5. /\ x \in JobRow /\ x.at = "embed" /\ x.page = p /\ x.version = w /\ x.kind = k
      /\ x.todo = job[j].todo /\ x.live = job[j].live /\ x.listing = job[j].listing
  BY <1>1, <1>3 DEF JobRow
<1> HIDE DEF x
<1>6. Fetched(x)
  BY <1>2, <1>3, <1>5 DEF Fetched
<1>7. j = "cycle" => Account(x) /\ (calm => CycleDone(x))
  BY <1>1, <1>5 DEF KnInv, JobsSound, Account, CycleDone, Working
<1>8. calm' \in BOOLEAN
  BY <1>4 DEF KnInv, KnowTypeOK
<1> QED
  BY <1>4, <1>5, <1>6, <1>7, <1>8, JobKeeps

LEMMA PageFailsKeeps == ASSUME KnInv, NEW j \in Jobs, PageFails(j) PROVE KnInv'
<1>1. job' = [job EXCEPT ![j] = NextPage(j)] /\ calm' = FALSE /\ UNCHANGED <<wiki, chunks, gone, late>>
  BY DEF PageFails
<1>2. /\ NextPage(j) \in JobRow /\ NextPage(j).at \in {"next", "idle"}
      /\ j = "cycle" => /\ NextPage(j).listing = job[j].listing /\ NextPage(j).todo = job[j].todo
                        /\ NextPage(j).live = job[j].live
  BY NextPageIs DEF KnInv
<1>3. Fetched(NextPage(j)) /\ (j = "cycle" => Account(NextPage(j)))
  BY <1>2 DEF Fetched, Account, KnInv, JobsSound
<1> QED
  BY <1>1, <1>2, <1>3, JobKeeps

LEMMA JobDiesKeeps == ASSUME KnInv, NEW j \in Jobs, JobDies(j) PROVE KnInv'
<1>1. job' = [job EXCEPT ![j] = IdleJob] /\ calm' = FALSE /\ UNCHANGED <<wiki, chunks, gone, late>>
  BY DEF JobDies
<1>2. Fetched(IdleJob) /\ Account(IdleJob)
  BY IdleJobIs DEF Fetched, Account
<1> QED
  BY <1>1, <1>2, IdleJobIs, JobKeeps

(* A page that is refused is a default one, and so it is in the wiki when    *)
(* nothing changed since it was fetched.                                     *)
LEMMA DecideKeeps == ASSUME KnInv, NEW j \in Jobs, DecideUpsert(j) PROVE KnInv'
<1>1. job[j].at = "embed" /\ UNCHANGED <<wiki, chunks, gone, late, calm>> /\ job[j] \in JobRow
  BY DEF DecideUpsert, KnInv, KnowTypeOK
<1>2. Fetched(job[j]) /\ job[j].page \in Pages
  BY <1>1 DEF KnInv, JobsSound, Fetched
<1>3. calm' \in BOOLEAN
  BY <1>1 DEF KnInv, KnowTypeOK
<1>4. CASE Accepts(j)
  <2> DEFINE x == [job[j] EXCEPT !.at = "write"]
  <2>1. job' = [job EXCEPT ![j] = x]
    BY <1>4 DEF DecideUpsert
  <2>2. /\ x \in JobRow /\ x.at = "write" /\ x.page = job[j].page /\ x.version = job[j].version /\ x.kind = job[j].kind
        /\ x.todo = job[j].todo /\ x.live = job[j].live /\ x.listing = job[j].listing
    BY <1>1 DEF JobRow
  <2> HIDE DEF x
  <2>3. Fetched(x)
    BY <1>1, <1>2, <2>2 DEF Fetched
  <2>4. j = "cycle" => Account(x) /\ (calm => CycleDone(x))
    BY <1>1, <2>2 DEF KnInv, JobsSound, Account, CycleDone, Working
  <2> QED
    BY <1>1, <1>3, <2>1, <2>2, <2>3, <2>4, JobKeeps
<1>5. CASE ~ Accepts(j)
  <2>1. job' = [job EXCEPT ![j] = NextPage(j)] /\ job[j].kind = "default"
    BY <1>5 DEF DecideUpsert, Accepts
  <2>2. /\ NextPage(j) \in JobRow /\ NextPage(j).at \in {"next", "idle"}
        /\ j = "cycle" => /\ NextPage(j).listing = job[j].listing /\ NextPage(j).todo = job[j].todo
                          /\ NextPage(j).live = job[j].live
    BY NextPageIs DEF KnInv
  <2>3. Fetched(NextPage(j)) /\ (j = "cycle" => Account(NextPage(j)))
    BY <2>2 DEF Fetched, Account, KnInv, JobsSound
  <2>4. ASSUME j = "cycle", calm PROVE CycleDone(NextPage(j))
    <3>1. CycleDone(job[j])
      BY <2>4 DEF KnInv, JobsSound
    <3>2. wiki[job[j].page].kind = "default"
      BY <1>1, <1>2, <2>1, <3>1 DEF Fetched, CycleDone
    <3> QED
      BY <1>1, <2>2, <2>4, <3>1, <3>2 DEF CycleDone, Working
  <2> QED
    BY <1>1, <1>3, <2>1, <2>2, <2>3, <2>4, JobKeeps
<1> QED
  BY <1>4, <1>5

(* Each row after the upsert of version w. *)
LEMMA UpsertedIs ==
  ASSUME KnowTypeOK, NEW p \in Pages, NEW w \in Versions, NEW k \in Kinds, NEW v \in Versions
  PROVE  LET r == Upserted(p, w, k)[v]  c == chunks[p][v]
         IN  /\ r \in ChunkRow /\ r.deleted = c.deleted /\ (c.there => r.there)
             /\ v = w => r.there /\ r.kind = k
             /\ v # w => r.there = c.there /\ r.kind = c.kind
             /\ r.superseded => c.superseded \/ v < w
             /\ v < w /\ r.there /\ ~ r.deleted => r.superseded
<1> DEFINE c == chunks[p][v]
           b == IF v = w THEN [c EXCEPT !.there = TRUE, !.kind = k, !.vec = TRUE] ELSE c
           r == Upserted(p, w, k)[v]
<1>1. c \in ChunkRow /\ v \in Nat /\ w \in Nat
  BY KnowledgeAssumption DEF KnowTypeOK, Versions
<1>2. r = IF v < w /\ b.there /\ ~ b.superseded THEN [b EXCEPT !.vec = FALSE, !.superseded = ~ b.deleted] ELSE b
  BY DEF Upserted, Older
<1> HIDE DEF c, r
<1>3. /\ b \in ChunkRow /\ b.deleted = c.deleted /\ b.superseded = c.superseded
      /\ (c.there => b.there) /\ (v = w => b.there /\ b.kind = k) /\ (v # w => b = c)
  <2>1. CASE v = w
    <3>1. b = [c EXCEPT !.there = TRUE, !.kind = k, !.vec = TRUE]
      BY <2>1
    <3> HIDE DEF b
    <3> QED
      BY <1>1, <2>1, <3>1 DEF ChunkRow
  <2>2. CASE v # w
    BY <1>1, <2>2
  <2> QED
    BY <2>1, <2>2
<1> HIDE DEF b
<1>4. CASE v < w /\ b.there /\ ~ b.superseded
  <2> DEFINE d == ~ b.deleted
  <2>1. r = [b EXCEPT !.vec = FALSE, !.superseded = d] /\ d \in BOOLEAN
    BY <1>2, <1>4
  <2>2. d <=> ~ b.deleted
    OBVIOUS
  <2> HIDE DEF d
  <2>3. r \in ChunkRow /\ r.there = b.there /\ r.kind = b.kind /\ r.deleted = b.deleted /\ r.superseded = d
    BY <1>3, <2>1 DEF ChunkRow
  <2> QED
    BY <1>1, <1>3, <1>4, <2>2, <2>3 DEF r, c
<1>5. CASE ~ (v < w /\ b.there /\ ~ b.superseded)
  <2>1. r = b
    BY <1>2, <1>5
  <2> QED
    BY <1>1, <1>3, <1>5, <2>1 DEF r, c
<1> QED
  BY <1>4, <1>5

LEMMA WriteChunksKeeps == ASSUME KnInv, NEW j \in Jobs, WriteChunks(j) PROVE KnInv'
<1>1. PICK p \in Pages : p = job[j].page
  BY DEF WriteChunks, KnInv, JobsSound, Fetched
<1>2. PICK w \in Versions : w = job[j].version
  BY DEF WriteChunks, KnInv, JobsSound, Fetched
<1>3. PICK k \in Kinds : k = job[j].kind
  BY DEF KnInv, KnowTypeOK, JobRow
<1>4. /\ job[j].at = "write" /\ chunks' = [chunks EXCEPT ![p] = Upserted(p, w, k)]
      /\ late' = (IF \E v \in Versions : v > w /\ chunks[p][v].there THEN late \cup {p} ELSE late \ {p})
      /\ job' = [job EXCEPT ![j] = NextPage(j)] /\ UNCHANGED <<wiki, gone, calm>>
  BY <1>1, <1>2, <1>3 DEF WriteChunks
<1>5. w <= wiki[p].version /\ (w = wiki[p].version => k = wiki[p].kind) /\ wiki[p].version \in Nat /\ w \in Nat
  BY <1>1, <1>2, <1>3, <1>4, WikiIs, KnowledgeAssumption DEF KnInv, JobsSound, Fetched, Versions
<1>6. \A v \in Versions :
         /\ chunks'[p][v] \in ChunkRow /\ chunks'[p][v].deleted = chunks[p][v].deleted
         /\ chunks[p][v].there => chunks'[p][v].there
         /\ v = w => chunks'[p][v].there /\ chunks'[p][v].kind = k
         /\ v # w => chunks'[p][v].there = chunks[p][v].there /\ chunks'[p][v].kind = chunks[p][v].kind
         /\ chunks'[p][v].superseded => chunks[p][v].superseded \/ v < w
         /\ v < w /\ chunks'[p][v].there /\ ~ chunks'[p][v].deleted => chunks'[p][v].superseded
  BY <1>4, UpsertedIs DEF KnInv, KnowTypeOK
<1>7. \A q \in Pages : q # p => chunks'[q] = chunks[q] /\ (q \in late' <=> q \in late)
  BY <1>4 DEF KnInv, KnowTypeOK
<1>8. job[j] \in JobRow /\ NextPage(j) \in JobRow /\ NextPage(j).at \in {"next", "idle"}
  BY NextPageIs DEF KnInv, KnowTypeOK
<1>9. job' \in [Jobs -> JobRow] /\ job'[j] = NextPage(j) /\ \A i \in Jobs : i # j => job'[i] = job[i]
  BY <1>4, <1>8, JobMoves DEF KnInv
<1>10. KnowTypeOK'
  <2>1. Upserted(p, w, k) \in [Versions -> ChunkRow]
    <3>1. \A v \in Versions : Upserted(p, w, k)[v] \in ChunkRow
      BY UpsertedIs DEF KnInv
    <3> QED
      BY <3>1 DEF Upserted
  <2> QED
    BY <1>4, <1>9, <2>1 DEF KnInv, KnowTypeOK
<1>11. RowsFetched'
  <2> SUFFICES ASSUME NEW q \in Pages, NEW v \in Versions
               PROVE  /\ chunks'[q][v].there => v <= wiki[q].version
                      /\ chunks'[q][v].there /\ v = wiki[q].version => chunks'[q][v].kind = wiki[q].kind
                      /\ chunks'[q][v].superseded => v < wiki[q].version
                      /\ chunks'[q][v].deleted => q \in gone
    BY <1>4 DEF RowsFetched
  <2>1. /\ chunks[q][v].there => v <= wiki[q].version
        /\ chunks[q][v].there /\ v = wiki[q].version => chunks[q][v].kind = wiki[q].kind
        /\ chunks[q][v].superseded => v < wiki[q].version
        /\ chunks[q][v].deleted => q \in gone
    BY DEF KnInv, RowsFetched
  <2>2. CASE q # p
    BY <1>7, <2>1, <2>2
  <2>3. CASE q = p
    <3>1. v \in Nat
      BY KnowledgeAssumption DEF Versions
    <3>2. CASE v = w
      BY <1>5, <1>6, <2>1, <2>3, <3>1, <3>2
    <3>3. CASE v # w
      BY <1>5, <1>6, <2>1, <2>3, <3>1, <3>3
    <3> QED
      BY <3>2, <3>3
  <2> QED
    BY <2>2, <2>3
<1>12. OneLive'
  <2> SUFFICES ASSUME NEW q \in Pages, q \notin late', NEW v \in Versions, NEW u \in Versions, Live(q, v)', Live(q, u)'
               PROVE  v = u
    BY DEF OneLive
  <2>1. CASE q # p
    BY <1>7, <2>1 DEF Live, KnInv, OneLive
  <2>2. CASE q = p
    <3>1. \A t \in Versions : t > w => ~ chunks[p][t].there
      BY <1>4, <2>2
    <3>2. \A t \in Versions : Live(p, t)' => t = w
      <4> SUFFICES ASSUME NEW t \in Versions, Live(p, t)', t # w PROVE FALSE
        OBVIOUS
      <4>1. chunks'[p][t].there /\ ~ chunks'[p][t].deleted /\ ~ chunks'[p][t].superseded
        BY DEF Live
      <4>2. t \in Nat
        BY KnowledgeAssumption DEF Versions
      <4>3. chunks[p][t].there /\ ~ (t < w)
        BY <1>6, <4>1
      <4> QED
        BY <1>5, <3>1, <4>2, <4>3
    <3> QED
      BY <2>2, <3>2
  <2> QED
    BY <2>1, <2>2
<1>13. JobsSound'
  <2>1. \A i \in Jobs : Fetched(job[i])'
    BY <1>4, <1>8, <1>9 DEF KnInv, JobsSound, Fetched
  <2>2. \A q \in Pages, v \in Versions : chunks[q][v].there => chunks'[q][v].there
    BY <1>6, <1>7
  <2>3. CASE j = "cycle"
    <3>1. /\ job'["cycle"].at \in {"next", "idle"} /\ job'["cycle"].listing = job["cycle"].listing
          /\ job'["cycle"].todo = job["cycle"].todo /\ job'["cycle"].live = job["cycle"].live
      BY <1>9, <2>3, NextPageIs DEF KnInv
    <3>2. Account(job["cycle"])'
      BY <3>1 DEF KnInv, JobsSound, Account
    <3>3. ASSUME calm PROVE CycleDone(job["cycle"])'
      <4>1. CycleDone(job["cycle"]) /\ w = wiki[p].version
        BY <1>1, <1>2, <1>4, <2>3, <3>3 DEF KnInv, JobsSound, CycleDone
      <4>2. \A q \in job["cycle"].live : q \in Pages /\ (wiki[q].kind = "plain" => chunks'[q][wiki[q].version].there)
        <5> SUFFICES ASSUME NEW q \in job["cycle"].live
                     PROVE  q \in Pages /\ (wiki[q].kind = "plain" => chunks'[q][wiki[q].version].there)
          OBVIOUS
        <5>1. q \in Pages
          BY <1>8, <2>3 DEF JobRow
        <5>2. CASE q = p
          BY <1>6, <4>1, <5>1, <5>2
        <5>3. CASE q # p
          BY <1>1, <2>2, <2>3, <4>1, <5>1, <5>3, WikiIs DEF CycleDone, KnInv
        <5> QED
          BY <5>1, <5>2, <5>3
      <4> QED
        BY <1>4, <3>1, <4>1, <4>2 DEF CycleDone, Working
    <3> QED
      BY <1>4, <2>1, <3>2, <3>3 DEF JobsSound
  <2>4. CASE j # "cycle"
    <3>1. job'["cycle"] = job["cycle"]
      BY <1>9, <2>4, IdleJobIs
    <3>2. Account(job["cycle"])'
      BY <3>1 DEF KnInv, JobsSound, Account
    <3>3. ASSUME calm PROVE CycleDone(job["cycle"])'
      <4>1. CycleDone(job["cycle"]) /\ job["cycle"].live \subseteq Pages
        BY <3>3, IdleJobIs DEF KnInv, JobsSound, KnowTypeOK, JobRow
      <4>2. \A q \in job["cycle"].live : wiki[q].version \in Versions
        BY <4>1, WikiIs DEF KnInv
      <4> QED
        BY <1>4, <2>2, <3>1, <4>1, <4>2 DEF CycleDone, Working
    <3> QED
      BY <1>4, <2>1, <3>2, <3>3 DEF JobsSound
  <2> QED
    BY <2>3, <2>4
<1> QED
  BY <1>10, <1>11, <1>12, <1>13 DEF KnInv

(* A change outside disturbs the cycle. *)
LEMMA OutsideKeeps ==
  ASSUME KnInv, UNCHANGED <<chunks, job, gone, late>>, calm' = FALSE, wiki' \in [Pages -> WikiRow],
         \A p \in Pages : \/ wiki'[p].version = wiki[p].version /\ wiki'[p].kind = wiki[p].kind
                          \/ wiki'[p].version = wiki[p].version + 1
  PROVE  KnInv'
<1>1. KnowTypeOK'
  BY DEF KnInv, KnowTypeOK
<1>2. RowsFetched'
  <2> SUFFICES ASSUME NEW q \in Pages, NEW v \in Versions
               PROVE  /\ chunks[q][v].there => v <= wiki'[q].version
                      /\ chunks[q][v].there /\ v = wiki'[q].version => chunks[q][v].kind = wiki'[q].kind
                      /\ chunks[q][v].superseded => v < wiki'[q].version
                      /\ chunks[q][v].deleted => q \in gone
    BY DEF RowsFetched
  <2>1. v \in Nat /\ wiki[q].version \in Nat
    BY KnowledgeAssumption, WikiIs DEF Versions, KnInv
  <2>2. /\ chunks[q][v].there => v <= wiki[q].version
        /\ chunks[q][v].there /\ v = wiki[q].version => chunks[q][v].kind = wiki[q].kind
        /\ chunks[q][v].superseded => v < wiki[q].version
        /\ chunks[q][v].deleted => q \in gone
    BY DEF KnInv, RowsFetched
  <2> QED
    BY <2>1, <2>2
<1>3. OneLive'
  BY DEF KnInv, OneLive, Live
<1>4. \A j \in Jobs : Fetched(job[j])'
  <2> SUFFICES ASSUME NEW j \in Jobs PROVE Fetched(job[j])'
    OBVIOUS
  <2>1. Fetched(job[j])
    BY DEF KnInv, JobsSound
  <2>2. CASE job[j].at \in {"embed", "write"}
    <3>1. job[j].page \in Pages /\ job[j].version \in Versions /\ job[j].version <= wiki[job[j].page].version
      BY <2>1, <2>2 DEF Fetched
    <3>2. job[j].version \in Nat /\ wiki[job[j].page].version \in Nat
      BY <3>1, WikiIs, KnowledgeAssumption DEF Versions, KnInv
    <3> QED
      BY <2>1, <2>2, <3>1, <3>2 DEF Fetched
  <2>3. CASE job[j].at \notin {"embed", "write"}
    BY <2>1, <2>3 DEF Fetched
  <2> QED
    BY <2>2, <2>3
<1>5. Account(job["cycle"])'
  BY DEF KnInv, JobsSound, Account
<1> QED
  BY <1>1, <1>2, <1>3, <1>4, <1>5 DEF KnInv, JobsSound

LEMMA EditKeeps == ASSUME KnInv, NEW p \in Pages, Edit(p) PROVE KnInv'
<1>1. PICK k \in Kinds : wiki' = [wiki EXCEPT ![p].version = @ + 1, ![p].kind = k]
  BY DEF Edit
<1>2. UNCHANGED <<chunks, job, gone, late>> /\ calm' = FALSE /\ wiki[p].version < MaxVersion
  BY DEF Edit, Outside
<1> DEFINE n == wiki[p].version + 1
           x == [wiki[p] EXCEPT !.version = n, !.kind = k]
<1>3. n \in Versions
  BY <1>2, WikiIs, KnowledgeAssumption DEF Versions, KnInv
<1>4. wiki' = [wiki EXCEPT ![p] = x]
  BY <1>1 DEF KnInv, KnowTypeOK, WikiRow
<1>5. n = wiki[p].version + 1
  OBVIOUS
<1> HIDE DEF n
<1>6. x \in WikiRow /\ x.version = n
  BY <1>1, <1>3 DEF KnInv, KnowTypeOK, WikiRow
<1> HIDE DEF x
<1>7. /\ wiki' \in [Pages -> WikiRow] /\ wiki'[p].version = wiki[p].version + 1
      /\ \A q \in Pages : q # p => wiki'[q] = wiki[q]
  BY <1>4, <1>5, <1>6 DEF KnInv, KnowTypeOK
<1> QED
  BY <1>2, <1>7, OutsideKeeps

LEMMA UnlistKeeps == ASSUME KnInv, NEW p \in Pages, Unlist(p) PROVE KnInv'
<1> DEFINE b == ~ wiki[p].listed
           x == [wiki[p] EXCEPT !.listed = b]
<1>1. wiki' = [wiki EXCEPT ![p] = x] /\ UNCHANGED <<chunks, job, gone, late>> /\ calm' = FALSE
  BY DEF Unlist, Outside, KnInv, KnowTypeOK, WikiRow
<1>2. b \in BOOLEAN /\ wiki[p] \in WikiRow
  BY DEF KnInv, KnowTypeOK
<1> HIDE DEF b
<1>3. x \in WikiRow /\ x.version = wiki[p].version /\ x.kind = wiki[p].kind
  BY <1>2 DEF WikiRow
<1> HIDE DEF x
<1>4. /\ wiki' \in [Pages -> WikiRow] /\ wiki'[p] = x /\ \A q \in Pages : q # p => wiki'[q] = wiki[q]
  BY <1>1, <1>3 DEF KnInv, KnowTypeOK
<1> QED
  BY <1>1, <1>3, <1>4, OutsideKeeps

LEMMA ApprovalKeeps == ASSUME KnInv, NEW p \in Pages, Approve(p) \/ Revoke(p) PROVE KnInv'
<1>1. UNCHANGED <<wiki, chunks, job, gone, late>> /\ calm' = FALSE
  BY DEF Approve, Revoke, Outside
<1>2. wiki' \in [Pages -> WikiRow]
  BY <1>1 DEF KnInv, KnowTypeOK
<1> QED
  BY <1>1, <1>2, OutsideKeeps

(* Only pages that are not live lose rows, and rows only become deleted.     *)
LEMMA ReconcileIs ==
  ASSUME KnInv, Reconcile
  PROVE  \A p \in Pages, v \in Versions :
           LET r == chunks'[p][v]  c == chunks[p][v]
           IN  /\ r \in ChunkRow /\ r.there = c.there /\ r.kind = c.kind /\ r.superseded = c.superseded
               /\ c.deleted => r.deleted
               /\ r.deleted => c.deleted \/ (p \in gone' /\ p \notin job["cycle"].live)
<1> DEFINE dead == IF job["cycle"].live = {} THEN {} ELSE {p \in Pages \ job["cycle"].live : Dropped(p) # {}}
<1>1. /\ chunks' = [p \in Pages |-> [v \in Versions |->
                      IF p \in dead /\ v \in Dropped(p) THEN [chunks[p][v] EXCEPT !.deleted = TRUE, !.vec = FALSE] ELSE chunks[p][v]]]
      /\ gone' = gone \cup dead
  BY DEF Reconcile
<1>2. \A p \in dead : p \notin job["cycle"].live
  OBVIOUS
<1> HIDE DEF dead
<1> SUFFICES ASSUME NEW p \in Pages, NEW v \in Versions
             PROVE  /\ chunks'[p][v] \in ChunkRow /\ chunks'[p][v].there = chunks[p][v].there
                    /\ chunks'[p][v].kind = chunks[p][v].kind /\ chunks'[p][v].superseded = chunks[p][v].superseded
                    /\ chunks[p][v].deleted => chunks'[p][v].deleted
                    /\ chunks'[p][v].deleted => chunks[p][v].deleted \/ (p \in gone' /\ p \notin job["cycle"].live)
  OBVIOUS
<1>3. chunks[p][v] \in ChunkRow
  BY DEF KnInv, KnowTypeOK
<1>4. CASE p \in dead /\ v \in Dropped(p)
  <2>1. chunks'[p][v] = [chunks[p][v] EXCEPT !.deleted = TRUE, !.vec = FALSE]
    BY <1>1, <1>4
  <2>2. /\ chunks'[p][v] \in ChunkRow /\ chunks'[p][v].there = chunks[p][v].there
        /\ chunks'[p][v].kind = chunks[p][v].kind /\ chunks'[p][v].superseded = chunks[p][v].superseded
        /\ chunks'[p][v].deleted = TRUE
    BY <1>3, <2>1 DEF ChunkRow
  <2>3. p \in gone' /\ p \notin job["cycle"].live
    BY <1>1, <1>2, <1>4
  <2> QED
    BY <2>2, <2>3
<1>5. CASE ~ (p \in dead /\ v \in Dropped(p))
  <2>1. chunks'[p][v] = chunks[p][v]
    BY <1>1, <1>5
  <2> QED
    BY <1>3, <2>1
<1> QED
  BY <1>4, <1>5

LEMMA ReconcileKeeps == ASSUME KnInv, Reconcile PROVE KnInv'
<1>1. job' = [job EXCEPT !["cycle"] = IdleJob] /\ calm' = FALSE /\ UNCHANGED <<wiki, late>> /\ gone \subseteq gone'
  BY DEF Reconcile
<1>2. \A p \in Pages, v \in Versions :
        /\ chunks'[p][v] \in ChunkRow /\ chunks'[p][v].there = chunks[p][v].there
        /\ chunks'[p][v].kind = chunks[p][v].kind /\ chunks'[p][v].superseded = chunks[p][v].superseded
        /\ chunks[p][v].deleted => chunks'[p][v].deleted
        /\ chunks'[p][v].deleted => chunks[p][v].deleted \/ p \in gone'
  BY ReconcileIs
<1>3. /\ job' \in [Jobs -> JobRow] /\ job'["cycle"] = IdleJob /\ \A i \in Jobs : i # "cycle" => job'[i] = job[i]
  BY <1>1, IdleJobIs, JobMoves DEF KnInv
<1>4. chunks' \in [Pages -> [Versions -> ChunkRow]]
  <2>1. \A p \in Pages : chunks'[p] = [v \in Versions |-> chunks'[p][v]]
    BY DEF Reconcile
  <2>2. chunks' = [p \in Pages |-> chunks'[p]]
    BY DEF Reconcile
  <2> QED
    BY <1>2, <2>1, <2>2
<1>5. KnowTypeOK'
  BY <1>1, <1>3, <1>4 DEF KnInv, KnowTypeOK
<1>6. RowsFetched'
  BY <1>1, <1>2 DEF KnInv, RowsFetched
<1>7. OneLive'
  BY <1>1, <1>2 DEF KnInv, OneLive, Live
<1>8. JobsSound'
  BY <1>1, <1>3, IdleJobIs DEF KnInv, JobsSound, Fetched, Account
<1> QED
  BY <1>5, <1>6, <1>7, <1>8 DEF KnInv

LEMMA KnowledgeStarts == ASSUME KnowledgeInit PROVE KnInv
<1>1. /\ wiki = [p \in Pages |-> NewPage] /\ chunks = [p \in Pages |-> [v \in Versions |-> NoChunk]]
      /\ job = [j \in Jobs |-> IdleJob] /\ calm = FALSE
  BY DEF KnowledgeInit
<1>2. NewPage \in WikiRow /\ NewPage.version = 1
  BY KnowledgeAssumption DEF NewPage, WikiRow, Kinds, Versions
<1>3. NoChunk \in ChunkRow /\ NoChunk.there = FALSE /\ NoChunk.superseded = FALSE /\ NoChunk.deleted = FALSE
  BY DEF NoChunk, ChunkRow, Kinds
<1>4. KnowTypeOK
  BY <1>1, <1>2, <1>3, IdleJobIs DEF KnowTypeOK
<1>5. RowsFetched /\ OneLive
  BY <1>1, <1>3 DEF RowsFetched, OneLive, Live
<1>6. JobsSound
  BY <1>1, IdleJobIs DEF JobsSound, Fetched, Account
<1> QED
  BY <1>4, <1>5, <1>6 DEF KnInv

LEMMA KnowledgeStep == KnInv /\ [KnowledgeNext]_corpusVars => KnInv'
<1> SUFFICES ASSUME KnInv, [KnowledgeNext]_corpusVars PROVE KnInv'
  OBVIOUS
<1>1. CASE UNCHANGED corpusVars
  <2>1. UNCHANGED <<wiki, chunks, job, gone, late, calm>>
    BY <1>1 DEF corpusVars
  <2>2. KnowTypeOK' /\ RowsFetched' /\ OneLive'
    BY <2>1 DEF KnInv, KnowTypeOK, RowsFetched, OneLive, Live
  <2>3. JobsSound'
    BY <2>1 DEF KnInv, JobsSound, Fetched, Account, CycleDone, Working
  <2> QED
    BY <2>2, <2>3 DEF KnInv
<1> QED
  BY <1>1, ListPagesKeeps, ReconcileKeeps, EditKeeps, UnlistKeeps, ApprovalKeeps, PickPageKeeps, StartResyncKeeps,
     FetchBodyKeeps, PageFailsKeeps, DecideKeeps, WriteChunksKeeps, JobDiesKeeps DEF KnowledgeNext

(* A search never returns two versions of a page, unless the page's last     *)
(* write was of an older version than the corpus holds, for any number of    *)
(* pages and versions (upsertChunks).                                        *)
THEOREM OneVersionStaysServed == KnowledgeSpec => []OneVersionServed
<1>1. KnowledgeInit => KnInv
  BY KnowledgeStarts
<1>2. KnInv /\ [KnowledgeNext]_corpusVars => KnInv'
  BY KnowledgeStep
<1>3. KnInv => OneVersionServed
  <2> SUFFICES ASSUME KnInv, NEW p \in Pages \ late PROVE Cardinality(Served(p)) <= 1
    BY DEF OneVersionServed
  <2>1. \A v, w \in Served(p) : v = w
    BY DEF Served, KnInv, OneLive, Live
  <2>2. CASE Served(p) = {}
    BY <2>2, FS_EmptySet
  <2>3. CASE Served(p) # {}
    <3>1. PICK v : v \in Served(p)
      BY <2>3
    <3>2. Served(p) = {v}
      BY <2>1, <3>1
    <3>3. Cardinality({v}) = 1
      BY FS_Singleton
    <3> QED
      BY <3>2, <3>3
  <2> QED
    BY <2>2, <2>3
<1> QED
  BY <1>1, <1>2, <1>3, PTL DEF KnowledgeSpec

(* A cycle soft-deletes only pages its listing did not have, and one that    *)
(* nothing disturbed leaves every listed page that is not refused served at  *)
(* the wiki's version (runConfluenceIngest, reconcileDeletions).             *)
THEOREM CyclesKeepTheirPages == KnowledgeSpec => CyclesKeepPages
<1> DEFINE Survive == \A p \in Pages : (\E v \in Versions : chunks'[p][v].deleted /\ ~ chunks[p][v].deleted)
                                          => p \notin job["cycle"].listing
           CatchUp == Reconcile /\ calm =>
             \A p \in Pages \ (gone \cup late) :
               wiki[p].listed /\ (wiki[p].kind = "plain" \/ (wiki[p].kind = "default" /\ p \in approved /\ chunks[p][wiki[p].version].there))
                 => wiki[p].version \in Served(p)'
<1>1. KnowledgeInit => KnInv
  BY KnowledgeStarts
<1>2. KnInv /\ [KnowledgeNext]_corpusVars => KnInv'
  BY KnowledgeStep
<1>3. KnInv /\ [KnowledgeNext]_corpusVars => [Survive]_corpusVars
  <2> SUFFICES ASSUME KnInv, KnowledgeNext, NEW p \in Pages, NEW v \in Versions,
                      chunks'[p][v].deleted, ~ chunks[p][v].deleted
               PROVE  p \notin job["cycle"].listing
    OBVIOUS
  <2>1. CASE Reconcile
    <3>1. p \notin job["cycle"].live /\ job["cycle"].todo = {}
      BY <2>1, ReconcileIs DEF Reconcile
    <3> QED
      BY <3>1 DEF KnInv, JobsSound, Account
  <2>2. ASSUME NEW j \in Jobs, WriteChunks(j) PROVE FALSE
    <3>1. PICK q \in Pages : q = job[j].page
      BY <2>2 DEF WriteChunks, KnInv, JobsSound, Fetched
    <3>2. PICK w \in Versions : w = job[j].version
      BY <2>2 DEF WriteChunks, KnInv, JobsSound, Fetched
    <3>3. PICK k \in Kinds : k = job[j].kind
      BY DEF KnInv, KnowTypeOK, JobRow
    <3>4. chunks' = [chunks EXCEPT ![q] = Upserted(q, w, k)]
      BY <2>2, <3>1, <3>2, <3>3 DEF WriteChunks
    <3>5. Upserted(q, w, k)[v].deleted = chunks[q][v].deleted
      BY UpsertedIs DEF KnInv
    <3>6. chunks'[p][v].deleted = chunks[p][v].deleted
      BY <3>4, <3>5 DEF KnInv, KnowTypeOK
    <3> QED
      BY <3>6
  <2>3. CASE UNCHANGED chunks
    BY <2>3
  <2> QED
    BY <2>1, <2>2, <2>3 DEF KnowledgeNext, ListPages, Edit, Unlist, Approve, Revoke, PickPage, StartResync, FetchBody,
       PageFails, DecideUpsert, JobDies
<1>4. KnInv /\ [KnowledgeNext]_corpusVars => [CatchUp]_corpusVars
  <2> SUFFICES ASSUME KnInv, Reconcile, calm, NEW p \in Pages, p \notin gone, p \notin late, wiki[p].listed,
                      wiki[p].kind = "plain" \/ (wiki[p].kind = "default" /\ p \in approved /\ chunks[p][wiki[p].version].there)
               PROVE  wiki[p].version \in Served(p)'
    OBVIOUS
  <2>1. PICK w \in Versions : w = wiki[p].version
    BY WikiIs DEF KnInv
  <2>2. CycleDone(job["cycle"]) /\ Account(job["cycle"]) /\ job["cycle"].todo = {} /\ job["cycle"].at = "next"
    BY DEF KnInv, JobsSound, Reconcile
  <2>3. p \in job["cycle"].live
    BY <2>2 DEF CycleDone, Account
  <2>4. chunks[p][w].there
    BY <2>1, <2>2, <2>3 DEF CycleDone, Working
  <2>5. chunks[p][w].kind = wiki[p].kind /\ ~ chunks[p][w].deleted
    BY <2>1, <2>4 DEF KnInv, RowsFetched
  <2>6. ~ chunks[p][w].superseded
    <3>1. w \in Nat
      BY KnowledgeAssumption DEF Versions
    <3> QED
      BY <2>1, <3>1 DEF KnInv, RowsFetched
  <2>7. /\ chunks'[p][w].there /\ chunks'[p][w].kind = wiki[p].kind /\ ~ chunks'[p][w].superseded
        /\ ~ chunks'[p][w].deleted
    BY <2>3, <2>4, <2>5, <2>6, ReconcileIs
  <2>8. approved' = approved
    BY DEF Reconcile
  <2>9. w \in Served(p)'
    BY <2>7, <2>8 DEF Served
  <2> QED
    BY <2>1, <2>9
<1>5. KnowledgeSpec => [][Survive]_corpusVars
  BY <1>1, <1>2, <1>3, PTL DEF KnowledgeSpec
<1>6. KnowledgeSpec => [][CatchUp]_corpusVars
  BY <1>1, <1>2, <1>4, PTL DEF KnowledgeSpec
<1> QED
  BY <1>5, <1>6 DEF CyclesKeepPages, ListedSurvive, CycleCatchesUp

-----------------------------------------------------------------------------
(* Lists. Induction in set form, sorting by a relation, and folds: a fold    *)
(* over a list goes through its prefixes, one entry at a time, as long as    *)
(* each step stays within a set.                                             *)

Below == {ss \in Nat \X Nat : ss[1] < ss[2]}

LEMMA LeastOf ==
  ASSUME NEW T, T \subseteq Nat, T # {}
  PROVE  \E n \in T : \A m \in T : n <= m
<1>1. IsWellFoundedOn(Below, Nat)
  BY NatLessThanWellFounded DEF OpToRel, Below
<1>2. PICK n \in T : \A m \in T : ~(<<m, n>> \in Below)
  BY <1>1, WFMin
<1>3. \A m \in T : <<m, n>> \in Below <=> m < n
  BY DEF Below
<1>4. \A m \in T : n \in Nat /\ m \in Nat /\ ~(m < n)
  BY <1>2, <1>3
<1>5. \A m \in T : n <= m
  BY <1>4
<1> QED
  BY <1>5

LEMMA CountingUp ==
  ASSUME NEW P, 0 \in P, \A n \in Nat : n \in P => n + 1 \in P
  PROVE  Nat \subseteq P
<1> SUFFICES ASSUME Nat \ P # {} PROVE FALSE
  OBVIOUS
<1>1. PICK n \in Nat \ P : \A m \in Nat \ P : n <= m
  BY LeastOf
<1>2. n # 0 /\ n - 1 \in Nat /\ n - 1 \notin P
  BY <1>1
<1> QED
  BY <1>1, <1>2

StrictOrder(R, S) ==
  /\ \A x, y \in S : x = y \/ <<x, y>> \in R \/ <<y, x>> \in R
  /\ \A x, y, z \in S : <<x, y>> \in R /\ <<y, z>> \in R => <<x, z>> \in R
  /\ \A x \in S : <<x, x>> \notin R

LEMMA FirstBy ==
  ASSUME NEW S, IsFiniteSet(S), NEW R, StrictOrder(R, S), S # {}
  PROVE  \E x \in S : \A y \in S \ {x} : <<x, y>> \in R
<1> DEFINE P == {n \in Nat : \A T \in SUBSET S : Cardinality(T) = n /\ T # {} =>
                    \E x \in T : \A y \in T \ {x} : <<x, y>> \in R}
<1>0. \A T \in SUBSET S : IsFiniteSet(T) /\ Cardinality(T) \in Nat
  BY FS_Subset, FS_CardinalityType
<1>1. 0 \in P
  BY <1>0, FS_EmptySet
<1>2. ASSUME NEW n \in Nat, n \in P PROVE n + 1 \in P
  <2>1. ASSUME NEW T \in SUBSET S, Cardinality(T) = n + 1, T # {}
        PROVE  \E x \in T : \A y \in T \ {x} : <<x, y>> \in R
    <3>1. PICK z \in T : TRUE
      BY <2>1
    <3>2. Cardinality(T \ {z}) = n /\ T \ {z} \in SUBSET S
      BY <1>0, <2>1, FS_RemoveElement
    <3>3. CASE T \ {z} = {}
      BY <3>3
    <3>4. CASE T \ {z} # {}
      <4>1. PICK x \in T \ {z} : \A y \in (T \ {z}) \ {x} : <<x, y>> \in R
        BY <1>2, <3>2, <3>4
      <4>2. CASE <<x, z>> \in R
        BY <4>1, <4>2
      <4>3. CASE <<z, x>> \in R
        <5>1. ASSUME NEW y \in T \ {z} PROVE <<z, y>> \in R
          BY <4>1, <4>3 DEF StrictOrder
        <5> QED
          BY <5>1
      <4> QED
        BY <4>1, <4>2, <4>3 DEF StrictOrder
    <3> QED
      BY <3>3, <3>4
  <2> QED
    BY <2>1
<1>3. Nat \subseteq P
  <2> HIDE DEF P
  <2> QED
    BY <1>1, <1>2, CountingUp
<1>4. Cardinality(S) \in P
  <2> HIDE DEF P
  <2> QED
    BY <1>0, <1>3
<1> QED
  BY <1>4

InTurn(f, n, S, R) == f \in [1..n -> S] /\ \A i, j \in 1..n : i < j => <<f[i], f[j]>> \in R

LEMMA SubsetOrdered ==
  ASSUME NEW S, NEW R, StrictOrder(R, S), NEW T \in SUBSET S
  PROVE  StrictOrder(R, T)
  BY DEF StrictOrder

LEMMA InTurnExists ==
  ASSUME NEW S, IsFiniteSet(S), NEW R, StrictOrder(R, S)
  PROVE  \E f : InTurn(f, Cardinality(S), S, R)
<1> DEFINE P == {n \in Nat : \A T \in SUBSET S : Cardinality(T) = n => \E f : InTurn(f, n, T, R)}
<1>0. \A T \in SUBSET S : IsFiniteSet(T) /\ Cardinality(T) \in Nat
  BY FS_Subset, FS_CardinalityType
<1>1. 0 \in P
  <2>1. ASSUME NEW T \in SUBSET S PROVE InTurn([i \in 1..0 |-> 0], 0, T, R)
    BY DEF InTurn
  <2> QED
    BY <2>1
<1>2. ASSUME NEW n \in Nat, n \in P PROVE n + 1 \in P
  <2>1. ASSUME NEW T \in SUBSET S, Cardinality(T) = n + 1 PROVE \E f : InTurn(f, n + 1, T, R)
    <3>1. T # {}
      BY <2>1, FS_EmptySet
    <3>2. PICK x \in T : \A y \in T \ {x} : <<x, y>> \in R
      <4>1. IsFiniteSet(T) /\ StrictOrder(R, T)
        BY <1>0, SubsetOrdered
      <4> QED
        BY ONLY <3>1, <4>1, FirstBy
    <3>3. Cardinality(T \ {x}) = n /\ T \ {x} \in SUBSET S
      <4>1. IsFiniteSet(T) /\ Cardinality(T \ {x}) = Cardinality(T) - 1
        BY <1>0, FS_RemoveElement
      <4> QED
        BY <2>1, <4>1
    <3>4. PICK f : InTurn(f, n, T \ {x}, R)
      BY <1>2, <3>3
    <3>5. PICK g : g = [i \in 1..(n + 1) |-> IF i = 1 THEN x ELSE f[i - 1]]
      OBVIOUS
    <3>6. \A i \in 1..n : f[i] \in T /\ <<x, f[i]>> \in R
      <4>1. ASSUME NEW i \in 1..n PROVE f[i] \in T \ {x}
        BY <3>4 DEF InTurn
      <4> QED
        BY ONLY <3>2, <4>1
    <3>7. \A i \in 1..(n + 1) : i = 1 \/ i - 1 \in 1..n
      OBVIOUS
    <3>8. g \in [1..(n + 1) -> T]
      BY <3>5, <3>6, <3>7
    <3>9. ASSUME NEW i \in 1..(n + 1), NEW j \in 1..(n + 1), i < j PROVE <<g[i], g[j]>> \in R
      <4>1. j # 1 /\ j - 1 \in 1..n /\ g[j] = f[j - 1]
        BY <3>5, <3>9
      <4>2. CASE i = 1
        BY <3>5, <3>6, <4>1, <4>2
      <4>3. CASE i # 1
        <5>1. i - 1 \in 1..n /\ g[i] = f[i - 1] /\ i - 1 < j - 1
          BY <3>5, <3>9, <4>3
        <5> QED
          BY <3>4, <4>1, <5>1 DEF InTurn
      <4> QED
        BY <4>2, <4>3
    <3> QED
      BY <3>8, <3>9 DEF InTurn
  <2> QED
    BY <2>1
<1>3. Nat \subseteq P
  <2> HIDE DEF P
  <2> QED
    BY <1>1, <1>2, CountingUp
<1> QED
  BY <1>0, <1>3

LEMMA SortedIs ==
  ASSUME NEW S, IsFiniteSet(S), NEW R, StrictOrder(R, S)
  PROVE  /\ Cardinality(S) \in Nat
         /\ Sorted(S, R) \in [1..Cardinality(S) -> S]
         /\ \A i, j \in 1..Cardinality(S) : i < j => <<Sorted(S, R)[i], Sorted(S, R)[j]>> \in R
         /\ \A i, j \in 1..Cardinality(S) : Sorted(S, R)[i] = Sorted(S, R)[j] => i = j
         /\ \A x \in S : \E i \in 1..Cardinality(S) : Sorted(S, R)[i] = x
<1>1. \E f \in [1..Cardinality(S) -> S] : \A i, j \in DOMAIN f : i < j => <<f[i], f[j]>> \in R
  <2>1. PICK f : InTurn(f, Cardinality(S), S, R)
    BY InTurnExists
  <2>2. f \in [1..Cardinality(S) -> S] /\ \A i, j \in DOMAIN f : i < j => <<f[i], f[j]>> \in R
    BY ONLY <2>1 DEF InTurn
  <2> QED
    BY ONLY <2>2
<1>2. InTurn(Sorted(S, R), Cardinality(S), S, R)
  BY <1>1 DEF Sorted, InTurn
<1>3. PICK f : f = Sorted(S, R)
  OBVIOUS
<1>4. Cardinality(S) \in Nat
  BY FS_CardinalityType
<1>5. \A i, j \in 1..Cardinality(S) : f[i] = f[j] => i = j
  <2> SUFFICES ASSUME NEW i \in 1..Cardinality(S), NEW j \in 1..Cardinality(S), f[i] = f[j], i # j PROVE FALSE
    OBVIOUS
  <2>1. f[i] \in S /\ f[j] \in S
    BY <1>2, <1>3 DEF InTurn
  <2>2. (i < j => <<f[i], f[j]>> \in R) /\ (j < i => <<f[j], f[i]>> \in R)
    BY <1>2, <1>3 DEF InTurn
  <2>3. i < j \/ j < i
    BY <1>4
  <2> QED
    BY <2>1, <2>2, <2>3 DEF StrictOrder
<1>6. f \in Injection(1..Cardinality(S), S)
  BY <1>2, <1>3, <1>5 DEF Injection, IsInjective, InTurn
<1>7. Cardinality(1..Cardinality(S)) = Cardinality(S)
  BY <1>4, FS_Interval
<1>8. f \in Surjection(1..Cardinality(S), S)
  BY <1>6, <1>7, FS_Injection
<1> QED
  BY <1>2, <1>3, <1>4, <1>5, <1>8 DEF Surjection, InTurn

LEMMA ByMeasure ==
  ASSUME NEW S, S \subseteq Nat, NEW v, \A x \in S : v[x] \in Nat, NEW R, R \subseteq S \X S,
         \A x, y \in S : <<x, y>> \in R <=> v[x] > v[y] \/ (v[x] = v[y] /\ x < y)
  PROVE  StrictOrder(R, S)
<1>1. ASSUME NEW x \in S, NEW y \in S PROVE x = y \/ <<x, y>> \in R \/ <<y, x>> \in R
  <2>1. x \in Nat /\ y \in Nat /\ v[x] \in Nat /\ v[y] \in Nat
    OBVIOUS
  <2> QED
    BY <2>1
<1>2. ASSUME NEW x \in S, NEW y \in S, NEW z \in S, <<x, y>> \in R, <<y, z>> \in R PROVE <<x, z>> \in R
  <2>1. x \in Nat /\ y \in Nat /\ z \in Nat /\ v[x] \in Nat /\ v[y] \in Nat /\ v[z] \in Nat
    OBVIOUS
  <2> QED
    BY <1>2, <2>1
<1>3. ASSUME NEW x \in S PROVE <<x, x>> \notin R
  <2>1. x \in Nat /\ v[x] \in Nat
    OBVIOUS
  <2> QED
    BY <2>1
<1> QED
  BY ONLY <1>1, <1>2, <1>3 DEF StrictOrder

LEMMA MaxOf ==
  ASSUME NEW n \in Nat, NEW s, s \subseteq 1..n, s # {}
  PROVE  Max(s) \in s /\ \A y \in s : Max(s) >= y
<1>1. IsFiniteSet(s)
  <2>1. IsFiniteSet(1..n)
    BY FS_Interval
  <2> QED
    BY ONLY <2>1, s \subseteq 1..n, FS_Subset
<1>2. PICK R, v : R = {x \in s \X s : x[1] > x[2]} /\ v = [x \in s |-> x]
  OBVIOUS
<1>3. ASSUME NEW x \in s, NEW y \in s PROVE <<x, y>> \in R <=> x > y
  BY ONLY <1>2, <1>3
<1>4. s \subseteq Nat
  BY ONLY s \subseteq 1..n, n \in Nat
<1>5. StrictOrder(R, s)
  <2>1. \A x \in s : v[x] = x /\ v[x] \in Nat
    BY ONLY <1>2, <1>4
  <2>2. ASSUME NEW x \in s, NEW y \in s PROVE <<x, y>> \in R <=> v[x] > v[y] \/ (v[x] = v[y] /\ x < y)
    <3>1. x \in Nat /\ y \in Nat /\ v[x] = x /\ v[y] = y
      BY ONLY <1>4, <2>1, <2>2
    <3>2. <<x, y>> \in R <=> x > y
      BY ONLY <1>3, <2>2
    <3> QED
      BY ONLY <3>1, <3>2
  <2>3. R \subseteq s \X s
    BY ONLY <1>2
  <2> QED
    BY ONLY <1>4, <2>1, <2>2, <2>3, ByMeasure
<1>6. \E x \in s : \A y \in s \ {x} : <<x, y>> \in R
  BY ONLY <1>1, <1>5, s # {}, FirstBy
<1>7. PICK x \in s : \A y \in s \ {x} : <<x, y>> \in R
  BY ONLY <1>6
<1>8. ASSUME NEW y \in s PROVE x >= y
  <2>1. x \in Nat /\ y \in Nat
    BY ONLY <1>4, x \in s, y \in s
  <2>2. CASE y # x
    <3>1. <<x, y>> \in R
      BY ONLY <1>7, <2>2, y \in s
    <3>2. x > y
      BY ONLY <1>3, <3>1, x \in s, y \in s
    <3> QED
      BY ONLY <2>1, <3>2
  <2> QED
    BY ONLY <2>1, <2>2
<1>9. Max(s) = CHOOSE z \in s : \A y \in s : z >= y
  BY ONLY DEF Max
<1> QED
  BY ONLY <1>8, <1>9, x \in s

LEMMA MaxOfPrefix ==
  ASSUME NEW k \in Nat, k # 0
  PROVE  Max(1..k) = k /\ (1..k) \ {Max(1..k)} = 1..(k - 1) /\ 1..k # {}
<1>1. k \in 1..k /\ 1..k # {}
  OBVIOUS
<1>2. Max(1..k) \in 1..k /\ \A y \in 1..k : Max(1..k) >= y
  BY <1>1, MaxOf
<1>3. Max(1..k) = k
  BY ONLY <1>1, <1>2, k \in Nat
<1>4. (1..k) \ {k} = 1..(k - 1)
  BY ONLY k \in Nat, k # 0
<1> QED
  BY ONLY <1>1, <1>3, <1>4

Folds(g, n, base, F) ==
  \A s \in SUBSET (1..n) : g[s] = IF s = {} THEN base ELSE F[Max(s)][g[s \ {Max(s)}]]

LEMMA FoldExists ==
  ASSUME NEW n \in Nat, NEW X, NEW base \in X, NEW F \in [1..n -> [X -> X]]
  PROVE  \E g \in [SUBSET (1..n) -> X] : Folds(g, n, base, F)
<1> DEFINE Found1(m) == \E g \in [SUBSET (1..m) -> X] : Folds(g, m, base, F)
           P == {m \in Nat : m <= n => Found1(m)}
<1>1. 0 \in P
  <2>1. PICK g : g = [s \in SUBSET (1..0) |-> base]
    OBVIOUS
  <2>2. \A s \in SUBSET (1..0) : s = {}
    OBVIOUS
  <2>3. g \in [SUBSET (1..0) -> X] /\ \A s \in SUBSET (1..0) : g[s] = base
    BY ONLY <2>1, base \in X
  <2>4. Folds(g, 0, base, F)
    BY ONLY <2>2, <2>3 DEF Folds
  <2>5. Found1(0)
    BY ONLY <2>3, <2>4
  <2> HIDE DEF Found1
  <2> QED
    BY ONLY <2>5
<1>2. ASSUME NEW m \in Nat, m \in P PROVE m + 1 \in P
  <2> SUFFICES ASSUME m + 1 <= n PROVE Found1(m + 1)
    <3> HIDE DEF Found1
    <3> QED
      OBVIOUS
  <2>1. m <= n /\ m + 1 \in 1..n /\ m + 1 \in Nat
    BY ONLY m \in Nat, n \in Nat, m + 1 <= n
  <2>a. Found1(m)
    <3> HIDE DEF Found1
    <3> QED
      BY ONLY <1>2, <2>1
  <2>2. PICK g \in [SUBSET (1..m) -> X] : Folds(g, m, base, F)
    BY ONLY <2>a
  <2>b. PICK q : q = m + 1
    OBVIOUS
  <2>c. PICK A, B, Fq : A = SUBSET (1..m) /\ B = SUBSET (1..q) /\ Fq = F[q]
    OBVIOUS
  <2>3. A = SUBSET (1..m) /\ B = SUBSET (1..q) /\ q = m + 1 /\ Fq = F[q]
    BY ONLY <2>b, <2>c
  <2>4. PICK h : h = [s \in B |-> IF q \in s THEN Fq[g[s \ {q}]] ELSE g[s]]
    OBVIOUS
  <2>5. \A s \in B : s \ {q} \in A /\ (q \notin s => s \in A)
    BY ONLY <2>3, m \in Nat
  <2>6. \A s \in A : s \in B /\ q \notin s
    BY ONLY <2>3, m \in Nat
  <2>7. Fq \in [X -> X] /\ g \in [A -> X]
    BY ONLY <2>1, <2>2, <2>3, F \in [1..n -> [X -> X]]
  <2>8. h \in [B -> X]
    BY ONLY <2>4, <2>5, <2>7
  <2>9. \A s \in A : h[s] = g[s]
    BY ONLY <2>4, <2>6
  <2>10. ASSUME NEW s \in B PROVE h[s] = IF s = {} THEN base ELSE F[Max(s)][h[s \ {Max(s)}]]
    <3>1. CASE q \in s
      <4>1. s \subseteq 1..q /\ s # {} /\ q \in Nat
        BY ONLY <2>1, <2>3, <2>10, <3>1
      <4>2. Max(s) \in s /\ Max(s) >= q
        BY ONLY <3>1, <4>1, MaxOf
      <4>a. PICK x : x = Max(s)
        OBVIOUS
      <4>b. x \in 1..q /\ x >= q
        BY ONLY <4>1, <4>2, <4>a
      <4>3. Max(s) = q
        BY ONLY <4>1, <4>a, <4>b
      <4>4. h[s] = Fq[g[s \ {q}]]
        <5>1. h[s] = IF q \in s THEN Fq[g[s \ {q}]] ELSE g[s]
          BY ONLY <2>4, <2>10
        <5> QED
          BY ONLY <3>1, <5>1
      <4>5. h[s \ {q}] = g[s \ {q}]
        BY ONLY <2>5, <2>9, <2>10
      <4> QED
        BY ONLY <2>3, <4>1, <4>3, <4>4, <4>5
    <3>2. CASE q \notin s
      <4>1. s \in A /\ h[s] = g[s]
        BY ONLY <2>5, <2>9, <2>10, <3>2
      <4>2. g[s] = IF s = {} THEN base ELSE F[Max(s)][g[s \ {Max(s)}]]
        BY ONLY <2>2, <2>3, <4>1 DEF Folds
      <4>3. s \ {Max(s)} \in A
        BY ONLY <2>3, <4>1
      <4>4. h[s \ {Max(s)}] = g[s \ {Max(s)}]
        BY ONLY <2>9, <4>3
      <4> QED
        BY ONLY <4>1, <4>2, <4>4
    <3> QED
      BY ONLY <3>1, <3>2
  <2>11. Folds(h, q, base, F)
    BY ONLY <2>3, <2>10 DEF Folds
  <2> QED
    BY ONLY <2>3, <2>8, <2>11
<1>3. Nat \subseteq P
  <2> HIDE DEF P
  <2> QED
    BY ONLY <1>1, <1>2, CountingUp
<1>4. Found1(n)
  <2> HIDE DEF Found1
  <2> QED
    BY ONLY <1>3, n \in Nat
<1> QED
  BY ONLY <1>4

Unfolds(g, n, base, v) == \A s \in SUBSET (1..n) : g[s] = IF s = {} THEN base ELSE v[s]
Steps(g, n, X, F, v) == \A k \in 1..n : g[1..(k - 1)] \in X => v[1..k] = F[k][g[1..(k - 1)]]

Climbs(g, n, X, base, F) ==
  \E h \in [0..n -> X] : h[0] = base /\ (\A k \in 1..n : h[k] = F[k][h[k - 1]]) /\ h[n] = g[1..n]

LEMMA FoldPrefixes ==
  ASSUME NEW n \in Nat, NEW X, NEW base \in X, NEW F \in [1..n -> [X -> X]], NEW g, NEW v,
         Unfolds(g, n, base, v), Steps(g, n, X, F, v)
  PROVE  Climbs(g, n, X, base, F)
<1>a. \A s \in SUBSET (1..n) : g[s] = IF s = {} THEN base ELSE v[s]
  BY DEF Unfolds
<1>b. \A k \in 1..n : g[1..(k - 1)] \in X => v[1..k] = F[k][g[1..(k - 1)]]
  BY DEF Steps
<1> DEFINE P == {k \in Nat : k <= n => g[1..k] \in X}
<1>1. 0 \in P /\ g[1..0] = base
  <2>1. 1..0 = {} /\ 1..0 \in SUBSET (1..n)
    OBVIOUS
  <2> QED
    BY <1>a, <2>1
<1>2. ASSUME NEW k \in 1..n, g[1..(k - 1)] \in X PROVE g[1..k] = F[k][g[1..(k - 1)]] /\ g[1..k] \in X
  <2>1. PICK s : s = 1..k
    OBVIOUS
  <2>2. s \in SUBSET (1..n) /\ s # {}
    BY ONLY <2>1, k \in 1..n, n \in Nat
  <2>3. g[s] = v[s]
    BY <1>a, <2>2
  <2>4. v[s] = F[k][g[1..(k - 1)]]
    BY <1>b, <1>2, <2>1
  <2> QED
    BY <1>2, <2>1, <2>3, <2>4
<1>3. ASSUME NEW k \in Nat, k \in P PROVE k + 1 \in P
  <2>1. ASSUME k + 1 <= n PROVE g[1..(k + 1)] \in X
    <3>1. PICK q : q = k + 1
      OBVIOUS
    <3>2. q \in 1..n /\ q - 1 = k
      BY <2>1, <3>1
    <3>3. g[1..(q - 1)] \in X
      BY <1>3, <2>1, <3>2
    <3> QED
      BY <1>2, <3>1, <3>2, <3>3
  <2> QED
    BY <2>1
<1>4. Nat \subseteq P
  <2> HIDE DEF P
  <2> QED
    BY ONLY <1>1, <1>3, CountingUp
<1>5. \A k \in 0..n : g[1..k] \in X
  BY <1>4
<1>6. PICK h : h = [k \in 0..n |-> g[1..k]]
  OBVIOUS
<1>7. h \in [0..n -> X]
  BY ONLY <1>5, <1>6
<1>8. ASSUME NEW k \in 1..n PROVE h[k] = F[k][h[k - 1]]
  <2>1. k \in 0..n /\ k - 1 \in 0..n
    BY ONLY <1>8, n \in Nat
  <2>2. h[k] = g[1..k] /\ h[k - 1] = g[1..(k - 1)]
    BY ONLY <1>6, <2>1
  <2>3. g[1..(k - 1)] \in X
    BY ONLY <1>5, <2>1
  <2> QED
    BY <1>2, <2>2, <2>3
<1>9. h[0] = g[1..0] /\ h[n] = g[1..n]
  BY ONLY <1>6, n \in Nat
<1> HIDE DEF P
<1> QED
  BY ONLY <1>1, <1>7, <1>8, <1>9 DEF Climbs

LEMMA Appended ==
  ASSUME NEW L, NEW a \in Seq(L), NEW e \in L, NEW b, b = Append(a, e)
  PROVE  b \in Seq(L) /\ Len(b) = Len(a) + 1 /\ (\A k \in 1..Len(a) : b[k] = a[k]) /\ b[Len(a) + 1] = e
BY AppendProperties

-----------------------------------------------------------------------------
(* Retrieval. Lists without repetition, and what the operators of the search *)
(* make of them.                                                             *)

Distinct(S) == {s \in Seq(S) : IsInjective(s)}

LEMMA DistinctIs ==
  ASSUME NEW S, NEW s
  PROVE  s \in Distinct(S) <=> s \in Seq(S) /\ \A i, j \in DOMAIN s : s[i] = s[j] => i = j
BY DEF Distinct, IsInjective

LEMMA RangeIs ==
  ASSUME NEW s, NEW x
  PROVE  x \in Range(s) <=> \E i \in DOMAIN s : s[i] = x
BY DEF Range

LEMMA CutIs ==
  ASSUME NEW S, NEW s \in Seq(S), NEW n \in Nat, NEW c, c = Cut(s, n)
  PROVE  /\ c \in Seq(S) /\ Len(c) <= n /\ Len(c) <= Len(s) /\ (n # 0 /\ Len(s) # 0 => Len(c) # 0)
         /\ \A i \in 1..Len(c) : c[i] = s[i]
<1>1. Len(s) \in Nat /\ \A i \in 1..Len(s) : s[i] \in S
  OBVIOUS
<1>2. PICK m : m = IF Len(s) < n THEN Len(s) ELSE n
  OBVIOUS
<1>3. m \in Nat /\ m <= n /\ m <= Len(s) /\ (n # 0 /\ Len(s) # 0 => m # 0)
  BY ONLY <1>1, <1>2, n \in Nat
<1>4. c = SubSeq(s, 1, m)
  BY ONLY <1>2, c = Cut(s, n) DEF Cut
<1>5. \A i \in 1..m : s[i] \in S
  BY ONLY <1>1, <1>3
<1>6. 1 \in Int /\ m \in Int
  BY ONLY <1>3
<1>7. /\ c \in Seq(S) /\ Len(c) = (IF 1 <= m THEN m - 1 + 1 ELSE 0)
      /\ \A i \in 1..m - 1 + 1 : c[i] = s[1 + i - 1]
  BY ONLY <1>4, <1>5, <1>6, SubSeqProperties
<1>8. m - 1 + 1 = m /\ (IF 1 <= m THEN m - 1 + 1 ELSE 0) = m /\ \A i \in 1..m : 1 + i - 1 = i
  BY ONLY <1>3
<1> QED
  BY ONLY <1>3, <1>7, <1>8

LEMMA CutDistinct ==
  ASSUME NEW S, NEW s \in Distinct(S), NEW n \in Nat, NEW c, c = Cut(s, n)
  PROVE  /\ c \in Distinct(S) /\ Len(c) <= n /\ Len(c) <= Len(s) /\ Range(c) \subseteq Range(s)
         /\ n # 0 /\ s # <<>> => c # <<>> /\ c[1] = s[1]
<1>1. s \in Seq(S) /\ \A i, j \in DOMAIN s : s[i] = s[j] => i = j
  BY DistinctIs
<1>2. /\ c \in Seq(S) /\ Len(c) <= n /\ Len(c) <= Len(s) /\ (n # 0 /\ Len(s) # 0 => Len(c) # 0)
      /\ \A i \in 1..Len(c) : c[i] = s[i]
  BY ONLY <1>1, n \in Nat, c = Cut(s, n), CutIs
<1>3. DOMAIN s = 1..Len(s) /\ DOMAIN c = 1..Len(c) /\ Len(s) \in Nat /\ Len(c) \in Nat
  BY ONLY <1>1, <1>2
<1>4. \A i \in DOMAIN c : i \in DOMAIN s /\ c[i] = s[i]
  BY ONLY <1>2, <1>3
<1>5. \A i, j \in DOMAIN c : c[i] = c[j] => i = j
  BY ONLY <1>1, <1>4
<1>6. c \in Distinct(S)
  BY ONLY <1>2, <1>5, DistinctIs
<1>7. Range(c) \subseteq Range(s)
  BY ONLY <1>4 DEF Range
<1>8. ASSUME n # 0, s # <<>> PROVE c # <<>> /\ c[1] = s[1]
  <2>1. Len(s) # 0
    BY ONLY <1>1, <1>8
  <2>2. Len(c) # 0 /\ 1 \in 1..Len(c)
    BY ONLY <1>2, <1>3, <1>8, <2>1
  <2>3. c # <<>>
    BY ONLY <2>2
  <2> QED
    BY ONLY <1>2, <2>2, <2>3
<1> QED
  BY ONLY <1>2, <1>6, <1>7, <1>8

Apart(s, t) == Range(s) \cap Range(t) = {}

Joins(c, s, t) == c = s \o t
AsMuch(c, s, t) == Range(c) = Range(s) \cup Range(t)
Starts(c, s) == s # <<>> => c # <<>> /\ c[1] = s[1]

LEMMA JoinDistinct ==
  ASSUME NEW S, NEW s \in Distinct(S), NEW t \in Distinct(S), Apart(s, t), NEW c, Joins(c, s, t)
  PROVE  c \in Distinct(S) /\ AsMuch(c, s, t) /\ Starts(c, s)
<1>0. c = s \o t
  BY DEF Joins
<1>1. s \in Seq(S) /\ (\A i, j \in DOMAIN s : s[i] = s[j] => i = j)
      /\ t \in Seq(S) /\ (\A i, j \in DOMAIN t : t[i] = t[j] => i = j)
  BY DistinctIs
<1>2. PICK m, n : m = Len(s) /\ n = Len(t)
  OBVIOUS
<1>3. m \in Nat /\ n \in Nat /\ DOMAIN s = 1..m /\ DOMAIN t = 1..n
  BY ONLY <1>1, <1>2
<1>4. c \in Seq(S) /\ Len(c) = m + n /\ \A i \in 1..m + n : c[i] = IF i <= m THEN s[i] ELSE t[i - m]
  BY ONLY <1>1, <1>0, <1>2, ConcatProperties
<1>5. DOMAIN c = 1..m + n
  BY ONLY <1>3, <1>4
<1>6. ASSUME NEW i \in 1..m + n PROVE (i <= m /\ i \in 1..m /\ c[i] = s[i] /\ c[i] \in Range(s))
                                       \/ (i > m /\ i - m \in 1..n /\ c[i] = t[i - m] /\ c[i] \in Range(t))
  <2>1. CASE i <= m
    <3>1. i \in 1..m /\ c[i] = s[i]
      BY ONLY <1>3, <1>4, <2>1, i \in 1..m + n
    <3>2. c[i] \in Range(s)
      BY ONLY <1>3, <3>1 DEF Range
    <3> QED
      BY ONLY <2>1, <3>1, <3>2
  <2>2. CASE ~(i <= m)
    <3>1. i > m /\ i - m \in 1..n /\ c[i] = t[i - m]
      BY ONLY <1>3, <1>4, <2>2, i \in 1..m + n
    <3>2. c[i] \in Range(t)
      BY ONLY <1>3, <3>1 DEF Range
    <3> QED
      BY ONLY <3>1, <3>2
  <2> QED
    BY ONLY <2>1, <2>2
<1>7. ASSUME NEW i \in 1..m + n, NEW j \in 1..m + n, c[i] = c[j] PROVE i = j
  <2>1. i \in Int /\ j \in Int /\ m \in Int
    BY ONLY <1>3, i \in 1..m + n, j \in 1..m + n
  <2>2. CASE i <= m
    <3>1. c[i] \in Range(s) /\ i \in 1..m /\ c[i] = s[i]
      BY ONLY <1>6, <2>1, <2>2, i \in 1..m + n
    <3>2. c[j] \notin Range(t)
      BY ONLY <1>7, <3>1, Apart(s, t) DEF Apart
    <3>3. j \in 1..m /\ c[j] = s[j]
      BY ONLY <1>6, <3>2, j \in 1..m + n
    <3> QED
      BY ONLY <1>1, <1>3, <1>7, <3>1, <3>3
  <2>3. CASE ~(i <= m)
    <3>1. c[i] \in Range(t) /\ i - m \in 1..n /\ c[i] = t[i - m]
      BY ONLY <1>6, <2>1, <2>3, i \in 1..m + n
    <3>2. c[j] \notin Range(s)
      BY ONLY <1>7, <3>1, Apart(s, t) DEF Apart
    <3>3. j - m \in 1..n /\ c[j] = t[j - m]
      BY ONLY <1>6, <3>2, j \in 1..m + n
    <3>4. i - m = j - m
      BY ONLY <1>1, <1>3, <1>7, <3>1, <3>3
    <3> QED
      BY ONLY <2>1, <3>4
  <2> QED
    BY ONLY <2>2, <2>3
<1>8. c \in Distinct(S)
  BY ONLY <1>4, <1>5, <1>7, DistinctIs
<1>9. Range(c) = Range(s) \cup Range(t)
  BY ONLY <1>0, <1>1, RangeConcatenation
<1>10. ASSUME s # <<>> PROVE c # <<>> /\ c[1] = s[1]
  <2>1. m # 0
    BY ONLY <1>1, <1>2, <1>10
  <2>2. 1 \in 1..m + n /\ 1 <= m /\ Len(c) # 0
    BY ONLY <1>3, <1>4, <2>1
  <2>3. c # <<>>
    BY ONLY <2>2
  <2> QED
    BY ONLY <1>4, <2>2, <2>3
<1> QED
  BY ONLY <1>8, <1>9, <1>10 DEF AsMuch, Starts

LEMMA OrdersDistinct ==
  ASSUME NEW S, NEW n, NEW s \in Orders(S, n)
  PROVE  s \in Distinct(S)
<1>1. PICK k \in 0..n : s \in [1..k -> S] /\ IsInjective(s)
  BY DEF Orders
<1>2. k \in Nat
  BY <1>1
<1>3. s \in Seq(S)
  BY ONLY <1>1, <1>2
<1> QED
  BY ONLY <1>1, <1>3 DEF Distinct

(* A list that grows by some of the entries of another, in turn. *)
Grows(h, n, s) == h[0] = <<>> /\ \A k \in 1..n : h[k] = h[k - 1] \/ h[k] = Append(h[k - 1], s[k])

FromFirst(t, k, s) == \A i \in DOMAIN t : \E j \in 1..k : s[j] = t[i]

Appends(c, t, x) == c = Append(t, x)
Gains(c, t, x) == Range(c) = Range(t) \cup {x}

LEMMA AppendDistinct ==
  ASSUME NEW S, NEW t \in Distinct(S), NEW x \in S, x \notin Range(t), NEW c, Appends(c, t, x)
  PROVE  c \in Distinct(S) /\ Gains(c, t, x)
<1>0. c = Append(t, x)
  BY DEF Appends
<1>1. t \in Seq(S) /\ \A i, j \in DOMAIN t : t[i] = t[j] => i = j
  BY DistinctIs
<1>2. PICK n \in Nat : n = Len(t) /\ DOMAIN t = 1..n
  BY ONLY <1>1
<1>3. c \in Seq(S) /\ Len(c) = n + 1 /\ (\A k \in 1..n : c[k] = t[k]) /\ c[n + 1] = x
  BY ONLY <1>0, <1>1, <1>2, x \in S, Appended
<1>4. DOMAIN c = 1..(n + 1) /\ \A k \in 1..(n + 1) : k \in 1..n \/ k = n + 1
  BY ONLY <1>3, n \in Nat
<1>5. \A k \in 1..n : t[k] # x
  BY ONLY <1>2, x \notin Range(t) DEF Range
<1>6. ASSUME NEW i \in 1..(n + 1), NEW j \in 1..(n + 1), c[i] = c[j] PROVE i = j
  <2>1. CASE i \in 1..n /\ j \in 1..n
    BY ONLY <1>1, <1>2, <1>3, <1>6, <2>1
  <2>2. CASE i = n + 1 /\ j \in 1..n
    BY ONLY <1>3, <1>5, <1>6, <2>2
  <2>3. CASE i \in 1..n /\ j = n + 1
    BY ONLY <1>3, <1>5, <1>6, <2>3
  <2> QED
    BY ONLY <1>4, <2>1, <2>2, <2>3, i \in 1..(n + 1), j \in 1..(n + 1)
<1>7. c \in Distinct(S)
  BY ONLY <1>3, <1>4, <1>6, DistinctIs
<1>8. Range(c) = Range(t) \cup {x}
  <2>1. \A k \in 1..n : k \in 1..(n + 1)
    BY ONLY n \in Nat
  <2>2. n + 1 \in 1..(n + 1)
    BY ONLY n \in Nat
  <2>3. ASSUME NEW y PROVE y \in Range(c) <=> y \in Range(t) \/ y = x
    <3>1. y \in Range(c) <=> \E k \in 1..(n + 1) : c[k] = y
      BY ONLY <1>4, RangeIs
    <3>2. y \in Range(t) <=> \E k \in 1..n : t[k] = y
      BY ONLY <1>2, RangeIs
    <3> QED
      BY ONLY <1>3, <1>4, <2>1, <2>2, <3>1, <3>2
  <2> QED
    BY ONLY <2>3
<1> QED
  BY ONLY <1>7, <1>8 DEF Gains

LEMMA GrowsDistinct ==
  ASSUME NEW S, NEW s \in Distinct(S), NEW n \in Nat, n = Len(s), NEW h \in [0..n -> Seq(S)], Grows(h, n, s)
  PROVE  /\ h[n] \in Distinct(S) /\ Range(h[n]) \subseteq Range(s)
         /\ \A k \in 0..n : Range(h[k]) \subseteq Range(h[n])
<1>0. s \in Seq(S) /\ DOMAIN s = 1..n /\ (\A k \in 1..n : s[k] \in S) /\ \A i, j \in 1..n : s[i] = s[j] => i = j
  <2>1. s \in Seq(S) /\ \A i, j \in DOMAIN s : s[i] = s[j] => i = j
    BY DistinctIs
  <2>2. DOMAIN s = 1..n /\ (\A k \in 1..n : s[k] \in S)
    BY ONLY <2>1, n = Len(s)
  <2> QED
    BY ONLY <2>1, <2>2
<1> DEFINE P == {k \in Nat : k <= n => h[k] \in Distinct(S) /\ FromFirst(h[k], k, s)}
<1>1. 0 \in P
  <2>1. h[0] = <<>>
    BY DEF Grows
  <2>2. DOMAIN h[0] = {} /\ h[0] \in Seq(S)
    BY ONLY <2>1
  <2>3. h[0] \in Distinct(S)
    BY ONLY <2>2, DistinctIs
  <2>4. FromFirst(h[0], 0, s)
    BY ONLY <2>2 DEF FromFirst
  <2> QED
    BY ONLY <2>3, <2>4
<1>2. ASSUME NEW k \in Nat, k \in P PROVE k + 1 \in P
  <2> SUFFICES ASSUME k + 1 <= n PROVE h[k + 1] \in Distinct(S) /\ FromFirst(h[k + 1], k + 1, s)
    OBVIOUS
  <2>1. PICK q : q = k + 1
    OBVIOUS
  <2>2. q \in 1..n /\ q - 1 = k /\ k <= n /\ (\A j \in 1..k : j \in 1..q /\ j \in 1..n /\ j # q) /\ q \in 1..q
    BY ONLY <2>1, k \in Nat, n \in Nat, k + 1 <= n
  <2>3. h[k] \in Distinct(S) /\ FromFirst(h[k], k, s)
    BY ONLY <1>2, <2>2
  <2>4. h[q] = h[k] \/ h[q] = Append(h[k], s[q])
    BY ONLY <2>2, Grows(h, n, s) DEF Grows
  <2>5. FromFirst(h[k], q, s)
    BY ONLY <2>2, <2>3 DEF FromFirst
  <2>6. CASE h[q] = h[k]
    BY ONLY <2>1, <2>3, <2>5, <2>6
  <2>7. CASE h[q] = Append(h[k], s[q])
    <3>1. s[q] \notin Range(h[k])
      <4> SUFFICES ASSUME s[q] \in Range(h[k]) PROVE FALSE
        OBVIOUS
      <4>1. PICK i \in DOMAIN h[k] : h[k][i] = s[q]
        BY ONLY s[q] \in Range(h[k]), RangeIs
      <4>2. PICK j \in 1..k : s[j] = h[k][i]
        BY ONLY <2>3, i \in DOMAIN h[k] DEF FromFirst
      <4> QED
        BY ONLY <1>0, <2>2, <4>1, <4>2
    <3>2. s[q] \in S
      BY ONLY <1>0, <2>2
    <3>3. h[q] \in Distinct(S) /\ Range(h[q]) = Range(h[k]) \cup {s[q]}
      <4>1. PICK t, x, c : t = h[k] /\ x = s[q] /\ c = h[q]
        OBVIOUS
      <4>2. t \in Distinct(S) /\ x \in S /\ x \notin Range(t) /\ Appends(c, t, x)
        BY ONLY <2>3, <2>7, <3>1, <3>2, <4>1 DEF Appends
      <4>3. c \in Distinct(S) /\ Gains(c, t, x)
        BY ONLY <4>2, AppendDistinct
      <4> QED
        BY ONLY <4>1, <4>3 DEF Gains
    <3>4. ASSUME NEW i \in DOMAIN h[q] PROVE \E j \in 1..q : s[j] = h[q][i]
      <4>1. h[q][i] \in Range(h[q])
        BY ONLY i \in DOMAIN h[q], RangeIs
      <4>2. CASE h[q][i] = s[q]
        BY ONLY <2>2, <4>2
      <4>3. CASE h[q][i] \in Range(h[k])
        <5>1. PICK m \in DOMAIN h[k] : h[k][m] = h[q][i]
          BY ONLY <4>3, RangeIs
        <5>2. \E j \in 1..q : s[j] = h[k][m]
          BY ONLY <2>5, m \in DOMAIN h[k] DEF FromFirst
        <5> QED
          BY ONLY <5>1, <5>2
      <4> QED
        BY ONLY <3>3, <4>1, <4>2, <4>3
    <3>5. FromFirst(h[q], q, s)
      BY ONLY <3>4 DEF FromFirst
    <3> QED
      BY ONLY <2>1, <3>3, <3>5
  <2> QED
    BY ONLY <2>4, <2>6, <2>7
<1>3. Nat \subseteq P
  <2> HIDE DEF P
  <2> QED
    BY ONLY <1>1, <1>2, CountingUp
<1>4. \A k \in 0..n : h[k] \in Distinct(S) /\ FromFirst(h[k], k, s)
  BY ONLY <1>3, n \in Nat
<1>5. ASSUME NEW k \in 1..n PROVE Range(h[k - 1]) \subseteq Range(h[k])
  <2>1. h[k] = h[k - 1] \/ h[k] = Append(h[k - 1], s[k])
    BY ONLY k \in 1..n, Grows(h, n, s) DEF Grows
  <2>2. k - 1 \in 0..n /\ s[k] \in S
    BY ONLY <1>0, k \in 1..n, n \in Nat
  <2>3. h[k - 1] \in Seq(S)
    BY ONLY <2>2, h \in [0..n -> Seq(S)]
  <2>4. PICK t, c : t = h[k - 1] /\ c = h[k]
    OBVIOUS
  <2>5. CASE c = Append(t, s[k])
    <3>0. t \in Seq(S)
      BY ONLY <2>3, <2>4
    <3>1. c \in Seq(S) /\ Len(c) = Len(t) + 1 /\ \A i \in 1..Len(t) : c[i] = t[i]
      BY ONLY <2>2, <2>5, <3>0, Appended
    <3>2. DOMAIN t = 1..Len(t) /\ DOMAIN c = 1..Len(c) /\ Len(t) \in Nat
      BY ONLY <3>0, <3>1
    <3>3. \A i \in DOMAIN t : i \in DOMAIN c /\ c[i] = t[i]
      BY ONLY <3>1, <3>2
    <3>4. Range(t) \subseteq Range(c)
      BY ONLY <3>3 DEF Range
    <3> QED
      BY ONLY <2>4, <3>4
  <2> QED
    BY ONLY <2>1, <2>4, <2>5
<1> DEFINE Q == {k \in Nat : k <= n => Range(h[n - k]) \subseteq Range(h[n])}
<1>6. 0 \in Q
  BY ONLY n \in Nat
<1>7. ASSUME NEW k \in Nat, k \in Q PROVE k + 1 \in Q
  <2> SUFFICES ASSUME k + 1 <= n PROVE Range(h[n - (k + 1)]) \subseteq Range(h[n])
    OBVIOUS
  <2>1. n - k \in 1..n /\ (n - k) - 1 = n - (k + 1) /\ k <= n
    BY ONLY k \in Nat, n \in Nat, k + 1 <= n
  <2>2. Range(h[n - k]) \subseteq Range(h[n])
    BY ONLY <1>7, <2>1
  <2>3. Range(h[(n - k) - 1]) \subseteq Range(h[n - k])
    BY ONLY <1>5, <2>1
  <2> QED
    BY ONLY <2>1, <2>2, <2>3
<1>8. Nat \subseteq Q
  <2> HIDE DEF Q
  <2> QED
    BY ONLY <1>6, <1>7, CountingUp
<1>9. ASSUME NEW k \in 0..n PROVE Range(h[k]) \subseteq Range(h[n])
  <2>1. n - k \in Nat /\ n - k <= n /\ n - (n - k) = k
    BY ONLY n \in Nat, k \in 0..n
  <2> QED
    BY ONLY <1>8, <2>1
<1>10. Range(h[n]) \subseteq Range(s)
  <2> SUFFICES ASSUME NEW x \in Range(h[n]) PROVE x \in Range(s)
    OBVIOUS
  <2>1. PICK i \in DOMAIN h[n] : h[n][i] = x
    BY ONLY x \in Range(h[n]), RangeIs
  <2>2. FromFirst(h[n], n, s)
    BY ONLY <1>4, n \in Nat
  <2>3. PICK j \in 1..n : s[j] = h[n][i]
    BY ONLY <2>2, i \in DOMAIN h[n] DEF FromFirst
  <2> QED
    BY ONLY <1>0, <2>1, <2>3, RangeIs
<1>11. h[n] \in Distinct(S)
  BY ONLY <1>4, n \in Nat
<1> QED
  BY ONLY <1>9, <1>10, <1>11

WithoutFold(g, s, T) == g = [u \in SUBSET (DOMAIN s) |->
  IF u = {} THEN <<>> ELSE IF s[Max(u)] \in T THEN g[u \ {Max(u)}] ELSE Append(g[u \ {Max(u)}], s[Max(u)])]

LEMMA WithoutUnfolds == ASSUME NEW s, NEW T PROVE Without(s, T) = (CHOOSE g : WithoutFold(g, s, T))[DOMAIN s]
BY ONLY DEF Without, FoldLeft, MapThenFoldSet, WithoutFold

LEMMA WithoutIs ==
  ASSUME NEW S, NEW s \in Distinct(S), NEW T
  PROVE  /\ Without(s, T) \in Distinct(S) /\ Range(Without(s, T)) \subseteq Range(s)
         /\ Range(Without(s, T)) \cap T = {}
<1>a. s \in Seq(S)
  BY DistinctIs
<1>0. PICK n \in Nat : n = Len(s) /\ DOMAIN s = 1..n /\ \A k \in 1..n : s[k] \in S
  BY ONLY <1>a
<1>1. PICK X : X = Seq(S \ T)
  OBVIOUS
<1>b. PICK A : A = [k \in 1..n |-> [x \in X |-> IF s[k] \in T THEN x ELSE Append(x, s[k])]]
  OBVIOUS
<1>2. ASSUME NEW k \in 1..n, NEW x \in X PROVE (IF s[k] \in T THEN x ELSE Append(x, s[k])) \in X
  <2>1. CASE s[k] \notin T
    <3>1. s[k] \in S \ T /\ x \in Seq(S \ T)
      BY ONLY <1>0, <1>1, <1>2, <2>1
    <3>2. Append(x, s[k]) \in Seq(S \ T)
      BY ONLY <3>1
    <3> QED
      BY ONLY <1>1, <2>1, <3>2
  <2>2. CASE s[k] \in T
    BY ONLY <1>2, <2>2
  <2> QED
    BY ONLY <2>1, <2>2
<1>4. A \in [1..n -> [X -> X]] /\ \A k \in 1..n, x \in X : A[k][x] = IF s[k] \in T THEN x ELSE Append(x, s[k])
  BY ONLY <1>b, <1>2
<1>5. <<>> \in X
  BY ONLY <1>1
<1>6. PICK g \in [SUBSET (1..n) -> X] : Folds(g, n, <<>>, A)
  BY ONLY <1>4, <1>5, n \in Nat, FoldExists
<1>7. ASSUME NEW u \in SUBSET (1..n), u # {}
      PROVE  g[u] = IF s[Max(u)] \in T THEN g[u \ {Max(u)}] ELSE Append(g[u \ {Max(u)}], s[Max(u)])
  <2>1. g[u] = A[Max(u)][g[u \ {Max(u)}]]
    BY ONLY <1>6, <1>7 DEF Folds
  <2>2. Max(u) \in u
    BY ONLY <1>7, n \in Nat, MaxOf
  <2>3. Max(u) \in 1..n /\ u \ {Max(u)} \in SUBSET (1..n)
    BY ONLY <1>7, <2>2
  <2>4. g[u \ {Max(u)}] \in X
    BY ONLY <2>3, g \in [SUBSET (1..n) -> X]
  <2> QED
    BY ONLY <1>4, <2>1, <2>3, <2>4
<1>8. WithoutFold(g, s, T)
  <2>1. g[{}] = <<>>
    BY ONLY <1>6 DEF Folds
  <2>2. \A u \in SUBSET (1..n) : g[u] = IF u = {} THEN <<>> ELSE IF s[Max(u)] \in T THEN g[u \ {Max(u)}]
                                                                ELSE Append(g[u \ {Max(u)}], s[Max(u)])
    BY ONLY <1>7, <2>1
  <2> QED
    BY ONLY <1>0, <2>2, g \in [SUBSET (1..n) -> X] DEF WithoutFold
<1>9. PICK c : c = CHOOSE z : WithoutFold(z, s, T)
  OBVIOUS
<1>10. WithoutFold(c, s, T)
  BY ONLY <1>8, <1>9
<1>11. PICK v : v = [u \in SUBSET (1..n) |-> IF s[Max(u)] \in T THEN c[u \ {Max(u)}] ELSE Append(c[u \ {Max(u)}], s[Max(u)])]
  OBVIOUS
<1>12. Unfolds(c, n, <<>>, v)
  BY ONLY <1>0, <1>10, <1>11 DEF WithoutFold, Unfolds
<1>13. ASSUME NEW k \in 1..n, c[1..(k - 1)] \in X PROVE v[1..k] = A[k][c[1..(k - 1)]]
  <2>1. k \in Nat /\ k # 0 /\ 1..k \in SUBSET (1..n)
    BY ONLY k \in 1..n, n \in Nat
  <2>2. Max(1..k) = k /\ (1..k) \ {Max(1..k)} = 1..(k - 1)
    BY ONLY <2>1, MaxOfPrefix
  <2>3. v[1..k] = IF s[k] \in T THEN c[1..(k - 1)] ELSE Append(c[1..(k - 1)], s[k])
    BY ONLY <1>11, <2>1, <2>2
  <2> QED
    BY ONLY <1>4, <1>13, <2>3
<1>c. Steps(c, n, X, A, v)
  BY ONLY <1>13 DEF Steps
<1>14. PICK h \in [0..n -> X] : h[0] = <<>> /\ (\A k \in 1..n : h[k] = A[k][h[k - 1]]) /\ h[n] = c[1..n]
  <2>0. A \in [1..n -> [X -> X]]
    BY ONLY <1>4
  <2>1. Climbs(c, n, X, <<>>, A)
    BY ONLY <1>5, <1>12, <1>c, <2>0, n \in Nat, FoldPrefixes
  <2> QED
    BY ONLY <2>1 DEF Climbs
<1>15. Without(s, T) = h[n]
  BY ONLY <1>0, <1>9, <1>14, WithoutUnfolds
<1>16. Grows(h, n, s)
  <2>1. ASSUME NEW k \in 1..n PROVE h[k] = h[k - 1] \/ h[k] = Append(h[k - 1], s[k])
    <3>1. k - 1 \in 0..n
      BY ONLY k \in 1..n, n \in Nat
    <3>2. h[k - 1] \in X
      BY ONLY <3>1, h \in [0..n -> X]
    <3> QED
      BY ONLY <1>4, <1>14, <3>2, k \in 1..n
  <2> QED
    BY ONLY <1>14, <2>1 DEF Grows
<1>17. h \in [0..n -> Seq(S)] /\ h[n] \in Seq(S \ T)
  <2>1. Seq(S \ T) \subseteq Seq(S)
    BY ONLY SeqMonotonic
  <2> QED
    BY ONLY <1>1, <2>1, h \in [0..n -> X], n \in Nat
<1>18. h[n] \in Distinct(S) /\ Range(h[n]) \subseteq Range(s)
  BY ONLY <1>0, <1>16, <1>17, s \in Distinct(S), GrowsDistinct
<1>19. Range(h[n]) \cap T = {}
  <2>1. \A i \in DOMAIN h[n] : h[n][i] \in S \ T
    BY ONLY <1>17
  <2> QED
    BY ONLY <2>1 DEF Range
<1> QED
  BY ONLY <1>15, <1>18, <1>19

MergeFold(g, s) == g = [u \in SUBSET (DOMAIN s) |-> IF u = {} THEN <<>> ELSE Consider(g[u \ {Max(u)}], s[Max(u)])]

LEMMA MergeUnfolds ==
  ASSUME NEW known, NEW found, NEW s, s = known \o found
  PROVE  MergeSources(known, found) = (CHOOSE g : MergeFold(g, s))[DOMAIN s]
<1>1. MergeSources(known, found) = FoldLeft(Consider, <<>>, s)
  BY ONLY s = known \o found DEF MergeSources
<1> QED
  BY ONLY <1>1 DEF FoldLeft, MapThenFoldSet, MergeFold

Repeats(t, d) == \E e \in Range(t) : Alike(e, d)

(* Merging keeps entries of the list, none twice, and what it leaves out is  *)
(* alike to one it keeps.                                                    *)
(* What is merged is of the list, and what of the list is gone repeats some  *)
(* chunk that was kept.                                                      *)
KeptOrRepeated(r, s) ==
  /\ Range(r) \subseteq Range(s)
  /\ \A d \in Range(s) : d \in Range(r) \/ \E e \in Range(r) : Alike(e, d)

LEMMA MergeIs ==
  ASSUME NEW S, NEW known, NEW found, NEW s, Joins(s, known, found), s \in Distinct(S), NEW r, r = MergeSources(known, found)
  PROVE  r \in Distinct(S) /\ KeptOrRepeated(r, s)
<1>j. s = known \o found
  BY DEF Joins
<1>a. s \in Seq(S)
  BY DistinctIs
<1>0. PICK n \in Nat : n = Len(s) /\ DOMAIN s = 1..n /\ \A k \in 1..n : s[k] \in S
  BY ONLY <1>a
<1>1. PICK X : X = Seq(S)
  OBVIOUS
<1>b. PICK A : A = [k \in 1..n |-> [x \in X |-> Consider(x, s[k])]]
  OBVIOUS
<1>2. ASSUME NEW k \in 1..n, NEW x \in X
      PROVE  /\ Consider(x, s[k]) \in X
             /\ \/ Consider(x, s[k]) = x /\ Repeats(x, s[k])
                \/ Consider(x, s[k]) = Append(x, s[k])
  <2>1. Append(x, s[k]) \in X
    <3>1. x \in Seq(S) /\ s[k] \in S
      BY ONLY <1>0, <1>1, <1>2
    <3> QED
      BY ONLY <1>1, <3>1
  <2> QED
    BY ONLY <1>2, <2>1 DEF Consider, Repeats
<1>4. A \in [1..n -> [X -> X]] /\ \A k \in 1..n, x \in X : A[k][x] = Consider(x, s[k])
  BY ONLY <1>b, <1>2
<1>5. <<>> \in X
  BY ONLY <1>1
<1>6. PICK g \in [SUBSET (1..n) -> X] : Folds(g, n, <<>>, A)
  BY ONLY <1>4, <1>5, n \in Nat, FoldExists
<1>7. ASSUME NEW u \in SUBSET (1..n), u # {} PROVE g[u] = Consider(g[u \ {Max(u)}], s[Max(u)])
  <2>1. g[u] = A[Max(u)][g[u \ {Max(u)}]]
    BY ONLY <1>6, <1>7 DEF Folds
  <2>2. Max(u) \in u
    BY ONLY <1>7, n \in Nat, MaxOf
  <2>3. Max(u) \in 1..n /\ u \ {Max(u)} \in SUBSET (1..n)
    BY ONLY <1>7, <2>2
  <2>4. g[u \ {Max(u)}] \in X
    BY ONLY <2>3, g \in [SUBSET (1..n) -> X]
  <2> QED
    BY ONLY <1>4, <2>1, <2>3, <2>4
<1>8. MergeFold(g, s)
  <2>1. g[{}] = <<>>
    BY ONLY <1>6 DEF Folds
  <2>2. \A u \in SUBSET (1..n) : g[u] = IF u = {} THEN <<>> ELSE Consider(g[u \ {Max(u)}], s[Max(u)])
    BY ONLY <1>7, <2>1
  <2> QED
    BY ONLY <1>0, <2>2, g \in [SUBSET (1..n) -> X] DEF MergeFold
<1>9. PICK c : c = CHOOSE z : MergeFold(z, s)
  OBVIOUS
<1>10. MergeFold(c, s)
  BY ONLY <1>8, <1>9
<1>11. PICK v : v = [u \in SUBSET (1..n) |-> Consider(c[u \ {Max(u)}], s[Max(u)])]
  OBVIOUS
<1>12. Unfolds(c, n, <<>>, v)
  BY ONLY <1>0, <1>10, <1>11 DEF MergeFold, Unfolds
<1>13. ASSUME NEW k \in 1..n, c[1..(k - 1)] \in X PROVE v[1..k] = A[k][c[1..(k - 1)]]
  <2>1. k \in Nat /\ k # 0 /\ 1..k \in SUBSET (1..n)
    BY ONLY k \in 1..n, n \in Nat
  <2>2. Max(1..k) = k /\ (1..k) \ {Max(1..k)} = 1..(k - 1)
    BY ONLY <2>1, MaxOfPrefix
  <2>3. v[1..k] = Consider(c[1..(k - 1)], s[k])
    BY ONLY <1>11, <2>1, <2>2
  <2> QED
    BY ONLY <1>4, <1>13, <2>3
<1>c. Steps(c, n, X, A, v)
  BY ONLY <1>13 DEF Steps
<1>14. PICK h \in [0..n -> X] : h[0] = <<>> /\ (\A k \in 1..n : h[k] = A[k][h[k - 1]]) /\ h[n] = c[1..n]
  <2>0. A \in [1..n -> [X -> X]]
    BY ONLY <1>4
  <2>1. Climbs(c, n, X, <<>>, A)
    BY ONLY <1>5, <1>12, <1>c, <2>0, n \in Nat, FoldPrefixes
  <2> QED
    BY ONLY <2>1 DEF Climbs
<1>15. r = h[n]
  <2>1. r = c[DOMAIN s]
    BY ONLY <1>9, <1>j, r = MergeSources(known, found), MergeUnfolds
  <2> QED
    BY ONLY <1>0, <1>14, <2>1
<1>d. ASSUME NEW k \in 1..n PROVE (h[k] = h[k - 1] /\ Repeats(h[k - 1], s[k])) \/ h[k] = Append(h[k - 1], s[k])
  <2>1. k - 1 \in 0..n
    BY ONLY k \in 1..n, n \in Nat
  <2>2. h[k - 1] \in X
    BY ONLY <2>1, h \in [0..n -> X]
  <2>3. h[k] = Consider(h[k - 1], s[k])
    BY ONLY <1>4, <1>14, <2>2, k \in 1..n
  <2>4. PICK x : x = h[k - 1]
    OBVIOUS
  <2>5. x \in X
    BY ONLY <2>2, <2>4
  <2>6. (Consider(x, s[k]) = x /\ Repeats(x, s[k])) \/ Consider(x, s[k]) = Append(x, s[k])
    BY ONLY <1>2, <2>5, k \in 1..n
  <2> QED
    BY ONLY <2>3, <2>4, <2>6
<1>16. Grows(h, n, s)
  BY ONLY <1>14, <1>d DEF Grows
<1>17. h \in [0..n -> Seq(S)]
  BY ONLY <1>1, h \in [0..n -> X]
<1>18. h[n] \in Distinct(S) /\ Range(h[n]) \subseteq Range(s) /\ \A k \in 0..n : Range(h[k]) \subseteq Range(h[n])
  BY ONLY <1>0, <1>16, <1>17, s \in Distinct(S), GrowsDistinct
<1>19. ASSUME NEW d \in Range(s) PROVE d \in Range(h[n]) \/ \E e \in Range(h[n]) : Alike(e, d)
  <2>1. PICK k \in 1..n : s[k] = d
    BY ONLY <1>0, <1>19, RangeIs
  <2>2. k - 1 \in 0..n /\ k \in 0..n
    BY ONLY k \in 1..n, n \in Nat
  <2>3. CASE Repeats(h[k - 1], s[k])
    BY ONLY <1>18, <2>1, <2>2, <2>3 DEF Repeats
  <2>4. CASE h[k] = Append(h[k - 1], s[k])
    <3>1. PICK t, b, x : t = h[k - 1] /\ b = h[k] /\ x = s[k]
      OBVIOUS
    <3>2. t \in Seq(S) /\ x \in S /\ b = Append(t, x)
      BY ONLY <1>0, <1>17, <2>2, <2>4, <3>1, k \in 1..n
    <3>3. b \in Seq(S) /\ Len(b) = Len(t) + 1 /\ b[Len(t) + 1] = x
      BY ONLY <3>2, Appended
    <3>4. Len(t) + 1 \in DOMAIN b
      BY ONLY <3>2, <3>3
    <3>5. x \in Range(b)
      BY ONLY <3>3, <3>4, RangeIs
    <3>6. Range(b) \subseteq Range(h[n])
      BY ONLY <1>18, <2>2, <3>1
    <3> QED
      BY ONLY <2>1, <3>1, <3>5, <3>6
  <2> QED
    BY ONLY <1>d, <2>3, <2>4, k \in 1..n
<1> QED
  BY ONLY <1>15, <1>18, <1>19 DEF KeptOrRepeated, Repeats

(* Fractions with positive terms, compared by cross multiplication. *)
Positive == Nat \ {0}

LEMMA Times ==
  ASSUME NEW a \in Nat, NEW b \in Nat, NEW c \in Positive
  PROVE  /\ a * c \in Nat
         /\ a > b => a * c > b * c
         /\ a = b => a * c = b * c
<1>1. c \in Nat /\ c > 0
  BY DEF Positive
<1>2. ASSUME a > b PROVE a * c > b * c
  <2>1. PICK d \in Nat : d = a - b /\ d > 0
    BY ONLY <1>2, a \in Nat, b \in Nat
  <2>2. a = b + d
    BY ONLY <2>1, a \in Nat, b \in Nat
  <2>3. a * c = b * c + d * c
    BY ONLY <1>1, <2>1, <2>2, a \in Nat, b \in Nat
  <2>4. d * c > 0 /\ d * c \in Nat /\ b * c \in Nat
    BY ONLY <1>1, <2>1, b \in Nat
  <2> QED
    BY ONLY <2>3, <2>4
<1>3. a * c \in Nat
  BY ONLY <1>1, a \in Nat
<1> QED
  BY ONLY <1>2, <1>3

LEMMA Cancels ==
  ASSUME NEW a \in Nat, NEW b \in Nat, NEW c \in Positive
  PROVE  (a * c > b * c => a > b) /\ (a * c = b * c => a = b)
<1>1. a * c \in Nat /\ b * c \in Nat /\ (a > b => a * c > b * c) /\ (b > a => b * c > a * c) /\ (a = b => a * c = b * c)
  BY Times
<1>2. a > b \/ b > a \/ a = b
  BY ONLY a \in Nat, b \in Nat
<1>3. PICK x, y : x = a * c /\ y = b * c
  OBVIOUS
<1>4. x \in Nat /\ y \in Nat /\ (a > b => x > y) /\ (b > a => y > x) /\ (a = b => x = y)
  BY ONLY <1>1, <1>3
<1>5. (x > y => a > b) /\ (x = y => a = b)
  BY ONLY <1>2, <1>4, a \in Nat, b \in Nat
<1> QED
  BY ONLY <1>3, <1>5

LEMMA Across ==
  ASSUME NEW p \in Positive, NEW q \in Positive, NEW r \in Positive, NEW s \in Positive, NEW t \in Positive, NEW u \in Positive
  PROVE  /\ p * s > r * q /\ r * u > t * s => p * u > t * q
         /\ p * s > r * q /\ r * u = t * s => p * u > t * q
         /\ p * s = r * q /\ r * u > t * s => p * u > t * q
         /\ p * s = r * q /\ r * u = t * s => p * u = t * q
<1>1. p \in Nat /\ q \in Nat /\ r \in Nat /\ s \in Nat /\ t \in Nat /\ u \in Nat
  BY DEF Positive
<1>2. PICK a, b, c, d, e, f : a = p * s /\ b = r * q /\ c = r * u /\ d = t * s /\ e = p * u /\ f = t * q
  OBVIOUS
<1>3. a \in Nat /\ b \in Nat /\ c \in Nat /\ d \in Nat /\ e \in Nat /\ f \in Nat
  BY ONLY <1>1, <1>2
<1>4. a * u = e * s /\ b * u = c * q /\ d * q = f * s
  BY ONLY <1>1, <1>2
<1>5. /\ (a > b => a * u > b * u) /\ (a = b => a * u = b * u)
      /\ (c > d => c * q > d * q) /\ (c = d => c * q = d * q)
      /\ a * u \in Nat /\ b * u \in Nat /\ c * q \in Nat /\ d * q \in Nat
  BY ONLY <1>3, u \in Positive, q \in Positive, Times
<1>6. (e * s > f * s => e > f) /\ (e * s = f * s => e = f)
  BY ONLY <1>3, s \in Positive, Cancels
<1>7. PICK x, y, z : x = a * u /\ y = b * u /\ z = d * q
  OBVIOUS
<1>8. /\ x \in Nat /\ y \in Nat /\ z \in Nat
      /\ (a > b => x > y) /\ (a = b => x = y) /\ (c > d => y > z) /\ (c = d => y = z)
      /\ (x > z => e > f) /\ (x = z => e = f)
  BY ONLY <1>4, <1>5, <1>6, <1>7
<1>9. /\ a > b /\ c > d => e > f
      /\ a > b /\ c = d => e > f
      /\ a = b /\ c > d => e > f
      /\ a = b /\ c = d => e = f
  BY ONLY <1>8
<1> QED
  BY ONLY <1>2, <1>9

LEMMA ByScoreIs ==
  ASSUME NEW sc, NEW i \in DOMAIN sc, NEW j \in DOMAIN sc
  PROVE  <<i, j>> \in ByScore(sc) <=> \/ sc[i][1] * sc[j][2] > sc[j][1] * sc[i][2]
                                      \/ sc[i][1] * sc[j][2] = sc[j][1] * sc[i][2] /\ i < j
BY ONLY i \in DOMAIN sc, j \in DOMAIN sc DEF ByScore

LEMMA ByScoreOrders ==
  ASSUME NEW n \in Nat, NEW sc, DOMAIN sc = 1..n, \A i \in 1..n : sc[i][1] \in Positive /\ sc[i][2] \in Positive
  PROVE  StrictOrder(ByScore(sc), 1..n)
<1>1. PICK R, p, q : R = ByScore(sc) /\ p = [i \in 1..n |-> sc[i][1]] /\ q = [i \in 1..n |-> sc[i][2]]
  OBVIOUS
<1>2. \A i \in 1..n : p[i] = sc[i][1] /\ q[i] = sc[i][2] /\ p[i] \in Positive /\ q[i] \in Positive /\ p[i] \in Nat /\ q[i] \in Nat
  BY <1>1 DEF Positive
<1>3. ASSUME NEW i \in 1..n, NEW j \in 1..n PROVE <<i, j>> \in R <=> p[i] * q[j] > p[j] * q[i] \/ (p[i] * q[j] = p[j] * q[i] /\ i < j)
  <2>1. <<i, j>> \in R <=> \/ sc[i][1] * sc[j][2] > sc[j][1] * sc[i][2]
                           \/ sc[i][1] * sc[j][2] = sc[j][1] * sc[i][2] /\ i < j
    BY ONLY <1>1, i \in 1..n, j \in 1..n, DOMAIN sc = 1..n, ByScoreIs
  <2> QED
    BY ONLY <1>2, <2>1, i \in 1..n, j \in 1..n
<1>4. ASSUME NEW i \in 1..n, NEW j \in 1..n PROVE i = j \/ <<i, j>> \in R \/ <<j, i>> \in R
  <2>1. PICK a, b : a = p[i] * q[j] /\ b = p[j] * q[i]
    OBVIOUS
  <2>2. a \in Nat /\ b \in Nat
    BY ONLY <1>2, <2>1, i \in 1..n, j \in 1..n
  <2>3. (<<i, j>> \in R <=> a > b \/ (a = b /\ i < j)) /\ (<<j, i>> \in R <=> b > a \/ (b = a /\ j < i))
    BY ONLY <1>3, <2>1, i \in 1..n, j \in 1..n
  <2>4. i \in Nat /\ j \in Nat
    BY ONLY i \in 1..n, j \in 1..n, n \in Nat
  <2> QED
    BY ONLY <2>2, <2>3, <2>4
<1>5. ASSUME NEW i \in 1..n, NEW j \in 1..n, NEW k \in 1..n, <<i, j>> \in R, <<j, k>> \in R PROVE <<i, k>> \in R
  <2>1. PICK a, b, c, d, e, f : a = p[i] * q[j] /\ b = p[j] * q[i] /\ c = p[j] * q[k] /\ d = p[k] * q[j] /\ e = p[i] * q[k] /\ f = p[k] * q[i]
    OBVIOUS
  <2>2. a > b \/ (a = b /\ i < j)
    BY ONLY <1>3, <1>5, <2>1
  <2>3. c > d \/ (c = d /\ j < k)
    BY ONLY <1>3, <1>5, <2>1
  <2>4. e > f \/ (e = f /\ i < k) => <<i, k>> \in R
    BY ONLY <1>3, <2>1, i \in 1..n, k \in 1..n
  <2>5. /\ a > b /\ c > d => e > f
        /\ a > b /\ c = d => e > f
        /\ a = b /\ c > d => e > f
        /\ a = b /\ c = d => e = f
    <3>1. PICK pi, qi, pj, qj, pk, qk : pi = p[i] /\ qi = q[i] /\ pj = p[j] /\ qj = q[j] /\ pk = p[k] /\ qk = q[k]
      OBVIOUS
    <3>2. pi \in Positive /\ qi \in Positive /\ pj \in Positive /\ qj \in Positive /\ pk \in Positive /\ qk \in Positive
      BY ONLY <1>2, <3>1, i \in 1..n, j \in 1..n, k \in 1..n
    <3>3. /\ pi * qj > pj * qi /\ pj * qk > pk * qj => pi * qk > pk * qi
          /\ pi * qj > pj * qi /\ pj * qk = pk * qj => pi * qk > pk * qi
          /\ pi * qj = pj * qi /\ pj * qk > pk * qj => pi * qk > pk * qi
          /\ pi * qj = pj * qi /\ pj * qk = pk * qj => pi * qk = pk * qi
      BY ONLY <3>2, Across
    <3> QED
      BY ONLY <2>1, <3>1, <3>3
  <2>6. i < j /\ j < k => i < k
    BY ONLY i \in 1..n, j \in 1..n, k \in 1..n, n \in Nat
  <2> QED
    BY ONLY <2>2, <2>3, <2>4, <2>5, <2>6
<1>6. ASSUME NEW i \in 1..n PROVE <<i, i>> \notin R
  <2>1. PICK a : a = p[i] * q[i]
    OBVIOUS
  <2>2. a \in Nat /\ i \in Nat
    BY ONLY <1>2, <2>1, i \in 1..n, n \in Nat
  <2>3. <<i, i>> \in R <=> a > a \/ (a = a /\ i < i)
    BY ONLY <1>3, <2>1, i \in 1..n
  <2> QED
    BY ONLY <2>2, <2>3
<1> QED
  BY ONLY <1>1, <1>4, <1>5, <1>6 DEF StrictOrder

LEMMA RankedAt ==
  ASSUME NEW s, NEW d \in Range(s)
  PROVE  RankIn(s, d) \in DOMAIN s
<1>1. \E i \in DOMAIN s : s[i] = d
  BY RangeIs
<1> QED
  BY ONLY <1>1 DEF RankIn

LEMMA ScoreIs ==
  ASSUME NEW S, NEW s \in Seq(S), NEW t \in Seq(S), NEW d \in Range(s) \cup Range(t)
  PROVE  RrfScore(s, t, d)[1] \in Positive /\ RrfScore(s, t, d)[2] \in Positive
<1>0. RrfK \in Nat /\ RrfK # 0
  BY RetrievalAssumption
<1>1. PICK a, b : /\ a = (IF d \in Range(s) THEN RrfK + RankIn(s, d) ELSE 0)
                  /\ b = (IF d \in Range(t) THEN RrfK + RankIn(t, d) ELSE 0)
  OBVIOUS
<1>2. a \in Nat /\ (d \in Range(s) => a # 0)
  <2>1. CASE d \in Range(s)
    <3>1. RankIn(s, d) \in DOMAIN s
      BY ONLY <2>1, RankedAt
    <3>2. RankIn(s, d) \in Nat
      BY ONLY <3>1, s \in Seq(S)
    <3> QED
      BY ONLY <1>0, <1>1, <2>1, <3>2
  <2> QED
    BY ONLY <1>1, <2>1
<1>3. b \in Nat /\ (d \in Range(t) => b # 0)
  <2>1. CASE d \in Range(t)
    <3>1. RankIn(t, d) \in DOMAIN t
      BY ONLY <2>1, RankedAt
    <3>2. RankIn(t, d) \in Nat
      BY ONLY <3>1, t \in Seq(S)
    <3> QED
      BY ONLY <1>0, <1>1, <2>1, <3>2
  <2> QED
    BY ONLY <1>1, <2>1
<1>4. RrfScore(s, t, d) = CASE a = 0 -> <<1, b>> [] b = 0 -> <<1, a>> [] OTHER -> <<a + b, a * b>>
  BY ONLY <1>1 DEF RrfScore
<1>5. CASE a = 0
  <2>1. b # 0
    BY ONLY <1>2, <1>3, <1>5, d \in Range(s) \cup Range(t)
  <2>2. b = 0 \/ RrfScore(s, t, d) = <<1, b>>
    BY ONLY <1>4, <1>5, <2>1
  <2> QED
    BY ONLY <1>3, <2>1, <2>2 DEF Positive
<1>6. CASE a # 0 /\ b = 0
  <2>1. RrfScore(s, t, d) = <<1, a>>
    BY ONLY <1>4, <1>6
  <2> QED
    BY ONLY <1>2, <1>6, <2>1 DEF Positive
<1>7. CASE a # 0 /\ b # 0
  <2>1. RrfScore(s, t, d) = <<a + b, a * b>>
    BY ONLY <1>4, <1>7
  <2>2. a + b \in Nat /\ a + b # 0 /\ a * b \in Nat /\ a * b # 0
    BY ONLY <1>2, <1>3, <1>7
  <2> QED
    BY ONLY <2>1, <2>2 DEF Positive
<1> QED
  BY ONLY <1>5, <1>6, <1>7

LEMMA RrfIs ==
  ASSUME NEW S, NEW s \in Distinct(S), NEW t \in Distinct(S), NEW n \in Nat, NEW r, r = RrfCombine(s, t, n)
  PROVE  r \in Distinct(S) /\ Len(r) <= n
<1>1. PICK w, met : w = Without(t, Range(s)) /\ met = s \o w
  OBVIOUS
<1>2. w \in Distinct(S) /\ Range(w) \subseteq Range(t) /\ Apart(s, w)
  <2>1. w \in Distinct(S) /\ Range(w) \subseteq Range(t) /\ Range(w) \cap Range(s) = {}
    BY ONLY <1>1, t \in Distinct(S), WithoutIs
  <2> QED
    BY ONLY <2>1 DEF Apart
<1>3. met \in Distinct(S) /\ Range(met) = Range(s) \cup Range(w)
  <2>1. met = s \o w
    BY ONLY <1>1
  <2>2. w \in Distinct(S) /\ Apart(s, w)
    BY ONLY <1>2
  <2>3. met \in Distinct(S) /\ Range(met) = Range(s) \cup Range(w)
    <3>1. Joins(met, s, w)
      BY ONLY <2>1 DEF Joins
    <3>2. met \in Distinct(S) /\ AsMuch(met, s, w)
      BY ONLY <2>2, <3>1, s \in Distinct(S), JoinDistinct
    <3> QED
      BY ONLY <3>2 DEF AsMuch
  <2> QED
    BY ONLY <2>3
<1>4. met \in Seq(S) /\ s \in Seq(S) /\ t \in Seq(S) /\ \A i, j \in DOMAIN met : met[i] = met[j] => i = j
  BY ONLY <1>3, s \in Distinct(S), t \in Distinct(S), DistinctIs
<1>5. PICK m \in Nat : m = Len(met) /\ DOMAIN met = 1..m /\ \A i \in 1..m : met[i] \in S
  BY ONLY <1>4
<1>6. PICK sc, R : sc = [i \in 1..m |-> RrfScore(s, t, met[i])] /\ R = ByScore(sc)
  OBVIOUS
<1>7. \A i \in 1..m : sc[i][1] \in Positive /\ sc[i][2] \in Positive
  <2> SUFFICES ASSUME NEW i \in 1..m PROVE sc[i][1] \in Positive /\ sc[i][2] \in Positive
    OBVIOUS
  <2>1. met[i] \in Range(met)
    BY ONLY <1>5, i \in 1..m, RangeIs
  <2>2. PICK d : d = met[i]
    OBVIOUS
  <2>3. d \in Range(s) \cup Range(t)
    BY ONLY <1>2, <1>3, <2>1, <2>2
  <2>4. RrfScore(s, t, d)[1] \in Positive /\ RrfScore(s, t, d)[2] \in Positive
    BY ONLY <1>4, <2>3, ScoreIs
  <2>5. sc[i] = RrfScore(s, t, d)
    BY ONLY <1>6, <2>2, i \in 1..m
  <2> QED
    BY ONLY <2>4, <2>5
<1>8. DOMAIN sc = 1..m
  BY ONLY <1>6
<1>9. StrictOrder(R, 1..m)
  BY ONLY <1>6, <1>7, <1>8, m \in Nat, ByScoreOrders
<1>10. IsFiniteSet(1..m) /\ Cardinality(1..m) = m
  BY ONLY m \in Nat, FS_Interval
<1>11. PICK I, o : I = 1..m /\ o = Sorted(I, R)
  OBVIOUS
<1>12. IsFiniteSet(I) /\ StrictOrder(R, I) /\ Cardinality(I) = m
  BY ONLY <1>9, <1>10, <1>11
<1>13. o \in [1..Cardinality(I) -> I] /\ \A i, j \in 1..Cardinality(I) : o[i] = o[j] => i = j
  BY ONLY <1>11, <1>12, SortedIs
<1>14. o \in [1..m -> 1..m] /\ \A i, j \in 1..m : o[i] = o[j] => i = j
  BY ONLY <1>11, <1>12, <1>13
<1>15. PICK c : c = [k \in 1..m |-> met[o[k]]]
  OBVIOUS
<1>16. c \in [1..m -> S] /\ \A i, j \in 1..m : c[i] = c[j] => i = j
  <2>1. \A k \in 1..m : o[k] \in 1..m /\ c[k] = met[o[k]]
    BY ONLY <1>14, <1>15
  <2>2. c \in [1..m -> S]
    BY ONLY <1>5, <1>14, <1>15
  <2>3. ASSUME NEW i \in 1..m, NEW j \in 1..m, c[i] = c[j] PROVE i = j
    <3>1. o[i] \in DOMAIN met /\ o[j] \in DOMAIN met /\ met[o[i]] = met[o[j]]
      BY ONLY <1>5, <2>1, <2>3
    <3>2. o[i] = o[j]
      BY ONLY <1>4, <3>1
    <3> QED
      BY ONLY <1>14, <2>3, <3>2
  <2> QED
    BY ONLY <2>2, <2>3
<1>17. c \in Seq(S) /\ DOMAIN c = 1..m
  BY ONLY <1>16, m \in Nat
<1>18. c \in Distinct(S)
  BY ONLY <1>16, <1>17, DistinctIs
<1>19. r = Cut(c, n)
  <2>1. PICK D, sd : D = DOMAIN met /\ sd = [i \in DOMAIN met |-> RrfScore(s, t, met[i])]
    OBVIOUS
  <2>2. r = Cut([k \in D |-> met[Sorted(D, ByScore(sd))[k]]], n)
    BY ONLY <1>1, <2>1, r = RrfCombine(s, t, n) DEF RrfCombine
  <2>3. D = 1..m /\ sd = sc
    BY ONLY <1>5, <1>6, <2>1
  <2>4. Sorted(D, ByScore(sd)) = o
    BY ONLY <1>6, <1>11, <2>3
  <2>5. r = Cut([k \in D |-> met[o[k]]], n)
    BY ONLY <2>2, <2>4
  <2> QED
    BY ONLY <1>15, <2>3, <2>5
<1> QED
  BY ONLY <1>18, <1>19, n \in Nat, CutDistinct

LEMMA PermutedIs ==
  ASSUME NEW S, NEW rest \in Distinct(S), NEW n \in Nat, n <= Len(rest), NEW c \in Permuted(rest, n)
  PROVE  c \in Distinct(S) /\ Range(c) \subseteq Range(rest)
<1>1. rest \in Seq(S) /\ \A i, j \in DOMAIN rest : rest[i] = rest[j] => i = j
  BY DistinctIs
<1>2. PICK m \in Nat : m = Len(rest) /\ DOMAIN rest = 1..m /\ \A i \in 1..m : rest[i] \in S
  BY ONLY <1>1
<1>3. PICK p \in [1..n -> 1..n] : IsInjective(p) /\ c = [i \in DOMAIN rest |-> IF i <= n THEN rest[p[i]] ELSE rest[i]]
  BY ONLY c \in Permuted(rest, n) DEF Permuted
<1>4. \A i, j \in 1..n : p[i] = p[j] => i = j
  BY ONLY <1>3, p \in [1..n -> 1..n] DEF IsInjective
<1>5. PICK q : q = [i \in 1..m |-> IF i <= n THEN p[i] ELSE i]
  OBVIOUS
<1>6. ASSUME NEW i \in 1..m PROVE (i \in 1..n /\ q[i] = p[i] /\ q[i] \in 1..n) \/ (i \notin 1..n /\ q[i] = i)
  BY ONLY <1>2, <1>5, i \in 1..m, n \in Nat, p \in [1..n -> 1..n]
<1>7. \A i \in 1..m : q[i] \in 1..m
  <2>1. \A i \in 1..n : i \in 1..m
    BY ONLY <1>2, n \in Nat, n <= Len(rest)
  <2> QED
    BY ONLY <1>6, <2>1
<1>8. \A i, j \in 1..m : q[i] = q[j] => i = j
  BY ONLY <1>4, <1>6
<1>9. \A i \in 1..m : c[i] = rest[q[i]]
  BY ONLY <1>2, <1>3, <1>5
<1>10. DOMAIN c = 1..m /\ c = [i \in 1..m |-> c[i]]
  BY ONLY <1>2, <1>3
<1>11. c \in [1..m -> S]
  <2>1. \A i \in 1..m : c[i] \in S
    BY ONLY <1>2, <1>7, <1>9
  <2> QED
    BY ONLY <1>10, <2>1
<1>12. \A i, j \in 1..m : c[i] = c[j] => i = j
  BY ONLY <1>1, <1>2, <1>7, <1>8, <1>9
<1>13. c \in Seq(S)
  BY ONLY <1>11, m \in Nat
<1>14. c \in Distinct(S)
  BY ONLY <1>10, <1>12, <1>13, DistinctIs
<1>15. Range(c) \subseteq Range(rest)
  BY ONLY <1>2, <1>7, <1>9, <1>10 DEF Range
<1> QED
  BY ONLY <1>14, <1>15

LEMMA SpecificityIs == ASSUME NEW d, NEW labels PROVE MatchSpecificity(d, labels) \in Nat
<1>1. Weight("framework") \in Nat /\ Weight("security") \in Nat /\ Weight("lang") \in Nat /\ Weight("default") \in Nat
  BY DEF Weight
<1> QED
  BY ONLY <1>1 DEF MatchSpecificity

HasTier(cands, tier) == \E i \in DOMAIN cands : PriorityTier(cands[i]) = tier

LEMMA LexTransitive ==
  ASSUME NEW s1 \in Nat, NEW s2 \in Nat, NEW s3 \in Nat, NEW g1 \in Nat, NEW g2 \in Nat, NEW g3 \in Nat,
         NEW n1 \in Nat, NEW n2 \in Nat, NEW n3 \in Nat,
         s1 > s2 \/ (s1 = s2 /\ g1 < g2) \/ (s1 = s2 /\ g1 = g2 /\ n1 < n2),
         s2 > s3 \/ (s2 = s3 /\ g2 < g3) \/ (s2 = s3 /\ g2 = g3 /\ n2 < n3)
  PROVE  s1 > s3 \/ (s1 = s3 /\ g1 < g3) \/ (s1 = s3 /\ g1 = g3 /\ n1 < n3)
  OBVIOUS

LEMMA FloorPickIs ==
  ASSUME NEW S, \A d \in S : d.age \in Nat, NEW cands \in Seq(S), NEW tier, NEW labels, NEW best, best = FloorPick(cands, tier, labels)
  PROVE  /\ \A i \in best : i \in DOMAIN cands /\ PriorityTier(cands[i]) = tier
         /\ HasTier(cands, tier) => best # {}
<1>1. PICK T, sp, ag : /\ T = {i \in DOMAIN cands : PriorityTier(cands[i]) = tier}
                       /\ sp = [i \in T |-> MatchSpecificity(cands[i], labels)] /\ ag = [i \in T |-> cands[i].age]
  OBVIOUS
<1>2. PICK R : R = {x \in T \X T : \/ sp[x[1]] > sp[x[2]]
                                   \/ sp[x[1]] = sp[x[2]] /\ ag[x[1]] < ag[x[2]]
                                   \/ sp[x[1]] = sp[x[2]] /\ ag[x[1]] = ag[x[2]] /\ x[1] < x[2]}
  OBVIOUS
<1>3. ASSUME NEW i \in T, NEW j \in T
      PROVE  <<i, j>> \in R <=> sp[i] > sp[j] \/ (sp[i] = sp[j] /\ ag[i] < ag[j]) \/ (sp[i] = sp[j] /\ ag[i] = ag[j] /\ i < j)
  BY ONLY <1>2, <1>3
<1>4. ASSUME NEW i \in T PROVE sp[i] \in Nat /\ ag[i] \in Nat /\ i \in Nat /\ i \in DOMAIN cands
  <2>1. i \in DOMAIN cands /\ i \in Nat
    BY ONLY <1>1, <1>4, cands \in Seq(S)
  <2>2. cands[i] \in S
    BY ONLY <2>1, cands \in Seq(S)
  <2>3. cands[i].age \in Nat
    BY ONLY <2>2, \A d \in S : d.age \in Nat
  <2>4. MatchSpecificity(cands[i], labels) \in Nat
    BY ONLY SpecificityIs
  <2> QED
    BY ONLY <1>1, <1>4, <2>1, <2>3, <2>4
<1>5. StrictOrder(R, T)
  <2>1. ASSUME NEW i \in T, NEW j \in T PROVE i = j \/ <<i, j>> \in R \/ <<j, i>> \in R
    <3>1. sp[i] \in Nat /\ ag[i] \in Nat /\ i \in Nat /\ sp[j] \in Nat /\ ag[j] \in Nat /\ j \in Nat
      BY ONLY <1>4, <2>1
    <3> QED
      BY ONLY <1>3, <2>1, <3>1
  <2>2. ASSUME NEW i \in T, NEW j \in T, NEW k \in T, <<i, j>> \in R, <<j, k>> \in R PROVE <<i, k>> \in R
    <3>1. sp[i] \in Nat /\ ag[i] \in Nat /\ i \in Nat /\ sp[j] \in Nat /\ ag[j] \in Nat /\ j \in Nat /\ sp[k] \in Nat /\ ag[k] \in Nat /\ k \in Nat
      BY ONLY <1>4, <2>2
    <3>2. sp[i] > sp[j] \/ (sp[i] = sp[j] /\ ag[i] < ag[j]) \/ (sp[i] = sp[j] /\ ag[i] = ag[j] /\ i < j)
      BY ONLY <1>3, <2>2
    <3>3. sp[j] > sp[k] \/ (sp[j] = sp[k] /\ ag[j] < ag[k]) \/ (sp[j] = sp[k] /\ ag[j] = ag[k] /\ j < k)
      BY ONLY <1>3, <2>2
    <3>4. sp[i] > sp[k] \/ (sp[i] = sp[k] /\ ag[i] < ag[k]) \/ (sp[i] = sp[k] /\ ag[i] = ag[k] /\ i < k)
      BY ONLY <3>1, <3>2, <3>3, LexTransitive
    <3> QED
      BY ONLY <1>3, <3>4, i \in T, k \in T
  <2>3. ASSUME NEW i \in T PROVE <<i, i>> \notin R
    <3>1. sp[i] \in Nat /\ ag[i] \in Nat /\ i \in Nat
      BY ONLY <1>4, <2>3
    <3> QED
      BY ONLY <1>3, <2>3, <3>1
  <2> QED
    BY ONLY <2>1, <2>2, <2>3 DEF StrictOrder
<1>6. IsFiniteSet(T)
  <2>1. IsFiniteSet(DOMAIN cands)
    <3>1. DOMAIN cands = 1..Len(cands) /\ Len(cands) \in Nat
      BY ONLY cands \in Seq(S)
    <3> QED
      BY ONLY <3>1, FS_Interval
  <2> QED
    BY ONLY <1>1, <2>1, FS_Subset
<1>7. best = {i \in T : \A j \in T \ {i} : <<i, j>> \in R}
  <2>1. ASSUME NEW i \in T, NEW j \in T
        PROVE  <<i, j>> \in R <=> \/ MatchSpecificity(cands[i], labels) > MatchSpecificity(cands[j], labels)
                                  \/ /\ MatchSpecificity(cands[i], labels) = MatchSpecificity(cands[j], labels)
                                     /\ cands[i].age < cands[j].age
                                  \/ /\ MatchSpecificity(cands[i], labels) = MatchSpecificity(cands[j], labels)
                                     /\ cands[i].age = cands[j].age /\ i < j
    <3>1. sp[i] = MatchSpecificity(cands[i], labels) /\ sp[j] = MatchSpecificity(cands[j], labels) /\ ag[i] = cands[i].age /\ ag[j] = cands[j].age
      BY ONLY <1>1, <2>1
    <3> QED
      BY ONLY <1>3, <2>1, <3>1
  <2>2. best = {i \in T : \A j \in T \ {i} :
                 \/ MatchSpecificity(cands[i], labels) > MatchSpecificity(cands[j], labels)
                 \/ /\ MatchSpecificity(cands[i], labels) = MatchSpecificity(cands[j], labels)
                    /\ cands[i].age < cands[j].age
                 \/ /\ MatchSpecificity(cands[i], labels) = MatchSpecificity(cands[j], labels)
                    /\ cands[i].age = cands[j].age /\ i < j}
    BY ONLY <1>1, best = FloorPick(cands, tier, labels) DEF FloorPick
  <2> QED
    BY ONLY <2>1, <2>2
<1>8. ASSUME HasTier(cands, tier) PROVE best # {}
  <2>1. T # {}
    BY ONLY <1>1, <1>8 DEF HasTier
  <2>2. PICK i \in T : \A j \in T \ {i} : <<i, j>> \in R
    BY ONLY <1>5, <1>6, <2>1, FirstBy
  <2> QED
    BY ONLY <1>7, <2>2
<1>9. ASSUME NEW i \in best PROVE i \in DOMAIN cands /\ PriorityTier(cands[i]) = tier
  BY ONLY <1>1, <1>7, <1>9
<1> QED
  BY ONLY <1>8, <1>9

Floor(a, b, c) == [selected |-> a, starved |-> b, budget |-> c]

(* One tier's floor: its pick is reserved, or the tier is starved. *)
LEMMA AddFloorIs ==
  ASSUME NEW S, \A d \in S : d.age \in Nat, NEW cands \in Seq(S), NEW tier, NEW labels, NEW a, NEW b, NEW c,
         NEW r, r = AddFloor(Floor(a, b, c), tier, cands, labels)
  PROVE  \/ r = Floor(a, b, c) /\ ~HasTier(cands, tier)
         \/ r = Floor(a, b \cup {tier}, c)
         \/ \E i \in DOMAIN cands : \E z : PriorityTier(cands[i]) = tier /\ r = Floor(Append(a, cands[i]), b, z)
<1>1. PICK best, i : best = FloorPick(cands, tier, labels) /\ i = CHOOSE j \in best : TRUE
  OBVIOUS
<1>2. /\ \A j \in best : j \in DOMAIN cands /\ PriorityTier(cands[j]) = tier
      /\ HasTier(cands, tier) => best # {}
  BY ONLY <1>1, \A d \in S : d.age \in Nat, cands \in Seq(S), FloorPickIs
<1>3. PICK acc : acc = Floor(a, b, c)
  OBVIOUS
<1>4. acc.selected = a /\ acc.starved = b /\ acc.budget = c
  BY ONLY <1>3 DEF Floor
<1>5. r = IF best = {} THEN acc
          ELSE IF cands[i].size > acc.budget THEN [acc EXCEPT !.starved = @ \cup {tier}]
          ELSE [acc EXCEPT !.selected = Append(@, cands[i]), !.budget = @ - cands[i].size]
  BY ONLY <1>1, <1>3, r = AddFloor(Floor(a, b, c), tier, cands, labels) DEF AddFloor
<1>6. CASE best = {}
  BY ONLY <1>2, <1>3, <1>5, <1>6
<1>7. CASE best # {} /\ cands[i].size > acc.budget
  <2>1. r = [acc EXCEPT !.starved = acc.starved \cup {tier}]
    BY ONLY <1>5, <1>7
  <2>2. r = Floor(a, b \cup {tier}, c)
    BY ONLY <1>3, <1>4, <2>1 DEF Floor
  <2> QED
    BY ONLY <2>2
<1>8. CASE best # {} /\ ~(cands[i].size > acc.budget)
  <2>1. r = [acc EXCEPT !.selected = Append(acc.selected, cands[i]), !.budget = acc.budget - cands[i].size]
    BY ONLY <1>5, <1>8
  <2>2. r = Floor(Append(a, cands[i]), b, c - cands[i].size)
    BY ONLY <1>3, <1>4, <2>1 DEF Floor
  <2>3. i \in best
    BY ONLY <1>1, <1>8
  <2>4. i \in DOMAIN cands /\ PriorityTier(cands[i]) = tier
    BY ONLY <1>2, <2>3
  <2> QED
    BY ONLY <2>2, <2>4
<1> QED
  BY ONLY <1>6, <1>7, <1>8

(* Of the policies a policy leads, or the tier is starved. *)
Leads(sel, starved, cands) == HasTier(cands, 1) => 1 \in starved \/ (sel # <<>> /\ PriorityTier(sel[1]) = 1)

Reserved(a, S, cands) == a \in Distinct(S) /\ Range(a) \subseteq Range(cands)
AllOfTier(a, t) == \A x \in Range(a) : PriorityTier(x) = t

LEMMA OneDistinct ==
  ASSUME NEW S, NEW t, t = <<>>
  PROVE  t \in Distinct(S) /\ Range(t) = {}
<1>1. t \in Seq(S) /\ DOMAIN t = {}
  OBVIOUS
<1>2. t \in Distinct(S)
  BY ONLY <1>1, DistinctIs
<1>3. Range(t) = {}
  BY ONLY <1>1 DEF Range
<1> QED
  BY ONLY <1>2, <1>3

LEMMA StartsAppend ==
  ASSUME NEW S, NEW t \in Seq(S), NEW x \in S, NEW c, c = Append(t, x)
  PROVE  /\ c # <<>> /\ (t = <<>> => c[1] = x) /\ (t # <<>> => c[1] = t[1])
<1>1. c \in Seq(S) /\ Len(c) = Len(t) + 1 /\ (\A k \in 1..Len(t) : c[k] = t[k]) /\ c[Len(t) + 1] = x
  BY Appended
<1>2. Len(t) \in Nat
  OBVIOUS
<1>3. c # <<>>
  BY ONLY <1>1, <1>2
<1>4. ASSUME t = <<>> PROVE c[1] = x
  <2>1. Len(t) = 0
    BY ONLY <1>4
  <2> QED
    BY ONLY <1>1, <2>1
<1>5. ASSUME t # <<>> PROVE c[1] = t[1]
  <2>1. 1 \in 1..Len(t)
    BY <1>2, <1>5
  <2> QED
    BY ONLY <1>1, <2>1
<1> QED
  BY ONLY <1>3, <1>4, <1>5

(* reservePriorityFloors: chunks of the candidates, each once, a policy first *)
(* of all when there is one and its tier is not starved.                      *)
LEMMA FloorsAre ==
  ASSUME NEW S, \A d \in S : d.age \in Nat, NEW cands \in Seq(S), NEW labels, NEW fl, fl = ReserveFloors(cands, labels)
  PROVE  Reserved(fl.selected, S, cands) /\ Leads(fl.selected, fl.starved, cands) /\ fl.starved \in SUBSET {1, 2}
<1> DEFINE f0 == Floor(<<>>, {}, TokenBudget)
           f1 == AddFloor(f0, 1, cands, labels)
<1>1. fl = AddFloor(f1, 2, cands, labels)
  BY fl = ReserveFloors(cands, labels) DEF ReserveFloors, Floor
<1>2. ASSUME NEW i \in DOMAIN cands PROVE cands[i] \in S /\ cands[i] \in Range(cands)
  <2>1. cands[i] \in S
    BY <1>2
  <2> QED
    BY ONLY <2>1, <1>2, RangeIs
<1>3. PICK a, b, c : /\ f1 = Floor(a, b, c) /\ Reserved(a, S, cands) /\ AllOfTier(a, 1) /\ Leads(a, b, cands) /\ b \in SUBSET {1}
  <2>1. PICK e, r : e = <<>> /\ r = f1
    OBVIOUS
  <2>2. r = AddFloor(Floor(e, {}, TokenBudget), 1, cands, labels)
    BY ONLY <2>1
  <2>3. e \in Distinct(S) /\ Range(e) = {}
    BY ONLY <2>1, OneDistinct
  <2>4. Reserved(e, S, cands) /\ AllOfTier(e, 1)
    BY ONLY <2>3 DEF Reserved, AllOfTier
  <2>5. \/ r = Floor(e, {}, TokenBudget) /\ ~HasTier(cands, 1)
        \/ r = Floor(e, {} \cup {1}, TokenBudget)
        \/ \E i \in DOMAIN cands : \E z : PriorityTier(cands[i]) = 1 /\ r = Floor(Append(e, cands[i]), {}, z)
    BY ONLY <2>2, \A d \in S : d.age \in Nat, cands \in Seq(S), AddFloorIs
  <2>6. CASE r = Floor(e, {}, TokenBudget) /\ ~HasTier(cands, 1)
    <3>1. Leads(e, {}, cands)
      BY ONLY <2>6 DEF Leads
    <3>2. {} \in SUBSET {1}
      OBVIOUS
    <3> QED
      BY ONLY <2>1, <2>4, <2>6, <3>1, <3>2
  <2>7. CASE r = Floor(e, {} \cup {1}, TokenBudget)
    <3>1. Leads(e, {} \cup {1}, cands)
      BY ONLY 1 \in {} \cup {1} DEF Leads
    <3>2. {} \cup {1} \in SUBSET {1}
      OBVIOUS
    <3> QED
      BY ONLY <2>1, <2>4, <2>7, <3>1, <3>2
  <2>8. CASE \E i \in DOMAIN cands : \E z : PriorityTier(cands[i]) = 1 /\ r = Floor(Append(e, cands[i]), {}, z)
    <3>1. PICK i, z : i \in DOMAIN cands /\ PriorityTier(cands[i]) = 1 /\ r = Floor(Append(e, cands[i]), {}, z)
      BY ONLY <2>8
    <3>2. PICK x, t : x = cands[i] /\ t = Append(e, x)
      OBVIOUS
    <3>3. x \in S /\ x \in Range(cands) /\ PriorityTier(x) = 1 /\ r = Floor(t, {}, z)
      BY ONLY <1>2, <3>1, <3>2
    <3>4. x \notin Range(e)
      BY ONLY <2>3
    <3>5. t \in Distinct(S) /\ Range(t) = Range(e) \cup {x}
      <4>1. e \in Distinct(S) /\ x \in S /\ x \notin Range(e) /\ Appends(t, e, x)
        BY ONLY <2>3, <3>2, <3>3, <3>4 DEF Appends
      <4>2. t \in Distinct(S) /\ Gains(t, e, x)
        BY ONLY <4>1, AppendDistinct
      <4> QED
        BY ONLY <4>2 DEF Gains
    <3>6. e \in Seq(S)
      BY ONLY <2>3, DistinctIs
    <3>7. t # <<>> /\ t[1] = x
      BY ONLY <2>1, <3>2, <3>3, <3>6, StartsAppend
    <3>8. Range(t) \subseteq Range(cands) /\ \A y \in Range(t) : y = x
      BY ONLY <2>3, <3>3, <3>5
    <3>9. Reserved(t, S, cands) /\ AllOfTier(t, 1)
      BY ONLY <3>3, <3>5, <3>8 DEF Reserved, AllOfTier
    <3>10. Leads(t, {}, cands)
      BY ONLY <3>3, <3>7 DEF Leads
    <3>11. {} \in SUBSET {1}
      OBVIOUS
    <3> QED
      BY ONLY <2>1, <3>3, <3>9, <3>10, <3>11
  <2> QED
    BY ONLY <2>5, <2>6, <2>7, <2>8
<1>4. fl = AddFloor(Floor(a, b, c), 2, cands, labels)
  BY ONLY <1>1, <1>3
<1>5. \/ fl = Floor(a, b, c)
      \/ fl = Floor(a, b \cup {2}, c)
      \/ \E i \in DOMAIN cands : \E z : PriorityTier(cands[i]) = 2 /\ fl = Floor(Append(a, cands[i]), b, z)
  BY ONLY <1>4, \A d \in S : d.age \in Nat, cands \in Seq(S), AddFloorIs
<1>6. ASSUME NEW u, NEW v, NEW z, fl = Floor(u, v, z) PROVE fl.selected = u /\ fl.starved = v
  BY ONLY <1>6 DEF Floor
<1>7. CASE fl = Floor(a, b, c)
  <2>1. fl.selected = a /\ fl.starved = b
    BY ONLY <1>6, <1>7
  <2>2. b \in SUBSET {1, 2}
    BY ONLY <1>3
  <2> QED
    BY ONLY <1>3, <2>1, <2>2
<1>8. CASE fl = Floor(a, b \cup {2}, c)
  <2>1. fl.selected = a /\ fl.starved = b \cup {2}
    BY ONLY <1>6, <1>8
  <2>2. Leads(a, b \cup {2}, cands)
    BY ONLY <1>3 DEF Leads
  <2>3. b \cup {2} \in SUBSET {1, 2}
    BY ONLY <1>3
  <2> QED
    BY ONLY <1>3, <2>1, <2>2, <2>3
<1>9. CASE \E i \in DOMAIN cands : \E z : PriorityTier(cands[i]) = 2 /\ fl = Floor(Append(a, cands[i]), b, z)
  <2>1. PICK i, z : i \in DOMAIN cands /\ PriorityTier(cands[i]) = 2 /\ fl = Floor(Append(a, cands[i]), b, z)
    BY ONLY <1>9
  <2>2. PICK x, t : x = cands[i] /\ t = Append(a, x)
    OBVIOUS
  <2>3. x \in S /\ x \in Range(cands) /\ PriorityTier(x) = 2 /\ fl = Floor(t, b, z)
    BY ONLY <1>2, <2>1, <2>2
  <2>4. fl.selected = t /\ fl.starved = b
    BY ONLY <1>6, <2>3
  <2>5. a \in Distinct(S) /\ Range(a) \subseteq Range(cands)
    BY ONLY <1>3 DEF Reserved
  <2>6. x \notin Range(a)
    BY ONLY <1>3, <2>3 DEF AllOfTier
  <2>7. t \in Distinct(S) /\ Range(t) = Range(a) \cup {x}
    <3>1. a \in Distinct(S) /\ x \in S /\ x \notin Range(a) /\ Appends(t, a, x)
      BY ONLY <2>2, <2>3, <2>5, <2>6 DEF Appends
    <3>2. t \in Distinct(S) /\ Gains(t, a, x)
      BY ONLY <3>1, AppendDistinct
    <3> QED
      BY ONLY <3>2 DEF Gains
  <2>8. Range(t) \subseteq Range(cands)
    BY ONLY <2>3, <2>5, <2>7
  <2>9. Reserved(t, S, cands)
    BY ONLY <2>7, <2>8 DEF Reserved
  <2>10. a \in Seq(S)
    BY ONLY <2>5, DistinctIs
  <2>11. t # <<>> /\ (a # <<>> => t[1] = a[1])
    BY ONLY <2>2, <2>3, <2>10, StartsAppend
  <2>12. Leads(t, b, cands)
    BY ONLY <1>3, <2>11 DEF Leads
  <2>13. b \in SUBSET {1, 2}
    BY ONLY <1>3
  <2> QED
    BY ONLY <2>4, <2>9, <2>12, <2>13
<1> QED
  BY ONLY <1>5, <1>7, <1>8, <1>9

-----------------------------------------------------------------------------
(* What a query may be shown: the repository's chunks, and those of the wiki  *)
(* that carry one of its labels.                                              *)
Seen(labels) == {d \in WikiTexts : d.labels \cap labels # {}}
Shown(labels) == RepoTexts \cup Seen(labels)
AllTexts == RepoTexts \cup WikiTexts

Answers(S) == [got : BOOLEAN, hits : Distinct(S), bad : BOOLEAN]
Queries ==
  [at : {"idle", "resolve", "search", "rerank", "done", "failed"}, hybrid : BOOLEAN, vector : BOOLEAN,
   labels : SUBSET Exposed, who : {"identity", "bedrock", "llm"}, bm25 : Answers(RepoTexts), ann : Answers(RepoTexts),
   wiki : Answers(WikiTexts), starved : SUBSET {1, 2}, lead : Distinct(AllTexts), rest : Distinct(AllTexts),
   items : Distinct(AllTexts), bad : BOOLEAN]

Composes(a) == a.hybrid /\ a.labels # {} /\ a.vector

(* A policy among the wiki's hits; and what becomes of one.                   *)
HasPolicy(hits) == \E d \in Range(hits) : PriorityTier(d) = 1
OnlyRepeats(hits) ==
  \A d \in Range(hits) : PriorityTier(d) = 1 =>
    \E e \in RepoTexts \cup Range(hits) : PriorityTier(e) # 1 /\ Alike(e, d)
Opens(s) == s # <<>> /\ PriorityTier(s[1]) = 1
PolicyFirst(s, hits, starved) == HasPolicy(hits) => Opens(s) \/ 1 \in starved \/ OnlyRepeats(hits)

(* A search that fails is one that was asked: without a vector, or composed.  *)
SearchesHonest(a) ==
  /\ a.wiki.hits \in Distinct(Seen(a.labels))
  /\ a.ann.bad => ~ a.vector
  /\ a.wiki.bad => Composes(a)

Degraded(a) == a.ann.bad \/ a.wiki.bad => a.bad

RankedHonest(a) ==
  /\ a.rest \in Distinct(Shown(a.labels)) /\ Degraded(a)
  /\ Composes(a) => /\ a.lead \in Distinct(Shown(a.labels)) /\ Apart(a.lead, a.rest)
                    /\ PolicyFirst(a.lead, a.wiki.hits, a.starved)

DoneHonest(a) ==
  /\ a.items \in Distinct(Shown(a.labels)) /\ Len(a.items) <= AskFor /\ Degraded(a)
  /\ Composes(a) => PolicyFirst(a.items, a.wiki.hits, a.starved)

QueryOk(a) ==
  /\ a \in Queries /\ SearchesHonest(a)
  /\ a.at = "rerank" => RankedHonest(a)
  /\ a.at = "done" => DoneHonest(a)

AskInv == QueryOk(ask)

(* The snapshot and what every search has read of the row are of the present  *)
(* version, or the row has moved since they were read.                        *)
CacheInv ==
  /\ row \in [version : Nat, moved : Nat] /\ now \in Nat
  /\ snap \in [version : Nat, at : Nat, took : Nat]
  /\ search \in [Searchers -> [at : {"idle", "read", "adopt"}, read : Nat, since : Nat]]
  /\ row.moved <= now /\ snap.at <= now /\ snap.took <= snap.at
  /\ snap.version # 0 /\ snap.version # row.version => snap.at <= row.moved + snap.took
  /\ \A s \in Searchers : search[s].at = "adopt" =>
       search[s].since <= now /\ (search[s].read # row.version => search[s].since <= row.moved)
LEMMA Widens ==
  ASSUME NEW S, NEW T, S \subseteq T, NEW s \in Distinct(S)
  PROVE  s \in Distinct(T) /\ Range(s) \subseteq S
<1>1. s \in Seq(S) /\ \A i, j \in DOMAIN s : s[i] = s[j] => i = j
  BY DistinctIs
<1>2. s \in Seq(T)
  BY ONLY <1>1, S \subseteq T
<1>3. Range(s) \subseteq S
  BY ONLY <1>1 DEF Range
<1>4. s \in Distinct(T)
  BY ONLY <1>1, <1>2, DistinctIs
<1> QED
  BY ONLY <1>3, <1>4

(* Chunks of the repository and chunks of the wiki are not the same.          *)
LEMMA SourcesApart ==
  ASSUME NEW s \in Distinct(RepoTexts), NEW labels, NEW t \in Distinct(Seen(labels))
  PROVE  Apart(s, t)
<1>1. Range(s) \subseteq RepoTexts /\ Range(t) \subseteq Seen(labels)
  BY ONLY s \in Distinct(RepoTexts), t \in Distinct(Seen(labels)), Widens
<1>2. \A d \in Seen(labels) : d \in WikiTexts
  BY ONLY TRUE DEF Seen
<1>3. (\A d \in RepoTexts : d.source = "repo") /\ \A d \in WikiTexts : d.source = "wiki"
  BY RetrievalAssumption
<1>4. ASSUME NEW d \in Range(s), d \in Range(t) PROVE FALSE
  <2>1. d.source = "repo" /\ d.source = "wiki"
    BY ONLY <1>1, <1>2, <1>3, <1>4
  <2> QED
    BY ONLY <2>1
<1> QED
  BY ONLY <1>4 DEF Apart

LEMMA ShownIs ==
  ASSUME NEW labels
  PROVE  RepoTexts \subseteq Shown(labels) /\ Seen(labels) \subseteq Shown(labels) /\ Shown(labels) \subseteq AllTexts
         /\ \A d \in Shown(labels) : d.age \in Nat
<1>1. RepoTexts \subseteq Shown(labels) /\ Seen(labels) \subseteq Shown(labels) /\ Shown(labels) \subseteq AllTexts
  BY ONLY TRUE DEF Shown, Seen, AllTexts
<1>2. \A d \in AllTexts : d.age \in Nat
  BY RetrievalAssumption DEF AllTexts
<1> QED
  BY ONLY <1>1, <1>2

(* mergeSources: every chunk once, and a policy that is gone repeats one kept. *)
LEMMA MergedIs ==
  ASSUME NEW labels, NEW fused \in Distinct(RepoTexts), NEW hits \in Distinct(Seen(labels)),
         NEW m, m = MergeSources(fused, hits)
  PROVE  m \in Distinct(Shown(labels)) /\ (HasPolicy(hits) => HasTier(m, 1) \/ OnlyRepeats(hits))
<1>1. PICK S, s : S = Shown(labels) /\ s = fused \o hits
  OBVIOUS
<1>2. RepoTexts \subseteq S /\ Seen(labels) \subseteq S
  BY ONLY <1>1, ShownIs
<1>3. fused \in Distinct(S) /\ hits \in Distinct(S) /\ Range(fused) \subseteq RepoTexts
  BY ONLY <1>2, fused \in Distinct(RepoTexts), hits \in Distinct(Seen(labels)), Widens
<1>4. Apart(fused, hits)
  BY ONLY fused \in Distinct(RepoTexts), hits \in Distinct(Seen(labels)), SourcesApart
<1>5. Joins(s, fused, hits)
  BY ONLY <1>1 DEF Joins
<1>6. s \in Distinct(S) /\ AsMuch(s, fused, hits)
  BY ONLY <1>3, <1>4, <1>5, JoinDistinct
<1>7. Range(s) = Range(fused) \cup Range(hits)
  BY ONLY <1>6 DEF AsMuch
<1>8. /\ m \in Distinct(S) /\ Range(m) \subseteq Range(s)
      /\ \A d \in Range(s) : d \in Range(m) \/ \E e \in Range(m) : Alike(e, d)
  <2>1. m \in Distinct(S) /\ KeptOrRepeated(m, s)
    BY ONLY <1>5, <1>6, m = MergeSources(fused, hits), MergeIs
  <2> QED
    BY ONLY <2>1 DEF KeptOrRepeated
<1>9. ASSUME ~HasTier(m, 1) PROVE OnlyRepeats(hits)
  <2>1. ASSUME NEW e \in Range(m) PROVE PriorityTier(e) # 1 /\ e \in RepoTexts \cup Range(hits)
    <3>1. PICK i \in DOMAIN m : m[i] = e
      BY ONLY <2>1, RangeIs
    <3>2. PriorityTier(e) # 1
      BY ONLY <1>9, <3>1 DEF HasTier
    <3>3. e \in RepoTexts \cup Range(hits)
      BY ONLY <1>3, <1>7, <1>8, <2>1
    <3> QED
      BY ONLY <3>2, <3>3
  <2>2. ASSUME NEW d \in Range(hits), PriorityTier(d) = 1
        PROVE  \E e \in RepoTexts \cup Range(hits) : PriorityTier(e) # 1 /\ Alike(e, d)
    <3>1. d \in Range(s) /\ d \notin Range(m)
      BY ONLY <1>7, <2>1, <2>2
    <3>2. PICK e \in Range(m) : Alike(e, d)
      BY ONLY <1>8, <3>1
    <3>3. PriorityTier(e) # 1 /\ e \in RepoTexts \cup Range(hits)
      BY ONLY <2>1, <3>2
    <3> QED
      BY ONLY <3>2, <3>3
  <2> QED
    BY ONLY <2>2 DEF OnlyRepeats
<1> QED
  BY ONLY <1>1, <1>8, <1>9

(* What is reserved leads, and what is reranked behind it repeats none of it. *)
LEMMA LedIs ==
  ASSUME NEW labels, NEW hits, NEW m \in Distinct(Shown(labels)), HasPolicy(hits) => HasTier(m, 1) \/ OnlyRepeats(hits),
         NEW fl, fl = ReserveFloors(m, labels), NEW rest, rest = Without(m, Range(fl.selected))
  PROVE  /\ fl.selected \in Distinct(Shown(labels)) /\ rest \in Distinct(Shown(labels)) /\ Apart(fl.selected, rest)
         /\ fl.starved \in SUBSET {1, 2} /\ PolicyFirst(fl.selected, hits, fl.starved)
<1>1. PICK S, lead : S = Shown(labels) /\ lead = fl.selected
  OBVIOUS
<1>2. m \in Distinct(S) /\ m \in Seq(S)
  BY ONLY <1>1, m \in Distinct(Shown(labels)), DistinctIs
<1>3. \A d \in S : d.age \in Nat
  BY ONLY <1>1, ShownIs
<1>4. Reserved(fl.selected, S, m) /\ Leads(fl.selected, fl.starved, m) /\ fl.starved \in SUBSET {1, 2}
  BY ONLY <1>2, <1>3, fl = ReserveFloors(m, labels), FloorsAre
<1>5. lead \in Distinct(S)
  BY ONLY <1>1, <1>4 DEF Reserved
<1>6. PICK T : T = Range(lead)
  OBVIOUS
<1>7. rest = Without(m, T)
  BY ONLY <1>1, <1>6, rest = Without(m, Range(fl.selected))
<1>8. rest \in Distinct(S) /\ Range(rest) \cap T = {}
  BY ONLY <1>2, <1>7, WithoutIs
<1>9. Apart(lead, rest)
  BY ONLY <1>6, <1>8 DEF Apart
<1>10. Leads(lead, fl.starved, m)
  BY ONLY <1>1, <1>4
<1>11. PolicyFirst(lead, hits, fl.starved)
  BY ONLY <1>10, HasPolicy(hits) => HasTier(m, 1) \/ OnlyRepeats(hits) DEF PolicyFirst, Leads, Opens
<1> QED
  BY ONLY <1>1, <1>4, <1>5, <1>8, <1>9, <1>11

LEMMA SizesAre == AskFor \in Nat /\ AskFor # 0 /\ RerankTop \in Nat /\ RerankTop # 0 /\ PreFusion \in Nat /\ SubmitTop \in Nat /\ RerankTop <= AskFor
BY RetrievalAssumption

(* The answer: what leads, then the best of what was ranked, cut to length.   *)
LEMMA AnswerIs ==
  ASSUME NEW labels, NEW hits, NEW starved, NEW lead \in Distinct(Shown(labels)), NEW rest, Apart(lead, rest),
         PolicyFirst(lead, hits, starved), NEW items \in Distinct(Shown(labels)), Range(items) \subseteq Range(rest),
         NEW r, r = Cut(lead \o Cut(items, RerankTop), AskFor)
  PROVE  r \in Distinct(Shown(labels)) /\ Len(r) <= AskFor /\ PolicyFirst(r, hits, starved)
<1>1. PICK S, c, j : S = Shown(labels) /\ c = Cut(items, RerankTop) /\ j = lead \o c
  OBVIOUS
<1>2. AskFor \in Nat /\ AskFor # 0 /\ RerankTop \in Nat
  BY ONLY SizesAre
<1>3. items \in Distinct(S) /\ lead \in Distinct(S)
  BY ONLY <1>1, items \in Distinct(Shown(labels)), lead \in Distinct(Shown(labels))
<1>4. c \in Distinct(S) /\ Range(c) \subseteq Range(items)
  BY ONLY <1>1, <1>2, <1>3, CutDistinct
<1>5. Apart(lead, c)
  BY ONLY <1>4, Apart(lead, rest), Range(items) \subseteq Range(rest) DEF Apart
<1>6. Joins(j, lead, c)
  BY ONLY <1>1 DEF Joins
<1>7. j \in Distinct(S) /\ Starts(j, lead)
  BY ONLY <1>3, <1>4, <1>5, <1>6, JoinDistinct
<1>8. r = Cut(j, AskFor)
  BY ONLY <1>1, r = Cut(lead \o Cut(items, RerankTop), AskFor)
<1>9. r \in Distinct(S) /\ Len(r) <= AskFor /\ (j # <<>> => r # <<>> /\ r[1] = j[1])
  BY ONLY <1>2, <1>7, <1>8, CutDistinct
<1>10. lead # <<>> => r # <<>> /\ r[1] = lead[1]
  BY ONLY <1>7, <1>9 DEF Starts
<1>11. PolicyFirst(r, hits, starved)
  BY ONLY <1>10, PolicyFirst(lead, hits, starved) DEF PolicyFirst, Opens
<1> QED
  BY ONLY <1>1, <1>9, <1>11

LEMMA NoneDistinct == ASSUME NEW S PROVE <<>> \in Distinct(S)
BY OneDistinct

LEMMA UnansweredIs == ASSUME NEW S PROVE Unanswered \in Answers(S)
<1>1. <<>> \in Distinct(S)
  BY NoneDistinct
<1> QED
  BY ONLY <1>1 DEF Answers, Unanswered

(* A query as it is asked, or as it failed. *)
Fresh(at, vector, hybrid, labels) ==
  [at |-> at, hybrid |-> hybrid, vector |-> vector, labels |-> labels,
   who |-> "identity", bm25 |-> Unanswered, ann |-> Unanswered, wiki |-> Unanswered, starved |-> {},
   lead |-> <<>>, rest |-> <<>>, items |-> <<>>, bad |-> FALSE]

LEMMA FreshIs ==
  ASSUME NEW at \in {"idle", "resolve", "search", "failed"}, NEW vector \in BOOLEAN, NEW hybrid \in BOOLEAN,
         NEW labels \in SUBSET Exposed,
         NEW q, q = Fresh(at, vector, hybrid, labels)
  PROVE  QueryOk(q)
<1>1. q = [at |-> at, hybrid |-> hybrid, vector |-> vector, labels |-> labels,
           who |-> "identity", bm25 |-> Unanswered, ann |-> Unanswered, wiki |-> Unanswered, starved |-> {},
           lead |-> <<>>, rest |-> <<>>, items |-> <<>>, bad |-> FALSE]
  BY ONLY q = Fresh(at, vector, hybrid, labels) DEF Fresh
<1>2. PICK u : u = Unanswered
  OBVIOUS
<1>3. u \in Answers(RepoTexts) /\ u \in Answers(WikiTexts) /\ u.hits = <<>> /\ u.bad = FALSE
  <2>1. u.hits = <<>> /\ u.bad = FALSE
    BY ONLY <1>2 DEF Unanswered
  <2>2. u \in Answers(RepoTexts) /\ u \in Answers(WikiTexts)
    BY ONLY <1>2, UnansweredIs
  <2> QED
    BY ONLY <2>1, <2>2
<1>4. <<>> \in Distinct(AllTexts) /\ <<>> \in Distinct(Seen(labels))
  BY ONLY NoneDistinct
<1>5. q \in Queries
  <2>1. {} \in SUBSET {1, 2}
    OBVIOUS
  <2> QED
    BY ONLY <1>1, <1>2, <1>3, <1>4, <2>1, at \in {"idle", "resolve", "search", "failed"}, vector \in BOOLEAN, hybrid \in BOOLEAN,
         labels \in SUBSET Exposed DEF Queries
<1>6. q.at = at /\ q.labels = labels /\ q.wiki = u /\ q.ann = u
  BY ONLY <1>1, <1>2
<1>7. SearchesHonest(q)
  BY ONLY <1>3, <1>4, <1>6 DEF SearchesHonest
<1>8. q.at # "rerank" /\ q.at # "done"
  BY ONLY <1>6, at \in {"idle", "resolve", "search", "failed"}
<1> QED
  BY ONLY <1>5, <1>7, <1>8 DEF QueryOk

LEMMA AskInit == RetrievalInit => AskInv
<1>1. ASSUME RetrievalInit PROVE AskInv
  <2>1. ask = Fresh("idle", FALSE, FALSE, {})
    BY ONLY <1>1 DEF RetrievalInit, NoAsk, Fresh
  <2>2. {} \in SUBSET Exposed /\ FALSE \in BOOLEAN /\ "idle" \in {"idle", "resolve", "search", "failed"}
    OBVIOUS
  <2>3. QueryOk(ask)
    BY ONLY <2>1, <2>2, FreshIs
  <2> QED
    BY ONLY <2>3 DEF AskInv
<1> QED
  BY ONLY <1>1

LEMMA LabelsExposed ==
  ASSUME NEW ctx, NEW include, NEW exclude
  PROVE  EffectiveLabels(ctx, include, exclude) \in SUBSET Exposed
BY DEF EffectiveLabels

LEMMA AskKeeps == Ask => AskInv'
<1>1. ASSUME Ask PROVE AskInv'
  <2>1. PICK files \in SUBSET PrFiles, deps \in SUBSET Frameworks, own \in PrFiles, include \in SUBSET Askable,
             exclude \in SUBSET Askable, enriched \in BOOLEAN, context \in BOOLEAN, vector \in BOOLEAN :
          ask' = [NoAsk EXCEPT !.at = IF ShouldUseHybrid(context, vector) THEN "resolve" ELSE "search", !.vector = vector,
                               !.hybrid = ShouldUseHybrid(context, vector),
                               !.labels = IF ShouldUseHybrid(context, vector)
                                          THEN EffectiveLabels(PickPrContext(enriched, files, deps, own), include, exclude) ELSE {}]
    BY ONLY <1>1, Zenon DEF Ask
  <2>2. PICK h, e : h = ShouldUseHybrid(context, vector) /\ e = EffectiveLabels(PickPrContext(enriched, files, deps, own), include, exclude)
    OBVIOUS
  <2>3. h \in BOOLEAN
    BY ONLY <2>2 DEF ShouldUseHybrid
  <2>4. e \in SUBSET Exposed
    BY ONLY <2>2, LabelsExposed
  <2>5. PICK at, l, q : at = (IF h THEN "resolve" ELSE "search") /\ l = (IF h THEN e ELSE {}) /\ q = ask'
    OBVIOUS
  <2>6. at \in {"idle", "resolve", "search", "failed"} /\ l \in SUBSET Exposed
    BY ONLY <2>3, <2>4, <2>5
  <2>7. q = Fresh(at, vector, h, l)
    <3>1. q = [NoAsk EXCEPT !.at = at, !.vector = vector, !.hybrid = h, !.labels = l]
      BY ONLY <2>1, <2>2, <2>5
    <3> QED
      BY ONLY <3>1 DEF NoAsk, Fresh
  <2>8. QueryOk(q)
    BY ONLY vector \in BOOLEAN, <2>3, <2>6, <2>7, FreshIs
  <2> QED
    BY ONLY <2>5, <2>8 DEF AskInv
<1> QED
  BY ONLY <1>1

LEMMA ThrowsKeeps == SearchThrows => AskInv'
<1>1. ASSUME SearchThrows PROVE AskInv'
  <2>1. PICK q : q = ask'
    OBVIOUS
  <2>2. q = Fresh("failed", FALSE, FALSE, {})
    BY ONLY <1>1, <2>1 DEF SearchThrows, NoAsk, Fresh
  <2>3. {} \in SUBSET Exposed /\ FALSE \in BOOLEAN /\ "failed" \in {"idle", "resolve", "search", "failed"}
    OBVIOUS
  <2>4. QueryOk(q)
    BY ONLY <2>2, <2>3, FreshIs
  <2> QED
    BY ONLY <2>1, <2>4 DEF AskInv
<1> QED
  BY ONLY <1>1

LEMMA ResolveKeeps == AskInv /\ ResolveReranker => AskInv'
<1>1. ASSUME AskInv, ResolveReranker PROVE AskInv'
  <2>1. PICK a, q : a = ask /\ q = ask'
    OBVIOUS
  <2>2. PICK w : w \in {"identity", "bedrock", "llm"} /\ q = [a EXCEPT !.at = "search", !.who = w]
    BY ONLY <1>1, <2>1 DEF ResolveReranker
  <2>3. a \in Queries /\ SearchesHonest(a)
    BY ONLY <1>1, <2>1 DEF AskInv, QueryOk
  <2>4. q \in Queries /\ q.at = "search" /\ q.wiki = a.wiki /\ q.ann = a.ann /\ q.labels = a.labels /\ q.vector = a.vector /\ q.hybrid = a.hybrid
    BY ONLY <2>2, <2>3 DEF Queries
  <2>5. SearchesHonest(q)
    BY ONLY <2>3, <2>4 DEF SearchesHonest, Composes
  <2>6. q.at # "rerank" /\ q.at # "done"
    BY ONLY <2>4
  <2>7. QueryOk(q)
    BY ONLY <2>4, <2>5, <2>6 DEF QueryOk
  <2> QED
    BY ONLY <2>1, <2>7 DEF AskInv
<1> QED
  BY ONLY <1>1

(* One search's answer: chunks of its kind, each once. *)
LEMMA HitsAre ==
  ASSUME NEW S, NEW n, NEW hits \in Orders(S, n), NEW bad \in BOOLEAN, NEW v, v = [got |-> TRUE, hits |-> hits, bad |-> bad]
  PROVE  v \in Answers(S) /\ v.hits \in Distinct(S) /\ v.bad = bad
<1>1. hits \in Distinct(S)
  BY OrdersDistinct
<1> QED
  BY ONLY <1>1, v = [got |-> TRUE, hits |-> hits, bad |-> bad], bad \in BOOLEAN DEF Answers

LEMMA NoHitsAre ==
  ASSUME NEW S, NEW bad \in BOOLEAN, NEW v, v = [got |-> TRUE, hits |-> <<>>, bad |-> bad]
  PROVE  v \in Answers(S) /\ v.hits \in Distinct(S) /\ v.bad = bad
<1>1. <<>> \in Distinct(S)
  BY NoneDistinct
<1> QED
  BY ONLY <1>1, v = [got |-> TRUE, hits |-> <<>>, bad |-> bad], bad \in BOOLEAN DEF Answers

LEMMA RepoAnswerIs ==
  ASSUME NEW a, QueryOk(a), a.at = "search", NEW v \in Answers(RepoTexts), NEW q,
         q = [a EXCEPT !["bm25"] = v] \/ (q = [a EXCEPT !["ann"] = v] /\ (v.bad => ~a.vector))
  PROVE  QueryOk(q)
<1>1. a \in Queries /\ SearchesHonest(a)
  BY DEF QueryOk
<1>2. /\ q \in Queries /\ q.at = a.at /\ q.wiki = a.wiki /\ q.labels = a.labels /\ q.vector = a.vector /\ q.hybrid = a.hybrid
      /\ q.ann = a.ann \/ (q.ann = v /\ (v.bad => ~a.vector))
  BY ONLY <1>1, v \in Answers(RepoTexts), q = [a EXCEPT !["bm25"] = v] \/ (q = [a EXCEPT !["ann"] = v] /\ (v.bad => ~a.vector)) DEF Queries
<1>3. SearchesHonest(q)
  BY ONLY <1>1, <1>2 DEF SearchesHonest, Composes
<1>4. q.at # "rerank" /\ q.at # "done"
  BY ONLY <1>2, a.at = "search"
<1> QED
  BY ONLY <1>2, <1>3, <1>4 DEF QueryOk

LEMMA WikiAnswerIs ==
  ASSUME NEW a, QueryOk(a), a.at = "search", Composes(a), NEW v \in Answers(Seen(a.labels)), NEW q,
         q = [a EXCEPT !["wiki"] = v]
  PROVE  QueryOk(q)
<1>1. a \in Queries /\ SearchesHonest(a)
  BY DEF QueryOk
<1>2. v \in Answers(WikiTexts) /\ v.hits \in Distinct(Seen(a.labels))
  <2>1. v.hits \in Distinct(Seen(a.labels)) /\ v = [got |-> v.got, hits |-> v.hits, bad |-> v.bad] /\ v.got \in BOOLEAN /\ v.bad \in BOOLEAN
    BY ONLY v \in Answers(Seen(a.labels)) DEF Answers
  <2>2. Seen(a.labels) \subseteq WikiTexts
    BY ONLY TRUE DEF Seen
  <2>3. v.hits \in Distinct(WikiTexts)
    BY ONLY <2>1, <2>2, Widens
  <2>4. v \in Answers(WikiTexts)
    BY ONLY <2>1, <2>3 DEF Answers
  <2> QED
    BY ONLY <2>1, <2>4
<1>3. q \in Queries /\ q.at = a.at /\ q.wiki = v /\ q.labels = a.labels /\ q.vector = a.vector /\ q.hybrid = a.hybrid /\ q.ann = a.ann
  BY ONLY <1>1, <1>2, q = [a EXCEPT !["wiki"] = v] DEF Queries
<1>4. Composes(q)
  BY ONLY <1>3, Composes(a) DEF Composes
<1>5. SearchesHonest(q)
  BY ONLY <1>1, <1>2, <1>3, <1>4 DEF SearchesHonest
<1>6. q.at # "rerank" /\ q.at # "done"
  BY ONLY <1>3, a.at = "search"
<1> QED
  BY ONLY <1>3, <1>5, <1>6 DEF QueryOk

LEMMA RepoAnswersKeep == AskInv /\ (Bm25Answers \/ AnnAnswers \/ AnnNoEmbedder) => AskInv'
<1>1. ASSUME AskInv, Bm25Answers \/ AnnAnswers \/ AnnNoEmbedder PROVE AskInv'
  <2>1. PICK a, q : a = ask /\ q = ask'
    OBVIOUS
  <2>2. QueryOk(a) /\ a.at = "search"
    BY ONLY <1>1, <2>1 DEF AskInv, Bm25Answers, AnnAnswers, AnnNoEmbedder
  <2>3. PICK v : v \in Answers(RepoTexts) /\ (q = [a EXCEPT !["bm25"] = v] \/ (q = [a EXCEPT !["ann"] = v] /\ (v.bad => ~a.vector)))
    <3>1. CASE Bm25Answers
      <4>1. PICK hits \in Orders(RepoTexts, PreFusion) : q = [a EXCEPT !["bm25"] = [got |-> TRUE, hits |-> hits, bad |-> FALSE]]
        BY ONLY <2>1, <3>1 DEF Bm25Answers, Answered
      <4>2. PICK v : v = [got |-> TRUE, hits |-> hits, bad |-> FALSE]
        OBVIOUS
      <4>3. v \in Answers(RepoTexts)
        BY ONLY <4>1, <4>2, FALSE \in BOOLEAN, HitsAre
      <4> QED
        BY ONLY <4>1, <4>2, <4>3
    <3>2. CASE AnnAnswers
      <4>1. PICK hits \in Orders(RepoTexts, PreFusion) : q = [a EXCEPT !["ann"] = [got |-> TRUE, hits |-> hits, bad |-> FALSE]]
        BY ONLY <2>1, <3>2 DEF AnnAnswers, Answered
      <4>2. PICK v : v = [got |-> TRUE, hits |-> hits, bad |-> FALSE]
        OBVIOUS
      <4>3. v \in Answers(RepoTexts) /\ v.bad = FALSE
        BY ONLY <4>1, <4>2, FALSE \in BOOLEAN, HitsAre
      <4> QED
        BY ONLY <4>1, <4>2, <4>3
    <3>3. CASE AnnNoEmbedder
      <4>1. q = [a EXCEPT !["ann"] = [got |-> TRUE, hits |-> <<>>, bad |-> TRUE]] /\ ~a.vector
        BY ONLY <2>1, <3>3 DEF AnnNoEmbedder, Answered
      <4>2. PICK v : v = [got |-> TRUE, hits |-> <<>>, bad |-> TRUE]
        OBVIOUS
      <4>3. v \in Answers(RepoTexts)
        BY ONLY <4>2, TRUE \in BOOLEAN, NoHitsAre
      <4> QED
        BY ONLY <4>1, <4>2, <4>3
    <3> QED
      BY ONLY <1>1, <3>1, <3>2, <3>3
  <2>4. QueryOk(q)
    BY ONLY <2>2, <2>3, RepoAnswerIs
  <2> QED
    BY ONLY <2>1, <2>4 DEF AskInv
<1> QED
  BY ONLY <1>1

LEMMA WikiAnswersKeep == AskInv /\ (WikiAnswers \/ WikiFails) => AskInv'
<1>1. ASSUME AskInv, WikiAnswers \/ WikiFails PROVE AskInv'
  <2>1. PICK a, q, S : a = ask /\ q = ask' /\ S = Seen(a.labels)
    OBVIOUS
  <2>2. QueryOk(a) /\ a.at = "search" /\ Composes(a)
    BY ONLY <1>1, <2>1 DEF AskInv, WikiAnswers, WikiFails, ComposesWiki, Composes
  <2>3. PICK v : v \in Answers(S) /\ q = [a EXCEPT !["wiki"] = v]
    <3>1. CASE WikiAnswers
      <4>1. PICK hits \in Orders(S, PreFusion) : q = [a EXCEPT !["wiki"] = [got |-> TRUE, hits |-> hits, bad |-> FALSE]]
        BY ONLY <2>1, <3>1 DEF WikiAnswers, Answered, Seen
      <4>2. PICK v : v = [got |-> TRUE, hits |-> hits, bad |-> FALSE]
        OBVIOUS
      <4>3. v \in Answers(S)
        BY ONLY <4>1, <4>2, FALSE \in BOOLEAN, HitsAre
      <4> QED
        BY ONLY <4>1, <4>2, <4>3
    <3>2. CASE WikiFails
      <4>1. q = [a EXCEPT !["wiki"] = [got |-> TRUE, hits |-> <<>>, bad |-> TRUE]]
        BY ONLY <2>1, <3>2 DEF WikiFails, Answered
      <4>2. PICK v : v = [got |-> TRUE, hits |-> <<>>, bad |-> TRUE]
        OBVIOUS
      <4>3. v \in Answers(S)
        BY ONLY <4>2, TRUE \in BOOLEAN, NoHitsAre
      <4> QED
        BY ONLY <4>1, <4>2, <4>3
    <3> QED
      BY ONLY <1>1, <3>1, <3>2
  <2>4. QueryOk(q)
    BY ONLY <2>1, <2>2, <2>3, WikiAnswerIs
  <2> QED
    BY ONLY <2>1, <2>4 DEF AskInv
<1> QED
  BY ONLY <1>1

LEMMA FuseKeeps == AskInv /\ Fuse => AskInv'
<1>1. ASSUME AskInv, Fuse PROVE AskInv'
  <2>1. PICK a, q : a = ask /\ q = ask'
    OBVIOUS
  <2>2. a \in Queries /\ SearchesHonest(a) /\ a.at = "search"
    BY ONLY <1>1, <2>1 DEF AskInv, QueryOk, Fuse
  <2>3. PICK s, t, n, L, hits : s = a.bm25.hits /\ t = a.ann.hits /\ n = (IF a.hybrid THEN PreFusion ELSE AskFor) /\ L = a.labels /\ hits = a.wiki.hits
    OBVIOUS
  <2>4. s \in Distinct(RepoTexts) /\ t \in Distinct(RepoTexts) /\ L \in SUBSET Exposed
    BY ONLY <2>2, <2>3 DEF Queries, Answers
  <2>5. n \in Nat
    BY ONLY <2>3, SizesAre
  <2>6. PICK fused, m, fl, rest : fused = RrfCombine(s, t, n) /\ m = MergeSources(fused, hits) /\ fl = ReserveFloors(m, L) /\ rest = Without(m, Range(fl.selected))
    OBVIOUS
  <2>7. fused \in Distinct(RepoTexts) /\ Len(fused) <= n
    BY ONLY <2>4, <2>5, <2>6, RrfIs
  <2>8. hits \in Distinct(Seen(L)) /\ (a.ann.bad => ~a.vector) /\ (a.wiki.bad => Composes(a))
    BY ONLY <2>2, <2>3 DEF SearchesHonest
  <2>9. RepoTexts \subseteq Shown(L) /\ Shown(L) \subseteq AllTexts /\ RepoTexts \subseteq AllTexts
    <3>1. RepoTexts \subseteq Shown(L) /\ Shown(L) \subseteq AllTexts
      BY ONLY ShownIs
    <3> QED
      BY ONLY <3>1
  <2>10. fused \in Distinct(Shown(L)) /\ fused \in Distinct(AllTexts)
    BY ONLY <2>7, <2>9, Widens
  <2>11. a.ann.bad \in BOOLEAN /\ a.wiki.bad \in BOOLEAN
    BY ONLY <2>2 DEF Queries, Answers
  <2>12. \/ ~a.hybrid /\ q = [a EXCEPT !.at = "done", !.items = fused, !.bad = a.ann.bad]
         \/ Composes(a) /\ q = [a EXCEPT !.at = "rerank", !.lead = fl.selected, !.starved = fl.starved, !.rest = rest, !.bad = a.wiki.bad]
         \/ a.hybrid /\ ~Composes(a) /\ q = [a EXCEPT !.at = "rerank", !.rest = fused, !.bad = a.ann.bad]
    BY ONLY <1>1, <2>1, <2>3, <2>6 DEF Fuse, ComposesWiki, Composes
  <2>13. CASE ~a.hybrid /\ q = [a EXCEPT !.at = "done", !.items = fused, !.bad = a.ann.bad]
    <3>1. /\ q \in Queries /\ q.at = "done" /\ q.items = fused /\ q.bad = a.ann.bad /\ q.wiki = a.wiki /\ q.ann = a.ann
          /\ q.labels = L /\ q.vector = a.vector /\ q.hybrid = a.hybrid
      BY ONLY <2>2, <2>3, <2>10, <2>11, <2>13 DEF Queries
    <3>2. ~Composes(a) /\ ~Composes(q)
      BY ONLY <2>13, <3>1 DEF Composes
    <3>3. Degraded(q)
      BY ONLY <2>8, <3>1, <3>2 DEF Degraded
    <3>4. n = AskFor
      BY ONLY <2>3, <2>13
    <3>5. DoneHonest(q)
      BY ONLY <2>7, <2>10, <3>1, <3>2, <3>3, <3>4 DEF DoneHonest
    <3>6. SearchesHonest(q)
      BY ONLY <2>3, <2>8, <3>1, <3>2 DEF SearchesHonest
    <3>7. q.at # "rerank"
      BY ONLY <3>1
    <3>8. QueryOk(q)
      BY ONLY <3>1, <3>5, <3>6, <3>7 DEF QueryOk
    <3> QED
      BY ONLY <2>1, <3>8 DEF AskInv
  <2>14. CASE Composes(a) /\ q = [a EXCEPT !.at = "rerank", !.lead = fl.selected, !.starved = fl.starved, !.rest = rest, !.bad = a.wiki.bad]
    <3>1. m \in Distinct(Shown(L)) /\ (HasPolicy(hits) => HasTier(m, 1) \/ OnlyRepeats(hits))
      BY ONLY <2>6, <2>7, <2>8, MergedIs
    <3>2. /\ fl.selected \in Distinct(Shown(L)) /\ rest \in Distinct(Shown(L)) /\ Apart(fl.selected, rest)
          /\ fl.starved \in SUBSET {1, 2} /\ PolicyFirst(fl.selected, hits, fl.starved)
      BY ONLY <2>6, <3>1, LedIs
    <3>3. PICK lead, st : lead = fl.selected /\ st = fl.starved
      OBVIOUS
    <3>4. lead \in Distinct(AllTexts) /\ rest \in Distinct(AllTexts)
      BY ONLY <2>9, <3>2, <3>3, Widens
    <3>5. q = [a EXCEPT !.at = "rerank", !.lead = lead, !.starved = st, !.rest = rest, !.bad = a.wiki.bad]
      BY ONLY <2>14, <3>3
    <3>6. st \in SUBSET {1, 2}
      BY ONLY <3>2, <3>3
    <3>7. /\ q \in Queries /\ q.at = "rerank" /\ q.lead = lead /\ q.starved = st /\ q.rest = rest /\ q.bad = a.wiki.bad
          /\ q.wiki = a.wiki /\ q.ann = a.ann /\ q.labels = L /\ q.vector = a.vector /\ q.hybrid = a.hybrid
      BY ONLY <2>2, <2>3, <2>11, <3>4, <3>5, <3>6 DEF Queries
    <3>8. Composes(q) /\ ~a.ann.bad
      BY ONLY <2>3, <2>8, <2>14, <3>7 DEF Composes
    <3>9. Degraded(q)
      BY ONLY <3>7, <3>8 DEF Degraded
    <3>10. q.rest \in Distinct(Shown(q.labels)) /\ q.lead \in Distinct(Shown(q.labels)) /\ Apart(q.lead, q.rest)
           /\ PolicyFirst(q.lead, q.wiki.hits, q.starved)
      BY ONLY <2>3, <3>2, <3>3, <3>7
    <3>11. RankedHonest(q)
      BY ONLY <3>9, <3>10 DEF RankedHonest
    <3>12. SearchesHonest(q)
      BY ONLY <2>3, <2>8, <3>7, <3>8 DEF SearchesHonest
    <3>13. q.at # "done"
      BY ONLY <3>7
    <3>14. QueryOk(q)
      BY ONLY <3>7, <3>11, <3>12, <3>13 DEF QueryOk
    <3> QED
      BY ONLY <2>1, <3>14 DEF AskInv
  <2>15. CASE a.hybrid /\ ~Composes(a) /\ q = [a EXCEPT !.at = "rerank", !.rest = fused, !.bad = a.ann.bad]
    <3>1. /\ q \in Queries /\ q.at = "rerank" /\ q.rest = fused /\ q.bad = a.ann.bad
          /\ q.wiki = a.wiki /\ q.ann = a.ann /\ q.labels = L /\ q.vector = a.vector /\ q.hybrid = a.hybrid
      BY ONLY <2>2, <2>3, <2>10, <2>11, <2>15 DEF Queries
    <3>2. ~Composes(q)
      BY ONLY <2>3, <2>15, <3>1 DEF Composes
    <3>3. Degraded(q)
      BY ONLY <2>8, <2>15, <3>1 DEF Degraded
    <3>4. RankedHonest(q)
      BY ONLY <2>10, <3>1, <3>2, <3>3 DEF RankedHonest
    <3>5. SearchesHonest(q)
      BY ONLY <2>3, <2>8, <2>15, <3>1 DEF SearchesHonest
    <3>6. q.at # "done"
      BY ONLY <3>1
    <3>7. QueryOk(q)
      BY ONLY <3>1, <3>4, <3>5, <3>6 DEF QueryOk
    <3> QED
      BY ONLY <2>1, <3>7 DEF AskInv
  <2> QED
    BY ONLY <2>12, <2>13, <2>14, <2>15
<1> QED
  BY ONLY <1>1

(* However the rest is ranked, the answer stays honest. *)
LEMMA FinishKeeps ==
  ASSUME AskInv, ask.at = "rerank", NEW items, items \in Distinct(Shown(ask.labels)), Range(items) \subseteq Range(ask.rest),
         NEW bad \in BOOLEAN, ask.bad => bad, Finish(items, bad)
  PROVE  AskInv'
<1>1. PICK a, q : a = ask /\ q = ask'
  OBVIOUS
<1>2. a \in Queries /\ SearchesHonest(a) /\ a.at = "rerank" /\ RankedHonest(a)
  BY ONLY <1>1, AskInv, ask.at = "rerank" DEF AskInv, QueryOk
<1>3. PICK L, hits, r : L = a.labels /\ hits = a.wiki.hits
                     /\ r = (IF Composes(a) THEN Cut(a.lead \o Cut(items, RerankTop), AskFor) ELSE Cut(items, RerankTop))
  OBVIOUS
<1>4. q = [a EXCEPT !.at = "done", !.rest = <<>>, !.bad = bad, !.items = r]
  BY ONLY <1>1, <1>3, Finish(items, bad) DEF Finish, ComposesWiki, Composes
<1>5. items \in Distinct(Shown(L)) /\ Range(items) \subseteq Range(a.rest) /\ (a.bad => bad)
  BY ONLY <1>1, <1>3, items \in Distinct(Shown(ask.labels)), Range(items) \subseteq Range(ask.rest), ask.bad => bad
<1>6. AskFor \in Nat /\ RerankTop \in Nat /\ RerankTop <= AskFor
  BY ONLY SizesAre
<1>7. r \in Distinct(Shown(L)) /\ Len(r) <= AskFor /\ (Composes(a) => PolicyFirst(r, hits, a.starved))
  <2>1. CASE Composes(a)
    <3>1. PICK lead, rest, st : lead = a.lead /\ rest = a.rest /\ st = a.starved
      OBVIOUS
    <3>2. lead \in Distinct(Shown(L)) /\ Apart(lead, rest) /\ PolicyFirst(lead, hits, st)
      BY ONLY <1>2, <1>3, <2>1, <3>1 DEF RankedHonest
    <3>3. r = Cut(lead \o Cut(items, RerankTop), AskFor)
      BY ONLY <1>3, <2>1, <3>1
    <3>4. items \in Distinct(Shown(L)) /\ Range(items) \subseteq Range(rest)
      BY ONLY <1>5, <3>1
    <3>5. r \in Distinct(Shown(L)) /\ Len(r) <= AskFor /\ PolicyFirst(r, hits, st)
      BY ONLY <3>2, <3>3, <3>4, AnswerIs
    <3> QED
      BY ONLY <3>1, <3>5
  <2>2. CASE ~Composes(a)
    <3>1. r = Cut(items, RerankTop)
      BY ONLY <1>3, <2>2
    <3>2. r \in Distinct(Shown(L)) /\ Len(r) <= RerankTop
      BY ONLY <1>5, <1>6, <3>1, CutDistinct
    <3>3. r \in Seq(Shown(L))
      BY ONLY <3>2, DistinctIs
    <3>4. Len(r) \in Nat
      BY ONLY <3>3
    <3> QED
      BY ONLY <1>6, <2>2, <3>2, <3>4
  <2> QED
    BY ONLY <2>1, <2>2
<1>8. Shown(L) \subseteq AllTexts
  BY ONLY ShownIs
<1>9. r \in Distinct(AllTexts) /\ <<>> \in Distinct(AllTexts)
  BY ONLY <1>7, <1>8, Widens, NoneDistinct
<1>10. /\ q \in Queries /\ q.at = "done" /\ q.items = r /\ q.bad = bad /\ q.starved = a.starved
       /\ q.wiki = a.wiki /\ q.ann = a.ann /\ q.labels = L /\ q.vector = a.vector /\ q.hybrid = a.hybrid
  BY ONLY <1>2, <1>3, <1>4, <1>9, bad \in BOOLEAN DEF Queries
<1>11. Degraded(q)
  BY ONLY <1>2, <1>5, <1>10 DEF RankedHonest, Degraded
<1>12. Composes(q) => Composes(a)
  BY ONLY <1>3, <1>10 DEF Composes
<1>13. DoneHonest(q)
  BY ONLY <1>3, <1>7, <1>10, <1>11, <1>12 DEF DoneHonest
<1>14. SearchesHonest(q)
  BY ONLY <1>2, <1>3, <1>10 DEF SearchesHonest, Composes
<1>15. q.at # "rerank"
  BY ONLY <1>10
<1>16. QueryOk(q)
  BY ONLY <1>10, <1>13, <1>14, <1>15 DEF QueryOk
<1> QED
  BY ONLY <1>1, <1>16 DEF AskInv

LEMMA RankKeeps ==
  AskInv /\ (NothingToRank \/ LlmRanks \/ LlmUnavailable \/ BedrockRanks \/ BedrockUnavailable) => AskInv'
<1>1. ASSUME AskInv, NothingToRank \/ LlmRanks \/ LlmUnavailable \/ BedrockRanks \/ BedrockUnavailable PROVE AskInv'
  <2>1. ask.at = "rerank"
    BY ONLY <1>1 DEF NothingToRank, LlmRanks, LlmUnavailable, BedrockRanks, BedrockUnavailable, Ranking
  <2>2. PICK rest, S : rest = ask.rest /\ S = Shown(ask.labels)
    OBVIOUS
  <2>3. rest \in Distinct(S) /\ ask.bad \in BOOLEAN
    BY ONLY <1>1, <2>1, <2>2 DEF AskInv, QueryOk, RankedHonest, Queries
  <2>4. rest \in Seq(S)
    BY ONLY <2>3, DistinctIs
  <2>5. Len(rest) \in Nat /\ SubmitTop \in Nat
    BY ONLY <2>4, SizesAre
  <2>6. PICK items, bad : bad \in BOOLEAN /\ (ask.bad => bad) /\ Finish(items, bad)
                          /\ (items = rest \/ \E n \in Nat : n <= Len(rest) /\ items \in Permuted(rest, n))
    <3>1. CASE NothingToRank
      BY ONLY <2>2, <2>3, <3>1 DEF NothingToRank
    <3>2. CASE LlmUnavailable \/ BedrockUnavailable
      <4>1. Finish(rest, TRUE)
        BY ONLY <2>2, <3>2 DEF LlmUnavailable, BedrockUnavailable, Fallback
      <4> QED
        BY ONLY <4>1, TRUE \in BOOLEAN
    <3>3. CASE LlmRanks
      <4>1. PICK items \in Permuted(rest, Len(rest)) : Finish(items, ask.bad)
        BY ONLY <2>2, <3>3 DEF LlmRanks
      <4>2. Len(rest) <= Len(rest)
        BY ONLY <2>5
      <4> QED
        BY ONLY <2>3, <2>5, <4>1, <4>2
    <3>4. CASE BedrockRanks
      <4>1. PICK n : n = (IF SubmitTop < Len(rest) THEN SubmitTop ELSE Len(rest))
        OBVIOUS
      <4>2. PICK items \in Permuted(rest, n) : Finish(items, ask.bad)
        BY ONLY <2>2, <3>4, <4>1 DEF BedrockRanks
      <4>3. n \in Nat /\ n <= Len(rest)
        BY ONLY <2>5, <4>1
      <4> QED
        BY ONLY <2>3, <4>2, <4>3
    <3> QED
      BY ONLY <1>1, <3>1, <3>2, <3>3, <3>4
  <2>7. items \in Distinct(S) /\ Range(items) \subseteq Range(rest)
    <3>1. CASE items = rest
      BY ONLY <2>3, <3>1
    <3>2. CASE \E n \in Nat : n <= Len(rest) /\ items \in Permuted(rest, n)
      <4>1. PICK n \in Nat : n <= Len(rest) /\ items \in Permuted(rest, n)
        BY ONLY <3>2
      <4> QED
        BY ONLY <2>3, <4>1, PermutedIs
    <3> QED
      BY ONLY <2>6, <3>1, <3>2
  <2>8. items \in Distinct(Shown(ask.labels)) /\ Range(items) \subseteq Range(ask.rest)
    BY ONLY <2>2, <2>7
  <2> QED
    BY ONLY <1>1, <2>1, <2>6, <2>8, FinishKeeps
<1> QED
  BY ONLY <1>1

LEMMA CacheInitially == CacheInit => CacheInv
BY DEF CacheInit, CacheInv, NoSearch

Seeks == [at : {"idle", "read", "adopt"}, read : Nat, since : Nat]

LEMMA CacheKeeps == CacheInv /\ CacheNext => CacheInv'
<1> SUFFICES ASSUME CacheInv, CacheNext PROVE CacheInv'
  OBVIOUS
<1>1. /\ row \in [version : Nat, moved : Nat] /\ now \in Nat
      /\ snap \in [version : Nat, at : Nat, took : Nat] /\ search \in [Searchers -> Seeks]
  BY DEF CacheInv, Seeks
<1>2. /\ row.moved <= now /\ snap.at <= now /\ snap.took <= snap.at
      /\ snap.version # 0 /\ snap.version # row.version => snap.at <= row.moved + snap.took
  BY DEF CacheInv
<1>3. \A s \in Searchers : search[s].at = "adopt" =>
        search[s].since <= now /\ (search[s].read # row.version => search[s].since <= row.moved)
  BY DEF CacheInv
<1>4. CASE Tick
  BY ONLY <1>1, <1>2, <1>3, <1>4 DEF Tick, CacheInv, Seeks
<1>5. CASE RowMoves
  <2>1. /\ row' = [version |-> row.version + 1, moved |-> now] /\ snap' = snap /\ search' = search /\ now' = now
    BY ONLY <1>5 DEF RowMoves
  <2>2. row' \in [version : Nat, moved : Nat] /\ row'.moved = now
    BY ONLY <1>1, <2>1
  <2>3. snap.at <= now + snap.took
    BY ONLY <1>1, <1>2
  <2> QED
    BY ONLY <1>1, <1>2, <1>3, <2>1, <2>2, <2>3 DEF CacheInv, Seeks
<1>6. ASSUME NEW s \in Searchers, BeginRefresh(s) PROVE CacheInv'
  <2>1. search' = [search EXCEPT ![s].at = "read"] /\ row' = row /\ snap' = snap /\ now' = now
    BY ONLY <1>6 DEF BeginRefresh
  <2>2. search' \in [Searchers -> Seeks]
    BY ONLY <1>1, <2>1 DEF Seeks
  <2>3. \A t \in Searchers : search'[t] = search[t] \/ search'[t].at = "read"
    BY ONLY <1>1, <2>1 DEF Seeks
  <2> QED
    BY ONLY <1>1, <1>2, <1>3, <2>1, <2>2, <2>3 DEF CacheInv, Seeks
<1>7. ASSUME NEW s \in Searchers, ReadRow(s) PROVE CacheInv'
  <2>1. /\ search' = [search EXCEPT ![s] = [at |-> "adopt", read |-> row.version, since |-> now]]
        /\ row' = row /\ snap' = snap /\ now' = now
    BY ONLY <1>7 DEF ReadRow
  <2>2. search' \in [Searchers -> Seeks]
    BY ONLY <1>1, <2>1 DEF Seeks
  <2>3. \A t \in Searchers : search'[t] = search[t] \/ search'[t] = [at |-> "adopt", read |-> row.version, since |-> now]
    BY ONLY <1>1, <2>1
  <2> QED
    BY ONLY <1>1, <1>2, <1>3, <2>1, <2>2, <2>3 DEF CacheInv, Seeks
<1>8. ASSUME NEW s \in Searchers, Adopt(s) PROVE CacheInv'
  <2>1. /\ search[s].at = "adopt" /\ search' = [search EXCEPT ![s] = NoSearch] /\ row' = row /\ now' = now
        /\ snap' = [version |-> search[s].read, at |-> now, took |-> now - search[s].since]
    BY ONLY <1>8 DEF Adopt
  <2>2. search' \in [Searchers -> Seeks]
    BY ONLY <1>1, <2>1 DEF Seeks, NoSearch
  <2>3. \A t \in Searchers : search'[t] = search[t] \/ search'[t].at = "idle"
    BY ONLY <1>1, <2>1 DEF NoSearch
  <2>4. PICK u, v : u = search[s].since /\ v = search[s].read
    OBVIOUS
  <2>5. u \in Nat /\ v \in Nat /\ u <= now /\ (v # row.version => u <= row.moved)
    BY ONLY <1>1, <1>3, <1>8, <2>1, <2>4 DEF Seeks
  <2>6. snap' = [version |-> v, at |-> now, took |-> now - u]
    BY ONLY <2>1, <2>4
  <2>7. now - u \in Nat /\ now - u <= now /\ (u <= row.moved => now <= row.moved + (now - u))
    BY ONLY <1>1, <2>5
  <2>8. /\ snap' \in [version : Nat, at : Nat, took : Nat] /\ snap'.at = now /\ snap'.took = now - u /\ snap'.version = v
    BY ONLY <1>1, <2>5, <2>6, <2>7
  <2> QED
    BY ONLY <1>1, <1>2, <1>3, <2>1, <2>2, <2>3, <2>5, <2>7, <2>8 DEF CacheInv, Seeks
<1>9. ASSUME NEW s \in Searchers, RefreshThrows(s) PROVE CacheInv'
  <2>1. search' = [search EXCEPT ![s] = NoSearch] /\ row' = row /\ snap' = snap /\ now' = now
    BY ONLY <1>9 DEF RefreshThrows
  <2>2. search' \in [Searchers -> Seeks]
    BY ONLY <1>1, <2>1 DEF Seeks, NoSearch
  <2>3. \A t \in Searchers : search'[t] = search[t] \/ search'[t].at = "idle"
    BY ONLY <1>1, <2>1 DEF NoSearch
  <2> QED
    BY ONLY <1>1, <1>2, <1>3, <2>1, <2>2, <2>3 DEF CacheInv, Seeks
<1> QED
  BY ONLY CacheNext, <1>4, <1>5, <1>6, <1>7, <1>8, <1>9 DEF CacheNext

LEMMA LagBounded == CacheInv => SnapshotLagBounded
<1>1. ASSUME CacheInv, SnapshotFresh, snap.version # row.version PROVE now - row.moved < CacheTtl + snap.took
  <2>1. snap.version # 0 /\ now - snap.at < CacheTtl
    BY ONLY <1>1 DEF SnapshotFresh
  <2>2. now \in Nat /\ row.moved \in Nat /\ snap.at \in Nat /\ snap.took \in Nat /\ snap.at <= row.moved + snap.took
    BY ONLY <1>1, <2>1 DEF CacheInv
  <2>3. CacheTtl \in Nat
    BY RetrievalAssumption
  <2> QED
    BY ONLY <2>1, <2>2, <2>3
<1> QED
  BY ONLY <1>1 DEF SnapshotLagBounded

LEMMA HonestWhenDone == AskInv => PolicyLeads /\ DegradedIsSaid /\ OnlyVisible
<1>1. ASSUME AskInv PROVE PolicyLeads /\ DegradedIsSaid /\ OnlyVisible
  <2>1. ask \in Queries /\ (ask.at = "done" => DoneHonest(ask))
    BY ONLY <1>1 DEF AskInv, QueryOk
  <2>2. PolicyLeads
    BY ONLY <2>1 DEF PolicyLeads, Done, ComposesWiki, Composes, DoneHonest, PolicyFirst, HasPolicy, Opens, OnlyRepeats
  <2>3. DegradedIsSaid
    BY ONLY <2>1 DEF DegradedIsSaid, DoneHonest, Degraded
  <2>4. ASSUME ask.at = "done"
        PROVE  /\ IsInjective(ask.items) /\ Len(ask.items) <= AskFor
               /\ \A d \in Range(ask.items) : d.source = "wiki" => d.labels \cap ask.labels \cap Exposed # {}
    <3>1. PICK t, L : t = ask.items /\ L = ask.labels
      OBVIOUS
    <3>2. t \in Distinct(Shown(L)) /\ Len(t) <= AskFor
      BY ONLY <2>1, <2>4, <3>1 DEF DoneHonest
    <3>3. L \in SUBSET Exposed
      BY ONLY <2>1, <3>1 DEF Queries
    <3>4. IsInjective(t)
      BY ONLY <3>2 DEF Distinct
    <3>5. Range(t) \subseteq Shown(L)
      BY ONLY <3>2, Widens
    <3>6. \A d \in RepoTexts : d.source = "repo"
      BY RetrievalAssumption
    <3>7. ASSUME NEW d \in Range(t), d.source = "wiki" PROVE d.labels \cap L \cap Exposed # {}
      <4>1. d \notin RepoTexts
        BY ONLY <3>6, <3>7
      <4>2. d \in Seen(L)
        BY ONLY <3>5, <3>7, <4>1 DEF Shown
      <4>3. d.labels \cap L # {}
        BY ONLY <4>2 DEF Seen
      <4> QED
        BY ONLY <3>3, <4>3
    <3> QED
      BY ONLY <3>1, <3>2, <3>4, <3>7
  <2>5. OnlyVisible
    BY ONLY <2>4 DEF OnlyVisible
  <2> QED
    BY ONLY <2>2, <2>3, <2>5
<1> QED
  BY ONLY <1>1

(* However the searches answer, fail or overlap, and whatever ranks what they *)
(* found: a policy found leads or is accounted for, a degraded search is said *)
(* to be one, nothing is shown twice or without a visible label, and a fresh  *)
(* snapshot names a row replaced at most the TTL and its own reads ago        *)
(* (retrieve_knowledge.activity.ts, hybrid_retriever.ts, rrf.ts,              *)
(* confluence_source.ts, floors.ts, llm_rerank.ts and embedder_cache.ts).     *)
THEOREM RetrievalStaysHonest == KnowledgeSearchSpec => []RetrievalHonest
<1>1. RetrievalInit /\ CacheInit => AskInv /\ CacheInv
  BY ONLY AskInit, CacheInitially
<1>2. AskInv /\ CacheInv /\ [KnowledgeSearchNext]_<<askVars, cacheVars>> => AskInv' /\ CacheInv'
  <2>1. ASSUME AskInv, UNCHANGED askVars PROVE AskInv'
    BY ONLY <2>1 DEF askVars, AskInv
  <2>2. ASSUME CacheInv, UNCHANGED cacheVars PROVE CacheInv'
    BY ONLY <2>2 DEF cacheVars, CacheInv
  <2>3. ASSUME AskInv, RetrievalNext PROVE AskInv'
    BY ONLY <2>3, AskKeeps, ThrowsKeeps, ResolveKeeps, RepoAnswersKeep, WikiAnswersKeep, FuseKeeps, RankKeeps DEF RetrievalNext
  <2>4. ASSUME UNCHANGED <<askVars, cacheVars>> PROVE UNCHANGED askVars /\ UNCHANGED cacheVars
    BY ONLY <2>4
  <2> QED
    BY ONLY <2>1, <2>2, <2>3, <2>4, CacheKeeps DEF KnowledgeSearchNext
<1>3. AskInv /\ CacheInv => RetrievalHonest
  BY ONLY HonestWhenDone, LagBounded DEF RetrievalHonest
<1> QED
  BY ONLY <1>1, <1>2, <1>3, PTL DEF KnowledgeSearchSpec
=============================================================================
