--------------------------- MODULE EmbedderConfig ---------------------------
(***************************************************************************)
(* Which model embeds. An administrator stages a config in the singleton   *)
(* row core.embedder_provider_settings and tests it; a test that succeeds  *)
(* promotes the config in one transaction, and may change the model only   *)
(* while nothing is ingested. The process that ingests reads the row       *)
(* through a cache keyed by a digest of its public parts, and falls back   *)
(* to the embedder named by its environment.                               *)
(***************************************************************************)
EXTENDS Naturals

CONSTANTS
  Models,       \* embedding models
  Seeded,       \* the model the seeded generation records
  LegacyModel,  \* the model of the environment's embedder
  Desks,        \* administrators' requests in flight
  MaxRevision   \* bound on config_revision

ASSUME EmbedderConfigAssumption == {Seeded, LegacyModel} \subseteq Models /\ MaxRevision \in Nat \ {0}

VARIABLES
  settings,   \* the row: revision (0: no row), model, validation, enabled, rotation of the key
  contract,   \* model recorded on the active generation
  corpus,     \* models the stored vectors were made with
  desk,       \* each request: its step and what it read
  ingest,     \* the ingesting process: its step and what it read
  adapter,    \* its cached config and the digest it is cached under
  unowned,    \* history: the environment's embedder was used beside a row, or is not the model recorded
  crossed     \* history: a promotion changed the model under a running ingest, or the cache holds a config
              \* under the digest of a row that was not adopted

configVars == <<settings, contract, corpus, desk, ingest, adapter, unowned, crossed>>

NoRow     == [rev |-> 0, model |-> Seeded, status |-> "none", on |-> FALSE, key |-> 0]
FreeDesk  == [at |-> "free", rev |-> 0, model |-> Seeded]
NotCached == [digest |-> NoRow, model |-> Seeded, there |-> FALSE]

EmbedderConfigInit ==
  /\ settings = NoRow /\ contract = Seeded /\ corpus = {} /\ desk = [d \in Desks |-> FreeDesk]
  /\ ingest = [at |-> "idle", digest |-> NoRow, model |-> Seeded] /\ adapter = NotCached
  /\ unowned = FALSE /\ crossed = FALSE

-----------------------------------------------------------------------------
(* isGreenfield: no vector anywhere. *)
Greenfield == corpus = {}

(* embedderContractChangeOnNonGreenfield, read without a lock. *)
RefusesModel(m) == ~Greenfield /\ m # contract

(* PUT /embedder-config: the check first, the write later. *)
CheckPut(d, m) ==
  /\ desk[d].at = "free" /\ settings.rev < MaxRevision
  /\ ~RefusesModel(m)
  /\ desk' = [desk EXCEPT ![d] = [FreeDesk EXCEPT !.at = "put", !.model = m]]
  /\ UNCHANGED <<settings, contract, corpus, ingest, adapter, unowned, crossed>>

(* writeSecret: the validation is cleared, the key kept or rotated. *)
StageConfig(d) ==
  /\ desk[d].at = "put" /\ settings.rev < MaxRevision
  /\ \E k \in {settings.key, settings.rev + 1} :
       settings' = [rev |-> settings.rev + 1, model |-> desk[d].model, status |-> "none", on |-> TRUE, key |-> k]
  /\ desk' = [desk EXCEPT ![d] = FreeDesk]
  /\ UNCHANGED <<contract, corpus, ingest, adapter, unowned, crossed>>

(* A PUT that only flips `enabled` keeps the validation. *)
ToggleEnabled ==
  /\ settings.rev \in 1..MaxRevision - 1
  /\ settings' = [settings EXCEPT !.rev = @ + 1, !.on = ~@]
  /\ UNCHANGED <<contract, corpus, desk, ingest, adapter, unowned, crossed>>

(* POST /test reads the staged row and probes it. *)
BeginTest(d) ==
  /\ desk[d].at = "free" /\ settings.rev > 0
  /\ desk' = [desk EXCEPT ![d] = [at |-> "probe", rev |-> settings.rev, model |-> settings.model]]
  /\ UNCHANGED <<settings, contract, corpus, ingest, adapter, unowned, crossed>>

(* The probe fails: recorded if the row is still the one probed. *)
ProbeFails(d) ==
  /\ desk[d].at = "probe"
  /\ settings' = IF settings.rev = desk[d].rev THEN [settings EXCEPT !.status = "failed"] ELSE settings
  /\ desk' = [desk EXCEPT ![d] = FreeDesk]
  /\ UNCHANGED <<contract, corpus, ingest, adapter, unowned, crossed>>

(* The compare-and-swap of promoteValidatedEmbedderConfig. *)
SameConfig(d) == settings.rev = desk[d].rev

\* Mutant: a new model is promoted over an ingested corpus.
MayAdopt_Always(m) == TRUE

(* A model other than the generation's needs an empty corpus. *)
MayAdopt(m) == m = contract \/ Greenfield

(* promoteValidatedEmbedderConfig: one transaction under the row's lock. *)
Promote(d) ==
  /\ desk[d].at = "probe" /\ settings.rev < MaxRevision
  /\ SameConfig(d) /\ MayAdopt(desk[d].model)
  /\ settings' = [settings EXCEPT !.status = "ok", !.rev = @ + 1]
  /\ contract' = desk[d].model
  /\ crossed' = (crossed \/ (desk[d].model # contract /\ ingest.at # "idle"))
  /\ desk' = [desk EXCEPT ![d] = FreeDesk]
  /\ UNCHANGED <<corpus, ingest, adapter, unowned>>

(* 409: changed meanwhile, or not greenfield. *)
PromoteRefused(d) ==
  /\ desk[d].at = "probe" /\ ~(SameConfig(d) /\ MayAdopt(desk[d].model))
  /\ desk' = [desk EXCEPT ![d] = FreeDesk]
  /\ UNCHANGED <<settings, contract, corpus, ingest, adapter, unowned, crossed>>

-----------------------------------------------------------------------------
(* effectiveConfigDigest: everything but the revision. *)
Digest(r) == [r EXCEPT !.rev = IF r.rev = 0 THEN 0 ELSE 1]

(* resolveEffectiveEmbedderConfig: an enabled, validated row is adopted. *)
Adopted(r) == r.rev > 0 /\ r.on /\ r.status = "ok"

(* ensureCurrent: the digest is read first; a cached config under the same  *)
(* digest is used.                                                          *)
ReadDigest ==
  /\ ingest.at = "idle"
  /\ ingest' = IF adapter.there /\ adapter.digest = Digest(settings)
               THEN [at |-> "embedded", digest |-> adapter.digest, model |-> adapter.model]
               ELSE [ingest EXCEPT !.at = "resolve", !.digest = Digest(settings)]
  /\ UNCHANGED <<settings, contract, corpus, desk, adapter, unowned, crossed>>

(* Then the config is read and cached under the digest read before. With    *)
(* nothing to adopt the environment's embedder takes over.                  *)
ResolveConfig ==
  /\ ingest.at = "resolve"
  /\ IF Adopted(settings)
     THEN /\ adapter' = [digest |-> ingest.digest, model |-> settings.model, there |-> TRUE]
          /\ ingest' = [ingest EXCEPT !.at = "embedded", !.model = settings.model]
          /\ crossed' = (crossed \/ ingest.digest.model # settings.model \/ ~Adopted(ingest.digest)) /\ UNCHANGED unowned
     ELSE /\ adapter' = NotCached
          /\ ingest' = [ingest EXCEPT !.at = "embedded", !.model = LegacyModel]
          /\ unowned' = (unowned \/ settings.rev > 0 \/ LegacyModel # contract) /\ UNCHANGED crossed
  /\ UNCHANGED <<settings, contract, corpus, desk>>

(* onDbReadError: the cached config is used while the row cannot be read. *)
DatabaseUnreadable ==
  /\ ingest.at \in {"idle", "resolve"}
  /\ ingest' = IF adapter.there THEN [at |-> "embedded", digest |-> adapter.digest, model |-> adapter.model]
               ELSE [ingest EXCEPT !.at = "idle", !.digest = NoRow, !.model = Seeded]
  /\ crossed' = (crossed \/ (adapter.there /\ adapter.model # contract))
  /\ UNCHANGED <<settings, contract, corpus, desk, adapter, unowned>>

(* The vectors are stored, in a transaction that knows nothing of models. *)
StoreVectors ==
  /\ ingest.at = "embedded" /\ corpus' = corpus \cup {ingest.model}
  /\ ingest' = [at |-> "idle", digest |-> NoRow, model |-> Seeded]
  /\ UNCHANGED <<settings, contract, desk, adapter, unowned, crossed>>

(* The embedder fails: the call throws and nothing is stored, but what was  *)
(* cached stays; a process that dies loses it.                              *)
EmbedFails ==
  /\ ingest.at # "idle" /\ ingest' = [at |-> "idle", digest |-> NoRow, model |-> Seeded]
  /\ adapter' \in {adapter, NotCached}
  /\ UNCHANGED <<settings, contract, corpus, desk, unowned, crossed>>

EmbedderConfigNext ==
  \/ ToggleEnabled \/ ReadDigest \/ ResolveConfig \/ DatabaseUnreadable \/ StoreVectors \/ EmbedFails
  \/ \E d \in Desks : \/ StageConfig(d) \/ BeginTest(d) \/ ProbeFails(d) \/ Promote(d) \/ PromoteRefused(d)
                      \/ \E m \in Models : CheckPut(d, m)

EmbedderConfigSpec == EmbedderConfigInit /\ [][EmbedderConfigNext]_configVars

-----------------------------------------------------------------------------
(* All vectors of the corpus were made by the model its generation records, *)
(* whatever requests and ingests overlap, unless a promotion changed the    *)
(* model under a running ingest, a config was cached under the digest of a  *)
(* row that was not adopted, or the environment's embedder was used beside  *)
(* a row that was disabled or not validated.                                *)
OneModelCorpus == ~crossed /\ ~unowned => corpus \subseteq {contract}

(* A config that is adopted was promoted as it stands: its model is the one *)
(* the active generation records.                                           *)
AdoptedIsRecorded == Adopted(settings) => settings.model = contract

(* The corpus, the adopted configuration and the recorded contract name one *)
(* model.                                                                   *)
EmbedderAgrees == OneModelCorpus /\ AdoptedIsRecorded
=============================================================================
