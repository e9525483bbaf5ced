------------------------------ MODULE MCIntake ------------------------------
(***************************************************************************)
(* What reaches the system from GitHub, and the workspaces reviews clone   *)
(* into. The parts share no state, so a behaviour runs one of them: `part` *)
(* says which.                                                             *)
(***************************************************************************)
EXTENDS Ingest, WorkflowEvents, Workspaces, TLC

CONSTANTS e1, e2, t1, t2
VARIABLE part

MCLockKey == e1 :> 1 @@ e2 :> 2

intakeVars == <<part, ingestVars, ownersVars, eventsVars, workspaceVars>>

IntakeInit ==
  /\ part \in {"ingest", "owners", "events", "workspaces"}
  /\ IngestInit /\ OwnersInit /\ EventsInit /\ WorkspacesInit
  /\ part # "ingest" => github.inst = "active" /\ github.pr = "none"
  /\ part # "workspaces" => ~heartbeats

IntakeNext ==
  /\ UNCHANGED part
  /\ \/ part = "ingest" /\ IngestNext /\ UNCHANGED <<ownersVars, eventsVars, workspaceVars>>
     \/ part = "owners" /\ OwnersNext /\ UNCHANGED <<ingestVars, eventsVars, workspaceVars>>
     \/ part = "events" /\ EventsNext /\ UNCHANGED <<ingestVars, ownersVars, workspaceVars>>
     \/ part = "workspaces" /\ WorkspacesNext /\ UNCHANGED <<ingestVars, ownersVars, eventsVars>>

(* RepairFairness and JanitorFairness, each for the behaviours of its part. *)
IntakeFairness ==
  /\ SF_ingestVars(part = "ingest" /\ DriftSweep)
  /\ WF_ingestVars(part = "ingest" /\ CooldownEnds)
  /\ WF_ingestVars(part = "ingest" /\ Dispatch(Row("repair", 0)))
  /\ SF_ingestVars(part = "ingest" /\ HydrateLists) /\ SF_ingestVars(part = "ingest" /\ HydrateWrites)
  /\ WF_workspaceVars(part = "workspaces" /\ JanitorStep)

IntakeSpec == IntakeInit /\ [][IntakeNext]_intakeVars /\ IntakeFairness
=============================================================================
