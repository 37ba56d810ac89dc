------------------------------ MODULE MCServices ------------------------------
(***************************************************************************)
(* Instance of the services beside the Run Coordinator for TLC.  They keep *)
(* their state apart and do not call one another (the orchestrator of      *)
(* workflows starts executors, which are external; the control plane has   *)
(* the coordinator's transactions as steps of its own), so that each is    *)
(* explored alone: the other variables stay as they began.                 *)
(***************************************************************************)
EXTENDS ActionCoordinator, MemoryService, WorkflowRun, EvolutionRelease, RagIndex,
        ContextServices, SchemaLock, AuthorityStores, Evidence, ArtifactStore,
        ControlPlane

VARIABLE alone

(* The variables of the services, grouped so that most can be named at once.*)
runtimeVars == <<vars, memoryVars, workflowVars, evolutionVars, ragVars, contextVars>>

recordVars == <<schemaVars, storeVars, evidenceVars, artifactVars, controlVars>>

serviceVars == <<alone, runtimeVars, recordVars>>

-----------------------------------------------------------------------------
(* A private note that lapses, a shared memory too weak to be approved and *)
(* a confident shared one that says the same as the first.                 *)
MCCandidates ==
  [note |-> [subject |-> "ann", scope |-> "subject", statement |-> "a",
             sensitivity |-> "internal", confidence |-> 1, consent |-> TRUE,
             hint |-> [unit |-> "d", number |-> 1]],
   weak |-> [subject |-> "ann", scope |-> "tenant", statement |-> "b",
             sensitivity |-> "public", confidence |-> 1, consent |-> FALSE,
             hint |-> [unit |-> "h", number |-> 30]],
   team |-> [subject |-> "ann", scope |-> "team", statement |-> "a",
             sensitivity |-> "public", confidence |-> 2, consent |-> FALSE,
             hint |-> [unit |-> "none"]]]

MCOverlapping == {<<"a", "b">>, <<"b", "a">>}

MCSensitiveDays == [class \in {"public"} |-> 2]

MCEdges == {{<<"a", "c">>, <<"b", "c">>}, {<<"a", "b">>}}

(* Two changes the strategy can make, and one that touches governance.     *)
MCSubject ==
  [mutable |-> {"prompt", "temperature"}, frozen |-> {"owner"}, levels |-> {"r1"},
   max_patch_fields |-> 2, ranges |-> [temperature |-> [low |-> 0, high |-> 1]]]

MCAuthority ==
  [max_triggers_per_window |-> 1, allow_mutation |-> TRUE,
   governance_kernel_frozen |-> TRUE]

MCInputs ==
  [symptom : {"quality"}, target : {"agent"}, field : {"temperature"},
   before : {NumberValue(0)}, after : {NumberValue(1), NumberValue(2)},
   known_failed : {FALSE}]
  \union {[symptom |-> "governance", target |-> "governance", field |-> "owner",
           before |-> NoValue, after |-> NumberValue(1), known_failed |-> FALSE]}

(* Two schemas; the first changes with its version or without, its second  *)
(* version refers to the other schema, and one document has no version.    *)
MCSchemas ==
  {[id |-> "s1", version |-> "1", text |-> "a", refs |-> {}],
   [id |-> "s1", version |-> "1", text |-> "b", refs |-> {}],
   [id |-> "s1", version |-> "2", text |-> "a", refs |-> {"s2"}],
   [id |-> "s1", version |-> "none", text |-> "a", refs |-> {}],
   [id |-> "s2", version |-> "1", text |-> "a", refs |-> {}]}

-----------------------------------------------------------------------------
Services ==
  {"actions", "memory", "workflow", "evolution", "rag", "cache", "records",
   "schemas", "stores", "evidence", "artifacts", "control"}

ServicesInit ==
  /\ alone \in Services
  /\ Init /\ MemoryInit /\ WorkflowInit /\ EvolutionInit /\ RagInit /\ ContextInit
  /\ SchemaInit /\ StoresInit /\ EvidenceInit /\ ArtifactInit /\ ControlInit
  /\ alone # "stores" => kind = "outbox"

ActionsAlone ==
  /\ alone = "actions" /\ Next
  /\ UNCHANGED <<alone, memoryVars, workflowVars, evolutionVars, ragVars, contextVars, recordVars>>

MemoryAlone ==
  /\ alone = "memory" /\ MemoryNext
  /\ UNCHANGED <<alone, vars, workflowVars, evolutionVars, ragVars, contextVars, recordVars>>

WorkflowAlone ==
  /\ alone = "workflow" /\ WorkflowNext
  /\ UNCHANGED <<alone, vars, memoryVars, evolutionVars, ragVars, contextVars, recordVars>>

EvolutionAlone ==
  /\ alone = "evolution" /\ EvolutionNext
  /\ UNCHANGED <<alone, vars, memoryVars, workflowVars, ragVars, contextVars, recordVars>>

RagAlone ==
  /\ alone = "rag" /\ RagNext
  /\ UNCHANGED <<alone, vars, memoryVars, workflowVars, evolutionVars, contextVars, recordVars>>

ContextAlone ==
  /\ \/ alone = "cache" /\ CacheNext
     \/ alone = "records" /\ RecordNext
  /\ UNCHANGED <<alone, vars, memoryVars, workflowVars, evolutionVars, ragVars, recordVars>>

SchemasAlone ==
  /\ alone = "schemas" /\ SchemaNext
  /\ UNCHANGED <<alone, runtimeVars, storeVars, evidenceVars, artifactVars, controlVars>>

StoresAlone ==
  /\ alone = "stores" /\ StoresNext
  /\ UNCHANGED <<alone, runtimeVars, schemaVars, evidenceVars, artifactVars, controlVars>>

EvidenceAlone ==
  /\ alone = "evidence" /\ EvidenceNext
  /\ UNCHANGED <<alone, runtimeVars, schemaVars, storeVars, artifactVars, controlVars>>

ArtifactsAlone ==
  /\ alone = "artifacts" /\ ArtifactNext
  /\ UNCHANGED <<alone, runtimeVars, schemaVars, storeVars, evidenceVars, controlVars>>

ControlAlone ==
  /\ alone = "control" /\ ControlNext
  /\ UNCHANGED <<alone, runtimeVars, schemaVars, storeVars, evidenceVars, artifactVars>>

ServicesNext ==
  \/ ActionsAlone \/ MemoryAlone \/ WorkflowAlone
  \/ EvolutionAlone \/ RagAlone \/ ContextAlone
  \/ SchemasAlone \/ StoresAlone \/ EvidenceAlone \/ ArtifactsAlone
  \/ ControlAlone

ServicesSpec ==
  ServicesInit /\ [][ServicesNext]_serviceVars /\ WorkflowFairness

(* The state of every service has its type.                                *)
ServicesTypeOK ==
  /\ alone = "actions" => TypeOK
  /\ alone = "memory" => MemoryTypeOK
  /\ alone = "workflow" => WorkflowTypeOK
  /\ alone = "evolution" => EvolutionTypeOK
  /\ alone = "rag" => RagTypeOK
  /\ alone \in {"cache", "records"} => ContextTypeOK
  /\ alone = "schemas" => SchemaTypeOK
  /\ alone = "stores" => StoresTypeOK
  /\ alone = "evidence" => EvidenceTypeOK
  /\ alone = "artifacts" => ArtifactTypeOK
  /\ alone = "control" => ControlTypeOK

(* What the services settled stays settled, whatever is called afterwards: *)
(* retired memories, rolled-back manifests, conflicts on the registry, the *)
(* history of the schema lock and the stored revisions of actions.         *)
WhatIsSettledStays ==
  /\ RevisionsNeverFall
  /\ RecordsOnlyRetire
  /\ RolledBackForGood
  /\ ConflictsStand
  /\ UpdatesKeepHistory
=============================================================================
