----------------------------- MODULE MCHistory ------------------------------
(***************************************************************************)
(* The task registry, the profiles, the filing of cycles, the recorder and *)
(* the choice of the programme shown: parts of an entry that share no      *)
(* state in the models, explored in one run.  part names the one whose     *)
(* steps a behaviour takes; the variables of the others keep their initial *)
(* values.                                                                 *)
(***************************************************************************)
EXTENDS TaskRegistry, ProfileCatalog, CycleFiling, Recorder, ProgramSwitch, TLC

CONSTANTS cotton, quick, wool

VARIABLE part

\* Profiles: one run of programme cotton, one of quick, a backfilled one without a label, and
\* the ids of runs to come, the last of a run without a usable trace.
StartListDef == (1 :> "past") @@ (2 :> "past") @@ (3 :> "backfill") @@ [n \in 4..6 |-> "none"]
StartLabelDef == (1 :> cotton) @@ (2 :> quick) @@ [n \in 3..6 |-> None]

Interchangeable ==
    {f @@ g : f \in Permutations(Coroutines), g \in Permutations(Filers)}

partVars == <<part, registryVars, catalogVars, filingVars, recorderVars, switchVars>>

PartsInit ==
    /\ part \in {"registry", "catalog", "filing", "recorder", "switch"}
    /\ RegistryInit /\ CatalogInit /\ FilingInit /\ RecorderInit /\ SwitchInit

PartsNext ==
    \/ /\ part = "registry" /\ RegistryNext
       /\ UNCHANGED <<part, catalogVars, filingVars, recorderVars, switchVars>>
    \/ /\ part = "catalog" /\ CatalogNext
       /\ UNCHANGED <<part, registryVars, filingVars, recorderVars, switchVars>>
    \/ /\ part = "filing" /\ FilingNext
       /\ UNCHANGED <<part, registryVars, catalogVars, recorderVars, switchVars>>
    \/ /\ part = "recorder" /\ RecorderNext
       /\ UNCHANGED <<part, registryVars, catalogVars, filingVars, switchVars>>
    \/ /\ part = "switch" /\ SwitchNext
       /\ UNCHANGED <<part, registryVars, catalogVars, filingVars, recorderVars>>

PartsSpec == PartsInit /\ [][PartsNext]_partVars
=============================================================================
