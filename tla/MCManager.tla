----------------------------- MODULE MCManager ------------------------------
(***************************************************************************)
(* The manager of an appliance and the community store's reads, which      *)
(* share no state in the models, explored in one run: part names the one   *)
(* whose steps a behaviour takes.  Two starts: a cycle whose tail may      *)
(* still be under way, and the probe or cycle that follows it.             *)
(***************************************************************************)
EXTENDS CycleManager, StoreCatalog, TLC

VARIABLE part

Interchangeable == Permutations(Readers)

partVars == <<part, vars, storeVars>>

PartsInit ==
    /\ part \in {"manager", "store"}
    /\ Init /\ StoreInit
    /\ part = "manager" => device.status = Absent

PartsNext ==
    \/ part = "manager" /\ Next /\ UNCHANGED <<part, storeVars>>
    \/ part = "store" /\ StoreNext /\ UNCHANGED <<part, vars>>
    \/ part = "store" /\ asked = MaxReads /\ UNCHANGED partVars    \* the bounded reads are over

PartsSpec == PartsInit /\ [][PartsNext]_partVars
=============================================================================
