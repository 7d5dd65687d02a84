------------------------------- MODULE MCEntry -------------------------------
(***************************************************************************)
(* The writers of an entry's store and the watchdog of its appliance: two  *)
(* parts that share no state in the models, explored in one run.  part     *)
(* names the one whose steps a behaviour takes.                            *)
(*                                                                         *)
(* The writers: two tasks, one command and one reload, beside one other    *)
(* entry; one finished task is kept of each entry, so that every further   *)
(* finish evicts.                                                          *)
(***************************************************************************)
EXTENDS EntryWriters, Watchdog

VARIABLE part

entryVars == <<part, vars, w>>

EntryInit ==
    /\ part \in {"writers", "watchdog"}
    /\ Init /\ WatchInit

EntryNext ==
    \/ part = "writers" /\ Next /\ UNCHANGED <<part, w>>
    \/ part = "watchdog" /\ WatchNext /\ UNCHANGED <<part, vars>>

EntrySpec ==
    /\ EntryInit /\ [][EntryNext]_entryVars
    /\ part = "writers" => Fairness
    /\ part = "watchdog" => WatchFairness
=============================================================================
