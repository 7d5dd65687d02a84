----------------------------- MODULE MCRunning ------------------------------
(***************************************************************************)
(* The held notifications, the two trigger trackers, the import of past    *)
(* runs and the scan that finds them: parts of an entry that share no      *)
(* state in the models, explored in one run.  part names the one whose     *)
(* steps a behaviour takes; the variables of the others keep their initial *)
(* values.                                                                 *)
(***************************************************************************)
EXTENDS HeldNotifications, LiveTriggers, TumbleTriggers, HistoryImport, HistoryScan,
    TLC

CONSTANTS cotton, quick

VARIABLE part

\* A day of three hours, with quiet hours that cross midnight.
WindowsDef == {<<2, 1>>}

\* What the panel may show of the estimate: none, no time left known, two minutes left,
\* one, none, and a cycle over its expected time.
Estimate(known, left, over_, phase_) ==
    [known |-> known, left |-> left, over |-> over_, phase |-> phase_]

EstimatesDef ==
    {Estimate(FALSE, -1, -1, -1), Estimate(TRUE, -1, 0, 1), Estimate(TRUE, 2, 0, 1),
     Estimate(TRUE, 1, 0, 2), Estimate(TRUE, 0, 0, 2), Estimate(TRUE, -1, 1, 2)}

\* A file of rows of two entities, and readings on both sides of the two powers that
\* bound a run.
RowsInFileDef == [entity : {"wanted", "other", "third", "none"}, at : {0, 1}, power : {Bad, 5}]
ReadingsDef == [gap : {1, 3, 5}, power : {NoValue, 0, 3, 5}]

Interchangeable == Permutations(Programs)

partVars == <<part, heldVars, triggerVars, tumbleVars, importVars, scanVars>>

PartsInit ==
    /\ part \in {"notifications", "triggers", "tumbles", "import", "scan"}
    /\ HeldInit /\ TriggersInit /\ TumblesInit /\ ImportInit /\ ScanInit
    /\ part # "notifications" =>
           halfHour = 0 /\ home /\ window = CHOOSE w \in Windows : TRUE
    /\ part # "scan" => scanStage = "csv"

PartsNext ==
    \/ /\ part = "notifications" /\ HeldNext
       /\ UNCHANGED <<part, triggerVars, tumbleVars, importVars, scanVars>>
    \/ /\ part = "triggers" /\ TriggersNext
       /\ UNCHANGED <<part, heldVars, tumbleVars, importVars, scanVars>>
    \/ /\ part = "tumbles" /\ TumblesNext
       /\ UNCHANGED <<part, heldVars, triggerVars, importVars, scanVars>>
    \/ /\ part = "import" /\ ImportNext
       /\ UNCHANGED <<part, heldVars, triggerVars, tumbleVars, scanVars>>
    \/ /\ part = "scan" /\ ScanNext
       /\ UNCHANGED <<part, heldVars, triggerVars, tumbleVars, importVars>>

PartsSpec == PartsInit /\ [][PartsNext]_partVars
=============================================================================
