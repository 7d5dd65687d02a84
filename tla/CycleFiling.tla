---------------------------- MODULE CycleFiling -----------------------------
(***************************************************************************)
(* How a cycle reaches the disk (manager.py, profile_store.py): the        *)
(* snapshot of the cycle under way in a file of its own, the history with  *)
(* its counters in the main file, the cycle-end tail that files a cycle    *)
(* and clears its snapshot, and the restoration after a restart.           *)
(*                                                                         *)
(* A write in flight takes the newest data its store was given, and a      *)
(* crash falls before it or after it.  A tail may fail before the cycle is *)
(* added, and the add may be refused.  What the detector does inside a     *)
(* cycle, the label, and the envelopes are left out; several tails may be  *)
(* under way, for a new cycle can begin and end in the awaits of one.      *)
(***************************************************************************)
EXTENDS Integers, FiniteSets

CONSTANTS
    MaxBegun,     \* bound: cycles
    MaxBoots      \* bound: set-ups of the entry

ASSUME FilingAssumption == MaxBegun \in Nat /\ MaxBoots \in Nat \ {0}

CycleIds == 1..MaxBegun

\* The snapshot of an anti-crease tail (_in_anticrease_tail): of no cycle's, for that is over.
WrinkleSnap == -1

VARIABLES
    live,       \* the cycle the detector has in progress, 0 for none
    starting,   \* it is in STARTING
    rest,       \* where it is when there is none: off, ended (a terminal state), wrinkle (the tail)
    token,      \* the cycle of _ranking_snapshot_cycle_id, 0 while it is ""
    tokenOf,    \* the token a cycle's tail captured at its end
    stage,      \* where a cycle's tail is
    before,     \* odometer_before_add of a tail
    main,       \* ProfileStore._data: past_cycles, odometer, records made and energies counted
    mainFile,   \* the file
    mainDue,    \* a write of it: none, debounced, or under way
    snap,       \* the cycle of _active_data, 0 for {}, or WrinkleSnap
    snapFile,   \* the file
    snapDue,    \* a write of it is under way
    entry,      \* up, stopping (Home Assistant), unloading, closing (its last writes), down
    boots,     \* set-ups so far
    begun,      \* cycles begun
    guarded,    \* history: cycles past STARTING whose snapshot reached the file
    dropped,    \* history: false starts, ghosts, cycles reset away, snapshots too old or
                \* unusable, cycles the store refused
    cut,        \* history: cycles lost, or exposed to it, between the two files: one filed since the
                \* last write of the history, and one whose snapshot made way before it was filed
    miscounted  \* history: the odometer may have missed a cycle

filingVars == <<live, starting, rest, token, tokenOf, stage, before, main, mainFile, mainDue, snap,
                snapFile, snapDue, entry, boots, begun, guarded, dropped, cut, miscounted>>

detectorVars == <<live, starting, rest, token>>
tailVars == <<tokenOf, stage, before>>
mainVars == <<main, mainFile, mainDue>>
snapVars == <<snap, snapFile, snapDue>>
entryVars == <<entry, boots>>
pastVars == <<begun, guarded, dropped, cut, miscounted>>

NoTails == [c \in CycleIds |-> "none"]
NoCounts == [c \in CycleIds |-> 0]
NewMain == [past |-> {}, odo |-> 0, records |-> NoCounts, energies |-> NoCounts]

Filed(m) == {c \in CycleIds : m.records[c] > 0}

\* get_lifetime_cycle_count: at least the records on hand.
Odometer(m) == IF m.odo < Cardinality(m.past) THEN Cardinality(m.past) ELSE m.odo

FilingInit ==
    /\ live = 0 /\ starting = FALSE /\ rest = "off" /\ token = 0
    /\ tokenOf = NoCounts /\ stage = NoTails /\ before = NoCounts
    /\ main = NewMain /\ mainFile = NewMain /\ mainDue = "none"
    /\ snap = 0 /\ snapFile = 0 /\ snapDue = FALSE
    /\ entry = "up" /\ boots = 1 /\ begun = 0
    /\ guarded = {} /\ dropped = {} /\ cut = {} /\ miscounted = FALSE

-----------------------------------------------------------------------------
\* The cycle.  The listeners stay until an unload has drained the tails.
Listening == entry \in {"up", "stopping", "unloading"}

\* The tails run until an unload cancels them or the process is gone.
TailsRun == entry \in {"up", "stopping"}

\* A cycle whose snapshot another one takes the place of, or that is cleared, before its
\* tail has filed it.
Exposed == ({snap} \intersect CycleIds) \ ({live} \union Filed(main))

StartsRun ==
    /\ Listening /\ live = 0 /\ begun < MaxBegun
    /\ begun' = begun + 1 /\ live' = begun' /\ starting' = TRUE /\ rest' = "off"
    /\ UNCHANGED <<token, tailVars, mainVars, snapVars, entryVars, guarded, dropped, cut, miscounted>>

\* RUNNING: the cycle takes the token.
CommitRun ==
    /\ Listening /\ starting
    /\ starting' = FALSE /\ token' = live
    /\ UNCHANGED <<live, rest, tailVars, mainVars, snapVars, entryVars, pastVars>>

\* A false start goes back to OFF, and its snapshot stays.
AbortStart ==
    /\ Listening /\ starting
    /\ starting' = FALSE /\ live' = 0 /\ dropped' = dropped \union {live}
    /\ UNCHANGED <<rest, token, tailVars, mainVars, snapVars, entryVars, begun, guarded, cut, miscounted>>

\* _check_state_save, every minute or so, a trigger mark, a pause, a resume.
SaveSnapshot ==
    /\ Listening /\ live # 0
    /\ snap' = live /\ snapDue' = TRUE
    /\ cut' = cut \union Exposed
    /\ UNCHANGED <<detectorVars, tailVars, mainVars, snapFile, entryVars, begun, guarded, dropped, miscounted>>

WriteSnapshot ==
    /\ snapDue
    /\ snapFile' = snap /\ snapDue' = FALSE
    /\ guarded' = guarded \union (IF snap = live /\ ~starting THEN {snap} \ {0} ELSE {})
    /\ UNCHANGED <<detectorVars, tailVars, mainVars, snap, entryVars, begun, dropped, cut, miscounted>>

\* async_clear_active_cycle: {} is not written again.
ClearsSnapshot == snap' = 0 /\ snapDue' = (snap # 0 \/ snapDue)

\* _on_cycle_end of a cycle that is stored: the tail starts, with its final match.
\* Once an unload has begun there is none.  The detector shows the end, or is in the
\* anti-crease tail at once (_maybe_finalize_anticrease_tail).
EndRun ==
    /\ Listening /\ live # 0 /\ ~starting
    /\ live' = 0 /\ rest' \in {"ended", "wrinkle"}
    /\ stage' = IF TailsRun THEN [stage EXCEPT ![live] = "matching"] ELSE stage
    /\ tokenOf' = [tokenOf EXCEPT ![live] = token]
    /\ UNCHANGED <<starting, token, before, mainVars, snapVars, entryVars, pastVars>>

\* A ghost, or a cycle reset away for a recording or a new sensor.
DropRun ==
    /\ Listening /\ live # 0
    /\ live' = 0 /\ starting' = FALSE /\ dropped' = dropped \union {live}
    /\ rest' \in {"off", "ended", "wrinkle"}
    /\ ClearsSnapshot
    /\ cut' = cut \union Exposed
    /\ UNCHANGED <<token, tailVars, mainVars, snapFile, entryVars, begun, guarded, miscounted>>

\* The shown end, or the anti-crease tail, is over.
RestEnds ==
    /\ Listening /\ live = 0 /\ rest # "off"
    /\ rest' = "off"
    /\ UNCHANGED <<live, starting, token, tailVars, mainVars, snapVars, entryVars, pastVars>>

\* async_start_recording in one of these: the detector is reset and the snapshot cleared,
\* though the tail of the cycle that ended may not have filed it.
ResetForRecording ==
    /\ Listening /\ live = 0 /\ rest # "off"
    /\ rest' = "off"
    /\ ClearsSnapshot
    /\ cut' = cut \union Exposed
    /\ UNCHANGED <<live, starting, token, tailVars, mainVars, snapFile, entryVars, begun, guarded,
                   dropped, miscounted>>

-----------------------------------------------------------------------------
\* The tail.
MutReadOdometer(m, c) == Odometer([m EXCEPT !.past = @ \union {c}])

\* The odometer is read before the add, which moves its floor.
ReadOdometer(m, c) == Odometer(m)

\* async_add_cycle; the envelope of its label is then rebuilt in the executor.
AddRun(c) ==
    /\ TailsRun /\ stage[c] = "matching"
    /\ stage' = [stage EXCEPT ![c] = "adding"]
    /\ before' = [before EXCEPT ![c] = ReadOdometer(main, c)]
    /\ main' = [main EXCEPT !.past = @ \union {c}, !.records[c] = @ + 1]
    /\ UNCHANGED <<detectorVars, tokenOf, mainFile, mainDue, snapVars, entryVars, pastVars>>

MutOwnsSnapshot(c) == TRUE

\* The snapshot is cleared unless a newer cycle has the token.
OwnsSnapshot(c) == token = tokenOf[c]

ClearsOwn(c) ==
    IF OwnsSnapshot(c) THEN ClearsSnapshot /\ cut' = cut \union Exposed
    ELSE UNCHANGED <<snap, snapDue, cut>>

\* An exception before the add ends the steps, and the snapshot stays.
FailRun(c) ==
    /\ TailsRun /\ stage[c] = "matching"
    /\ stage' = [stage EXCEPT ![c] = "flushing"]
    /\ UNCHANGED <<detectorVars, tokenOf, before, mainVars, snapVars, entryVars, pastVars>>

\* async_add_cycle raises: nothing is on record and nothing counted, and the tail goes on
\* to clear the snapshot.  The cycle is given up.  A debounced write is made at once.
FailAdd(c) ==
    /\ TailsRun /\ stage[c] = "matching"
    /\ stage' = [stage EXCEPT ![c] = "flushing"]
    /\ dropped' = dropped \union {c}
    /\ mainDue' = IF mainDue = "none" THEN "none" ELSE "now"
    /\ ClearsOwn(c)
    /\ UNCHANGED <<detectorVars, tokenOf, before, main, mainFile, snapFile, entryVars, begun, guarded,
                   miscounted>>

\* Without another await: the odometer, which is never lowered, the energy, the
\* snapshot, the announcements, and the one immediate write.
CountRun(c) ==
    /\ TailsRun /\ stage[c] = "adding"
    /\ stage' = [stage EXCEPT ![c] = "flushing"]
    /\ LET next == before[c] + 1 IN
       main' = [main EXCEPT !.odo = IF next < Odometer(main) THEN @ ELSE next, !.energies[c] = @ + 1]
    /\ miscounted' = (miscounted \/ \E d \in CycleIds \ {c} : stage[d] = "adding")
    /\ mainDue' = "now"
    /\ ClearsOwn(c)
    /\ UNCHANGED <<detectorVars, tokenOf, before, mainFile, snapFile, entryVars, begun, guarded, dropped>>

\* Another save while the cycle end coalesces them: a debounced write.
SaveSoon ==
    /\ TailsRun /\ mainDue = "none" /\ main # mainFile
    /\ mainDue' = "debounced"
    /\ UNCHANGED <<detectorVars, tailVars, main, mainFile, snapVars, entryVars, pastVars>>

WriteMain ==
    /\ mainDue # "none"
    /\ mainFile' = main /\ mainDue' = "none"
    /\ UNCHANGED <<detectorVars, tailVars, main, snapVars, entryVars, pastVars>>

\* _async_close_cycle_end, once flushed.
CloseRun(c) ==
    /\ TailsRun /\ stage[c] = "flushing" /\ mainDue # "now"
    /\ stage' = [stage EXCEPT ![c] = "none"]
    /\ token' = IF token = tokenOf[c] THEN 0 ELSE token
    /\ UNCHANGED <<live, starting, rest, tokenOf, before, mainVars, snapVars, entryVars, pastVars>>

\* The user deletes a cycle that is closed; the odometer stays.
DeleteRun(c) ==
    /\ TailsRun /\ c \in main.past /\ stage[c] = "none" /\ ~snapDue
    /\ main' = [main EXCEPT !.past = @ \ {c}]
    /\ mainDue' = "now"
    /\ cut' = IF c \in {snap, snapFile} THEN cut \union {c} ELSE cut
    /\ UNCHANGED <<detectorVars, tailVars, mainFile, snapVars, entryVars, begun, guarded, dropped, miscounted>>

-----------------------------------------------------------------------------
\* Unload, stop, crash, and the next set-up.

\* A cycle was added and its counters not yet.
Uncounted(m) == \E c \in Filed(m) : m.energies[c] # m.records[c]

\* async_shutdown cancels the tails, and may cancel a snapshot's write before it began.
Unload ==
    /\ entry = "up" /\ boots < MaxBoots
    /\ entry' = "unloading"
    /\ stage' = NoTails
    /\ mainDue' = IF stage # NoTails \/ mainDue # "none" THEN "now" ELSE "none"
    /\ snapDue' \in {snapDue, FALSE}
    /\ miscounted' = (miscounted \/ Uncounted(main))
    /\ UNCHANGED <<detectorVars, tokenOf, before, main, mainFile, snap, snapFile, boots, begun, guarded,
                   dropped, cut>>

\* What a stop and an unload save besides: a cycle in progress as it is, and the
\* anti-crease tail, over the snapshot of the cycle that ended, filed or not.
SavesLast ==
    IF live # 0 \/ rest = "wrinkle"
    THEN /\ snap' = (IF live # 0 THEN live ELSE WrinkleSnap) /\ snapDue' = TRUE
         /\ cut' = cut \union Exposed
    ELSE UNCHANGED <<snap, snapDue, cut>>

\* The last writes of an unload: this snapshot, and the store.
LastWrites ==
    /\ entry = "unloading"
    /\ entry' = "closing"
    /\ SavesLast
    /\ UNCHANGED <<detectorVars, tailVars, mainVars, snapFile, boots, begun, guarded, dropped, miscounted>>

\* Home Assistant stops, without unloading the entry: the tails go on until it is gone.
HomeStops ==
    /\ entry = "up" /\ boots < MaxBoots
    /\ entry' = "stopping"
    /\ SavesLast
    /\ UNCHANGED <<detectorVars, tailVars, mainVars, snapFile, boots, begun, guarded, dropped, miscounted>>

\* The unload or the stop is over, or the process is killed at any moment: only the files
\* are left.
Gone ==
    /\ entry # "down" /\ boots < MaxBoots
    /\ entry' = "down"
    /\ live' = 0 /\ starting' = FALSE /\ rest' = "off" /\ token' = 0
    /\ stage' = NoTails /\ tokenOf' = NoCounts /\ before' = NoCounts
    /\ main' = mainFile /\ mainDue' = "none"
    /\ snap' = snapFile /\ snapDue' = FALSE
    /\ miscounted' = (miscounted \/ Uncounted(mainFile))
    /\ cut' = cut \union ((Filed(main) \ Filed(mainFile)) \ {snapFile})
    /\ UNCHANGED <<mainFile, snapFile, boots, begun, guarded, dropped>>

MutStillActive(c) == TRUE

\* A snapshot of a stored cycle is no active cycle.
StillActive(c) == c \notin main.past

\* _attempt_state_restoration, after async_load has healed the odometer.  A snapshot
\* too old, or one the detector cannot take, is cleared; one of STARTING, and one of an
\* anti-crease tail, is restored and cleared.
Restore ==
    /\ entry = "down"
    /\ entry' = "up" /\ boots' = boots + 1
    /\ main' = [main EXCEPT !.odo = Odometer(main)]
    /\ \/ /\ snap \in CycleIds /\ StillActive(snap)
          /\ rest' = "off" /\ live' = snap /\ starting' \in BOOLEAN
          /\ IF starting' THEN ClearsSnapshot /\ guarded' = guarded \ {snap}
             ELSE UNCHANGED <<snap, snapDue, guarded>>
          /\ UNCHANGED dropped
       \/ /\ live' = 0 /\ starting' = FALSE
          /\ rest' \in {"off"} \union (IF snap = WrinkleSnap THEN {"wrinkle"} ELSE {})
          /\ ClearsSnapshot
          /\ dropped' = IF StillActive(snap) THEN dropped \union ({snap} \intersect CycleIds) ELSE dropped
          /\ UNCHANGED guarded
    /\ UNCHANGED <<token, tailVars, mainFile, mainDue, snapFile, begun, cut, miscounted>>

FilingNext ==
    \/ StartsRun \/ CommitRun \/ AbortStart \/ SaveSnapshot \/ WriteSnapshot \/ EndRun \/ DropRun
    \/ RestEnds \/ ResetForRecording
    \/ \E c \in CycleIds : \/ AddRun(c) \/ FailRun(c) \/ FailAdd(c)
                          \/ CountRun(c) \/ CloseRun(c) \/ DeleteRun(c)
    \/ SaveSoon \/ WriteMain
    \/ HomeStops \/ Unload \/ LastWrites \/ Gone \/ Restore

FilingSpec == FilingInit /\ [][FilingNext]_filingVars

-----------------------------------------------------------------------------
(* A cycle is filed once, and its energy counted once, over every restart: *)
(* a restart between the write of the history and the clearing of the      *)
(* snapshot does not end it again (audit MANAGER-04).                      *)
FiledOnceEver == \A c \in CycleIds \ cut : main.records[c] <= 1 /\ main.energies[c] <= 1

(* A cycle whose snapshot reached the disk past STARTING is not lost: it   *)
(* is in progress, in its tail, filed, or in the snapshot a restart reads; *)
(* another cycle's tail does not strip it of it, nor do its own before it  *)
(* is filed, a false start, a reload.  Excused are the cycles dropped on   *)
(* purpose or refused by the store, and those of cut: a crash between the  *)
(* write of the one file and of the other, and a snapshot that makes way   *)
(* before its cycle is filed, for another cycle's, for a recording, or,    *)
(* at an unload or a stop, for that of the anti-crease tail, though "the   *)
(* cycle end has already cleared the active slot" is said of this one.     *)
SnapshotSurvives ==
    \A c \in guarded \ (dropped \union cut) :
        \/ c = live \/ stage[c] # "none" \/ c \in Filed(main)
        \/ c \in {snap, snapFile}

(* A cycle is neither filed twice nor lost, wherever a stop or a crash     *)
(* falls between its snapshot and the history, but for what is excused.    *)
FiledAndKept == FiledOnceEver /\ SnapshotSurvives

(* Between tails the odometer reads the records that were ever filed, also *)
(* when records were deleted (audit MANAGER-05, discussion #414).          *)
OdometerExact ==
    ~miscounted /\ (\A c \in CycleIds : stage[c] # "adding")
        => Odometer(main) = Cardinality({r \in CycleIds \X (1..MaxBoots) : r[2] <= main.records[r[1]]})
=============================================================================
