------------------------------ MODULE Recorder ------------------------------
(***************************************************************************)
(* The manual recorder (recorder.py) and the commands that file or discard *)
(* what it recorded (ws_api.py).  While a recording is on, every reading   *)
(* goes to its buffer and none to the detector.  The buffer is written to  *)
(* the recorder's own file now and then; the last finished run stays there *)
(* until it is filed, discarded or replaced.                               *)
(*                                                                         *)
(* A reload makes a new recorder that loads the file; a command that       *)
(* captured the old one goes on with it, and so do the old one's writes.   *)
(* HA's Store writes the newest snapshot it was given, one at a time, so a *)
(* recorder has one snapshot to write at most.  A run is known by the      *)
(* number of its recording and of its samples.                             *)
(***************************************************************************)
EXTENDS Integers

CONSTANTS
    Filers,        \* process_recording commands in flight at once
    SaveEvery,     \* samples that fit in _SAVE_INTERVAL_S
    MaxRuns,       \* bound: recordings started
    MaxSamples,    \* bound: samples of a recording
    MaxSetups      \* bound: set-ups of the entry

ASSUME RecorderAssumption ==
    /\ SaveEvery \in Nat /\ MaxRuns \in Nat /\ MaxSamples \in Nat
    /\ MaxSetups \in Nat \ {0}

VARIABLES
    recorder,   \* each set-up's CycleRecorder
    unsaved,    \* the snapshot its store has still to write
    recFile,    \* the file
    author,     \* the set-up that wrote it, or loaded it, last
    setups,     \* set-ups so far; the last is the entry's
    filer,      \* the commands: where they are, and the recorder they captured
    runs,       \* recordings started
    filed,      \* how often a run was added to the history
    mayGo,      \* history: runs discarded or replaced by a later one, runs stopped
               \* while another was being filed, and runs a restart caught between
               \* the recorder, its file and the history
    mayRepeat   \* history: runs whose filing failed after the cycle was added, and
               \* runs a restart caught, or filed from a recorder before it

recorderVars == <<recorder, unsaved, recFile, author, setups, filer, runs, filed,
                  mayGo, mayRepeat>>

RunIds == 1..MaxRuns
NoRun == [id |-> 0, n |-> 0]
NoSnapshot == [on |-> FALSE, live |-> NoRun, last |-> NoRun, due |-> FALSE]
Idle == [at |-> "idle", gen |-> 0, run |-> 0]

Mine == recorder[setups]

\* _async_save: what the recorder shows now is to be written.
Saves(r) == [on |-> r.on, live |-> r.live, last |-> r.last, due |-> TRUE]

\* The recorder becomes r, and is to be written.
BecomesSaved(g, r) ==
    /\ recorder' = [recorder EXCEPT ![g] = [r EXCEPT !.since = 0]]
    /\ unsaved' = [unsaved EXCEPT ![g] = Saves(r)]

\* async_load.
Loaded(f) == [on |-> f.on, live |-> f.live, last |-> f.last, since |-> SaveEvery + 1]

RecorderInit ==
    /\ recorder = [g \in 1..MaxSetups |-> Loaded(NoSnapshot)]
    /\ unsaved = [g \in 1..MaxSetups |-> NoSnapshot]
    /\ recFile = NoSnapshot /\ author = 1
    /\ setups = 1
    /\ filer = [h \in Filers |-> Idle]
    /\ runs = 0
    /\ filed = [i \in RunIds |-> 0]
    /\ mayGo = {} /\ mayRepeat = {}

-----------------------------------------------------------------------------
MutStartRecording ==
    /\ ~Mine.on /\ runs < MaxRuns
    /\ runs' = runs + 1
    /\ BecomesSaved(setups, [Mine EXCEPT !.on = TRUE, !.last = NoRun, !.live = [id |-> runs', n |-> 0]])
    /\ UNCHANGED <<recFile, author, setups, filer, filed, mayGo, mayRepeat>>

\* start_recording keeps the last run.
StartRecording ==
    /\ ~Mine.on /\ runs < MaxRuns
    /\ runs' = runs + 1
    /\ BecomesSaved(setups, [Mine EXCEPT !.on = TRUE, !.live = [id |-> runs', n |-> 0]])
    /\ UNCHANGED <<recFile, author, setups, filer, filed, mayGo, mayRepeat>>

\* The first sample after a set-up, and one when the last save is too old.
Due(r) == r.since > SaveEvery

\* process_reading.
Sample ==
    LET r == [Mine EXCEPT !.live.n = @ + 1, !.since = @ + 1] IN
    /\ Mine.on /\ Mine.live.n < MaxSamples
    /\ IF Due(r) THEN BecomesSaved(setups, r)
       ELSE recorder' = [recorder EXCEPT ![setups] = r] /\ UNCHANGED unsaved
    /\ UNCHANGED <<recFile, author, setups, filer, runs, filed, mayGo, mayRepeat>>

Filing == {h \in Filers : filer[h].at \in {"claimed", "added", "saved"}}

\* stop_recording: the recording becomes the last run, in place of the one before.
Stopped(r) == [r EXCEPT !.on = FALSE, !.last = r.live, !.live = NoRun]

StopRecording ==
    /\ Mine.on
    /\ BecomesSaved(setups, Stopped(Mine))
    /\ mayGo' = mayGo \union ({Mine.last.id} \ {0})
                      \union {Mine.live.id : h \in {f \in Filing : filer[f].gen = setups}}
    /\ UNCHANGED <<recFile, author, setups, filer, runs, filed, mayRepeat>>

\* The store writes what it has; a buffer still growing is written as it is by then.
WriteFile(g) ==
    /\ unsaved[g].due
    /\ author' = g
    /\ recFile' = [unsaved[g] EXCEPT !.due = FALSE,
          !.live = IF unsaved[g].on /\ recorder[g].live.id = @.id THEN recorder[g].live ELSE @]
    /\ unsaved' = [unsaved EXCEPT ![g] = NoSnapshot]
    /\ recorder' = [recorder EXCEPT ![g].since = 0]
    /\ UNCHANGED <<setups, filer, runs, filed, mayGo, mayRepeat>>

-----------------------------------------------------------------------------
\* discard_recording.
Discard ==
    /\ mayGo' = mayGo \union ({Mine.last.id} \ {0})
    /\ BecomesSaved(setups, [Mine EXCEPT !.last = NoRun])
    /\ UNCHANGED <<recFile, author, setups, filer, runs, filed, mayRepeat>>

\* process_recording captures the recorder and queues for the entry's write
\* lock, one lock per set-up.
AskToFile(h) ==
    /\ filer[h].at = "idle"
    /\ filer' = [filer EXCEPT ![h] = [at |-> "waiting", gen |-> setups, run |-> 0]]
    /\ UNCHANGED <<recorder, unsaved, recFile, author, setups, runs, filed, mayGo, mayRepeat>>

Holding(g) == {h \in Filing : filer[h].gen = g}

Keep(h) ==
    /\ filer' = [filer EXCEPT ![h] = Idle]
    /\ UNCHANGED <<recorder, unsaved, recFile, author, setups, runs, filed, mayGo>>

MutMayClaim(h) == filer[h].at = "waiting"

MayClaim(h) == filer[h].at = "waiting" /\ Holding(filer[h].gen) = {}

\* With the lock: no run, or a trim that leaves nothing of it.
Refuse(h) ==
    /\ MayClaim(h)
    /\ Keep(h) /\ UNCHANGED mayRepeat

Claim(h) ==
    LET last == recorder[filer[h].gen].last IN
    /\ MayClaim(h) /\ last.n > 0
    /\ filer' = [filer EXCEPT ![h].at = "claimed", ![h].run = last.id]
    /\ mayRepeat' = IF filer[h].gen = setups THEN mayRepeat ELSE mayRepeat \union {last.id}
    /\ UNCHANGED <<recorder, unsaved, recFile, author, setups, runs, filed, mayGo>>

\* async_add_cycle, and async_save once the envelope is rebuilt.
AddCycle(h) ==
    /\ filer[h].at = "claimed"
    /\ filed' = [filed EXCEPT ![filer[h].run] = @ + 1]
    /\ filer' = [filer EXCEPT ![h].at = "added"]
    /\ UNCHANGED <<recorder, unsaved, recFile, author, setups, runs, mayGo, mayRepeat>>

SaveHistory(h) ==
    /\ filer[h].at = "added"
    /\ filer' = [filer EXCEPT ![h].at = "saved"]
    /\ UNCHANGED <<recorder, unsaved, recFile, author, setups, runs, filed, mayGo, mayRepeat>>

\* Any of the steps raises: the run stays for another try.  Bound: a run that
\* may be filed twice already does not fail again with its cycle added.
FailToFile(h) ==
    /\ filer[h].at \in {"claimed", "added"}
    /\ filer[h].at = "added" => filer[h].run \notin mayRepeat
    /\ mayRepeat' = IF filer[h].at = "added" THEN mayRepeat \union {filer[h].run} ELSE mayRepeat
    /\ Keep(h)

\* clear_last_run, of whatever run is the last by now.
ClearFiled(h) ==
    LET g == filer[h].gen IN
    /\ filer[h].at = "saved"
    /\ BecomesSaved(g, [recorder[g] EXCEPT !.last = NoRun])
    /\ filer' = [filer EXCEPT ![h] = Idle]
    /\ UNCHANGED <<recFile, author, setups, runs, filed, mayGo, mayRepeat>>

-----------------------------------------------------------------------------
\* Runs the file says something else of than the recorder, and those being filed.
Unsettled ==
    (IF Mine.live.id # recFile.live.id THEN {Mine.live.id, recFile.live.id} ELSE {})
    \union (IF Mine.last # recFile.last THEN {Mine.last.id, recFile.last.id} ELSE {})
    \union {filer[h].run : h \in Filing}

\* The entry is set up again: the new recorder has what the file says.
SetUp ==
    /\ setups < MaxSetups
    /\ setups' = setups + 1 /\ author' = setups'
    /\ recorder' = [recorder EXCEPT ![setups'] = Loaded(recFile)]
    /\ mayGo' = mayGo \union (Unsettled \ {0})
    /\ mayRepeat' = mayRepeat \union (Unsettled \ {0})

Reload ==
    /\ SetUp
    /\ UNCHANGED <<unsaved, recFile, filer, runs, filed>>

\* A cycle added but not saved may or may not have been written.
Crash ==
    /\ SetUp
    /\ unsaved' = [g \in 1..MaxSetups |-> NoSnapshot]
    /\ filer' = [h \in Filers |-> Idle]
    /\ \E dropped \in SUBSET {h \in Filers : filer[h].at = "added"} :
          filed' = [i \in RunIds |-> filed[i] - (IF \E h \in dropped : filer[h].run = i THEN 1 ELSE 0)]
    /\ UNCHANGED <<recFile, runs>>

RecorderNext ==
    \/ StartRecording \/ Sample \/ StopRecording \/ Discard
    \/ \E g \in 1..MaxSetups : WriteFile(g)
    \/ \E h \in Filers : \/ AskToFile(h) \/ Refuse(h) \/ Claim(h) \/ AddCycle(h)
                         \/ SaveHistory(h) \/ FailToFile(h) \/ ClearFiled(h)
    \/ Reload \/ Crash

RecorderSpec == RecorderInit /\ [][RecorderNext]_recorderVars

-----------------------------------------------------------------------------
\* A recording goes on until it is stopped, and its run is kept until it is filed,
\* discarded or replaced by a later one: neither a failed filing, nor a new
\* recording, nor a restart takes it.  Two holes of the code are left out: a run
\* stopped while an earlier one is being filed (ClearFiled takes it), and what a
\* restart cut off from the file.
RunIsKept ==
    \A i \in 1..runs :
        \/ i \in {Mine.live.id, Mine.last.id} \/ filed[i] > 0
        \/ i \in mayGo

\* However many commands file it, a run becomes one stored cycle, unless an
\* attempt failed after the cycle was added, or a restart brought the run back.
FiledOnce ==
    \A i \in 1..runs : filed[i] > 1 => i \in mayRepeat
\* A run becomes a stored cycle, and one only: none is lost to a crash, a reload or a
\* replacement that did not ask for it, and none is stored twice by the commands that
\* compete for it (process_recording, RecorderManager.clear_last_run).
RunStoredOnce == RunIsKept /\ FiledOnce
=============================================================================
