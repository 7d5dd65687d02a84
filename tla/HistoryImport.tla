---------------------------- MODULE HistoryImport ---------------------------
(***************************************************************************)
(* Importing past runs of an appliance (ws_api.py): the one staging slot   *)
(* of an entry, filled by the chunks of an upload or by a read of Home     *)
(* Assistant's recorder; the scan that turns it into candidates; the apply *)
(* that stores the accepted ones, under the entry's write lock.            *)
(*                                                                         *)
(* The runs of the appliance are numbered in the order they happen.  A     *)
(* stream is the stretch of runs a file or the recorder covers, one chunk  *)
(* for each run; the scan finds the runs of what it was given, and two     *)
(* records of a run overlap in time.  Segmentation is HistoryScan's.       *)
(***************************************************************************)
EXTENDS Integers, Sequences, FiniteSets

CONSTANTS
    MaxRunsEver,   \* bound: runs of the appliance
    MaxTokens,     \* bound: uploads and recorder reads
    MaxScans,      \* bound: scans
    MaxApplies,    \* bound: applies
    Room           \* HISTORY_IMPORT_MAX_TOTAL_CYCLES

ASSUME ImportAssumption ==
    {MaxRunsEver, MaxTokens, MaxScans, MaxApplies, Room} \subseteq Nat

RunsEver == 1..MaxRunsEver
UploadTokens == 1..MaxTokens
Scans == 1..MaxScans
Applies == 1..MaxApplies

VARIABLES
    happened,   \* runs that have begun
    running,    \* the last of them is in progress, or ended and not filed yet
    past,       \* runs in past_cycles
    back,       \* records of each run in backfill_cycles
    slot,       \* the staging slot
    stream,     \* the runs each upload carries
    reading,    \* recorder reads under way
    issued,     \* tokens handed out
    scans,      \* scan tasks: state, token, the chunks read, the rows shown
    applies,    \* apply tasks: state, the scan, the rows accepted
    applying,   \* the apply that holds the entry's write lock, 0 for none
    early,      \* history: runs imported before their live record was filed
    unseen      \* history: a record was stored that the user had not accepted

importVars == <<happened, running, past, back, slot, stream, reading, issued, scans, applies,
                applying, early, unseen>>

runVars == <<happened, running, past>>
uploadVars == <<stream, reading, issued>>
importPast == <<early, unseen>>

NoSlot == [token |-> 0, chunks |-> <<>>, scan |-> 0, cycles |-> <<>>]
NoScan == [state |-> "none", token |-> 0, chunks |-> <<>>, shown |-> <<>>]
NoApply == [state |-> "none", scan |-> 0, accept |-> {}, token |-> 0, stored |-> {}]

Over(task) == [task EXCEPT !.state = "over"]

ImportInit ==
    /\ happened = 0 /\ running = FALSE /\ past = {} /\ back = [r \in RunsEver |-> 0]
    /\ slot = NoSlot /\ stream = [t \in UploadTokens |-> <<>>] /\ reading = 0 /\ issued = 0
    /\ scans = [s \in Scans |-> NoScan] /\ applies = [x \in Applies |-> NoApply] /\ applying = 0
    /\ early = {} /\ unseen = FALSE

-----------------------------------------------------------------------------
\* The appliance, and what WashData files of it by itself: a run it watched is filed
\* at its end, one that happened while it was down is not.
RunBegins ==
    /\ ~running /\ happened < MaxRunsEver
    /\ happened' = happened + 1 /\ running' = TRUE
    /\ UNCHANGED <<past, back, slot, uploadVars, scans, applies, applying, importPast>>

RunSettles(watched) ==
    /\ running /\ running' = FALSE
    /\ past' = IF watched THEN past \union {happened} ELSE past
    /\ UNCHANGED <<happened, back, slot, uploadVars, scans, applies, applying, importPast>>

SettledRuns == 1..(IF running THEN happened - 1 ELSE happened)

\* The user deletes a run's records.
Forget(r) ==
    /\ applying = 0 /\ (r \in past \/ back[r] > 0)
    /\ past' = past \ {r} /\ back' = [back EXCEPT ![r] = 0]
    /\ early' = early \ {r}
    /\ UNCHANGED <<happened, running, slot, uploadVars, scans, applies, applying, unseen>>

-----------------------------------------------------------------------------
\* Staging.  A new upload takes the place of the one before.
Stretch(i, j) == [k \in 1..(j - i + 1) |-> i + k - 1]

Begin(i, j) ==
    /\ issued < MaxTokens /\ i <= j /\ j <= happened
    /\ issued' = issued + 1
    /\ stream' = [stream EXCEPT ![issued'] = Stretch(i, j)]
    /\ slot' = [NoSlot EXCEPT !.token = issued']
    /\ UNCHANGED <<runVars, back, reading, scans, applies, applying, importPast>>

InOrder(k) == k = Len(slot.chunks) + 1

\* A chunk in any order, twice, or of an upload given up; after the scan the text is gone.
Chunk(t, k) ==
    /\ slot.token = t /\ slot.scan = 0 /\ k \in 1..Len(stream[t])
    /\ InOrder(k)
    /\ slot' = [slot EXCEPT !.chunks = Append(@, stream[t][k])]
    /\ UNCHANGED <<runVars, back, uploadVars, scans, applies, applying, importPast>>

TooLarge ==
    /\ slot.token # 0 /\ slot.chunks # <<>>
    /\ slot' = NoSlot
    /\ UNCHANGED <<runVars, back, uploadVars, scans, applies, applying, importPast>>

\* history_import_recorder reads a day at a time, and stages when it has read.
ReadRecorder ==
    /\ reading = 0 /\ issued < MaxTokens /\ happened > 0
    /\ reading' = 1
    /\ UNCHANGED <<runVars, back, slot, stream, issued, scans, applies, applying, importPast>>

RecorderRead(i, j) ==
    /\ reading = 1 /\ reading' = 0
    /\ issued < MaxTokens /\ i <= j /\ j <= happened
    /\ issued' = issued + 1
    /\ stream' = [stream EXCEPT ![issued'] = Stretch(i, j)]
    /\ slot' = [NoSlot EXCEPT !.token = issued', !.chunks = stream'[issued']]
    /\ UNCHANGED <<runVars, back, scans, applies, applying, importPast>>

-----------------------------------------------------------------------------
\* The scan reads the chunks staged when it starts.
StartScan(s) ==
    /\ scans[s].state = "none" /\ \A u \in Scans : u < s => scans[u].state # "none"
    /\ slot.token # 0 /\ slot.chunks # <<>>
    /\ scans' = [scans EXCEPT ![s] = [state |-> "running", token |-> slot.token,
                                      chunks |-> slot.chunks, shown |-> <<>>]]
    /\ UNCHANGED <<runVars, back, slot, uploadVars, applies, applying, importPast>>

\* It stages its candidates, the first n when it was cancelled in its replay, in the
\* slot of its token if that is still there.  A slot without the text stays.
EndScan(s, n) ==
    /\ scans[s].state = "running" /\ n \in 1..Len(scans[s].chunks)
    /\ LET found == SubSeq(scans[s].chunks, 1, n) IN
       /\ scans' = [scans EXCEPT ![s] = Over([NoScan EXCEPT !.shown = found])]
       /\ slot' = IF slot.token = scans[s].token
                  THEN [slot EXCEPT !.scan = s, !.cycles = found, !.chunks = <<>>] ELSE slot
    /\ UNCHANGED <<runVars, back, uploadVars, applies, applying, importPast>>

\* Cancelled before its replay, or failed.
StopScan(s) ==
    /\ scans[s].state = "running"
    /\ scans' = [scans EXCEPT ![s] = Over(NoScan)]
    /\ UNCHANGED <<runVars, back, slot, uploadVars, applies, applying, importPast>>

-----------------------------------------------------------------------------
\* The apply of the rows the user accepted of a scan.
StartApply(x, s, accept) ==
    /\ applies[x].state = "none" /\ \A y \in Applies : y < x => applies[y].state # "none"
    /\ scans[s].shown # <<>> /\ accept # {} /\ accept \subseteq 1..Len(scans[s].shown)
    /\ applies' = [applies EXCEPT ![x] = [NoApply EXCEPT !.state = "waiting", !.scan = s, !.accept = accept]]
    /\ UNCHANGED <<runVars, back, slot, uploadVars, scans, applying, importPast>>

MutOnRecord(r) == back[r] > 0

\* A record that overlaps one of any list is a duplicate.
OnRecord(r) == r \in past \/ back[r] > 0

MutStagedFor(s) == slot.cycles # <<>>

StagedFor(s) == slot.scan = s

Backfilled == {r \in RunsEver : back[r] > 0}

\* Under the lock, without an await: the accepted rows of the slot, as many as there is
\* room for, in the order shown.  Then it saves.
StoreRows(x) ==
    /\ applies[x].state = "waiting" /\ applying = 0 /\ StagedFor(applies[x].scan)
    /\ LET wanted == {i \in applies[x].accept : i <= Len(slot.cycles)}
           new == {i \in wanted : ~OnRecord(slot.cycles[i])}
           kept == {i \in new : Cardinality({k \in new : k < i}) + Cardinality(Backfilled) < Room}
           runs == {slot.cycles[i] : i \in kept}
       IN /\ back' = [r \in RunsEver |-> IF r \in runs THEN back[r] + 1 ELSE back[r]]
          /\ early' = early \union (runs \ SettledRuns)
          /\ applies' = [applies EXCEPT ![x] = [@ EXCEPT !.state = "saving", !.token = slot.token,
                                                         !.stored = runs]]
          /\ unseen' = (unseen \/ ~(runs \subseteq {scans[applies[x].scan].shown[i] :
                                       i \in applies[x].accept}))
    /\ applying' = x
    /\ UNCHANGED <<runVars, slot, uploadVars, scans>>

\* The slot is dropped if it is still the one applied.
Consumes(x) == slot.token = applies[x].token

ApplySaved(x) ==
    /\ applies[x].state = "saving"
    /\ applies' = [applies EXCEPT ![x] = Over(NoApply)]
    /\ applying' = 0
    /\ slot' = IF Consumes(x) THEN NoSlot ELSE slot
    /\ UNCHANGED <<runVars, back, uploadVars, scans, importPast>>

\* The write failed: the slot stays for another try.
ApplyNotSaved(x) ==
    /\ applies[x].state = "saving"
    /\ applies' = [applies EXCEPT ![x] = Over(NoApply)]
    /\ applying' = 0
    /\ UNCHANGED <<runVars, back, slot, uploadVars, scans, importPast>>

\* Its scan is not the staged one any more.
ScanExpired(x) ==
    /\ applies[x].state = "waiting" /\ applying = 0 /\ ~StagedFor(applies[x].scan)
    /\ applies' = [applies EXCEPT ![x] = Over(NoApply)]
    /\ UNCHANGED <<runVars, back, slot, uploadVars, scans, applying, importPast>>

\* Cancelled by the user while it waited for the lock: it stores nothing, and drops the
\* slot all the same.
CancelledWaiting(x) ==
    /\ applies[x].state = "waiting" /\ applying = 0 /\ StagedFor(applies[x].scan)
    /\ applies' = [applies EXCEPT ![x] = Over(NoApply)]
    /\ slot' = NoSlot
    /\ UNCHANGED <<runVars, back, uploadVars, scans, applying, importPast>>

\* Unload: the slot is cleared and the tasks are cancelled; what an apply was saving is
\* on disk or not.  A recorder read goes on, and stages what it read.
Reloaded(saved) ==
    /\ \E s \in Scans : scans[s].state = "running" \/ \E x \in Applies : applies[x].state # "none"
    /\ slot' = NoSlot
    /\ scans' = [s \in Scans |-> IF scans[s].state = "none" THEN scans[s]
                                 ELSE Over([NoScan EXCEPT !.shown = scans[s].shown])]
    /\ applies' = [x \in Applies |-> IF applies[x].state = "none" THEN NoApply
                                     ELSE Over(NoApply)]
    /\ applying' = 0
    /\ back' = IF applying = 0 \/ saved THEN back
               ELSE [r \in RunsEver |-> IF r \in applies[applying].stored THEN 0 ELSE back[r]]
    /\ UNCHANGED <<runVars, uploadVars, importPast>>

ImportNext ==
    \/ RunBegins \/ \E watched \in BOOLEAN : RunSettles(watched)
    \/ \E r \in RunsEver : Forget(r)
    \/ \E i, j \in RunsEver : Begin(i, j) \/ RecorderRead(i, j)
    \/ \E t \in UploadTokens, k \in RunsEver : Chunk(t, k)
    \/ TooLarge \/ ReadRecorder
    \/ \E s \in Scans : StartScan(s) \/ StopScan(s) \/ \E n \in RunsEver : EndScan(s, n)
    \/ \E x \in Applies, s \in Scans, accept \in SUBSET RunsEver : StartApply(x, s, accept)
    \/ \E x \in Applies : StoreRows(x) \/ ApplySaved(x) \/ ApplyNotSaved(x) \/ ScanExpired(x) \/ CancelledWaiting(x)
    \/ \E saved \in BOOLEAN : Reloaded(saved)

ImportSpec == ImportInit /\ [][ImportNext]_importVars

-----------------------------------------------------------------------------
(* A run is on record once, however often it is imported, retried after a  *)
(* failed write or applied twice (audit PLAYGROUND-05); but for one        *)
(* imported before its live record was filed.                              *)
RunOnRecordOnce ==
    \A r \in RunsEver \ early : (IF r \in past THEN 1 ELSE 0) + back[r] <= 1

(* What is stored are rows of the scan the user reviewed, and accepted;    *)
(* and the text that scan read is the upload's from its beginning, no      *)
(* chunk missing, twice or of another upload ("a dropped or re-ordered     *)
(* chunk would splice the file silently").                                 *)
ReviewedOnly ==
    /\ ~unseen
    /\ \A s \in Scans : scans[s].state = "running" =>
           LET whole == stream[scans[s].token] IN
           \E n \in 1..Len(whole) : scans[s].chunks = SubSeq(whole, 1, n)

\* What an import adds to the history: runs not yet on record, as they were reviewed.
ImportedAsReviewed == RunOnRecordOnce /\ ReviewedOnly
=============================================================================
