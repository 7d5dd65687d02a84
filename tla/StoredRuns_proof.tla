-------------------------- MODULE StoredRuns_proof --------------------------
(***************************************************************************)
(* Proofs about the ways in which a run becomes a stored cycle: the manual *)
(* recorder (Recorder), the import of past runs (HistoryImport), the scan  *)
(* that finds them in a history (HistoryScan), and the tail of a cycle the *)
(* detector found (CycleFiling).  However the commands, tails, reloads and *)
(* crashes interleave, a run is stored once, and none is lost that nobody  *)
(* threw away; and the runs a scan finds are those of the appliance.       *)
(*                                                                         *)
(* Each part has an inductive invariant of its own.  RecorderInv follows   *)
(* one run: what the present recorder shows of it, which commands are      *)
(* filing it, and whether it is in the history, agree.  ImportInv says     *)
(* that what is staged is the beginning of its upload, and what is stored  *)
(* was shown.  FilingInv relates a cycle's snapshot, its tail and the two  *)
(* copies of the history, and CountInv the odometer to the records.        *)
(* ScanInv relates the blocks found so far to the readings walked.         *)
(***************************************************************************)
EXTENDS Recorder, HistoryImport, HistoryScan, CycleFiling, SequenceTheorems,
        FiniteSetTheorems, TLAPS

SetupIds == 1..MaxSetups
KnownRuns == [id : {0} \union RunIds, n : Nat]
Recorders == [on : BOOLEAN, live : KnownRuns, last : KnownRuns, since : Nat]
Snapshots == [on : BOOLEAN, live : KnownRuns, last : KnownRuns, due : BOOLEAN]
Stages == {"idle", "waiting", "claimed", "added", "saved"}
FilerStates == [at : Stages, gen : {0} \union SetupIds, run : {0} \union RunIds]

RecorderTypeOK ==
    /\ recorder \in [SetupIds -> Recorders]
    /\ unsaved \in [SetupIds -> Snapshots]
    /\ recFile \in Snapshots
    /\ author \in SetupIds /\ setups \in SetupIds
    /\ filer \in [Filers -> FilerStates]
    /\ runs \in 0..MaxRuns
    /\ filed \in [RunIds -> Nat]
    /\ mayGo \subseteq RunIds /\ mayRepeat \subseteq RunIds

\* A recorder, a snapshot of it or the file: a run is shown as live while recording
\* only, was started, and has samples only if it is one.
Shaped(r) ==
    /\ r.on <=> r.live.id # 0
    /\ r.live.id <= runs /\ r.last.id <= runs
    /\ r.last.n > 0 => r.last.id # 0

ShapesHold ==
    /\ \A g \in SetupIds : Shaped(recorder[g]) /\ Shaped(unsaved[g])
    /\ Shaped(recFile)

BaseHolds == RecorderTypeOK /\ ShapesHold

LEMMA RunFacts ==
    /\ SaveEvery \in Nat /\ MaxRuns \in Nat /\ MaxSetups \in Nat /\ 1 \in SetupIds
    /\ RunIds = 1..MaxRuns /\ 0 \notin RunIds
    /\ NoRun \in KnownRuns /\ NoRun.id = 0 /\ NoRun.n = 0
BY RecorderAssumption DEF SetupIds, RunIds, KnownRuns, NoRun

LEMMA EmptyFacts ==
    /\ NoSnapshot \in Snapshots /\ Idle \in FilerStates
    /\ NoSnapshot.on = FALSE /\ NoSnapshot.live = NoRun /\ NoSnapshot.last = NoRun
BY RunFacts DEF NoSnapshot, Snapshots, Idle, FilerStates, Stages

LEMMA LoadedFacts ==
    ASSUME NEW f \in Snapshots
    PROVE  /\ Loaded(f) \in Recorders
           /\ Loaded(f).on = f.on /\ Loaded(f).live = f.live /\ Loaded(f).last = f.last
BY RunFacts DEF Loaded, Snapshots, Recorders

LEMMA SavesFacts ==
    ASSUME NEW r \in Recorders
    PROVE  /\ Saves(r) \in Snapshots
           /\ Saves(r).on = r.on /\ Saves(r).live = r.live /\ Saves(r).last = r.last
BY DEF Saves, Snapshots, Recorders

\* What the commands of the recorder make of it, and of its snapshot.
LEMMA BecomesSavedFacts ==
    ASSUME BaseHolds, NEW g \in SetupIds, NEW r \in Recorders, BecomesSaved(g, r)
    PROVE  /\ recorder' \in [SetupIds -> Recorders] /\ unsaved' \in [SetupIds -> Snapshots]
           /\ \A k \in SetupIds : k # g => recorder'[k] = recorder[k] /\ unsaved'[k] = unsaved[k]
           /\ recorder'[g].on = r.on /\ recorder'[g].live = r.live /\ recorder'[g].last = r.last
           /\ unsaved'[g].on = r.on /\ unsaved'[g].live = r.live /\ unsaved'[g].last = r.last
<1> DEFINE q == [r EXCEPT !.since = 0]
<1>1. q \in Recorders /\ q.on = r.on /\ q.live = r.live /\ q.last = r.last
  BY DEF Recorders
<1>2. recorder' = [recorder EXCEPT ![g] = q] /\ unsaved' = [unsaved EXCEPT ![g] = Saves(r)]
  BY DEF BecomesSaved
<1> HIDE DEF q
<1> QED
  BY <1>1, <1>2, SavesFacts DEF BaseHolds, RecorderTypeOK

-----------------------------------------------------------------------------
LEMMA IdFacts ==
    ASSUME NEW r, r \in Recorders \/ r \in Snapshots
    PROVE  r.live.id \in Nat /\ r.last.id \in Nat
<1>1. \A q \in KnownRuns : q.id \in Nat
  BY RunFacts DEF KnownRuns
<1> QED
  BY <1>1 DEF Recorders, Snapshots

LEMMA MineFacts ==
    ASSUME BaseHolds
    PROVE  /\ Mine \in Recorders /\ Shaped(Mine) /\ setups \in SetupIds
           /\ Mine.live.id \in {0} \union RunIds /\ Mine.last.id \in {0} \union RunIds
BY DEF BaseHolds, RecorderTypeOK, ShapesHold, Mine, Recorders, KnownRuns

\* A recording command keeps the base.
LEMMA CommandBase ==
    ASSUME BaseHolds, NEW g \in SetupIds, NEW r \in Recorders, BecomesSaved(g, r),
           runs' \in 0..MaxRuns, runs <= runs',
           r.on <=> r.live.id # 0, r.live.id <= runs', r.last.id <= runs',
           r.last.n > 0 => r.last.id # 0,
           UNCHANGED <<recFile, author, setups>>,
           filer' \in [Filers -> FilerStates], filed' \in [RunIds -> Nat],
           mayGo' \subseteq RunIds, mayRepeat' \subseteq RunIds
    PROVE  BaseHolds'
<1>1. runs \in Nat /\ runs' \in Nat
  BY RunFacts DEF BaseHolds, RecorderTypeOK
<1>2. RecorderTypeOK'
  BY BecomesSavedFacts DEF BaseHolds, RecorderTypeOK
<1>3. ASSUME NEW k \in SetupIds
      PROVE  Shaped(recorder[k])' /\ Shaped(unsaved[k])'
  <2>1. CASE k = g
    BY <2>1, BecomesSavedFacts DEF Shaped
  <2>2. CASE k # g
    <3>1. recorder'[k] = recorder[k] /\ unsaved'[k] = unsaved[k]
      BY <2>2, BecomesSavedFacts
    <3>2. Shaped(recorder[k]) /\ Shaped(unsaved[k])
      BY DEF BaseHolds, ShapesHold
    <3>3. /\ recorder[k].live.id \in Nat /\ recorder[k].last.id \in Nat
          /\ unsaved[k].live.id \in Nat /\ unsaved[k].last.id \in Nat
      BY IdFacts DEF BaseHolds, RecorderTypeOK
    <3> QED
      BY <1>1, <3>1, <3>2, <3>3 DEF Shaped
  <2> QED
    BY <2>1, <2>2
<1>4. Shaped(recFile)'
  <2>1. recFile.live.id \in Nat /\ recFile.last.id \in Nat
    BY IdFacts DEF BaseHolds, RecorderTypeOK
  <2> QED
    BY <1>1, <2>1 DEF BaseHolds, ShapesHold, Shaped
<1> QED
  BY <1>2, <1>3, <1>4 DEF BaseHolds, ShapesHold

\* A step of a command that files leaves the recorders alone.
LEMMA FilerBase ==
    ASSUME BaseHolds, UNCHANGED <<recorder, unsaved, recFile, author, setups, runs, mayGo>>,
           filer' \in [Filers -> FilerStates], filed' \in [RunIds -> Nat],
           mayRepeat' \subseteq RunIds
    PROVE  BaseHolds'
BY DEF BaseHolds, RecorderTypeOK, ShapesHold, Shaped

\* So does the new set-up, but for its own.
LEMMA SetUpBase ==
    ASSUME BaseHolds, SetUp, UNCHANGED <<recFile, runs>>,
           unsaved' = unsaved \/ unsaved' = [g \in SetupIds |-> NoSnapshot],
           filer' \in [Filers -> FilerStates], filed' \in [RunIds -> Nat]
    PROVE  /\ BaseHolds' /\ setups' = setups + 1
           /\ Mine'.live = recFile.live /\ Mine'.last = recFile.last
<1>1. /\ setups' = setups + 1 /\ author' = setups' /\ setups' \in SetupIds
      /\ recorder' = [recorder EXCEPT ![setups'] = Loaded(recFile)]
  BY RunFacts DEF BaseHolds, RecorderTypeOK, SetUp, SetupIds
<1>2. /\ Loaded(recFile) \in Recorders /\ Loaded(recFile).on = recFile.on
      /\ Loaded(recFile).live = recFile.live /\ Loaded(recFile).last = recFile.last
  BY LoadedFacts DEF BaseHolds, RecorderTypeOK
<1>3. /\ recorder' \in [SetupIds -> Recorders] /\ recorder'[setups'] = Loaded(recFile)
      /\ \A g \in SetupIds : g # setups' => recorder'[g] = recorder[g]
  BY <1>1, <1>2 DEF BaseHolds, RecorderTypeOK
<1>4. unsaved' \in [SetupIds -> Snapshots]
  BY EmptyFacts DEF BaseHolds, RecorderTypeOK
<1>5. Unsettled \ {0} \subseteq RunIds
  <2>1. \A h \in Filing : filer[h].run \in {0} \union RunIds
    BY DEF Filing, BaseHolds, RecorderTypeOK, FilerStates
  <2>2. /\ recFile.live.id \in {0} \union RunIds /\ recFile.last.id \in {0} \union RunIds
    BY DEF BaseHolds, RecorderTypeOK, Snapshots, KnownRuns
  <2> QED
    BY <2>1, <2>2, MineFacts DEF Unsettled
<1>6. mayGo' \subseteq RunIds /\ mayRepeat' \subseteq RunIds
  BY <1>5 DEF SetUp, BaseHolds, RecorderTypeOK
<1>7. RecorderTypeOK'
  BY <1>1, <1>3, <1>4, <1>6 DEF BaseHolds, RecorderTypeOK
<1>8. ShapesHold'
  <2>1. ASSUME NEW g \in SetupIds PROVE Shaped(recorder[g])'
    BY <1>2, <1>3 DEF BaseHolds, ShapesHold, Shaped
  <2>2. ASSUME NEW g \in SetupIds PROVE Shaped(unsaved[g])'
    <3>1. CASE unsaved' = unsaved
      BY <3>1 DEF BaseHolds, ShapesHold, Shaped
    <3>2. CASE unsaved' = [k \in SetupIds |-> NoSnapshot]
      BY <3>2, EmptyFacts, RunFacts DEF BaseHolds, RecorderTypeOK, Shaped
    <3> QED
      BY <3>1, <3>2
  <2> QED
    BY <2>1, <2>2 DEF BaseHolds, ShapesHold, Shaped
<1> QED
  BY <1>1, <1>2, <1>3, <1>7, <1>8 DEF BaseHolds, Mine

\* What the recorder becomes at the start of a recording, and at its end.
LEMMA StartBase ==
    ASSUME BaseHolds, StartRecording
    PROVE  /\ BaseHolds' /\ Mine.live.id = 0
           /\ Mine'.live.id = runs' /\ Mine'.last = Mine.last
<1> DEFINE buffer == [id |-> runs', n |-> 0]
           r == [Mine EXCEPT !.on = TRUE, !.live = buffer]
<1>1. /\ ~Mine.on /\ runs < MaxRuns /\ runs' = runs + 1 /\ BecomesSaved(setups, r)
      /\ UNCHANGED <<recFile, author, setups, filer, filed, mayGo, mayRepeat>>
  BY DEF StartRecording
<1>2. runs' \in RunIds /\ runs <= runs' /\ runs' \in 0..MaxRuns /\ runs \in Nat /\ runs' # 0
  BY <1>1, RunFacts DEF BaseHolds, RecorderTypeOK
<1>3. buffer \in KnownRuns /\ buffer.id = runs'
  BY <1>2 DEF KnownRuns
<1> HIDE DEF buffer
<1>4. r \in Recorders /\ r.on = TRUE /\ r.live = buffer /\ r.last = Mine.last
  BY <1>3, MineFacts DEF Recorders
<1> HIDE DEF r
<1>5. Mine.last.id <= runs' /\ Mine.live.id = 0 /\ (r.last.n > 0 => r.last.id # 0)
  BY <1>1, <1>2, <1>4, MineFacts, IdFacts DEF Shaped
<1>6. BaseHolds'
  <2>1. /\ filer' \in [Filers -> FilerStates] /\ filed' \in [RunIds -> Nat]
        /\ mayGo' \subseteq RunIds /\ mayRepeat' \subseteq RunIds
    BY <1>1 DEF BaseHolds, RecorderTypeOK
  <2> QED
    BY <1>1, <1>2, <1>3, <1>4, <1>5, <2>1, MineFacts, CommandBase
<1>7. Mine' = recorder'[setups]
  BY <1>1 DEF Mine
<1> QED
  BY <1>1, <1>3, <1>4, <1>5, <1>6, <1>7, MineFacts, BecomesSavedFacts

LEMMA SampleBase ==
    ASSUME BaseHolds, Sample
    PROVE  BaseHolds' /\ Mine'.live.id = Mine.live.id /\ Mine'.last = Mine.last
<1> DEFINE buffer == [Mine.live EXCEPT !.n = @ + 1]
           r == [Mine EXCEPT !.live = buffer, !.since = @ + 1]
<1>1. /\ Mine.on
      /\ \/ BecomesSaved(setups, r)
         \/ recorder' = [recorder EXCEPT ![setups] = r] /\ UNCHANGED unsaved
      /\ UNCHANGED <<recFile, author, setups, filer, runs, filed, mayGo, mayRepeat>>
  BY MineFacts DEF Sample, Recorders
<1>2. Mine.live \in KnownRuns /\ Mine.since \in Nat
  BY MineFacts DEF Recorders
<1>3. buffer \in KnownRuns /\ buffer.id = Mine.live.id
  BY <1>2 DEF KnownRuns
<1> DEFINE since == Mine.since + 1
<1>a. since \in Nat /\ r = [Mine EXCEPT !.live = buffer, !.since = since]
  BY <1>2, MineFacts DEF Recorders
<1> HIDE DEF buffer, since, r
<1>4. r \in Recorders /\ r.on = Mine.on /\ r.live = buffer /\ r.last = Mine.last
  BY <1>a, <1>3, MineFacts DEF Recorders
<1>5. /\ r.on <=> r.live.id # 0
      /\ r.live.id <= runs /\ r.last.id <= runs /\ (r.last.n > 0 => r.last.id # 0)
  BY <1>3, <1>4, MineFacts DEF Shaped
<1>6. Mine' = recorder'[setups]
  BY <1>1 DEF Mine
<1>7. CASE BecomesSaved(setups, r)
  <2>1. /\ filer' \in [Filers -> FilerStates] /\ filed' \in [RunIds -> Nat]
        /\ mayGo' \subseteq RunIds /\ mayRepeat' \subseteq RunIds
        /\ runs' \in 0..MaxRuns /\ runs' = runs /\ runs <= runs'
    BY <1>1, RunFacts DEF BaseHolds, RecorderTypeOK
  <2> QED
    BY <1>1, <1>3, <1>4, <1>5, <1>6, <1>7, <2>1, MineFacts, CommandBase, BecomesSavedFacts
<1>8. CASE recorder' = [recorder EXCEPT ![setups] = r] /\ UNCHANGED unsaved
  <2>1. /\ recorder' \in [SetupIds -> Recorders] /\ recorder'[setups] = r
        /\ \A g \in SetupIds : g # setups => recorder'[g] = recorder[g]
    BY <1>4, <1>8, MineFacts DEF BaseHolds, RecorderTypeOK
  <2>2. RecorderTypeOK'
    BY <1>1, <1>8, <2>1 DEF BaseHolds, RecorderTypeOK
  <2>3. ShapesHold'
    BY <1>1, <1>5, <1>8, <2>1 DEF BaseHolds, ShapesHold, Shaped
  <2> QED
    BY <1>3, <1>4, <1>6, <2>1, <2>2, <2>3 DEF BaseHolds
<1> QED
  BY <1>1, <1>7, <1>8

LEMMA StopBase ==
    ASSUME BaseHolds, StopRecording
    PROVE  /\ BaseHolds' /\ Mine.live.id # 0
           /\ Mine'.live.id = 0 /\ Mine'.last = Mine.live
<1> DEFINE r == Stopped(Mine)
<1>1. /\ Mine.on /\ BecomesSaved(setups, r)
      /\ mayGo' = mayGo \union ({Mine.last.id} \ {0})
                        \union {Mine.live.id : h \in {f \in Filing : filer[f].gen = setups}}
      /\ UNCHANGED <<recFile, author, setups, filer, runs, filed, mayRepeat>>
  BY DEF StopRecording
<1>2. r \in Recorders /\ r.on = FALSE /\ r.live = NoRun /\ r.last = Mine.live
  BY MineFacts, RunFacts DEF Recorders, Stopped
<1> HIDE DEF r
<1>3. Mine.live.id # 0 /\ Mine.live.id \in RunIds /\ Mine.live.id <= runs
  BY <1>1, MineFacts DEF Shaped
<1>4. mayGo' \subseteq RunIds
  BY <1>1, <1>3, MineFacts DEF BaseHolds, RecorderTypeOK
<1>5. BaseHolds'
  <2>1. /\ filer' \in [Filers -> FilerStates] /\ filed' \in [RunIds -> Nat]
        /\ mayRepeat' \subseteq RunIds /\ runs' \in 0..MaxRuns /\ runs' = runs /\ runs <= runs'
        /\ 0 <= runs'
    BY <1>1, RunFacts DEF BaseHolds, RecorderTypeOK
  <2> QED
    BY <1>1, <1>2, <1>3, <1>4, <2>1, MineFacts, RunFacts, CommandBase
<1>6. Mine' = recorder'[setups]
  BY <1>1 DEF Mine
<1> QED
  BY <1>1, <1>2, <1>3, <1>5, <1>6, MineFacts, RunFacts, BecomesSavedFacts

\* A recorder that gives its last run away.
LEMMA ForgetBase ==
    ASSUME BaseHolds, NEW g \in SetupIds, BecomesSaved(g, [recorder[g] EXCEPT !.last = NoRun]),
           UNCHANGED <<recFile, author, setups, runs>>,
           filer' \in [Filers -> FilerStates], filed' \in [RunIds -> Nat],
           mayGo' \subseteq RunIds, mayRepeat' \subseteq RunIds
    PROVE  /\ BaseHolds'
           /\ Mine'.live = Mine.live
           /\ Mine'.last = IF g = setups THEN NoRun ELSE Mine.last
<1> DEFINE r == [recorder[g] EXCEPT !.last = NoRun]
<1>1. recorder[g] \in Recorders /\ Shaped(recorder[g])
  BY DEF BaseHolds, RecorderTypeOK, ShapesHold
<1>2. r \in Recorders /\ r.on = recorder[g].on /\ r.live = recorder[g].live /\ r.last = NoRun
  BY <1>1, RunFacts DEF Recorders
<1>3. BecomesSaved(g, r)
  OBVIOUS
<1> HIDE DEF r
<1>4. BaseHolds'
  <2>1. runs' \in 0..MaxRuns /\ runs' = runs /\ runs <= runs' /\ 0 <= runs'
    BY RunFacts DEF BaseHolds, RecorderTypeOK
  <2> QED
    BY <1>1, <1>2, <1>3, <2>1, RunFacts, CommandBase DEF Shaped
<1>5. Mine' = recorder'[setups]
  BY DEF Mine
<1> QED
  BY <1>2, <1>3, <1>4, <1>5, MineFacts, BecomesSavedFacts DEF Mine

\* The store writes what it was given, or the buffer of the same recording.
LEMMA WriteBase ==
    ASSUME BaseHolds, NEW g \in SetupIds, WriteFile(g)
    PROVE  BaseHolds' /\ Mine'.live = Mine.live /\ Mine'.last = Mine.last
<1> DEFINE buffer == IF unsaved[g].on /\ recorder[g].live.id = unsaved[g].live.id
                   THEN recorder[g].live ELSE unsaved[g].live
           q == [recorder[g] EXCEPT !.since = 0]
<1>1. /\ author' = g /\ recFile' = [unsaved[g] EXCEPT !.due = FALSE, !.live = buffer]
      /\ unsaved' = [unsaved EXCEPT ![g] = NoSnapshot] /\ recorder' = [recorder EXCEPT ![g] = q]
      /\ UNCHANGED <<setups, filer, runs, filed, mayGo, mayRepeat>>
  BY DEF WriteFile, BaseHolds, RecorderTypeOK
<1>2. /\ recorder[g] \in Recorders /\ unsaved[g] \in Snapshots
      /\ Shaped(recorder[g]) /\ Shaped(unsaved[g])
  BY DEF BaseHolds, RecorderTypeOK, ShapesHold
<1>3. buffer \in KnownRuns /\ buffer.id = unsaved[g].live.id
  BY <1>2 DEF Recorders, Snapshots
<1>4. q \in Recorders /\ q.on = recorder[g].on /\ q.live = recorder[g].live /\ q.last = recorder[g].last
  BY <1>2 DEF Recorders
<1> HIDE DEF buffer, q
<1>5. /\ recFile' \in Snapshots /\ recFile'.on = unsaved[g].on
      /\ recFile'.live = buffer /\ recFile'.last = unsaved[g].last
  BY <1>1, <1>2, <1>3 DEF Snapshots
<1>6. /\ recorder' \in [SetupIds -> Recorders] /\ recorder'[g] = q
      /\ \A k \in SetupIds : k # g => recorder'[k] = recorder[k]
      /\ unsaved' \in [SetupIds -> Snapshots] /\ unsaved'[g] = NoSnapshot
      /\ \A k \in SetupIds : k # g => unsaved'[k] = unsaved[k]
  BY <1>1, <1>4, EmptyFacts DEF BaseHolds, RecorderTypeOK
<1>7. RecorderTypeOK'
  BY <1>1, <1>5, <1>6 DEF BaseHolds, RecorderTypeOK
<1>8. ASSUME NEW k \in SetupIds PROVE Shaped(recorder[k])' /\ Shaped(unsaved[k])'
  <2>1. runs' = runs /\ 0 <= runs
    BY <1>1, RunFacts DEF BaseHolds, RecorderTypeOK
  <2>2. CASE k = g
    BY <1>2, <1>4, <1>6, <2>1, <2>2, EmptyFacts, RunFacts DEF Shaped
  <2>3. CASE k # g
    BY <1>6, <2>1, <2>3 DEF BaseHolds, ShapesHold, Shaped
  <2> QED
    BY <2>2, <2>3
<1>9. Shaped(recFile)'
  BY <1>1, <1>2, <1>3, <1>5 DEF Shaped
<1>10. Mine'.live = Mine.live /\ Mine'.last = Mine.last
  BY <1>1, <1>4, <1>6, MineFacts DEF Mine
<1> QED
  BY <1>7, <1>8, <1>9, <1>10 DEF BaseHolds, ShapesHold

-----------------------------------------------------------------------------
\* A command that files knows its run, and is the only one of its set-up to.
FilersKnown ==
    \A h \in Filing : filer[h].run \in 1..runs /\ filer[h].gen \in 1..setups
WaitersKnown ==
    \A h \in Filers : filer[h].at = "waiting" => filer[h].gen \in 1..setups
Alone ==
    \A h, k \in Filing : filer[h].gen = filer[k].gen => h = k
\* One of an earlier set-up files what a restart brought back, and one whose cycle
\* was added has it in the history.
OldRepeats ==
    \A h \in Filing : filer[h].gen # setups => filer[h].run \in mayRepeat
AddedIsFiled ==
    \A h \in Filing : filer[h].at # "claimed" => filed[filer[h].run] >= 1
\* A run that no restart and no failure touched is filed by a command that holds it
\* alone: it is not being recorded, and not stored before its cycle is added.
ClaimedOnce ==
    \A h \in Filing :
        filer[h].run \notin mayRepeat =>
            /\ Mine.live.id # filer[h].run
            /\ filer[h].at = "claimed" => filed[filer[h].run] = 0
\* Once stored, it is shown only by the recorder whose command is about to clear it.
FiledGone ==
    \A i \in 1..runs :
        (i \notin mayRepeat /\ filed[i] >= 1) =>
            /\ Mine.live.id # i
            /\ Mine.last.id = i => \E h \in Filing : filer[h].gen = setups /\ filer[h].run = i
\* What that command clears is its own run, or one it was known to take.
TakesOwn ==
    \A h \in Filing : filer[h].gen = setups => Mine.last.id \in {0, filer[h].run} \union mayGo
Apart ==
    \A i \in RunIds : i \notin mayRepeat => ~(Mine.live.id = i /\ Mine.last.id = i)
NewNotFiled ==
    \A i \in RunIds : i > runs => filed[i] = 0
FiledAtMostOnce ==
    \A i \in RunIds : i \notin mayRepeat => filed[i] <= 1

\* The course of each run and of each command.
CourseHolds ==
    /\ FilersKnown /\ WaitersKnown /\ Alone /\ OldRepeats /\ AddedIsFiled /\ ClaimedOnce
    /\ FiledGone /\ TakesOwn /\ Apart /\ NewNotFiled /\ FiledAtMostOnce /\ RunIsKept

RecorderInv == BaseHolds /\ CourseHolds

LEMMA FilerFacts ==
    ASSUME BaseHolds
    PROVE  /\ Filing \subseteq Filers
           /\ \A h \in Filers : /\ filer[h] \in FilerStates
                                /\ filer[h].gen \in Nat /\ filer[h].run \in Nat
           /\ setups \in Nat /\ runs \in Nat /\ \A i \in RunIds : filed[i] \in Nat
           /\ 1..runs \subseteq RunIds
BY RunFacts DEF BaseHolds, RecorderTypeOK, FilerStates, Filing, SetupIds, RunIds

\* A step that leaves what the recorder shows and what is being filed.
LEMMA CourseUntouched ==
    ASSUME RecorderInv, Mine'.live.id = Mine.live.id, Mine'.last.id = Mine.last.id,
           Filing' = Filing, \A h \in Filing : filer'[h] = filer[h],
           \A h \in Filers : filer'[h].at = "waiting" => filer'[h].gen \in 1..setups,
           UNCHANGED <<setups, runs, filed, mayGo, mayRepeat>>
    PROVE  CourseHolds'
<1>1. /\ FilersKnown' /\ Alone' /\ OldRepeats' /\ AddedIsFiled' /\ WaitersKnown'
  BY DEF RecorderInv, CourseHolds, FilersKnown, Alone, OldRepeats, AddedIsFiled, WaitersKnown
<1>2. ClaimedOnce' /\ FiledGone' /\ TakesOwn'
  BY DEF RecorderInv, CourseHolds, ClaimedOnce, FiledGone, TakesOwn
<1>3. Apart' /\ NewNotFiled' /\ FiledAtMostOnce' /\ RunIsKept'
  BY DEF RecorderInv, CourseHolds, Apart, NewNotFiled, FiledAtMostOnce, RunIsKept
<1> QED
  BY <1>1, <1>2, <1>3 DEF CourseHolds

\* A recording started is a run of its own.
LEMMA StartCourse ==
    ASSUME RecorderInv, StartRecording
    PROVE  CourseHolds'
<1>1. /\ runs' = runs + 1 /\ Mine'.live.id = runs' /\ Mine'.last = Mine.last /\ Mine.live.id = 0
      /\ UNCHANGED <<filer, filed, setups, mayGo, mayRepeat>> /\ Filing' = Filing
      /\ runs' \in RunIds
  BY StartBase, RunFacts DEF RecorderInv, StartRecording, Filing, BaseHolds, RecorderTypeOK
<1>2. Mine.last.id \in Nat /\ Mine.last.id <= runs /\ Mine'.last.id = Mine.last.id
  BY <1>1, MineFacts, RunFacts DEF RecorderInv, Shaped
<1> USE FilerFacts DEF RecorderInv
<1>3. FilersKnown' /\ WaitersKnown' /\ Alone' /\ OldRepeats' /\ AddedIsFiled'
  BY <1>1 DEF CourseHolds, FilersKnown, WaitersKnown, Alone, OldRepeats, AddedIsFiled
<1>4. ClaimedOnce' /\ TakesOwn'
  BY <1>1, <1>2 DEF CourseHolds, ClaimedOnce, TakesOwn, FilersKnown
<1>5. FiledGone'
  BY <1>1, <1>2 DEF CourseHolds, FiledGone, NewNotFiled
<1>6. Apart' /\ NewNotFiled' /\ FiledAtMostOnce' /\ RunIsKept'
  BY <1>1, <1>2, RunFacts DEF CourseHolds, Apart, NewNotFiled, FiledAtMostOnce, RunIsKept
<1> QED
  BY <1>3, <1>4, <1>5, <1>6 DEF CourseHolds

\* Stopped, it takes the place of the last one, which is thrown away.
LEMMA StopCourse ==
    ASSUME RecorderInv, StopRecording
    PROVE  CourseHolds'
<1>1. /\ Mine.live.id # 0 /\ Mine'.live.id = 0 /\ Mine'.last.id = Mine.live.id
      /\ UNCHANGED <<filer, filed, setups, runs, mayRepeat>> /\ Filing' = Filing
      /\ mayGo' = mayGo \union ({Mine.last.id} \ {0})
                        \union {Mine.live.id : h \in {f \in Filing : filer[f].gen = setups}}
  BY StopBase DEF RecorderInv, StopRecording, Filing
<1> USE FilerFacts DEF RecorderInv
<1>2. FilersKnown' /\ WaitersKnown' /\ Alone' /\ OldRepeats' /\ AddedIsFiled'
  BY <1>1 DEF CourseHolds, FilersKnown, WaitersKnown, Alone, OldRepeats, AddedIsFiled
<1>3. ClaimedOnce'
  BY <1>1 DEF CourseHolds, ClaimedOnce, FilersKnown
<1>4. TakesOwn'
  BY <1>1 DEF TakesOwn
<1>5. FiledGone'
  BY <1>1 DEF CourseHolds, FiledGone
<1>6. Apart' /\ NewNotFiled' /\ FiledAtMostOnce' /\ RunIsKept'
  BY <1>1, RunFacts DEF CourseHolds, Apart, NewNotFiled, FiledAtMostOnce, RunIsKept
<1> QED
  BY <1>2, <1>3, <1>4, <1>5, <1>6 DEF CourseHolds

LEMMA DiscardStep ==
    ASSUME RecorderInv, Discard
    PROVE  RecorderInv'
<1>1. /\ mayGo' = mayGo \union ({Mine.last.id} \ {0})
      /\ UNCHANGED <<recFile, author, setups, filer, runs, filed, mayRepeat>> /\ Filing' = Filing
      /\ setups \in SetupIds /\ BecomesSaved(setups, [recorder[setups] EXCEPT !.last = NoRun])
  BY DEF Discard, Filing, Mine, RecorderInv, BaseHolds, RecorderTypeOK
<1>2. BaseHolds' /\ Mine'.live = Mine.live /\ Mine'.last = NoRun
  <2>1. /\ filer' \in [Filers -> FilerStates] /\ filed' \in [RunIds -> Nat]
        /\ mayGo' \subseteq RunIds /\ mayRepeat' \subseteq RunIds
    BY <1>1, MineFacts DEF RecorderInv, BaseHolds, RecorderTypeOK
  <2> QED
    BY <1>1, <2>1, ForgetBase DEF RecorderInv
<1>3. Mine'.last.id = 0 /\ Mine'.live.id = Mine.live.id
  BY <1>2, RunFacts
<1> USE FilerFacts DEF RecorderInv
<1>4. FilersKnown' /\ WaitersKnown' /\ Alone' /\ OldRepeats' /\ AddedIsFiled'
  BY <1>1 DEF CourseHolds, FilersKnown, WaitersKnown, Alone, OldRepeats, AddedIsFiled
<1>5. ClaimedOnce' /\ TakesOwn' /\ FiledGone'
  BY <1>1, <1>3 DEF CourseHolds, ClaimedOnce, TakesOwn, FiledGone
<1>6. Apart' /\ NewNotFiled' /\ FiledAtMostOnce' /\ RunIsKept'
  BY <1>1, <1>3, RunFacts DEF CourseHolds, Apart, NewNotFiled, FiledAtMostOnce, RunIsKept
<1> QED
  BY <1>2, <1>4, <1>5, <1>6 DEF CourseHolds

-----------------------------------------------------------------------------
\* A command that waits for the lock, or gives up: no run is in its hands.
LEMMA WaitStep ==
    ASSUME RecorderInv, NEW h \in Filers, AskToFile(h) \/ Refuse(h)
    PROVE  RecorderInv'
<1>1. /\ UNCHANGED <<recorder, unsaved, recFile, author, setups, runs, filed, mayGo, mayRepeat>>
      /\ filer[h].at \in {"idle", "waiting"}
      /\ \/ filer' = [filer EXCEPT ![h] = [at |-> "waiting", gen |-> setups, run |-> 0]]
         \/ filer' = [filer EXCEPT ![h] = Idle]
  BY DEF AskToFile, Refuse, MayClaim, Keep
<1>2. filer' \in [Filers -> FilerStates] /\ \A k \in Filers : k # h => filer'[k] = filer[k]
  BY <1>1, EmptyFacts DEF RecorderInv, BaseHolds, RecorderTypeOK, FilerStates, Stages
<1>3. filer'[h].at \in {"idle", "waiting"} /\ (filer'[h].at = "waiting" => filer'[h].gen = setups)
  BY <1>1 DEF RecorderInv, BaseHolds, RecorderTypeOK, Idle
<1>4. Filing' = Filing /\ \A k \in Filing : filer'[k] = filer[k]
  BY <1>1, <1>2, <1>3 DEF Filing
<1>5. \A k \in Filers : filer'[k].at = "waiting" => filer'[k].gen \in 1..setups
  BY <1>2, <1>3, RunFacts DEF RecorderInv, CourseHolds, WaitersKnown, BaseHolds, RecorderTypeOK, SetupIds
<1>6. BaseHolds'
  BY <1>1, <1>2, FilerBase DEF RecorderInv, BaseHolds, RecorderTypeOK
<1> QED
  BY <1>1, <1>4, <1>5, <1>6, CourseUntouched DEF RecorderInv, Mine

\* With the lock, it takes the last run of the recorder it captured.
LEMMA ClaimStep ==
    ASSUME RecorderInv, NEW h \in Filers, Claim(h)
    PROVE  RecorderInv'
<1> DEFINE g == filer[h].gen
           id == recorder[g].last.id
<1>1. /\ UNCHANGED <<recorder, unsaved, recFile, author, setups, runs, filed, mayGo>>
      /\ filer[h].at = "waiting" /\ Holding(g) = {} /\ recorder[g].last.n > 0
      /\ filer' = [filer EXCEPT ![h].at = "claimed", ![h].run = id]
      /\ mayRepeat' = IF g = setups THEN mayRepeat ELSE mayRepeat \union {id}
  BY DEF Claim, MayClaim
<1>2. g \in 1..setups /\ g \in SetupIds
  BY <1>1, RunFacts DEF RecorderInv, CourseHolds, WaitersKnown, BaseHolds, RecorderTypeOK, SetupIds
<1>3. id \in 1..runs /\ id \in RunIds
  <2>1. recorder[g] \in Recorders /\ Shaped(recorder[g]) /\ runs \in 0..MaxRuns
    BY <1>2 DEF RecorderInv, BaseHolds, RecorderTypeOK, ShapesHold
  <2> QED
    BY <1>1, <2>1, IdFacts, RunFacts DEF Shaped
<1>4. /\ filer' \in [Filers -> FilerStates]
      /\ filer'[h].at = "claimed" /\ filer'[h].gen = g /\ filer'[h].run = id
      /\ \A k \in Filers : k # h => filer'[k] = filer[k]
  BY <1>1, <1>3 DEF RecorderInv, BaseHolds, RecorderTypeOK, FilerStates, Stages
<1>5. /\ Filing' = Filing \union {h} /\ h \notin Filing
      /\ \A k \in Filing : k # h /\ filer'[k] = filer[k] /\ filer[k].gen # g
  BY <1>1, <1>4 DEF Filing, Holding
<1>6. /\ mayRepeat \subseteq mayRepeat' /\ mayRepeat' \subseteq RunIds
      /\ g = setups => (mayRepeat' = mayRepeat /\ id = Mine.last.id)
      /\ g # setups => id \in mayRepeat'
      /\ Mine' = Mine
  BY <1>1, <1>3 DEF RecorderInv, BaseHolds, RecorderTypeOK, Mine
<1>7. BaseHolds'
  BY <1>1, <1>4, <1>6, FilerBase DEF RecorderInv, BaseHolds, RecorderTypeOK
<1> HIDE DEF g, id
<1> USE FilerFacts DEF RecorderInv
<1>8. FilersKnown' /\ WaitersKnown'
  BY <1>1, <1>2, <1>3, <1>4, <1>5 DEF CourseHolds, FilersKnown, WaitersKnown
<1>9. Alone' /\ OldRepeats' /\ AddedIsFiled'
  BY <1>1, <1>4, <1>5, <1>6 DEF CourseHolds, Alone, OldRepeats, AddedIsFiled
<1>10. ClaimedOnce'
  <2>1. ASSUME NEW k \in Filing, filer'[k].run \notin mayRepeat'
        PROVE  /\ Mine'.live.id # filer'[k].run
               /\ filer'[k].at = "claimed" => filed'[filer'[k].run] = 0
    BY <1>1, <1>5, <1>6, <2>1 DEF CourseHolds, ClaimedOnce
  <2>2. ASSUME id \notin mayRepeat'
        PROVE  Mine'.live.id # id /\ filed'[id] = 0
    <3>1. g = setups /\ id = Mine.last.id /\ id \notin mayRepeat
      BY <1>6, <2>2
    <3>2. Mine.live.id # id
      BY <1>3, <3>1 DEF CourseHolds, Apart
    <3>3. filed[id] = 0
      BY <1>3, <1>5, <3>1 DEF CourseHolds, FiledGone
    <3> QED
      BY <1>1, <1>6, <3>2, <3>3
  <2> SUFFICES ASSUME NEW k \in Filing', filer'[k].run \notin mayRepeat'
               PROVE  /\ Mine'.live.id # filer'[k].run
                      /\ filer'[k].at = "claimed" => filed'[filer'[k].run] = 0
    BY DEF ClaimedOnce
  <2>3. CASE k \in Filing
    BY <2>1, <2>3
  <2>4. CASE k = h
    BY <1>4, <2>2, <2>4
  <2>5. k \in Filing \/ k = h
    BY <1>5
  <2> QED
    BY <2>3, <2>4, <2>5
<1>11. FiledGone'
  <2>1. \A k \in Filing : k \in Filing' /\ filer'[k] = filer[k]
    BY <1>5
  <2> QED
    BY <1>1, <1>6, <2>1, ZenonT(40) DEF CourseHolds, FiledGone
<1>12. TakesOwn'
  BY <1>1, <1>4, <1>5, <1>6 DEF CourseHolds, TakesOwn
<1>13. Apart' /\ NewNotFiled' /\ FiledAtMostOnce' /\ RunIsKept'
  BY <1>1, <1>6 DEF CourseHolds, Apart, NewNotFiled, FiledAtMostOnce, RunIsKept
<1> QED
  BY <1>7, <1>8, <1>9, <1>10, <1>11, <1>12, <1>13 DEF CourseHolds

\* Its cycle is added: the only one of that run.
LEMMA AddStep ==
    ASSUME RecorderInv, NEW h \in Filers, AddCycle(h)
    PROVE  RecorderInv'
<1> DEFINE id == filer[h].run
<1>1. /\ UNCHANGED <<recorder, unsaved, recFile, author, setups, runs, mayGo, mayRepeat>>
      /\ filer[h].at = "claimed" /\ h \in Filing
      /\ filer' = [filer EXCEPT ![h].at = "added"] /\ filed' = [filed EXCEPT ![id] = @ + 1]
  BY DEF AddCycle, Filing
<1>2. id \in 1..runs /\ id \in RunIds
  BY <1>1, FilerFacts DEF RecorderInv, CourseHolds, FilersKnown
<1>3. /\ filer' \in [Filers -> FilerStates] /\ filer'[h].at = "added"
      /\ \A k \in Filers : /\ filer'[k].gen = filer[k].gen /\ filer'[k].run = filer[k].run
                           /\ k # h => filer'[k] = filer[k]
  BY <1>1 DEF RecorderInv, BaseHolds, RecorderTypeOK, FilerStates, Stages
<1>4. /\ filed' \in [RunIds -> Nat] /\ filed'[id] = filed[id] + 1 /\ filed[id] \in Nat
      /\ \A i \in RunIds : i # id => filed'[i] = filed[i]
  BY <1>1, <1>2 DEF RecorderInv, BaseHolds, RecorderTypeOK
<1>5. Filing' = Filing /\ Mine' = Mine
  BY <1>1, <1>3 DEF Filing, Mine
<1>6. BaseHolds'
  BY <1>1, <1>3, <1>4, FilerBase DEF RecorderInv, BaseHolds, RecorderTypeOK
<1> HIDE DEF id
<1>7. id = filer[h].run
  BY DEF id
<1> USE FilerFacts DEF RecorderInv
<1>8. FilersKnown' /\ WaitersKnown' /\ Alone' /\ OldRepeats' /\ TakesOwn'
  BY <1>1, <1>3, <1>5 DEF CourseHolds, FilersKnown, WaitersKnown, Alone, OldRepeats, TakesOwn
<1>9. AddedIsFiled'
  BY <1>1, <1>2, <1>3, <1>4, <1>5, <1>7 DEF CourseHolds, AddedIsFiled, FilersKnown
<1>10. ClaimedOnce'
  <2>1. ASSUME NEW k \in Filing, filer[k].run \notin mayRepeat
        PROVE  k # h => filer[k].run # id
    BY <1>1, <1>7, <2>1 DEF CourseHolds, OldRepeats, Alone
  <2> QED
    BY <1>1, <1>3, <1>4, <1>5, <2>1 DEF CourseHolds, ClaimedOnce, FilersKnown
<1>11. FiledGone'
  <2>1. id \notin mayRepeat => Mine.live.id # id /\ filer[h].gen = setups
    BY <1>1, <1>7 DEF CourseHolds, ClaimedOnce, OldRepeats
  <2> QED
    BY <1>1, <1>3, <1>4, <1>5, <1>7, <2>1 DEF CourseHolds, FiledGone
<1>12. FiledAtMostOnce'
  BY <1>1, <1>4, <1>7 DEF CourseHolds, FiledAtMostOnce, ClaimedOnce
<1>13. Apart' /\ NewNotFiled' /\ RunIsKept'
  BY <1>1, <1>2, <1>4, <1>5 DEF CourseHolds, Apart, NewNotFiled, RunIsKept
<1> QED
  BY <1>6, <1>8, <1>9, <1>10, <1>11, <1>12, <1>13 DEF CourseHolds

LEMMA SaveStep ==
    ASSUME RecorderInv, NEW h \in Filers, SaveHistory(h)
    PROVE  RecorderInv'
<1>1. /\ UNCHANGED <<recorder, unsaved, recFile, author, setups, runs, filed, mayGo, mayRepeat>>
      /\ filer[h].at = "added" /\ filer' = [filer EXCEPT ![h].at = "saved"]
  BY DEF SaveHistory
<1>2. /\ filer' \in [Filers -> FilerStates] /\ filer'[h].at = "saved"
      /\ \A k \in Filers : /\ filer'[k].gen = filer[k].gen /\ filer'[k].run = filer[k].run
                           /\ k # h => filer'[k] = filer[k]
  BY <1>1 DEF RecorderInv, BaseHolds, RecorderTypeOK, FilerStates, Stages
<1>3. Filing' = Filing /\ Mine' = Mine
  BY <1>1, <1>2 DEF Filing, Mine
<1>4. BaseHolds'
  BY <1>1, <1>2, FilerBase DEF RecorderInv, BaseHolds, RecorderTypeOK
<1> USE FilerFacts DEF RecorderInv
<1>5. FilersKnown' /\ WaitersKnown' /\ Alone' /\ OldRepeats' /\ TakesOwn'
  BY <1>1, <1>2, <1>3 DEF CourseHolds, FilersKnown, WaitersKnown, Alone, OldRepeats, TakesOwn
<1>6. AddedIsFiled' /\ ClaimedOnce'
  BY <1>1, <1>2, <1>3 DEF CourseHolds, AddedIsFiled, ClaimedOnce
<1>7. FiledGone' /\ Apart' /\ NewNotFiled' /\ FiledAtMostOnce' /\ RunIsKept'
  BY <1>1, <1>2, <1>3 DEF CourseHolds, FiledGone, Apart, NewNotFiled, FiledAtMostOnce, RunIsKept
<1> QED
  BY <1>4, <1>5, <1>6, <1>7 DEF CourseHolds

\* It fails: the run stays with the recorder, and may be stored again if it was.
LEMMA FailStep ==
    ASSUME RecorderInv, NEW h \in Filers, FailToFile(h)
    PROVE  RecorderInv'
<1>1. /\ UNCHANGED <<recorder, unsaved, recFile, author, setups, runs, filed, mayGo>>
      /\ filer[h].at \in {"claimed", "added"} /\ h \in Filing
      /\ filer' = [filer EXCEPT ![h] = Idle]
      /\ mayRepeat' = IF filer[h].at = "added" THEN mayRepeat \union {filer[h].run} ELSE mayRepeat
  BY DEF FailToFile, Keep, Filing
<1>2. filer' \in [Filers -> FilerStates] /\ filer'[h] = Idle /\ \A k \in Filers : k # h => filer'[k] = filer[k]
  BY <1>1, EmptyFacts DEF RecorderInv, BaseHolds, RecorderTypeOK
<1>3. /\ Filing' = Filing \ {h} /\ Mine' = Mine
      /\ \A k \in Filing' : k \in Filing /\ k # h /\ filer'[k] = filer[k]
  BY <1>1, <1>2, FilerFacts DEF Filing, Mine, Idle, RecorderInv
<1>4. filer[h].run \in 1..runs /\ filer[h].run \in RunIds
  BY <1>1, FilerFacts DEF RecorderInv, CourseHolds, FilersKnown
<1>5. mayRepeat \subseteq mayRepeat' /\ mayRepeat' \subseteq RunIds
  BY <1>1, <1>4 DEF RecorderInv, BaseHolds, RecorderTypeOK
<1>6. BaseHolds'
  BY <1>1, <1>2, <1>5, FilerBase DEF RecorderInv, BaseHolds, RecorderTypeOK
<1> USE FilerFacts DEF RecorderInv
<1>7. FilersKnown' /\ Alone' /\ OldRepeats' /\ AddedIsFiled' /\ ClaimedOnce' /\ TakesOwn'
  BY <1>1, <1>3, <1>5 DEF CourseHolds, FilersKnown, Alone, OldRepeats, AddedIsFiled, ClaimedOnce, TakesOwn
<1>8. WaitersKnown'
  BY <1>1, <1>2 DEF CourseHolds, WaitersKnown, Idle
<1>9. FiledGone'
  <2>1. \A i \in 1..runs : (i \notin mayRepeat' /\ filed[i] >= 1) => i # filer[h].run
    BY <1>1, <1>4 DEF CourseHolds, ClaimedOnce
  <2> QED
    BY <1>1, <1>3, <1>5, <2>1 DEF CourseHolds, FiledGone
<1>10. Apart' /\ NewNotFiled' /\ FiledAtMostOnce' /\ RunIsKept'
  BY <1>1, <1>3, <1>5 DEF CourseHolds, Apart, NewNotFiled, FiledAtMostOnce, RunIsKept
<1> QED
  BY <1>6, <1>7, <1>8, <1>9, <1>10 DEF CourseHolds

\* It is done, and the recorder it captured forgets the run.
LEMMA ClearStep ==
    ASSUME RecorderInv, NEW h \in Filers, ClearFiled(h)
    PROVE  RecorderInv'
<1> DEFINE g == filer[h].gen
<1>1. /\ UNCHANGED <<recFile, author, setups, runs, filed, mayGo, mayRepeat>>
      /\ filer[h].at = "saved" /\ h \in Filing
      /\ filer' = [filer EXCEPT ![h] = Idle]
      /\ BecomesSaved(g, [recorder[g] EXCEPT !.last = NoRun])
  BY DEF ClearFiled, Filing
<1>2. g \in SetupIds /\ g \in 1..setups
  BY <1>1, RunFacts DEF RecorderInv, CourseHolds, FilersKnown, BaseHolds, RecorderTypeOK, SetupIds
<1>3. filer' \in [Filers -> FilerStates] /\ filer'[h] = Idle /\ \A k \in Filers : k # h => filer'[k] = filer[k]
  BY <1>1, EmptyFacts DEF RecorderInv, BaseHolds, RecorderTypeOK
<1>4. /\ Filing' = Filing \ {h}
      /\ \A k \in Filing' : k \in Filing /\ k # h /\ filer'[k] = filer[k]
  BY <1>1, <1>3, FilerFacts DEF Filing, Idle, RecorderInv
<1>5. BaseHolds' /\ Mine'.live = Mine.live /\ Mine'.last = IF g = setups THEN NoRun ELSE Mine.last
  <2>1. filed' \in [RunIds -> Nat] /\ mayGo' \subseteq RunIds /\ mayRepeat' \subseteq RunIds
    BY <1>1 DEF RecorderInv, BaseHolds, RecorderTypeOK
  <2> QED
    BY <1>1, <1>2, <1>3, <2>1, ForgetBase DEF RecorderInv
<1>6. Mine'.live.id = Mine.live.id /\ Mine'.last.id = IF g = setups THEN 0 ELSE Mine.last.id
  BY <1>5, RunFacts
<1> HIDE DEF g
<1>g. g = filer[h].gen
  BY DEF g
<1> USE FilerFacts DEF RecorderInv
<1>7. FilersKnown' /\ Alone' /\ OldRepeats' /\ AddedIsFiled'
  BY <1>1, <1>4 DEF CourseHolds, FilersKnown, Alone, OldRepeats, AddedIsFiled
<1>8. ClaimedOnce' /\ TakesOwn'
  BY <1>1, <1>4, <1>6 DEF CourseHolds, ClaimedOnce, TakesOwn
<1>9. WaitersKnown'
  BY <1>1, <1>3 DEF CourseHolds, WaitersKnown, Idle
<1>10. FiledGone'
  BY <1>1, <1>4, <1>6, <1>g DEF CourseHolds, FiledGone
<1>11. Apart' /\ NewNotFiled' /\ FiledAtMostOnce'
  BY <1>1, <1>6, RunFacts DEF CourseHolds, Apart, NewNotFiled, FiledAtMostOnce
<1>12. RunIsKept'
  <2>1. g = setups => Mine.last.id \in {0, filer[h].run} \union mayGo
    BY <1>1, <1>g DEF CourseHolds, TakesOwn
  <2>2. filed[filer[h].run] >= 1 /\ filer[h].run \in 1..runs
    BY <1>1 DEF CourseHolds, AddedIsFiled, FilersKnown
  <2> QED
    BY <1>1, <1>6, <2>1, <2>2 DEF CourseHolds, RunIsKept
<1> QED
  BY <1>5, <1>7, <1>8, <1>9, <1>10, <1>11, <1>12 DEF CourseHolds

-----------------------------------------------------------------------------
\* A new set-up shows what the file says; where the two differ, or a run was being
\* filed, that run is known to be cut off.
LEMMA SetUpStep ==
    ASSUME RecorderInv, Reload \/ Crash
    PROVE  RecorderInv'
<1>1. /\ SetUp /\ UNCHANGED <<recFile, runs>>
      /\ unsaved' = unsaved \/ unsaved' = [g \in SetupIds |-> NoSnapshot]
      /\ mayGo' = mayGo \union (Unsettled \ {0}) /\ mayRepeat' = mayRepeat \union (Unsettled \ {0})
  BY DEF Reload, Crash, SetUp, SetupIds
<1>2. \/ filer' = filer /\ filed' = filed /\ Filing' = Filing
      \/ filer' = [h \in Filers |-> Idle] /\ Filing' = {}
  BY DEF Reload, Crash, Filing, Idle
<1>3. \A h \in Filing : filer[h].run \in Unsettled /\ filer[h].run \in 1..runs /\ filer[h].run # 0
  <2>1. \A h \in Filing : filer[h].run \in 1..runs
    BY DEF RecorderInv, CourseHolds, FilersKnown
  <2>2. \A h \in Filing : filer[h].run \in Unsettled
    BY DEF Unsettled
  <2>3. \A i \in 1..runs : i # 0
    OBVIOUS
  <2> QED
    BY <2>1, <2>2, <2>3
<1>4. /\ filed' \in [RunIds -> Nat]
      /\ \A i \in RunIds : filed'[i] <= filed[i] /\ (filed'[i] # filed[i] => i \in Unsettled)
  <2>1. CASE Reload
    BY <2>1 DEF Reload, RecorderInv, BaseHolds, RecorderTypeOK
  <2>2. CASE Crash
    <3>1. PICK undone \in SUBSET {h \in Filers : filer[h].at = "added"} :
             filed' = [i \in RunIds |-> filed[i] - (IF \E h \in undone : filer[h].run = i THEN 1 ELSE 0)]
      BY <2>2 DEF Crash
    <3>2. \A h \in undone : h \in Filing /\ filed[filer[h].run] >= 1
      BY <3>1 DEF Filing, RecorderInv, CourseHolds, AddedIsFiled
    <3>3. ASSUME NEW i \in RunIds
          PROVE  filed'[i] \in Nat /\ filed'[i] <= filed[i] /\ (filed'[i] # filed[i] => i \in Unsettled)
      BY <1>3, <3>1, <3>2, FilerFacts DEF RecorderInv
    <3> QED
      BY <3>1, <3>3
  <2> QED
    BY <2>1, <2>2
<1>5. filer' \in [Filers -> FilerStates]
  BY <1>2, EmptyFacts DEF RecorderInv, BaseHolds, RecorderTypeOK
<1>6. /\ BaseHolds' /\ setups' = setups + 1
      /\ Mine'.live = recFile.live /\ Mine'.last = recFile.last
  BY <1>1, <1>4, <1>5, SetUpBase DEF RecorderInv
<1>7. /\ Mine'.live.id # Mine.live.id => {Mine.live.id, Mine'.live.id} \subseteq Unsettled
      /\ Mine'.last.id # Mine.last.id => {Mine.last.id, Mine'.last.id} \subseteq Unsettled
  BY <1>6 DEF Unsettled
<1> USE FilerFacts DEF RecorderInv
<1>8. \A h \in Filing' : /\ h \in Filing /\ filer'[h] = filer[h] /\ filed' = filed
                         /\ filer[h].run \in mayRepeat'
  BY <1>1, <1>2, <1>3
<1>9. FilersKnown' /\ Alone' /\ OldRepeats' /\ AddedIsFiled' /\ ClaimedOnce'
  BY <1>1, <1>6, <1>8 DEF CourseHolds, FilersKnown, Alone, OldRepeats, AddedIsFiled, ClaimedOnce
<1>10. WaitersKnown'
  BY <1>2, <1>6 DEF CourseHolds, WaitersKnown, Idle
<1>11. TakesOwn'
  BY <1>6, <1>8 DEF CourseHolds, FilersKnown, TakesOwn
<1>12. FiledGone'
  <2>1. ASSUME NEW i \in 1..runs, i \notin mayRepeat', filed'[i] >= 1
        PROVE  Mine'.live.id # i /\ Mine'.last.id # i
    <3>1. i \notin mayRepeat /\ i \notin Unsettled /\ i \in RunIds /\ filed[i] >= 1
      BY <1>1, <1>4, <2>1
    <3>2. Mine.live.id # i /\ (Mine.last.id = i => \E h \in Filing : filer[h].run = i)
      BY <3>1 DEF CourseHolds, FiledGone
    <3> QED
      BY <1>3, <1>7, <3>1, <3>2
  <2> QED
    BY <1>1, <2>1 DEF FiledGone
<1>13. Apart'
  BY <1>1, <1>7, RunFacts DEF CourseHolds, Apart
<1>14. NewNotFiled' /\ FiledAtMostOnce'
  BY <1>1, <1>4 DEF CourseHolds, NewNotFiled, FiledAtMostOnce
<1>15. RunIsKept'
  <2>1. ASSUME NEW i \in 1..runs, i \notin mayGo'
        PROVE  i \in {Mine'.live.id, Mine'.last.id} \/ filed'[i] > 0
    <3>1. i \notin mayGo /\ i \notin Unsettled /\ i \in RunIds
      BY <1>1, <2>1
    <3>2. i \in {Mine.live.id, Mine.last.id} \/ filed[i] > 0
      BY <3>1 DEF CourseHolds, RunIsKept
    <3> QED
      BY <1>4, <1>7, <3>1, <3>2
  <2> QED
    BY <1>1, <2>1 DEF RunIsKept
<1> QED
  BY <1>6, <1>9, <1>10, <1>11, <1>12, <1>13, <1>14, <1>15 DEF CourseHolds

-----------------------------------------------------------------------------
LEMMA RecorderStarts == RecorderInit => RecorderInv
<1> SUFFICES ASSUME RecorderInit PROVE RecorderInv
  OBVIOUS
<1> USE RunFacts DEF RecorderInit
<1>0. runs = 0 /\ recorder = [g \in SetupIds |-> Loaded(NoSnapshot)] /\ recFile = NoSnapshot
      /\ unsaved = [g \in SetupIds |-> NoSnapshot]
  BY DEF SetupIds
<1>1. /\ Loaded(NoSnapshot) \in Recorders /\ Loaded(NoSnapshot).on = FALSE
      /\ Loaded(NoSnapshot).live = NoRun /\ Loaded(NoSnapshot).last = NoRun
  BY EmptyFacts, LoadedFacts
<1>a. Shaped(Loaded(NoSnapshot)) /\ Shaped(NoSnapshot)
  BY <1>0, <1>1, EmptyFacts DEF Shaped
<1>b. RecorderTypeOK
  BY <1>0, <1>1, EmptyFacts DEF RecorderTypeOK
<1>2. BaseHolds
  BY <1>0, <1>a, <1>b DEF BaseHolds, ShapesHold
<1>3. Filing = {} /\ Mine.live.id = 0 /\ Mine.last.id = 0
  <2>1. \A h \in Filers : filer[h].at = "idle"
    BY DEF Idle
  <2>2. Mine = Loaded(NoSnapshot)
    BY <1>0 DEF Mine
  <2> QED
    BY <1>1, <2>1, <2>2 DEF Filing
<1>4. FilersKnown /\ WaitersKnown /\ Alone /\ OldRepeats /\ AddedIsFiled /\ ClaimedOnce /\ TakesOwn
  BY <1>3 DEF FilersKnown, WaitersKnown, Alone, OldRepeats, AddedIsFiled, ClaimedOnce, TakesOwn, Idle
<1>5. FiledGone /\ Apart /\ NewNotFiled /\ FiledAtMostOnce /\ RunIsKept
  BY <1>3 DEF FiledGone, Apart, NewNotFiled, FiledAtMostOnce, RunIsKept
<1> QED
  BY <1>2, <1>4, <1>5 DEF RecorderInv, CourseHolds

LEMMA RecorderSteps == RecorderInv /\ [RecorderNext]_recorderVars => RecorderInv'
<1> SUFFICES ASSUME RecorderInv, [RecorderNext]_recorderVars PROVE RecorderInv'
  OBVIOUS
<1>1. CASE UNCHANGED recorderVars
  <2>1. /\ UNCHANGED <<recorder, unsaved, recFile, author, setups, filer, runs, filed, mayGo, mayRepeat>>
        /\ Filing' = Filing /\ Mine' = Mine
    BY <1>1 DEF recorderVars, Filing, Mine
  <2>2. BaseHolds'
    BY <2>1, FilerBase DEF RecorderInv, BaseHolds, RecorderTypeOK
  <2> QED
    BY <2>1, <2>2, CourseUntouched DEF RecorderInv, CourseHolds, WaitersKnown
<1>2. CASE StartRecording
  BY <1>2, StartBase, StartCourse DEF RecorderInv
<1>3. CASE Sample
  <2>1. /\ UNCHANGED <<setups, filer, runs, filed, mayGo, mayRepeat>> /\ Filing' = Filing
    BY <1>3 DEF Sample, Filing
  <2> QED
    BY <1>3, <2>1, SampleBase, CourseUntouched DEF RecorderInv, CourseHolds, WaitersKnown
<1>4. CASE StopRecording
  BY <1>4, StopBase, StopCourse DEF RecorderInv
<1>5. CASE Discard
  BY <1>5, DiscardStep
<1>6. ASSUME NEW g \in 1..MaxSetups, WriteFile(g) PROVE RecorderInv'
  <2>1. /\ UNCHANGED <<setups, filer, runs, filed, mayGo, mayRepeat>> /\ Filing' = Filing
    BY <1>6 DEF WriteFile, Filing
  <2>2. BaseHolds' /\ Mine'.live = Mine.live /\ Mine'.last = Mine.last
    BY <1>6, WriteBase DEF RecorderInv, SetupIds
  <2> QED
    BY <2>1, <2>2, CourseUntouched DEF RecorderInv, CourseHolds, WaitersKnown
<1>7. ASSUME NEW h \in Filers, AskToFile(h) \/ Refuse(h) \/ Claim(h) \/ AddCycle(h)
                               \/ SaveHistory(h) \/ FailToFile(h) \/ ClearFiled(h)
      PROVE  RecorderInv'
  BY <1>7, WaitStep, ClaimStep, AddStep, SaveStep, FailStep, ClearStep
<1>8. CASE Reload \/ Crash
  BY <1>8, SetUpStep
<1> QED
  BY <1>1, <1>2, <1>3, <1>4, <1>5, <1>6, <1>7, <1>8 DEF RecorderNext

\* A recorder, its file and the commands that file its runs keep their types, and a
\* run is shown as live exactly while it is being recorded (recorder.py).
THEOREM RecorderTyped == RecorderSpec => []BaseHolds
<1>1. RecorderInv => BaseHolds
  BY DEF RecorderInv
<1> QED
  BY <1>1, RecorderStarts, RecorderSteps, PTL DEF RecorderSpec

\* A recorded run becomes one stored cycle: none is lost that nobody replaced or
\* threw away and no restart cut off, and the commands that compete for it
\* (process_recording, clear_last_run) store it once.
THEOREM RecordedRunsAreStoredOnce == RecorderSpec => []RunStoredOnce
<1>1. RecorderInv => RunStoredOnce
  <2> SUFFICES ASSUME RecorderInv PROVE RunStoredOnce
    OBVIOUS
  <2>1. FiledOnce
    BY FilerFacts DEF RecorderInv, CourseHolds, FiledAtMostOnce, FiledOnce
  <2> QED
    BY <2>1 DEF RecorderInv, CourseHolds, RunStoredOnce
<1> QED
  BY <1>1, RecorderStarts, RecorderSteps, PTL DEF RecorderSpec

-----------------------------------------------------------------------------
(***************************************************************************)
(* The import of past runs.                                                *)
(***************************************************************************)
Rows == Seq(RunsEver)
Tokens == {0} \union UploadTokens
Slots == [token : Tokens, chunks : Rows, scan : {0} \union Scans, cycles : Rows]
ScanTasks == [state : {"none", "running", "over"}, token : Tokens, chunks : Rows, shown : Rows]
ApplyTasks == [state : {"none", "waiting", "saving", "over"}, scan : {0} \union Scans,
               accept : SUBSET RunsEver, token : Tokens, stored : SUBSET RunsEver]

ImportTypeOK ==
    /\ happened \in 0..MaxRunsEver /\ running \in BOOLEAN /\ past \subseteq RunsEver
    /\ back \in [RunsEver -> Nat]
    /\ slot \in Slots /\ stream \in [UploadTokens -> Rows] /\ issued \in 0..MaxTokens
    /\ scans \in [Scans -> ScanTasks] /\ applies \in [Applies -> ApplyTasks]
    /\ applying \in {0} \union Applies
    /\ early \subseteq RunsEver

\* Runs that have begun, and rows that are the beginning of an upload.
Begun(rows) == \A i \in 1..Len(rows) : rows[i] <= happened
PartOf(rows, whole) ==
    Len(rows) <= Len(whole) /\ \A i \in 1..Len(rows) : rows[i] = whole[i]

\* Only a run that has begun is on record; one in progress was imported early if it is.
RecordsBegun == \A r \in RunsEver : back[r] > 0 => r <= happened
LiveIsEarly == running => happened >= 1 /\ (back[happened] > 0 => happened \in early)

RecordsHold == RecordsBegun /\ LiveIsEarly /\ RunOnRecordOnce

StreamsBegun == \A t \in UploadTokens : Begun(stream[t])
ShownBegun == \A s \in Scans : Begun(scans[s].shown)
\* The staged text is the beginning of the upload whose token the slot has.
SlotIsUpload ==
    /\ slot.token <= issued
    /\ slot.token = 0 => slot.chunks = <<>>
    /\ slot.token # 0 => PartOf(slot.chunks, stream[slot.token])
\* The staged candidates are what their scan showed, and it is over.
SlotIsShown ==
    slot.scan # 0 => scans[slot.scan].state = "over" /\ slot.cycles = scans[slot.scan].shown
ScansRead ==
    \A s \in Scans : scans[s].state = "running" =>
        /\ scans[s].token # 0 /\ scans[s].token <= issued
        /\ scans[s].chunks # <<>> /\ PartOf(scans[s].chunks, stream[scans[s].token])
AppliesKnow ==
    \A x \in Applies : applies[x].state = "waiting" => applies[x].scan # 0

UploadsHold ==
    /\ StreamsBegun /\ ShownBegun /\ SlotIsUpload /\ SlotIsShown /\ ScansRead /\ AppliesKnow

ImportInv == ImportTypeOK /\ RecordsHold /\ UploadsHold /\ ~unseen

LEMMA ImportFacts ==
    /\ MaxRunsEver \in Nat /\ MaxTokens \in Nat /\ MaxScans \in Nat /\ MaxApplies \in Nat
    /\ 0 \notin Scans /\ 0 \notin UploadTokens /\ 0 \notin RunsEver /\ RunsEver \subseteq Nat
    /\ Tokens \subseteq Nat /\ Scans \subseteq Nat
    /\ <<>> \in Rows /\ Len(<<>>) = 0
    /\ \A rows \in Rows : Len(rows) \in Nat
BY ImportAssumption DEF Scans, UploadTokens, RunsEver, Tokens, Rows

LEMMA RowFacts ==
    ASSUME NEW rows \in Rows, NEW i \in 1..Len(rows)
    PROVE  rows[i] \in RunsEver /\ rows[i] \in Nat
<1>1. rows[i] \in RunsEver
  BY DEF Rows
<1> QED
  BY <1>1, ImportFacts

LEMMA BlankFacts ==
    /\ NoSlot \in Slots /\ NoSlot.token = 0 /\ NoSlot.chunks = <<>> /\ NoSlot.scan = 0
    /\ NoScan \in ScanTasks /\ NoScan.state = "none" /\ NoScan.shown = <<>>
    /\ NoApply \in ApplyTasks /\ NoApply.state = "none"
BY ImportFacts DEF NoSlot, Slots, NoScan, ScanTasks, NoApply, ApplyTasks, Tokens

LEMMA OverFacts ==
    /\ \A t \in ScanTasks : Over(t) \in ScanTasks /\ Over(t).state = "over" /\ Over(t).shown = t.shown
    /\ \A t \in ApplyTasks : Over(t) \in ApplyTasks /\ Over(t).state = "over"
BY DEF Over, ScanTasks, ApplyTasks

\* The first rows of some rows.
LEMMA FirstRows ==
    ASSUME NEW w \in Rows, NEW n \in 1..Len(w)
    PROVE  /\ SubSeq(w, 1, n) \in Rows /\ Len(SubSeq(w, 1, n)) = n
           /\ \A i \in 1..n : SubSeq(w, 1, n)[i] = w[i]
<1>1. n \in Nat /\ n >= 1 /\ Len(w) \in Nat /\ \A i \in 1..n : w[i] \in RunsEver
  BY DEF Rows
<1>2. /\ SubSeq(w, 1, n) \in Seq(RunsEver)
      /\ Len(SubSeq(w, 1, n)) = IF 1 <= n THEN n - 1 + 1 ELSE 0
      /\ \A i \in 1..(n - 1 + 1) : SubSeq(w, 1, n)[i] = w[1 + i - 1]
  BY <1>1, SubSeqProperties
<1>3. n - 1 + 1 = n /\ \A i \in 1..n : 1 + i - 1 = i
  BY <1>1
<1> QED
  BY <1>1, <1>2, <1>3 DEF Rows

\* What a file or the recorder covers.
LEMMA StretchFacts ==
    ASSUME NEW i \in RunsEver, NEW j \in RunsEver, i <= j, j <= happened, happened \in Nat
    PROVE  Stretch(i, j) \in Rows /\ Begun(Stretch(i, j))
<1>1. i \in Nat /\ j \in Nat /\ j - i + 1 \in Nat
  BY ImportFacts
<1>2. \A k \in 1..(j - i + 1) : i + k - 1 \in RunsEver /\ i + k - 1 <= j
  BY <1>1, ImportFacts DEF RunsEver
<1>3. Stretch(i, j) \in Rows /\ Len(Stretch(i, j)) = j - i + 1
  BY <1>1, <1>2 DEF Stretch, Rows
<1>4. \A k \in 1..(j - i + 1) : Stretch(i, j)[k] = i + k - 1
  BY DEF Stretch
<1> QED
  BY <1>1, <1>2, <1>3, <1>4 DEF Begun

LEMMA TokenFacts ==
    ASSUME ImportTypeOK
    PROVE  /\ slot.token \in Tokens /\ slot.chunks \in Rows /\ slot.cycles \in Rows
           /\ slot.scan \in {0} \union Scans
           /\ \A s \in Scans : /\ scans[s] \in ScanTasks /\ scans[s].token \in Tokens
                               /\ scans[s].chunks \in Rows /\ scans[s].shown \in Rows
           /\ \A x \in Applies : /\ applies[x] \in ApplyTasks /\ applies[x].scan \in {0} \union Scans
                                 /\ applies[x].accept \subseteq RunsEver
                                 /\ applies[x].stored \subseteq RunsEver
           /\ happened \in Nat /\ issued \in Nat
BY ImportFacts DEF ImportTypeOK, Slots, ScanTasks, ApplyTasks

\* Steps of the appliance, and of the records, leave the uploads; and the other way about.
LEMMA UploadsKept ==
    ASSUME ImportTypeOK, UploadsHold, happened' \in Nat, happened <= happened',
           UNCHANGED <<slot, stream, issued, scans, applies>>
    PROVE  UploadsHold'
<1>1. StreamsBegun' /\ ShownBegun'
  <2>1. \A rows \in Rows : Begun(rows) => Begun(rows)'
    <3>1. \A rows \in Rows : \A i \in 1..Len(rows) : rows[i] \in Nat
      BY RowFacts
    <3> QED
      BY <3>1, TokenFacts DEF Begun
  <2>2. \A t \in UploadTokens : stream[t] \in Rows
    BY DEF ImportTypeOK
  <2> QED
    BY <2>1, <2>2, TokenFacts DEF UploadsHold, StreamsBegun, ShownBegun
<1>2. SlotIsUpload' /\ SlotIsShown' /\ ScansRead' /\ AppliesKnow'
  BY DEF UploadsHold, SlotIsUpload, SlotIsShown, ScansRead, AppliesKnow, PartOf
<1> QED
  BY <1>1, <1>2 DEF UploadsHold

LEMMA RecordsKept ==
    ASSUME RecordsHold, UNCHANGED <<runVars, back, early>>
    PROVE  RecordsHold'
BY DEF RecordsHold, RecordsBegun, LiveIsEarly, RunOnRecordOnce, runVars

-----------------------------------------------------------------------------
LEMMA BeginsStep ==
    ASSUME ImportInv, RunBegins
    PROVE  ImportInv'
<1>1. /\ ~running /\ happened' = happened + 1 /\ running' = TRUE /\ happened' \in 0..MaxRunsEver
      /\ UNCHANGED <<past, back, slot, stream, issued, scans, applies, applying, early, unseen>>
  BY TokenFacts, ImportFacts DEF RunBegins, ImportInv, ImportTypeOK, uploadVars, importPast
<1>2. ImportTypeOK'
  BY <1>1 DEF ImportInv, ImportTypeOK
<1>3. UploadsHold'
  BY <1>1, TokenFacts, UploadsKept DEF ImportInv
<1>4. happened' \in RunsEver /\ happened \in Nat
  BY <1>1, TokenFacts, ImportFacts DEF ImportInv, RunsEver
<1>5. back[happened'] \in Nat
  BY <1>4 DEF ImportInv, ImportTypeOK
<1>6. RecordsBegun'
  BY <1>1, <1>4, ImportFacts DEF ImportInv, RecordsHold, RecordsBegun
<1>7. LiveIsEarly'
  BY <1>1, <1>4, <1>5 DEF ImportInv, RecordsHold, RecordsBegun, LiveIsEarly
<1>8. RunOnRecordOnce'
  BY <1>1 DEF ImportInv, RecordsHold, RunOnRecordOnce
<1> QED
  BY <1>1, <1>2, <1>3, <1>6, <1>7, <1>8 DEF ImportInv, RecordsHold

LEMMA SettlesStep ==
    ASSUME ImportInv, NEW watched \in BOOLEAN, RunSettles(watched)
    PROVE  ImportInv'
<1>1. /\ running /\ running' = FALSE /\ happened' = happened
      /\ past' = past \/ past' = past \union {happened}
      /\ UNCHANGED <<back, slot, stream, issued, scans, applies, applying, early, unseen>>
  BY DEF RunSettles, uploadVars, importPast
<1>2. happened \in RunsEver /\ happened \in Nat
  BY <1>1, TokenFacts, ImportFacts DEF ImportInv, ImportTypeOK, RecordsHold, LiveIsEarly, RunsEver
<1>3. ImportTypeOK'
  BY <1>1, <1>2 DEF ImportInv, ImportTypeOK
<1>4. UploadsHold'
  BY <1>1, <1>2, UploadsKept DEF ImportInv
<1>5. RecordsBegun' /\ LiveIsEarly'
  BY <1>1 DEF ImportInv, RecordsHold, RecordsBegun, LiveIsEarly
<1>6. RunOnRecordOnce'
  <2>1. back[happened] \in Nat /\ (back[happened] > 0 => happened \in early)
    BY <1>1, <1>2 DEF ImportInv, ImportTypeOK, RecordsHold, LiveIsEarly
  <2> QED
    BY <1>1, <1>2, <2>1 DEF ImportInv, RecordsHold, RunOnRecordOnce
<1> QED
  BY <1>1, <1>3, <1>4, <1>5, <1>6 DEF ImportInv, RecordsHold

LEMMA ForgetStep ==
    ASSUME ImportInv, NEW r \in RunsEver, Forget(r)
    PROVE  ImportInv'
<1>1. /\ past' = past \ {r} /\ back' = [back EXCEPT ![r] = 0] /\ early' = early \ {r}
      /\ UNCHANGED <<happened, running, slot, stream, issued, scans, applies, applying, unseen>>
  BY DEF Forget, uploadVars
<1>2. /\ back' \in [RunsEver -> Nat] /\ back'[r] = 0
      /\ \A q \in RunsEver : q # r => back'[q] = back[q]
  BY <1>1 DEF ImportInv, ImportTypeOK
<1>3. ImportTypeOK'
  BY <1>1, <1>2 DEF ImportInv, ImportTypeOK
<1>4. UploadsHold'
  BY <1>1, TokenFacts, UploadsKept DEF ImportInv
<1>5. RecordsBegun' /\ RunOnRecordOnce'
  BY <1>1, <1>2 DEF ImportInv, RecordsHold, RecordsBegun, RunOnRecordOnce
<1>6. LiveIsEarly'
  <2>1. running => happened \in RunsEver
    BY TokenFacts, ImportFacts DEF ImportInv, ImportTypeOK, RecordsHold, LiveIsEarly, RunsEver
  <2> QED
    BY <1>1, <1>2, <2>1 DEF ImportInv, RecordsHold, LiveIsEarly
<1> QED
  BY <1>1, <1>3, <1>4, <1>5, <1>6 DEF ImportInv, RecordsHold

-----------------------------------------------------------------------------
\* A new upload, empty or read at once: no scan has its token.
LEMMA StagedStep ==
    ASSUME ImportInv, NEW i \in RunsEver, NEW j \in RunsEver, Begin(i, j) \/ RecorderRead(i, j)
    PROVE  ImportInv'
<1> DEFINE whole == Stretch(i, j)
<1>1. /\ issued < MaxTokens /\ i <= j /\ j <= happened /\ issued' = issued + 1
      /\ stream' = [stream EXCEPT ![issued'] = whole]
      /\ \/ slot' = [NoSlot EXCEPT !.token = issued']
         \/ slot' = [NoSlot EXCEPT !.token = issued', !.chunks = stream'[issued']]
      /\ UNCHANGED <<happened, running, past, back, scans, applies, applying, early, unseen>>
  BY DEF Begin, RecorderRead, runVars, importPast
<1>2. issued' \in UploadTokens /\ issued' \in Nat /\ issued' \in 0..MaxTokens /\ issued \in Nat
  BY <1>1, TokenFacts, ImportFacts DEF ImportInv, UploadTokens
<1>3. whole \in Rows /\ Begun(whole)
  BY <1>1, TokenFacts, StretchFacts DEF ImportInv
<1> HIDE DEF whole
<1>4. /\ stream' \in [UploadTokens -> Rows] /\ stream'[issued'] = whole
      /\ \A t \in UploadTokens : t # issued' => stream'[t] = stream[t]
  BY <1>1, <1>2, <1>3 DEF ImportInv, ImportTypeOK
<1>5. /\ slot' \in Slots /\ slot'.token = issued' /\ slot'.scan = 0
      /\ slot'.chunks = <<>> \/ slot'.chunks = whole
  BY <1>1, <1>2, <1>3, <1>4, BlankFacts DEF Slots, Tokens
<1>6. ImportTypeOK'
  BY <1>1, <1>2, <1>4, <1>5 DEF ImportInv, ImportTypeOK
<1>7. RecordsHold'
  BY <1>1, RecordsKept DEF ImportInv, runVars
<1>8. StreamsBegun' /\ ShownBegun'
  BY <1>1, <1>3, <1>4 DEF ImportInv, UploadsHold, StreamsBegun, ShownBegun, Begun
<1>9. SlotIsUpload'
  <2>1. PartOf(<<>>, whole) /\ PartOf(whole, whole)
    BY <1>3, ImportFacts DEF PartOf
  <2> QED
    BY <1>2, <1>4, <1>5, <2>1, ImportFacts DEF SlotIsUpload
<1>10. SlotIsShown' /\ AppliesKnow'
  BY <1>1, <1>5 DEF ImportInv, UploadsHold, SlotIsShown, AppliesKnow
<1>11. ScansRead'
  <2>1. ASSUME NEW s \in Scans, scans[s].state = "running"
        PROVE  /\ scans[s].token # 0 /\ scans[s].token <= issued' /\ scans[s].chunks # <<>>
               /\ PartOf(scans[s].chunks, stream[scans[s].token])
               /\ stream'[scans[s].token] = stream[scans[s].token]
    <3>1. /\ scans[s].token # 0 /\ scans[s].token <= issued /\ scans[s].chunks # <<>>
          /\ PartOf(scans[s].chunks, stream[scans[s].token])
      BY <2>1 DEF ImportInv, UploadsHold, ScansRead
    <3>2. scans[s].token \in UploadTokens /\ scans[s].token \in Nat
      BY <3>1, TokenFacts, ImportFacts DEF ImportInv, Tokens
    <3> QED
      BY <1>1, <1>2, <1>4, <3>1, <3>2
  <2> QED
    BY <1>1, <2>1 DEF ScansRead
<1> QED
  BY <1>1, <1>6, <1>7, <1>8, <1>9, <1>10, <1>11 DEF ImportInv, UploadsHold

\* The next chunk of the upload staged.
LEMMA ChunkStep ==
    ASSUME ImportInv, NEW t \in UploadTokens, NEW k \in RunsEver, Chunk(t, k)
    PROVE  ImportInv'
<1> DEFINE chunks == Append(slot.chunks, stream[t][k])
<1>1. /\ slot.token = t /\ slot.scan = 0 /\ k \in 1..Len(stream[t]) /\ k = Len(slot.chunks) + 1
      /\ slot' = [slot EXCEPT !.chunks = chunks]
      /\ UNCHANGED <<happened, running, past, back, stream, issued, scans, applies, applying, early, unseen>>
  BY TokenFacts DEF Chunk, InOrder, runVars, uploadVars, importPast, ImportInv, Slots, ImportTypeOK
<1>a. stream[t] \in Rows /\ slot.chunks \in Rows /\ t # 0
  BY TokenFacts, ImportFacts DEF ImportInv, ImportTypeOK
<1>2. stream[t] \in Rows /\ slot.chunks \in Rows /\ stream[t][k] \in RunsEver /\ t # 0
  BY <1>1, <1>a, RowFacts
<1>3. /\ chunks \in Rows /\ Len(chunks) = k
      /\ \A i \in 1..Len(slot.chunks) : chunks[i] = slot.chunks[i]
      /\ chunks[k] = stream[t][k]
  BY <1>1, <1>2, AppendProperties DEF Rows
<1> HIDE DEF chunks
<1>4. /\ slot' \in Slots /\ slot'.token = slot.token /\ slot'.scan = slot.scan
      /\ slot'.cycles = slot.cycles /\ slot'.chunks = chunks
  BY <1>1, <1>3 DEF ImportInv, ImportTypeOK, Slots
<1>5. ImportTypeOK'
  BY <1>1, <1>4 DEF ImportInv, ImportTypeOK
<1>6. RecordsHold'
  BY <1>1, RecordsKept DEF ImportInv, runVars
<1>7. SlotIsUpload'
  <2>1. PartOf(slot.chunks, stream[t])
    BY <1>1, <1>2 DEF ImportInv, UploadsHold, SlotIsUpload
  <2>2. Len(slot.chunks) \in Nat /\ Len(stream[t]) \in Nat
    BY <1>2, ImportFacts
  <2>3. PartOf(chunks, stream[t])
    BY <1>1, <1>3, <2>1, <2>2 DEF PartOf
  <2> QED
    BY <1>1, <1>2, <1>4, <2>3 DEF ImportInv, UploadsHold, SlotIsUpload
<1>8. StreamsBegun' /\ ShownBegun' /\ SlotIsShown' /\ ScansRead' /\ AppliesKnow'
  BY <1>1, <1>4 DEF ImportInv, UploadsHold, StreamsBegun, ShownBegun, Begun, SlotIsShown,
                    ScansRead, PartOf, AppliesKnow
<1> QED
  BY <1>1, <1>5, <1>6, <1>7, <1>8 DEF ImportInv, UploadsHold

\* The staging is dropped, or nothing of it changes.
LEMMA SlotDropped ==
    ASSUME ImportTypeOK, UploadsHold, slot' = NoSlot \/ slot' = slot, UNCHANGED <<stream, issued, happened>>,
           \A s \in Scans :
               /\ scans'[s].shown = scans[s].shown
               /\ scans'[s].state # "over" => scans'[s] = scans[s]
               /\ scans[s].state = "over" => scans'[s].state = "over",
           \A x \in Applies : applies'[x].state = "waiting" => applies'[x] = applies[x]
    PROVE  UploadsHold'
<1>1. StreamsBegun' /\ ShownBegun'
  BY DEF UploadsHold, StreamsBegun, ShownBegun, Begun
<1>2. SlotIsUpload'
  <2>1. CASE slot' = NoSlot
    BY <2>1, BlankFacts, TokenFacts DEF SlotIsUpload
  <2>2. CASE slot' = slot
    BY <2>2 DEF UploadsHold, SlotIsUpload, PartOf
  <2> QED
    BY <2>1, <2>2
<1>3. SlotIsShown'
  BY BlankFacts, TokenFacts DEF UploadsHold, SlotIsShown
<1>4. ScansRead'
  BY DEF UploadsHold, ScansRead, PartOf
<1>5. AppliesKnow'
  BY DEF UploadsHold, AppliesKnow
<1> QED
  BY <1>1, <1>2, <1>3, <1>4, <1>5 DEF UploadsHold

LEMMA DroppedStep ==
    ASSUME ImportInv, TooLarge \/ ReadRecorder
    PROVE  ImportInv'
<1>1. /\ slot' = NoSlot \/ slot' = slot
      /\ UNCHANGED <<happened, running, past, back, stream, issued, scans, applies, applying, early, unseen>>
  BY DEF TooLarge, ReadRecorder, runVars, uploadVars, importPast
<1>2. ImportTypeOK'
  BY <1>1, BlankFacts DEF ImportInv, ImportTypeOK
<1>3. UploadsHold'
  BY <1>1, SlotDropped DEF ImportInv
<1> QED
  BY <1>1, <1>2, <1>3, RecordsKept DEF ImportInv, runVars

-----------------------------------------------------------------------------
LEMMA StartScanStep ==
    ASSUME ImportInv, NEW s \in Scans, StartScan(s)
    PROVE  ImportInv'
<1> DEFINE task == [state |-> "running", token |-> slot.token, chunks |-> slot.chunks, shown |-> <<>>]
<1>1. /\ scans[s].state = "none" /\ slot.token # 0 /\ slot.chunks # <<>>
      /\ scans' = [scans EXCEPT ![s] = task]
      /\ UNCHANGED <<happened, running, past, back, slot, stream, issued, applies, applying, early, unseen>>
  BY DEF StartScan, runVars, uploadVars, importPast
<1>2. /\ task \in ScanTasks /\ task.state = "running" /\ task.token = slot.token
      /\ task.chunks = slot.chunks /\ task.shown = <<>>
  BY TokenFacts, ImportFacts DEF ImportInv, ScanTasks
<1> HIDE DEF task
<1>3. /\ scans' \in [Scans -> ScanTasks] /\ scans'[s] = task
      /\ \A u \in Scans : u # s => scans'[u] = scans[u]
  BY <1>1, <1>2 DEF ImportInv, ImportTypeOK
<1>4. ImportTypeOK'
  BY <1>1, <1>3 DEF ImportInv, ImportTypeOK
<1>5. StreamsBegun'
  BY <1>1 DEF ImportInv, UploadsHold, StreamsBegun, Begun
<1>6. ShownBegun'
  <2>1. Begun(<<>>)
    BY ImportFacts DEF Begun
  <2> QED
    BY <1>1, <1>2, <1>3, <2>1 DEF ImportInv, UploadsHold, ShownBegun, Begun
<1>7. SlotIsUpload' /\ AppliesKnow'
  BY <1>1 DEF ImportInv, UploadsHold, SlotIsUpload, PartOf, AppliesKnow
<1>8. SlotIsShown'
  BY <1>1, <1>3, TokenFacts DEF ImportInv, UploadsHold, SlotIsShown
<1>9. ScansRead'
  BY <1>1, <1>2, <1>3 DEF ImportInv, UploadsHold, ScansRead, SlotIsUpload, PartOf
<1> QED
  BY <1>1, <1>4, <1>5, <1>6, <1>7, <1>8, <1>9, RecordsKept DEF ImportInv, UploadsHold, runVars

LEMMA EndScanStep ==
    ASSUME ImportInv, NEW s \in Scans, NEW n \in RunsEver, EndScan(s, n)
    PROVE  ImportInv'
<1> DEFINE found == SubSeq(scans[s].chunks, 1, n)
           task == Over([NoScan EXCEPT !.shown = found])
<1>1. /\ scans[s].state = "running" /\ n \in 1..Len(scans[s].chunks)
      /\ scans' = [scans EXCEPT ![s] = task]
      /\ slot' = IF slot.token = scans[s].token
                 THEN [slot EXCEPT !.scan = s, !.cycles = found, !.chunks = <<>>] ELSE slot
      /\ UNCHANGED <<happened, running, past, back, stream, issued, applies, applying, early, unseen>>
  BY DEF EndScan, runVars, uploadVars, importPast
<1>2. scans[s].chunks \in Rows /\ scans[s] \in ScanTasks /\ scans[s].token \in Tokens
  BY TokenFacts DEF ImportInv
<1>3. /\ found \in Rows /\ Len(found) = n
      /\ \A i \in 1..n : found[i] = scans[s].chunks[i]
  BY <1>1, <1>2, FirstRows
<1>4. Begun(found)
  <2>1. /\ scans[s].token # 0 /\ PartOf(scans[s].chunks, stream[scans[s].token])
    BY <1>1 DEF ImportInv, UploadsHold, ScansRead
  <2>2. scans[s].token \in UploadTokens
    BY <1>2, <2>1 DEF Tokens
  <2>3. Begun(stream[scans[s].token]) /\ stream[scans[s].token] \in Rows
    BY <2>2 DEF ImportInv, ImportTypeOK, UploadsHold, StreamsBegun
  <2>4. Len(scans[s].chunks) \in Nat /\ Len(stream[scans[s].token]) \in Nat
    BY <1>2, <2>3, ImportFacts
  <2> QED
    BY <1>1, <1>3, <2>1, <2>3, <2>4, SMTT(30) DEF Begun, PartOf
<1> HIDE DEF found
<1>5. task \in ScanTasks /\ task.state = "over" /\ task.shown = found
  <2>1. [NoScan EXCEPT !.shown = found] \in ScanTasks /\ [NoScan EXCEPT !.shown = found].shown = found
    BY <1>3, BlankFacts DEF ScanTasks
  <2> QED
    BY <2>1, OverFacts
<1> HIDE DEF task
<1>6. /\ scans' \in [Scans -> ScanTasks] /\ scans'[s] = task
      /\ \A u \in Scans : u # s => scans'[u] = scans[u]
  BY <1>1, <1>5 DEF ImportInv, ImportTypeOK
<1>7. /\ slot' \in Slots /\ slot'.token = slot.token
      /\ \/ slot'.scan = s /\ slot'.cycles = found /\ slot'.chunks = <<>>
         \/ slot' = slot
  BY <1>1, <1>3, ImportFacts DEF ImportInv, ImportTypeOK, Slots
<1>8. ImportTypeOK'
  BY <1>1, <1>6, <1>7 DEF ImportInv, ImportTypeOK
<1>9. StreamsBegun' /\ ShownBegun' /\ AppliesKnow'
  BY <1>1, <1>4, <1>5, <1>6 DEF ImportInv, UploadsHold, StreamsBegun, ShownBegun, Begun, AppliesKnow
<1>10. SlotIsUpload'
  <2>1. slot.token # 0 => PartOf(<<>>, stream[slot.token])
    <3>1. slot.token # 0 => stream[slot.token] \in Rows
      BY TokenFacts DEF ImportInv, ImportTypeOK, Tokens
    <3> QED
      BY <3>1, ImportFacts DEF PartOf
  <2>2. CASE slot'.chunks = <<>>
    BY <1>1, <1>7, <2>1, <2>2 DEF ImportInv, UploadsHold, SlotIsUpload
  <2>3. CASE slot' = slot
    BY <1>1, <2>3 DEF ImportInv, UploadsHold, SlotIsUpload, PartOf
  <2> QED
    BY <1>7, <2>2, <2>3
<1>11. SlotIsShown'
  BY <1>1, <1>5, <1>6, <1>7, TokenFacts DEF ImportInv, UploadsHold, SlotIsShown
<1>12. ScansRead'
  BY <1>1, <1>5, <1>6 DEF ImportInv, UploadsHold, ScansRead, PartOf
<1> QED
  BY <1>1, <1>8, <1>9, <1>10, <1>11, <1>12, RecordsKept DEF ImportInv, UploadsHold, runVars

LEMMA StopScanStep ==
    ASSUME ImportInv, NEW s \in Scans, StopScan(s)
    PROVE  ImportInv'
<1> DEFINE task == Over(NoScan)
<1>1. /\ scans[s].state = "running" /\ scans' = [scans EXCEPT ![s] = task]
      /\ UNCHANGED <<happened, running, past, back, slot, stream, issued, applies, applying, early, unseen>>
  BY DEF StopScan, runVars, uploadVars, importPast
<1>2. task \in ScanTasks /\ task.state = "over" /\ task.shown = <<>>
  BY BlankFacts, OverFacts
<1> HIDE DEF task
<1>3. /\ scans' \in [Scans -> ScanTasks] /\ scans'[s] = task
      /\ \A u \in Scans : u # s => scans'[u] = scans[u]
  BY <1>1, <1>2 DEF ImportInv, ImportTypeOK
<1>4. ImportTypeOK'
  BY <1>1, <1>3 DEF ImportInv, ImportTypeOK
<1>5. Begun(<<>>)
  BY ImportFacts DEF Begun
<1>6. StreamsBegun' /\ ShownBegun' /\ AppliesKnow' /\ SlotIsUpload'
  BY <1>1, <1>2, <1>3, <1>5 DEF ImportInv, UploadsHold, StreamsBegun, ShownBegun, Begun,
                               AppliesKnow, SlotIsUpload, PartOf
<1>7. SlotIsShown' /\ ScansRead'
  BY <1>1, <1>2, <1>3, TokenFacts DEF ImportInv, UploadsHold, SlotIsShown, ScansRead, PartOf
<1> QED
  BY <1>1, <1>4, <1>6, <1>7, RecordsKept DEF ImportInv, UploadsHold, runVars

-----------------------------------------------------------------------------
LEMMA StartApplyStep ==
    ASSUME ImportInv, NEW x \in Applies, NEW s \in Scans, NEW accept \in SUBSET RunsEver,
           StartApply(x, s, accept)
    PROVE  ImportInv'
<1> DEFINE task == [NoApply EXCEPT !.state = "waiting", !.scan = s, !.accept = accept]
<1>1. /\ applies' = [applies EXCEPT ![x] = task]
      /\ UNCHANGED <<happened, running, past, back, slot, stream, issued, scans, applying, early, unseen>>
  BY DEF StartApply, runVars, uploadVars, importPast
<1>2. task \in ApplyTasks /\ task.scan = s
  BY BlankFacts DEF ApplyTasks
<1> HIDE DEF task
<1>3. /\ applies' \in [Applies -> ApplyTasks] /\ applies'[x] = task
      /\ \A y \in Applies : y # x => applies'[y] = applies[y]
  BY <1>1, <1>2 DEF ImportInv, ImportTypeOK
<1>4. ImportTypeOK'
  BY <1>1, <1>3 DEF ImportInv, ImportTypeOK
<1>5. /\ StreamsBegun' /\ ShownBegun' /\ SlotIsUpload' /\ SlotIsShown' /\ ScansRead'
  BY <1>1 DEF ImportInv, UploadsHold, StreamsBegun, ShownBegun, Begun, SlotIsUpload,
              SlotIsShown, ScansRead, PartOf
<1>6. AppliesKnow'
  BY <1>2, <1>3, ImportFacts DEF ImportInv, UploadsHold, AppliesKnow
<1> QED
  BY <1>1, <1>4, <1>5, <1>6, RecordsKept DEF ImportInv, UploadsHold, runVars

\* The rows stored are rows the user accepted of that scan, of runs that have begun and
\* were not on record.
LEMMA StoredRows ==
    ASSUME ImportInv, NEW x \in Applies, StoreRows(x)
    PROVE  \E rows \in SUBSET RunsEver :
              /\ back' = [r \in RunsEver |-> IF r \in rows THEN back[r] + 1 ELSE back[r]]
              /\ early' = early \union (rows \ SettledRuns)
              /\ applies' = [applies EXCEPT ![x] = [@ EXCEPT !.state = "saving", !.token = slot.token,
                                                             !.stored = rows]]
              /\ unseen' = FALSE
              /\ \A r \in rows : r <= happened /\ ~OnRecord(r)
<1> DEFINE accept == applies[x].accept
           wanted == {i \in accept : i <= Len(slot.cycles)}
           new == {i \in wanted : ~OnRecord(slot.cycles[i])}
           fit == {i \in new : Cardinality({k \in new : k < i}) + Cardinality(Backfilled) < Room}
           rows == {slot.cycles[i] : i \in fit}
           reviewed == {scans[applies[x].scan].shown[i] : i \in accept}
<1>1. /\ applies[x].state = "waiting" /\ slot.scan = applies[x].scan
      /\ back' = [r \in RunsEver |-> IF r \in rows THEN back[r] + 1 ELSE back[r]]
      /\ early' = early \union (rows \ SettledRuns)
      /\ applies' = [applies EXCEPT ![x] = [@ EXCEPT !.state = "saving", !.token = slot.token,
                                                     !.stored = rows]]
      /\ unseen' = (unseen \/ ~(rows \subseteq reviewed))
  BY DEF StoreRows, StagedFor
<1>2. /\ slot.scan \in Scans /\ slot.cycles = scans[slot.scan].shown
  BY <1>1, TokenFacts, SMTT(30) DEF ImportInv, UploadsHold, AppliesKnow, SlotIsShown
<1>3. ASSUME NEW i \in fit
      PROVE  /\ i \in accept /\ i \in 1..Len(slot.cycles) /\ ~OnRecord(slot.cycles[i])
             /\ slot.cycles[i] \in RunsEver /\ slot.cycles[i] <= happened
             /\ slot.cycles[i] \in reviewed
  <2>1. i \in accept /\ i <= Len(slot.cycles) /\ ~OnRecord(slot.cycles[i])
    OBVIOUS
  <2>2. slot.cycles \in Rows /\ Len(slot.cycles) \in Nat /\ i \in RunsEver
    BY <2>1, TokenFacts, ImportFacts DEF ImportInv
  <2>3. i \in 1..Len(slot.cycles)
    BY <2>1, <2>2, ImportFacts DEF RunsEver
  <2>4. slot.cycles[i] \in RunsEver /\ slot.cycles[i] <= happened
    BY <1>2, <2>2, <2>3, RowFacts DEF ImportInv, UploadsHold, ShownBegun, Begun
  <2> QED
    BY <1>1, <1>2, <2>1, <2>3, <2>4, Zenon
<1> HIDE DEF fit, accept, reviewed
<1>4. /\ rows \subseteq RunsEver /\ rows \subseteq reviewed
      /\ \A r \in rows : r <= happened /\ ~OnRecord(r)
  BY <1>3
<1> HIDE DEF rows
<1>5. unseen' = FALSE
  BY <1>1, <1>4 DEF ImportInv
<1> QED
  BY <1>1, <1>4, <1>5

LEMMA StoreStep ==
    ASSUME ImportInv, NEW x \in Applies, StoreRows(x)
    PROVE  ImportInv'
<1>1. PICK rows \in SUBSET RunsEver :
         /\ back' = [r \in RunsEver |-> IF r \in rows THEN back[r] + 1 ELSE back[r]]
         /\ early' = early \union (rows \ SettledRuns)
         /\ applies' = [applies EXCEPT ![x] = [@ EXCEPT !.state = "saving", !.token = slot.token,
                                                        !.stored = rows]]
         /\ unseen' = FALSE
         /\ \A r \in rows : r <= happened /\ ~OnRecord(r)
  BY StoredRows
<1>2. applying' = x /\ UNCHANGED <<happened, running, past, slot, stream, issued, scans>>
  BY DEF StoreRows, runVars, uploadVars
<1>3. /\ applies' \in [Applies -> ApplyTasks] /\ applies'[x].state = "saving"
      /\ \A y \in Applies : y # x => applies'[y] = applies[y]
  <2> DEFINE task == [applies[x] EXCEPT !.state = "saving", !.token = slot.token, !.stored = rows]
  <2>1. task \in ApplyTasks /\ task.state = "saving"
    BY TokenFacts DEF ImportInv, ApplyTasks
  <2>2. applies' = [applies EXCEPT ![x] = task]
    BY <1>1 DEF ImportInv, ImportTypeOK
  <2> HIDE DEF task
  <2> QED
    BY <2>1, <2>2 DEF ImportInv, ImportTypeOK
<1>4. /\ back' \in [RunsEver -> Nat]
      /\ \A r \in RunsEver : back'[r] = IF r \in rows THEN back[r] + 1 ELSE back[r]
  BY <1>1 DEF ImportInv, ImportTypeOK
<1>5. ImportTypeOK'
  BY <1>1, <1>2, <1>3, <1>4 DEF ImportInv, ImportTypeOK
<1>6. UploadsHold'
  BY <1>2, <1>3, SlotDropped DEF ImportInv
<1>7. RecordsBegun'
  BY <1>1, <1>2, <1>4 DEF ImportInv, RecordsHold, RecordsBegun
<1>8. LiveIsEarly'
  <2>1. ASSUME running, back'[happened] > 0, happened >= 1 PROVE happened \in early'
    <3>1. happened \in RunsEver /\ happened \notin SettledRuns
      BY <2>1, TokenFacts, ImportFacts DEF ImportInv, ImportTypeOK, RunsEver, SettledRuns
    <3> QED
      BY <1>1, <1>4, <2>1, <3>1 DEF ImportInv, RecordsHold, LiveIsEarly
  <2> QED
    BY <1>2, <2>1 DEF ImportInv, RecordsHold, LiveIsEarly
<1>9. RunOnRecordOnce'
  <2>1. ASSUME NEW r \in RunsEver \ early'
        PROVE  (IF r \in past' THEN 1 ELSE 0) + back'[r] <= 1
    <3>1. back[r] \in Nat /\ r \notin early /\ (IF r \in past THEN 1 ELSE 0) + back[r] <= 1
      BY <1>1, <2>1 DEF ImportInv, ImportTypeOK, RecordsHold, RunOnRecordOnce
    <3>2. r \in rows => r \notin past /\ back[r] = 0
      BY <1>1, <3>1 DEF OnRecord
    <3> QED
      BY <1>2, <1>4, <3>1, <3>2
  <2> QED
    BY <2>1 DEF RunOnRecordOnce
<1> QED
  BY <1>1, <1>5, <1>6, <1>7, <1>8, <1>9 DEF ImportInv, RecordsHold

\* The apply is over: saved, failed, expired or cancelled.
LEMMA AppliedStep ==
    ASSUME ImportInv, NEW x \in Applies,
           ApplySaved(x) \/ ApplyNotSaved(x) \/ ScanExpired(x) \/ CancelledWaiting(x)
    PROVE  ImportInv'
<1> DEFINE task == Over(NoApply)
<1>1. /\ applies' = [applies EXCEPT ![x] = task] /\ applying' \in {0, applying}
      /\ slot' = NoSlot \/ slot' = slot
      /\ UNCHANGED <<happened, running, past, back, stream, issued, scans, early, unseen>>
  BY DEF ApplySaved, ApplyNotSaved, ScanExpired, CancelledWaiting, runVars, uploadVars, importPast
<1>2. task \in ApplyTasks /\ task.state = "over"
  BY BlankFacts, OverFacts
<1> HIDE DEF task
<1>3. /\ applies' \in [Applies -> ApplyTasks] /\ applies'[x] = task
      /\ \A y \in Applies : y # x => applies'[y] = applies[y]
  BY <1>1, <1>2 DEF ImportInv, ImportTypeOK
<1>4. ImportTypeOK'
  BY <1>1, <1>3, BlankFacts DEF ImportInv, ImportTypeOK
<1>5. UploadsHold'
  BY <1>1, <1>2, <1>3, SlotDropped DEF ImportInv
<1> QED
  BY <1>1, <1>4, <1>5, RecordsKept DEF ImportInv, runVars

\* A reload ends every task; what an apply was saving is in the history or not.
LEMMA ReloadedStep ==
    ASSUME ImportInv, NEW saved \in BOOLEAN, Reloaded(saved)
    PROVE  ImportInv'
<1>1. /\ slot' = NoSlot /\ applying' = 0
      /\ scans' = [s \in Scans |-> IF scans[s].state = "none" THEN scans[s]
                                   ELSE Over([NoScan EXCEPT !.shown = scans[s].shown])]
      /\ applies' = [x \in Applies |-> IF applies[x].state = "none" THEN NoApply ELSE Over(NoApply)]
      /\ \/ back' = back
         \/ back' = [r \in RunsEver |-> IF r \in applies[applying].stored THEN 0 ELSE back[r]]
      /\ UNCHANGED <<happened, running, past, stream, issued, early, unseen>>
  BY DEF Reloaded, runVars, uploadVars, importPast
<1>2. /\ back' \in [RunsEver -> Nat] /\ \A r \in RunsEver : back'[r] <= back[r]
  BY <1>1 DEF ImportInv, ImportTypeOK
<1>3. ASSUME NEW s \in Scans
      PROVE  /\ scans'[s] \in ScanTasks /\ scans'[s].shown = scans[s].shown
             /\ scans'[s].state # "over" => scans'[s] = scans[s]
             /\ scans[s].state = "over" => scans'[s].state = "over"
  <2> DEFINE shown == [NoScan EXCEPT !.shown = scans[s].shown]
  <2>1. shown \in ScanTasks /\ shown.shown = scans[s].shown
    BY TokenFacts, BlankFacts DEF ImportInv, ScanTasks
  <2>2. scans'[s] = IF scans[s].state = "none" THEN scans[s] ELSE Over(shown)
    BY <1>1
  <2> HIDE DEF shown
  <2> QED
    BY <2>1, <2>2, OverFacts, TokenFacts DEF ImportInv
<1>4. \A x \in Applies : applies'[x] \in ApplyTasks /\ applies'[x].state # "waiting"
  BY <1>1, BlankFacts, OverFacts
<1>5. scans' \in [Scans -> ScanTasks] /\ applies' \in [Applies -> ApplyTasks]
  BY <1>1, <1>3, <1>4
<1>6. ImportTypeOK'
  BY <1>1, <1>2, <1>5, BlankFacts DEF ImportInv, ImportTypeOK
<1>7. UploadsHold'
  BY <1>1, <1>3, <1>4, SlotDropped DEF ImportInv
<1>8. \A r \in RunsEver : back[r] \in Nat /\ back'[r] \in Nat
  BY <1>2 DEF ImportInv, ImportTypeOK
<1>9. RecordsBegun' /\ RunOnRecordOnce'
  BY <1>1, <1>2, <1>8 DEF ImportInv, RecordsHold, RecordsBegun, RunOnRecordOnce
<1>10. LiveIsEarly'
  <2>1. running => happened \in RunsEver
    BY TokenFacts, ImportFacts DEF ImportInv, ImportTypeOK, RecordsHold, LiveIsEarly, RunsEver
  <2> QED
    BY <1>1, <1>2, <1>8, <2>1 DEF ImportInv, RecordsHold, LiveIsEarly
<1> QED
  BY <1>1, <1>6, <1>7, <1>9, <1>10 DEF ImportInv, RecordsHold

-----------------------------------------------------------------------------
LEMMA ImportStarts == ImportInit => ImportInv
<1> SUFFICES ASSUME ImportInit PROVE ImportInv
  OBVIOUS
<1> USE DEF ImportInit
<1>1. ImportTypeOK
  <2>1. happened \in 0..MaxRunsEver /\ issued \in 0..MaxTokens
    BY ImportFacts
  <2>4. applying \in {0} \union Applies /\ running \in BOOLEAN
    OBVIOUS
  <2>5. past \subseteq RunsEver /\ early \subseteq RunsEver
    OBVIOUS
  <2>2. back \in [RunsEver -> Nat] /\ stream \in [UploadTokens -> Rows]
    BY ImportFacts
  <2>3. slot \in Slots /\ scans \in [Scans -> ScanTasks] /\ applies \in [Applies -> ApplyTasks]
    BY BlankFacts
  <2> QED
    BY <2>1, <2>2, <2>3, <2>4, <2>5 DEF ImportTypeOK
<1>2. RecordsHold
  BY DEF RecordsHold, RecordsBegun, LiveIsEarly, RunOnRecordOnce
<1>3. Begun(<<>>)
  BY ImportFacts DEF Begun
<1>4. StreamsBegun /\ ShownBegun
  BY <1>3, BlankFacts DEF StreamsBegun, ShownBegun
<1>5. SlotIsUpload /\ SlotIsShown /\ ScansRead /\ AppliesKnow
  BY BlankFacts DEF SlotIsUpload, SlotIsShown, ScansRead, AppliesKnow
<1> QED
  BY <1>1, <1>2, <1>4, <1>5 DEF ImportInv, UploadsHold

LEMMA ImportSteps == ImportInv /\ [ImportNext]_importVars => ImportInv'
<1> SUFFICES ASSUME ImportInv, [ImportNext]_importVars PROVE ImportInv'
  OBVIOUS
<1>1. CASE UNCHANGED importVars
  <2>1. UNCHANGED <<happened, running, past, back, slot, stream, reading, issued, scans,
                    applies, applying, early, unseen>>
    BY <1>1 DEF importVars
  <2>2. ImportTypeOK'
    BY <2>1 DEF ImportInv, ImportTypeOK
  <2>3. UploadsHold'
    BY <2>1, SlotDropped DEF ImportInv
  <2> QED
    BY <2>1, <2>2, <2>3, RecordsKept DEF ImportInv, runVars
<1>2. CASE RunBegins \/ \E watched \in BOOLEAN : RunSettles(watched)
  BY <1>2, BeginsStep, SettlesStep
<1>3. CASE \E r \in RunsEver : Forget(r)
  BY <1>3, ForgetStep
<1>4. CASE \E i, j \in RunsEver : Begin(i, j) \/ RecorderRead(i, j)
  BY <1>4, StagedStep
<1>5. CASE \E t \in UploadTokens, k \in RunsEver : Chunk(t, k)
  BY <1>5, ChunkStep
<1>6. CASE TooLarge \/ ReadRecorder
  BY <1>6, DroppedStep
<1>7. CASE \E s \in Scans : StartScan(s) \/ StopScan(s) \/ \E n \in RunsEver : EndScan(s, n)
  BY <1>7, StartScanStep, StopScanStep, EndScanStep
<1>8. CASE \E x \in Applies, s \in Scans, accept \in SUBSET RunsEver : StartApply(x, s, accept)
  BY <1>8, StartApplyStep
<1>9. CASE \E x \in Applies : StoreRows(x) \/ ApplySaved(x) \/ ApplyNotSaved(x) \/ ScanExpired(x)
                              \/ CancelledWaiting(x)
  BY <1>9, StoreStep, AppliedStep
<1>10. CASE \E saved \in BOOLEAN : Reloaded(saved)
  BY <1>10, ReloadedStep
<1> QED
  BY <1>1, <1>2, <1>3, <1>4, <1>5, <1>6, <1>7, <1>8, <1>9, <1>10 DEF ImportNext

\* The staging slot, the scans and the applies keep their types (ws_api.py).
THEOREM ImportTyped == ImportSpec => []ImportTypeOK
<1>1. ImportInv => ImportTypeOK
  BY DEF ImportInv
<1> QED
  BY <1>1, ImportStarts, ImportSteps, PTL DEF ImportSpec

\* What an import adds to the history: runs not yet on record, and rows that the user
\* reviewed and accepted of a scan that read the upload from its beginning, however
\* uploads, scans, applies, retries and reloads interleave.
THEOREM ImportsAreAsReviewed == ImportSpec => []ImportedAsReviewed
<1>1. ImportInv => ImportedAsReviewed
  <2> SUFFICES ASSUME ImportInv PROVE ImportedAsReviewed
    OBVIOUS
  <2>1. ASSUME NEW s \in Scans, scans[s].state = "running"
        PROVE  LET whole == stream[scans[s].token] IN
               \E n \in 1..Len(whole) : scans[s].chunks = SubSeq(whole, 1, n)
    <3> DEFINE whole == stream[scans[s].token]
               rows == scans[s].chunks
               n == Len(rows)
    <3>1. scans[s].token # 0 /\ rows # <<>> /\ PartOf(rows, whole)
      BY <2>1 DEF ImportInv, UploadsHold, ScansRead
    <3>2. rows \in Rows /\ whole \in Rows
      BY <3>1, TokenFacts DEF ImportInv, ImportTypeOK, Tokens
    <3> HIDE DEF rows, whole
    <3>3. n \in 1..Len(whole)
      BY <3>1, <3>2, ImportFacts DEF PartOf, Rows
    <3>4. /\ SubSeq(whole, 1, n) \in Rows /\ Len(SubSeq(whole, 1, n)) = n
          /\ \A i \in 1..n : SubSeq(whole, 1, n)[i] = whole[i]
      BY <3>2, <3>3, FirstRows
    <3>5. rows = SubSeq(whole, 1, n)
      BY <3>1, <3>2, <3>4, SeqEqual DEF PartOf, Rows
    <3> QED
      BY <3>3, <3>5 DEF rows, whole
  <2> QED
    BY <2>1 DEF ImportInv, RecordsHold, ImportedAsReviewed, ReviewedOnly
<1> QED
  BY <1>1, ImportStarts, ImportSteps, PTL DEF ImportSpec

-----------------------------------------------------------------------------
(***************************************************************************)
(* The cycles the detector finds: the tail of their end, the snapshot and  *)
(* the history.                                                            *)
(***************************************************************************)
Counters == [CycleIds -> Nat]
MainFiles == [past : SUBSET CycleIds, odo : Nat, records : Counters, energies : Counters]
TailStages == {"none", "matching", "adding", "flushing"}

FilingTypeOK ==
    /\ live \in {0} \union CycleIds /\ starting \in BOOLEAN /\ token \in {0} \union CycleIds
    /\ tokenOf \in [CycleIds -> {0} \union CycleIds]
    /\ stage \in [CycleIds -> TailStages] /\ before \in Counters
    /\ main \in MainFiles /\ mainFile \in MainFiles
    /\ snap \in {WrinkleSnap, 0} \union CycleIds /\ snapFile \in {WrinkleSnap, 0} \union CycleIds
    /\ boots \in 1..MaxBoots /\ begun \in 0..MaxBegun
    /\ guarded \subseteq CycleIds /\ dropped \subseteq CycleIds /\ cut \subseteq CycleIds

\* What holds of the history in memory and of the one on disk.  Of a cycle whose record
\* was deleted no snapshot is left that a restart could take up again.
BooksOK(m) ==
    /\ m.past \subseteq Filed(m)
    /\ \A c \in CycleIds :
          /\ m.energies[c] > 0 => m.records[c] > 0
          /\ m.records[c] <= boots
          /\ c > begun => m.records[c] = 0
    /\ \A c \in CycleIds \ cut :
          /\ m.records[c] <= 1 /\ m.energies[c] <= 1
          /\ m.records[c] > 0 /\ c \notin m.past => c \notin {snap, snapFile}

BooksHold == BooksOK(main) /\ BooksOK(mainFile)

\* A cycle in progress, or in the first step of its tail, is not on record yet.
LiveFresh ==
    live # 0 => /\ live <= begun /\ stage[live] = "none" /\ main.records[live] < boots
                /\ live \notin cut => main.records[live] = 0 /\ mainFile.records[live] = 0
MatchFresh ==
    \A c \in CycleIds : stage[c] = "matching" =>
        main.records[c] < boots /\ (c \notin cut => main.records[c] = 0)
TailsKnown ==
    \A c \in CycleIds :
        /\ stage[c] # "none" => c <= begun /\ tokenOf[c] \in {0, c}
        /\ stage[c] = "adding" => main.records[c] > 0
        /\ (stage[c] = "adding" /\ c \notin cut) => main.energies[c] = 0
SnapsKnown == snap <= begun /\ snapFile <= begun /\ \A c \in guarded : c <= begun
\* No tail has the token of the cycle in progress, once that has one.
TokenOfLive ==
    live # 0 /\ ~starting =>
        token \in {0, live} /\ \A c \in CycleIds : stage[c] # "none" => token # tokenOf[c]
StartsLive == starting => live # 0
GuardedRuns == live \in guarded => ~starting
DownBare ==
    entry = "down" => /\ stage = NoTails /\ token = 0 /\ live = 0
                      /\ main = mainFile /\ mainDue = "none" /\ boots < MaxBoots
\* A guarded cycle that is not filed is the snapshot, in memory and on disk.
SnapshotHeld ==
    \A c \in guarded \ (dropped \union cut) : c \in Filed(main) \/ (snap = c /\ snapFile = c)

TailsHold ==
    /\ LiveFresh /\ MatchFresh /\ TailsKnown /\ SnapsKnown /\ TokenOfLive /\ StartsLive
    /\ GuardedRuns /\ DownBare /\ SnapshotHeld

FilingInv == FilingTypeOK /\ BooksHold /\ TailsHold

LEMMA CycleFacts ==
    /\ MaxBegun \in Nat /\ MaxBoots \in Nat /\ 0 \notin CycleIds /\ CycleIds \subseteq Nat
    /\ 0 \in {0} \union CycleIds /\ CycleIds = 1..MaxBegun /\ IsFiniteSet(CycleIds)
    /\ WrinkleSnap \in Int /\ WrinkleSnap < 0 /\ WrinkleSnap \notin CycleIds
BY FilingAssumption, FS_Interval DEF CycleIds, WrinkleSnap

LEMMA MainFacts ==
    ASSUME NEW m \in MainFiles
    PROVE  /\ m.past \subseteq CycleIds /\ m.odo \in Nat
           /\ m.records \in Counters /\ m.energies \in Counters
           /\ \A c \in CycleIds : m.records[c] \in Nat /\ m.energies[c] \in Nat
           /\ IsFiniteSet(m.past) /\ Cardinality(m.past) \in Nat /\ Odometer(m) \in Nat
           /\ Filed(m) \subseteq CycleIds /\ \A c \in CycleIds : c \in Filed(m) <=> m.records[c] > 0
<1>1. m.past \subseteq CycleIds /\ m.odo \in Nat /\ m.records \in Counters /\ m.energies \in Counters
  BY DEF MainFiles
<1>2. IsFiniteSet(m.past)
  BY <1>1, CycleFacts, FS_Subset
<1>3. Cardinality(m.past) \in Nat
  BY <1>2, FS_CardinalityType
<1> QED
  BY <1>1, <1>2, <1>3 DEF Odometer, Filed, Counters

LEMMA FilingFacts ==
    ASSUME FilingTypeOK
    PROVE  /\ main \in MainFiles /\ mainFile \in MainFiles
           /\ live \in Nat /\ token \in Nat /\ snap \in Int /\ snapFile \in Int
           /\ begun \in Nat /\ boots \in Nat
           /\ Exposed \subseteq CycleIds
           /\ \A c \in CycleIds : tokenOf[c] \in Nat /\ before[c] \in Nat /\ c \in Nat
BY CycleFacts DEF FilingTypeOK, Exposed, Counters

\* A step that leaves the history in memory: the file stays, or is written.
LEMMA BooksKept ==
    ASSUME FilingTypeOK, BooksHold, main' = main, mainFile' = mainFile \/ mainFile' = main,
           boots' = boots, begun <= begun', begun' \in Nat, cut \subseteq cut',
           \A c \in CycleIds :
               c \in {snap', snapFile'} =>
                   \/ c \in {snap, snapFile} \union cut'
                   \/ main.records[c] = 0 /\ mainFile.records[c] = 0
    PROVE  BooksHold'
<1>1. BooksOK(main)'
  <2>1. BooksOK(main) /\ begun \in Nat
    BY FilingFacts DEF BooksHold
  <2>2. \A c \in CycleIds : c > begun' => c > begun
    BY <2>1, CycleFacts
  <2>3. \A c \in CycleIds \ cut' :
           main.records[c] > 0 /\ c \notin main.past => c \notin {snap', snapFile'}
    BY <2>1 DEF BooksOK
  <2> QED
    BY <2>1, <2>2, <2>3 DEF BooksOK, Filed
<1>2. CASE mainFile' = mainFile
  BY <1>1, <1>2, FilingFacts, MainFacts, CycleFacts DEF BooksHold, BooksOK, Filed
<1>3. CASE mainFile' = main
  BY <1>1, <1>3 DEF BooksHold, BooksOK, Filed
<1> QED
  BY <1>1, <1>2, <1>3 DEF BooksHold

-----------------------------------------------------------------------------
LEMMA StartsRunStep ==
    ASSUME FilingInv, StartsRun
    PROVE  FilingInv'
<1>1. /\ entry # "down" /\ live = 0 /\ begun' = begun + 1 /\ live' = begun' /\ starting' = TRUE
      /\ begun' \in CycleIds /\ begun' \in 0..MaxBegun
      /\ UNCHANGED <<token, tokenOf, stage, before, main, mainFile, mainDue, snap, snapFile, snapDue,
                     entry, boots, guarded, dropped, cut, miscounted>>
  BY FilingFacts, CycleFacts DEF StartsRun, Listening, tailVars, mainVars, snapVars, entryVars,
     FilingInv, FilingTypeOK
<1> USE FilingFacts, CycleFacts DEF FilingInv
<1>2. FilingTypeOK'
  BY <1>1 DEF FilingTypeOK
<1>3. BooksHold'
  BY <1>1, BooksKept
<1>4. LiveFresh'
  <2>1. begun < begun' /\ main.records[begun'] = 0 /\ mainFile.records[begun'] = 0 /\ 0 < boots
    <3>1. begun < begun' /\ 0 < boots
      BY <1>1 DEF FilingTypeOK
    <3> QED
      BY <1>1, <3>1 DEF BooksHold, BooksOK
  <2>2. stage[begun'] = "none"
    BY <1>1, <2>1 DEF TailsHold, TailsKnown
  <2> QED
    BY <1>1, <2>1, <2>2 DEF LiveFresh
<1>5. MatchFresh' /\ StartsLive' /\ DownBare' /\ TokenOfLive'
  BY <1>1 DEF TailsHold, MatchFresh, TokenOfLive, StartsLive, DownBare
<1>6. TailsKnown' /\ SnapsKnown'
  BY <1>1 DEF TailsHold, TailsKnown, SnapsKnown, FilingTypeOK
<1>7. GuardedRuns' /\ SnapshotHeld'
  BY <1>1 DEF TailsHold, SnapsKnown, GuardedRuns, SnapshotHeld
<1> QED
  BY <1>2, <1>3, <1>4, <1>5, <1>6, <1>7 DEF TailsHold

\* What the detector rests in ends, by itself or for a recording, which clears the snapshot.
LEMMA RestStep ==
    ASSUME FilingInv, RestEnds \/ ResetForRecording
    PROVE  FilingInv'
<1>1. /\ entry # "down" /\ live = 0
      /\ (snap' = 0 /\ cut' = cut \union Exposed) \/ (snap' = snap /\ cut' = cut)
      /\ UNCHANGED <<live, starting, token, tokenOf, stage, before, main, mainFile, mainDue, snapFile,
                     entry, boots, begun, guarded, dropped, miscounted>>
  BY DEF RestEnds, ResetForRecording, Listening, ClearsSnapshot, tailVars, mainVars, snapVars,
     entryVars, pastVars
<1> USE FilingFacts, CycleFacts DEF FilingInv
<1>2. FilingTypeOK' /\ cut \subseteq cut'
  BY <1>1 DEF FilingTypeOK
<1>3. BooksHold'
  BY <1>1, <1>2, BooksKept
<1>4. LiveFresh' /\ MatchFresh' /\ TailsKnown' /\ SnapsKnown' /\ StartsLive' /\ DownBare' /\ TokenOfLive'
  BY <1>1, <1>2 DEF TailsHold, LiveFresh, MatchFresh, TailsKnown, SnapsKnown, StartsLive, DownBare,
     TokenOfLive
<1>5. GuardedRuns' /\ SnapshotHeld'
  <2>1. ASSUME NEW c \in guarded \ (dropped \union cut'), c \notin Filed(main)
        PROVE  snap' = c /\ snapFile = c
    <3>1. snap = c /\ snapFile = c
      BY <1>2, <2>1 DEF TailsHold, SnapshotHeld
    <3>2. c \in CycleIds
      BY DEF FilingTypeOK
    <3> QED
      BY <1>1, <2>1, <3>1, <3>2 DEF Exposed
  <2> QED
    BY <1>1, <2>1 DEF TailsHold, SnapshotHeld, GuardedRuns
<1> QED
  BY <1>2, <1>3, <1>4, <1>5 DEF TailsHold

LEMMA CommitRunStep ==
    ASSUME FilingInv, CommitRun
    PROVE  FilingInv'
<1>1. /\ entry # "down" /\ starting /\ starting' = FALSE /\ token' = live
      /\ UNCHANGED <<live, tokenOf, stage, before, main, mainFile, mainDue, snap, snapFile, snapDue,
                     entry, boots, begun, guarded, dropped, cut, miscounted>>
  BY DEF CommitRun, Listening, tailVars, mainVars, snapVars, entryVars, pastVars
<1> USE FilingFacts, CycleFacts DEF FilingInv
<1>2. FilingTypeOK'
  BY <1>1 DEF FilingTypeOK
<1>3. BooksHold'
  BY <1>1, BooksKept
<1>4. LiveFresh' /\ MatchFresh' /\ TailsKnown' /\ SnapsKnown' /\ StartsLive' /\ DownBare'
  BY <1>1 DEF TailsHold, LiveFresh, MatchFresh, TailsKnown, SnapsKnown, StartsLive, DownBare
<1>5. TokenOfLive'
  BY <1>1 DEF TailsHold, TailsKnown, LiveFresh, StartsLive, TokenOfLive
<1>6. GuardedRuns' /\ SnapshotHeld'
  BY <1>1 DEF TailsHold, GuardedRuns, SnapshotHeld
<1> QED
  BY <1>2, <1>3, <1>4, <1>5, <1>6 DEF TailsHold

LEMMA AbortStartStep ==
    ASSUME FilingInv, AbortStart
    PROVE  FilingInv'
<1>1. /\ entry # "down" /\ starting /\ starting' = FALSE /\ live' = 0
      /\ dropped' = dropped \union {live}
      /\ UNCHANGED <<token, tokenOf, stage, before, main, mainFile, mainDue, snap, snapFile, snapDue,
                     entry, boots, begun, guarded, cut, miscounted>>
  BY DEF AbortStart, Listening, tailVars, mainVars, snapVars, entryVars
<1> USE FilingFacts, CycleFacts DEF FilingInv
<1>2. FilingTypeOK'
  BY <1>1 DEF FilingTypeOK, TailsHold, StartsLive
<1>3. BooksHold'
  BY <1>1, BooksKept
<1>4. LiveFresh' /\ MatchFresh' /\ TailsKnown' /\ SnapsKnown' /\ StartsLive' /\ DownBare' /\ TokenOfLive'
  BY <1>1 DEF TailsHold, LiveFresh, MatchFresh, TailsKnown, SnapsKnown, StartsLive, DownBare, TokenOfLive
<1>5. GuardedRuns' /\ SnapshotHeld'
  BY <1>1 DEF TailsHold, GuardedRuns, SnapshotHeld
<1> QED
  BY <1>2, <1>3, <1>4, <1>5 DEF TailsHold

\* A snapshot is taken: of the cycle in progress, as a save of every minute or at the end of
\* an unload or at a stop, or there of the anti-crease tail.
LEMMA SnapshotStep ==
    ASSUME FilingInv, SaveSnapshot \/ LastWrites \/ HomeStops
    PROVE  FilingInv'
<1>1. /\ entry # "down" /\ entry' # "down"
      /\ \/ live # 0 /\ snap' = live /\ cut' = cut \union Exposed
         \/ snap' = WrinkleSnap /\ cut' = cut \union Exposed /\ live = 0
         \/ snap' = snap /\ cut' = cut
      /\ UNCHANGED <<live, starting, token, tokenOf, stage, before, main, mainFile, mainDue, snapFile,
                     boots, begun, guarded, dropped, miscounted>>
  BY DEF SaveSnapshot, LastWrites, HomeStops, SavesLast, Listening, detectorVars, tailVars, mainVars, entryVars
<1> USE FilingFacts, CycleFacts DEF FilingInv
<1>2. FilingTypeOK'
  BY <1>1 DEF FilingTypeOK
<1>3. cut \subseteq cut' /\ (snap' # snap => snap' = WrinkleSnap \/ (snap' = live /\ live # 0))
  BY <1>1
<1>4. BooksHold'
  BY <1>1, <1>3, BooksKept DEF TailsHold, LiveFresh
<1>5. LiveFresh' /\ MatchFresh' /\ TailsKnown' /\ StartsLive' /\ DownBare' /\ TokenOfLive'
  BY <1>1, <1>3 DEF TailsHold, LiveFresh, MatchFresh, TailsKnown, StartsLive, DownBare, TokenOfLive
<1>6. SnapsKnown' /\ GuardedRuns'
  BY <1>1 DEF TailsHold, LiveFresh, SnapsKnown, GuardedRuns
<1>7. SnapshotHeld'
  <2>1. ASSUME NEW c \in guarded \ (dropped \union cut'), c \notin Filed(main)
        PROVE  snap' = c /\ snapFile = c
    <3>1. snap = c /\ snapFile = c
      BY <1>3, <2>1 DEF TailsHold, SnapshotHeld
    <3>2. c \in CycleIds
      BY DEF FilingTypeOK
    <3> QED
      BY <1>1, <2>1, <3>1, <3>2 DEF Exposed
  <2> QED
    BY <1>1, <2>1 DEF SnapshotHeld
<1> QED
  BY <1>2, <1>4, <1>5, <1>6, <1>7 DEF TailsHold

LEMMA WriteSnapshotStep ==
    ASSUME FilingInv, WriteSnapshot
    PROVE  FilingInv'
<1>1. /\ snapFile' = snap
      /\ guarded' = guarded \union (IF snap = live /\ ~starting THEN {snap} \ {0} ELSE {})
      /\ UNCHANGED <<live, starting, token, tokenOf, stage, before, main, mainFile, mainDue, snap,
                     entry, boots, begun, dropped, cut, miscounted>>
  BY DEF WriteSnapshot, detectorVars, tailVars, mainVars, entryVars
<1> USE FilingFacts, CycleFacts DEF FilingInv
<1>2. FilingTypeOK'
  BY <1>1 DEF FilingTypeOK
<1>3. BooksHold'
  BY <1>1, BooksKept
<1>4. LiveFresh' /\ MatchFresh' /\ TailsKnown' /\ StartsLive' /\ DownBare' /\ TokenOfLive'
  BY <1>1 DEF TailsHold, LiveFresh, MatchFresh, TailsKnown, StartsLive, DownBare, TokenOfLive
<1>5. SnapsKnown' /\ GuardedRuns' /\ SnapshotHeld'
  BY <1>1 DEF TailsHold, SnapsKnown, GuardedRuns, SnapshotHeld
<1> QED
  BY <1>2, <1>3, <1>4, <1>5 DEF TailsHold

\* The end of a cycle that is stored.
LEMMA EndRunStep ==
    ASSUME FilingInv, EndRun
    PROVE  FilingInv'
<1>1. /\ entry # "down" /\ live # 0 /\ ~starting /\ live' = 0
      /\ stage' = stage \/ stage' = [stage EXCEPT ![live] = "matching"]
      /\ tokenOf' = [tokenOf EXCEPT ![live] = token]
      /\ UNCHANGED <<starting, token, before, main, mainFile, mainDue, snap, snapFile,
                     entry, boots, begun, guarded, dropped, cut, miscounted>>
  BY DEF EndRun, Listening, mainVars, snapVars, entryVars, pastVars
<1> USE FilingFacts, CycleFacts DEF FilingInv
<1>2. live \in CycleIds
  BY <1>1 DEF FilingTypeOK
<1>3. /\ stage' \in [CycleIds -> TailStages] /\ tokenOf' \in [CycleIds -> {0} \union CycleIds]
      /\ \A c \in CycleIds : c # live => stage'[c] = stage[c] /\ tokenOf'[c] = tokenOf[c]
      /\ tokenOf'[live] = token /\ stage'[live] \in {"none", "matching"}
  <2>1. stage[live] = "none" /\ stage \in [CycleIds -> TailStages]
    BY <1>1 DEF TailsHold, LiveFresh, FilingTypeOK
  <2>2. /\ stage' \in [CycleIds -> TailStages] /\ stage'[live] \in {"none", "matching"}
        /\ \A c \in CycleIds : c # live => stage'[c] = stage[c]
    BY <1>1, <1>2, <2>1 DEF TailStages
  <2>3. /\ tokenOf' \in [CycleIds -> {0} \union CycleIds] /\ tokenOf'[live] = token
        /\ \A c \in CycleIds : c # live => tokenOf'[c] = tokenOf[c]
    BY <1>1, <1>2 DEF FilingTypeOK
  <2> QED
    BY <2>2, <2>3
<1>4. FilingTypeOK'
  BY <1>1, <1>3 DEF FilingTypeOK
<1>5. BooksHold'
  BY <1>1, BooksKept
<1>6. live <= begun /\ main.records[live] < boots /\ (live \notin cut => main.records[live] = 0) /\ token \in {0, live}
  BY <1>1 DEF TailsHold, LiveFresh, TokenOfLive
<1>7. /\ LiveFresh' /\ SnapsKnown' /\ StartsLive' /\ TokenOfLive'
      /\ GuardedRuns' /\ DownBare'
  <2>1. LiveFresh' /\ SnapsKnown' /\ StartsLive' /\ TokenOfLive'
    BY <1>1 DEF TailsHold, LiveFresh, SnapsKnown, StartsLive, TokenOfLive
  <2>2. GuardedRuns' /\ DownBare'
    BY <1>1 DEF FilingTypeOK, DownBare, GuardedRuns
  <2> QED
    BY <2>1, <2>2
<1>8. MatchFresh'
  BY <1>1, <1>3, <1>6 DEF TailsHold, MatchFresh
<1>9. TailsKnown'
  <2>1. ASSUME NEW c \in CycleIds
        PROVE  /\ stage'[c] # "none" => c <= begun /\ tokenOf'[c] \in {0, c}
               /\ stage'[c] = "adding" => main.records[c] > 0
               /\ (stage'[c] = "adding" /\ c \notin cut) => main.energies[c] = 0
    BY <1>3, <1>6 DEF TailsHold, TailsKnown
  <2> QED
    BY <1>1, <2>1 DEF TailsKnown
<1>10. SnapshotHeld'
  BY <1>1 DEF TailsHold, SnapshotHeld
<1> QED
  BY <1>4, <1>5, <1>7, <1>8, <1>9, <1>10 DEF TailsHold

LEMMA DropRunStep ==
    ASSUME FilingInv, DropRun
    PROVE  FilingInv'
<1>1. /\ entry # "down" /\ live # 0 /\ live' = 0 /\ starting' = FALSE
      /\ dropped' = dropped \union {live} /\ snap' = 0 /\ cut' = cut \union Exposed
      /\ UNCHANGED <<token, tokenOf, stage, before, main, mainFile, mainDue, snapFile,
                     entry, boots, begun, guarded, miscounted>>
  BY DEF DropRun, Listening, ClearsSnapshot, tailVars, mainVars, entryVars
<1> USE FilingFacts, CycleFacts DEF FilingInv
<1>2. FilingTypeOK'
  BY <1>1 DEF FilingTypeOK
<1>3. BooksHold'
  BY <1>1, BooksKept
<1>4. LiveFresh' /\ MatchFresh' /\ TailsKnown' /\ SnapsKnown' /\ StartsLive' /\ DownBare' /\ TokenOfLive'
  BY <1>1 DEF TailsHold, LiveFresh, MatchFresh, TailsKnown, SnapsKnown, StartsLive, DownBare, TokenOfLive
<1>5. GuardedRuns' /\ SnapshotHeld'
  <2>1. ASSUME NEW c \in guarded \ (dropped' \union cut') PROVE c \in Filed(main)
    <3>1. c \in Filed(main) \/ (snap = c /\ snapFile = c)
      BY <1>1, <2>1 DEF TailsHold, SnapshotHeld
    <3>2. c \in CycleIds
      BY DEF FilingTypeOK
    <3> QED
      BY <1>1, <2>1, <3>1, <3>2 DEF Exposed
  <2> QED
    BY <1>1, <2>1 DEF SnapshotHeld, GuardedRuns
<1> QED
  BY <1>2, <1>3, <1>4, <1>5 DEF TailsHold

LEMMA OneMore ==
    ASSUME NEW f \in Counters, NEW c \in CycleIds, NEW g, g = [f EXCEPT ![c] = @ + 1]
    PROVE  g \in Counters /\ g[c] = f[c] + 1 /\ \A d \in CycleIds : d # c => g[d] = f[d]
BY DEF Counters

LEMMA AddRunStep ==
    ASSUME FilingInv, NEW c \in CycleIds, AddRun(c)
    PROVE  FilingInv'
<1> DEFINE records == [main.records EXCEPT ![c] = @ + 1]
<1>1. /\ entry # "down" /\ stage[c] = "matching" /\ stage' = [stage EXCEPT ![c] = "adding"]
      /\ before' = [before EXCEPT ![c] = Odometer(main)]
      /\ main' = [main EXCEPT !.past = @ \union {c}, !.records = records]
      /\ UNCHANGED <<live, starting, token, tokenOf, mainFile, snap, snapFile,
                     entry, boots, begun, guarded, dropped, cut, miscounted>>
  BY DEF AddRun, TailsRun, ReadOdometer, detectorVars, snapVars, entryVars, pastVars
<1>a. /\ main.records \in Counters /\ main.energies \in Counters /\ boots \in Nat
      /\ \A d \in CycleIds : main.records[d] \in Nat /\ main.energies[d] \in Nat /\ d \in Nat
      /\ begun \in Nat /\ Odometer(main) \in Nat /\ main \in MainFiles
  BY FilingFacts, MainFacts DEF FilingInv
<1>2. records \in Counters /\ records[c] = main.records[c] + 1
      /\ \A d \in CycleIds : d # c => records[d] = main.records[d]
  BY <1>a, OneMore
<1> HIDE DEF records
<1> USE <1>a DEF FilingInv
<1>3. /\ main'.past = main.past \union {c} /\ main'.odo = main.odo
      /\ main'.records = records /\ main'.energies = main.energies
  BY <1>1 DEF MainFiles
<1>4. main' \in MainFiles
  BY <1>1, <1>2 DEF MainFiles
<1>b. /\ \A d \in CycleIds : d # c => main'.records[d] = main.records[d]
      /\ main'.records[c] = main.records[c] + 1
  BY <1>2, <1>3
<1>5. stage' \in [CycleIds -> TailStages] /\ stage'[c] = "adding"
      /\ \A d \in CycleIds : d # c => stage'[d] = stage[d]
  BY <1>1 DEF FilingTypeOK, TailStages
<1>6. before' \in Counters
  BY <1>1 DEF FilingTypeOK, Counters
<1>7. FilingTypeOK'
  BY <1>1, <1>4, <1>5, <1>6 DEF FilingTypeOK
<1>8. c <= begun /\ main.records[c] < boots /\ (c \notin cut => main.records[c] = 0) /\ live # c
  BY <1>1, CycleFacts DEF TailsHold, MatchFresh, TailsKnown, LiveFresh
<1>9. BooksOK(mainFile)' /\ BooksOK(main)
  <2>1. BooksOK(mainFile)'
    BY <1>1 DEF BooksHold, BooksOK, Filed
  <2> QED
    BY <2>1 DEF BooksHold
<1>10. main'.past \subseteq Filed(main')
  <2>1. main.past \subseteq CycleIds /\ Filed(main) = {d \in CycleIds : main.records[d] > 0}
    BY DEF MainFiles, Filed
  <2>2. ASSUME NEW d \in main.past \union {c} PROVE d \in CycleIds /\ main'.records[d] > 0
    BY <1>b, <1>9, <2>1, <2>2 DEF BooksOK
  <2> QED
    BY <1>3, <2>2 DEF Filed
<1>11. BooksOK(main)'
  <2>1. ASSUME NEW d \in CycleIds
        PROVE  /\ main'.energies[d] > 0 => main'.records[d] > 0
               /\ main'.records[d] <= boots'
               /\ d > begun' => main'.records[d] = 0
    BY <1>1, <1>b, <1>3, <1>8, <1>9 DEF BooksOK
  <2>2. ASSUME NEW d \in CycleIds \ cut'
        PROVE  /\ main'.records[d] <= 1 /\ main'.energies[d] <= 1
               /\ main'.records[d] > 0 /\ d \notin main'.past => d \notin {snap', snapFile'}
    BY <1>1, <1>b, <1>3, <1>8, <1>9 DEF BooksOK
  <2> QED
    <3>1. \A d \in CycleIds :
             /\ main'.energies[d] > 0 => main'.records[d] > 0
             /\ main'.records[d] <= boots' /\ (d > begun' => main'.records[d] = 0)
      BY <2>1
    <3>2. \A d \in CycleIds \ cut' :
             /\ main'.records[d] <= 1 /\ main'.energies[d] <= 1
             /\ main'.records[d] > 0 /\ d \notin main'.past => d \notin {snap', snapFile'}
      BY <2>2
    <3> QED
      BY <1>10, <3>1, <3>2 DEF BooksOK
<1>12. LiveFresh' /\ MatchFresh'
  <2>1. live # 0 => live \in CycleIds /\ live # c
    BY <1>8 DEF FilingTypeOK
  <2>2. LiveFresh'
    BY <1>1, <1>b, <1>5, <2>1 DEF TailsHold, LiveFresh
  <2>3. MatchFresh'
    BY <1>1, <1>b, <1>5 DEF TailsHold, MatchFresh
  <2> QED
    BY <2>2, <2>3
<1>13. TailsKnown'
  <2>1. ASSUME NEW d \in CycleIds
        PROVE  /\ stage'[d] # "none" => d <= begun /\ tokenOf[d] \in {0, d}
               /\ stage'[d] = "adding" => main'.records[d] > 0
               /\ (stage'[d] = "adding" /\ d \notin cut) => main'.energies[d] = 0
    BY <1>1, <1>b, <1>3, <1>5, <1>8, <1>9 DEF TailsHold, TailsKnown, BooksOK
  <2> QED
    BY <1>1, <2>1 DEF TailsKnown
<1>14. TokenOfLive'
  <2>1. ASSUME NEW d \in CycleIds, stage'[d] # "none" PROVE stage[d] # "none"
    BY <1>1, <1>5, <2>1
  <2> QED
    BY <1>1, <2>1 DEF TailsHold, TokenOfLive
<1>15. SnapsKnown' /\ StartsLive' /\ GuardedRuns' /\ DownBare'
  BY <1>1 DEF TailsHold, SnapsKnown, StartsLive, GuardedRuns, DownBare
<1>16. SnapshotHeld'
  BY <1>1, <1>2, <1>3 DEF TailsHold, SnapshotHeld, Filed
<1> QED
  BY <1>7, <1>9, <1>11, <1>12, <1>13, <1>14, <1>15, <1>16 DEF TailsHold, BooksHold

\* A cycle in progress whose snapshot is on disk has the token, so no tail clears that
\* snapshot; a newer snapshot another tail clears is recorded in cut.
LEMMA CountRunStep ==
    ASSUME FilingInv, NEW c \in CycleIds, CountRun(c)
    PROVE  FilingInv'
<1> DEFINE energies == [main.energies EXCEPT ![c] = @ + 1]
           odo == IF before[c] + 1 < Odometer(main) THEN main.odo ELSE before[c] + 1
<1>1. /\ entry # "down" /\ stage[c] = "adding" /\ stage' = [stage EXCEPT ![c] = "flushing"]
      /\ main' = [main EXCEPT !.odo = odo, !.energies = energies]
      /\ \/ OwnsSnapshot(c) /\ snap' = 0 /\ cut' = cut \union Exposed
         \/ snap' = snap /\ cut' = cut
      /\ UNCHANGED <<live, starting, token, tokenOf, before, mainFile, snapFile,
                     entry, boots, begun, guarded, dropped>>
  BY DEF CountRun, TailsRun, ClearsOwn, ClearsSnapshot, detectorVars, entryVars
<1>a. main.energies \in Counters
  BY FilingFacts, MainFacts DEF FilingInv
<1>b. /\ energies \in Counters /\ energies[c] = main.energies[c] + 1
      /\ \A d \in CycleIds : d # c => energies[d] = main.energies[d]
  <2> DEFINE was == main.energies
  <2>1. was \in Counters /\ energies = [was EXCEPT ![c] = @ + 1]
    BY <1>a
  <2> HIDE DEF was, energies
  <2>2. /\ energies \in Counters /\ energies[c] = was[c] + 1
        /\ \A d \in CycleIds : d # c => energies[d] = was[d]
    BY <2>1 DEF Counters
  <2> QED
    BY <2>2 DEF was
<1> USE FilingFacts, MainFacts, CycleFacts DEF FilingInv
<1>c. /\ main.records \in Counters /\ main.energies \in Counters /\ boots \in Nat
      /\ main.odo \in Nat /\ Odometer(main) \in Nat /\ before[c] \in Nat
      /\ \A d \in CycleIds : main.records[d] \in Nat /\ main.energies[d] \in Nat /\ d \in Nat
  OBVIOUS
<1>2. /\ energies \in Counters /\ energies[c] = main.energies[c] + 1 /\ odo \in Nat
      /\ \A d \in CycleIds : d # c => energies[d] = main.energies[d]
  <2>1. odo \in Nat
    BY <1>c
  <2> QED
    BY <1>b, <2>1
<1> HIDE DEF energies, odo
<1>3. /\ main'.past = main.past /\ main'.records = main.records /\ main'.energies = energies
      /\ Filed(main') = Filed(main)
  BY <1>1 DEF MainFiles, Filed
<1>4. main' \in MainFiles
  BY <1>1, <1>2 DEF MainFiles
<1>5. stage' \in [CycleIds -> TailStages] /\ stage'[c] = "flushing"
      /\ \A d \in CycleIds : d # c => stage'[d] = stage[d]
  BY <1>1 DEF FilingTypeOK, TailStages
<1>6. FilingTypeOK' /\ cut \subseteq cut' /\ snap' \in {0, snap}
  BY <1>1, <1>4, <1>5, ZenonT(40) DEF FilingTypeOK
<1>7. BooksOK(mainFile)' /\ BooksOK(main)
  BY <1>1, <1>6 DEF BooksHold, BooksOK, Filed
<1>8. main.records[c] > 0 /\ (c \notin cut => main.energies[c] = 0)
  BY <1>1 DEF TailsHold, TailsKnown
<1>9. BooksOK(main)'
  <2>1. ASSUME NEW d \in CycleIds
        PROVE  /\ main'.energies[d] > 0 => main'.records[d] > 0
               /\ main'.records[d] <= boots'
               /\ d > begun' => main'.records[d] = 0
    BY <1>1, <1>2, <1>3, <1>7, <1>8 DEF BooksOK
  <2>2. ASSUME NEW d \in CycleIds \ cut'
        PROVE  /\ main'.records[d] <= 1 /\ main'.energies[d] <= 1
               /\ main'.records[d] > 0 /\ d \notin main'.past => d \notin {snap', snapFile'}
    <3>1. d \in CycleIds /\ d \notin cut /\ main.records[d] <= 1 /\ main.energies[d] <= 1
      BY <1>6, <1>7, <2>2 DEF BooksOK
    <3>2. main'.records[d] <= 1 /\ main'.energies[d] <= 1
      <4>1. main'.records[d] = main.records[d] /\ main'.energies[d] = energies[d]
        BY <1>3, Zenon
      <4>2. CASE d = c
        <5>1. main.energies[d] = 0 /\ energies[d] = 0 + 1
          BY <1>2, <1>8, <3>1, <4>2
        <5> QED
          BY <3>1, <4>1, <5>1
      <4>3. CASE d # c
        BY <1>2, <3>1, <4>1, <4>3
      <4> QED
        BY <4>2, <4>3
    <3>3. main'.records[d] > 0 /\ d \notin main'.past => d \notin {snap', snapFile'}
      BY <1>1, <1>3, <1>6, <1>7, <3>1 DEF BooksOK
    <3> QED
      BY <3>2, <3>3
  <2>3. main'.past \subseteq Filed(main')
    BY <1>3, <1>7 DEF BooksOK
  <2> QED
    BY <2>1, <2>2, <2>3 DEF BooksOK
<1>10. LiveFresh' /\ MatchFresh'
  BY <1>1, <1>3, <1>5, <1>6 DEF TailsHold, LiveFresh, MatchFresh
<1>11. TailsKnown'
  <2>1. ASSUME NEW d \in CycleIds
        PROVE  /\ stage'[d] # "none" => d <= begun /\ tokenOf[d] \in {0, d}
               /\ stage'[d] = "adding" => main'.records[d] > 0
               /\ (stage'[d] = "adding" /\ d \notin cut') => main'.energies[d] = 0
    BY <1>1, <1>2, <1>3, <1>5, <1>6, ZenonT(40) DEF TailsHold, TailsKnown
  <2> QED
    BY <1>1, <2>1 DEF TailsKnown
<1>12. TokenOfLive'
  BY <1>1, <1>5 DEF TailsHold, TokenOfLive
<1>13. SnapsKnown' /\ StartsLive' /\ GuardedRuns' /\ DownBare'
  BY <1>1, <1>6 DEF TailsHold, SnapsKnown, StartsLive, GuardedRuns, DownBare
<1>14. SnapshotHeld'
  <2>1. ASSUME NEW d \in guarded \ (dropped \union cut'), d \notin Filed(main)
        PROVE  snap' = d /\ snapFile = d
    <3>1. snap = d /\ snapFile = d /\ d \in CycleIds
      BY <1>6, <2>1 DEF TailsHold, SnapshotHeld, FilingTypeOK
    <3>2. CASE snap' = snap
      BY <3>1, <3>2
    <3>3. CASE OwnsSnapshot(c) /\ snap' = 0 /\ cut' = cut \union Exposed
      <4>1. d = live
        BY <2>1, <3>1, <3>3 DEF Exposed
      <4>2. token # tokenOf[c]
        <5>1. live \in guarded /\ live # 0 /\ stage[c] # "none"
          BY <1>1, <2>1, <3>1, <4>1
        <5> QED
          BY <5>1 DEF TailsHold, GuardedRuns, TokenOfLive
      <4> QED
        BY <3>3, <4>2 DEF OwnsSnapshot
    <3> QED
      BY <1>1, <3>2, <3>3
  <2> QED
    BY <1>1, <1>3, <2>1 DEF SnapshotHeld
<1> QED
  BY <1>6, <1>7, <1>9, <1>10, <1>11, <1>12, <1>13, <1>14 DEF TailsHold, BooksHold

\* A tail that fails before its cycle is on record goes on to its flush.
LEMMA TailFailsStep ==
    ASSUME FilingInv, NEW c \in CycleIds, FailRun(c) \/ FailAdd(c)
    PROVE  FilingInv'
<1>1. /\ entry # "down" /\ stage[c] = "matching" /\ stage' = [stage EXCEPT ![c] = "flushing"]
      /\ \/ OwnsSnapshot(c) /\ snap' = 0 /\ cut' = cut \union Exposed
         \/ snap' = snap /\ cut' = cut
      /\ dropped' = dropped \/ dropped' = dropped \union {c}
      /\ UNCHANGED <<live, starting, token, tokenOf, before, main, mainFile, snapFile,
                     entry, boots, begun, guarded, miscounted>>
  BY DEF FailRun, FailAdd, TailsRun, ClearsOwn, ClearsSnapshot, detectorVars, mainVars, snapVars,
     entryVars, pastVars
<1> USE FilingFacts, CycleFacts DEF FilingInv
<1>2. stage' \in [CycleIds -> TailStages] /\ stage'[c] = "flushing"
      /\ \A d \in CycleIds : d # c => stage'[d] = stage[d]
  BY <1>1 DEF FilingTypeOK, TailStages
<1>3. FilingTypeOK' /\ cut \subseteq cut' /\ snap' \in {0, snap} /\ dropped \subseteq dropped'
  BY <1>1, <1>2, ZenonT(40) DEF FilingTypeOK
<1>4. BooksHold'
  BY <1>1, <1>3, BooksKept
<1>5. LiveFresh'
  <2>1. live # 0 => live \in CycleIds /\ live # c
    BY <1>1 DEF FilingTypeOK, TailsHold, LiveFresh
  <2> QED
    BY <1>1, <1>2, <1>3, <2>1 DEF TailsHold, LiveFresh
<1>6. MatchFresh' /\ TailsKnown'
  BY <1>1, <1>2, <1>3 DEF TailsHold, MatchFresh, TailsKnown
<1>7. TokenOfLive'
  BY <1>1, <1>2 DEF TailsHold, TokenOfLive
<1>8. SnapsKnown' /\ StartsLive' /\ GuardedRuns' /\ DownBare'
  BY <1>1, <1>3 DEF TailsHold, SnapsKnown, StartsLive, GuardedRuns, DownBare
<1>9. SnapshotHeld'
  <2>1. ASSUME NEW d \in guarded \ (dropped' \union cut'), d \notin Filed(main)
        PROVE  snap' = d /\ snapFile = d
    <3>1. snap = d /\ snapFile = d /\ d \in CycleIds
      BY <1>3, <2>1 DEF TailsHold, SnapshotHeld, FilingTypeOK
    <3>2. CASE snap' = snap
      BY <3>1, <3>2
    <3>3. CASE OwnsSnapshot(c) /\ snap' = 0 /\ cut' = cut \union Exposed
      <4>1. d = live
        BY <2>1, <3>1, <3>3 DEF Exposed
      <4>2. token # tokenOf[c]
        <5>1. live \in guarded /\ live # 0 /\ stage[c] # "none"
          BY <1>1, <2>1, <3>1, <4>1
        <5> QED
          BY <5>1 DEF TailsHold, GuardedRuns, TokenOfLive
      <4> QED
        BY <3>3, <4>2 DEF OwnsSnapshot
    <3> QED
      BY <1>1, <3>2, <3>3
  <2> QED
    BY <1>1, <2>1 DEF SnapshotHeld
<1> QED
  BY <1>3, <1>4, <1>5, <1>6, <1>7, <1>8, <1>9 DEF TailsHold

LEMMA WritesStep ==
    ASSUME FilingInv, SaveSoon \/ WriteMain
    PROVE  FilingInv'
<1>1. /\ main' = main /\ (mainFile' = mainFile \/ mainFile' = main)
      /\ entry # "down" \/ mainDue # "none"
      /\ UNCHANGED <<live, starting, token, tokenOf, stage, before, snap, snapFile, snapDue,
                     entry, boots, begun, guarded, dropped, cut, miscounted>>
  BY DEF SaveSoon, WriteMain, TailsRun, detectorVars, tailVars, snapVars, entryVars, pastVars
<1> USE FilingFacts, CycleFacts DEF FilingInv
<1>2. FilingTypeOK'
  BY <1>1 DEF FilingTypeOK
<1>3. BooksHold'
  BY <1>1, BooksKept
<1>4. LiveFresh' /\ MatchFresh' /\ TailsKnown' /\ SnapsKnown' /\ StartsLive' /\ TokenOfLive'
  BY <1>1 DEF TailsHold, LiveFresh, MatchFresh, TailsKnown, SnapsKnown, StartsLive, TokenOfLive
<1>5. entry' # "down"
  BY <1>1 DEF TailsHold, DownBare
<1>6. GuardedRuns' /\ SnapshotHeld' /\ DownBare'
  BY <1>1, <1>5 DEF TailsHold, GuardedRuns, SnapshotHeld, DownBare
<1> QED
  BY <1>2, <1>3, <1>4, <1>6 DEF TailsHold

LEMMA CloseRunStep ==
    ASSUME FilingInv, NEW c \in CycleIds, CloseRun(c)
    PROVE  FilingInv'
<1>1. /\ entry # "down" /\ stage[c] = "flushing" /\ stage' = [stage EXCEPT ![c] = "none"]
      /\ token' = token \/ (token' = 0 /\ token = tokenOf[c])
      /\ UNCHANGED <<live, starting, tokenOf, before, main, mainFile, mainDue, snap, snapFile, snapDue,
                     entry, boots, begun, guarded, dropped, cut, miscounted>>
  BY DEF CloseRun, TailsRun, mainVars, snapVars, entryVars, pastVars
<1> USE FilingFacts, CycleFacts DEF FilingInv
<1>2. stage' \in [CycleIds -> TailStages] /\ stage'[c] = "none"
      /\ \A d \in CycleIds : d # c => stage'[d] = stage[d]
  BY <1>1 DEF FilingTypeOK, TailStages
<1>3. FilingTypeOK'
  BY <1>1, <1>2 DEF FilingTypeOK
<1>4. BooksHold'
  BY <1>1, BooksKept
<1>5. LiveFresh' /\ MatchFresh' /\ TailsKnown'
  BY <1>1, <1>2 DEF TailsHold, LiveFresh, MatchFresh, TailsKnown
<1>6. TokenOfLive'
  BY <1>1, <1>2 DEF TailsHold, TokenOfLive
<1>7. SnapsKnown' /\ StartsLive' /\ GuardedRuns' /\ SnapshotHeld' /\ DownBare'
  BY <1>1 DEF TailsHold, SnapsKnown, StartsLive, GuardedRuns, SnapshotHeld, DownBare
<1> QED
  BY <1>3, <1>4, <1>5, <1>6, <1>7 DEF TailsHold

LEMMA DeleteRunStep ==
    ASSUME FilingInv, NEW c \in CycleIds, DeleteRun(c)
    PROVE  FilingInv'
<1>1. /\ entry # "down" /\ c \in main.past /\ main' = [main EXCEPT !.past = @ \ {c}]
      /\ cut' = IF c \in {snap, snapFile} THEN cut \union {c} ELSE cut
      /\ UNCHANGED <<live, starting, token, tokenOf, stage, before, mainFile, snap, snapFile, snapDue,
                     entry, boots, begun, guarded, dropped, miscounted>>
  BY DEF DeleteRun, TailsRun, detectorVars, tailVars, snapVars, entryVars
<1> USE FilingFacts, MainFacts, CycleFacts DEF FilingInv
<1>2. /\ main'.past = main.past \ {c} /\ main'.odo = main.odo
      /\ main'.records = main.records /\ main'.energies = main.energies
      /\ main' \in MainFiles /\ Filed(main') = Filed(main)
  BY <1>1 DEF MainFiles, Filed
<1>3. FilingTypeOK' /\ cut \subseteq cut'
  BY <1>1, <1>2 DEF FilingTypeOK
<1>4. BooksOK(mainFile)'
  BY <1>1, <1>3 DEF BooksHold, BooksOK, Filed
<1>5. BooksOK(main)'
  BY <1>1, <1>2, <1>3 DEF BooksHold, BooksOK
<1>6. LiveFresh' /\ MatchFresh' /\ TailsKnown'
  BY <1>1, <1>2, <1>3 DEF TailsHold, LiveFresh, MatchFresh, TailsKnown
<1>7. SnapsKnown' /\ StartsLive' /\ GuardedRuns' /\ DownBare' /\ TokenOfLive'
  BY <1>1 DEF TailsHold, SnapsKnown, StartsLive, GuardedRuns, DownBare, TokenOfLive
<1>8. SnapshotHeld'
  BY <1>1, <1>2, <1>3 DEF TailsHold, SnapshotHeld
<1> QED
  BY <1>3, <1>4, <1>5, <1>6, <1>7, <1>8 DEF TailsHold, BooksHold

LEMMA UnloadStep ==
    ASSUME FilingInv, Unload
    PROVE  FilingInv'
<1>1. /\ entry' = "unloading" /\ stage' = NoTails
      /\ UNCHANGED <<live, starting, token, tokenOf, before, main, mainFile, snap, snapFile,
                     boots, begun, guarded, dropped, cut>>
  BY DEF Unload, detectorVars
<1> USE FilingFacts, CycleFacts DEF FilingInv
<1>2. stage' \in [CycleIds -> TailStages] /\ \A c \in CycleIds : stage'[c] = "none"
  BY <1>1 DEF NoTails, TailStages
<1>3. FilingTypeOK'
  BY <1>1, <1>2 DEF FilingTypeOK
<1>4. BooksHold'
  BY <1>1, BooksKept
<1>5. LiveFresh' /\ MatchFresh' /\ TailsKnown' /\ TokenOfLive'
  BY <1>1, <1>2 DEF TailsHold, LiveFresh, MatchFresh, TailsKnown, TokenOfLive, FilingTypeOK
<1>6. SnapsKnown' /\ StartsLive' /\ GuardedRuns' /\ SnapshotHeld' /\ DownBare'
  BY <1>1 DEF TailsHold, SnapsKnown, StartsLive, GuardedRuns, SnapshotHeld, DownBare
<1> QED
  BY <1>3, <1>4, <1>5, <1>6 DEF TailsHold

\* Only the files are left: a cycle filed since the last write of the history is in the
\* snapshot file or in cut.
LEMMA GoneStep ==
    ASSUME FilingInv, Gone
    PROVE  FilingInv'
<1>1. /\ entry' = "down" /\ live' = 0 /\ starting' = FALSE /\ token' = 0
      /\ stage' = NoTails /\ tokenOf' = NoCounts /\ before' = NoCounts
      /\ main' = mainFile /\ mainDue' = "none" /\ snap' = snapFile /\ boots < MaxBoots
      /\ cut' = cut \union ((Filed(main) \ Filed(mainFile)) \ {snapFile})
      /\ UNCHANGED <<mainFile, snapFile, boots, begun, guarded, dropped>>
  BY DEF Gone
<1> USE FilingFacts, MainFacts, CycleFacts DEF FilingInv
<1>2. /\ stage' \in [CycleIds -> TailStages] /\ \A c \in CycleIds : stage'[c] = "none"
      /\ tokenOf' \in [CycleIds -> {0} \union CycleIds] /\ before' \in Counters
  BY <1>1 DEF NoTails, NoCounts, TailStages, Counters
<1>3. FilingTypeOK' /\ cut \subseteq cut'
  BY <1>1, <1>2 DEF FilingTypeOK
<1>4. BooksOK(mainFile)'
  BY <1>1, <1>3 DEF BooksHold, BooksOK, Filed
<1>5. BooksOK(main)'
  BY <1>1, <1>4 DEF BooksOK, Filed
<1>6. LiveFresh' /\ MatchFresh' /\ TailsKnown' /\ TokenOfLive'
  BY <1>1, <1>2 DEF LiveFresh, MatchFresh, TailsKnown, TokenOfLive
<1>7. SnapsKnown' /\ StartsLive' /\ GuardedRuns' /\ DownBare'
  BY <1>1 DEF TailsHold, SnapsKnown, StartsLive, GuardedRuns, DownBare
<1>8. SnapshotHeld'
  <2>1. ASSUME NEW c \in guarded \ (dropped \union cut'), c \notin Filed(mainFile)
        PROVE  snapFile = c
    <3>1. c \in Filed(main) \/ snapFile = c
      BY <1>3, <2>1 DEF TailsHold, SnapshotHeld
    <3> QED
      BY <1>1, <2>1, <3>1
  <2> QED
    BY <1>1, <2>1 DEF SnapshotHeld
<1> QED
  BY <1>3, <1>4, <1>5, <1>6, <1>7, <1>8 DEF TailsHold, BooksHold

LEMMA RestoreStep ==
    ASSUME FilingInv, Restore
    PROVE  FilingInv'
<1>1. /\ entry = "down" /\ entry' = "up" /\ boots' = boots + 1
      /\ main' = [main EXCEPT !.odo = Odometer(main)]
      /\ UNCHANGED <<token, tokenOf, stage, before, mainFile, mainDue, snapFile, begun, cut, miscounted>>
  BY DEF Restore, tailVars
<1>2. \/ /\ snap \in CycleIds /\ snap \notin main.past /\ live' = snap /\ starting' \in BOOLEAN
         /\ snap' = IF starting' THEN 0 ELSE snap
         /\ guarded' = IF starting' THEN guarded \ {snap} ELSE guarded
         /\ dropped' = dropped
      \/ /\ live' = 0 /\ starting' = FALSE /\ snap' = 0 /\ guarded' = guarded
         /\ dropped' = IF snap \notin main.past THEN dropped \union ({snap} \intersect CycleIds)
                       ELSE dropped
  BY CycleFacts DEF Restore, StillActive, ClearsSnapshot
<1> USE FilingFacts, MainFacts, CycleFacts DEF FilingInv
<1>3. /\ main'.past = main.past /\ main'.records = main.records /\ main'.energies = main.energies
      /\ main' \in MainFiles /\ Filed(main') = Filed(main)
  BY <1>1 DEF MainFiles, Filed
<1>4. /\ stage = NoTails /\ token = 0 /\ main = mainFile
      /\ \A c \in CycleIds : stage[c] = "none"
  BY <1>1 DEF TailsHold, DownBare, NoTails
<1>5. snap' \in {0, snap} /\ starting' \in BOOLEAN /\ live' \in {0} \union CycleIds
      /\ guarded' \subseteq guarded /\ dropped \subseteq dropped' /\ dropped' \subseteq CycleIds
  BY <1>2 DEF FilingTypeOK
<1>6. boots' \in 1..MaxBoots
  BY <1>1 DEF FilingTypeOK, TailsHold, DownBare
<1>7. FilingTypeOK'
  <2>1. snap' \in {WrinkleSnap, 0} \union CycleIds /\ guarded' \subseteq CycleIds
    BY <1>5 DEF FilingTypeOK
  <2> QED
    BY <1>1, <1>3, <1>5, <1>6, <2>1 DEF FilingTypeOK
<1>8. BooksOK(main)' /\ BooksOK(mainFile)'
  <2>1. BooksOK(main) /\ boots < boots'
    BY <1>1 DEF BooksHold
  <2>2. BooksOK(mainFile)'
    BY <1>1, <1>4, <1>5, <2>1, SMTT(30) DEF BooksOK, Filed
  <2>3. main'.past \subseteq Filed(main')
    BY <1>3, <2>1 DEF BooksOK
  <2>4. \A c \in CycleIds :
           /\ main'.energies[c] > 0 => main'.records[c] > 0
           /\ main'.records[c] <= boots' /\ (c > begun' => main'.records[c] = 0)
    <3> SUFFICES ASSUME NEW c \in CycleIds
                 PROVE  /\ main.energies[c] > 0 => main.records[c] > 0
                        /\ main.records[c] <= boots' /\ (c > begun => main.records[c] = 0)
      BY <1>1, <1>3
    <3>1. main.records[c] \in Nat /\ main.records[c] <= boots /\ boots \in Nat /\ boots' = boots + 1
      BY <1>1, <2>1 DEF BooksOK
    <3>2. main.records[c] <= boots'
      BY <3>1
    <3> QED
      BY <2>1, <3>2 DEF BooksOK
  <2>5. \A c \in CycleIds \ cut' :
           /\ main'.records[c] <= 1 /\ main'.energies[c] <= 1
           /\ main'.records[c] > 0 /\ c \notin main'.past => c \notin {snap', snapFile'}
    BY <1>1, <1>3, <1>5, <2>1 DEF BooksOK
  <2>6. BooksOK(main)'
    BY <2>3, <2>4, <2>5 DEF BooksOK
  <2> QED
    BY <2>2, <2>6
<1>9. LiveFresh'
  <2>1. ASSUME live' # 0
        PROVE  /\ live' <= begun /\ main.records[live'] <= boots
               /\ live' \notin cut => main.records[live'] = 0
    BY <1>2, <1>5, <2>1 DEF BooksHold, BooksOK, TailsHold, SnapsKnown
  <2> QED
    BY <1>1, <1>3, <1>4, <1>5, <2>1 DEF LiveFresh
<1>10. MatchFresh' /\ TailsKnown'
  BY <1>1, <1>4 DEF MatchFresh, TailsKnown
<1>11. SnapsKnown' /\ TokenOfLive' /\ StartsLive' /\ DownBare'
  BY <1>1, <1>2, <1>4, <1>5 DEF TailsHold, SnapsKnown, TokenOfLive, StartsLive, DownBare
<1>12. GuardedRuns'
  BY <1>2 DEF FilingTypeOK, GuardedRuns
<1>13. SnapshotHeld'
  <2>1. ASSUME NEW c \in guarded' \ (dropped' \union cut), c \notin Filed(main)
        PROVE  snap' = c /\ snapFile = c
    <3>1. snap = c /\ snapFile = c
      BY <1>5, <2>1 DEF TailsHold, SnapshotHeld
    <3>2. c \in CycleIds /\ c \notin main.past
      BY <1>5, <2>1 DEF FilingTypeOK, BooksHold, BooksOK
    <3> QED
      BY <1>2, <2>1, <3>1, <3>2
  <2> QED
    BY <1>1, <1>3, <2>1 DEF SnapshotHeld
<1> QED
  BY <1>7, <1>8, <1>9, <1>10, <1>11, <1>12, <1>13 DEF TailsHold, BooksHold

LEMMA FilingStarts == FilingInit => FilingInv
<1> SUFFICES ASSUME FilingInit PROVE FilingInv
  OBVIOUS
<1> USE CycleFacts DEF FilingInit
<1>1. /\ NoCounts \in Counters /\ NoTails \in [CycleIds -> TailStages]
      /\ NoCounts \in [CycleIds -> {0} \union CycleIds] /\ NewMain \in MainFiles
      /\ \A c \in CycleIds : NoCounts[c] = 0 /\ NoTails[c] = "none"
  BY DEF NoCounts, NoTails, NewMain, Counters, TailStages, MainFiles
<1>2. NewMain.past = {} /\ NewMain.records = NoCounts /\ NewMain.energies = NoCounts
  BY DEF NewMain
<1>3. FilingTypeOK
  <2>1. 0 \in 0..MaxBegun /\ 1 \in 1..MaxBoots
    BY FilingAssumption
  <2> QED
    BY <1>1, <2>1 DEF FilingTypeOK
<1>4. BooksHold
  BY <1>1, <1>2 DEF BooksHold, BooksOK
<1>5. TailsHold
  BY <1>1, <1>2 DEF TailsHold, LiveFresh, MatchFresh, TailsKnown, SnapsKnown, TokenOfLive, StartsLive,
     GuardedRuns, DownBare, SnapshotHeld
<1> QED
  BY <1>3, <1>4, <1>5 DEF FilingInv

LEMMA FilingSteps == FilingInv /\ [FilingNext]_filingVars => FilingInv'
<1> SUFFICES ASSUME FilingInv, [FilingNext]_filingVars PROVE FilingInv'
  OBVIOUS
<1>1. CASE StartsRun \/ CommitRun \/ AbortStart
  BY <1>1, StartsRunStep, CommitRunStep, AbortStartStep
<1>2. CASE SaveSnapshot \/ WriteSnapshot \/ LastWrites \/ HomeStops
  BY <1>2, SnapshotStep, WriteSnapshotStep
<1>3. CASE EndRun \/ DropRun \/ RestEnds \/ ResetForRecording
  BY <1>3, EndRunStep, DropRunStep, RestStep
<1>4. CASE \E c \in CycleIds : \/ AddRun(c) \/ FailRun(c) \/ FailAdd(c)
                              \/ CountRun(c) \/ CloseRun(c) \/ DeleteRun(c)
  BY <1>4, AddRunStep, TailFailsStep, CountRunStep, CloseRunStep, DeleteRunStep
<1>5. CASE SaveSoon \/ WriteMain
  BY <1>5, WritesStep
<1>6. CASE Unload \/ Gone \/ Restore
  BY <1>6, UnloadStep, GoneStep, RestoreStep
<1>7. CASE UNCHANGED filingVars
  BY <1>7 DEF filingVars, FilingInv, FilingTypeOK, BooksHold, BooksOK, Filed, TailsHold, LiveFresh,
     MatchFresh, TailsKnown, SnapsKnown, TokenOfLive, StartsLive, GuardedRuns, DownBare, SnapshotHeld
<1> QED
  BY <1>1, <1>2, <1>3, <1>4, <1>5, <1>6, <1>7 DEF FilingNext

(* The types of the filing: no counter is negative, and no set-up or cycle *)
(* beyond the bounds is ever counted.                                      *)
THEOREM FilingTyped == FilingSpec => []FilingTypeOK
<1>1. FilingInv => FilingTypeOK
  BY DEF FilingInv
<1> QED
  BY <1>1, FilingStarts, FilingSteps, PTL DEF FilingSpec

(* A cycle the detector finished is filed once, and its energy counted     *)
(* once, over every restart, and none whose snapshot reached the disk is   *)
(* lost, whatever stop or crash falls between the tail of its end, its     *)
(* snapshot and the history, but for the cycles dropped or refused by the  *)
(* store, and those of cut: filed since the last write of the history, or  *)
(* with a snapshot that made way for another's, a recording's reset or the *)
(* anti-crease tail's before they were filed (_on_cycle_end,               *)
(* _async_cycle_end_steps, async_shutdown, _async_on_ha_stop,              *)
(* _attempt_state_restoration).                                            *)
THEOREM CyclesAreFiledAndKept == FilingSpec => []FiledAndKept
<1>1. FilingInv => FiledAndKept
  <2> SUFFICES ASSUME FilingInv PROVE FiledAndKept
    OBVIOUS
  <2>1. FiledOnceEver
    BY DEF FilingInv, BooksHold, BooksOK, FiledOnceEver
  <2>2. SnapshotSurvives
    BY DEF FilingInv, TailsHold, SnapshotHeld, SnapshotSurvives
  <2> QED
    BY <2>1, <2>2 DEF FiledAndKept
<1> QED
  BY <1>1, FilingStarts, FilingSteps, PTL DEF FilingSpec

-----------------------------------------------------------------------------
(***************************************************************************)
(* The odometer: the records that were ever filed, as pairs of a cycle and *)
(* the how-manieth record of it.                                           *)
(***************************************************************************)
Ever(m) == {r \in CycleIds \X (1..MaxBoots) : r[2] <= m.records[r[1]]}
Adding == {c \in CycleIds : stage[c] = "adding"}

\* While no count was missed, a record and its energy differ only between the two halves
\* of a tail, and so do the odometer and the records.
CountsAgree ==
    /\ \A c \in CycleIds :
          main.records[c] = IF stage[c] = "adding" THEN main.energies[c] + 1 ELSE main.energies[c]
    /\ Adding = {} => main.odo = Cardinality(Ever(main))
    /\ \A c \in CycleIds : Adding = {c} =>
          main.odo = before[c] /\ Cardinality(Ever(main)) = before[c] + 1
    /\ ~Uncounted(mainFile) => mainFile.odo = Cardinality(Ever(mainFile))

CountInv == FilingInv /\ (~miscounted => CountsAgree)

LEMMA EverFacts ==
    ASSUME NEW m \in MainFiles
    PROVE  /\ Ever(m) \subseteq CycleIds \X (1..MaxBoots) /\ IsFiniteSet(Ever(m))
           /\ Cardinality(Ever(m)) \in Nat
           /\ m.past \subseteq Filed(m) => Cardinality(m.past) <= Cardinality(Ever(m))
<1>1. IsFiniteSet(1..MaxBoots) /\ 1 \in 1..MaxBoots
  BY FilingAssumption, FS_Interval
<1>2. IsFiniteSet(CycleIds \X (1..MaxBoots))
  BY <1>1, CycleFacts, FS_Product
<1>3. Ever(m) \in SUBSET (CycleIds \X (1..MaxBoots))
  BY DEF Ever
<1>4. IsFiniteSet(Ever(m))
  BY <1>2, <1>3, FS_Subset
<1>5. Cardinality(Ever(m)) \in Nat
  BY <1>4, FS_CardinalityType
<1>6. ASSUME m.past \subseteq Filed(m)
      PROVE  Cardinality(m.past) <= Cardinality(Ever(m))
  <2> DEFINE firsts == m.past \X {1}
  <2>1. firsts \in SUBSET Ever(m)
    <3>1. m.past \subseteq CycleIds /\ \A c \in CycleIds : m.records[c] \in Nat
      BY MainFacts
    <3>2. ASSUME NEW r \in firsts PROVE r \in Ever(m)
      <4>1. r \in CycleIds \X (1..MaxBoots) /\ r[1] \in m.past /\ r[2] = 1
        BY <1>1, <3>1, <3>2
      <4>2. r[1] \in CycleIds /\ m.records[r[1]] > 0 /\ m.records[r[1]] \in Nat
        BY <1>6, <3>1, <4>1 DEF Filed
      <4> QED
        BY <4>1, <4>2 DEF Ever
    <3> QED
      BY <3>2
  <2>2. IsFiniteSet(m.past) /\ Cardinality(m.past) \in Nat
    BY MainFacts
  <2>3. IsFiniteSet({1}) /\ Cardinality({1}) = 1
    BY FS_Singleton
  <2>4. Cardinality(firsts) = Cardinality(m.past) * Cardinality({1})
    BY <2>2, <2>3, FS_Product
  <2>5. Cardinality(firsts) = Cardinality(m.past)
    BY <2>2, <2>3, <2>4
  <2> QED
    BY <1>4, <2>1, <2>5, FS_Subset
<1> QED
  BY <1>3, <1>4, <1>5, <1>6

\* Where the odometer is right, reading it and healing it change nothing.
LEMMA OdometerReads ==
    ASSUME NEW m \in MainFiles, m.past \subseteq Filed(m), m.odo = Cardinality(Ever(m))
    PROVE  Odometer(m) = m.odo
BY EverFacts, MainFacts DEF Odometer

LEMMA SameEver ==
    ASSUME NEW m, NEW n, m.records = n.records
    PROVE  Ever(m) = Ever(n) /\ Filed(m) = Filed(n)
BY DEF Ever, Filed

\* One more record is one more pair.
LEMMA EverGrows ==
    ASSUME NEW m \in MainFiles, NEW n \in MainFiles, NEW c \in CycleIds,
           m.records[c] < MaxBoots, n.records[c] = m.records[c] + 1,
           \A d \in CycleIds : d # c => n.records[d] = m.records[d]
    PROVE  Cardinality(Ever(n)) = Cardinality(Ever(m)) + 1
<1> DEFINE new == <<c, n.records[c]>>
<1>1. m.records[c] \in Nat /\ MaxBoots \in Nat /\ n.records[c] \in 1..MaxBoots
      /\ \A d \in CycleIds : m.records[d] \in Nat /\ n.records[d] \in Nat
  BY MainFacts, CycleFacts
<1>2. new \in Ever(n) /\ new \notin Ever(m)
  BY <1>1 DEF Ever
<1>3. ASSUME NEW r \in CycleIds \X (1..MaxBoots)
      PROVE  r[2] <= n.records[r[1]] <=> r[2] <= m.records[r[1]] \/ r = new
  <2>1. r[1] \in CycleIds /\ r[2] \in 1..MaxBoots /\ r = <<r[1], r[2]>> /\ r[2] \in Nat
    OBVIOUS
  <2>2. CASE r[1] # c
    <3>1. r # new
      BY <2>1, <2>2
    <3> QED
      BY <2>1, <2>2, <3>1
  <2>3. CASE r[1] = c
    <3>1. r = new <=> r[2] = n.records[c]
      BY <2>1, <2>3
    <3> HIDE DEF new
    <3>2. r[2] <= n.records[c] <=> r[2] <= m.records[c] \/ r[2] = n.records[c]
      BY <1>1, <2>1
    <3> QED
      BY <2>3, <3>1, <3>2
  <2> QED
    BY <2>2, <2>3
<1> HIDE DEF new
<1>4. Ever(n) = Ever(m) \union {new}
  BY <1>2, <1>3 DEF Ever
<1>5. IsFiniteSet(Ever(m))
  BY EverFacts
<1> QED
  BY <1>2, <1>4, <1>5, FS_AddElement

\* A step that leaves the counts of the history in memory, and who is adding.
LEMMA CountsKept ==
    ASSUME FilingInv, FilingInv', CountsAgree,
           main'.odo = main.odo, main'.records = main.records, main'.energies = main.energies,
           mainFile' = mainFile \/ mainFile' = main,
           \A c \in CycleIds : stage'[c] = "adding" <=> stage[c] = "adding",
           \A c \in CycleIds : before'[c] = before[c]
    PROVE  CountsAgree'
<1>1. Ever(main') = Ever(main) /\ Adding' = Adding
  BY SameEver DEF Adding
<1>2. \A c \in CycleIds :
         main'.records[c] = IF stage'[c] = "adding" THEN main'.energies[c] + 1 ELSE main'.energies[c]
  BY DEF CountsAgree
<1>3. ASSUME ~Uncounted(mainFile') PROVE mainFile'.odo = Cardinality(Ever(mainFile'))
  <2>1. CASE mainFile' = mainFile
    BY <1>3, <2>1 DEF CountsAgree
  <2>2. CASE mainFile' = main
    <3>1. ASSUME NEW c \in CycleIds PROVE stage[c] # "adding"
      <4>1. stage[c] = "adding" => c \in Filed(main) /\ main.energies[c] # main.records[c]
        BY FilingFacts, MainFacts DEF FilingInv, TailsHold, TailsKnown, CountsAgree, Filed
      <4> QED
        BY <1>3, <2>2, <4>1 DEF Uncounted
    <3>2. Adding = {}
      BY <3>1 DEF Adding
    <3> QED
      BY <2>2, <3>2 DEF CountsAgree
  <2> QED
    BY <2>1, <2>2
<1> QED
  BY <1>1, <1>2, <1>3 DEF CountsAgree

LEMMA AddRunCounts ==
    ASSUME FilingInv, FilingInv', CountsAgree, NEW c \in CycleIds, AddRun(c)
    PROVE  CountsAgree'
<1>1. /\ stage[c] = "matching" /\ stage' = [stage EXCEPT ![c] = "adding"]
      /\ before' = [before EXCEPT ![c] = Odometer(main)] /\ mainFile' = mainFile
      /\ main' = [main EXCEPT !.past = @ \union {c}, !.records = [main.records EXCEPT ![c] = @ + 1]]
  BY DEF AddRun, ReadOdometer
<1>2. /\ main \in MainFiles /\ main' \in MainFiles /\ main.records \in Counters
      /\ main'.odo = main.odo /\ main'.energies = main.energies
      /\ main'.records = [main.records EXCEPT ![c] = @ + 1]
      /\ stage \in [CycleIds -> TailStages] /\ before \in Counters
      /\ main.past \subseteq Filed(main) /\ main.records[c] < MaxBoots
  <2>1. main \in MainFiles /\ main' \in MainFiles
    BY DEF FilingInv, FilingTypeOK
  <2>2. main.past \subseteq Filed(main) /\ main.records[c] < MaxBoots
    <3>1. main.past \subseteq Filed(main)
      BY DEF FilingInv, BooksHold, BooksOK
    <3>2. main.records[c] < boots /\ boots \in 1..MaxBoots
      BY <1>1 DEF FilingInv, FilingTypeOK, TailsHold, MatchFresh
    <3>3. main.records[c] \in Nat /\ MaxBoots \in Nat
      BY <2>1, MainFacts, CycleFacts
    <3> QED
      BY <3>1, <3>2, <3>3
  <2>3. /\ main'.odo = main.odo /\ main'.energies = main.energies /\ main.records \in Counters
        /\ main'.records = [main.records EXCEPT ![c] = @ + 1]
    BY <1>1, <2>1 DEF MainFiles
  <2> QED
    BY <2>1, <2>2, <2>3 DEF FilingInv, FilingTypeOK
<1>3. /\ main'.records[c] = main.records[c] + 1
      /\ \A d \in CycleIds : d # c => main'.records[d] = main.records[d]
  BY <1>2 DEF Counters
<1>4. /\ stage'[c] = "adding" /\ before'[c] = Odometer(main)
      /\ \A d \in CycleIds : d # c => stage'[d] = stage[d]
  BY <1>1, <1>2 DEF Counters
<1>5. \A d \in CycleIds :
         main'.records[d] = IF stage'[d] = "adding" THEN main'.energies[d] + 1 ELSE main'.energies[d]
  BY <1>1, <1>2, <1>3, <1>4 DEF CountsAgree
<1>6. c \in Adding'
  BY <1>4 DEF Adding
<1>7. ASSUME NEW d \in CycleIds, Adding' = {d}
      PROVE  main'.odo = before'[d] /\ Cardinality(Ever(main')) = before'[d] + 1
  <2>1. d = c
    BY <1>6, <1>7
  <2>2. Adding = {}
    <3>1. ASSUME NEW e \in CycleIds, stage[e] = "adding" PROVE FALSE
      <4>1. e # c
        BY <1>1, <3>1
      <4>2. e \in Adding'
        BY <1>4, <3>1, <4>1 DEF Adding
      <4> QED
        BY <1>7, <2>1, <4>1, <4>2
    <3> QED
      BY <3>1 DEF Adding
  <2>3. main.odo = Cardinality(Ever(main))
    BY <2>2 DEF CountsAgree
  <2>4. Odometer(main) = main.odo
    BY <1>2, <2>3, OdometerReads
  <2>5. Cardinality(Ever(main')) = Cardinality(Ever(main)) + 1
    BY <1>2, <1>3, EverGrows
  <2> QED
    BY <1>2, <1>4, <2>1, <2>3, <2>4, <2>5
<1>8. Adding' # {}
  BY <1>6
<1>9. ~Uncounted(mainFile') => mainFile'.odo = Cardinality(Ever(mainFile'))
  BY <1>1 DEF CountsAgree
<1> QED
  BY <1>5, <1>7, <1>8, <1>9 DEF CountsAgree

\* With no other tail between its halves the odometer catches up with the records.
LEMMA CountRunCounts ==
    ASSUME FilingInv, FilingInv', CountsAgree, NEW c \in CycleIds, CountRun(c), ~miscounted'
    PROVE  CountsAgree'
<1> DEFINE odo == IF before[c] + 1 < Odometer(main) THEN main.odo ELSE before[c] + 1
<1>1. /\ stage[c] = "adding" /\ stage' = [stage EXCEPT ![c] = "flushing"]
      /\ main' = [main EXCEPT !.odo = odo, !.energies = [main.energies EXCEPT ![c] = @ + 1]]
      /\ \A d \in CycleIds : d # c => stage[d] # "adding"
      /\ mainFile' = mainFile
  BY DEF CountRun
<1>2. /\ main \in MainFiles /\ stage \in [CycleIds -> TailStages]
      /\ before[c] \in Nat /\ main.past \subseteq Filed(main)
  BY FilingFacts DEF FilingInv, FilingTypeOK, BooksHold, BooksOK
<1>3. Adding = {c}
  BY <1>1 DEF Adding
<1>4. main.odo = before[c] /\ Cardinality(Ever(main)) = before[c] + 1
  BY <1>3 DEF CountsAgree
<1>5. odo = before[c] + 1
  BY <1>2, <1>4, EverFacts, MainFacts DEF Odometer
<1> HIDE DEF odo
<1>6. /\ main'.odo = odo /\ main'.records = main.records /\ main.energies \in Counters
      /\ main'.energies = [main.energies EXCEPT ![c] = @ + 1]
  BY <1>1, <1>2 DEF MainFiles
<1>7. /\ main'.energies[c] = main.energies[c] + 1
      /\ \A d \in CycleIds : d # c => main'.energies[d] = main.energies[d]
  BY <1>6 DEF Counters
<1>8. \A d \in CycleIds : stage'[d] # "adding"
  BY <1>1, <1>2
<1>9. Adding' = {}
  BY <1>8 DEF Adding
<1>10. \A d \in CycleIds : main'.records[d] = main'.energies[d]
  BY <1>1, <1>6, <1>7 DEF CountsAgree
<1>11. main'.odo = Cardinality(Ever(main'))
  BY <1>4, <1>5, <1>6, SameEver
<1>12. ~Uncounted(mainFile') => mainFile'.odo = Cardinality(Ever(mainFile'))
  BY <1>1 DEF CountsAgree
<1> QED
  BY <1>8, <1>9, <1>10, <1>11, <1>12 DEF CountsAgree

\* Where every record of a history is counted, its records are its energies.
LEMMA CountedBooks ==
    ASSUME NEW m \in MainFiles, BooksOK(m), ~Uncounted(m)
    PROVE  \A c \in CycleIds : m.records[c] = m.energies[c]
BY MainFacts DEF BooksOK, Uncounted

LEMMA GoneCounts ==
    ASSUME FilingInv, FilingInv', CountsAgree, Gone, ~miscounted'
    PROVE  CountsAgree'
<1>1. /\ main' = mainFile /\ mainFile' = mainFile /\ stage' = NoTails /\ ~Uncounted(mainFile)
  BY DEF Gone
<1>2. mainFile \in MainFiles /\ BooksOK(mainFile)
  BY DEF FilingInv, FilingTypeOK, BooksHold
<1>3. \A c \in CycleIds : stage'[c] # "adding" /\ main'.records[c] = main'.energies[c]
  BY <1>1, <1>2, CountedBooks DEF NoTails
<1>4. Adding' = {}
  BY <1>3 DEF Adding
<1> QED
  BY <1>1, <1>3, <1>4 DEF CountsAgree

LEMMA UnloadCounts ==
    ASSUME FilingInv, FilingInv', CountsAgree, Unload, ~miscounted'
    PROVE  CountsAgree'
<1>1. /\ main' = main /\ mainFile' = mainFile /\ before' = before
      /\ stage' = NoTails /\ ~Uncounted(main)
  BY DEF Unload
<1>2. main \in MainFiles /\ BooksOK(main)
  BY DEF FilingInv, FilingTypeOK, BooksHold
<1>3. \A c \in CycleIds : main.records[c] = main.energies[c]
  BY <1>1, <1>2, CountedBooks
<1>4. ASSUME NEW c \in CycleIds PROVE stage[c] # "adding" /\ stage'[c] # "adding"
  BY <1>1, <1>2, <1>3, MainFacts DEF CountsAgree, NoTails
<1> QED
  BY <1>1, <1>4, CountsKept

LEMMA RestoreCounts ==
    ASSUME FilingInv, FilingInv', CountsAgree, Restore
    PROVE  CountsAgree'
<1>1. /\ entry = "down" /\ main' = [main EXCEPT !.odo = Odometer(main)]
      /\ stage' = stage /\ before' = before /\ mainFile' = mainFile
  BY DEF Restore, tailVars
<1>2. main \in MainFiles /\ main.past \subseteq Filed(main) /\ stage = NoTails
  BY <1>1 DEF FilingInv, FilingTypeOK, BooksHold, BooksOK, TailsHold, DownBare
<1>3. Adding = {}
  BY <1>2 DEF Adding, NoTails
<1>4. Odometer(main) = main.odo
  BY <1>2, <1>3, OdometerReads DEF CountsAgree
<1>5. main'.odo = main.odo /\ main'.records = main.records /\ main'.energies = main.energies
  BY <1>1, <1>2, <1>4 DEF MainFiles
<1> QED
  BY <1>1, <1>5, CountsKept

LEMMA DeleteRunCounts ==
    ASSUME FilingInv, FilingInv', CountsAgree, NEW c \in CycleIds, DeleteRun(c)
    PROVE  CountsAgree'
<1>1. /\ main' = [main EXCEPT !.past = @ \ {c}]
      /\ stage' = stage /\ before' = before /\ mainFile' = mainFile
  BY DEF DeleteRun, tailVars
<1>2. main \in MainFiles
  BY DEF FilingInv, FilingTypeOK
<1>3. main'.odo = main.odo /\ main'.records = main.records /\ main'.energies = main.energies
  BY <1>1, <1>2 DEF MainFiles
<1> QED
  BY <1>1, <1>3, CountsKept

\* The steps of the detector, the snapshot and the writes.
LEMMA OtherCounts ==
    ASSUME FilingInv, FilingInv', CountsAgree,
           \/ StartsRun \/ CommitRun \/ AbortStart \/ SaveSnapshot \/ WriteSnapshot \/ EndRun \/ DropRun
           \/ RestEnds \/ ResetForRecording \/ SaveSoon \/ WriteMain \/ LastWrites \/ HomeStops
           \/ UNCHANGED filingVars
           \/ \E c \in CycleIds : FailRun(c) \/ FailAdd(c) \/ CloseRun(c)
    PROVE  CountsAgree'
<1>1. main' = main /\ (mainFile' = mainFile \/ mainFile' = main) /\ before' = before
  BY DEF StartsRun, CommitRun, AbortStart, SaveSnapshot, WriteSnapshot, EndRun, DropRun, SaveSoon,
     WriteMain, LastWrites, HomeStops, RestEnds, ResetForRecording, FailRun, FailAdd, CloseRun,
     filingVars, mainVars, tailVars
<1>2. \/ stage' = stage
      \/ live # 0 /\ stage' = [stage EXCEPT ![live] = "matching"]
      \/ \E c \in CycleIds : stage[c] = "flushing" /\ stage' = [stage EXCEPT ![c] = "none"]
      \/ \E c \in CycleIds : stage[c] = "matching" /\ stage' = [stage EXCEPT ![c] = "flushing"]
  BY DEF StartsRun, CommitRun, AbortStart, SaveSnapshot, WriteSnapshot, EndRun, DropRun, SaveSoon,
     WriteMain, LastWrites, HomeStops, RestEnds, ResetForRecording, FailRun, FailAdd, CloseRun,
     filingVars, mainVars, tailVars
<1>3. stage \in [CycleIds -> TailStages] /\ (live # 0 => stage[live] = "none")
  BY DEF FilingInv, FilingTypeOK, TailsHold, LiveFresh
<1>4. \A c \in CycleIds : stage'[c] = "adding" <=> stage[c] = "adding"
  <2>1. CASE stage' = stage
    BY <2>1
  <2>2. CASE live # 0 /\ stage' = [stage EXCEPT ![live] = "matching"]
    BY <1>3, <2>2
  <2>3. CASE \E c \in CycleIds : stage[c] = "flushing" /\ stage' = [stage EXCEPT ![c] = "none"]
    BY <1>3, <2>3
  <2>4. CASE \E c \in CycleIds : stage[c] = "matching" /\ stage' = [stage EXCEPT ![c] = "flushing"]
    BY <1>3, <2>4
  <2> QED
    BY <1>2, <2>1, <2>2, <2>3, <2>4
<1> QED
  BY <1>1, <1>4, CountsKept

LEMMA CountStarts == FilingInit => CountInv
<1> SUFFICES ASSUME FilingInit PROVE CountInv
  OBVIOUS
<1>1. FilingInv
  BY FilingStarts
<1>2. NewMain.records = NoCounts /\ NewMain.energies = NoCounts /\ NewMain.odo = 0
  BY DEF NewMain
<1>3. \A c \in CycleIds : NoCounts[c] = 0 /\ stage[c] # "adding"
  BY DEF NoCounts, NoTails, FilingInit
<1>4. Ever(NewMain) = {} /\ Adding = {}
  BY <1>2, <1>3 DEF Ever, Adding
<1>5. Cardinality(Ever(NewMain)) = 0
  BY <1>4, FS_EmptySet
<1>6. CountsAgree
  BY <1>2, <1>3, <1>4, <1>5 DEF CountsAgree, FilingInit
<1> QED
  BY <1>1, <1>6 DEF CountInv

LEMMA CountSteps == CountInv /\ [FilingNext]_filingVars => CountInv'
<1> SUFFICES ASSUME CountInv, [FilingNext]_filingVars PROVE CountInv'
  OBVIOUS
<1>1. FilingInv /\ FilingInv'
  BY FilingSteps DEF CountInv
<1>2. SUFFICES ASSUME ~miscounted' PROVE CountsAgree'
  BY <1>1, SMTT(30) DEF CountInv
<1>3. ~miscounted
  BY <1>2 DEF FilingNext, filingVars, StartsRun, CommitRun, AbortStart, SaveSnapshot, WriteSnapshot,
     EndRun, DropRun, RestEnds, ResetForRecording, AddRun, FailRun, FailAdd, CountRun, CloseRun,
     DeleteRun, SaveSoon, WriteMain, HomeStops, Unload, LastWrites, Gone, Restore, pastVars
<1>4. CountsAgree
  BY <1>3 DEF CountInv
<1>5. CASE \E c \in CycleIds : AddRun(c) \/ CountRun(c) \/ DeleteRun(c)
  BY <1>1, <1>2, <1>4, <1>5, AddRunCounts, CountRunCounts, DeleteRunCounts
<1>6. CASE Unload \/ Gone \/ Restore
  BY <1>1, <1>2, <1>4, <1>6, UnloadCounts, GoneCounts, RestoreCounts
<1>7. CASE \/ StartsRun \/ CommitRun \/ AbortStart \/ SaveSnapshot \/ WriteSnapshot \/ EndRun \/ DropRun
           \/ RestEnds \/ ResetForRecording \/ SaveSoon \/ WriteMain \/ LastWrites \/ HomeStops
           \/ UNCHANGED filingVars
           \/ \E c \in CycleIds : FailRun(c) \/ FailAdd(c) \/ CloseRun(c)
  BY <1>1, <1>4, <1>7, OtherCounts
<1> QED
  BY <1>5, <1>6, <1>7 DEF FilingNext

(* Between tails the odometer reads the records that were ever filed, also *)
(* when records were deleted: neither the add that moves its floor, nor a  *)
(* restart that heals it, counts a cycle twice or misses one               *)
(* (_async_process_cycle_end, get_lifetime_cycle_count, async_load).       *)
THEOREM OdometerIsExact == FilingSpec => []OdometerExact
<1>1. CountInv => OdometerExact
  <2> SUFFICES ASSUME CountInv, ~miscounted, \A c \in CycleIds : stage[c] # "adding"
               PROVE  Odometer(main) = Cardinality(Ever(main))
    BY DEF OdometerExact, Ever
  <2>1. Adding = {}
    BY DEF Adding
  <2>2. main.odo = Cardinality(Ever(main))
    BY <2>1 DEF CountInv, CountsAgree
  <2>3. main \in MainFiles /\ main.past \subseteq Filed(main)
    BY DEF CountInv, FilingInv, FilingTypeOK, BooksHold, BooksOK
  <2> QED
    BY <2>2, <2>3, OdometerReads
<1> QED
  BY <1>1, CountStarts, CountSteps, PTL DEF FilingSpec

-----------------------------------------------------------------------------
Samples == [at : Int, power : Int]

LEMMA Thresholds ==
    /\ Limit \in Nat /\ Limit \in Int /\ Bridge \in Nat /\ Quiet \in Nat /\ Active \in Nat /\ Quiet <= Active
    /\ MaxRead \in Nat /\ MaxRows \in Nat /\ MaxReadings \in Nat
BY ScanAssumption

LEMMA AppendedElements ==
    ASSUME NEW S, NEW b \in Seq(S), NEW e \in S
    PROVE  /\ Append(b, e) \in Seq(S) /\ Append(b, e) # <<>>
           /\ Len(Append(b, e)) = Len(b) + 1
           /\ DOMAIN Append(b, e) = 1..(Len(b) + 1) /\ DOMAIN b = 1..Len(b) /\ Len(b) \in Nat
           /\ \A n \in 1..Len(b) : Append(b, e)[n] = b[n]
           /\ Append(b, e)[Len(b) + 1] = e
           /\ ToSet(Append(b, e)) = ToSet(b) \union {e}
<1>1. /\ Append(b, e) \in Seq(S) /\ Append(b, e) # <<>>
      /\ Len(Append(b, e)) = Len(b) + 1
      /\ DOMAIN Append(b, e) = 1..(Len(b) + 1) /\ DOMAIN b = 1..Len(b) /\ Len(b) \in Nat
      /\ \A n \in 1..Len(b) : Append(b, e)[n] = b[n]
      /\ Append(b, e)[Len(b) + 1] = e
  BY AppendProperties, LenProperties
<1>2. ToSet(Append(b, e)) = ToSet(b) \union {e}
  BY <1>1 DEF ToSet
<1> QED BY <1>1, <1>2

LEMMA OneElement ==
    ASSUME NEW i \in Nat
    PROVE  /\ <<i>> \in Seq(Nat) /\ <<i>> # <<>> /\ <<i>>[1] = i
           /\ Len(<<i>>) = 1 /\ DOMAIN <<i>> = {1} /\ ToSet(<<i>>) = {i}
BY DEF ToSet

\* The two ends of a block, and the places it holds.
LEMMA Ends ==
    ASSUME NEW b \in Seq(Nat), b # <<>>
    PROVE  /\ Len(b) \in Nat \ {0} /\ DOMAIN b = 1..Len(b)
           /\ Last(b) = b[Len(b)] /\ Last(b) \in ToSet(b) /\ b[1] \in ToSet(b)
           /\ \A i : i \in ToSet(b) <=> \E n \in 1..Len(b) : i = b[n]
           /\ ToSet(b) \subseteq Nat
<1>1. /\ Len(b) \in Nat \ {0} /\ DOMAIN b = 1..Len(b) /\ \A n \in 1..Len(b) : b[n] \in Nat
  BY EmptySeq, LenProperties, ElementOfSeq
<1>2. Last(b) = b[Len(b)]
  BY DEF Last
<1> QED BY <1>1, <1>2 DEF ToSet

LEMMA LongerFacts ==
    ASSUME NEW c \in Seq(Nat), c # <<>>, NEW i \in Nat
    PROVE  /\ Len(c) \in Nat \ {0} /\ DOMAIN Append(c, i) = 1..(Len(c) + 1) /\ DOMAIN c = 1..Len(c)
           /\ Len(Append(c, i)) = Len(c) + 1 /\ Append(c, i) # <<>>
           /\ \A n \in 1..Len(c) : Append(c, i)[n] = c[n]
           /\ Append(c, i)[Len(c) + 1] = i /\ Append(c, i)[1] = c[1] /\ Last(Append(c, i)) = i
           /\ ToSet(Append(c, i)) = ToSet(c) \union {i}
           /\ Append(c, i) \in Seq(Nat)
<1>1. Len(c) \in Nat \ {0}
  BY Ends
<1> QED BY <1>1, AppendedElements DEF Last

-----------------------------------------------------------------------------
\* The notions of the property and the parts of the invariant as operators of values: the
\* samples s, the places p that the finder has walked, its block c, its clocks, the
\* blocks bs and the skipped stretches ss.  A step's lemmas then speak of values only.
Known(s) == {i \in DOMAIN s : s[i].power # NoValue}
Runs(s) == {i \in DOMAIN s : s[i].power >= Active}
InTime(s) == \A i, k \in DOMAIN s : i <= k => s[i].at <= s[k].at

\* A break from i to k that is too long to be bridged.
HoleIn(s, i, k) ==
    \E from, to \in Known(s) :
        /\ i <= from /\ from + 1 < to /\ to <= k
        /\ \A j \in Known(s) : ~(from < j /\ j < to)
        /\ s[to].at - s[from].at > Lesser(Limit, Bridge)

Increases(b) == \A m, n \in DOMAIN b : m < n => b[m] < b[n]
\* The readings from b's first to its last, none left out.
Spans(s, b) == /\ b # <<>> /\ Increases(b)
               /\ \A i : i \in ToSet(b) <=> i \in Known(s) /\ b[1] <= i /\ i <= Last(b)
\* Two readings of a working appliance with none between them, and when they are one run's.
Adjacent(s, i, k) == i \in Runs(s) /\ k \in Runs(s) /\ i < k /\ \A j \in Runs(s) : ~(i < j /\ j < k)
Near(s, i, k) == s[k].at - s[i].at <= Limit /\ ~HoleIn(s, i, k)
OneOf(P, i, k) == \E b \in P : i \in ToSet(b) /\ k \in ToSet(b)
LastRun(s, w, p) == w \in Runs(s) /\ w <= p /\ \A j \in Runs(s) : j <= p => j <= w

\* What is closed lies before the block being built, in order and apart, and with it
\* holds every reading walked.
PastOK(s, p, c, bs, ss) ==
    /\ \A b \in ToSet(bs) \union ToSet(ss) : Spans(s, b) /\ Last(b) <= p /\ (c # <<>> => Last(b) < c[1])
    /\ Successive(bs) /\ Successive(ss)
    /\ \A b \in ToSet(bs), d \in ToSet(ss) : \A i \in ToSet(b) : i \notin ToSet(d)
    /\ \A i \in Known(s) : i <= p => i \in ToSet(c) \/ \E b \in ToSet(bs) \union ToSet(ss) : i \in ToSet(b)

\* The block being built is whole up to here, and no hole is in it.
CurrentOK(s, p, c) ==
    /\ c = <<>> => \A i \in Known(s) : p < i
    /\ c # <<>> => /\ Increases(c)
                   /\ \A i : i \in ToSet(c) <=> i \in Known(s) /\ c[1] <= i /\ i <= p
                   /\ ~HoleIn(s, c[1], p)

\* The idle clock runs from the last working reading of the block, or from its first;
\* the quiet one is behind it; a break is open when the last place walked is one.
ClocksOK(s, p, c, idle, quiet, brk) ==
    /\ c # <<>> =>
         /\ \E a \in ToSet(c) : /\ idle = s[Last(c)].at - s[a].at
                                /\ a = c[1] \/ a \in Runs(s)
                                /\ \A k \in Runs(s) : k <= p => k <= a
         /\ 0 <= quiet /\ quiet <= idle
    /\ brk <=> p > 0 /\ p \notin Known(s)

\* The property, of the readings walked so far: what is in one of the pieces or in the
\* block being built.  And its other half: the latest working reading, once its block is
\* closed, has a hole after it or a reading beyond the threshold.
RunsOK(s, p, P, c) ==
    \A i, k : Adjacent(s, i, k) /\ k <= p => (OneOf(P \union {c}, i, k) <=> Near(s, i, k))
PartedOK(s, p, c) ==
    \A w : LastRun(s, w, p) /\ w \notin ToSet(c) =>
        HoleIn(s, w, p) \/ \E m \in Known(s) : w < m /\ m <= p /\ s[m].at - s[w].at > Limit

-----------------------------------------------------------------------------
LEMMA SampleFacts ==
    ASSUME NEW s \in Seq(Samples)
    PROVE  /\ Len(s) \in Nat /\ DOMAIN s = 1..Len(s)
           /\ \A i \in 1..Len(s) : s[i].at \in Int /\ s[i].power \in Int
           /\ \A i : i \in Known(s) <=> i \in 1..Len(s) /\ s[i].power # NoValue
           /\ \A i : i \in Runs(s) <=> i \in 1..Len(s) /\ s[i].power >= Active
           /\ Runs(s) \subseteq Known(s) /\ Known(s) \subseteq Nat
<1>1. Len(s) \in Nat /\ DOMAIN s = 1..Len(s) /\ \A i \in 1..Len(s) : s[i] \in Samples
  BY LenProperties, ElementOfSeq
<1>2. \A i \in 1..Len(s) : s[i].at \in Int /\ s[i].power \in Int
  BY <1>1 DEF Samples
<1>3. /\ \A i : i \in Known(s) <=> i \in 1..Len(s) /\ s[i].power # NoValue
      /\ \A i : i \in Runs(s) <=> i \in 1..Len(s) /\ s[i].power >= Active
  BY <1>1 DEF Known, Runs
<1>4. Runs(s) \subseteq Known(s)
  BY <1>2, <1>3, Thresholds DEF NoValue
<1> QED BY <1>1, <1>2, <1>3, <1>4

LEMMA HoleWider ==
    ASSUME NEW s \in Seq(Samples), NEW i \in Nat, NEW k \in Nat, NEW j \in Nat, NEW l \in Nat,
           HoleIn(s, i, k), j <= i, k <= l
    PROVE  HoleIn(s, j, l)
<1>1. PICK from \in Known(s), to \in Known(s) :
          /\ i <= from /\ from + 1 < to /\ to <= k
          /\ \A m \in Known(s) : ~(from < m /\ m < to)
          /\ s[to].at - s[from].at > Lesser(Limit, Bridge)
  BY DEF HoleIn
<1>2. from \in Nat /\ to \in Nat
  BY SampleFacts
<1>3. j <= from /\ to <= l
  BY <1>1, <1>2
<1> QED BY <1>1, <1>3 DEF HoleIn

LEMMA HoleAtNext ==
    ASSUME NEW s \in Seq(Samples), NEW i \in Nat, NEW p \in Nat,
           HoleIn(s, i, p + 1), ~HoleIn(s, i, p)
    PROVE  /\ p + 1 \in Known(s)
           /\ \E from \in Known(s) : /\ i <= from /\ from < p
                                     /\ \A j \in Known(s) : ~(from < j /\ j <= p)
                                     /\ s[p + 1].at - s[from].at > Lesser(Limit, Bridge)
<1>1. PICK from \in Known(s), to \in Known(s) :
          /\ i <= from /\ from + 1 < to /\ to <= p + 1
          /\ \A j \in Known(s) : ~(from < j /\ j < to)
          /\ s[to].at - s[from].at > Lesser(Limit, Bridge)
  BY DEF HoleIn
<1>2. from \in Nat /\ to \in Nat
  BY SampleFacts
<1>3. ~(to <= p)
  BY <1>1, <1>2 DEF HoleIn
<1>4. to = p + 1
  BY <1>1, <1>2, <1>3
<1> QED BY <1>1, <1>2, <1>4, SampleFacts

LEMMA CurrentEnds ==
    ASSUME NEW s \in Seq(Samples), NEW p \in Nat, NEW c \in Seq(Nat), c # <<>>, CurrentOK(s, p, c)
    PROVE  /\ Last(c) \in Known(s) /\ c[1] \in Known(s) /\ c[1] <= Last(c) /\ Last(c) <= p
           /\ \A j \in Known(s) : j <= p => j <= Last(c)
           /\ Spans(s, c)
<1>1. /\ Increases(c) /\ \A i : i \in ToSet(c) <=> i \in Known(s) /\ c[1] <= i /\ i <= p
  BY DEF CurrentOK
<1>2. /\ Last(c) \in Known(s) /\ c[1] \in Known(s) /\ c[1] <= Last(c) /\ Last(c) <= p
      /\ Last(c) \in Nat /\ c[1] \in Nat
  BY <1>1, Ends, SampleFacts
<1>3. \A j \in ToSet(c) : j <= Last(c)
  <2>1. \A n \in 1..Len(c) : n = Len(c) \/ c[n] < c[Len(c)]
    BY <1>1, Ends DEF Increases
  <2>2. TAKE j \in ToSet(c)
  <2>3. PICK n \in 1..Len(c) : j = c[n]
    BY Ends
  <2>4. j \in Nat /\ Last(c) = c[Len(c)]
    BY Ends
  <2> QED BY <2>1, <2>3, <2>4, <1>2
<1>4. \A j \in Known(s) : j <= p => j <= Last(c)
  BY <1>1, <1>2, <1>3, SampleFacts
<1>5. \A i : i \in ToSet(c) <=> i \in Known(s) /\ c[1] <= i /\ i <= Last(c)
  BY <1>1, <1>2, <1>3, SampleFacts
<1> QED BY <1>1, <1>2, <1>4, <1>5 DEF Spans

-----------------------------------------------------------------------------
\* The three conditions of a cut, at the place after p.
TornIn(s, p, c) == p \notin Known(s) /\ s[p + 1].at - s[Last(c)].at > Lesser(Limit, Bridge)
IdleIn(s, p, c, idle) == idle + s[p + 1].at - s[Last(c)].at
QuietIn(s, p, c, quiet) ==
    IF s[Last(c)].power < Quiet THEN quiet + s[p + 1].at - s[Last(c)].at ELSE 0

LEMMA SuccessiveAppend ==
    ASSUME NEW bs \in Seq(Seq(Nat)), NEW c \in Seq(Nat), Successive(bs),
           \A b \in ToSet(bs) : Last(b) < c[1]
    PROVE  Successive(Append(bs, c))
<1> DEFINE as == Append(bs, c)
<1>1. /\ DOMAIN as = 1..(Len(bs) + 1) /\ DOMAIN bs = 1..Len(bs) /\ Len(bs) \in Nat
      /\ \A n \in 1..Len(bs) : as[n] = bs[n]
      /\ as[Len(bs) + 1] = c
  BY AppendedElements
<1>2. SUFFICES ASSUME NEW m \in DOMAIN as, NEW n \in DOMAIN as, m < n
               PROVE  Last(as[m]) < as[n][1]
  BY DEF Successive
<1>3. CASE n \in 1..Len(bs)
  BY <1>1, <1>2, <1>3 DEF Successive
<1>4. CASE n = Len(bs) + 1
  <2>1. m \in 1..Len(bs)
    BY <1>1, <1>2, <1>4
  <2>2. bs[m] \in ToSet(bs)
    BY <1>1, <2>1 DEF ToSet
  <2> QED BY <1>1, <1>4, <2>1, <2>2
<1> QED BY <1>1, <1>2, <1>3, <1>4

LEMMA PieceFacts ==
    ASSUME NEW s \in Seq(Samples), NEW p \in Nat, NEW c \in Seq(Nat),
           NEW bs \in Seq(Seq(Nat)), NEW ss \in Seq(Seq(Nat)),
           PastOK(s, p, c, bs, ss)
    PROVE  \A b \in ToSet(bs) \union ToSet(ss) :
               /\ b \in Seq(Nat) /\ Last(b) \in Nat /\ Last(b) <= p
               /\ \A i \in ToSet(b) : i \in Nat /\ i <= p
<1>1. SUFFICES ASSUME NEW b \in ToSet(bs) \union ToSet(ss)
               PROVE  /\ b \in Seq(Nat) /\ Last(b) \in Nat /\ Last(b) <= p
                      /\ \A i \in ToSet(b) : i \in Nat /\ i <= p
  OBVIOUS
<1>2. b \in Seq(Nat)
  BY <1>1, LenProperties, ElementOfSeq DEF ToSet
<1>3. Spans(s, b) /\ Last(b) <= p
  BY <1>1 DEF PastOK
<1>4. Last(b) \in Nat
  BY <1>2, <1>3, Ends DEF Spans
<1>5. \A i \in ToSet(b) : i \in Nat /\ i <= Last(b)
  BY <1>3, SampleFacts DEF Spans
<1> QED BY <1>2, <1>3, <1>4, <1>5

\* Closing the block leaves the past in order, whichever of the two lists it joins.
LEMMA ClosePast ==
    ASSUME NEW s \in Seq(Samples), NEW p \in Nat, NEW c \in Seq(Nat), c # <<>>,
           NEW bs \in Seq(Seq(Nat)), NEW ss \in Seq(Seq(Nat)),
           CurrentOK(s, p, c), PastOK(s, p, c, bs, ss)
    PROVE  /\ PastOK(s, p, <<>>, Append(bs, c), ss)
           /\ PastOK(s, p, <<>>, bs, Append(ss, c))
<1>1. /\ ToSet(Append(bs, c)) = ToSet(bs) \union {c}
      /\ ToSet(Append(ss, c)) = ToSet(ss) \union {c}
  BY AppendedElements
<1>2. Spans(s, c) /\ Last(c) <= p /\ Last(c) \in Nat /\ c[1] \in Nat
  BY CurrentEnds, Ends
<1>3. \A b \in ToSet(bs) \union ToSet(ss) : Spans(s, b) /\ Last(b) <= p /\ Last(b) < c[1]
  BY DEF PastOK
<1>4. Successive(Append(bs, c)) /\ Successive(Append(ss, c)) /\ Successive(bs) /\ Successive(ss)
  BY <1>3, SuccessiveAppend DEF PastOK
<1>5. \A b \in ToSet(bs) \union ToSet(ss) : \A i \in ToSet(b) : i \notin ToSet(c)
  <2>1. SUFFICES ASSUME NEW b \in ToSet(bs) \union ToSet(ss), NEW i \in ToSet(b), i \in ToSet(c)
                 PROVE  FALSE
    OBVIOUS
  <2>2. i <= Last(b) /\ i \in Known(s)
    BY <1>3, <2>1 DEF Spans
  <2>3. c[1] <= i
    BY <1>2, <2>1 DEF Spans
  <2>4. i \in Nat /\ Last(b) \in Nat
    BY <2>1, <2>2, PieceFacts, SampleFacts
  <2> QED BY <1>2, <1>3, <2>2, <2>3, <2>4
<1>6. \A b \in ToSet(bs), d \in ToSet(ss) : \A i \in ToSet(b) : i \notin ToSet(d)
  BY DEF PastOK
<1>7. \A i \in Known(s) : i <= p => i \in ToSet(c) \/ \E b \in ToSet(bs) \union ToSet(ss) : i \in ToSet(b)
  BY DEF PastOK
<1>8. PastOK(s, p, <<>>, Append(bs, c), ss)
  <2>1. \A b \in ToSet(Append(bs, c)) \union ToSet(ss) : Spans(s, b) /\ Last(b) <= p
    BY <1>1, <1>2, <1>3
  <2>2. \A b \in ToSet(Append(bs, c)), d \in ToSet(ss) : \A i \in ToSet(b) : i \notin ToSet(d)
    BY <1>1, <1>5, <1>6
  <2>3. \A i \in Known(s) : i <= p => \E b \in ToSet(Append(bs, c)) \union ToSet(ss) : i \in ToSet(b)
    BY <1>1, <1>7
  <2> QED BY <1>4, <2>1, <2>2, <2>3 DEF PastOK
<1>9. PastOK(s, p, <<>>, bs, Append(ss, c))
  <2>1. \A b \in ToSet(bs) \union ToSet(Append(ss, c)) : Spans(s, b) /\ Last(b) <= p
    BY <1>1, <1>2, <1>3
  <2>2. \A b \in ToSet(bs), d \in ToSet(Append(ss, c)) : \A i \in ToSet(b) : i \notin ToSet(d)
    BY <1>1, <1>5, <1>6
  <2>3. \A i \in Known(s) : i <= p => \E b \in ToSet(bs) \union ToSet(Append(ss, c)) : i \in ToSet(b)
    BY <1>1, <1>7
  <2> QED BY <1>4, <2>1, <2>2, <2>3 DEF PastOK
<1> QED BY <1>8, <1>9

LEMMA StepPast ==
    ASSUME NEW s \in Seq(Samples), NEW p \in Nat, NEW c \in Seq(Nat),
           NEW bs \in Seq(Seq(Nat)), NEW ss \in Seq(Seq(Nat)),
           PastOK(s, p, c, bs, ss)
    PROVE  /\ p + 1 \notin Known(s) => PastOK(s, p + 1, c, bs, ss)
           /\ c # <<>> => PastOK(s, p + 1, Append(c, p + 1), bs, ss)
           /\ c = <<>> => PastOK(s, p + 1, <<p + 1>>, bs, ss)
<1> DEFINE pieces == ToSet(bs) \union ToSet(ss)
<1>1. \A b \in pieces : Spans(s, b) /\ Last(b) <= p + 1 /\ Last(b) < p + 1
  <2>1. \A b \in pieces : Last(b) \in Nat /\ Last(b) <= p
    BY PieceFacts
  <2>2. \A b \in pieces : Spans(s, b)
    BY DEF PastOK
  <2> QED BY <2>1, <2>2
<1>2. /\ \A b \in pieces : c # <<>> => Last(b) < c[1]
      /\ Successive(bs) /\ Successive(ss)
      /\ \A b \in ToSet(bs), d \in ToSet(ss) : \A i \in ToSet(b) : i \notin ToSet(d)
      /\ \A i \in Known(s) : i <= p => i \in ToSet(c) \/ \E b \in pieces : i \in ToSet(b)
  BY DEF PastOK
<1>3. \A i \in Known(s) : i <= p + 1 => i <= p \/ i = p + 1
  BY SampleFacts
<1>4. ASSUME p + 1 \notin Known(s) PROVE PastOK(s, p + 1, c, bs, ss)
  <2>1. \A i \in Known(s) : i <= p + 1 => i \in ToSet(c) \/ \E b \in pieces : i \in ToSet(b)
    BY <1>2, <1>3, <1>4
  <2> QED BY <1>1, <1>2, <2>1 DEF PastOK
<1>5. ASSUME c # <<>> PROVE PastOK(s, p + 1, Append(c, p + 1), bs, ss)
  <2> DEFINE longer == Append(c, p + 1)
  <2>1. longer[1] = c[1] /\ ToSet(longer) = ToSet(c) \union {p + 1} /\ longer # <<>>
    <3>1. p + 1 \in Nat
      OBVIOUS
    <3> QED BY <1>5, <3>1, LongerFacts
  <2>2. \A i \in Known(s) : i <= p + 1 => i \in ToSet(longer) \/ \E b \in pieces : i \in ToSet(b)
    BY <1>2, <1>3, <2>1
  <2>3. \A b \in pieces : Last(b) < longer[1]
    BY <1>2, <1>5, <2>1
  <2> HIDE DEF longer
  <2>4. PastOK(s, p + 1, longer, bs, ss)
    BY <1>1, <1>2, <2>2, <2>3 DEF PastOK
  <2> QED BY <2>4 DEF longer
<1>6. ASSUME c = <<>> PROVE PastOK(s, p + 1, <<p + 1>>, bs, ss)
  <2> DEFINE fresh == <<p + 1>>
  <2>1. fresh[1] = p + 1 /\ ToSet(fresh) = {p + 1} /\ ToSet(c) = {}
    BY <1>6, OneElement DEF ToSet
  <2>2. \A i \in Known(s) : i <= p + 1 => i \in ToSet(fresh) \/ \E b \in pieces : i \in ToSet(b)
    BY <1>2, <1>3, <2>1
  <2>3. \A b \in pieces : Last(b) < fresh[1]
    BY <1>1, <2>1
  <2> HIDE DEF fresh
  <2>4. PastOK(s, p + 1, fresh, bs, ss)
    BY <1>1, <1>2, <2>2, <2>3 DEF PastOK
  <2> QED BY <2>4 DEF fresh
<1> QED BY <1>4, <1>5, <1>6

LEMMA BreakSteps ==
    ASSUME NEW s \in Seq(Samples), NEW p \in Nat, NEW c \in Seq(Nat), NEW P,
           NEW idle \in Int, NEW quiet \in Int, NEW brk \in BOOLEAN,
           CurrentOK(s, p, c), ClocksOK(s, p, c, idle, quiet, brk), RunsOK(s, p, P, c), PartedOK(s, p, c),
           p + 1 \notin Known(s)
    PROVE  /\ CurrentOK(s, p + 1, c) /\ ClocksOK(s, p + 1, c, idle, quiet, TRUE)
           /\ RunsOK(s, p + 1, P, c) /\ PartedOK(s, p + 1, c)
<1>1. \A i \in Known(s) : i \in Nat /\ (i <= p + 1 <=> i <= p)
  BY SampleFacts
<1>2. Runs(s) \subseteq Known(s)
  BY SampleFacts
<1>3. CurrentOK(s, p + 1, c)
  <2>1. CASE c = <<>>
    <3>1. \A i \in Known(s) : p + 1 < i
      BY <2>1, <1>1 DEF CurrentOK
    <3> QED BY <2>1, <3>1 DEF CurrentOK
  <2>2. CASE c # <<>>
    <3>1. Increases(c) /\ (\A i : i \in ToSet(c) <=> i \in Known(s) /\ c[1] <= i /\ i <= p) /\ ~HoleIn(s, c[1], p)
      BY <2>2 DEF CurrentOK
    <3>2. \A i : i \in ToSet(c) <=> i \in Known(s) /\ c[1] <= i /\ i <= p + 1
      BY <1>1, <3>1
    <3>3. c[1] \in Nat
      BY <2>2, Ends
    <3>4. ~HoleIn(s, c[1], p + 1)
      BY <3>1, <3>3, HoleAtNext
    <3> QED BY <2>2, <3>1, <3>2, <3>4 DEF CurrentOK
  <2> QED BY <2>1, <2>2
<1>4. ClocksOK(s, p + 1, c, idle, quiet, TRUE)
  <2>1. \A a : (\A k \in Runs(s) : k <= p => k <= a) => \A k \in Runs(s) : k <= p + 1 => k <= a
    BY <1>1, <1>2
  <2> QED BY <2>1 DEF ClocksOK
<1>5. RunsOK(s, p + 1, P, c)
  <2>1. \A k \in Runs(s) : k <= p + 1 => k <= p
    BY <1>1, <1>2
  <2> QED BY <2>1 DEF RunsOK, Adjacent
<1>6. PartedOK(s, p + 1, c)
  <2>1. SUFFICES ASSUME NEW w, LastRun(s, w, p + 1), w \notin ToSet(c)
                 PROVE  HoleIn(s, w, p + 1) \/ \E m \in Known(s) : w < m /\ m <= p + 1 /\ s[m].at - s[w].at > Limit
    BY DEF PartedOK
  <2>2. LastRun(s, w, p) /\ w \in Nat
    BY <1>1, <1>2, <2>1 DEF LastRun
  <2>3. HoleIn(s, w, p) \/ \E m \in Known(s) : w < m /\ m <= p /\ s[m].at - s[w].at > Limit
    BY <2>1, <2>2 DEF PartedOK
  <2>4. HoleIn(s, w, p) => HoleIn(s, w, p + 1)
    BY <2>2, HoleWider
  <2> QED BY <2>3, <2>4, <1>1
<1> QED BY <1>3, <1>4, <1>5, <1>6

-----------------------------------------------------------------------------
LEMMA FreshCurrent ==
    ASSUME NEW s \in Seq(Samples), NEW p \in Nat, p + 1 \in Known(s)
    PROVE  CurrentOK(s, p + 1, <<p + 1>>) /\ ClocksOK(s, p + 1, <<p + 1>>, 0, 0, FALSE)
<1> DEFINE i == p + 1
           fresh == <<i>>
<1>1. i \in Nat /\ fresh \in Seq(Nat) /\ fresh # <<>> /\ fresh[1] = i /\ Last(fresh) = i
      /\ DOMAIN fresh = {1} /\ ToSet(fresh) = {i}
  BY OneElement DEF Last
<1>2. \A j \in Known(s) : j \in Nat
  BY SampleFacts
<1>3. s[i].at \in Int
  BY SampleFacts
<1> HIDE DEF fresh
<1>4. Increases(fresh)
  BY <1>1 DEF Increases
<1>5. ~HoleIn(s, i, i)
  BY <1>2 DEF HoleIn
<1>6. CurrentOK(s, i, fresh)
  BY <1>1, <1>2, <1>4, <1>5 DEF CurrentOK
<1>7. \A k \in Runs(s) : k <= i => k <= i
  OBVIOUS
<1>8. ClocksOK(s, i, fresh, 0, 0, FALSE)
  BY <1>1, <1>3, <1>7 DEF ClocksOK
<1> QED BY <1>6, <1>8 DEF fresh

LEMMA LongerCurrent ==
    ASSUME NEW s \in Seq(Samples), InTime(s), NEW p \in Nat, NEW c \in Seq(Nat), c # <<>>,
           p + 1 \in Known(s), CurrentOK(s, p, c), ~TornIn(s, p, c)
    PROVE  /\ CurrentOK(s, p + 1, Append(c, p + 1)) /\ ~HoleIn(s, c[1], p + 1)
           /\ ToSet(Append(c, p + 1)) = ToSet(c) \union {p + 1}
           /\ Append(c, p + 1)[1] = c[1] /\ Append(c, p + 1) # <<>> /\ Last(Append(c, p + 1)) = p + 1
<1> DEFINE i == p + 1
           longer == Append(c, i)
<1>1. /\ i \in Nat /\ Len(c) \in Nat \ {0} /\ DOMAIN longer = 1..(Len(c) + 1) /\ DOMAIN c = 1..Len(c)
      /\ Len(longer) = Len(c) + 1
      /\ \A n \in 1..Len(c) : longer[n] = c[n]
      /\ longer[Len(c) + 1] = i /\ longer # <<>>
      /\ ToSet(longer) = ToSet(c) \union {i}
  BY LongerFacts
<1>2. Last(longer) = i /\ longer[1] = c[1]
  BY <1>1 DEF Last
<1> HIDE DEF longer
<1>3. Increases(c) /\ (\A j : j \in ToSet(c) <=> j \in Known(s) /\ c[1] <= j /\ j <= p) /\ ~HoleIn(s, c[1], p)
  BY DEF CurrentOK
<1>4. \A j \in Known(s) : j \in Nat
  BY SampleFacts
<1>5. c[1] \in Nat /\ c[1] <= p /\ Last(c) \in Nat /\ Last(c) <= p /\ Last(c) \in Known(s)
  BY CurrentEnds, Ends
<1>6. \A n \in 1..Len(c) : c[n] \in Nat /\ c[n] <= p
  BY <1>3, <1>4, Ends
<1>7. Increases(longer)
  <2>1. SUFFICES ASSUME NEW m \in 1..(Len(c) + 1), NEW n \in 1..(Len(c) + 1), m < n
                 PROVE  longer[m] < longer[n]
    BY <1>1 DEF Increases
  <2>2. m \in 1..Len(c) /\ (n \in 1..Len(c) \/ n = Len(c) + 1)
    BY <1>1, <2>1
  <2>3. CASE n \in 1..Len(c)
    BY <1>1, <1>3, <2>1, <2>2, <2>3 DEF Increases
  <2>4. CASE n = Len(c) + 1
    <3>1. longer[m] \in Nat /\ longer[m] <= p /\ longer[n] = p + 1
      BY <1>1, <1>6, <2>2, <2>4
    <3> QED BY <3>1
  <2> QED BY <2>2, <2>3, <2>4
<1>8. \A j : j \in ToSet(longer) <=> j \in Known(s) /\ longer[1] <= j /\ j <= i
  <2>1. \A j \in Known(s) : j <= i <=> j <= p \/ j = i
    BY <1>4
  <2>2. c[1] <= i
    BY <1>5
  <2> QED BY <1>1, <1>2, <1>3, <2>1, <2>2
<1>9. ~HoleIn(s, c[1], i)
  <2>1. SUFFICES ASSUME HoleIn(s, c[1], i) PROVE FALSE
    OBVIOUS
  <2>2. PICK from \in Known(s) : /\ c[1] <= from /\ from < p
                                 /\ \A j \in Known(s) : ~(from < j /\ j <= p)
                                 /\ s[i].at - s[from].at > Lesser(Limit, Bridge)
    BY <1>3, <1>5, <2>1, HoleAtNext
  <2>3. from = Last(c)
    BY <1>4, <1>5, <2>2, CurrentEnds
  <2>4. p \notin Known(s)
    BY <2>2, <1>4
  <2> QED BY <2>2, <2>3, <2>4 DEF TornIn
<1>10. CurrentOK(s, i, longer)
  BY <1>1, <1>2, <1>7, <1>8, <1>9 DEF CurrentOK
<1> QED BY <1>1, <1>2, <1>9, <1>10 DEF longer

\* The clock of a run started at the last run of the block, or at its first reading.
\* A working reading of the block is what the idle clock runs from.
LEMMA AnchorIsRun ==
    ASSUME NEW s \in Seq(Samples), NEW p \in Nat, NEW c \in Seq(Nat), c # <<>>,
           NEW idle \in Int, NEW quiet \in Int, NEW brk, NEW w,
           CurrentOK(s, p, c), ClocksOK(s, p, c, idle, quiet, brk), LastRun(s, w, p), w \in ToSet(c)
    PROVE  idle = s[Last(c)].at - s[w].at
<1>1. PICK a \in ToSet(c) : /\ idle = s[Last(c)].at - s[a].at
                            /\ a = c[1] \/ a \in Runs(s)
                            /\ \A k \in Runs(s) : k <= p => k <= a
  BY DEF ClocksOK
<1>2. w \in Runs(s) /\ w <= p /\ \A j \in Runs(s) : j <= p => j <= w
  BY DEF LastRun
<1>3. \A j \in ToSet(c) : j \in Nat /\ c[1] <= j /\ j <= p
  BY Ends DEF CurrentOK
<1>4. w <= a /\ a \in Nat /\ w \in Nat
  BY <1>1, <1>2, <1>3
<1>5. a <= w
  BY <1>1, <1>2, <1>3
<1>6. a = w
  BY <1>4, <1>5
<1> QED BY <1>1, <1>6

LEMMA LongerClocks ==
    ASSUME NEW s \in Seq(Samples), InTime(s), NEW p \in Nat, NEW c \in Seq(Nat), c # <<>>,
           NEW idle \in Int, NEW quiet \in Int, NEW brk,
           p + 1 \in Known(s), CurrentOK(s, p, c), ClocksOK(s, p, c, idle, quiet, brk),
           NEW newIdle, newIdle = IF s[p + 1].power >= Active THEN 0 ELSE IdleIn(s, p, c, idle),
           NEW newQuiet, newQuiet = IF s[p + 1].power >= Quiet THEN 0 ELSE QuietIn(s, p, c, quiet)
    PROVE  /\ ClocksOK(s, p + 1, Append(c, p + 1), newIdle, newQuiet, FALSE)
           /\ newIdle \in Int /\ newQuiet \in Int
           /\ QuietIn(s, p, c, quiet) > Limit => IdleIn(s, p, c, idle) > Limit
<1> DEFINE i == p + 1
           longer == Append(c, i)
           gap == s[i].at - s[Last(c)].at
<1>1. PICK a \in ToSet(c) : /\ idle = s[Last(c)].at - s[a].at
                            /\ a = c[1] \/ a \in Runs(s)
                            /\ \A k \in Runs(s) : k <= p => k <= a
  BY DEF ClocksOK
<1>2. 0 <= quiet /\ quiet <= idle
  BY DEF ClocksOK
<1>3. \A j \in ToSet(c) : j \in Known(s) /\ j \in Nat /\ j <= p
  BY Ends DEF CurrentOK
<1>4. i \in Nat /\ longer[1] = c[1] /\ Last(longer) = i /\ ToSet(longer) = ToSet(c) \union {i} /\ longer # <<>>
  <2>1. i \in Nat
    OBVIOUS
  <2> QED BY <2>1, LongerFacts
<1>5. Last(c) \in Known(s) /\ Last(c) <= p /\ Last(c) \in Nat
  BY CurrentEnds, SampleFacts
<1>6. gap \in Int /\ gap >= 0 /\ s[i].at \in Int /\ s[Last(c)].at \in Int /\ s[a].at \in Int /\ s[i].power \in Int
      /\ s[Last(c)].power \in Int
  <2>1. i \in 1..Len(s) /\ Last(c) \in 1..Len(s) /\ a \in 1..Len(s) /\ DOMAIN s = 1..Len(s)
    BY <1>1, <1>3, <1>5, SampleFacts
  <2>2. s[i].at \in Int /\ s[Last(c)].at \in Int /\ s[a].at \in Int /\ s[i].power \in Int /\ s[Last(c)].power \in Int
    BY <2>1, SampleFacts
  <2>3. s[Last(c)].at <= s[i].at
    BY <2>1, <1>4, <1>5 DEF InTime
  <2> QED BY <2>2, <2>3, SMTT(30)
<1>7. IdleIn(s, p, c, idle) = idle + gap /\ IdleIn(s, p, c, idle) = s[i].at - s[a].at
  <2> DEFINE now == s[i].at
             then == s[Last(c)].at
             from == s[a].at
  <2>1. now \in Int /\ then \in Int /\ from \in Int
    BY <1>6
  <2>2. idle = then - from
    BY <1>1
  <2>3. IdleIn(s, p, c, idle) = idle + now - then
    BY DEF IdleIn
  <2> HIDE DEF now, then, from
  <2>4. idle + now - then = idle + (now - then) /\ idle + now - then = now - from
    BY <2>1, <2>2
  <2> QED BY <2>3, <2>4 DEF now, then, from
<1>8. QuietIn(s, p, c, quiet) \in Int /\ 0 <= QuietIn(s, p, c, quiet) /\ QuietIn(s, p, c, quiet) <= IdleIn(s, p, c, idle)
  <2>1. QuietIn(s, p, c, quiet) = quiet + gap \/ QuietIn(s, p, c, quiet) = 0
    <3> DEFINE now == s[i].at
               then == s[Last(c)].at
    <3>1. now \in Int /\ then \in Int
      BY <1>6
    <3>2. QuietIn(s, p, c, quiet) = quiet + now - then \/ QuietIn(s, p, c, quiet) = 0
      BY DEF QuietIn
    <3> HIDE DEF now, then
    <3>3. quiet + now - then = quiet + (now - then)
      BY <3>1
    <3> QED BY <3>2, <3>3 DEF now, then
  <2>2. gap \in Int /\ gap >= 0 /\ IdleIn(s, p, c, idle) = idle + gap
    BY <1>6, <1>7
  <2> HIDE DEF gap
  <2> QED BY <1>2, <2>1, <2>2
<1> HIDE DEF longer, gap
<1>9. newIdle \in Int /\ newQuiet \in Int /\ 0 <= newQuiet /\ newQuiet <= newIdle
  <2>1. {Quiet, Active} \subseteq Int /\ Quiet <= Active
    BY Thresholds
  <2>2. IdleIn(s, p, c, idle) \in Int
    BY <1>6, <1>7
  <2>3. CASE s[i].power >= Active
    BY <1>6, <2>1, <2>3, SMTT(30)
  <2>4. CASE ~(s[i].power >= Active)
    BY <1>6, <1>8, <2>2, <2>4, SMTT(30)
  <2> QED BY <2>3, <2>4
<1>10. \E b \in ToSet(longer) : /\ newIdle = s[Last(longer)].at - s[b].at
                                /\ b = longer[1] \/ b \in Runs(s)
                                /\ \A k \in Runs(s) : k <= i => k <= b
  <2>1. CASE s[i].power >= Active
    <3>1. i \in Runs(s) /\ \A k \in Runs(s) : k <= i => k <= i
      BY <2>1, SampleFacts
    <3>2. newIdle = s[Last(longer)].at - s[i].at
      BY <1>4, <1>6, <2>1
    <3> QED BY <1>4, <3>1, <3>2
  <2>2. CASE ~(s[i].power >= Active)
    <3>1. \A k \in Runs(s) : k <= i => k <= p
      BY <2>2, SampleFacts
    <3>2. newIdle = s[Last(longer)].at - s[a].at
      BY <1>4, <1>7, <2>2
    <3> QED BY <1>1, <1>4, <3>1, <3>2
  <2> QED BY <2>1, <2>2
<1>11. ClocksOK(s, i, longer, newIdle, newQuiet, FALSE)
  BY <1>4, <1>9, <1>10 DEF ClocksOK
<1>12. QuietIn(s, p, c, quiet) > Limit => IdleIn(s, p, c, idle) > Limit
  BY <1>6, <1>7, <1>8, Thresholds
<1> QED BY <1>9, <1>11, <1>12 DEF longer

LEMMA LastBefore ==
    ASSUME NEW s \in Seq(Samples), NEW p \in Nat, NEW w, NEW k
    PROVE  /\ Adjacent(s, w, k) /\ k <= p + 1 =>
                 /\ w \in Nat /\ k \in Nat /\ w <= p
                 /\ k <= p \/ (k = p + 1 /\ LastRun(s, w, p))
           /\ LastRun(s, w, p + 1) /\ w # p + 1 => LastRun(s, w, p) /\ w \in Nat
<1>1. \A j \in Runs(s) : j \in Nat
  BY SampleFacts
<1>2. ASSUME Adjacent(s, w, k), k <= p + 1
      PROVE  /\ w \in Nat /\ k \in Nat /\ w <= p
             /\ k <= p \/ (k = p + 1 /\ LastRun(s, w, p))
  <2>1. /\ w \in Runs(s) /\ k \in Runs(s) /\ w < k /\ \A j \in Runs(s) : ~(w < j /\ j < k)
    BY <1>2 DEF Adjacent
  <2>2. w \in Nat /\ k \in Nat /\ w <= p
    BY <1>1, <1>2, <2>1
  <2>3. ASSUME k = p + 1 PROVE LastRun(s, w, p)
    BY <1>1, <2>1, <2>2, <2>3 DEF LastRun
  <2> QED BY <1>2, <2>2, <2>3
<1>3. ASSUME LastRun(s, w, p + 1), w # p + 1 PROVE LastRun(s, w, p) /\ w \in Nat
  BY <1>1, <1>3 DEF LastRun
<1> QED BY <1>2, <1>3

\* A run parted from the block stays parted from what comes after.
LEMMA StaysParted ==
    ASSUME NEW s \in Seq(Samples), InTime(s), NEW p \in Nat, NEW c, NEW w,
           PartedOK(s, p, c), LastRun(s, w, p), w \notin ToSet(c), p + 1 \in Known(s)
    PROVE  /\ HoleIn(s, w, p + 1) \/ \E m \in Known(s) : w < m /\ m <= p + 1 /\ s[m].at - s[w].at > Limit
           /\ ~Near(s, w, p + 1)
<1>1. HoleIn(s, w, p) \/ \E m \in Known(s) : w < m /\ m <= p /\ s[m].at - s[w].at > Limit
  BY DEF PartedOK
<1>2. w \in Nat /\ w \in Known(s) /\ w \in DOMAIN s /\ s[w].at \in Int
  BY SampleFacts DEF LastRun
<1>3. CASE HoleIn(s, w, p)
  <2>1. HoleIn(s, w, p + 1)
    BY <1>2, <1>3, HoleWider
  <2> QED BY <2>1 DEF Near
<1>4. ASSUME NEW m \in Known(s), w < m, m <= p, s[m].at - s[w].at > Limit
      PROVE  m <= p + 1 /\ s[p + 1].at - s[w].at > Limit
  <2>1. m \in DOMAIN s /\ p + 1 \in DOMAIN s /\ s[m].at \in Int /\ s[p + 1].at \in Int /\ m <= p + 1
    BY <1>4, SampleFacts
  <2>2. s[m].at <= s[p + 1].at
    BY <2>1 DEF InTime
  <2> QED BY <1>2, <1>4, <2>1, <2>2, Thresholds
<1>5. CASE \E m \in Known(s) : w < m /\ m <= p /\ s[m].at - s[w].at > Limit
  <2>1. PICK m \in Known(s) : w < m /\ m <= p /\ s[m].at - s[w].at > Limit
    BY <1>5
  <2>2. m <= p + 1 /\ s[p + 1].at - s[w].at > Limit
    BY <1>4, <2>1
  <2>3. s[p + 1].at \in Int /\ Limit \in Int
    BY SampleFacts, Thresholds
  <2> QED BY <1>2, <2>1, <2>2, <2>3 DEF Near
<1> QED BY <1>1, <1>3, <1>5

\* A block that is not cut stays one run: no hole, no idle time beyond the threshold.
LEMMA LongerRuns ==
    ASSUME NEW s \in Seq(Samples), InTime(s), NEW p \in Nat, NEW c \in Seq(Nat), c # <<>>, NEW P,
           NEW idle \in Int, NEW quiet \in Int, NEW brk,
           p + 1 \in Known(s), CurrentOK(s, p, c), ClocksOK(s, p, c, idle, quiet, brk),
           RunsOK(s, p, P, c), PartedOK(s, p, c), \A b \in P : \A j \in ToSet(b) : j \in Nat /\ j <= p,
           ~TornIn(s, p, c), ~(IdleIn(s, p, c, idle) > Limit)
    PROVE  RunsOK(s, p + 1, P, Append(c, p + 1)) /\ PartedOK(s, p + 1, Append(c, p + 1))
<1> DEFINE i == p + 1
           longer == Append(c, i)
<1>1. ToSet(longer) = ToSet(c) \union {i} /\ i \in Nat
  BY LongerCurrent
<1>2. ~HoleIn(s, c[1], i)
  BY LongerCurrent
<1>3. \A j \in ToSet(c) : j \in Nat /\ c[1] <= j /\ j <= p
  BY Ends DEF CurrentOK
<1>4. c[1] \in Nat
  BY Ends
<1> HIDE DEF longer
<1>5. ASSUME NEW w, NEW k, Adjacent(s, w, k), k <= i
      PROVE  OneOf(P \union {longer}, w, k) <=> Near(s, w, k)
  <2>1. /\ w \in Nat /\ k \in Nat /\ w <= p
        /\ k <= p \/ (k = i /\ LastRun(s, w, p))
    BY <1>5, LastBefore
  <2>2. CASE k <= p
    <3>1. w # i /\ k # i
      BY <2>1, <2>2
    <3>2. OneOf(P \union {longer}, w, k) <=> OneOf(P \union {c}, w, k)
      BY <1>1, <3>1 DEF OneOf
    <3> QED BY <1>5, <2>2, <3>2 DEF RunsOK
  <2>3. CASE k = i /\ LastRun(s, w, p) /\ w \in ToSet(c)
    <3>1. OneOf(P \union {longer}, w, k)
      BY <1>1, <2>3 DEF OneOf
    <3>2. idle = s[Last(c)].at - s[w].at
      BY <2>3, AnchorIsRun
    <3>3. s[k].at - s[w].at <= Limit
      <4> DEFINE now == s[i].at
                 then == s[Last(c)].at
                 from == s[w].at
      <4>1. now \in Int /\ then \in Int /\ from \in Int /\ Limit \in Int
        <5>1. i \in 1..Len(s) /\ Last(c) \in 1..Len(s) /\ w \in 1..Len(s)
          BY <2>3, CurrentEnds, SampleFacts DEF LastRun
        <5> QED BY <5>1, SampleFacts, Thresholds
      <4>2. ~(idle + now - then > Limit)
        BY DEF IdleIn
      <4>3. idle = then - from
        BY <3>2
      <4> HIDE DEF now, then, from
      <4>4. now - from <= Limit
        BY <4>1, <4>2, <4>3
      <4> QED BY <4>4, <2>3 DEF now, from
    <3>4. ~HoleIn(s, w, k)
      BY <1>1, <1>2, <1>3, <1>4, <2>1, <2>3, HoleWider
    <3> QED BY <3>1, <3>3, <3>4 DEF Near
  <2>4. CASE k = i /\ LastRun(s, w, p) /\ w \notin ToSet(c)
    <3>1. w # i /\ ~(i <= p)
      BY <2>1
    <3>2. w \notin ToSet(longer) /\ \A b \in P : i \notin ToSet(b)
      BY <1>1, <2>4, <3>1
    <3>3. ~OneOf(P \union {longer}, w, k)
      BY <2>4, <3>2 DEF OneOf
    <3>4. ~Near(s, w, i)
      BY <2>4, StaysParted
    <3> QED BY <2>4, <3>3, <3>4
  <2> QED BY <2>1, <2>2, <2>3, <2>4
<1>6. ASSUME NEW w, LastRun(s, w, i), w \notin ToSet(longer)
      PROVE  HoleIn(s, w, i) \/ \E m \in Known(s) : w < m /\ m <= i /\ s[m].at - s[w].at > Limit
  <2>1. w # i /\ w \notin ToSet(c)
    BY <1>1, <1>6
  <2>2. LastRun(s, w, p)
    BY <1>6, <2>1, LastBefore
  <2> QED BY <2>1, <2>2, StaysParted
<1>7. RunsOK(s, i, P, longer)
  BY <1>5 DEF RunsOK
<1>8. PartedOK(s, i, longer)
  BY <1>6 DEF PartedOK
<1> QED BY <1>7, <1>8 DEF longer

\* Where a block is cut, the run it ends with and what follows are apart.
LEMMA CutParts ==
    ASSUME NEW s \in Seq(Samples), NEW p \in Nat, NEW c \in Seq(Nat), c # <<>>,
           NEW idle \in Int, NEW quiet \in Int, NEW brk,
           p + 1 \in Known(s), CurrentOK(s, p, c), ClocksOK(s, p, c, idle, quiet, brk),
           TornIn(s, p, c) \/ IdleIn(s, p, c, idle) > Limit,
           NEW w, LastRun(s, w, p), w \in ToSet(c)
    PROVE  HoleIn(s, w, p + 1) \/ s[p + 1].at - s[w].at > Limit
<1>1. w \in Nat /\ w <= Last(c) /\ w \in Known(s) /\ Last(c) \in Known(s) /\ Last(c) <= p /\ Last(c) \in Nat
      /\ \A j \in Known(s) : j <= p => j <= Last(c)
  BY CurrentEnds, SampleFacts DEF LastRun
<1>2. CASE TornIn(s, p, c)
  <2>1. p \notin Known(s) /\ s[p + 1].at - s[Last(c)].at > Lesser(Limit, Bridge)
    BY <1>2 DEF TornIn
  <2>2. Last(c) # p
    BY <1>1, <2>1
  <2>3. Last(c) + 1 < p + 1
    BY <1>1, <2>2
  <2>4. \A j \in Known(s) : ~(Last(c) < j /\ j < p + 1)
    BY <1>1, SampleFacts
  <2>5. w <= Last(c) /\ Last(c) \in Known(s) /\ p + 1 \in Known(s) /\ p + 1 <= p + 1
    BY <1>1
  <2>6. HoleIn(s, w, p + 1)
    BY <2>1, <2>3, <2>4, <2>5 DEF HoleIn
  <2> QED BY <2>6
<1>3. CASE IdleIn(s, p, c, idle) > Limit
  <2> DEFINE now == s[p + 1].at
             then == s[Last(c)].at
             from == s[w].at
  <2>1. now \in Int /\ then \in Int /\ from \in Int /\ Limit \in Int
    <3>1. p + 1 \in 1..Len(s) /\ Last(c) \in 1..Len(s) /\ w \in 1..Len(s)
      BY <1>1, SampleFacts
    <3> QED BY <3>1, SampleFacts, Thresholds
  <2>2. idle + now - then > Limit
    BY <1>3 DEF IdleIn
  <2>3. idle = then - from
    BY AnchorIsRun
  <2> HIDE DEF now, then, from
  <2>4. now - from > Limit
    BY <2>1, <2>2, <2>3
  <2> QED BY <2>4 DEF now, from
<1> QED BY <1>2, <1>3

\* A cut parts no run: a hole or the threshold lies between the readings on its sides.
LEMMA CutRuns ==
    ASSUME NEW s \in Seq(Samples), InTime(s), NEW p \in Nat, NEW c \in Seq(Nat), c # <<>>, NEW P,
           NEW idle \in Int, NEW quiet \in Int, NEW brk,
           p + 1 \in Known(s), CurrentOK(s, p, c), ClocksOK(s, p, c, idle, quiet, brk),
           RunsOK(s, p, P, c), PartedOK(s, p, c), \A b \in P : \A j \in ToSet(b) : j \in Nat /\ j <= p,
           TornIn(s, p, c) \/ IdleIn(s, p, c, idle) > Limit
    PROVE  RunsOK(s, p + 1, P \union {c}, <<p + 1>>) /\ PartedOK(s, p + 1, <<p + 1>>)
<1> DEFINE i == p + 1
           fresh == <<i>>
<1>1. ToSet(fresh) = {i} /\ i \in Nat
  BY OneElement
<1>2. \A j \in ToSet(c) : j \in Nat /\ c[1] <= j /\ j <= p
  BY Ends DEF CurrentOK
<1>3. ASSUME NEW w, LastRun(s, w, p)
      PROVE  /\ HoleIn(s, w, i) \/ \E m \in Known(s) : w < m /\ m <= i /\ s[m].at - s[w].at > Limit
             /\ ~Near(s, w, i)
  <2>1. CASE w \in ToSet(c)
    <3>1. w \in Nat /\ w < i /\ i <= i /\ i \in Known(s)
      BY <2>1, <1>2
    <3>2. HoleIn(s, w, i) \/ s[i].at - s[w].at > Limit
      BY <1>3, <2>1, CutParts
    <3>3. s[i].at \in Int /\ s[w].at \in Int /\ Limit \in Int
      BY <1>3, SampleFacts, Thresholds DEF LastRun
    <3> QED BY <3>1, <3>2, <3>3 DEF Near
  <2>2. CASE w \notin ToSet(c)
    BY <1>3, <2>2, StaysParted
  <2> QED BY <2>1, <2>2
<1> HIDE DEF fresh
<1>4. ASSUME NEW w, NEW k, Adjacent(s, w, k), k <= i
      PROVE  OneOf((P \union {c}) \union {fresh}, w, k) <=> Near(s, w, k)
  <2>1. /\ w \in Nat /\ k \in Nat /\ w <= p
        /\ k <= p \/ (k = i /\ LastRun(s, w, p))
    BY <1>4, LastBefore
  <2>2. CASE k <= p
    <3>1. w # i
      BY <2>1
    <3>2. OneOf((P \union {c}) \union {fresh}, w, k) <=> OneOf(P \union {c}, w, k)
      BY <1>1, <3>1 DEF OneOf
    <3> QED BY <1>4, <2>2, <3>2 DEF RunsOK
  <2>3. CASE k = i /\ LastRun(s, w, p)
    <3>1. w # i /\ ~(i <= p)
      BY <2>1
    <3>2. w \notin ToSet(fresh) /\ \A b \in P \union {c} : i \notin ToSet(b)
      BY <1>1, <1>2, <3>1
    <3>3. ~OneOf((P \union {c}) \union {fresh}, w, k)
      BY <2>3, <3>2 DEF OneOf
    <3>4. ~Near(s, w, i)
      BY <2>3, <1>3
    <3> QED BY <2>3, <3>3, <3>4
  <2> QED BY <2>1, <2>2, <2>3
<1>5. ASSUME NEW w, LastRun(s, w, i), w \notin ToSet(fresh)
      PROVE  HoleIn(s, w, i) \/ \E m \in Known(s) : w < m /\ m <= i /\ s[m].at - s[w].at > Limit
  <2>1. w # i
    BY <1>1, <1>5
  <2>2. LastRun(s, w, p)
    BY <1>5, <2>1, LastBefore
  <2> QED BY <2>2, <1>3
<1>6. RunsOK(s, i, P \union {c}, fresh)
  BY <1>4 DEF RunsOK
<1>7. PartedOK(s, i, fresh)
  BY <1>5 DEF PartedOK
<1> QED BY <1>6, <1>7 DEF fresh

LEMMA FirstRuns ==
    ASSUME NEW s \in Seq(Samples), NEW p \in Nat, NEW P,
           p + 1 \in Known(s), CurrentOK(s, p, <<>>)
    PROVE  RunsOK(s, p + 1, P, <<p + 1>>) /\ PartedOK(s, p + 1, <<p + 1>>)
<1>1. \A j \in Known(s) : j \in Nat /\ p < j
  BY SampleFacts DEF CurrentOK
<1>2. Runs(s) \subseteq Known(s)
  BY SampleFacts
<1>3. ASSUME NEW w, NEW k, Adjacent(s, w, k), k <= p + 1 PROVE FALSE
  BY <1>1, <1>2, <1>3 DEF Adjacent
<1>4. ASSUME NEW w, LastRun(s, w, p + 1), w \notin ToSet(<<p + 1>>) PROVE FALSE
  <2>1. w = p + 1
    BY <1>1, <1>2, <1>4 DEF LastRun
  <2>2. p + 1 \in ToSet(<<p + 1>>)
    BY OneElement
  <2> QED BY <1>4, <2>1, <2>2
<1>5. RunsOK(s, p + 1, P, <<p + 1>>)
  BY <1>3 DEF RunsOK
<1>6. PartedOK(s, p + 1, <<p + 1>>)
  BY <1>4 DEF PartedOK
<1> QED BY <1>5, <1>6

-----------------------------------------------------------------------------
FileRows == [entity : STRING, at : Int, power : Int]

LEMMA FileFacts ==
    ASSUME NEW f \in Seq(FileRows)
    PROVE  /\ Len(f) \in Nat /\ DOMAIN f = 1..Len(f)
           /\ \A i \in 1..Len(f) : f[i].at \in Int /\ f[i].power \in Int
<1>1. Len(f) \in Nat /\ DOMAIN f = 1..Len(f) /\ \A i \in 1..Len(f) : f[i] \in FileRows
  BY LenProperties, ElementOfSeq
<1> QED BY <1>1 DEF FileRows

LEMMA FirstsFinite ==
    ASSUME NEW f \in Seq(FileRows), NEW K \in SUBSET (1..Len(f))
    PROVE  /\ IsFiniteSet(Firsts(f, K)) /\ Cardinality(Firsts(f, K)) \in Nat
           /\ Firsts(f, K) \subseteq K
           /\ \A i, k \in Firsts(f, K) : i < k => f[i].at # f[k].at
           /\ K \subseteq Nat
<1>1. Len(f) \in Nat
  BY FileFacts
<1>2. IsFiniteSet(1..Len(f))
  BY <1>1, FS_Interval
<1>3. IsFiniteSet(K)
  BY <1>2, FS_Subset
<1>4. Firsts(f, K) \in SUBSET K
  BY DEF Firsts
<1>5. \A i, k \in Firsts(f, K) : i < k => f[i].at # f[k].at
  BY DEF Firsts
<1>6. IsFiniteSet(Firsts(f, K))
  BY <1>3, <1>4, FS_Subset
<1> HIDE DEF Firsts
<1> QED BY <1>1, <1>4, <1>5, <1>6, FS_CardinalityType

\* The samples of an export are in order: the rank of a row among the first ones of their
\* times rises with its time, takes every value up to their number once, so that the n-th
\* exists (the pigeonhole principle for a rank that is one to one).
Rank(f, K) == [i \in Firsts(f, K) |-> Cardinality(UpTo(f, K, i))]

LEMMA RankRises ==
    ASSUME NEW f \in Seq(FileRows), NEW K \in SUBSET (1..Len(f)),
           NEW i \in Firsts(f, K), NEW k \in Firsts(f, K), f[i].at < f[k].at
    PROVE  Cardinality(UpTo(f, K, i)) < Cardinality(UpTo(f, K, k))
<1> DEFINE below == UpTo(f, K, i)
           wider == UpTo(f, K, k)
<1>1. IsFiniteSet(Firsts(f, K)) /\ Firsts(f, K) \subseteq K
  BY FirstsFinite
<1>2. IsFiniteSet(wider) /\ wider \subseteq Firsts(f, K) /\ k \in wider /\ k \notin below
  <2>1. wider \subseteq Firsts(f, K) /\ IsFiniteSet(Firsts(f, K))
    BY <1>1, FS_Subset DEF UpTo
  <2>2. f[i].at \in Int /\ f[k].at \in Int
    BY <1>1, FileFacts
  <2> QED BY <2>1, <2>2, FS_Subset DEF UpTo
<1>3. below \subseteq wider
  <2>1. SUFFICES ASSUME NEW m \in below PROVE m \in wider
    OBVIOUS
  <2>2. m \in Firsts(f, K) /\ f[m].at <= f[i].at
    BY DEF UpTo
  <2>3. f[m].at \in Int /\ f[i].at \in Int /\ f[k].at \in Int
    BY <2>2, <1>1, FileFacts
  <2> QED BY <2>2, <2>3 DEF UpTo
<1> HIDE DEF below, wider
<1>4. Cardinality(below) <= Cardinality(wider) /\ (Cardinality(wider) = Cardinality(below) => wider = below)
      /\ Cardinality(below) \in Nat /\ Cardinality(wider) \in Nat
  BY <1>2, <1>3, FS_Subset, FS_CardinalityType
<1>5. Cardinality(below) < Cardinality(wider)
  BY <1>2, <1>4
<1> QED BY <1>5 DEF below, wider

LEMMA NthExists ==
    ASSUME NEW f \in Seq(FileRows), NEW K \in SUBSET (1..Len(f))
    PROVE  /\ Cardinality(Firsts(f, K)) \in Nat /\ Firsts(f, K) \subseteq K
           /\ K = {} => Cardinality(Firsts(f, K)) = 0
           /\ \A n \in 1..Cardinality(Firsts(f, K)) :
                  /\ Nth(f, K, n) \in Firsts(f, K)
                  /\ Cardinality(UpTo(f, K, Nth(f, K, n))) = n
<1> DEFINE F == Firsts(f, K)
           N == Cardinality(F)
           g == Rank(f, K)
<1>1. IsFiniteSet(F) /\ N \in Nat /\ F \subseteq K
  BY FirstsFinite
<1>2. \A i \in F : Cardinality(UpTo(f, K, i)) \in 1..N
  <2>1. SUFFICES ASSUME NEW i \in F PROVE Cardinality(UpTo(f, K, i)) \in 1..N
    OBVIOUS
  <2>2. f[i].at \in Int
    BY <1>1, FileFacts
  <2>3. UpTo(f, K, i) \in SUBSET F /\ i \in UpTo(f, K, i)
    BY <2>2 DEF UpTo
  <2>4. IsFiniteSet(UpTo(f, K, i)) /\ Cardinality(UpTo(f, K, i)) <= N /\ Cardinality(UpTo(f, K, i)) \in Nat
    BY <1>1, <2>3, FS_Subset, FS_CardinalityType
  <2>5. Cardinality(UpTo(f, K, i)) # 0
    BY <2>3, <2>4, FS_EmptySet
  <2> QED BY <1>1, <2>4, <2>5
<1>3. \A i, k \in F : i # k => f[i].at # f[k].at
  <2>1. \A i, k \in F : i < k => f[i].at # f[k].at
    BY FirstsFinite
  <2>2. \A i, k \in F : i # k => i < k \/ k < i
    <3>1. \A i \in F : i \in Nat
      BY FirstsFinite
    <3> QED BY <3>1
  <2> QED BY <2>1, <2>2
<1>4. \A i, k \in F : i # k => Cardinality(UpTo(f, K, i)) # Cardinality(UpTo(f, K, k))
  <2>1. SUFFICES ASSUME NEW i \in F, NEW k \in F, i # k
                 PROVE  Cardinality(UpTo(f, K, i)) # Cardinality(UpTo(f, K, k))
    OBVIOUS
  <2>2. f[i].at \in Int /\ f[k].at \in Int /\ f[i].at # f[k].at
    BY <1>1, <1>3, <2>1, FileFacts
  <2>3. f[i].at < f[k].at \/ f[k].at < f[i].at
    BY <2>2
  <2>4. Cardinality(UpTo(f, K, i)) \in Nat /\ Cardinality(UpTo(f, K, k)) \in Nat
    BY <1>1, <1>2
  <2>5. ASSUME f[i].at < f[k].at PROVE Cardinality(UpTo(f, K, i)) < Cardinality(UpTo(f, K, k))
    BY <2>5, RankRises
  <2>6. ASSUME f[k].at < f[i].at PROVE Cardinality(UpTo(f, K, k)) < Cardinality(UpTo(f, K, i))
    BY <2>6, RankRises
  <2> QED BY <2>3, <2>4, <2>5, <2>6
<1>5. /\ DOMAIN g = F /\ \A i \in F : g[i] = Cardinality(UpTo(f, K, i))
      /\ g \in [F -> 1..N]
  BY <1>2 DEF Rank
<1> HIDE DEF g
<1>6. g \in Injection(F, 1..N)
  BY <1>4, <1>5 DEF Injection, IsInjective
<1>7. IsFiniteSet(1..N) /\ Cardinality(1..N) = N
  BY <1>1, FS_Interval
<1>8. g \in Surjection(F, 1..N)
  BY <1>6, <1>7, FS_Injection
<1>9. \A n \in 1..N : \E i \in F : Cardinality(UpTo(f, K, i)) = n
  BY <1>5, <1>8 DEF Surjection
<1>10. K = {} => N = 0
  BY <1>1, FS_EmptySet
<1>11. \A n \in 1..N : Nth(f, K, n) \in F /\ Cardinality(UpTo(f, K, Nth(f, K, n))) = n
  BY <1>9 DEF Nth
<1> QED BY <1>1, <1>10, <1>11

LEMMA OrderedInTime ==
    ASSUME NEW f \in Seq(FileRows), NEW K \in SUBSET (1..Len(f))
    PROVE  /\ Ordered(f, K) \in Seq(Samples) /\ InTime(Ordered(f, K))
           /\ K = {} => Ordered(f, K) = <<>>
<1> DEFINE F == Firsts(f, K)
           N == Cardinality(F)
           o == Ordered(f, K)
<1>1. /\ N \in Nat /\ F \subseteq K /\ (K = {} => N = 0)
      /\ \A n \in 1..N : Nth(f, K, n) \in F /\ Cardinality(UpTo(f, K, Nth(f, K, n))) = n
  BY NthExists
<1>2. /\ DOMAIN o = 1..N
      /\ \A n \in 1..N : o[n] = [at |-> f[Nth(f, K, n)].at, power |-> f[Nth(f, K, n)].power]
  BY DEF Ordered
<1>3. \A n \in 1..N : o[n] \in Samples /\ o[n].at = f[Nth(f, K, n)].at /\ o[n].at \in Int
  <2>1. \A i \in F : f[i].at \in Int /\ f[i].power \in Int
    BY <1>1, FileFacts
  <2> QED BY <1>1, <1>2, <2>1 DEF Samples
<1>4. o \in [1..N -> Samples]
  <2>1. o = [n \in 1..N |-> o[n]]
    BY <1>2 DEF Ordered
  <2> HIDE DEF o, N
  <2> QED BY <2>1, <1>3
<1>5. o \in Seq(Samples)
  BY <1>1, <1>4, SeqDef
<1>6. InTime(o)
  <2>1. SUFFICES ASSUME NEW m \in 1..N, NEW n \in 1..N, m <= n PROVE o[m].at <= o[n].at
    BY <1>2 DEF InTime
  <2>2. SUFFICES ASSUME ~(o[m].at <= o[n].at) PROVE FALSE
    OBVIOUS
  <2>3. /\ Nth(f, K, m) \in F /\ Nth(f, K, n) \in F
        /\ Cardinality(UpTo(f, K, Nth(f, K, m))) = m /\ Cardinality(UpTo(f, K, Nth(f, K, n))) = n
    BY <1>1
  <2>4. f[Nth(f, K, n)].at < f[Nth(f, K, m)].at
    BY <1>3, <2>2
  <2>5. n < m
    BY <2>3, <2>4, RankRises
  <2> QED BY <2>1, <2>5
<1>7. ASSUME K = {} PROVE o = <<>>
  <2>1. N = 0
    BY <1>1, <1>7
  <2>2. Len(o) = 0
    BY <1>5, <1>2, <2>1, LenProperties
  <2> QED BY <1>5, <2>2, EmptySeq
<1> QED BY <1>5, <1>6, <1>7

-----------------------------------------------------------------------------
ScanStages == {"csv", "recorder", "find", "replay", "over", "failed"}

ScanTypeOK ==
    /\ scanStage \in ScanStages
    /\ file \in Seq(FileRows) /\ kept \subseteq 1..Len(file) /\ may \in BOOLEAN
    /\ samples \in Seq(Samples)
    /\ pos \in Nat /\ current \in Seq(Nat) /\ blocks \in Seq(Seq(Nat)) /\ skipped \in Seq(Seq(Nat))
    /\ quietFor \in Int /\ idleFor \in Int /\ inBreak \in BOOLEAN

\* What the reader knows of the rows read: one entity, not the wanted one, may stand in
\* for it; what is kept then; when a row ends that.
OneOnly(list) == Chosen \notin Named(list) /\ \A d, e \in Named(list) : d = e
MineIn(list, i) == list[i].entity \in {Chosen, Unnamed}
WasKept(list) == {i \in RowsRead(list) : list[i].power # Bad /\ (OneOnly(list) \/ MineIn(list, i))}
DropsAt(list, row) ==
    /\ OneOnly(list) /\ row.entity # Unnamed /\ row.entity \notin Named(list)
    /\ Named(list) # {} \/ row.entity = Chosen
PureOf(list, s) == s = IF \E d, e \in Whose(list) : d # e THEN <<>> ELSE Ordered(list, Good(list))

\* While it reads, the reader keeps every good row as long as one entity may stand in,
\* else those of the wanted and the unnamed; what it has read is then what is asked for.
ReaderInv ==
    /\ scanStage = "recorder" => file = <<>>
    /\ scanStage = "csv" => /\ samples = <<>> /\ seen = Named(file)
                            /\ may <=> OneOnly(file)
                            /\ kept = WasKept(file)
    /\ scanStage \notin {"csv", "recorder"} /\ file # <<>> => PureOf(file, samples)

NotBegun == pos = 0 /\ current = <<>> /\ blocks = <<>> /\ skipped = <<>> /\ inBreak = FALSE
            /\ quietFor = 0 /\ idleFor = 0

\* The finder on what it has walked; after the last sample nothing is being built.
FinderInv ==
    /\ InTime(samples) /\ pos <= Len(samples)
    /\ scanStage \in {"csv", "recorder"} => NotBegun
    /\ scanStage \notin {"csv", "recorder"} =>
        /\ PastOK(samples, pos, current, blocks, skipped)
        /\ CurrentOK(samples, pos, current) \/ scanStage # "find"
        /\ RunsOK(samples, pos, ToSet(blocks) \union ToSet(skipped), current)
    /\ scanStage = "find" =>
        /\ ClocksOK(samples, pos, current, idleFor, quietFor, inBreak)
        /\ PartedOK(samples, pos, current)
    /\ scanStage \in {"replay", "over", "failed"} => pos = Len(samples) /\ current = <<>>

ScanInv == ScanTypeOK /\ ReaderInv /\ FinderInv

LEMMA NotBegunFine ==
    ASSUME NEW s \in Seq(Samples)
    PROVE  /\ PastOK(s, 0, <<>>, <<>>, <<>>) /\ CurrentOK(s, 0, <<>>)
           /\ RunsOK(s, 0, ToSet(<<>>) \union ToSet(<<>>), <<>>)
           /\ \A idle, quiet : ClocksOK(s, 0, <<>>, idle, quiet, FALSE)
           /\ PartedOK(s, 0, <<>>)
<1>1. ToSet(<<>>) = {}
  BY DEF ToSet
<1>2. \A i \in Known(s) : i \in Nat /\ 0 < i
  BY SampleFacts
<1>3. \A i \in Runs(s) : i \in Nat /\ 0 < i
  BY <1>2, SampleFacts
<1>4. Successive(<<>>)
  BY DEF Successive
<1>5. PastOK(s, 0, <<>>, <<>>, <<>>)
  BY <1>1, <1>2, <1>4 DEF PastOK
<1>6. CurrentOK(s, 0, <<>>)
  BY <1>2 DEF CurrentOK
<1>7. RunsOK(s, 0, ToSet(<<>>) \union ToSet(<<>>), <<>>)
  BY <1>3 DEF RunsOK, Adjacent
<1>8. \A idle, quiet : ClocksOK(s, 0, <<>>, idle, quiet, FALSE)
  BY DEF ClocksOK
<1>9. PartedOK(s, 0, <<>>)
  BY <1>3 DEF PartedOK, LastRun
<1> QED BY <1>5, <1>6, <1>7, <1>8, <1>9

LEMMA ScanBegins == ScanInit => ScanInv
<1> SUFFICES ASSUME ScanInit PROVE ScanInv
  OBVIOUS
<1>1. /\ scanStage \in {"csv", "recorder"} /\ file = <<>> /\ kept = {} /\ may = TRUE /\ seen = {} /\ samples = <<>>
      /\ NotBegun
  BY DEF ScanInit, NotBegun
<1>2. Len(<<>>) = 0 /\ <<>> \in Seq(FileRows) /\ <<>> \in Seq(Samples) /\ <<>> \in Seq(Nat) /\ <<>> \in Seq(Seq(Nat))
  BY EmptySeq
<1>3. ScanTypeOK
  <2>1. /\ current = <<>> /\ blocks = <<>> /\ skipped = <<>> /\ pos = 0 /\ quietFor = 0 /\ idleFor = 0
        /\ inBreak = FALSE
    BY <1>1 DEF NotBegun
  <2>2. scanStage \in ScanStages
    BY <1>1 DEF ScanStages
  <2>3. file \in Seq(FileRows) /\ samples \in Seq(Samples)
    BY <1>1, <1>2
  <2>4. current \in Seq(Nat) /\ blocks \in Seq(Seq(Nat)) /\ skipped \in Seq(Seq(Nat))
    BY <1>2, <2>1
  <2>5. kept \subseteq 1..Len(file) /\ may \in BOOLEAN
    BY <1>1
  <2>6. pos \in Nat /\ quietFor \in Int /\ idleFor \in Int
    BY <2>1
  <2>7. inBreak \in BOOLEAN
    BY <2>1
  <2> QED BY <2>2, <2>3, <2>4, <2>5, <2>6, <2>7 DEF ScanTypeOK
<1>4. RowsRead(<<>>) = {}
  BY <1>2, Thresholds DEF RowsRead, Lesser
<1>5. Named(<<>>) = {} /\ WasKept(<<>>) = {} /\ OneOnly(<<>>)
  BY <1>4 DEF Named, WasKept, OneOnly
<1>6. ReaderInv
  BY <1>1, <1>5 DEF ReaderInv
<1>7. InTime(<<>>)
  BY DEF InTime
<1>8. FinderInv
  BY <1>1, <1>2, <1>7 DEF FinderInv, NotBegun
<1> QED BY <1>3, <1>6, <1>8 DEF ScanInv

-----------------------------------------------------------------------------
LEMMA ReadMore ==
    ASSUME NEW f \in Seq(FileRows), NEW row \in FileRows
    PROVE  /\ Append(f, row) \in Seq(FileRows) /\ Append(f, row) # <<>>
           /\ Len(Append(f, row)) = Len(f) + 1 /\ Append(f, row)[Len(f) + 1] = row
           /\ Len(f) >= MaxRead => RowsRead(Append(f, row)) = RowsRead(f)
           /\ ~(Len(f) >= MaxRead) =>
                  RowsRead(Append(f, row)) = RowsRead(f) \union {Len(f) + 1} /\ Len(f) + 1 \notin RowsRead(f)
           /\ \A i \in RowsRead(f) : Append(f, row)[i] = f[i] /\ i \in 1..Len(f)
           /\ 1..Len(f) \subseteq 1..Len(Append(f, row))
<1> DEFINE g == Append(f, row)
<1> DEFINE n == Len(f) + 1
<1>1. /\ Len(f) \in Nat /\ MaxRead \in Nat /\ Len(g) = n /\ g[n] = row /\ \A i \in 1..Len(f) : g[i] = f[i]
      /\ g \in Seq(FileRows) /\ g # <<>>
  BY AppendedElements, Thresholds
<1> HIDE DEF g
<1>2. RowsRead(f) \subseteq 1..Len(f)
  BY <1>1 DEF RowsRead, Lesser
<1>3. ASSUME Len(f) >= MaxRead PROVE RowsRead(g) = RowsRead(f)
  BY <1>1, <1>3 DEF RowsRead, Lesser
<1>4. ASSUME ~(Len(f) >= MaxRead) PROVE RowsRead(g) = RowsRead(f) \union {n} /\ n \notin RowsRead(f)
  <2>1. RowsRead(g) = 1..n /\ RowsRead(f) = 1..Len(f)
    BY <1>1, <1>4 DEF RowsRead, Lesser
  <2>2. 1..n = (1..Len(f)) \union {n} /\ n \notin 1..Len(f)
    BY <1>1
  <2> QED BY <2>1, <2>2
<1>5. 1..Len(f) \subseteq 1..Len(g)
  BY <1>1
<1> QED BY <1>1, <1>2, <1>3, <1>4, <1>5 DEF g

\* Past the last row read, nothing of what was read changes.
LEMMA UnreadRow ==
    ASSUME NEW f \in Seq(FileRows), NEW row \in FileRows, Len(f) >= MaxRead
    PROVE  Named(Append(f, row)) = Named(f) /\ WasKept(Append(f, row)) = WasKept(f)
<1> DEFINE g == Append(f, row)
<1>1. RowsRead(g) = RowsRead(f) /\ \A i \in RowsRead(f) : g[i] = f[i]
  BY ReadMore
<1> HIDE DEF g
<1>2. Named(g) = Named(f)
  BY <1>1 DEF Named
<1>3. WasKept(g) = WasKept(f)
  BY <1>1, <1>2 DEF WasKept, MineIn, OneOnly
<1> QED BY <1>2, <1>3 DEF g

LEMMA ReadOneRow ==
    ASSUME NEW f \in Seq(FileRows), NEW row \in FileRows, ~(Len(f) >= MaxRead)
    PROVE  /\ Named(Append(f, row)) = Named(f) \union ({row.entity} \ {Unnamed})
           /\ OneOnly(Append(f, row)) <=> OneOnly(f) /\ ~DropsAt(f, row)
           /\ WasKept(Append(f, row)) =
                (IF DropsAt(f, row) THEN {i \in WasKept(f) : MineIn(f, i)} ELSE WasKept(f))
                \union (IF (row.entity \notin {Chosen, Unnamed} /\ ~OneOnly(Append(f, row))) \/ row.power = Bad
                        THEN {} ELSE {Len(f) + 1})
<1> DEFINE g == Append(f, row)
<1> DEFINE n == Len(f) + 1
<1>1. /\ RowsRead(g) = RowsRead(f) \union {n} /\ n \notin RowsRead(f) /\ g[n] = row
      /\ \A i \in RowsRead(f) : g[i] = f[i]
  BY ReadMore
<1> HIDE DEF n, g
<1>2. Named(g) = Named(f) \union ({row.entity} \ {Unnamed})
  <2> DEFINE inF(e) == \E i \in RowsRead(f) : e = f[i].entity
             inG(e) == \E i \in RowsRead(g) : e = g[i].entity
  <2>1. \A e : e \in Named(g) <=> e # Unnamed /\ inG(e)
    BY DEF Named
  <2>2. \A e : e \in Named(f) <=> e # Unnamed /\ inF(e)
    BY DEF Named
  <2>3. \A e : inG(e) <=> inF(e) \/ e = row.entity
    BY <1>1
  <2> HIDE DEF inF, inG
  <2>4. \A e : e \in Named(g) <=> e \in Named(f) \union ({row.entity} \ {Unnamed})
    BY <2>1, <2>2, <2>3
  <2> QED BY <2>4
<1>3. OneOnly(g) <=> OneOnly(f) /\ ~DropsAt(f, row)
  <2>1. CASE row.entity = Unnamed \/ row.entity \in Named(f)
    <3>1. Named(g) = Named(f)
      BY <2>1, <1>2 DEF Named
    <3>2. ~DropsAt(f, row)
      BY <2>1 DEF DropsAt
    <3> QED BY <3>1, <3>2 DEF OneOnly
  <2>2. CASE row.entity # Unnamed /\ row.entity \notin Named(f)
    <3>1. Named(g) = Named(f) \union {row.entity}
      BY <2>2, <1>2
    <3>2. OneOnly(g) <=> OneOnly(f) /\ Named(f) = {} /\ row.entity # Chosen
      <4>1. CASE Named(f) = {}
        BY <3>1, <4>1 DEF OneOnly
      <4>2. CASE Named(f) # {}
        BY <2>2, <3>1, <4>2 DEF OneOnly
      <4> QED BY <4>1, <4>2
    <3> QED BY <2>2, <3>2 DEF DropsAt
  <2> QED BY <2>1, <2>2
<1>4. \A i \in RowsRead(f) : MineIn(g, i) <=> MineIn(f, i)
  BY <1>1 DEF MineIn
<1>5. MineIn(g, n) <=> row.entity \in {Chosen, Unnamed}
  BY <1>1 DEF MineIn
<1>6. \A i : i \in WasKept(g) <=>
             \/ i \in RowsRead(f) /\ f[i].power # Bad /\ (OneOnly(g) \/ MineIn(f, i))
             \/ i = n /\ row.power # Bad /\ (OneOnly(g) \/ row.entity \in {Chosen, Unnamed})
  BY <1>1, <1>4, <1>5 DEF WasKept
<1>7. \A i : i \in WasKept(f) <=> i \in RowsRead(f) /\ f[i].power # Bad /\ (OneOnly(f) \/ MineIn(f, i))
  BY DEF WasKept
<1>8. WasKept(g) =
          (IF DropsAt(f, row) THEN {i \in WasKept(f) : MineIn(f, i)} ELSE WasKept(f))
          \union (IF (row.entity \notin {Chosen, Unnamed} /\ ~OneOnly(g)) \/ row.power = Bad THEN {} ELSE {n})
  <2>1. CASE DropsAt(f, row)
    <3>1. OneOnly(f) /\ ~OneOnly(g)
      BY <1>3, <2>1 DEF DropsAt
    <3>2. \A i : i \in WasKept(g) <=>
                \/ i \in WasKept(f) /\ MineIn(f, i)
                \/ i = n /\ row.power # Bad /\ row.entity \in {Chosen, Unnamed}
      BY <1>6, <1>7, <3>1
    <3>3. \A i : i \in {k \in WasKept(f) : MineIn(f, k)} <=> i \in WasKept(f) /\ MineIn(f, i)
      OBVIOUS
    <3>4. \A i : i \in (IF (row.entity \notin {Chosen, Unnamed} /\ ~OneOnly(g)) \/ row.power = Bad THEN {} ELSE {n})
                 <=> i = n /\ row.power # Bad /\ row.entity \in {Chosen, Unnamed}
      BY <3>1
    <3> QED BY <3>2, <3>3, <3>4, <2>1
  <2>2. CASE ~DropsAt(f, row)
    <3>1. OneOnly(g) <=> OneOnly(f)
      BY <1>3, <2>2
    <3>2. \A i : i \in WasKept(g) <=>
                \/ i \in WasKept(f)
                \/ i = n /\ row.power # Bad /\ (OneOnly(g) \/ row.entity \in {Chosen, Unnamed})
      BY <1>6, <1>7, <3>1
    <3> QED BY <3>2, <2>2
  <2> QED BY <2>1, <2>2
<1> QED BY <1>2, <1>3, <1>8 DEF n, g

LEMMA GoodRows ==
    ASSUME NEW f \in Seq(FileRows), NEW rows,
           rows = IF Named(f) # {} /\ Chosen \notin Named(f) THEN WasKept(f)
                  ELSE {i \in WasKept(f) : MineIn(f, i)}
    PROVE  /\ (Chosen \notin Named(f) /\ \E d, e \in Named(f) : d # e) <=> \E d, e \in Whose(f) : d # e
           /\ ~(\E d, e \in Whose(f) : d # e) => rows = Good(f)
           /\ rows \subseteq 1..Len(f)
<1>1. (Chosen \notin Named(f) /\ \E d, e \in Named(f) : d # e) <=> \E d, e \in Whose(f) : d # e
  BY DEF Whose
<1>2. \A i : i \in WasKept(f) <=> i \in RowsRead(f) /\ f[i].power # Bad /\ (OneOnly(f) \/ MineIn(f, i))
  BY DEF WasKept
<1>3. \A i : i \in Good(f) <=> i \in RowsRead(f) /\ f[i].power # Bad /\ f[i].entity \in Whose(f) \union {Unnamed}
  BY DEF Good
<1>4. ASSUME ~(\E d, e \in Whose(f) : d # e) PROVE rows = Good(f)
  <2>1. CASE Named(f) # {} /\ Chosen \notin Named(f)
    <3>1. Whose(f) = Named(f) /\ OneOnly(f)
      BY <1>4, <2>1 DEF Whose, OneOnly
    <3>2. \A i \in RowsRead(f) : f[i].entity \in Named(f) \union {Unnamed}
      BY DEF Named
    <3>3. \A i : i \in rows <=> i \in Good(f)
      BY <1>2, <1>3, <2>1, <3>1, <3>2
    <3> QED BY <3>3
  <2>2. CASE ~(Named(f) # {} /\ Chosen \notin Named(f))
    <3>1. Whose(f) = {Chosen}
      BY <2>2 DEF Whose
    <3>2. \A i : MineIn(f, i) <=> f[i].entity \in Whose(f) \union {Unnamed}
      BY <3>1 DEF MineIn
    <3>3. \A i : i \in rows <=> i \in Good(f)
      BY <1>2, <1>3, <2>2, <3>2
    <3> QED BY <3>3
  <2> QED BY <2>1, <2>2
<1>5. RowsRead(f) \subseteq 1..Len(f)
  BY FileFacts, Thresholds DEF RowsRead, Lesser
<1>6. rows \subseteq RowsRead(f)
  BY <1>2
<1> QED BY <1>1, <1>4, <1>5, <1>6

LEMMA RowsTyped == RowsInFile \subseteq FileRows /\ \A r \in Readings : r.gap \in Nat /\ r.power \in Int
BY ScanAssumption DEF FileRows

LEMMA ReadRowKeeps ==
    ASSUME ScanInv, NEW row \in RowsInFile, ReadRow(row)
    PROVE  ScanInv'
<1> DEFINE drops == may /\ Forbids(row.entity)
           n == Len(file) + 1
<1>1. /\ scanStage = "csv" /\ file' = Append(file, row)
      /\ UNCHANGED <<scanStage, samples, findVars, replayVars>>
  BY DEF ReadRow
<1>2. ASSUME ~(Len(file) >= MaxRead)
      PROVE  /\ may' = (may /\ ~drops)
             /\ seen' = seen \union ({row.entity} \ {Unnamed})
             /\ kept' = (IF drops THEN {i \in kept : Ours(i)} ELSE kept)
                        \union (IF (row.entity \notin {Chosen, Unnamed} /\ ~(may /\ ~drops)) \/ row.power = Bad
                                THEN {} ELSE {n})
  BY <1>2 DEF ReadRow
<1>3. ASSUME Len(file) >= MaxRead PROVE UNCHANGED <<kept, may, seen>>
  BY <1>3 DEF ReadRow
<1>4. row \in FileRows /\ file \in Seq(FileRows) /\ may \in BOOLEAN /\ kept \subseteq 1..Len(file) /\ ScanTypeOK
  BY RowsTyped DEF ScanInv, ScanTypeOK
<1>5. /\ file' \in Seq(FileRows) /\ file' # <<>> /\ 1..Len(file) \subseteq 1..Len(file')
      /\ Len(file') = n /\ n \in 1..n
  BY <1>1, <1>4, ReadMore, FileFacts
<1>6. /\ samples = <<>> /\ seen = Named(file) /\ (may <=> OneOnly(file)) /\ kept = WasKept(file)
  BY <1>1 DEF ScanInv, ReaderInv
<1>7. /\ may' \in BOOLEAN /\ kept' \subseteq 1..Len(file')
      /\ seen' = Named(file') /\ (may' <=> OneOnly(file')) /\ kept' = WasKept(file')
  <2>1. CASE Len(file) >= MaxRead
    <3>1. Named(file') = Named(file) /\ WasKept(file') = WasKept(file)
      BY <1>1, <1>4, <2>1, UnreadRow
    <3>2. UNCHANGED <<kept, may, seen>>
      BY <1>3, <2>1
    <3>3. OneOnly(file') <=> OneOnly(file)
      BY <3>1 DEF OneOnly
    <3> QED BY <1>4, <1>5, <1>6, <3>1, <3>2, <3>3
  <2>2. CASE ~(Len(file) >= MaxRead)
    <3>1. drops <=> DropsAt(file, row)
      BY <1>6 DEF Forbids, DropsAt
    <3>2. may' = (may /\ ~drops) /\ may' \in BOOLEAN
      BY <1>2, <1>4, <2>2
    <3>3. seen' = Named(file) \union ({row.entity} \ {Unnamed})
      BY <1>2, <1>6, <2>2
    <3>4. {i \in kept : Ours(i)} = {i \in WasKept(file) : MineIn(file, i)}
      BY <1>6 DEF Ours, MineIn
    <3> HIDE DEF drops
    <3>5. /\ Named(file') = Named(file) \union ({row.entity} \ {Unnamed})
          /\ OneOnly(file') <=> OneOnly(file) /\ ~DropsAt(file, row)
          /\ WasKept(file') =
                (IF DropsAt(file, row) THEN {i \in WasKept(file) : MineIn(file, i)} ELSE WasKept(file))
                \union (IF (row.entity \notin {Chosen, Unnamed} /\ ~OneOnly(file')) \/ row.power = Bad
                        THEN {} ELSE {n})
      BY <1>1, <1>4, <2>2, ReadOneRow
    <3>6. may' <=> OneOnly(file')
      BY <1>6, <3>1, <3>2, <3>5
    <3>7. ~(may /\ ~drops) <=> ~OneOnly(file')
      BY <1>6, <3>1, <3>5
    <3>8. kept' = WasKept(file')
      <4>1. kept' = (IF drops THEN {i \in kept : Ours(i)} ELSE kept)
                    \union (IF (row.entity \notin {Chosen, Unnamed} /\ ~(may /\ ~drops)) \/ row.power = Bad
                            THEN {} ELSE {n})
        BY <1>2, <2>2 DEF drops
      <4> QED BY <1>6, <3>1, <3>4, <3>5, <3>7, <4>1
    <3>9. kept' \subseteq 1..Len(file')
      <4>1. WasKept(file') \subseteq WasKept(file) \union {n}
        BY <3>5
      <4> QED BY <1>4, <1>5, <1>6, <3>8, <4>1
    <3> QED BY <3>2, <3>3, <3>5, <3>6, <3>8, <3>9
  <2> QED BY <2>1, <2>2
<1>8. ScanTypeOK'
  BY <1>1, <1>4, <1>5, <1>7 DEF ScanTypeOK, findVars
<1>9. ReaderInv'
  BY <1>1, <1>6, <1>7 DEF ReaderInv
<1>10. FinderInv'
  BY <1>1 DEF ScanInv, FinderInv, NotBegun, findVars
<1> QED BY <1>8, <1>9, <1>10 DEF ScanInv

LEMMA EndOfFileKeeps == ASSUME ScanInv, EndOfFile PROVE ScanInv'
<1> DEFINE rows == IF seen # {} /\ Chosen \notin seen THEN kept ELSE {i \in kept : Ours(i)}
           several == Chosen \notin seen /\ \E d, e \in seen : d # e
<1>1. /\ scanStage = "csv" /\ file # <<>>
      /\ samples' = IF several THEN <<>> ELSE Ordered(file, rows)
      /\ scanStage' = IF several \/ rows = {} THEN "failed" ELSE "find"
      /\ UNCHANGED <<readVars, findVars, replayVars>>
  BY DEF EndOfFile
<1>2. /\ file \in Seq(FileRows) /\ may \in BOOLEAN /\ ScanTypeOK
      /\ seen = Named(file) /\ (may <=> OneOnly(file)) /\ kept = WasKept(file)
      /\ NotBegun
  BY <1>1 DEF ScanInv, ScanTypeOK, ReaderInv, FinderInv
<1>3. rows = IF Named(file) # {} /\ Chosen \notin Named(file) THEN WasKept(file)
             ELSE {i \in WasKept(file) : MineIn(file, i)}
  BY <1>2 DEF Ours, MineIn
<1>4. several <=> Chosen \notin Named(file) /\ \E d, e \in Named(file) : d # e
  BY <1>2
<1> HIDE DEF rows, several
<1>5. /\ several <=> \E d, e \in Whose(file) : d # e
      /\ ~several => rows = Good(file)
      /\ rows \subseteq 1..Len(file)
  BY <1>2, <1>3, <1>4, GoodRows
<1>6. PureOf(file, samples')
  BY <1>1, <1>5 DEF PureOf
<1>7. samples' \in Seq(Samples) /\ InTime(samples') /\ (scanStage' = "failed" => samples' = <<>>)
  <2>1. /\ Ordered(file, rows) \in Seq(Samples) /\ InTime(Ordered(file, rows))
        /\ rows = {} => Ordered(file, rows) = <<>>
    BY <1>2, <1>5, OrderedInTime
  <2>2. <<>> \in Seq(Samples) /\ InTime(<<>>)
    BY EmptySeq DEF InTime
  <2> QED BY <1>1, <2>1, <2>2
<1>8. ScanTypeOK'
  BY <1>1, <1>2, <1>7 DEF ScanTypeOK, ScanStages, readVars, findVars
<1>9. ReaderInv'
  <2>1. scanStage' \in {"find", "failed"} /\ file' = file
    BY <1>1 DEF readVars
  <2>2. PureOf(file', samples')
    BY <1>6, <2>1
  <2> QED BY <2>1, <2>2 DEF ReaderInv
<1>10. FinderInv'
  <2>1. scanStage' \in {"find", "failed"}
    BY <1>1
  <2>2. /\ pos' = 0 /\ current' = <<>> /\ blocks' = <<>> /\ skipped' = <<>> /\ inBreak' = FALSE
    BY <1>1, <1>2 DEF findVars, NotBegun
  <2>3. scanStage' = "failed" => pos' = Len(samples')
    BY <1>7, <2>2, EmptySeq
  <2>4. Len(samples') \in Nat
    BY <1>7, LenProperties
  <2>5. /\ PastOK(samples', pos', current', blocks', skipped') /\ CurrentOK(samples', pos', current')
        /\ RunsOK(samples', pos', ToSet(blocks') \union ToSet(skipped'), current')
        /\ ClocksOK(samples', pos', current', idleFor', quietFor', inBreak')
        /\ PartedOK(samples', pos', current')
    BY <1>7, <2>2, NotBegunFine
  <2>6. pos' <= Len(samples')
    BY <2>2, <2>4
  <2> QED BY <1>7, <2>1, <2>2, <2>3, <2>5, <2>6 DEF FinderInv
<1> QED BY <1>8, <1>9, <1>10 DEF ScanInv

LEMMA ReadStateKeeps ==
    ASSUME ScanInv, NEW r \in Readings, ReadState(r)
    PROVE  ScanInv'
<1> DEFINE last == IF samples = <<>> THEN 0 ELSE Last(samples).at
           next == [at |-> r.gap + last, power |-> r.power]
<1>1. /\ scanStage = "recorder" /\ samples' = Append(samples, next)
      /\ UNCHANGED <<scanStage, readVars, findVars, replayVars>>
  BY DEF ReadState
<1>2. /\ ScanTypeOK /\ samples \in Seq(Samples) /\ InTime(samples) /\ NotBegun /\ file = <<>>
      /\ pos <= Len(samples)
  BY <1>1 DEF ScanInv, ScanTypeOK, ReaderInv, FinderInv
<1>3. Len(samples) \in Nat /\ DOMAIN samples = 1..Len(samples) /\ \A i \in 1..Len(samples) : samples[i].at \in Int
  BY <1>2, SampleFacts
<1>4. /\ last \in Int /\ \A i \in 1..Len(samples) : samples[i].at <= last
  <2>1. CASE samples = <<>>
    BY <1>3, <2>1
  <2>2. CASE samples # <<>>
    <3>1. Len(samples) \in 1..Len(samples) /\ last = samples[Len(samples)].at
      BY <1>2, <1>3, <2>2, EmptySeq DEF Last
    <3> QED BY <1>2, <1>3, <3>1 DEF InTime
  <2> QED BY <2>1, <2>2
<1>5. next \in Samples /\ next.at \in Int /\ last <= next.at
  <2>1. r.gap \in Nat /\ r.power \in Int
    BY RowsTyped
  <2> HIDE DEF last
  <2> QED BY <1>4, <2>1 DEF Samples
<1> HIDE DEF next, last
<1>6. /\ samples' \in Seq(Samples) /\ Len(samples') = Len(samples) + 1
      /\ DOMAIN samples' = 1..(Len(samples) + 1)
      /\ \A i \in 1..Len(samples) : samples'[i] = samples[i]
      /\ samples'[Len(samples) + 1] = next
  BY <1>1, <1>2, <1>5, AppendedElements
<1>7. InTime(samples')
  <2>1. SUFFICES ASSUME NEW i \in 1..(Len(samples) + 1), NEW k \in 1..(Len(samples) + 1), i <= k
                 PROVE  samples'[i].at <= samples'[k].at
    BY <1>6 DEF InTime
  <2>2. CASE k \in 1..Len(samples)
    <3>1. i \in 1..Len(samples)
      BY <1>3, <2>1, <2>2
    <3> QED BY <1>2, <1>3, <1>6, <2>1, <2>2, <3>1 DEF InTime
  <2>3. CASE k = Len(samples) + 1 /\ i \in 1..Len(samples)
    <3>1. samples[i].at <= last /\ last <= next.at /\ samples[i].at \in Int
      BY <1>3, <1>4, <1>5, <2>3
    <3>2. samples[i].at <= next.at
      BY <1>4, <1>5, <3>1
    <3> QED BY <1>6, <2>3, <3>2
  <2>4. CASE k = Len(samples) + 1 /\ i = Len(samples) + 1
    BY <1>5, <1>6, <2>4
  <2> QED BY <1>3, <2>2, <2>3, <2>4
<1>8. ScanTypeOK'
  BY <1>1, <1>2, <1>6 DEF ScanTypeOK, readVars, findVars
<1>9. ReaderInv'
  BY <1>1, <1>2 DEF ReaderInv, readVars
<1>10. FinderInv'
  <2>1. pos' <= Len(samples') /\ NotBegun'
    BY <1>1, <1>2, <1>3, <1>6 DEF findVars, NotBegun
  <2> QED BY <1>1, <1>7, <2>1 DEF FinderInv
<1> QED BY <1>8, <1>9, <1>10 DEF ScanInv

LEMMA ReadingsDoneKeeps == ASSUME ScanInv, ReadingsDone PROVE ScanInv'
<1>1. /\ scanStage = "recorder" /\ scanStage' = "find"
      /\ UNCHANGED <<readVars, samples, findVars, replayVars>>
  BY DEF ReadingsDone
<1>2. /\ ScanTypeOK /\ samples \in Seq(Samples) /\ InTime(samples) /\ NotBegun /\ file = <<>>
      /\ pos <= Len(samples)
  BY <1>1 DEF ScanInv, ScanTypeOK, ReaderInv, FinderInv
<1>3. ScanTypeOK'
  BY <1>1, <1>2 DEF ScanTypeOK, ScanStages, readVars, findVars
<1>4. ReaderInv'
  BY <1>1, <1>2 DEF ReaderInv, readVars
<1>5. FinderInv'
  <2>1. /\ samples' = samples
        /\ pos' = 0 /\ current' = <<>> /\ blocks' = <<>> /\ skipped' = <<>> /\ inBreak' = FALSE
    BY <1>1, <1>2 DEF findVars, NotBegun
  <2>2. /\ PastOK(samples', pos', current', blocks', skipped') /\ CurrentOK(samples', pos', current')
        /\ RunsOK(samples', pos', ToSet(blocks') \union ToSet(skipped'), current')
        /\ ClocksOK(samples', pos', current', idleFor', quietFor', inBreak')
        /\ PartedOK(samples', pos', current')
    BY <1>2, <2>1, NotBegunFine
  <2>3. pos' <= Len(samples') /\ InTime(samples')
    BY <1>2, <2>1 DEF NotBegun
  <2> QED BY <1>1, <2>2, <2>3 DEF FinderInv
<1> QED BY <1>3, <1>4, <1>5 DEF ScanInv

-----------------------------------------------------------------------------
LEMMA FindingFacts ==
    ASSUME ScanInv, scanStage = "find"
    PROVE  /\ ScanTypeOK /\ samples \in Seq(Samples) /\ pos \in Nat /\ current \in Seq(Nat)
           /\ blocks \in Seq(Seq(Nat)) /\ skipped \in Seq(Seq(Nat))
           /\ idleFor \in Int /\ quietFor \in Int /\ inBreak \in BOOLEAN
           /\ InTime(samples) /\ pos <= Len(samples)
           /\ PastOK(samples, pos, current, blocks, skipped) /\ CurrentOK(samples, pos, current)
           /\ ClocksOK(samples, pos, current, idleFor, quietFor, inBreak)
           /\ RunsOK(samples, pos, ToSet(blocks) \union ToSet(skipped), current)
           /\ PartedOK(samples, pos, current)
BY DEF ScanInv, ScanTypeOK, FinderInv

LEMMA FindBreakKeeps == ASSUME ScanInv, FindBreak PROVE ScanInv'
<1>1. /\ scanStage = "find" /\ pos < Len(samples) /\ samples[pos + 1].power = NoValue
      /\ pos' = pos + 1 /\ inBreak' = TRUE
      /\ UNCHANGED <<scanStage, readVars, samples, current, quietFor, idleFor, blocks, skipped, replayVars>>
  BY DEF FindBreak, Power
<1>2. /\ ScanTypeOK /\ samples \in Seq(Samples) /\ pos \in Nat /\ current \in Seq(Nat)
      /\ blocks \in Seq(Seq(Nat)) /\ skipped \in Seq(Seq(Nat))
      /\ idleFor \in Int /\ quietFor \in Int /\ inBreak \in BOOLEAN
      /\ InTime(samples) /\ pos <= Len(samples)
  BY <1>1, FindingFacts
<1>3. /\ PastOK(samples, pos, current, blocks, skipped) /\ CurrentOK(samples, pos, current)
      /\ ClocksOK(samples, pos, current, idleFor, quietFor, inBreak)
      /\ RunsOK(samples, pos, ToSet(blocks) \union ToSet(skipped), current)
      /\ PartedOK(samples, pos, current)
  BY <1>1, FindingFacts
<1>4. pos + 1 \notin Known(samples)
  BY <1>1, <1>2, SampleFacts
<1>5. PastOK(samples, pos + 1, current, blocks, skipped)
  BY <1>2, <1>3, <1>4, StepPast
<1>6. /\ CurrentOK(samples, pos + 1, current)
      /\ ClocksOK(samples, pos + 1, current, idleFor, quietFor, TRUE)
      /\ RunsOK(samples, pos + 1, ToSet(blocks) \union ToSet(skipped), current)
      /\ PartedOK(samples, pos + 1, current)
  BY <1>2, <1>3, <1>4, BreakSteps
<1>7. ScanTypeOK'
  BY <1>1, <1>2 DEF ScanTypeOK, readVars
<1>8. ReaderInv'
  BY <1>1 DEF ScanInv, ReaderInv, readVars
<1>9. FinderInv'
  <2>1. pos' <= Len(samples')
    BY <1>1, <1>2, SampleFacts
  <2> QED BY <1>1, <1>2, <1>5, <1>6, <2>1 DEF FinderInv
<1> QED BY <1>7, <1>8, <1>9 DEF ScanInv

\* A block that is closed joins the blocks or the other stretches.
LEMMA ClosePieces ==
    ASSUME NEW s \in Seq(Samples), NEW p \in Nat, NEW c \in Seq(Nat), c # <<>>,
           NEW bs \in Seq(Seq(Nat)), NEW ss \in Seq(Seq(Nat)),
           CurrentOK(s, p, c), PastOK(s, p, c, bs, ss)
    PROVE  /\ Closed(bs, c) \in Seq(Seq(Nat)) /\ Skips(ss, c) \in Seq(Seq(Nat))
           /\ PastOK(s, p, <<>>, Closed(bs, c), Skips(ss, c))
           /\ ToSet(Closed(bs, c)) \union ToSet(Skips(ss, c)) = (ToSet(bs) \union ToSet(ss)) \union {c}
<1>1. /\ ToSet(Append(bs, c)) = ToSet(bs) \union {c} /\ Append(bs, c) \in Seq(Seq(Nat))
      /\ ToSet(Append(ss, c)) = ToSet(ss) \union {c} /\ Append(ss, c) \in Seq(Seq(Nat))
  BY AppendedElements
<1>2. /\ PastOK(s, p, <<>>, Append(bs, c), ss)
      /\ PastOK(s, p, <<>>, bs, Append(ss, c))
  BY ClosePast
<1>3. CASE Peaks(c) /\ Len(c) >= 2
  <2>1. Closed(bs, c) = Append(bs, c) /\ Skips(ss, c) = ss
    BY <1>3 DEF Closed, Skips
  <2> QED BY <1>1, <1>2, <2>1
<1>4. CASE ~(Peaks(c) /\ Len(c) >= 2)
  <2>1. Closed(bs, c) = bs /\ Skips(ss, c) = Append(ss, c)
    BY <1>4 DEF Closed, Skips
  <2> QED BY <1>1, <1>2, <2>1
<1> QED BY <1>3, <1>4

LEMMA FindReadingKeeps == ASSUME ScanInv, FindReading PROVE ScanInv'
<1> DEFINE i == pos + 1
           torn == TornIn(samples, pos, current)
           quiet == QuietIn(samples, pos, current, quietFor)
           idle == IdleIn(samples, pos, current, idleFor)
           cuts == current # <<>> /\ (torn \/ quiet > Limit \/ idle > Limit)
           fresh == cuts \/ current = <<>>
           pieces == ToSet(blocks) \union ToSet(skipped)
<1>1. scanStage = "find" /\ pos < Len(samples) /\ Power(i) # NoValue
  BY DEF FindReading
<1>2. /\ ScanTypeOK /\ samples \in Seq(Samples) /\ pos \in Nat /\ current \in Seq(Nat)
      /\ blocks \in Seq(Seq(Nat)) /\ skipped \in Seq(Seq(Nat))
      /\ idleFor \in Int /\ quietFor \in Int /\ inBreak \in BOOLEAN
      /\ InTime(samples) /\ pos <= Len(samples)
  BY <1>1, FindingFacts
<1>3. /\ PastOK(samples, pos, current, blocks, skipped) /\ CurrentOK(samples, pos, current)
      /\ ClocksOK(samples, pos, current, idleFor, quietFor, inBreak)
      /\ RunsOK(samples, pos, pieces, current)
      /\ PartedOK(samples, pos, current)
  BY <1>1, FindingFacts
<1>4. i \in Known(samples) /\ i \in Nat /\ i <= Len(samples) /\ samples[i].power \in Int
  <2>1. i \in Nat /\ i <= Len(samples) /\ i \in 1..Len(samples)
    BY <1>1, <1>2, SampleFacts
  <2>2. samples[i].power # NoValue
    BY <1>1 DEF Power
  <2> QED
    BY <1>2, <2>1, <2>2, SampleFacts
<1>5. current # <<>> => (Torn(i) <=> torn)
  <2>1. SUFFICES ASSUME current # <<>> PROVE Torn(i) <=> torn
    OBVIOUS
  <2>2. Last(current) <= pos /\ Last(current) \in Known(samples)
    BY <1>2, <1>3, <2>1, CurrentEnds
  <2>3. pos > 0
    BY <1>2, <2>2, SampleFacts
  <2>4. inBreak <=> pos \notin Known(samples)
    BY <1>3, <2>3 DEF ClocksOK
  <2> QED BY <2>1, <2>4 DEF Torn, TornIn, At
<1>6. QuietAfter(i) = quiet /\ IdleAfter(i) = idle
  BY DEF QuietAfter, IdleAfter, QuietIn, IdleIn, At, Power
<1>7. /\ pos' = i /\ inBreak' = FALSE
      /\ blocks' = IF cuts THEN Closed(blocks, current) ELSE blocks
      /\ skipped' = IF cuts THEN Skips(skipped, current) ELSE skipped
      /\ current' = IF fresh THEN <<i>> ELSE Append(current, i)
      /\ idleFor' = IF fresh \/ samples[i].power >= Active THEN 0 ELSE idle
      /\ quietFor' = IF fresh \/ samples[i].power >= Quiet THEN 0 ELSE quiet
      /\ UNCHANGED <<scanStage, readVars, samples, replayVars>>
  <2>1. cuts <=> current # <<>> /\ (Torn(i) \/ QuietAfter(i) > Limit \/ IdleAfter(i) > Limit)
    BY <1>5, <1>6
  <2> HIDE DEF cuts, quiet, idle, torn
  <2> QED BY <2>1, <1>6 DEF FindReading, Power
<1> HIDE DEF torn, quiet, idle
<1>8. /\ blocks' \in Seq(Seq(Nat)) /\ skipped' \in Seq(Seq(Nat)) /\ current' \in Seq(Nat)
      /\ idleFor' \in Int /\ quietFor' \in Int
      /\ PastOK(samples, i, current', blocks', skipped') /\ CurrentOK(samples, i, current')
      /\ ClocksOK(samples, i, current', idleFor', quietFor', FALSE)
      /\ RunsOK(samples, i, ToSet(blocks') \union ToSet(skipped'), current')
      /\ PartedOK(samples, i, current')
  <2>1. CASE current = <<>>
    <3> DEFINE one == <<i>>
    <3>1. /\ blocks' = blocks /\ skipped' = skipped /\ current' = one /\ idleFor' = 0 /\ quietFor' = 0
      BY <1>7, <2>1
    <3>2. PastOK(samples, i, one, blocks, skipped)
      BY <1>2, <1>3, <2>1, StepPast
    <3>3. CurrentOK(samples, i, one) /\ ClocksOK(samples, i, one, 0, 0, FALSE)
      BY <1>2, <1>4, FreshCurrent
    <3>4. CurrentOK(samples, pos, <<>>)
      BY <1>3, <2>1
    <3>5. RunsOK(samples, i, pieces, one) /\ PartedOK(samples, i, one)
      BY <1>2, <1>4, <3>4, FirstRuns
    <3>6. one \in Seq(Nat)
      BY <1>4, OneElement
    <3> HIDE DEF one
    <3>7. PastOK(samples, i, current', blocks', skipped') /\ CurrentOK(samples, i, current')
      BY <3>1, <3>2, <3>3
    <3>8. ClocksOK(samples, i, current', idleFor', quietFor', FALSE) /\ PartedOK(samples, i, current')
      BY <3>1, <3>3, <3>5
    <3>9. RunsOK(samples, i, ToSet(blocks') \union ToSet(skipped'), current')
      BY <3>1, <3>5
    <3>10. /\ blocks' \in Seq(Seq(Nat)) /\ skipped' \in Seq(Seq(Nat)) /\ current' \in Seq(Nat)
           /\ idleFor' \in Int /\ quietFor' \in Int
      BY <1>2, <3>1, <3>6
    <3> QED BY <3>7, <3>8, <3>9, <3>10
  <2>2. CASE current # <<>> /\ ~cuts
    <3>1. /\ blocks' = blocks /\ skipped' = skipped /\ current' = Append(current, i)
          /\ idleFor' = (IF samples[i].power >= Active THEN 0 ELSE idle)
          /\ quietFor' = (IF samples[i].power >= Quiet THEN 0 ELSE quiet)
      BY <1>7, <2>2
    <3>2. PastOK(samples, i, Append(current, i), blocks, skipped)
      BY <1>2, <1>3, <2>2, StepPast
    <3>3. ~TornIn(samples, pos, current) /\ ~(IdleIn(samples, pos, current, idleFor) > Limit)
      BY <2>2 DEF torn, idle
    <3>4. CurrentOK(samples, i, Append(current, i))
      BY <1>2, <1>3, <1>4, <2>2, <3>3, LongerCurrent
    <3>5. /\ ClocksOK(samples, i, Append(current, i), idleFor', quietFor', FALSE)
          /\ idleFor' \in Int /\ quietFor' \in Int
      <4> PICK newIdle, newQuiet : newIdle = idleFor' /\ newQuiet = quietFor'
        OBVIOUS
      <4>1. newIdle = IF samples[pos + 1].power >= Active THEN 0 ELSE IdleIn(samples, pos, current, idleFor)
        BY <3>1 DEF idle
      <4>2. newQuiet = IF samples[pos + 1].power >= Quiet THEN 0 ELSE QuietIn(samples, pos, current, quietFor)
        BY <3>1 DEF quiet
      <4>3. ClocksOK(samples, pos + 1, Append(current, pos + 1), newIdle, newQuiet, FALSE)
            /\ newIdle \in Int /\ newQuiet \in Int
        BY <1>2, <1>3, <1>4, <2>2, <4>1, <4>2, LongerClocks
      <4> QED BY <4>3
    <3>6. \A b \in pieces : \A j \in ToSet(b) : j \in Nat /\ j <= pos
      BY <1>2, <1>3, PieceFacts
    <3>7. RunsOK(samples, i, pieces, Append(current, i)) /\ PartedOK(samples, i, Append(current, i))
      BY <1>2, <1>3, <1>4, <2>2, <3>3, <3>6, LongerRuns
    <3>8. Append(current, i) \in Seq(Nat)
      BY <1>2, <1>4, AppendedElements
    <3> QED BY <1>2, <3>1, <3>2, <3>4, <3>5, <3>7, <3>8
  <2>3. CASE current # <<>> /\ cuts
    <3> DEFINE one == <<i>>
    <3>1. /\ blocks' = Closed(blocks, current) /\ skipped' = Skips(skipped, current) /\ current' = one
          /\ idleFor' = 0 /\ quietFor' = 0
      BY <1>7, <2>3
    <3>2. /\ blocks' \in Seq(Seq(Nat)) /\ skipped' \in Seq(Seq(Nat))
          /\ PastOK(samples, pos, <<>>, blocks', skipped')
          /\ ToSet(blocks') \union ToSet(skipped') = pieces \union {current}
      BY <1>2, <1>3, <2>3, <3>1, ClosePieces
    <3>3. PastOK(samples, i, one, blocks', skipped')
      <4> PICK bs, ss : bs = blocks' /\ ss = skipped'
        OBVIOUS
      <4>1. bs \in Seq(Seq(Nat)) /\ ss \in Seq(Seq(Nat)) /\ <<>> \in Seq(Nat) /\ PastOK(samples, pos, <<>>, bs, ss)
        BY <3>2, EmptySeq
      <4>2. PastOK(samples, pos + 1, <<pos + 1>>, bs, ss)
        BY <1>2, <4>1, StepPast
      <4> QED BY <4>2
    <3>4. CurrentOK(samples, i, one) /\ ClocksOK(samples, i, one, 0, 0, FALSE)
      BY <1>2, <1>4, FreshCurrent
    <3>5. torn \/ idle > Limit
      <4>1. quiet > Limit => idle > Limit
        <5> PICK newIdle : newIdle = IF samples[pos + 1].power >= Active THEN 0 ELSE IdleIn(samples, pos, current, idleFor)
          OBVIOUS
        <5> PICK newQuiet : newQuiet = IF samples[pos + 1].power >= Quiet THEN 0 ELSE QuietIn(samples, pos, current, quietFor)
          OBVIOUS
        <5>1. QuietIn(samples, pos, current, quietFor) > Limit => IdleIn(samples, pos, current, idleFor) > Limit
          BY <1>2, <1>3, <1>4, <2>3, LongerClocks
        <5> QED BY <5>1 DEF quiet, idle
      <4> QED BY <2>3, <4>1
    <3>6. \A b \in pieces : \A j \in ToSet(b) : j \in Nat /\ j <= pos
      BY <1>2, <1>3, PieceFacts
    <3>7. RunsOK(samples, i, pieces \union {current}, one) /\ PartedOK(samples, i, one)
      BY <1>2, <1>3, <1>4, <2>3, <3>5, <3>6, CutRuns DEF torn, idle
    <3>8. one \in Seq(Nat)
      BY <1>4, OneElement
    <3> HIDE DEF one
    <3>9. PastOK(samples, i, current', blocks', skipped') /\ CurrentOK(samples, i, current')
      BY <3>1, <3>3, <3>4
    <3>10. ClocksOK(samples, i, current', idleFor', quietFor', FALSE) /\ PartedOK(samples, i, current')
      BY <3>1, <3>4, <3>7
    <3>11. RunsOK(samples, i, ToSet(blocks') \union ToSet(skipped'), current')
      BY <3>1, <3>2, <3>7
    <3>12. /\ blocks' \in Seq(Seq(Nat)) /\ skipped' \in Seq(Seq(Nat)) /\ current' \in Seq(Nat)
           /\ idleFor' \in Int /\ quietFor' \in Int
      BY <3>1, <3>2, <3>8
    <3> QED BY <3>9, <3>10, <3>11, <3>12
  <2> QED BY <2>1, <2>2, <2>3
<1>9. ScanTypeOK'
  BY <1>2, <1>4, <1>7, <1>8 DEF ScanTypeOK, readVars
<1>10. ReaderInv'
  BY <1>1, <1>7 DEF ScanInv, ReaderInv, readVars
<1>11. FinderInv'
  BY <1>1, <1>2, <1>4, <1>7, <1>8 DEF FinderInv
<1> QED BY <1>9, <1>10, <1>11 DEF ScanInv

LEMMA BuildKeeps == ASSUME ScanInv, Build PROVE ScanInv'
<1> DEFINE pieces == ToSet(blocks) \union ToSet(skipped)
<1>1. /\ scanStage = "find" /\ pos = Len(samples)
      /\ blocks' = Closed(blocks, current) /\ skipped' = Skips(skipped, current) /\ current' = <<>>
      /\ scanStage' \in {"failed", "replay"}
      /\ UNCHANGED <<readVars, samples, pos, quietFor, idleFor, inBreak, captured, truncated>>
  BY DEF Build
<1>2. /\ ScanTypeOK /\ samples \in Seq(Samples) /\ pos \in Nat /\ current \in Seq(Nat)
      /\ blocks \in Seq(Seq(Nat)) /\ skipped \in Seq(Seq(Nat))
      /\ InTime(samples) /\ pos <= Len(samples)
  BY <1>1, FindingFacts
<1>3. /\ PastOK(samples, pos, current, blocks, skipped) /\ CurrentOK(samples, pos, current)
      /\ RunsOK(samples, pos, pieces, current)
  BY <1>1, FindingFacts
<1>4. ToSet(<<>>) = {}
  BY DEF ToSet
<1>5. /\ blocks' \in Seq(Seq(Nat)) /\ skipped' \in Seq(Seq(Nat))
      /\ PastOK(samples, pos, <<>>, blocks', skipped')
      /\ RunsOK(samples, pos, ToSet(blocks') \union ToSet(skipped'), <<>>)
  <2>1. CASE current = <<>>
    <3>1. ~Peaks(current)
      BY <2>1 DEF Peaks
    <3>2. blocks' = blocks /\ skipped' = skipped
      BY <1>1, <2>1, <3>1 DEF Closed, Skips
    <3> QED BY <1>2, <1>3, <2>1, <3>2
  <2>2. CASE current # <<>>
    <3>1. /\ blocks' \in Seq(Seq(Nat)) /\ skipped' \in Seq(Seq(Nat))
          /\ PastOK(samples, pos, <<>>, blocks', skipped')
          /\ ToSet(blocks') \union ToSet(skipped') = pieces \union {current}
      BY <1>1, <1>2, <1>3, <2>2, ClosePieces
    <3>2. RunsOK(samples, pos, pieces \union {current}, <<>>)
      <4>1. \A i, k : OneOf((pieces \union {current}) \union {<<>>}, i, k) <=> OneOf(pieces \union {current}, i, k)
        BY <1>4 DEF OneOf
      <4> QED BY <1>3, <4>1 DEF RunsOK
    <3> QED BY <3>1, <3>2
  <2> QED BY <2>1, <2>2
<1>6. ScanTypeOK'
  BY <1>1, <1>2, <1>5, EmptySeq DEF ScanTypeOK, ScanStages, readVars
<1>7. ReaderInv'
  BY <1>1 DEF ScanInv, ReaderInv, readVars
<1>8. FinderInv'
  BY <1>1, <1>2, <1>5 DEF FinderInv
<1> QED BY <1>6, <1>7, <1>8 DEF ScanInv

LEMMA ReplayKeeps ==
    ASSUME ScanInv, UNCHANGED <<readVars, samples, findVars>>, scanStage \in {"replay", "over"},
           scanStage' \in {"replay", "over"}
    PROVE  ScanInv'
BY DEF ScanInv, ScanTypeOK, ScanStages, ReaderInv, FinderInv, readVars, findVars

LEMMA ScanStep == ScanInv /\ [ScanNext]_scanVars => ScanInv'
<1> SUFFICES ASSUME ScanInv, [ScanNext]_scanVars PROVE ScanInv'
  OBVIOUS
<1>1. CASE \E row \in RowsInFile : ReadRow(row)
  BY <1>1, ReadRowKeeps
<1>2. CASE \E r \in Readings : ReadState(r)
  BY <1>2, ReadStateKeeps
<1>3. CASE EndOfFile
  BY <1>3, EndOfFileKeeps
<1>4. CASE ReadingsDone
  BY <1>4, ReadingsDoneKeeps
<1>5. CASE FindBreak
  BY <1>5, FindBreakKeeps
<1>6. CASE FindReading
  BY <1>6, FindReadingKeeps
<1>7. CASE Build
  BY <1>7, BuildKeeps
<1>8. CASE Finalize
  BY <1>8, ReplayKeeps DEF Finalize
<1>9. CASE \E k \in DOMAIN streams : Feed(k) \/ \E clean \in BOOLEAN : Flush(k, clean)
  <2>1. scanStage = "replay" /\ UNCHANGED <<scanStage, readVars, samples, findVars>>
    BY <1>9 DEF Feed, Flush, Block
  <2> QED BY <2>1, ReplayKeeps
<1>10. CASE UNCHANGED scanVars
  BY <1>10 DEF scanVars, ScanInv, ScanTypeOK, ReaderInv, FinderInv, NotBegun, readVars, findVars
<1> QED BY <1>1, <1>2, <1>3, <1>4, <1>5, <1>6, <1>7, <1>8, <1>9, <1>10 DEF ScanNext

-----------------------------------------------------------------------------
\* The operators above, of the samples, are the notions of the property.
LEMMA AsModelled ==
    ASSUME samples \in Seq(Samples)
    PROVE  /\ \A i : i \in Measured <=> i \in Known(samples)
           /\ \A i : i \in Working <=> i \in Runs(samples)
           /\ Measured = Known(samples)
           /\ \A i, k : Hole(i, k) <=> HoleIn(samples, i, k)
           /\ \A b : Spans(samples, b) => Unbroken(b)
<1>1. Measured = Known(samples) /\ Working = Runs(samples)
  BY DEF Measured, Working, Known, Runs, Power
<1>2. \A from, to \in Known(samples) :
          Known(samples) \intersect ((from + 1)..(to - 1)) = {} <=> \A j \in Known(samples) : ~(from < j /\ j < to)
  <2>1. SUFFICES ASSUME NEW from \in Known(samples), NEW to \in Known(samples)
                 PROVE  Known(samples) \intersect ((from + 1)..(to - 1)) = {}
                            <=> \A j \in Known(samples) : ~(from < j /\ j < to)
    OBVIOUS
  <2>2. \A j \in Known(samples) : j \in Int
    BY SampleFacts
  <2>3. \A j \in Known(samples) : j \in (from + 1)..(to - 1) <=> from < j /\ j < to
    BY <2>1, <2>2
  <2> QED BY <2>3
<1>3. \A i, k : Hole(i, k) <=> HoleIn(samples, i, k)
  BY <1>1, <1>2 DEF Hole, HoleIn, At
<1>4. ASSUME NEW b, Spans(samples, b) PROVE Unbroken(b)
  <2>1. /\ b # <<>> /\ \A m, n \in DOMAIN b : m < n => b[m] < b[n]
    BY <1>4 DEF Spans, Increases
  <2>2. \A i : i \in ToSet(b) <=> i \in Measured /\ b[1] <= i /\ i <= Last(b)
    BY <1>1, <1>4 DEF Spans
  <2>3. ToSet(b) = {i \in Measured : b[1] <= i /\ i <= Last(b)}
    BY <2>2
  <2> QED BY <2>1, <2>3 DEF Unbroken
<1> QED BY <1>1, <1>3, <1>4

LEMMA FoundWhole == ScanInv => RunsWhole
<1> SUFFICES ASSUME ScanInv, pos > 0, pos = Len(samples), current = <<>>
             PROVE  RunsApart /\ AllAccounted
  BY DEF RunsWhole
<1>1. samples \in Seq(Samples) /\ ToSet(<<>>) = {}
  BY DEF ScanInv, ScanTypeOK, ToSet
<1>2. scanStage \notin {"csv", "recorder"}
  BY DEF ScanInv, FinderInv, NotBegun
<1>3. /\ PastOK(samples, pos, current, blocks, skipped)
      /\ RunsOK(samples, pos, ToSet(blocks) \union ToSet(skipped), current)
  BY <1>2 DEF ScanInv, FinderInv
<1>4. /\ \A i : i \in Known(samples) => i \in Nat /\ i <= pos
      /\ \A i : i \in Runs(samples) => i \in Nat /\ i <= pos
  BY <1>1, SampleFacts
<1>5. RunsApart
  <2>1. SUFFICES ASSUME NEW i \in Working, NEW k \in Working, i < k,
                        Working \intersect ((i + 1)..(k - 1)) = {}
                 PROVE  Together(i, k) <=> At(k) - At(i) <= Limit /\ ~Hole(i, k)
    BY DEF RunsApart
  <2>2. i \in Runs(samples) /\ k \in Runs(samples) /\ i \in Nat /\ k \in Nat /\ k <= pos
    BY <1>1, <1>4, AsModelled
  <2>3. \A j \in Runs(samples) : ~(i < j /\ j < k)
    <3>1. SUFFICES ASSUME NEW j \in Runs(samples), i < j, j < k PROVE FALSE
      OBVIOUS
    <3>2. j \in Working /\ j \in Nat
      BY <1>1, <1>4, AsModelled
    <3>3. j \in (i + 1)..(k - 1)
      BY <2>2, <3>1, <3>2
    <3> QED BY <2>1, <3>2, <3>3
  <2>4. Adjacent(samples, i, k)
    BY <2>1, <2>2, <2>3 DEF Adjacent
  <2>5. OneOf((ToSet(blocks) \union ToSet(skipped)) \union {current}, i, k) <=> Near(samples, i, k)
    BY <1>3, <2>2, <2>4 DEF RunsOK
  <2>6. Together(i, k) <=> OneOf((ToSet(blocks) \union ToSet(skipped)) \union {current}, i, k)
    BY <1>1 DEF Together, Pieces, OneOf
  <2>7. Near(samples, i, k) <=> At(k) - At(i) <= Limit /\ ~Hole(i, k)
    BY <1>1, AsModelled DEF Near, At
  <2> QED BY <2>5, <2>6, <2>7
<1>6. AllAccounted
  <2>1. \A b \in Pieces : Unbroken(b)
    BY <1>1, <1>3, AsModelled DEF PastOK, Pieces
  <2>2. Successive(blocks) /\ Successive(skipped)
    BY <1>3 DEF PastOK
  <2>3. \A b \in ToSet(blocks), c \in ToSet(skipped) : ToSet(b) \intersect ToSet(c) = {}
    BY <1>3 DEF PastOK
  <2>4. \A i \in Measured : \E b \in Pieces : i \in ToSet(b)
    <3>1. \A i \in Known(samples) : i <= pos =>
              i \in ToSet(current) \/ \E b \in ToSet(blocks) \union ToSet(skipped) : i \in ToSet(b)
      BY <1>3 DEF PastOK
    <3>2. ToSet(current) = {}
      BY <1>1
    <3> QED BY <1>1, <1>4, <3>1, <3>2, AsModelled DEF Pieces
  <2> QED BY <2>1, <2>2, <2>3, <2>4 DEF AllAccounted
<1> QED BY <1>5, <1>6

LEMMA ReadPure == ScanInv => OneAppliance
BY DEF ScanInv, ReaderInv, OneAppliance, PureOf

(* What a scan finds, before blocks are trimmed and gated, is the          *)
(* configured appliance's runs, each whole: the rows of an export that are *)
(* read are of one appliance, whatever order its entities come in          *)
(* (HistoryCsvParser.step, .result); and every row is                      *)
(* in one block or one skipped stretch, where two working readings next to *)
(* each other are together exactly when the time between them is within    *)
(* the cut threshold and no hole there is too long to bridge               *)
(* (_BlockFinder.step, _close).                                            *)
THEOREM RunsAreFoundWhole == ScanSpec => []RunsOfOneAppliance
<1>1. ScanInit => ScanInv
  BY ScanBegins
<1>2. ScanInv /\ [ScanNext]_scanVars => ScanInv'
  BY ScanStep
<1>3. ScanInv => RunsOfOneAppliance
  BY FoundWhole, ReadPure DEF RunsOfOneAppliance
<1> QED BY <1>1, <1>2, <1>3, PTL DEF ScanSpec
=============================================================================
