---------------------------- MODULE LiveTriggers ---------------------------
(***************************************************************************)
(* The live-cycle triggers of an entry (trigger_rules.LiveTriggerTracker   *)
(* and the manager's calls of it): on every refresh the tracker compares   *)
(* what the entities show with what it announced, and automations filter   *)
(* the occurrences by their own threshold (run_variables).  The marks of   *)
(* what was announced are kept in the active-cycle snapshot, so a restart  *)
(* announces nothing again, unless the cycle it restores does not show the *)
(* program the marks are of.                                               *)
(*                                                                         *)
(* A mark is a number of minutes left or of percent over; a phase is the   *)
(* place where its range starts.  An automation listens throughout, and no *)
(* profile is deleted while a restart restores a cycle of it.              *)
(***************************************************************************)
EXTENDS Integers

CONSTANTS
    Programs,      \* profiles a cycle is recognised as
    MaxMinutes,    \* bound: minutes left
    MaxPercent,    \* bound: percent over
    MaxPhases,     \* bound: phases of a program
    Estimates,     \* what the entities can show of a recognised cycle's progress
    None

NoMark == -1

\* known: there is a time remaining, trusted or not; left: the trusted one.
ASSUME TriggerAssumption ==
    /\ None \notin Programs /\ {MaxMinutes, MaxPercent, MaxPhases} \subseteq Nat
    /\ Estimates \subseteq [known : BOOLEAN, left : NoMark..MaxMinutes, over : NoMark..MaxPercent,
                            phase : (1..MaxPhases) \union {NoMark}]

Minutes == 1..MaxMinutes
Percents == 1..MaxPercent
Pauses == {"none", "user", "detected", "stalled"}
Listeners == {"user", "any"}

VARIABLES
    active,      \* a cycle whose start was announced and whose end was not
    shows,       \* the program the entities show: the one matched or chosen, None while detecting
    tracker,     \* the LiveTriggerTracker
    onDisk,      \* of the active-cycle snapshot: the marks, and the program shown with them
    writing,     \* a snapshot is being written
    soon, over,  \* history: how often an automation of each threshold ran in this cycle
    base,        \* history: the marks a baseline took without announcing them
    named,       \* history: the programs recognised last, and the phase after it
    again,       \* history: a program or a phase was announced twice running
    missed,      \* history: an automation's threshold was passed, and it had not run
    heard,       \* history: whether an automation heard of a pause, for each option
    lostMarks    \* history: a crash caught a snapshot being written, or a pause not in it

triggerVars == <<active, shows, tracker, onDisk, writing, soon, over, base,
                 named, again, missed, heard, lostMarks>>

NoEstimate == [known |-> FALSE, left |-> NoMark, over |-> NoMark, phase |-> NoMark]

\* What the entities of a cycle show: a program, a pause and an estimate.  There is one
\* only once a program is committed.
Seen(program, pause, e) ==
    [program |-> program, pause |-> pause, known |-> e.known, left |-> e.left, over |-> e.over,
     phase |-> e.phase]

\* _augment_active_snapshot: the marks, and the program shown.
SavedOf(t, g) ==
    [shows |-> g, program |-> t.program, phase |-> t.phase, minute |-> t.minute, percent |-> t.percent]

NoMarks == [shows |-> None, program |-> None, phase |-> NoMark, minute |-> NoMark, percent |-> NoMark]

NoTracker == [program |-> None, phase |-> NoMark, minute |-> NoMark, percent |-> NoMark,
              pause |-> "none", pending |-> FALSE]

TriggersInit ==
    /\ active = FALSE /\ shows = None /\ tracker = NoTracker
    /\ onDisk = NoMarks /\ writing = FALSE
    /\ soon = [n \in Minutes |-> 0] /\ over = [n \in Percents |-> 0]
    /\ base = [minute |-> NoMark, percent |-> NoMark]
    /\ named = [program |-> None, phase |-> NoMark] /\ again = FALSE /\ missed = FALSE
    /\ heard = [l \in Listeners |-> FALSE] /\ lostMarks = FALSE

-----------------------------------------------------------------------------
\* run_variables: an automation runs when its threshold lies between the marks.
RunsSoon(n, from, to) == to <= n /\ (from = NoMark \/ from > n)
RunsOver(n, from, to) == to >= n /\ (from = NoMark \/ from < n)

\* cycle_paused and cycle_resumed reach those who asked for detected pauses once per
\* pause, and the others with a user pause.
HearsPause(l, was, is) == is # "none" /\ IF l = "any" THEN was = "none" ELSE is = "user"

MutHearsResume(l, was, is) == was # "none" /\ (l = "user" => was = "user")

HearsResume(l, was, is) == was # "none" /\ IF l = "any" THEN is = "none" ELSE was = "user"

\* tick: the pause.
Paused(s) ==
    /\ heard' = [l \in Listeners |->
          IF s.pause = tracker.pause THEN heard[l]
          ELSE IF HearsPause(l, tracker.pause, s.pause) THEN TRUE
          ELSE IF HearsResume(l, tracker.pause, s.pause) THEN FALSE ELSE heard[l]]

\* A new program starts its phases afresh.
Recognised(t, s) ==
    IF s.program \in {None, t.program} THEN t ELSE [t EXCEPT !.program = s.program, !.phase = NoMark]

\* The first estimate of a restored cycle is taken as announced where it kept no mark.
FirstEstimate(t, s) ==
    IF ~t.pending THEN t
    ELSE [t EXCEPT !.pending = FALSE,
                   !.phase = IF @ = NoMark THEN s.phase ELSE @,
                   !.minute = IF @ = NoMark THEN s.left ELSE @,
                   !.percent = IF @ = NoMark THEN s.over ELSE @]

MutFell(t, s) == s.left # NoMark /\ (t.minute = NoMark \/ s.left # t.minute)

\* Minutes left only fall, percent over only rises, phases only move forward.
Fell(t, s) == s.left # NoMark /\ (t.minute = NoMark \/ s.left < t.minute)
Rose(t, s) == s.over # NoMark /\ (t.percent = NoMark \/ s.over > t.percent)
MovedOn(t, s) == s.phase # NoMark /\ (t.phase = NoMark \/ s.phase > t.phase)

\* The tracker waits for the first estimate after a restore with all of these.
Waits(t, s) == t.pending /\ ~s.known

Announced(t, s) ==
    IF Waits(t, s) THEN t
    ELSE LET f == FirstEstimate(t, s) IN
         [f EXCEPT !.phase = IF MovedOn(f, s) THEN s.phase ELSE @,
                   !.minute = IF Fell(f, s) THEN s.left ELSE @,
                   !.percent = IF Rose(f, s) THEN s.over ELSE @]

\* Announced as one of the occurrences a restart must not repeat.
Told(t, s) ==
    \/ s.program \notin {None, t.program}
    \/ LET f == FirstEstimate(Recognised(t, s), s) IN
       ~Waits(t, s) /\ (MovedOn(f, s) \/ Fell(f, s) \/ (Rose(f, s) /\ s.over >= 1))

Counted(s) ==
    LET t == Recognised(tracker, s)
        f == IF Waits(t, s) THEN t ELSE FirstEstimate(t, s)
        runs == ~Waits(t, s)
    IN /\ soon' = [n \in Minutes |-> soon[n] +
             (IF runs /\ Fell(f, s) /\ RunsSoon(n, f.minute, s.left) THEN 1 ELSE 0)]
       /\ over' = [n \in Percents |-> over[n] +
             (IF runs /\ Rose(f, s) /\ s.over >= 1 /\ RunsOver(n, f.percent, s.over) THEN 1 ELSE 0)]
       /\ base' = [minute |-> IF t.minute = NoMark THEN f.minute ELSE base.minute,
                   percent |-> IF t.percent = NoMark THEN f.percent ELSE base.percent]
       /\ missed' = \/ missed
                    \/ runs /\ \E n \in Minutes : s.left \in 0..n /\ soon'[n] = 0 /\ base'.minute \notin 0..n
                    \/ runs /\ \E n \in Percents : s.over >= n /\ over'[n] = 0 /\ base'.percent < n
       /\ again' = \/ again
                   \/ s.program \notin {None, tracker.program} /\ s.program = named.program
                   \/ /\ runs /\ MovedOn(f, s) /\ t.program = named.program
                      /\ named.phase # NoMark /\ s.phase <= named.phase
       /\ named' = [program |-> t.program,
                    phase |-> IF runs /\ MovedOn(f, s) THEN s.phase
                              ELSE IF t.program = named.program THEN named.phase ELSE NoMark]

\* A refresh during a cycle.  What must not be repeated is saved at once.
Refresh(s) ==
    /\ active
    /\ IF lostMarks THEN UNCHANGED <<soon, over, base, named, again, missed, heard>>
       ELSE Paused(s) /\ Counted(s)
    /\ shows' = s.program
    /\ tracker' = [Announced(Recognised(tracker, s), s) EXCEPT !.pause = s.pause]
    /\ writing' = (writing \/ Told(tracker, s))
    /\ UNCHANGED <<active, onDisk, lostMarks>>

\* The snapshot of every minute, of a pause, or of a resume.
SaveMarks ==
    /\ active /\ writing' = TRUE
    /\ UNCHANGED <<active, shows, tracker, onDisk, soon, over, base, named, again, missed, heard,
                   lostMarks>>

WriteMarks ==
    /\ writing /\ onDisk' = SavedOf(tracker, shows) /\ writing' = FALSE
    /\ UNCHANGED <<active, shows, tracker, soon, over, base, named, again, missed, heard, lostMarks>>

-----------------------------------------------------------------------------
\* new_cycle.
NewCycle(t) == [t EXCEPT !.program = None, !.phase = NoMark, !.minute = NoMark,
                         !.percent = NoMark, !.pending = FALSE]

CycleStarts ==
    /\ ~active
    /\ active' = TRUE /\ shows' = None /\ lostMarks' = FALSE
    /\ tracker' = NewCycle(tracker)
    /\ UNCHANGED <<onDisk, writing, soon, over, base, named, again, missed, heard>>

NothingHeard ==
    /\ soon' = [n \in Minutes |-> 0] /\ over' = [n \in Percents |-> 0]
    /\ base' = [minute |-> NoMark, percent |-> NoMark]
    /\ named' = [program |-> None, phase |-> NoMark] /\ again' = FALSE /\ missed' = FALSE
    /\ heard' = [l \in Listeners |-> FALSE]

NoCycle ==
    /\ active' = FALSE /\ shows' = None /\ onDisk' = NoMarks /\ writing' = FALSE
    /\ NothingHeard

\* The refresh after the end sees no cycle: the pause is over, and nobody is told of it.
CycleEnds ==
    /\ active /\ NoCycle
    /\ tracker' = [tracker EXCEPT !.pause = "none"]
    /\ UNCHANGED lostMarks

-----------------------------------------------------------------------------
\* baseline: the program and the pause the restored cycle shows, the marks it kept, and
\* the phase of them when they are of that program.  It shows no estimate yet.
Restored(saved, pause) ==
    [program |-> saved.shows, phase |-> IF saved.program = saved.shows THEN saved.phase ELSE NoMark,
     minute |-> saved.minute, percent |-> saved.percent, pause |-> pause, pending |-> TRUE]

Baseline(saved, pause) ==
    /\ active
    /\ tracker' = Restored(saved, pause)
    /\ shows' = saved.shows /\ onDisk' = saved /\ writing' = FALSE
    /\ UNCHANGED active

\* A restart of a cycle that does not show the program recognised last begins afresh.
ForgottenNames ==
    named' = IF tracker'.program = named.program THEN named
             ELSE [program |-> tracker'.program, phase |-> NoMark]

\* An unload saves the cycle as it is.
ReloadEntry ==
    /\ Baseline(SavedOf(tracker, shows), tracker.pause)
    /\ IF lostMarks THEN UNCHANGED named ELSE ForgottenNames
    /\ UNCHANGED <<soon, over, base, again, missed, heard, lostMarks>>

Dies(pause) ==
    /\ Baseline(onDisk, pause)
    /\ lostMarks' = (lostMarks \/ writing \/ pause # tracker.pause)
    /\ IF lostMarks' THEN NothingHeard
       ELSE ForgottenNames /\ UNCHANGED <<soon, over, base, again, missed, heard>>

\* The snapshot is too old, or the cycle over: the restart drops it.
DroppedAtRestart ==
    /\ active
    /\ NoCycle /\ tracker' = NoTracker
    /\ UNCHANGED lostMarks

TriggersNext ==
    \/ \E p \in Pauses : \/ Refresh(Seen(None, p, NoEstimate)) \/ Dies(p)
                       \/ \E g \in Programs, e \in Estimates : Refresh(Seen(g, p, e))
    \/ SaveMarks \/ WriteMarks \/ CycleStarts \/ CycleEnds
    \/ ReloadEntry \/ DroppedAtRestart

TriggersSpec == TriggersInit /\ [][TriggersNext]_triggerVars

-----------------------------------------------------------------------------
(* "Each automation fires exactly once for its own threshold whatever      *)
(* value it chose, and a restart cannot replay a crossing": while the      *)
(* minutes left stay within a threshold its automation has run once in the *)
(* cycle, unless the first estimate after a restart was there already; and *)
(* likewise for the percent over.  No program is recognised, and no phase  *)
(* of a program announced, twice running, though estimates step back and   *)
(* the entry restarts.  But for a crash before the marks were on disk, and *)
(* but for a restart of a cycle that did not show the program recognised   *)
(* last when it was saved, as it was being detected again: that forgets    *)
(* the program and its phase, which may then be announced again.           *)
CrossedOnce ==
    active /\ ~lostMarks =>
        ~missed /\ ~again /\ (\A n \in Minutes : soon[n] <= 1) /\ (\A n \in Percents : over[n] <= 1)

(* What automations heard of pauses is what the entities show: of the      *)
(* user's for those who asked for these, of any for the others, however    *)
(* one kind gives way to another.                                          *)
HeardOfPause ==
    active /\ ~lostMarks => /\ heard["user"] = (tracker.pause = "user")
                      /\ heard["any"] = (tracker.pause # "none")

\* What automations hear of a cycle: each threshold once, and every pause as shown.
HeardAsShown == CrossedOnce /\ HeardOfPause
=============================================================================
