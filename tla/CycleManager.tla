---------------------------- MODULE CycleManager ----------------------------
(***************************************************************************)
(* The appliance manager (manager.py) around one detector: the matching    *)
(* task, the tail that files an ended cycle, the user's programme choice,  *)
(* pause and resume on a device whose pause cuts the power, the expiry of  *)
(* a shown end, and the events that announce a cycle.                      *)
(*                                                                         *)
(* The detector is taken by what it promises: its steps are CycleLifecycle's*)
(* (which CycleDetector implements) for a device without delayed start.    *)
(* An action is the code between two awaits.                               *)
(***************************************************************************)
EXTENDS CycleLifecycle, Naturals

CONSTANTS
    Programs,     \* the profiles of the device
    None,         \* no programme
    MaxStarts     \* bound: probes and cycles begun

ASSUME ManagerAssumption ==
    /\ MaxStarts \in Nat
    /\ None \notin Programs /\ Programs \intersect {"off", "detecting"} = {}
    /\ None \notin {"off", "detecting"}
    /\ Statuses \intersect {"idle", "waiting", "probing", "cycle"} = {}

VARIABLES
    last,     \* the number of starts so far: each start has its own
    det,      \* the detector's fields the manager reads and writes
    mgr,      \* the manager's fields
    match,    \* the matching task, with the identity it was dispatched for
    call,     \* the switch calls of pause and resume
    tail,     \* the cycle-end task of each cycle
    snap,     \* the start whose active-cycle snapshot is stored, 0 if none
    told,     \* history: what was announced of each cycle
    label,    \* history: how each ended cycle was labelled
    pick      \* history: the user's programme for each cycle

managerVars == <<last, det, mgr, match, call, tail, snap, told, label, pick>>
vars == <<lifecycleVars, managerVars>>

Start == 1..MaxStarts
Live == {"probing", "cycle"}

\* cyc: current_cycle_start     vp: _verified_pause
\* matched: the cycle whose trace gave _matched_profile, 0 without one
FreshDetector == [cyc |-> 0, vp |-> FALSE, matched |-> 0]

\* token: _ranking_snapshot_cycle_id       program, from: _current_program and
\* the cycle it was chosen for             manual: _manual_program_active
\* armed: _armed_program                   up: _is_user_paused
\* begun: _cycle_start_time                completed: _cycle_completed_time is set
\* expiry: the state expiry timer runs     owed: _cycle_ended_pending
FreshManager ==
    [token |-> 0, program |-> "off", from |-> 0, manual |-> FALSE, armed |-> None,
     up |-> FALSE, begun |-> 0, completed |-> FALSE, expiry |-> FALSE, owed |-> FALSE]

Idle == [at |-> "idle", token |-> 0, cyc |-> 0]

\* The locals _async_cycle_end_steps freezes before its first await.
NoTail == [at |-> "none", token |-> 0, program |-> "off", from |-> 0,
           manual |-> FALSE, owed |-> FALSE]

Unlabelled == [by |-> "nobody", program |-> None, from |-> 0]

Busy(c) == tail[c].at \in {"matching", "storing", "closing"}

\* Mutant: the tail of an ended cycle never looks for a newer one.
MutSameCycle(c) == TRUE

\* No newer cycle has taken the identity the tail of c froze.
SameCycle(c) == mgr.token = tail[c].token

Init ==
    /\ LifecycleInit
    /\ last = 0 /\ snap = 0
    /\ det = FreshDetector /\ mgr = FreshManager /\ match = Idle
    /\ call = [pausing |-> FALSE, prev |-> FALSE, resuming |-> FALSE]
    /\ tail = [c \in Start |-> NoTail]
    /\ told = [c \in Start |-> [start |-> 0, bus |-> 0, ended |-> 0]]
    /\ label = [c \in Start |-> Unlabelled]
    /\ pick = [c \in Start |-> None]

\* The event and, with it, the trigger of a start that was announced.
BusTold(c) == [told EXCEPT ![c].bus = @ + 1]
EndTold(c) == [BusTold(c) EXCEPT ![c].ended = @ + 1]

-----------------------------------------------------------------------------
\* A reading that moves the detector nowhere.  In STARTING the estimates go back
\* to "off"; a snapshot is saved once a minute.
Reading ==
    /\ Stay
    /\ mgr' = [mgr EXCEPT
                  !.begun = IF @ = 0 THEN det.cyc ELSE @,
                  !.program = IF phase = "probing" THEN "off" ELSE @,
                  !.from = IF phase = "probing" THEN 0 ELSE @]
    /\ snap' \in IF phase \in Live THEN {snap, det.cyc} ELSE {snap}
    /\ UNCHANGED <<last, det, match, call, tail, told, label, pick>>

StartProbe ==
    /\ BeginProbe
    /\ last < MaxStarts
    /\ last' = last + 1
    /\ det' = [det EXCEPT !.cyc = last']
    /\ mgr' = [mgr EXCEPT !.begun = IF @ = 0 THEN last' ELSE @, !.program = "off", !.from = 0]
    /\ UNCHANGED <<match, call, tail, snap, told, label, pick>>

\* STARTING -> RUNNING: a new identity, everything of the last cycle reset, the
\* armed programme consumed, the start announced.
CommitCycle ==
    /\ Commit
    /\ mgr' = [token |-> det.cyc,
               program |-> IF mgr.armed # None THEN mgr.armed ELSE "detecting",
               from |-> det.cyc, manual |-> mgr.armed # None, armed |-> None,
               up |-> FALSE, begun |-> det.cyc, completed |-> FALSE, expiry |-> FALSE,
               owed |-> TRUE]
    /\ told' = [told EXCEPT ![det.cyc].start = @ + 1]
    /\ pick' = [pick EXCEPT ![det.cyc] = mgr.armed]
    /\ UNCHANGED <<last, det, match, call, tail, snap, label>>

\* Only the return to a shown end forgets the start (cycle_detector.py, 1498).
AbortProbe ==
    /\ FalseStart
    /\ det' = [det EXCEPT !.cyc = IF phase' = "idle" THEN @ ELSE 0]
    /\ mgr' = [mgr EXCEPT !.begun = 0]
    /\ UNCHANGED <<last, match, call, tail, snap, told, label, pick>>

\* Mutant: the end still owed is not handed over to this cycle's end.
MutEnded == [mgr EXCEPT !.expiry = FALSE, !.begun = IF phase = "probing" THEN 0 ELSE @]

\* What _on_cycle_end takes from the manager; leaving STARTING clears the start.
Ended == [mgr EXCEPT !.owed = FALSE, !.expiry = FALSE,
                     !.begun = IF phase = "probing" THEN 0 ELSE @]

\* Mutant: the discarded end is anchored but no timer is started for it.
MutDiscarded(m) == [m EXCEPT !.completed = TRUE]

\* _discard_cycle_cleanup
Discarded(m) == [m EXCEPT !.completed = TRUE, !.expiry = TRUE]

\* _finish_cycle calls _on_cycle_end and then resets the detector to the shown
\* end.  A ghost or pump-out is discarded; any other end gets a tail.
EndCycle(s) ==
    /\ phase \in Live /\ Close(s)
    /\ det' = FreshDetector
    /\ LET c == det.cyc
       IN \/ /\ mgr' = Discarded(Ended)
             /\ snap' = 0
             /\ told' = IF mgr.owed THEN EndTold(c) ELSE told
             /\ UNCHANGED tail
          \/ /\ mgr' = Ended
             /\ tail' = [tail EXCEPT ![c] =
                           [at |-> "matching", token |-> mgr.token, program |-> mgr.program,
                            from |-> mgr.from, manual |-> mgr.manual, owed |-> mgr.owed]]
             /\ UNCHANGED <<snap, told>>
    /\ UNCHANGED <<last, match, call, label, pick>>

\* The detector leaves a shown end by itself or by user_stop.
LeaveEnd ==
    /\ phase \in Statuses /\ Leave
    /\ det' = FreshDetector
    /\ mgr' = [mgr EXCEPT !.begun = 0]
    /\ UNCHANGED <<last, match, call, tail, snap, told, label, pick>>

\* The expiry timer spares RUNNING and STARTING, not PAUSED and ENDING.
Expire ==
    /\ mgr.expiry /\ mgr.completed /\ phase # "probing"
    /\ IF phase = "idle" THEN Stay ELSE Leave
    /\ det' = FreshDetector
    /\ mgr' = [mgr EXCEPT !.completed = FALSE, !.expiry = FALSE,
                          !.begun = IF phase = "idle" THEN @ ELSE 0]
    /\ UNCHANGED <<last, match, call, tail, snap, told, label, pick>>

\* async_start_recording drops what the detector has: no cycle end is called, so
\* the end owed to an announced start is sent here.
DropCycle ==
    /\ Leave
    /\ told' = IF mgr.owed THEN EndTold(det.cyc) ELSE told
    /\ det' = FreshDetector
    /\ mgr' = [mgr EXCEPT !.owed = FALSE, !.manual = FALSE, !.up = FALSE, !.begun = 0]
    /\ snap' = 0
    /\ UNCHANGED <<last, match, call, tail, label, pick>>

-----------------------------------------------------------------------------
\* The matching task.  The identity is captured at dispatch and compared after
\* every await.
\*
\* Mutant: only the cycle's identity is compared, not the detector's start and state.
MutCurrent == match.token = mgr.token

\* _match_still_current
Current == /\ match.token = mgr.token /\ match.cyc = det.cyc
           /\ phase \in Live

Dispatch ==
    /\ phase = "cycle" /\ match.at = "idle" /\ ~mgr.manual
    /\ match' = [at |-> "matching", token |-> mgr.token, cyc |-> det.cyc]
    /\ Stay
    /\ UNCHANGED <<last, det, mgr, call, tail, snap, told, label, pick>>

Discard ==
    /\ match.at # "idle" /\ ~Current
    /\ match' = Idle
    /\ Stay
    /\ UNCHANGED <<last, det, mgr, call, tail, snap, told, label, pick>>

\* begin_tick, decide_switch, consistency_override: keep, switch, commit, unmatch.
Switched == {mgr} \union {[mgr EXCEPT !.program = p, !.from = match.cyc] :
                             p \in Programs \union {"detecting"}}

\* Mutant: the evidence alone decides.
MutPauseKept(v) == v

\* The body raised after an await, with or without the programme switched.
MatchFails ==
    /\ match.at # "idle" /\ Current
    /\ mgr' \in Switched
    /\ match' = Idle
    /\ Stay
    /\ UNCHANGED <<last, det, call, tail, snap, told, label, pick>>

\* decide_pause_release ends with the user's pause, whatever the evidence said.
PauseKept(v) == mgr.up \/ v

Push(pauses) ==
    /\ \E v \in pauses, m \in {0, det.matched, match.cyc} :
          det' = [det EXCEPT !.vp = PauseKept(v), !.matched = m]
    /\ match' = Idle

\* The match came back: either it is pushed at once, or the alignment of a
\* matched cycle at low power is checked first.
MatchReturns ==
    /\ match.at = "matching" /\ Current
    /\ mgr' \in Switched
    /\ \/ Push({det.vp, FALSE})
       \/ /\ det.matched # 0 /\ ~mgr.up
          /\ match' = [match EXCEPT !.at = "aligning"]
          /\ UNCHANGED det
    /\ Stay
    /\ UNCHANGED <<last, call, tail, snap, told, label, pick>>

AlignmentReturns ==
    /\ match.at = "aligning" /\ Current
    /\ mgr' \in Switched
    /\ Push(BOOLEAN)
    /\ Stay
    /\ UNCHANGED <<last, call, tail, snap, told, label, pick>>

\* The detector releases a verified pause by itself, never the user's.
ReleasePause ==
    /\ phase = "cycle" /\ det.vp /\ ~mgr.up
    /\ det' = [det EXCEPT !.vp = FALSE]
    /\ Stay
    /\ UNCHANGED <<last, mgr, match, call, tail, snap, told, label, pick>>

-----------------------------------------------------------------------------
\* Mutant: the flag is read after the await, when it may be the next cycle's.
MutByHand(c, shown) == mgr.manual /\ shown \in Programs

\* Mutant: a placeholder is taken for a programme.
\* The user named the programme of c.
ByHand(c, shown) == tail[c].manual /\ shown \in Programs

\* The tail of an ended cycle.  The complete match names a cycle that never
\* committed, and labels it unless the user did.
FinalMatch(c) ==
    /\ tail[c].at = "matching"
    /\ \E best \in Programs \union {None}, sure \in BOOLEAN :
          LET named == tail[c].program = "detecting" /\ best # None
              shown == IF named THEN best ELSE tail[c].program
              hand == ByHand(c, shown)
          IN /\ sure => best # None
             /\ tail' = [tail EXCEPT ![c].at = "storing", ![c].program = shown,
                                     ![c].from = IF named THEN c ELSE @]
             /\ mgr' = IF named /\ SameCycle(c)
                       THEN [mgr EXCEPT !.program = best, !.from = c] ELSE mgr
             /\ label' = [label EXCEPT ![c] =
                  CASE hand -> [by |-> "user", program |-> shown, from |-> tail[c].from]
                    [] ~hand /\ sure -> [by |-> "match", program |-> best, from |-> c]
                    [] OTHER -> [by |-> "nobody", program |-> None, from |-> c]]
    /\ Stay
    /\ UNCHANGED <<last, det, match, call, snap, told, pick>>

\* From async_add_cycle to the last step: the snapshot is cleared if it is this
\* cycle's, the event is sent, the trigger if a start was announced.
EndSteps(c) ==
    /\ tail[c].at = "storing"
    /\ tail' = [tail EXCEPT ![c].at = "closing"]
    /\ snap' = IF SameCycle(c) THEN 0 ELSE snap
    /\ told' = IF tail[c].owed THEN EndTold(c) ELSE BusTold(c)
    /\ Stay
    /\ UNCHANGED <<last, det, mgr, match, call, label, pick>>

\* Any of those steps raises, before or after the event was sent; the end that is
\* still owed is sent then.
EndStepsFail(c) ==
    /\ tail[c].at = "storing"
    /\ tail' = [tail EXCEPT ![c].at = "closing"]
    /\ \E cleared, sent \in BOOLEAN :
          /\ sent => cleared
          /\ snap' = IF cleared /\ SameCycle(c) THEN 0 ELSE snap
          /\ told' = IF tail[c].owed THEN EndTold(c)
                     ELSE IF sent THEN BusTold(c) ELSE told
    /\ Stay
    /\ UNCHANGED <<last, det, mgr, match, call, label, pick>>

\* _async_close_cycle_end: the terminal reset, unless a newer cycle has begun.
CloseEnd(c) ==
    /\ tail[c].at = "closing"
    /\ tail' = [tail EXCEPT ![c] = [NoTail EXCEPT !.at = "done"]]
    /\ mgr' = IF SameCycle(c)
              THEN [FreshManager EXCEPT !.completed = TRUE, !.expiry = TRUE, !.owed = mgr.owed]
              ELSE mgr
    /\ Stay
    /\ UNCHANGED <<last, det, match, call, snap, told, label, pick>>

-----------------------------------------------------------------------------
\* set_manual_program: applied to a cycle under way, armed for the next one
\* otherwise; in STARTING both, as the commit resets what was applied.
SetProgram(p) ==
    /\ mgr' = IF phase \in Live
              THEN [mgr EXCEPT !.armed = IF phase = "cycle" THEN None ELSE p,
                               !.program = p, !.from = det.cyc, !.manual = TRUE]
              ELSE [mgr EXCEPT !.armed = p]
    /\ pick' = IF phase \in Live THEN [pick EXCEPT ![det.cyc] = p] ELSE pick
    /\ Stay
    /\ UNCHANGED <<last, det, match, call, tail, snap, told, label>>

ClearProgram ==
    /\ mgr.armed # None \/ mgr.manual
    /\ mgr' = IF ~mgr.manual THEN [mgr EXCEPT !.armed = None]
              ELSE IF phase = "cycle"
              THEN [mgr EXCEPT !.armed = None, !.manual = FALSE,
                               !.program = "detecting", !.from = det.cyc]
              ELSE [mgr EXCEPT !.armed = None, !.manual = FALSE, !.program = "off", !.from = 0]
    /\ pick' = IF phase \in Live THEN [pick EXCEPT ![det.cyc] = None] ELSE pick
    /\ Stay
    /\ UNCHANGED <<last, det, match, call, tail, snap, told, label>>

Paused(d) == [d EXCEPT !.vp = TRUE]

\* async_pause_cycle sets the pause, then awaits the switch.
PauseBegins ==
    /\ phase \in Live /\ ~mgr.up /\ ~call.pausing
    /\ mgr' = [mgr EXCEPT !.up = TRUE]
    /\ call' = [call EXCEPT !.pausing = TRUE, !.prev = det.vp]
    /\ det' = Paused(det)
    /\ Stay
    /\ UNCHANGED <<last, match, tail, snap, told, label, pick>>

PauseSucceeds ==
    /\ call.pausing
    /\ call' = [call EXCEPT !.pausing = FALSE, !.prev = FALSE]
    /\ snap' = det.cyc
    /\ Stay
    /\ UNCHANGED <<last, det, mgr, match, tail, told, label, pick>>

PauseFails ==
    /\ call.pausing
    /\ call' = [call EXCEPT !.pausing = FALSE, !.prev = FALSE]
    /\ mgr' = [mgr EXCEPT !.up = FALSE]
    /\ det' = [det EXCEPT !.vp = call.prev]
    /\ Stay
    /\ UNCHANGED <<last, match, tail, snap, told, label, pick>>

ResumeBegins ==
    /\ mgr.up /\ ~call.resuming
    /\ mgr' = [mgr EXCEPT !.up = FALSE]
    /\ det' = [det EXCEPT !.vp = FALSE]
    /\ call' = [call EXCEPT !.resuming = TRUE]
    /\ Stay
    /\ UNCHANGED <<last, match, tail, snap, told, label, pick>>

ResumeSucceeds ==
    /\ call.resuming
    /\ call' = [call EXCEPT !.resuming = FALSE]
    /\ snap' = det.cyc
    /\ Stay
    /\ UNCHANGED <<last, det, mgr, match, tail, told, label, pick>>

\* The rollback looks at nothing: whatever the detector shows by then is paused.
ResumeFails ==
    /\ call.resuming
    /\ call' = [call EXCEPT !.resuming = FALSE]
    /\ mgr' = [mgr EXCEPT !.up = TRUE]
    /\ det' = Paused(det)
    /\ Stay
    /\ UNCHANGED <<last, match, tail, snap, told, label, pick>>

DoorOpens ==
    /\ phase \in Live
    /\ mgr' = [mgr EXCEPT !.up = TRUE]
    /\ det' = Paused(det)
    /\ Stay
    /\ UNCHANGED <<last, match, call, tail, snap, told, label, pick>>

-----------------------------------------------------------------------------
DetectorStep == \/ Reading \/ StartProbe \/ CommitCycle \/ AbortProbe \/ LeaveEnd
                \/ \E s \in Statuses : EndCycle(s)
                \/ ReleasePause

MatchStep == Dispatch \/ Discard \/ MatchFails \/ MatchReturns \/ AlignmentReturns

TailStep(c) == FinalMatch(c) \/ EndSteps(c) \/ EndStepsFail(c) \/ CloseEnd(c)

UserStep == \/ \E p \in Programs : SetProgram(p)
            \/ ClearProgram \/ DropCycle \/ DoorOpens
            \/ PauseBegins \/ PauseSucceeds \/ PauseFails
            \/ ResumeBegins \/ ResumeSucceeds \/ ResumeFails

Next == \/ DetectorStep \/ MatchStep \/ UserStep \/ Expire
        \/ \E c \in Start : TailStep(c)

Spec == Init /\ [][Next]_vars

-----------------------------------------------------------------------------
Chosen == Programs \union {"off", "detecting"}

Number == 0..MaxStarts     \* of a start, 0 for none

DetectorType == [cyc : Number, vp : BOOLEAN, matched : Number]

ManagerType == [token : Number, program : Chosen, from : Number, manual : BOOLEAN,
                armed : Programs \union {None}, up : BOOLEAN, begun : Number,
                completed : BOOLEAN, expiry : BOOLEAN, owed : BOOLEAN]

MatchType == [at : {"idle", "matching", "aligning"}, token : Number, cyc : Number]

CallType == [pausing : BOOLEAN, prev : BOOLEAN, resuming : BOOLEAN]

TailType == [at : {"none", "matching", "storing", "closing", "done"}, token : Number,
             program : Chosen, from : Number, manual : BOOLEAN, owed : BOOLEAN]

ToldType == [start : Nat, bus : Nat, ended : Nat]

LabelType == [by : {"nobody", "match", "user"}, program : Programs \union {None}, from : Number]

TypeOK ==
    /\ phase \in {"idle", "probing", "cycle"} \union Statuses
    /\ last \in Number /\ snap \in Number
    /\ det \in DetectorType /\ mgr \in ManagerType /\ match \in MatchType /\ call \in CallType
    /\ tail \in [Start -> TailType] /\ label \in [Start -> LabelType]
    /\ told \in [Start -> ToldType]
    /\ pick \in [Start -> Programs \union {None}]

\* While a cycle is open the manager's fields are that cycle's, whichever tails
\* and matches of earlier cycles are still under way: its identity, its start, a
\* programme chosen for it, no arm left for it to inherit, no timer that would
\* reset it.
OpenCycleIntact ==
    phase = "cycle" =>
        /\ mgr.token = det.cyc /\ mgr.begun = det.cyc
        /\ mgr.program # "off" /\ mgr.from = det.cyc /\ mgr.armed = None
        /\ ~mgr.completed /\ ~mgr.expiry

\* "a verified pause and the old match must not land on a finished detector and
\* carry into the next cycle" (manager.py:1392): the detector's match was made
\* from the trace of the cycle it has open.
MatchOfItsCycle == det.matched # 0 => det.matched = det.cyc /\ phase = "cycle"

\* What is stored of an announced cycle describes that cycle, not the one that
\* began while it was being filed, and it is called the user's only if the user
\* chose.  (A probe stopped by hand has no identity of its own to be told by.)
LabelIsOwn ==
    \A c \in Start : label[c].by # "nobody" /\ told[c].start = 1 =>
        /\ label[c].from = c
        /\ label[c].by = "user" => pick[c] # None

\* Each announced cycle gets exactly one end, whether it is filed, discarded or
\* dropped and whichever step of its tail fails; none is announced twice.
AnnouncedEndsOnce ==
    \A c \in Start :
        /\ told[c].bus <= 1 /\ told[c].ended <= told[c].start
        /\ told[c].start = 1 /\ ~Busy(c) /\ ~(phase = "cycle" /\ det.cyc = c)
              => told[c].ended = 1 /\ told[c].bus = 1

\* A shown end is not shown for ever: once every tail is over, its expiry timer
\* runs.
EndExpires ==
    phase \in Statuses /\ (\A c \in Start : ~Busy(c)) => mgr.completed /\ mgr.expiry

\* Whatever match or rollback lands, the user's pause of an open cycle is the
\* detector's.
UserPauseHolds == phase = "cycle" /\ mgr.up => det.vp

\* No tail of an earlier cycle takes the snapshot of the open one, which a
\* restart would resume.
SnapshotKept ==
    [][phase = "cycle" /\ phase' = "cycle" /\ snap = det.cyc => snap' = snap]_vars

\* "armed and applied the moment the next cycle starts" (set_manual_program): once
\* the last announced cycle has consumed or dropped its arm, only the next commit
\* or the user takes an arm away.
ArmWaits ==
    [][/\ mgr.armed # None /\ mgr'.armed # mgr.armed
       /\ last > 0 /\ told[last].start = 1
       => phase' = "cycle" \/ ClearProgram \/ \E p \in Programs : SetProgram(p)]_vars

\* "SKIP matching if manual program is active" (_update_estimates): a cycle
\* labelled by the user's hand is labelled with what the user chose.
PickIsKept == \A c \in Start : label[c].by = "user" => label[c].program = pick[c]

\* "stays in force until the user resumes" (decide_pause_release): no step of a start
\* that goes on ends the user's pause but the user's, or the roll-back of a failed one.
UserPauseStays ==
    [][mgr.up /\ ~mgr'.up /\ phase \in Live /\ phase' \in Live
       => ResumeBegins \/ PauseFails]_vars
=============================================================================
