------------------------- MODULE CycleManager_proof -------------------------
(***************************************************************************)
(* Proofs about CycleManager, for every set of programmes and of statuses  *)
(* and any number of starts.                                               *)
(***************************************************************************)
EXTENDS CycleManager, TLAPS

\* A probe gives back idle or a shown end, never an open cycle.
OriginOK == origin \in {"idle"} \union Statuses

\* Identities never run ahead of the starts; what an open start has is the
\* latest of them; no tail, and of a probe no match either, shares it.
Ordered ==
    /\ mgr.token <= last /\ match.cyc <= last
    /\ \A c \in Start : tail[c].token <= last
    /\ phase \in Live => det.cyc = last /\ \A c \in Start : tail[c].token < last
    /\ phase = "probing" => mgr.token < last /\ match.cyc < last

IInv == /\ TypeOK /\ OriginOK /\ Ordered
        /\ OpenCycleIntact /\ MatchOfItsCycle /\ UserPauseHolds

-----------------------------------------------------------------------------
LEMMA InitInv == Init => IInv
BY ManagerAssumption
   DEF Init, LifecycleInit, IInv, TypeOK, Number, DetectorType, ManagerType, MatchType,
       CallType, TailType, ToldType, LabelType, OriginOK, Ordered, OpenCycleIntact,
       MatchOfItsCycle,
       UserPauseHolds, FreshDetector, FreshManager, Idle, NoTail, Unlabelled, Start, Live, Chosen

LEMMA StatusFacts == \A s \in Statuses : s \notin Live /\ s # "idle"
BY ManagerAssumption DEF Live

LEMMA PhaseType ==
    ASSUME TypeOK, OriginOK, Next
    PROVE  /\ phase' \in {"idle", "probing", "cycle"} \union Statuses
           /\ OriginOK'
BY ManagerAssumption
   DEF TypeOK, OriginOK, Next, DetectorStep, MatchStep, UserStep, TailStep, Reading, StartProbe,
       CommitCycle, AbortProbe, LeaveEnd, EndCycle, ReleasePause, Dispatch, Discard, MatchFails,
       MatchReturns, AlignmentReturns, FinalMatch, EndSteps, EndStepsFail, CloseEnd, SetProgram,
       ClearProgram, DropCycle, DoorOpens, PauseBegins, PauseSucceeds, PauseFails, ResumeBegins,
       ResumeSucceeds, ResumeFails, Expire, Stay, BeginProbe, Commit, FalseStart, Close, Leave, Live

-----------------------------------------------------------------------------
LEMMA NumberFacts == 0 \in Number /\ Number \subseteq Nat /\ Start \subseteq Number
BY ManagerAssumption DEF Number, Start

LEMMA ManagerFields ==
    ASSUME NEW m \in ManagerType
    PROVE  /\ m.token \in Number /\ m.from \in Number /\ m.begun \in Number
           /\ m.program \in Chosen /\ m.armed \in Programs \union {None}
           /\ m.manual \in BOOLEAN /\ m.up \in BOOLEAN /\ m.owed \in BOOLEAN
           /\ m.completed \in BOOLEAN /\ m.expiry \in BOOLEAN
BY DEF ManagerType

LEMMA ManagerUpdates ==
    ASSUME NEW m \in ManagerType
    PROVE  /\ \A n \in Number : /\ [m EXCEPT !.from = n] \in ManagerType
                                /\ [m EXCEPT !.begun = n] \in ManagerType
           /\ \A p \in Chosen : [m EXCEPT !.program = p] \in ManagerType
           /\ \A a \in Programs \union {None} : [m EXCEPT !.armed = a] \in ManagerType
           /\ \A b \in BOOLEAN : /\ [m EXCEPT !.manual = b] \in ManagerType
                                 /\ [m EXCEPT !.up = b] \in ManagerType
                                 /\ [m EXCEPT !.completed = b] \in ManagerType
                                 /\ [m EXCEPT !.expiry = b] \in ManagerType
                                 /\ [m EXCEPT !.owed = b] \in ManagerType
BY DEF ManagerType

LEMMA DetectorUpdates ==
    ASSUME NEW d \in DetectorType, NEW n \in Number, NEW b \in BOOLEAN
    PROVE  /\ [d EXCEPT !.cyc = n] \in DetectorType
           /\ [d EXCEPT !.vp = b] \in DetectorType
           /\ [d EXCEPT !.matched = n] \in DetectorType
           /\ d.cyc \in Number /\ d.vp \in BOOLEAN /\ d.matched \in Number
BY DEF DetectorType

LEMMA CallFields ==
    /\ \A m \in MatchType : m.token \in Number /\ m.cyc \in Number
    /\ \A c \in CallType : c.prev \in BOOLEAN
    /\ \A t \in TailType : t.token \in Number /\ t.from \in Number /\ t.program \in Chosen
BY DEF MatchType, CallType, TailType

\* The arms of the IFs in the actions.
LEMMA NextStart == ASSUME last \in Number, last < MaxStarts PROVE last + 1 \in Number
BY ManagerAssumption DEF Number

LEMMA Constants == /\ FreshDetector \in DetectorType /\ FreshManager \in ManagerType
                   /\ Idle \in MatchType /\ NoTail \in TailType /\ Unlabelled \in LabelType
BY NumberFacts DEF FreshDetector, FreshManager, Idle, NoTail, Unlabelled, DetectorType,
                   ManagerType, MatchType, TailType, ToldType, LabelType, Chosen

LEMMA SwitchedType ==
    ASSUME mgr \in ManagerType, match \in MatchType
    PROVE  Switched \subseteq ManagerType
<1>1. ASSUME NEW p \in Programs \union {"detecting"}
      PROVE  [mgr EXCEPT !.program = p, !.from = match.cyc] \in ManagerType
  BY CallFields, ManagerUpdates DEF Chosen
<1> QED
  BY <1>1 DEF Switched

LEMMA PushedType ==
    ASSUME det \in DetectorType, match \in MatchType, mgr \in ManagerType,
           NEW S \in SUBSET BOOLEAN, Push(S)
    PROVE  det' \in DetectorType
<1>1. PICK v \in S, m \in {0, det.matched, match.cyc} :
          det' = [det EXCEPT !.vp = PauseKept(v), !.matched = m]
  BY DEF Push
<1>2. PauseKept(v) \in BOOLEAN /\ m \in Number
  BY CallFields, DetectorUpdates, NumberFacts, ManagerFields DEF PauseKept
<1> QED
  BY <1>1, <1>2, DetectorUpdates

LEMMA ManagerStep ==
    ASSUME IInv, Next
    PROVE  mgr' \in ManagerType /\ det' \in DetectorType /\ last' \in Number
<1> USE NumberFacts, ManagerFields, ManagerUpdates, DetectorUpdates, Constants, CallFields
  DEF IInv, TypeOK, Chosen
<1>1. CASE Reading
  BY <1>1 DEF Reading
<1>2. CASE StartProbe
  BY <1>2, NextStart DEF StartProbe
<1>3. CASE CommitCycle
  <2> DEFINE p == IF mgr.armed # None THEN mgr.armed ELSE "detecting"
             hand == mgr.armed # None
  <2>1. p \in Chosen /\ hand \in BOOLEAN /\ det.cyc \in Number
    OBVIOUS
  <2>2. mgr' = [token |-> det.cyc, program |-> p, from |-> det.cyc, manual |-> hand,
                armed |-> None, up |-> FALSE, begun |-> det.cyc, completed |-> FALSE,
                expiry |-> FALSE, owed |-> TRUE]
    BY <1>3 DEF CommitCycle
  <2> HIDE DEF p, hand
  <2>3. mgr' \in ManagerType
    BY <2>1, <2>2 DEF ManagerType
  <2> QED
    BY <1>3, <2>3 DEF CommitCycle
<1>4. CASE AbortProbe
  BY <1>4 DEF AbortProbe
<1>5. CASE LeaveEnd
  BY <1>5 DEF LeaveEnd
<1>6. CASE ReleasePause
  BY <1>6 DEF ReleasePause
<1>7. CASE Expire
  BY <1>7 DEF Expire
<1>8. CASE DropCycle
  BY <1>8 DEF DropCycle
<1>9. CASE Dispatch
  BY <1>9 DEF Dispatch
<1>10. CASE Discard
  BY <1>10 DEF Discard
<1>11. CASE MatchFails
  BY <1>11, SwitchedType DEF MatchFails
<1>12. CASE MatchReturns
  <2>1. mgr' \in ManagerType /\ last' = last
    BY <1>12, SwitchedType DEF MatchReturns
  <2>2. det' \in DetectorType
    <3>1. det.vp \in BOOLEAN
      OBVIOUS
    <3> QED
      BY <1>12, <3>1, PushedType DEF MatchReturns
  <2> QED
    BY <2>1, <2>2
<1>13. CASE AlignmentReturns
  <2>1. mgr' \in ManagerType /\ last' = last
    BY <1>13, SwitchedType DEF AlignmentReturns
  <2>2. det' \in DetectorType
    BY <1>13, PushedType DEF AlignmentReturns
  <2> QED
    BY <2>1, <2>2
<1>14. CASE ClearProgram
  BY <1>14 DEF ClearProgram
<1>15. CASE PauseBegins
  BY <1>15 DEF PauseBegins, Paused
<1>16. CASE PauseSucceeds
  BY <1>16 DEF PauseSucceeds
<1>17. CASE PauseFails
  BY <1>17 DEF PauseFails
<1>18. CASE ResumeBegins
  BY <1>18 DEF ResumeBegins
<1>19. CASE ResumeSucceeds
  BY <1>19 DEF ResumeSucceeds
<1>20. CASE ResumeFails
  BY <1>20 DEF ResumeFails, Paused
<1>21. CASE DoorOpens
  BY <1>21 DEF DoorOpens, Paused
<1>22. CASE \E q \in Programs : SetProgram(q)
  <2> PICK q \in Programs : SetProgram(q)
    BY <1>22
  <2>1. [mgr EXCEPT !.armed = q] \in ManagerType
    OBVIOUS
  <2>2. [mgr EXCEPT !.armed = IF phase = "cycle" THEN None ELSE q,
                    !.program = q, !.from = det.cyc, !.manual = TRUE] \in ManagerType
    OBVIOUS
  <2> QED
    BY <2>1, <2>2 DEF SetProgram
<1>23. CASE \E s \in Statuses : EndCycle(s)
  <2>1. Ended \in ManagerType
    BY DEF Ended
  <2>2. Discarded(Ended) \in ManagerType
    BY <2>1 DEF Discarded
  <2> QED
    BY <1>23, <2>1, <2>2 DEF EndCycle
<1>24. CASE \E c \in Start : TailStep(c)
  <2> PICK c \in Start : TailStep(c)
    BY <1>24
  <2>1. UNCHANGED <<det, last>>
    BY DEF TailStep, FinalMatch, EndSteps, EndStepsFail, CloseEnd
  <2>2. CASE FinalMatch(c)
    <3> PICK best \in Programs \union {None} :
            \/ mgr' = mgr
            \/ best # None /\ mgr' = [mgr EXCEPT !.program = best, !.from = c]
      BY <2>2 DEF FinalMatch
    <3>1. c \in Number /\ (best # None => best \in Chosen)
      OBVIOUS
    <3>2. best # None => [mgr EXCEPT !.program = best] \in ManagerType
      BY <3>1
    <3>3. best # None => [mgr EXCEPT !.program = best, !.from = c] \in ManagerType
      BY <3>1, <3>2
    <3> QED
      BY <2>1, <3>3
  <2>3. CASE EndSteps(c) \/ EndStepsFail(c)
    BY <2>1, <2>3 DEF EndSteps, EndStepsFail
  <2>4. CASE CloseEnd(c)
    <3> DEFINE anchored == [FreshManager EXCEPT !.completed = TRUE]
               timed == [anchored EXCEPT !.expiry = TRUE]
    <3>0. anchored \in ManagerType /\ mgr.owed \in BOOLEAN
      OBVIOUS
    <3>2. timed \in ManagerType
      BY <3>0
    <3>1. [timed EXCEPT !.owed = mgr.owed] \in ManagerType
      BY <3>0, <3>2
    <3> QED
      BY <2>1, <2>4, <3>1 DEF CloseEnd
  <2> QED
    BY <2>2, <2>3, <2>4 DEF TailStep
<1>25. QED
  BY <1>1, <1>2, <1>3, <1>4, <1>5, <1>6, <1>7, <1>8, <1>9, <1>10, <1>11, <1>12, <1>13, <1>14,
                        <1>15, <1>16, <1>17, <1>18, <1>19, <1>20, <1>21, <1>22, <1>23, <1>24
  DEF Next, DetectorStep, MatchStep, UserStep

LEMMA TailUpdates ==
    ASSUME NEW f \in [Start -> TailType], NEW c \in Start
    PROVE  /\ \A s \in {"none", "matching", "storing", "closing", "done"} :
                 [f EXCEPT ![c].at = s] \in [Start -> TailType]
           /\ \A p \in Chosen : [f EXCEPT ![c].program = p] \in [Start -> TailType]
           /\ \A n \in Number : [f EXCEPT ![c].from = n] \in [Start -> TailType]
           /\ \A t \in TailType : [f EXCEPT ![c] = t] \in [Start -> TailType]
BY DEF TailType

LEMMA TasksStep ==
    ASSUME IInv, Next
    PROVE  /\ match' \in MatchType /\ call' \in CallType /\ snap' \in Number
           /\ tail' \in [Start -> TailType] /\ pick' \in [Start -> Programs \union {None}]
<1> USE NumberFacts, ManagerFields, DetectorUpdates, Constants, CallFields DEF IInv, TypeOK
<1>1. CASE Reading
  BY <1>1 DEF Reading
<1>2. CASE StartProbe
  BY <1>2 DEF StartProbe
<1>3. CASE CommitCycle
  BY <1>3 DEF CommitCycle
<1>4. CASE AbortProbe
  BY <1>4 DEF AbortProbe
<1>5. CASE LeaveEnd
  BY <1>5 DEF LeaveEnd
<1>6. CASE ReleasePause
  BY <1>6 DEF ReleasePause
<1>7. CASE Expire
  BY <1>7 DEF Expire
<1>8. CASE DropCycle
  BY <1>8 DEF DropCycle
<1>9. CASE Dispatch
  BY <1>9 DEF Dispatch, MatchType
<1>10. CASE Discard
  BY <1>10 DEF Discard
<1>11. CASE MatchFails
  BY <1>11 DEF MatchFails
<1>12. CASE MatchReturns
  BY <1>12 DEF MatchReturns, Push, MatchType
<1>13. CASE AlignmentReturns
  BY <1>13 DEF AlignmentReturns, Push
<1>14. CASE ClearProgram
  BY <1>14 DEF ClearProgram
<1>15. CASE PauseBegins
  BY <1>15 DEF PauseBegins, CallType
<1>16. CASE PauseSucceeds
  BY <1>16 DEF PauseSucceeds, CallType
<1>17. CASE PauseFails
  BY <1>17 DEF PauseFails, CallType
<1>18. CASE ResumeBegins
  BY <1>18 DEF ResumeBegins, CallType
<1>19. CASE ResumeSucceeds
  BY <1>19 DEF ResumeSucceeds, CallType
<1>20. CASE ResumeFails
  BY <1>20 DEF ResumeFails, CallType
<1>21. CASE DoorOpens
  BY <1>21 DEF DoorOpens
<1>22. CASE \E q \in Programs : SetProgram(q)
  BY <1>22 DEF SetProgram
<1>23. CASE \E s \in Statuses : EndCycle(s)
  <2> DEFINE frozen == [at |-> "matching", token |-> mgr.token, program |-> mgr.program,
                        from |-> mgr.from, manual |-> mgr.manual, owed |-> mgr.owed]
  <2>1. frozen \in TailType
    BY DEF TailType
  <2>2. tail' = tail \/ tail' = [tail EXCEPT ![det.cyc] = frozen]
    BY <1>23 DEF EndCycle
  <2> HIDE DEF frozen
  <2>3. tail' \in [Start -> TailType]
    BY <2>1, <2>2
  <2> QED
    BY <1>23, <2>3 DEF EndCycle
<1>24. CASE \E c \in Start : TailStep(c)
  <2> PICK c \in Start : TailStep(c)
    BY <1>24
  <2>1. UNCHANGED <<match, call, pick>> /\ snap' \in {0, snap}
    BY DEF TailStep, FinalMatch, EndSteps, EndStepsFail, CloseEnd
  <2>2. tail' \in [Start -> TailType]
    <3>1. CASE FinalMatch(c)
      <4> PICK p \in Chosen, n \in Number :
              tail' = [tail EXCEPT ![c].at = "storing", ![c].program = p, ![c].from = n]
        <5> PICK best \in Programs \union {None}, named \in BOOLEAN :
                /\ named => best # None
                /\ tail' = [tail EXCEPT ![c].at = "storing",
                                        ![c].program = IF named THEN best ELSE tail[c].program,
                                        ![c].from = IF named THEN c ELSE tail[c].from]
          BY <3>1 DEF FinalMatch
        <5> DEFINE q == IF named THEN best ELSE tail[c].program
                   m == IF named THEN c ELSE tail[c].from
        <5>1. q \in Chosen /\ m \in Number
          BY DEF Chosen
        <5> QED
          BY <5>1
      <4> DEFINE t1 == [tail EXCEPT ![c].at = "storing"]
                 t2 == [t1 EXCEPT ![c].program = p]
      <4>1. t1 \in [Start -> TailType]
        BY TailUpdates
      <4>2. t2 \in [Start -> TailType]
        BY <4>1, TailUpdates
      <4> QED
        BY <4>2, TailUpdates
    <3>2. CASE EndSteps(c) \/ EndStepsFail(c)
      <4>1. tail' = [tail EXCEPT ![c].at = "closing"]
        BY <3>2 DEF EndSteps, EndStepsFail
      <4> QED
        BY <4>1, TailUpdates
    <3>3. CASE CloseEnd(c)
      <4>1. [NoTail EXCEPT !.at = "done"] \in TailType
        BY DEF TailType
      <4> QED
        BY <3>3, <4>1 DEF CloseEnd
    <3> QED
      BY <3>1, <3>2, <3>3 DEF TailStep
  <2> QED
    BY <2>1, <2>2
<1>25. QED
  BY <1>1, <1>2, <1>3, <1>4, <1>5, <1>6, <1>7, <1>8, <1>9, <1>10, <1>11, <1>12, <1>13, <1>14,
                        <1>15, <1>16, <1>17, <1>18, <1>19, <1>20, <1>21, <1>22, <1>23, <1>24
  DEF Next, DetectorStep, MatchStep, UserStep

LEMMA ToldUpdates ==
    ASSUME NEW f \in [Start -> ToldType], NEW c
    PROVE  /\ [f EXCEPT ![c].start = @ + 1] \in [Start -> ToldType]
           /\ [f EXCEPT ![c].bus = @ + 1] \in [Start -> ToldType]
           /\ [f EXCEPT ![c].ended = @ + 1] \in [Start -> ToldType]
<1>1. CASE c \in Start
  <2>1. /\ [f[c] EXCEPT !.start = @ + 1] \in ToldType
        /\ [f[c] EXCEPT !.bus = @ + 1] \in ToldType
        /\ [f[c] EXCEPT !.ended = @ + 1] \in ToldType
    BY <1>1 DEF ToldType
  <2> QED
    BY <1>1, <2>1
<1>2. CASE c \notin Start
  BY <1>2
<1> QED
  BY <1>1, <1>2

\* The steps that announce nothing and label nothing.
Silent == \/ Reading \/ StartProbe \/ AbortProbe \/ LeaveEnd \/ ReleasePause \/ Expire
          \/ Dispatch \/ Discard \/ MatchFails \/ MatchReturns \/ AlignmentReturns
          \/ ClearProgram \/ PauseBegins \/ PauseSucceeds \/ PauseFails \/ ResumeBegins
          \/ ResumeSucceeds \/ ResumeFails \/ DoorOpens \/ \E q \in Programs : SetProgram(q)

LEMMA Cases ==
    ASSUME Next
    PROVE  \/ Silent \/ CommitCycle \/ DropCycle
           \/ \E s \in Statuses : EndCycle(s)
           \/ \E c \in Start : TailStep(c)
BY DEF Next, DetectorStep, MatchStep, UserStep, Silent

LEMMA SilentStep == ASSUME Silent PROVE UNCHANGED <<tail, told, label>>
BY DEF Silent, SetProgram, Reading, StartProbe, AbortProbe, LeaveEnd, ReleasePause, Expire,
       Dispatch, Discard, MatchFails, MatchReturns, AlignmentReturns, ClearProgram, PauseBegins,
       PauseSucceeds, PauseFails, ResumeBegins, ResumeSucceeds, ResumeFails, DoorOpens

LEMMA HistoryStep ==
    ASSUME IInv, Next
    PROVE  told' \in [Start -> ToldType] /\ label' \in [Start -> LabelType]
<1> USE DEF IInv, TypeOK
<1>0. \A c : BusTold(c) \in [Start -> ToldType] /\ EndTold(c) \in [Start -> ToldType]
  <2> TAKE c
  <2>1. BusTold(c) \in [Start -> ToldType]
    BY ToldUpdates DEF BusTold
  <2> QED
    BY <2>1, ToldUpdates DEF EndTold
<1>1. CASE Silent
  BY <1>1, SilentStep
<1>2. CASE CommitCycle
  BY <1>2, ToldUpdates DEF CommitCycle
<1>3. CASE DropCycle
  BY <1>3, <1>0 DEF DropCycle
<1>4. CASE \E s \in Statuses : EndCycle(s)
  BY <1>4, <1>0 DEF EndCycle
<1>5. CASE \E c \in Start : TailStep(c)
  <2> PICK c \in Start : TailStep(c)
    BY <1>5
  <2>1. CASE FinalMatch(c)
    <3>1. PICK r \in LabelType : label' = [label EXCEPT ![c] = r]
      <4> PICK best \in Programs \union {None}, sure \in BOOLEAN, shown \in Chosen :
              /\ sure => best # None
              /\ label' = [label EXCEPT ![c] =
                    CASE ByHand(c, shown) -> [by |-> "user", program |-> shown,
                                              from |-> tail[c].from]
                      [] ~ByHand(c, shown) /\ sure -> [by |-> "match", program |-> best, from |-> c]
                      [] OTHER -> [by |-> "nobody", program |-> None, from |-> c]]
        BY <2>1, CallFields DEF FinalMatch, Chosen
      <4>1. ByHand(c, shown) =>
                [by |-> "user", program |-> shown, from |-> tail[c].from] \in LabelType
        BY CallFields DEF ByHand, LabelType
      <4>2. /\ [by |-> "match", program |-> best, from |-> c] \in LabelType
            /\ [by |-> "nobody", program |-> None, from |-> c] \in LabelType
        BY NumberFacts DEF LabelType
      <4> QED
        BY <4>1, <4>2
    <3> QED
      BY <2>1, <3>1 DEF FinalMatch
  <2>2. CASE EndSteps(c)
    BY <2>2, <1>0 DEF EndSteps
  <2>3. CASE EndStepsFail(c)
    BY <2>3, <1>0 DEF EndStepsFail
  <2>4. CASE CloseEnd(c)
    BY <2>4 DEF CloseEnd
  <2> QED
    BY <2>1, <2>2, <2>3, <2>4 DEF TailStep
<1> QED
  BY Cases, <1>1, <1>2, <1>3, <1>4, <1>5

-----------------------------------------------------------------------------
LEMMA TailTokens ==
    ASSUME IInv, Next, NEW c \in Start
    PROVE  \/ tail'[c].token \in {0, tail[c].token}
           \/ tail'[c].token = mgr.token /\ phase' \in Statuses
<1> USE DEF IInv, TypeOK, TailType
<1>1. CASE \E s \in Statuses : EndCycle(s)
  BY <1>1 DEF EndCycle, Close
<1>2. CASE \E d \in Start : TailStep(d)
  <2> PICK d \in Start : TailStep(d)
    BY <1>2
  <2>1. CASE FinalMatch(d)
    BY <2>1 DEF FinalMatch
  <2>2. CASE EndSteps(d) \/ EndStepsFail(d)
    BY <2>2 DEF EndSteps, EndStepsFail
  <2>3. CASE CloseEnd(d)
    BY <2>3 DEF CloseEnd, NoTail
  <2> QED
    BY <2>1, <2>2, <2>3 DEF TailStep
<1>3. CASE UNCHANGED tail
  BY <1>3
<1> QED
  BY <1>1, <1>2, <1>3, Cases, SilentStep DEF CommitCycle, DropCycle

\* The three outcomes of a match touch neither identities nor the tails.
LEMMA MatchOutcome ==
    ASSUME IInv, MatchFails \/ MatchReturns \/ AlignmentReturns
    PROVE  /\ Stay /\ Current /\ match.at # "idle" /\ UNCHANGED <<last, tail, snap>>
           /\ det'.cyc = det.cyc /\ match'.cyc \in {0, match.cyc}
           /\ mgr' \in Switched
<1> USE DEF IInv, TypeOK
<1>1. CASE MatchFails
  BY <1>1 DEF MatchFails, Idle
<1>2. ASSUME NEW S, Push(S) PROVE det'.cyc = det.cyc /\ match'.cyc = 0
  BY <1>2 DEF Push, Idle, DetectorType
<1>3. CASE MatchReturns
  BY <1>2, <1>3 DEF MatchReturns, MatchType
<1>4. CASE AlignmentReturns
  BY <1>2, <1>4 DEF AlignmentReturns
<1> QED
  BY <1>1, <1>3, <1>4

\* What a switch leaves alone.
LEMMA SwitchedFields ==
    ASSUME mgr \in ManagerType, NEW m \in Switched
    PROVE  /\ m.token = mgr.token /\ m.begun = mgr.begun /\ m.armed = mgr.armed
           /\ m.up = mgr.up /\ m.completed = mgr.completed /\ m.expiry = mgr.expiry
           /\ \/ m.program = mgr.program /\ m.from = mgr.from
              \/ m.program \in Programs \union {"detecting"} /\ m.from = match.cyc
<1>1. CASE m = mgr
  BY <1>1
<1>2. CASE m # mgr
  <2> PICK p \in Programs \union {"detecting"} : m = [mgr EXCEPT !.program = p, !.from = match.cyc]
    BY <1>2 DEF Switched
  <2> QED
    BY DEF ManagerType
<1> QED
  BY <1>1, <1>2

LEMMA OrderedStay ==
    ASSUME IInv, Next, Stay, last' = last, mgr'.token \in {0, mgr.token}, det'.cyc = det.cyc,
           match'.cyc \in {0, match.cyc}
    PROVE  Ordered'
<1>1. match.cyc \in Nat /\ last \in Nat /\ mgr.token \in Nat
  BY NumberFacts, ManagerFields, CallFields DEF IInv, TypeOK
<1>2. \A c \in Start : tail[c].token \in Nat
  BY NumberFacts, CallFields DEF IInv, TypeOK
<1>3. phase' = phase /\ (phase \notin Statuses \/ phase \notin Live)
  BY StatusFacts DEF Stay
<1> QED
  BY <1>1, <1>2, <1>3, TailTokens DEF IInv, Ordered, Live

LEMMA OrderedStep == ASSUME IInv, Next PROVE Ordered'
<1> USE ManagerAssumption, NumberFacts, TailTokens DEF IInv, TypeOK, Ordered, Live, ManagerType,
                        DetectorType, MatchType
<1>1. CASE Reading
  BY <1>1 DEF Reading, Stay
<1>2. CASE StartProbe
  <2>1. /\ phase' = "probing" /\ last' = last + 1 /\ det'.cyc = last'
        /\ mgr'.token = mgr.token /\ match' = match /\ tail' = tail
    BY <1>2 DEF StartProbe, BeginProbe
  <2>2. mgr.token \in Nat /\ match.cyc \in Nat /\ last \in Nat /\ \A c \in Start :
                                                                    tail[c].token \in Nat
    BY CallFields, ManagerFields
  <2> QED
    BY <2>1, <2>2
<1>3. CASE CommitCycle
  BY <1>3 DEF CommitCycle, Commit
<1>4. CASE AbortProbe
  <2>1. /\ phase' \notin Live /\ last' = last /\ mgr'.token = mgr.token /\ match' = match
        /\ tail' = tail
    BY <1>4 DEF AbortProbe, FalseStart, OriginOK
  <2> QED
    BY <2>1
<1>5. CASE LeaveEnd
  BY <1>5 DEF LeaveEnd, Leave, FreshDetector
<1>6. CASE ReleasePause
  BY <1>6 DEF ReleasePause, Stay
<1>7. CASE Expire
  BY <1>7 DEF Expire, Stay, Leave, FreshDetector
<1>8. CASE DropCycle
  BY <1>8 DEF DropCycle, Leave, FreshDetector
<1>9. CASE Dispatch
  BY <1>9 DEF Dispatch, Stay
<1>10. CASE Discard
  BY <1>10, OrderedStay DEF Discard, Idle
<1>11. CASE MatchFails
  BY <1>11, MatchOutcome, SwitchedFields, OrderedStay
<1>12. CASE MatchReturns
  BY <1>12, MatchOutcome, SwitchedFields, OrderedStay
<1>13. CASE AlignmentReturns
  BY <1>13, MatchOutcome, SwitchedFields, OrderedStay
<1>14. CASE ClearProgram
  BY <1>14 DEF ClearProgram, Stay
<1>15. CASE PauseBegins
  BY <1>15 DEF PauseBegins, Stay, Paused
<1>16. CASE PauseSucceeds
  BY <1>16 DEF PauseSucceeds, Stay
<1>17. CASE PauseFails
  BY <1>17 DEF PauseFails, Stay
<1>18. CASE ResumeBegins
  BY <1>18 DEF ResumeBegins, Stay
<1>19. CASE ResumeSucceeds
  BY <1>19 DEF ResumeSucceeds, Stay
<1>20. CASE ResumeFails
  BY <1>20 DEF ResumeFails, Stay, Paused
<1>21. CASE DoorOpens
  BY <1>21 DEF DoorOpens, Stay, Paused
<1>22. CASE \E q \in Programs : SetProgram(q)
  BY <1>22 DEF SetProgram, Stay
<1>23. CASE \E s \in Statuses : EndCycle(s)
  <2>1. phase' \notin Live /\ last' = last /\ match' = match
    BY <1>23 DEF EndCycle, Close
  <2>2. mgr'.token = mgr.token
    BY <1>23 DEF EndCycle, Ended, Discarded
  <2> QED
    BY <2>1, <2>2
<1>24. CASE \E c \in Start : TailStep(c)
  <2> PICK c \in Start : TailStep(c)
    BY <1>24
  <2>1. Stay /\ UNCHANGED <<last, det, match>>
    BY DEF TailStep, FinalMatch, EndSteps, EndStepsFail, CloseEnd
  <2>2. mgr'.token \in {0, mgr.token}
    BY DEF TailStep, FinalMatch, EndSteps, EndStepsFail, CloseEnd, FreshManager
  <2> QED
    BY <2>1, <2>2, OrderedStay
<1>25. QED
  BY <1>1, <1>2, <1>3, <1>4, <1>5, <1>6, <1>7, <1>8, <1>9, <1>10, <1>11, <1>12, <1>13, <1>14,
                        <1>15, <1>16, <1>17, <1>18, <1>19, <1>20, <1>21, <1>22, <1>23, <1>24
  DEF Next, DetectorStep, MatchStep, UserStep

-----------------------------------------------------------------------------
\* A cycle is open after a step because the step committed it, or it was open and
\* the step left the detector where it was.
Kept == phase = "cycle" /\ phase' = "cycle" /\ last' = last /\ det'.cyc = det.cyc

LEMMA OpenCases ==
    ASSUME IInv, Next, phase' = "cycle"
    PROVE  \/ CommitCycle
           \/ /\ Kept
              /\ \/ Reading \/ ReleasePause \/ Dispatch \/ Discard
                 \/ MatchFails \/ MatchReturns \/ AlignmentReturns
                 \/ \E q \in Programs : SetProgram(q)
                 \/ ClearProgram \/ DoorOpens \/ PauseBegins \/ PauseSucceeds \/ PauseFails
                 \/ ResumeBegins \/ ResumeSucceeds \/ ResumeFails
                 \/ \E c \in Start : TailStep(c)
<1> USE DEF IInv, TypeOK
<1>1. CASE StartProbe \/ AbortProbe \/ LeaveEnd \/ DropCycle \/ \E s \in Statuses : EndCycle(s)
  BY <1>1, StatusFacts DEF StartProbe, AbortProbe, LeaveEnd, DropCycle, EndCycle, BeginProbe,
                           FalseStart, Leave, Close, OriginOK, Live
<1>2. CASE Expire
  BY <1>2 DEF Expire, Leave, Stay, OpenCycleIntact
<1>3. CASE MatchFails \/ MatchReturns \/ AlignmentReturns
  BY <1>3, MatchOutcome DEF Kept, Stay
<1>4. CASE \E c \in Start : TailStep(c)
  <2>1. Stay /\ UNCHANGED <<last, det>>
    BY <1>4 DEF TailStep, FinalMatch, EndSteps, EndStepsFail, CloseEnd
  <2> QED
    BY <1>4, <2>1 DEF Kept, Stay
<1>5. CASE Reading \/ Dispatch \/ Discard \/ ClearProgram \/ PauseSucceeds \/ ResumeSucceeds
           \/ \E q \in Programs : SetProgram(q)
  BY <1>5 DEF Reading, Dispatch, Discard, ClearProgram, PauseSucceeds, ResumeSucceeds, SetProgram,
              Kept, Stay
<1>6. CASE ReleasePause \/ PauseFails \/ ResumeBegins
  BY <1>6 DEF ReleasePause, PauseFails, ResumeBegins, DetectorType, Kept, Stay
<1>7. CASE DoorOpens \/ PauseBegins \/ ResumeFails
  BY <1>7 DEF DoorOpens, PauseBegins, ResumeFails, Paused, DetectorType, Kept, Stay
<1> QED
  BY <1>1, <1>2, <1>3, <1>4, <1>5, <1>6, <1>7 DEF Next, DetectorStep, MatchStep, UserStep

\* The tail of an earlier cycle finds that its identity is gone.
LEMMA TailSteps ==
    ASSUME IInv, phase = "cycle", NEW c \in Start, TailStep(c)
    PROVE  ~SameCycle(c) /\ mgr' = mgr /\ snap' = snap
<1>1. ~SameCycle(c)
  BY NumberFacts, CallFields DEF IInv, TypeOK, Ordered, OpenCycleIntact, SameCycle, Live
<1> QED
  BY <1>1 DEF TailStep, FinalMatch, EndSteps, EndStepsFail, CloseEnd, SameCycle

LEMMA OpenStep == ASSUME IInv, Next PROVE OpenCycleIntact'
<1> SUFFICES ASSUME phase' = "cycle"
             PROVE  /\ mgr'.token = det'.cyc /\ mgr'.begun = det'.cyc
                    /\ mgr'.program # "off" /\ mgr'.from = det'.cyc /\ mgr'.armed = None
                    /\ ~mgr'.completed /\ ~mgr'.expiry
  BY DEF OpenCycleIntact
<1> USE ManagerAssumption DEF IInv, TypeOK
<1>1. CASE CommitCycle
  <2>1. mgr.armed # None => mgr.armed # "off"
    BY ManagerFields
  <2>2. det' = det /\ mgr'.program = IF mgr.armed # None THEN mgr.armed ELSE "detecting"
    BY <1>1 DEF CommitCycle
  <2>3. /\ mgr'.token = det.cyc /\ mgr'.begun = det.cyc /\ mgr'.from = det.cyc
        /\ mgr'.armed = None /\ mgr'.completed = FALSE /\ mgr'.expiry = FALSE
    BY <1>1 DEF CommitCycle
  <2> QED
    BY <2>1, <2>2, <2>3
<1>2. ASSUME Kept PROVE /\ mgr.token = det'.cyc /\ mgr.begun = det'.cyc
                        /\ mgr.program # "off" /\ mgr.from = det'.cyc /\ mgr.armed = None
                        /\ ~mgr.completed /\ ~mgr.expiry
  BY <1>2 DEF Kept, OpenCycleIntact
<1>3. CASE Kept /\ (MatchFails \/ MatchReturns \/ AlignmentReturns)
  <2>1. mgr' \in Switched /\ match.cyc = det'.cyc
    BY <1>3, MatchOutcome DEF Current
  <2> QED
    BY <1>2, <1>3, <2>1, SwitchedFields
<1>4. CASE Kept /\ \E c \in Start : TailStep(c)
  BY <1>2, <1>4, TailSteps DEF Kept
<1>5. CASE Kept /\ (Reading \/ ReleasePause \/ Dispatch \/ Discard \/ PauseSucceeds \/
    ResumeSucceeds)
  BY <1>2, <1>5 DEF Kept, Reading, ReleasePause, Dispatch, Discard, PauseSucceeds,
                    ResumeSucceeds, ManagerType
<1>6. CASE Kept /\ \E q \in Programs : SetProgram(q)
  BY <1>2, <1>6 DEF Kept, SetProgram, ManagerType, Live
<1>7. CASE Kept /\ ClearProgram
  BY <1>2, <1>7 DEF Kept, ClearProgram, ManagerType
<1>8. CASE Kept /\ (DoorOpens \/ PauseBegins \/ PauseFails \/ ResumeBegins \/ ResumeFails)
  BY <1>2, <1>8 DEF Kept, DoorOpens, PauseBegins, PauseFails, ResumeBegins, ResumeFails, ManagerType
<1> QED
  BY OpenCases, <1>1, <1>3, <1>4, <1>5, <1>6, <1>7, <1>8

\* A match of the finished start never reaches the detector of the next one.
LEMMA MatchOfItsCycleStep == ASSUME IInv, Next PROVE MatchOfItsCycle'
<1> USE DEF IInv, TypeOK
<1>1. CASE MatchFails \/ MatchReturns \/ AlignmentReturns
  <2>1. match.cyc = det.cyc /\ phase = "cycle" /\ phase' = "cycle" /\ det'.cyc = det.cyc
    <3>1. phase \in Live /\ match.cyc = det.cyc /\ Stay /\ det'.cyc = det.cyc
      BY <1>1, MatchOutcome DEF Current
    <3>2. match.cyc \in Nat /\ last \in Nat
      BY NumberFacts, CallFields
    <3> QED
      BY <3>1, <3>2 DEF Ordered, Live, Stay
  <2>2. det'.matched \in {0, det.matched, match.cyc}
    <3>1. ASSUME NEW S, Push(S) PROVE det'.matched \in {0, det.matched, match.cyc}
      BY <3>1 DEF Push, DetectorType
    <3> QED
      BY <1>1, <3>1 DEF MatchFails, MatchReturns, AlignmentReturns
  <2> QED
    BY <2>1, <2>2 DEF MatchOfItsCycle
<1>2. CASE Expire \/ LeaveEnd \/ DropCycle \/ \E s \in Statuses : EndCycle(s)
  BY <1>2 DEF Expire, LeaveEnd, DropCycle, EndCycle, FreshDetector, MatchOfItsCycle
<1>3. CASE StartProbe \/ AbortProbe \/ CommitCycle
  <2>1. phase # "cycle"
    BY <1>3, StatusFacts DEF StartProbe, AbortProbe, CommitCycle, BeginProbe, FalseStart,
                        Commit, Live
  <2>2. det'.matched = det.matched
    BY <1>3 DEF StartProbe, AbortProbe, CommitCycle, DetectorType
  <2> QED
    BY <2>1, <2>2 DEF MatchOfItsCycle
<1>4. CASE \E c \in Start : TailStep(c)
  <2>1. Stay /\ det' = det
    BY <1>4 DEF TailStep, FinalMatch, EndSteps, EndStepsFail, CloseEnd
  <2> QED
    BY <2>1 DEF MatchOfItsCycle, Stay
<1>5. CASE Reading \/ Dispatch \/ Discard \/ ClearProgram \/ PauseSucceeds \/ ResumeSucceeds
           \/ \E q \in Programs : SetProgram(q)
  BY <1>5 DEF Reading, Dispatch, Discard, ClearProgram, PauseSucceeds, ResumeSucceeds, SetProgram,
              MatchOfItsCycle, Stay
<1>6. CASE ReleasePause \/ PauseFails \/ ResumeBegins
  BY <1>6 DEF ReleasePause, PauseFails, ResumeBegins, DetectorType, MatchOfItsCycle, Stay
<1>7. CASE DoorOpens \/ PauseBegins \/ ResumeFails
  BY <1>7 DEF DoorOpens, PauseBegins, ResumeFails, Paused, DetectorType, MatchOfItsCycle, Stay
<1> QED
  BY <1>1, <1>2, <1>3, <1>4, <1>5, <1>6, <1>7 DEF Next, DetectorStep, MatchStep, UserStep

\* Each step that can clear the detector's pause has cleared the user's, or asks it.
LEMMA UserPauseStep == ASSUME IInv, Next PROVE UserPauseHolds'
<1> SUFFICES ASSUME phase' = "cycle", mgr'.up PROVE det'.vp
  BY DEF UserPauseHolds
<1> USE DEF IInv, TypeOK
<1>0. Kept /\ mgr.up => det.vp
  BY DEF Kept, UserPauseHolds
<1>1. CASE CommitCycle
  BY <1>1 DEF CommitCycle
<1>2. CASE Kept /\ (MatchFails \/ MatchReturns \/ AlignmentReturns)
  <2>1. mgr.up
    BY <1>2, MatchOutcome, SwitchedFields
  <2>2. ASSUME NEW S, Push(S) PROVE det'.vp
    BY <2>1, <2>2 DEF Push, PauseKept, DetectorType
  <2> QED
    BY <1>0, <1>2, <2>1, <2>2 DEF MatchFails, MatchReturns, AlignmentReturns
<1>3. CASE Kept /\ \E c \in Start : TailStep(c)
  <2>1. det' = det
    BY <1>3 DEF TailStep, FinalMatch, EndSteps, EndStepsFail, CloseEnd
  <2> QED
    BY <1>0, <1>3, <2>1, TailSteps DEF Kept
<1>4. CASE Kept /\ (Reading \/ ReleasePause \/ Dispatch \/ Discard \/ PauseSucceeds \/
    ResumeSucceeds)
  BY <1>0, <1>4 DEF Reading, ReleasePause, Dispatch, Discard, PauseSucceeds, ResumeSucceeds,
                    ManagerType
<1>5. CASE Kept /\ (ClearProgram \/ \E q \in Programs : SetProgram(q))
  BY <1>0, <1>5 DEF SetProgram, ClearProgram, ManagerType
<1>6. CASE Kept /\ (PauseFails \/ ResumeBegins)
  BY <1>6 DEF PauseFails, ResumeBegins, ManagerType
<1>7. CASE Kept /\ (DoorOpens \/ PauseBegins \/ ResumeFails)
  BY <1>7 DEF DoorOpens, PauseBegins, ResumeFails, Paused, DetectorType
<1> QED
  BY OpenCases, <1>1, <1>2, <1>3, <1>4, <1>5, <1>6, <1>7

-----------------------------------------------------------------------------
LEMMA StutterInv == ASSUME IInv, UNCHANGED vars PROVE IInv'
BY DEF IInv, TypeOK, OriginOK, Ordered, OpenCycleIntact, MatchOfItsCycle, UserPauseHolds, vars,
       lifecycleVars, managerVars

LEMMA NextInv == ASSUME IInv, Next PROVE IInv'
<1>1. TypeOK' /\ OriginOK'
  <2>1. phase' \in {"idle", "probing", "cycle"} \union Statuses /\ OriginOK'
    BY PhaseType DEF IInv
  <2> QED
    BY <2>1, ManagerStep, TasksStep, HistoryStep DEF TypeOK
<1> QED
  BY <1>1, OrderedStep, OpenStep, MatchOfItsCycleStep, UserPauseStep DEF IInv

\* The inductive invariant: what an open start has is the latest identity, no tail
\* shares it, and everything the manager shows of an open cycle is that cycle's.
THEOREM Invariance == Spec => []IInv
<1>1. IInv /\ [Next]_vars => IInv'
  BY NextInv, StutterInv
<1> QED
  BY InitInv, <1>1, PTL DEF Spec

\* Each variable keeps its type, in all of the manager's steps.
THEOREM ManagerTypes == Spec => []TypeOK
<1>1. IInv => TypeOK
  BY DEF IInv
<1> QED
  BY Invariance, <1>1, PTL

\* While a cycle is open, the manager's identity, start, programme and timers are
\* that cycle's (_async_close_cycle_end, _on_state_change), for any number of cycles.
THEOREM OpenCycleStaysIntact == Spec => []OpenCycleIntact
<1>1. IInv => OpenCycleIntact
  BY DEF IInv
<1> QED
  BY Invariance, <1>1, PTL

\* The detector holds no match of another cycle's trace (_match_still_current).
THEOREM MatchesAreOwn == Spec => []MatchOfItsCycle
<1>1. IInv => MatchOfItsCycle
  BY DEF IInv
<1> QED
  BY Invariance, <1>1, PTL

\* No match releases the pause the user asked for (decide_pause_release).
THEOREM UserPauseIsHeld == Spec => []UserPauseHolds
<1>1. IInv => UserPauseHolds
  BY DEF IInv
<1> QED
  BY Invariance, <1>1, PTL

\* No step takes or replaces the stored snapshot of the cycle that stays open
\* (_async_cycle_end_steps clears it only under its own identity).
THEOREM SnapshotIsKept == Spec => SnapshotKept
<1>1. ASSUME IInv, Next, phase = "cycle", phase' = "cycle", snap = det.cyc
      PROVE  snap' = snap
  <2>1. CASE CommitCycle
    BY <1>1, <2>1 DEF CommitCycle
  <2>2. CASE MatchFails \/ MatchReturns \/ AlignmentReturns
    BY <1>1, <2>2, MatchOutcome
  <2>3. CASE \E c \in Start : TailStep(c)
    BY <1>1, <2>3, TailSteps
  <2>4. CASE \/ Reading \/ ReleasePause \/ Dispatch \/ Discard \/ \E q \in Programs : SetProgram(q)
             \/ ClearProgram \/ DoorOpens \/ PauseBegins \/ PauseSucceeds \/ PauseFails
             \/ ResumeBegins \/ ResumeSucceeds \/ ResumeFails
    BY <1>1, <2>4 DEF Reading, ReleasePause, Dispatch, Discard, SetProgram, ClearProgram, DoorOpens,
                      PauseBegins, PauseSucceeds, PauseFails, ResumeBegins, ResumeSucceeds,
                          ResumeFails
  <2> QED
    BY <1>1, <2>1, <2>2, <2>3, <2>4, OpenCases
<1>2. IInv /\ [Next]_vars =>
          [phase = "cycle" /\ phase' = "cycle" /\ snap = det.cyc => snap' = snap]_vars
  BY <1>1
<1> QED
  BY Invariance, <1>2, PTL DEF Spec, SnapshotKept

-----------------------------------------------------------------------------
\* What the histories hold of each start, by where it is: not begun, open, being filed,
\* or over.
Open(c) == phase \in Live /\ det.cyc = c

Untold(c) == told[c].bus = 0 /\ told[c].ended = 0 /\ label[c].by = "nobody"

\* LabelIsOwn of one start.
OwnLabel(c) ==
    label[c].by # "nobody" /\ told[c].start = 1 =>
        label[c].from = c /\ (label[c].by = "user" => pick[c] # None)

\* What a tail has frozen of an announced cycle is the cycle's own.
Frozen(t, c) ==
    /\ t.owed <=> told[c].start = 1
    /\ t.at = "matching" /\ told[c].start = 1 => t.from = c /\ (t.manual => pick[c] # None)

StartHistory(c) ==
    /\ told[c].start \in {0, 1} /\ OwnLabel(c)
    /\ c > last => told[c].start = 0 /\ Untold(c) /\ tail[c].at = "none"
    /\ Open(c) => /\ told[c].start = IF phase = "cycle" THEN 1 ELSE 0
                  /\ Untold(c) /\ tail[c].at = "none"
    /\ ~Open(c) /\ tail[c].at = "none" =>
           told[c].bus = told[c].start /\ told[c].ended = told[c].start
    /\ tail[c].at \in {"matching", "storing"} =>
           told[c].bus = 0 /\ told[c].ended = 0 /\ Frozen(tail[c], c)
    /\ tail[c].at = "matching" => label[c].by = "nobody"
    /\ tail[c].at \in {"closing", "done"} =>
           told[c].ended = told[c].start /\ told[c].bus \in {told[c].start, 1}

\* An end is shown, or would be after a false start.  Either its timer runs, or a tail that
\* will find its own identity still current is going to start it.
ShowsEnd == phase \in Statuses \/ (phase = "probing" /\ origin \in Statuses)

EndOwned ==
    ShowsEnd => (mgr.completed /\ mgr.expiry) \/ \E c \in Start : Busy(c) /\ SameCycle(c)

HistInv ==
    /\ phase \in Live => last > 0
    /\ mgr.owed <=> phase = "cycle"
    /\ phase = "cycle" /\ mgr.manual => pick[det.cyc] # None
    /\ \A c \in Start : StartHistory(c)
    /\ EndOwned

LEMMA ToldIs ==
    ASSUME told \in [Start -> ToldType], NEW c \in Start
    PROVE  /\ \A x \in Start \ {c} : BusTold(c)[x] = told[x] /\ EndTold(c)[x] = told[x]
           /\ BusTold(c)[c].start = told[c].start /\ BusTold(c)[c].bus = told[c].bus + 1
           /\ BusTold(c)[c].ended = told[c].ended
           /\ EndTold(c)[c].start = told[c].start /\ EndTold(c)[c].bus = told[c].bus + 1
           /\ EndTold(c)[c].ended = told[c].ended + 1
<1>1. \A x \in Start : told[x] \in ToldType
  OBVIOUS
<1>2. BusTold(c) \in [Start -> ToldType]
  BY ToldUpdates DEF BusTold
<1>3. /\ \A x \in Start \ {c} : BusTold(c)[x] = told[x]
      /\ BusTold(c)[c] = [told[c] EXCEPT !.bus = @ + 1]
  BY DEF BusTold
<1>4. /\ BusTold(c)[c].start = told[c].start /\ BusTold(c)[c].bus = told[c].bus + 1
      /\ BusTold(c)[c].ended = told[c].ended
  BY <1>1, <1>3 DEF ToldType
<1>5. /\ \A x \in Start \ {c} : EndTold(c)[x] = BusTold(c)[x]
      /\ EndTold(c)[c] = [BusTold(c)[c] EXCEPT !.ended = @ + 1]
  BY <1>2 DEF EndTold
<1>6. BusTold(c)[c] \in ToldType
  BY <1>2
<1> HIDE DEF BusTold
<1> QED
  BY <1>3, <1>4, <1>5, <1>6 DEF ToldType

\* A step that does nothing to a start but change the user's choice while it is open.
LEMMA HistoryKept ==
    ASSUME NEW c \in Start, StartHistory(c), told'[c] = told[c], tail'[c] = tail[c],
           label'[c] = label[c], Open(c)' <=> Open(c), Open(c) => phase' = phase,
           c > last' => c > last, pick'[c] = pick[c] \/ Open(c)
    PROVE  StartHistory(c)'
<1>1. CASE Open(c)
  BY <1>1 DEF StartHistory, OwnLabel, Untold
<1>2. CASE ~Open(c)
  BY <1>2 DEF StartHistory, OwnLabel, Untold, Frozen
<1> QED
  BY <1>1, <1>2

\* The silent steps: most stay where they are, and may change what the user chose for the
\* open start.
Steady ==
    /\ phase' = phase /\ origin' = origin /\ last' = last /\ det'.cyc = det.cyc
    /\ mgr'.owed = mgr.owed /\ mgr'.token = mgr.token
    /\ mgr'.completed = mgr.completed /\ mgr'.expiry = mgr.expiry
    /\ \/ pick' = pick
       \/ phase \in Live /\ \A c \in Start : c # det.cyc => pick'[c] = pick[c]

LEMMA SilentCases ==
    ASSUME IInv, Silent
    PROVE  StartProbe \/ AbortProbe \/ LeaveEnd \/ Expire \/ Steady
<1> USE DEF IInv, TypeOK, Stay, ManagerType, DetectorType
<1>1. CASE Reading
  BY <1>1 DEF Reading, Steady
<1>2. CASE ReleasePause \/ Dispatch \/ Discard
  BY <1>2 DEF ReleasePause, Dispatch, Discard, Steady
<1>3. CASE MatchFails \/ MatchReturns \/ AlignmentReturns
  <2>1. Stay /\ last' = last /\ det'.cyc = det.cyc /\ mgr' \in Switched
    BY <1>3, MatchOutcome
  <2>2. pick' = pick
    BY <1>3 DEF MatchFails, MatchReturns, AlignmentReturns
  <2>3. mgr'.owed = mgr.owed
    BY <2>1 DEF Switched
  <2> QED
    BY <2>1, <2>2, <2>3, SwitchedFields DEF Steady
<1>4. CASE ClearProgram
  BY <1>4 DEF ClearProgram, Steady
<1>5. CASE \E q \in Programs : SetProgram(q)
  BY <1>5 DEF SetProgram, Steady
<1>6. CASE DoorOpens \/ PauseBegins \/ PauseSucceeds \/ PauseFails
  BY <1>6 DEF DoorOpens, PauseBegins, PauseSucceeds, PauseFails, Paused, Steady
<1>7. CASE ResumeBegins \/ ResumeSucceeds \/ ResumeFails
  BY <1>7 DEF ResumeBegins, ResumeSucceeds, ResumeFails, Paused, Steady
<1> QED
  BY <1>1, <1>2, <1>3, <1>4, <1>5, <1>6, <1>7 DEF Silent

LEMMA IsStart == ASSUME NEW n \in Number, n > 0 PROVE n \in Start
BY ManagerAssumption DEF Number, Start

\* Of the manager a tail changes the programme, or resets all of it.
LEMMA TailManager ==
    ASSUME IInv, NEW c \in Start, TailStep(c)
    PROVE  /\ mgr'.owed = mgr.owed
           /\ \/ /\ mgr'.token = mgr.token /\ mgr'.completed = mgr.completed
                 /\ mgr'.expiry = mgr.expiry
              \/ CloseEnd(c) /\ SameCycle(c) /\ mgr'.completed /\ mgr'.expiry
<1> USE DEF IInv, TypeOK, ManagerType
<1>1. CASE FinalMatch(c)
  <2>1. PICK best \in Programs \union {None} :
            mgr' = mgr \/ mgr' = [mgr EXCEPT !.program = best, !.from = c]
    BY <1>1 DEF FinalMatch
  <2> QED
    BY <2>1
<1>2. CASE EndSteps(c) \/ EndStepsFail(c)
  BY <1>2 DEF EndSteps, EndStepsFail
<1>3. CASE CloseEnd(c) /\ SameCycle(c)
  BY <1>3 DEF CloseEnd, FreshManager
<1>4. CASE CloseEnd(c) /\ ~SameCycle(c)
  BY <1>4 DEF CloseEnd
<1> QED
  BY <1>1, <1>2, <1>3, <1>4 DEF TailStep

LEMMA InitHistory == Init => HistInv
<1> SUFFICES ASSUME Init PROVE HistInv
  OBVIOUS
<1>1. phase = "idle" /\ ~mgr.owed /\ ~ShowsEnd
  BY ManagerAssumption DEF Init, LifecycleInit, FreshManager, ShowsEnd
<1>2. ASSUME NEW c \in Start PROVE StartHistory(c)
  BY <1>1, <1>2 DEF Init, NoTail, Unlabelled, StartHistory, OwnLabel, Untold, Frozen, Open, Live
<1> QED
  BY <1>1, <1>2 DEF HistInv, EndOwned, Live

\* What the manager holds itself: the owed end, and whether the user chose.
LEMMA ManagerHistory ==
    ASSUME IInv, HistInv, Next
    PROVE  /\ phase' \in Live => last' > 0
           /\ mgr'.owed <=> phase' = "cycle"
           /\ phase' = "cycle" /\ mgr'.manual => pick'[det'.cyc] # None
<1> USE DEF IInv, TypeOK
<1>0. /\ phase \in Live => last > 0
      /\ mgr.owed <=> phase = "cycle"
      /\ phase = "cycle" /\ mgr.manual => pick[det.cyc] # None
  BY DEF HistInv
<1>1. last' > 0 \/ phase' \notin Live
  <2>1. CASE Silent
    <3>1. CASE StartProbe
      BY <3>1, NumberFacts DEF StartProbe
    <3>2. CASE AbortProbe \/ LeaveEnd \/ Expire
      BY <3>2, <1>0, StatusFacts DEF AbortProbe, LeaveEnd, Expire, FalseStart, Leave, Stay,
                                     OriginOK, Live
    <3>3. CASE Steady
      BY <3>3, <1>0 DEF Steady
    <3> QED
      BY <2>1, <3>1, <3>2, <3>3, SilentCases
  <2>2. CASE CommitCycle
    BY <2>2, <1>0 DEF CommitCycle, Commit, Live
  <2>3. CASE DropCycle \/ \E s \in Statuses : EndCycle(s)
    BY <2>3, StatusFacts DEF DropCycle, EndCycle, Leave, Close, Live
  <2>4. CASE \E c \in Start : TailStep(c)
    <3>1. Stay /\ last' = last
      BY <2>4 DEF TailStep, FinalMatch, EndSteps, EndStepsFail, CloseEnd
    <3> QED
      BY <1>0, <3>1 DEF Stay
  <2> QED
    BY <2>1, <2>2, <2>3, <2>4, Cases
<1>2. mgr'.owed <=> phase' = "cycle"
  <2>1. CASE Silent
    <3>1. CASE StartProbe
      BY <3>1, <1>0, ManagerAssumption DEF StartProbe, BeginProbe, ManagerType
    <3>2. CASE AbortProbe \/ LeaveEnd
      BY <3>2, <1>0, StatusFacts DEF AbortProbe, LeaveEnd, FalseStart, Leave, OriginOK, Live,
                                     ManagerType
    <3>3. CASE Expire
      BY <3>3, <1>0 DEF Expire, Leave, Stay, OpenCycleIntact, ManagerType
    <3>4. CASE Steady
      BY <3>4, <1>0 DEF Steady
    <3> QED
      BY <2>1, <3>1, <3>2, <3>3, <3>4, SilentCases
  <2>2. CASE CommitCycle
    BY <2>2 DEF CommitCycle, Commit
  <2>3. CASE DropCycle
    BY <2>3 DEF DropCycle, Leave, ManagerType
  <2>4. CASE \E s \in Statuses : EndCycle(s)
    <3>1. mgr'.owed = FALSE
      BY <2>4 DEF EndCycle, Ended, Discarded, ManagerType
    <3> QED
      BY <2>4, <3>1, StatusFacts DEF EndCycle, Close, Live
  <2>5. CASE \E c \in Start : TailStep(c)
    <3>1. Stay
      BY <2>5 DEF TailStep, FinalMatch, EndSteps, EndStepsFail, CloseEnd
    <3>2. mgr'.owed = mgr.owed
      BY <2>5, TailManager
    <3> QED
      BY <1>0, <3>1, <3>2 DEF Stay
  <2> QED
    BY <2>1, <2>2, <2>3, <2>4, <2>5, Cases
<1>3. ASSUME phase' = "cycle", mgr'.manual PROVE pick'[det'.cyc] # None
  <2>0. /\ last' \in Number /\ last' > 0 /\ det'.cyc = last'
        /\ pick' \in [Start -> Programs \union {None}]
    BY <1>1, <1>3, ManagerStep, TasksStep, OrderedStep DEF Ordered, Live
  <2>1. det'.cyc \in Start
    <3>1. last' \in Start
      BY <2>0, IsStart
    <3> QED
      BY <2>0, <3>1
  <2>2. CASE CommitCycle
    <3>1. det' = det /\ pick' = [pick EXCEPT ![det.cyc] = mgr.armed]
      BY <2>2 DEF CommitCycle
    <3>2. mgr'.manual = (mgr.armed # None)
      BY <2>2 DEF CommitCycle
    <3> QED
      BY <1>3, <2>1, <3>1, <3>2
  <2>3. CASE Kept /\ (MatchFails \/ MatchReturns \/ AlignmentReturns)
    <3>1. mgr' \in Switched
      BY <2>3, MatchOutcome
    <3>2. mgr'.manual = mgr.manual
      BY <3>1 DEF Switched, ManagerType
    <3>3. pick' = pick
      BY <2>3 DEF MatchFails, MatchReturns, AlignmentReturns
    <3> QED
      BY <1>0, <1>3, <2>3, <3>2, <3>3 DEF Kept
  <2>4. CASE Kept /\ \E c \in Start : TailStep(c)
    <3>1. mgr' = mgr
      BY <2>4, TailSteps DEF Kept
    <3>2. pick' = pick
      BY <2>4 DEF TailStep, FinalMatch, EndSteps, EndStepsFail, CloseEnd
    <3> QED
      BY <1>0, <1>3, <2>4, <3>1, <3>2 DEF Kept
  <2>5. CASE Kept /\ (Reading \/ ReleasePause \/ Dispatch \/ Discard \/ PauseSucceeds
                     \/ ResumeSucceeds)
    BY <1>0, <1>3, <2>5 DEF Kept, Reading, ReleasePause, Dispatch, Discard, PauseSucceeds,
                            ResumeSucceeds, ManagerType
  <2>6. CASE Kept /\ \E q \in Programs : SetProgram(q)
    BY <2>0, <2>1, <2>6, ManagerAssumption DEF Kept, SetProgram, Live
  <2>7. CASE Kept /\ ClearProgram
    <3>1. mgr'.manual = FALSE
      BY <2>7 DEF Kept, ClearProgram, ManagerType
    <3> QED
      BY <1>3, <3>1
  <2>8. CASE Kept /\ (DoorOpens \/ PauseBegins \/ PauseFails \/ ResumeBegins \/ ResumeFails)
    BY <1>0, <1>3, <2>8 DEF Kept, DoorOpens, PauseBegins, PauseFails, ResumeBegins, ResumeFails,
                            ManagerType
  <2> QED
    BY <1>3, OpenCases, <2>2, <2>3, <2>4, <2>5, <2>6, <2>7, <2>8
<1> QED
  BY <1>1, <1>2, <1>3

\* A shown end keeps its timer, or the tail that will start it.
LEMMA EndOwnedStep == ASSUME IInv, HistInv, Next PROVE EndOwned'
<1> SUFFICES ASSUME ShowsEnd'
             PROVE  (mgr'.completed /\ mgr'.expiry)
                    \/ \E c \in Start : Busy(c)' /\ SameCycle(c)'
  BY DEF EndOwned
<1> USE DEF IInv, TypeOK
<1>0. ShowsEnd => (mgr.completed /\ mgr.expiry) \/ \E c \in Start : Busy(c) /\ SameCycle(c)
  BY DEF HistInv, EndOwned
<1>1. ASSUME ShowsEnd, tail' = tail, mgr'.token = mgr.token,
             mgr'.completed = mgr.completed, mgr'.expiry = mgr.expiry
      PROVE  (mgr'.completed /\ mgr'.expiry) \/ \E c \in Start : Busy(c)' /\ SameCycle(c)'
  BY <1>0, <1>1 DEF Busy, SameCycle
<1>2. CASE Silent
  <2>1. tail' = tail
    BY <1>2, SilentStep
  <2>2. CASE StartProbe
    <3>1. mgr'.token = mgr.token /\ mgr'.completed = mgr.completed /\ mgr'.expiry = mgr.expiry
      BY <2>2 DEF StartProbe, ManagerType
    <3>2. ShowsEnd
      BY <2>2, ManagerAssumption DEF StartProbe, BeginProbe, ShowsEnd
    <3> QED
      BY <1>1, <2>1, <3>1, <3>2
  <2>3. CASE AbortProbe
    <3>1. mgr'.token = mgr.token /\ mgr'.completed = mgr.completed /\ mgr'.expiry = mgr.expiry
      BY <2>3 DEF AbortProbe, ManagerType
    <3>2. ShowsEnd
      BY <2>3, ManagerAssumption DEF AbortProbe, FalseStart, ShowsEnd
    <3> QED
      BY <1>1, <2>1, <3>1, <3>2
  <2>4. CASE LeaveEnd \/ Expire
    <3>1. phase' = "idle"
      BY <2>4 DEF LeaveEnd, Expire, Leave, Stay
    <3> QED
      BY <3>1, ManagerAssumption DEF ShowsEnd
  <2>5. CASE Steady
    <3>1. ShowsEnd
      BY <2>5 DEF Steady, ShowsEnd
    <3> QED
      BY <1>1, <2>1, <2>5, <3>1 DEF Steady
  <2> QED
    BY <1>2, <2>2, <2>3, <2>4, <2>5, SilentCases
<1>3. CASE CommitCycle \/ DropCycle
  <2>1. phase' \in {"cycle", "idle"}
    BY <1>3 DEF CommitCycle, DropCycle, Commit, Leave
  <2> QED
    BY <2>1, ManagerAssumption DEF ShowsEnd
<1>4. CASE \E s \in Statuses : EndCycle(s)
  <2>1. Ended \in ManagerType /\ Ended.token = mgr.token
    <3>1. PICK n \in Number : Ended = [mgr EXCEPT !.owed = FALSE, !.expiry = FALSE, !.begun = n]
      BY ManagerFields, NumberFacts DEF Ended
    <3>2. [mgr EXCEPT !.owed = FALSE, !.expiry = FALSE] \in ManagerType
      BY ManagerUpdates
    <3> QED
      BY <3>1, <3>2 DEF ManagerType
  <2>2. CASE mgr' = Discarded(Ended)
    BY <2>1, <2>2 DEF Discarded, ManagerType
  <2>3. CASE mgr' = Ended /\ mgr' # Discarded(Ended)
    <3>1. det.cyc \in Start
      BY <1>4, ManagerAssumption, DetectorUpdates DEF EndCycle, HistInv, Ordered, Start, Number
    <3>2. tail'[det.cyc].at = "matching" /\ tail'[det.cyc].token = mgr.token
      BY <1>4, <2>3, <3>1 DEF EndCycle
    <3> QED
      BY <2>1, <2>3, <3>1, <3>2 DEF Busy, SameCycle
  <2> QED
    BY <1>4, <2>2, <2>3 DEF EndCycle
<1>5. CASE \E c \in Start : TailStep(c)
  <2> PICK c \in Start : TailStep(c)
    BY <1>5
  <2>1. ShowsEnd
    BY DEF TailStep, FinalMatch, EndSteps, EndStepsFail, CloseEnd, Stay, ShowsEnd
  <2>2. CASE FinalMatch(c) \/ EndSteps(c) \/ EndStepsFail(c)
    <3>1. \/ /\ mgr'.token = mgr.token /\ mgr'.completed = mgr.completed
             /\ mgr'.expiry = mgr.expiry
          \/ mgr'.completed /\ mgr'.expiry
      BY TailManager
    <3>2. /\ \A x \in Start \ {c} : tail'[x] = tail[x]
          /\ tail'[c].at \in {"storing", "closing"} /\ tail'[c].token = tail[c].token
      <4>1. CASE FinalMatch(c)
        <5>1. PICK best, named :
                  tail' = [tail EXCEPT ![c].at = "storing",
                                       ![c].program = IF named THEN best ELSE tail[c].program,
                                       ![c].from = IF named THEN c ELSE tail[c].from]
          BY <4>1 DEF FinalMatch
        <5> QED
          BY <5>1 DEF TailType
      <4>2. CASE EndSteps(c) \/ EndStepsFail(c)
        <5>1. tail' = [tail EXCEPT ![c].at = "closing"]
          BY <4>2 DEF EndSteps, EndStepsFail
        <5> QED
          BY <5>1 DEF TailType
      <4> QED
        BY <2>2, <4>1, <4>2
    <3> QED
      BY <1>0, <2>1, <3>1, <3>2 DEF SameCycle, Busy
  <2>3. CASE CloseEnd(c) /\ SameCycle(c)
    <3>1. mgr' = [FreshManager EXCEPT !.completed = TRUE, !.expiry = TRUE, !.owed = mgr.owed]
      BY <2>3 DEF CloseEnd
    <3> QED
      BY <3>1 DEF FreshManager
  <2>4. CASE CloseEnd(c) /\ ~SameCycle(c)
    <3>1. mgr' = mgr /\ \A x \in Start \ {c} : tail'[x] = tail[x]
      BY <2>4 DEF CloseEnd
    <3> QED
      BY <1>0, <2>1, <2>4, <3>1 DEF SameCycle, Busy
  <2> QED
    BY <2>2, <2>3, <2>4 DEF TailStep
<1> QED
  BY Cases, <1>2, <1>3, <1>4, <1>5

\* The open start ends here: by its end or dropped, announced only if its beginning was.
LEMMA EndsHere ==
    ASSUME IInv, HistInv, NEW c \in Start, Open(c), ~Open(c)',
           told' = IF mgr.owed THEN EndTold(c) ELSE told,
           tail'[c] = tail[c], label'[c] = label[c], last' = last
    PROVE  StartHistory(c)'
<1>1. /\ told[c].start = (IF phase = "cycle" THEN 1 ELSE 0) /\ (mgr.owed <=> phase = "cycle")
      /\ told[c].bus = 0 /\ told[c].ended = 0 /\ label[c].by = "nobody" /\ tail[c].at = "none"
      /\ c > last => told[c].start = 0
  BY DEF HistInv, StartHistory, Untold
<1>2. told \in [Start -> ToldType] /\ c \in Nat /\ last \in Nat
  BY NumberFacts DEF IInv, TypeOK
<1>3. det.cyc = c /\ det.cyc = last
  BY DEF Open, IInv, Ordered
<1>4. told'[c].start = told[c].start /\ told'[c].bus = told[c].start
      /\ told'[c].ended = told[c].start
  <2>1. CASE mgr.owed
    BY <1>1, <1>2, <2>1, ToldIs
  <2>2. CASE ~mgr.owed
    BY <1>1, <2>2
  <2> QED
    BY <2>1, <2>2
<1> QED
  BY <1>1, <1>2, <1>3, <1>4 DEF StartHistory, OwnLabel, Untold

\* The tail of a start that is over goes on by a step.
LEMMA TailHistory ==
    ASSUME IInv, HistInv, NEW c \in Start, TailStep(c)
    PROVE  StartHistory(c)'
<1> USE DEF IInv, TypeOK
<1>1. /\ StartHistory(c) /\ ~Open(c) /\ tail[c].at \in {"matching", "storing", "closing"}
      /\ ~(c > last)
  BY DEF HistInv, StartHistory, TailStep, FinalMatch, EndSteps, EndStepsFail, CloseEnd
<1>2. last' = last /\ ~Open(c)' /\ pick' = pick
  BY <1>1 DEF TailStep, FinalMatch, EndSteps, EndStepsFail, CloseEnd, Stay, Open
<1>3. told[c].start \in {0, 1} /\ OwnLabel(c)
  BY <1>1 DEF StartHistory
<1>4. CASE FinalMatch(c)
  <2>1. PICK best \in Programs \union {None}, sure \in BOOLEAN, named \in BOOLEAN,
             shown \in Chosen :
            /\ tail' = [tail EXCEPT ![c].at = "storing", ![c].program = shown,
                                    ![c].from = IF named THEN c ELSE tail[c].from]
            /\ label' = [label EXCEPT ![c] =
                  CASE ByHand(c, shown) -> [by |-> "user", program |-> shown,
                                            from |-> tail[c].from]
                    [] ~ByHand(c, shown) /\ sure -> [by |-> "match", program |-> best, from |-> c]
                    [] OTHER -> [by |-> "nobody", program |-> None, from |-> c]]
    BY <1>4, CallFields DEF FinalMatch, Chosen
  <2>2. /\ told[c].bus = 0 /\ told[c].ended = 0 /\ (tail[c].owed <=> told[c].start = 1)
        /\ told[c].start = 1 => tail[c].from = c /\ (tail[c].manual => pick[c] # None)
        /\ told' = told
    BY <1>1, <1>4 DEF FinalMatch, StartHistory, Frozen
  <2>3. tail'[c].at = "storing" /\ tail'[c].owed = tail[c].owed
    BY <2>1 DEF TailType
  <2>4. OwnLabel(c)'
    <3>1. CASE ByHand(c, shown)
      <4>1. label'[c] = [by |-> "user", program |-> shown, from |-> tail[c].from]
        BY <2>1, <3>1
      <4> QED
        BY <1>2, <2>2, <3>1, <4>1 DEF OwnLabel, ByHand
    <3>2. CASE ~ByHand(c, shown) /\ sure
      <4>1. label'[c] = [by |-> "match", program |-> best, from |-> c]
        BY <2>1, <3>2
      <4> QED
        BY <4>1 DEF OwnLabel
    <3>3. CASE ~ByHand(c, shown) /\ ~sure
      <4>1. label'[c] = [by |-> "nobody", program |-> None, from |-> c]
        BY <2>1, <3>3
      <4> QED
        BY <4>1 DEF OwnLabel
    <3> QED
      BY <3>1, <3>2, <3>3
  <2> QED
    BY <1>1, <1>2, <1>3, <2>2, <2>3, <2>4 DEF StartHistory, Frozen
<1>5. CASE EndSteps(c) \/ EndStepsFail(c)
  <2>1. /\ told[c].bus = 0 /\ told[c].ended = 0 /\ (tail[c].owed <=> told[c].start = 1)
    BY <1>1, <1>5 DEF EndSteps, EndStepsFail, StartHistory, Frozen
  <2>2. /\ tail'[c].at = "closing" /\ label' = label
    BY <1>5 DEF EndSteps, EndStepsFail, TailType
  <2>3. \/ tail[c].owed /\ told' = EndTold(c)
        \/ ~tail[c].owed /\ (told' = BusTold(c) \/ told' = told)
    BY <1>5 DEF EndSteps, EndStepsFail
  <2>4. /\ told'[c].start = told[c].start /\ told'[c].ended = told[c].start
        /\ told'[c].bus \in {told[c].start, 1}
    <3>1. CASE tail[c].owed
      BY <2>1, <2>3, <3>1, ToldIs
    <3>2. CASE ~tail[c].owed /\ told' = BusTold(c)
      BY <1>3, <2>1, <3>2, ToldIs
    <3>3. CASE ~tail[c].owed /\ told' = told
      BY <1>3, <2>1, <3>3
    <3> QED
      BY <2>3, <3>1, <3>2, <3>3
  <2> QED
    BY <1>1, <1>2, <1>3, <2>2, <2>4 DEF StartHistory, OwnLabel
<1>6. CASE CloseEnd(c)
  <2>1. tail'[c].at = "done" /\ told' = told /\ label' = label
    BY <1>6 DEF CloseEnd, NoTail
  <2>2. /\ told[c].ended = told[c].start /\ told[c].bus \in {told[c].start, 1}
    BY <1>1, <1>6 DEF CloseEnd, StartHistory
  <2> QED
    BY <1>1, <1>2, <1>3, <2>1, <2>2 DEF StartHistory, OwnLabel
<1> QED
  BY <1>4, <1>5, <1>6 DEF TailStep

LEMMA StartHistoryStep ==
    ASSUME IInv, HistInv, Next, NEW c \in Start
    PROVE  StartHistory(c)'
<1> USE DEF IInv, TypeOK
<1>1. StartHistory(c) /\ c \in Nat /\ last \in Nat
  BY NumberFacts DEF HistInv
<1>2. CASE Silent
  <2>1. UNCHANGED <<tail, told, label>>
    BY <1>2, SilentStep
  <2>2. CASE StartProbe
    <3>1. /\ phase \notin Live /\ phase' = "probing" /\ last' = last + 1 /\ det'.cyc = last'
          /\ pick' = pick
      BY <2>2, StatusFacts DEF StartProbe, BeginProbe, Live, DetectorType
    <3>2. CASE c = last'
      BY <1>1, <2>1, <3>1, <3>2 DEF StartHistory, OwnLabel, Untold, Open, Live
    <3>3. CASE c # last'
      <4>1. ~Open(c) /\ ~Open(c)' /\ (c > last' => c > last)
        BY <1>1, <3>1, <3>3 DEF Open
      <4> QED
        BY <1>1, <2>1, <3>1, <4>1, HistoryKept
    <3> QED
      BY <3>2, <3>3
  <2>3. CASE AbortProbe
    <3>1. phase = "probing" /\ last' = last /\ pick' = pick
      BY <2>3 DEF AbortProbe, FalseStart
    <3>2. phase' \notin Live
      BY <3>1, <2>3, StatusFacts DEF AbortProbe, FalseStart, OriginOK, Live
    <3>3. CASE Open(c)
      <4>1. told[c].start = 0 /\ Untold(c) /\ tail[c].at = "none"
        BY <1>1, <3>1, <3>3 DEF StartHistory
      <4> QED
        BY <2>1, <3>1, <3>2, <4>1 DEF StartHistory, OwnLabel, Untold, Open
    <3>4. CASE ~Open(c)
      <4>1. ~Open(c)'
        BY <3>2 DEF Open
      <4> QED
        BY <1>1, <2>1, <3>1, <3>4, <4>1, HistoryKept
    <3> QED
      BY <3>3, <3>4
  <2>4. CASE LeaveEnd \/ Expire
    <3>1. phase \notin Live /\ phase' = "idle" /\ last' = last /\ pick' = pick
      BY <2>4, StatusFacts DEF LeaveEnd, Expire, Leave, Stay, Live, OpenCycleIntact
    <3>2. ~Open(c) /\ ~Open(c)'
      BY <3>1 DEF Open, Live
    <3> QED
      BY <1>1, <2>1, <3>1, <3>2, HistoryKept
  <2>5. CASE Steady
    <3>1. (Open(c)' <=> Open(c)) /\ phase' = phase /\ last' = last
      BY <2>5 DEF Steady, Open
    <3>2. pick'[c] = pick[c] \/ Open(c)
      BY <2>5 DEF Steady, Open
    <3> QED
      BY <1>1, <2>1, <3>1, <3>2, HistoryKept
  <2> QED
    BY <1>2, <2>2, <2>3, <2>4, <2>5, SilentCases
<1>3. CASE CommitCycle
  <2>1. /\ phase = "probing" /\ phase' = "cycle" /\ UNCHANGED <<last, det, tail, label>>
        /\ told' = [told EXCEPT ![det.cyc].start = @ + 1]
        /\ pick' = [pick EXCEPT ![det.cyc] = mgr.armed]
    BY <1>3 DEF CommitCycle, Commit
  <2>2. CASE c = det.cyc
    <3>1. Open(c) /\ Open(c)'
      BY <2>1, <2>2 DEF Open, Live
    <3>2. told[c].start = 0 /\ Untold(c) /\ tail[c].at = "none" /\ ~(c > last)
      BY <1>1, <2>1, <2>2, <3>1 DEF StartHistory, Ordered, Live
    <3>3. told'[c].start = 1 /\ told'[c].bus = 0 /\ told'[c].ended = 0
      BY <2>1, <2>2, <3>2 DEF Untold, ToldType
    <3> QED
      BY <2>1, <3>1, <3>2, <3>3 DEF StartHistory, OwnLabel, Untold
  <2>3. CASE c # det.cyc
    <3>1. told'[c] = told[c] /\ pick'[c] = pick[c] /\ ~Open(c) /\ ~Open(c)'
      BY <2>1, <2>3 DEF Open
    <3> QED
      BY <1>1, <2>1, <3>1, HistoryKept
  <2> QED
    BY <2>2, <2>3
<1>4. CASE DropCycle
  <2>1. /\ phase' = "idle" /\ UNCHANGED <<last, tail, label, pick>>
        /\ told' = IF mgr.owed THEN EndTold(det.cyc) ELSE told
    BY <1>4 DEF DropCycle, Leave
  <2>2. ~Open(c)'
    BY <2>1 DEF Open, Live
  <2>3. CASE Open(c)
    BY <2>1, <2>2, <2>3, EndsHere DEF Open
  <2>4. CASE ~Open(c)
    <3>1. told'[c] = told[c]
      <4>1. CASE mgr.owed
        <5>1. phase \in Live /\ det.cyc = last /\ last > 0
          BY <4>1 DEF HistInv, Ordered, Live
        <5>2. det.cyc \in Start /\ det.cyc # c
          BY <2>4, <5>1, IsStart DEF Open
        <5> QED
          BY <2>1, <4>1, <5>2, ToldIs
      <4> QED
        BY <2>1, <4>1
    <3> QED
      BY <1>1, <2>1, <2>2, <2>4, <3>1, HistoryKept
  <2> QED
    BY <2>3, <2>4
<1>5. CASE \E s \in Statuses : EndCycle(s)
  <2>1. /\ phase \in Live /\ phase' \notin Live /\ UNCHANGED <<last, label, pick>>
        /\ \/ tail' = tail /\ told' = IF mgr.owed THEN EndTold(det.cyc) ELSE told
           \/ /\ told' = told
              /\ tail' = [tail EXCEPT ![det.cyc] =
                            [at |-> "matching", token |-> mgr.token, program |-> mgr.program,
                             from |-> mgr.from, manual |-> mgr.manual, owed |-> mgr.owed]]
    BY <1>5, StatusFacts DEF EndCycle, Close
  <2>2. det.cyc = last /\ det.cyc \in Start
    <3>1. det.cyc = last /\ last > 0
      BY <2>1 DEF HistInv, Ordered
    <3> QED
      BY <3>1, IsStart
  <2>3. ~Open(c)'
    BY <2>1 DEF Open
  <2>4. CASE Open(c) /\ tail' = tail /\ told' = IF mgr.owed THEN EndTold(det.cyc) ELSE told
    BY <2>1, <2>3, <2>4, EndsHere DEF Open
  <2>5. CASE Open(c) /\ told' = told
             /\ tail' = [tail EXCEPT ![det.cyc] =
                            [at |-> "matching", token |-> mgr.token, program |-> mgr.program,
                             from |-> mgr.from, manual |-> mgr.manual, owed |-> mgr.owed]]
    <3>1. c = det.cyc /\ ~(c > last)
      BY <1>1, <2>2, <2>5 DEF Open
    <3>2. /\ tail'[c].at = "matching" /\ tail'[c].from = mgr.from
          /\ tail'[c].manual = mgr.manual /\ tail'[c].owed = mgr.owed
      BY <2>5, <3>1
    <3>3. /\ told[c].start = (IF phase = "cycle" THEN 1 ELSE 0) /\ Untold(c)
          /\ (mgr.owed <=> phase = "cycle")
          /\ phase = "cycle" => mgr.from = c /\ (mgr.manual => pick[c] # None)
      BY <1>1, <2>5, <3>1 DEF StartHistory, HistInv, OpenCycleIntact
    <3> QED
      BY <2>1, <2>3, <2>5, <3>1, <3>2, <3>3 DEF StartHistory, OwnLabel, Untold, Frozen
  <2>6. CASE ~Open(c)
    <3>1. c # det.cyc
      BY <2>1, <2>6 DEF Open
    <3>2. told'[c] = told[c] /\ tail'[c] = tail[c]
      BY <2>1, <2>2, <3>1, ToldIs
    <3> QED
      BY <1>1, <2>1, <2>3, <2>6, <3>2, HistoryKept
  <2> QED
    BY <2>1, <2>4, <2>5, <2>6
<1>6. CASE \E x \in Start : TailStep(x)
  <2> PICK x \in Start : TailStep(x)
    BY <1>6
  <2>1. CASE x = c
    BY <2>1, TailHistory
  <2>2. CASE x # c
    <3>1. Stay /\ UNCHANGED <<last, det, pick>>
      BY DEF TailStep, FinalMatch, EndSteps, EndStepsFail, CloseEnd
    <3>2. tail'[c] = tail[c] /\ label'[c] = label[c]
      BY <2>2 DEF TailStep, FinalMatch, EndSteps, EndStepsFail, CloseEnd
    <3>3. told' \in {told, EndTold(x), BusTold(x)}
      BY DEF TailStep, FinalMatch, EndSteps, EndStepsFail, CloseEnd
    <3>4. told'[c] = told[c]
      BY <2>2, <3>3, ToldIs
    <3>5. Open(c)' <=> Open(c)
      BY <3>1 DEF Open, Stay
    <3> QED
      BY <1>1, <3>1, <3>2, <3>4, <3>5, HistoryKept DEF Stay
  <2> QED
    BY <2>1, <2>2
<1> QED
  BY Cases, <1>2, <1>3, <1>4, <1>5, <1>6

LEMMA HistoryInvariant == Spec => [](IInv /\ HistInv)
<1>1. IInv /\ HistInv /\ [Next]_vars => IInv' /\ HistInv'
  <2>1. ASSUME IInv, HistInv, Next PROVE IInv' /\ HistInv'
    BY <2>1, NextInv, ManagerHistory, StartHistoryStep, EndOwnedStep DEF HistInv
  <2>2. ASSUME IInv, HistInv, UNCHANGED vars PROVE HistInv'
    BY <2>2 DEF HistInv, StartHistory, OwnLabel, Untold, Frozen, Open, EndOwned, ShowsEnd, Busy,
                SameCycle, vars, lifecycleVars, managerVars
  <2> QED
    BY <2>1, <2>2, StutterInv
<1> QED
  BY InitInv, InitHistory, <1>1, PTL DEF Spec

\* What is stored of an announced cycle is that cycle's, and is the user's label only if the
\* user chose for it (_async_cycle_end_steps), whatever cycles begin while it is filed.
THEOREM LabelsAreOwn == Spec => []LabelIsOwn
<1>1. HistInv => LabelIsOwn
  BY DEF HistInv, StartHistory, OwnLabel, LabelIsOwn
<1> QED
  BY HistoryInvariant, <1>1, PTL

\* Every announced cycle gets exactly one end, filed, discarded or dropped, and whichever
\* step of its tail raises (_cycle_ended_pending).
THEOREM AnnouncedEndsExactlyOnce == Spec => []AnnouncedEndsOnce
<1>1. IInv /\ HistInv => AnnouncedEndsOnce
  <2> SUFFICES ASSUME IInv, HistInv, NEW c \in Start
               PROVE  /\ told[c].bus <= 1 /\ told[c].ended <= told[c].start
                      /\ told[c].start = 1 /\ ~Busy(c) /\ ~(phase = "cycle" /\ det.cyc = c)
                            => told[c].ended = 1 /\ told[c].bus = 1
    BY DEF AnnouncedEndsOnce
  <2>1. StartHistory(c) /\ tail[c].at \in {"none", "matching", "storing", "closing", "done"}
    BY DEF HistInv, IInv, TypeOK, TailType
  <2>2. Open(c) => phase = "probing" \/ (phase = "cycle" /\ det.cyc = c)
    BY DEF Open, Live
  <2> QED
    BY <2>1, <2>2 DEF StartHistory, Untold, Busy
<1> QED
  BY HistoryInvariant, <1>1, PTL

\* A shown end has its expiry timer running as soon as no tail is under way
\* (_async_close_cycle_end, _discard_cycle_cleanup).
THEOREM ShownEndExpires == Spec => []EndExpires
<1>1. HistInv => EndExpires
  BY DEF HistInv, EndOwned, ShowsEnd, EndExpires
<1> QED
  BY HistoryInvariant, <1>1, PTL
=============================================================================
