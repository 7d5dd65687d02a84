------------------------ MODULE Announcements_proof -------------------------
(***************************************************************************)
(* Proofs about what is told of a cycle besides its state: the tumbles     *)
(* after a finish (TumbleTriggers), the thresholds, phases and pauses of   *)
(* the cycle under way (LiveTriggers), and the notifications that quiet    *)
(* hours or an empty house hold back (HeldNotifications).                  *)
(***************************************************************************)
EXTENDS TumbleTriggers, LiveTriggers, HeldNotifications, TLAPS

(***************************************************************************)
(* The tumbles.  While no two finishes met, the automations that ran are   *)
(* those of the thresholds up to the latest tumble sent, the last tumble   *)
(* is the latest sent or the one held back, and the one held back crosses  *)
(* from the latest sent.                                                   *)
(***************************************************************************)
Tumbles == [from : Never..GiveUp, at : Never..GiveUp, finish : Nat]

TumblesTypeOK ==
    /\ since \in Never..(GiveUp + 1) /\ burst \in Int /\ leading \in BOOLEAN
    /\ last \in Never..GiveUp /\ heldTumble \in Tumbles
    /\ tailOwes \in BOOLEAN /\ cycle \in 0..MaxFinishes
    /\ tails \in [Finishes -> {"none", "finished", "interrupted"}]
    /\ finishes \in Nat /\ ran \in [Thresholds -> Nat] /\ due \in Never..GiveUp
    /\ mixed \in BOOLEAN

\* A tumble is held only while its cycle has no end, so never for the finish of a tail
\* that still owns it.
TumblesInTurn ==
    /\ since # Never => last <= since /\ finishes > 0
    /\ heldTumble # NoTumble => heldTumble.finish \in 1..finishes
    /\ tailOwes => cycle > 0
    /\ \A c \in Finishes : c > cycle \/ (c = cycle /\ tailOwes) => tails[c] = "none"
    /\ \A c \in Finishes :
          c = cycle /\ tails[c] = "finished" /\ heldTumble # NoTumble => heldTumble.finish # finishes

RanAsSent == \A n \in Thresholds : ran[n] = IF due >= n THEN 1 ELSE 0
LastIsSent ==
    /\ heldTumble = NoTumble /\ since # Never => last = due
    /\ heldTumble # NoTumble /\ heldTumble.finish = finishes =>
          due = heldTumble.from /\ last = heldTumble.at /\ heldTumble.from <= heldTumble.at
    /\ heldTumble # NoTumble /\ heldTumble.finish # finishes => last = Never /\ due = Never

TumblesInv ==
    TumblesTypeOK /\ TumblesInTurn /\ (~mixed => RanAsSent /\ LastIsSent)

LEMMA TumbleFacts ==
    /\ GiveUp \in Nat /\ MaxBurst \in Nat /\ MaxFinishes \in Nat /\ Never = -1
    /\ NoTumble \in Tumbles /\ NoTumble.finish = 0 /\ NoTumble.at = Never
    /\ Thresholds \subseteq Nat /\ Finishes = 1..MaxFinishes
    /\ \A n \in Thresholds : n > 0 /\ n <= GiveUp
    /\ Never \in Int /\ Never \in Never..GiveUp /\ Never \in Never..(GiveUp + 1)
    /\ 0 \in Never..(GiveUp + 1) /\ \A m \in 0..GiveUp : m \in Never..GiveUp /\ m + 1 \in Never..(GiveUp + 1)
<1>1. GiveUp \in Nat /\ MaxBurst \in Nat /\ MaxFinishes \in Nat /\ Never = -1
  BY TumbleAssumption DEF Never
<1>2. Never \in Int /\ Never \in Never..GiveUp /\ Never \in Never..(GiveUp + 1) /\ 0 \in Never..(GiveUp + 1)
  BY <1>1
<1>3. \A m \in 0..GiveUp : m \in Never..GiveUp /\ m + 1 \in Never..(GiveUp + 1)
  BY <1>1
<1>4. NoTumble \in Tumbles /\ NoTumble.finish = 0 /\ NoTumble.at = Never
  BY <1>2 DEF NoTumble, Tumbles
<1>5. /\ Thresholds \subseteq Nat /\ Finishes = 1..MaxFinishes
      /\ \A n \in Thresholds : n > 0 /\ n <= GiveUp
  BY <1>1 DEF Thresholds, Finishes
<1> QED
  BY <1>1, <1>2, <1>3, <1>4, <1>5

\* The automations a tumble runs are those the latest sent had not reached.
LEMMA SentStep ==
    ASSUME TumblesTypeOK, NEW t \in Tumbles, NEW beside, Sent(t, beside)
    PROVE  /\ ran' \in [Thresholds -> Nat] /\ due' \in Never..GiveUp /\ mixed' \in BOOLEAN
           /\ ~mixed' => ~mixed /\ beside = NoTumble /\ t.finish = finishes
           /\ RanAsSent /\ due = t.from /\ t.from <= t.at => RanAsSent' /\ due' = t.at
<1>1. /\ ran' = [n \in Thresholds |-> ran[n] + (IF t.at >= n /\ (t.from = Never \/ t.from < n) THEN 1 ELSE 0)]
      /\ due' = IF t.at > due THEN t.at ELSE due
      /\ mixed' = (mixed \/ beside # NoTumble \/ t.finish # finishes)
  BY DEF Sent
<1> USE TumbleFacts
<1>2. ran' \in [Thresholds -> Nat]
  BY <1>1 DEF TumblesTypeOK
<1>3. t.at \in Never..GiveUp /\ t.from \in Never..GiveUp /\ due \in Never..GiveUp
  BY DEF Tumbles, TumblesTypeOK
<1>4. due' \in Never..GiveUp
  BY <1>1, <1>3
<1>5. mixed' \in BOOLEAN /\ (~mixed' => ~mixed /\ beside = NoTumble /\ t.finish = finishes)
  BY <1>1 DEF TumblesTypeOK
<1>6. ASSUME RanAsSent, due = t.from, t.from <= t.at PROVE RanAsSent' /\ due' = t.at
  <2>1. due' = t.at
    BY <1>1, <1>3, <1>6
  <2>2. ASSUME NEW n \in Thresholds PROVE ran'[n] = IF due' >= n THEN 1 ELSE 0
    <3>1. ran[n] = IF t.from >= n THEN 1 ELSE 0
      BY <1>6 DEF RanAsSent
    <3>2. ran'[n] = ran[n] + (IF t.at >= n /\ (t.from = Never \/ t.from < n) THEN 1 ELSE 0)
      BY <1>1
    <3>3. n \in Nat /\ n > 0
      OBVIOUS
    <3>4. CASE t.at >= n
      <4>1. due' >= n
        BY <2>1, <3>4
      <4>2. CASE t.from >= n
        <5>1. ~(t.from = Never \/ t.from < n)
          BY <1>3, <3>3, <4>2
        <5>2. ran'[n] = 1 + 0
          BY <3>1, <3>2, <4>2, <5>1
        <5> QED
          BY <4>1, <5>2
      <4>3. CASE ~(t.from >= n)
        <5>1. t.from < n
          BY <1>3, <3>3, <4>3
        <5>2. ran'[n] = 0 + 1
          BY <3>1, <3>2, <3>4, <4>3, <5>1
        <5> QED
          BY <4>1, <5>2
      <4> QED
        BY <4>2, <4>3
    <3>5. CASE ~(t.at >= n)
      <4>1. ~(due' >= n) /\ ~(t.from >= n)
        BY <1>3, <1>6, <2>1, <3>3, <3>5
      <4>2. ran'[n] = 0 + 0
        BY <3>1, <3>2, <3>5, <4>1
      <4> QED
        BY <4>1, <4>2
    <3> QED
      BY <3>4, <3>5
  <2> QED
    BY <2>1, <2>2 DEF RanAsSent
<1> QED
  BY <1>2, <1>4, <1>5, <1>6

LEMMA ClockStep ==
    ASSUME TumblesInv, Minute \/ GivesUp \/ BurstBegins
    PROVE  TumblesInv'
<1>1. /\ (since' = since + 1 /\ since \in 0..GiveUp) \/ since' = since \/ since' = Never
      /\ UNCHANGED <<last, heldTumble, tailOwes, cycle, tails, finishes, ran, due, mixed>>
  BY DEF Minute, GivesUp, BurstBegins
<1>2. burst' \in Int /\ leading' \in BOOLEAN
  <2>1. burst \in Int /\ leading \in BOOLEAN /\ Never \in Int
    BY TumbleFacts DEF TumblesInv, TumblesTypeOK
  <2>2. \/ burst' = (IF burst = Never THEN Never ELSE burst + 1) /\ leading' = leading
        \/ burst' \in {0, Never} /\ leading' = FALSE
    BY DEF Minute, GivesUp, BurstBegins
  <2>3. burst' \in Int
    BY <2>1, <2>2
  <2>4. leading' \in BOOLEAN
    BY <2>1, <2>2, Zenon
  <2> QED
    BY <2>3, <2>4
<1> USE TumbleFacts DEF TumblesInv
<1>3. since' \in Never..(GiveUp + 1) /\ (since' # Never => since # Never /\ since' >= since)
  BY <1>1 DEF TumblesTypeOK
<1>4. TumblesTypeOK'
  BY <1>1, <1>2, <1>3 DEF TumblesTypeOK
<1>5. TumblesInTurn'
  BY <1>1, <1>3 DEF TumblesTypeOK, TumblesInTurn
<1>6. ASSUME ~mixed' PROVE RanAsSent' /\ LastIsSent'
  BY <1>1, <1>3, <1>6 DEF RanAsSent, LastIsSent
<1> QED
  BY <1>4, <1>5, <1>6

LEMMA BurstEndsStep ==
    ASSUME TumblesInv, BurstEnds
    PROVE  TumblesInv'
<1> DEFINE tumble == [from |-> last, at |-> since, finish |-> finishes]
<1>1. /\ since \in 0..GiveUp /\ since # Never
      /\ burst' = Never /\ leading' = FALSE
      /\ UNCHANGED <<since, tailOwes, cycle, tails, finishes>>
  BY TumbleFacts DEF BurstEnds
<1> USE TumbleFacts DEF TumblesInv
<1>2. tumble \in Tumbles /\ tumble.from <= tumble.at /\ tumble # NoTumble /\ tumble.finish = finishes
      /\ tumble.from = last /\ tumble.at = since /\ finishes > 0
  BY <1>1 DEF TumblesTypeOK, Tumbles, TumblesInTurn, NoTumble
<1> HIDE DEF tumble
<1>3. CASE UNCHANGED <<last, heldTumble, ran, due, mixed>>
  <2>1. TumblesTypeOK' /\ TumblesInTurn'
    BY <1>1, <1>3 DEF TumblesTypeOK, TumblesInTurn
  <2>2. ASSUME ~mixed' PROVE RanAsSent' /\ LastIsSent'
    BY <1>1, <1>3, <2>2 DEF RanAsSent, LastIsSent
  <2> QED
    BY <2>1, <2>2
<1>4. CASE /\ tailOwes /\ last' = since /\ heldTumble' = HeldWith(tumble)
           /\ mixed' = (mixed \/ heldTumble.finish \notin {0, finishes}) /\ UNCHANGED <<ran, due>>
  <2>1. /\ heldTumble' \in Tumbles /\ heldTumble'.at = since /\ heldTumble'.finish = finishes
        /\ heldTumble' # NoTumble
        /\ heldTumble'.from = IF heldTumble = NoTumble THEN last ELSE heldTumble.from
    BY <1>1, <1>2, <1>4 DEF HeldWith, Tumbles, TumblesTypeOK
  <2>2. TumblesTypeOK'
    BY <1>1, <1>4, <2>1 DEF TumblesTypeOK
  <2>3. ~mixed' => /\ ~mixed
                   /\ heldTumble # NoTumble => heldTumble.finish = finishes
    <3>1. heldTumble # NoTumble => heldTumble.finish # 0
      BY DEF TumblesInTurn, TumblesTypeOK
    <3> QED
      BY <1>4, <3>1, Zenon
  <2>4. TumblesInTurn'
    <3>1. cycle \in Finishes => tails[cycle] = "none"
      BY <1>4 DEF TumblesInTurn
    <3> QED
      BY <1>1, <1>2, <1>4, <2>1, <3>1 DEF TumblesInTurn, TumblesTypeOK
  <2>5. ASSUME ~mixed' PROVE RanAsSent' /\ LastIsSent'
    <3>1. ~mixed /\ RanAsSent /\ LastIsSent
      BY <2>3, <2>5
    <3>2. RanAsSent'
      BY <1>4, <3>1 DEF RanAsSent
    <3>3. heldTumble'.from = due /\ heldTumble'.from <= since
      <4>1. CASE heldTumble = NoTumble
        <5>1. last = due /\ heldTumble'.from = last
          BY <1>1, <2>1, <3>1, <4>1 DEF LastIsSent
        <5> QED
          BY <1>2, <5>1
      <4>2. CASE heldTumble # NoTumble
        <5>1. due = heldTumble.from /\ last = heldTumble.at /\ heldTumble.from <= heldTumble.at
          BY <2>3, <2>5, <3>1, <4>2 DEF LastIsSent
        <5>2. last <= since /\ last \in Int /\ since \in Int /\ heldTumble.from \in Int
          BY <1>1, <1>2 DEF TumblesTypeOK, Tumbles
        <5> QED
          BY <2>1, <4>2, <5>1, <5>2
      <4> QED
        BY <4>1, <4>2
    <3> QED
      BY <1>1, <1>4, <2>1, <3>2, <3>3 DEF LastIsSent
  <2> QED
    BY <2>2, <2>4, <2>5
<1>5. CASE ~tailOwes /\ last' = since /\ heldTumble' = heldTumble /\ Sent(tumble, heldTumble)
  <2>1. /\ ran' \in [Thresholds -> Nat] /\ due' \in Never..GiveUp /\ mixed' \in BOOLEAN
        /\ ~mixed' => ~mixed /\ heldTumble = NoTumble
        /\ RanAsSent /\ due = last => RanAsSent' /\ due' = since
    BY <1>2, <1>5, SentStep
  <2>a. last' \in Never..GiveUp /\ burst' \in Int /\ leading' \in BOOLEAN
    BY <1>1, <1>5
  <2>b. TumblesTypeOK'
    BY <1>1, <1>5, <2>1, <2>a DEF TumblesTypeOK
  <2>c. since' # Never => last' <= since' /\ finishes' > 0
    BY <1>1, <1>2, <1>5
  <2>2. TumblesTypeOK' /\ TumblesInTurn'
    BY <1>1, <1>5, <2>b, <2>c DEF TumblesInTurn
  <2>3. ASSUME ~mixed' PROVE RanAsSent' /\ LastIsSent'
    BY <1>1, <1>5, <2>1, <2>3 DEF LastIsSent
  <2> QED
    BY <2>2, <2>3
<1> QED
  BY <1>3, <1>4, <1>5 DEF BurstEnds, NotSent, tumble

LEMMA RunBeginsAgainStep ==
    ASSUME TumblesInv, RunBeginsAgain
    PROVE  TumblesInv'
<1>1. /\ ~tailOwes /\ cycle < MaxFinishes /\ cycle' = cycle + 1 /\ tailOwes' = TRUE
      /\ UNCHANGED <<since, burst, leading, last, heldTumble, tails, finishes, ran, due, mixed>>
  BY DEF RunBeginsAgain
<1> USE TumbleFacts DEF TumblesInv
<1>2. TumblesTypeOK'
  BY <1>1 DEF TumblesTypeOK
<1>3. TumblesInTurn'
  BY <1>1 DEF TumblesTypeOK, TumblesInTurn
<1>4. ASSUME ~mixed' PROVE RanAsSent' /\ LastIsSent'
  BY <1>1, <1>4 DEF RanAsSent, LastIsSent
<1> QED
  BY <1>2, <1>3, <1>4

LEMMA RunFinishesStep ==
    ASSUME TumblesInv, NEW status \in {"finished", "interrupted"}, NEW high \in BOOLEAN,
           RunFinishes(status, high)
    PROVE  TumblesInv'
<1>1. /\ tailOwes /\ tailOwes' = FALSE /\ tails' = [tails EXCEPT ![cycle] = status]
      /\ UNCHANGED <<heldTumble, cycle>>
  BY DEF RunFinishes
<1> USE TumbleFacts DEF TumblesInv
<1>2. cycle \in Finishes /\ tails' \in [Finishes -> {"none", "finished", "interrupted"}]
      /\ tails'[cycle] = status /\ \A c \in Finishes : c # cycle => tails'[c] = tails[c]
  BY <1>1 DEF TumblesTypeOK, TumblesInTurn
<1>3. CASE status = "finished"
  <2>1. /\ since' = 0 /\ last' = Never /\ burst' = (IF high THEN 0 ELSE Never) /\ leading' = high
        /\ finishes' = finishes + 1 /\ ran' = [n \in Thresholds |-> 0] /\ due' = Never
        /\ mixed' = FALSE
    BY <1>3 DEF RunFinishes
  <2>a. burst' \in Int /\ leading' \in BOOLEAN /\ finishes' \in Nat /\ ran' \in [Thresholds -> Nat]
    <3>1. finishes \in Nat
      BY DEF TumblesTypeOK
    <3>2. ran' \in [Thresholds -> Nat]
      BY <2>1
    <3> QED
      BY <2>1, <3>1, <3>2
  <2>2. TumblesTypeOK'
    BY <1>1, <1>2, <2>1, <2>a DEF TumblesTypeOK
  <2>3. TumblesInTurn'
    BY <1>1, <1>2, <2>1 DEF TumblesTypeOK, TumblesInTurn
  <2>4. RanAsSent'
    BY <2>1 DEF RanAsSent
  <2>5. LastIsSent'
    BY <1>1, <2>1 DEF LastIsSent, TumblesInTurn, TumblesTypeOK
  <2> QED
    BY <2>2, <2>3, <2>4, <2>5
<1>4. CASE status = "interrupted"
  <2>1. UNCHANGED <<since, burst, leading, last, finishes, ran, due, mixed>>
    BY <1>4 DEF RunFinishes
  <2>2. TumblesTypeOK'
    BY <1>1, <1>2, <2>1 DEF TumblesTypeOK
  <2>3. TumblesInTurn'
    BY <1>1, <1>2, <1>4, <2>1 DEF TumblesTypeOK, TumblesInTurn
  <2>4. ASSUME ~mixed' PROVE RanAsSent' /\ LastIsSent'
    BY <1>1, <2>1, <2>4 DEF RanAsSent, LastIsSent
  <2> QED
    BY <2>2, <2>3, <2>4
<1> QED
  BY <1>3, <1>4

\* The end of a false start sends what was held back; a finish drops it, which was held
\* for the finish before.
LEMMA ReleasedStep ==
    ASSUME TumblesInv, NEW status, Released(status), UNCHANGED <<since, last, finishes>>,
           status # "finished" \/ heldTumble = NoTumble \/ heldTumble.finish # finishes
    PROVE  /\ ran' \in [Thresholds -> Nat] /\ due' \in Never..GiveUp /\ mixed' \in BOOLEAN
           /\ heldTumble' = NoTumble
           /\ ~mixed' => RanAsSent' /\ LastIsSent'
<1> USE TumbleFacts DEF TumblesInv
<1>1. heldTumble' = NoTumble
  BY DEF Released
<1>2. CASE UNCHANGED <<ran, due, mixed>> /\ (heldTumble = NoTumble \/ status = "finished" \/ since = Never)
  <2>1. ASSUME ~mixed' PROVE RanAsSent' /\ LastIsSent'
    BY <1>1, <1>2, <2>1 DEF RanAsSent, LastIsSent
  <2> QED
    BY <1>1, <1>2, <2>1 DEF TumblesTypeOK
<1>3. CASE Sent(heldTumble, NoTumble) /\ heldTumble # NoTumble
  <2>1. /\ ran' \in [Thresholds -> Nat] /\ due' \in Never..GiveUp /\ mixed' \in BOOLEAN
        /\ ~mixed' => ~mixed /\ heldTumble.finish = finishes
        /\ RanAsSent /\ due = heldTumble.from /\ heldTumble.from <= heldTumble.at =>
              RanAsSent' /\ due' = heldTumble.at
    BY <1>3, SentStep DEF TumblesTypeOK
  <2>2. ASSUME ~mixed' PROVE RanAsSent' /\ LastIsSent'
    BY <1>1, <1>3, <2>1, <2>2 DEF LastIsSent
  <2> QED
    BY <1>1, <2>1, <2>2
<1> QED
  BY <1>2, <1>3 DEF Released, NotSent

LEMMA TailAnnouncesStep ==
    ASSUME TumblesInv, NEW c \in Finishes, TailAnnounces(c)
    PROVE  TumblesInv'
<1>1. /\ tails[c] # "none" /\ tails' = [tails EXCEPT ![c] = "none"]
      /\ UNCHANGED <<since, burst, leading, last, tailOwes, cycle, finishes>>
  BY DEF TailAnnounces
<1> USE TumbleFacts DEF TumblesInv
<1>2. tails' \in [Finishes -> {"none", "finished", "interrupted"}]
      /\ tails'[c] = "none" /\ \A d \in Finishes : d # c => tails'[d] = tails[d]
  BY <1>1 DEF TumblesTypeOK
<1>3. CASE UNCHANGED <<heldTumble, ran, due, mixed>>
  <2>1. TumblesTypeOK'
    BY <1>1, <1>2, <1>3 DEF TumblesTypeOK
  <2>2. TumblesInTurn'
    BY <1>1, <1>2, <1>3 DEF TumblesInTurn
  <2>3. ASSUME ~mixed' PROVE RanAsSent' /\ LastIsSent'
    BY <1>1, <1>3, <2>3 DEF RanAsSent, LastIsSent
  <2> QED
    BY <2>1, <2>2, <2>3
<1>4. CASE Owns(c) /\ Released(tails[c])
  <2>1. tails[c] # "finished" \/ heldTumble = NoTumble \/ heldTumble.finish # finishes
    BY <1>4 DEF Owns, TumblesInTurn
  <2>2. /\ ran' \in [Thresholds -> Nat] /\ due' \in Never..GiveUp /\ mixed' \in BOOLEAN
        /\ heldTumble' = NoTumble
        /\ ~mixed' => RanAsSent' /\ LastIsSent'
    BY <1>1, <1>4, <2>1, ReleasedStep
  <2>3. TumblesTypeOK'
    BY <1>1, <1>2, <2>2 DEF TumblesTypeOK
  <2>4. TumblesInTurn'
    BY <1>1, <1>2, <2>2 DEF TumblesInTurn
  <2> QED
    BY <2>2, <2>3, <2>4
<1> QED
  BY <1>3, <1>4 DEF TailAnnounces, NotSent

LEMMA CycleDroppedStep ==
    ASSUME TumblesInv, CycleDropped
    PROVE  TumblesInv'
<1>1. /\ tailOwes /\ tailOwes' = FALSE /\ Released("interrupted")
      /\ UNCHANGED <<since, burst, leading, last, cycle, tails, finishes>>
  BY DEF CycleDropped
<1> USE TumbleFacts DEF TumblesInv
<1>2. /\ ran' \in [Thresholds -> Nat] /\ due' \in Never..GiveUp /\ mixed' \in BOOLEAN
      /\ heldTumble' = NoTumble
      /\ ~mixed' => RanAsSent' /\ LastIsSent'
  BY <1>1, ReleasedStep
<1>3. TumblesTypeOK'
  BY <1>1, <1>2 DEF TumblesTypeOK
<1>4. TumblesInTurn'
  BY <1>1, <1>2 DEF TumblesInTurn
<1> QED
  BY <1>2, <1>3, <1>4

LEMMA TumblesStart == TumblesInit => TumblesInv
<1> SUFFICES ASSUME TumblesInit PROVE TumblesInv
  OBVIOUS
<1> USE TumbleFacts DEF TumblesInit
<1>a. ran \in [Thresholds -> Nat] /\ tails \in [Finishes -> {"none", "finished", "interrupted"}]
  OBVIOUS
<1>b. /\ since \in Never..(GiveUp + 1) /\ burst \in Int /\ last \in Never..GiveUp /\ due \in Never..GiveUp
      /\ heldTumble \in Tumbles /\ cycle \in 0..MaxFinishes /\ finishes \in Nat
  OBVIOUS
<1>1. TumblesTypeOK
  BY <1>a, <1>b DEF TumblesTypeOK
<1> QED
  BY <1>1 DEF TumblesInv, TumblesInTurn, RanAsSent, LastIsSent

LEMMA TumblesStep == TumblesInv /\ [TumblesNext]_tumbleVars => TumblesInv'
<1> SUFFICES ASSUME TumblesInv, [TumblesNext]_tumbleVars PROVE TumblesInv'
  OBVIOUS
<1>1. CASE Minute \/ GivesUp \/ BurstBegins
  BY <1>1, ClockStep
<1>2. CASE BurstEnds \/ RunBeginsAgain \/ CycleDropped
  BY <1>2, BurstEndsStep, RunBeginsAgainStep, CycleDroppedStep
<1>3. CASE \E s \in {"finished", "interrupted"}, h \in BOOLEAN : RunFinishes(s, h)
  BY <1>3, RunFinishesStep
<1>4. CASE \E c \in Finishes : TailAnnounces(c)
  BY <1>4, TailAnnouncesStep
<1>5. CASE UNCHANGED tumbleVars
  BY <1>5 DEF tumbleVars, TumblesInv, TumblesTypeOK, TumblesInTurn, RanAsSent, LastIsSent
<1> QED
  BY <1>1, <1>2, <1>3, <1>4, <1>5 DEF TumblesNext

(* However tumbles, false starts and the tails of their ends interleave,   *)
(* an automation runs once for a finish at most, and with no tumble held   *)
(* back it has run when one was sent at its threshold or later             *)
(* (TumbleTracker, _release_held_tumble), for every threshold and any      *)
(* number of cycles.                                                       *)
THEOREM TumblesAreToldOnce == TumblesSpec => []TumbledOnce
<1>1. TumblesInv => TumbledOnce
  BY TumbleFacts DEF TumblesInv, RanAsSent, TumbledOnce
<1> QED
  BY <1>1, TumblesStart, TumblesStep, PTL DEF TumblesSpec


-----------------------------------------------------------------------------
(***************************************************************************)
(* The triggers of the cycle under way.  The tracker's marks and those in  *)
(* the snapshot on disk account alike for the thresholds automations heard *)
(* of: whichever of the two the next refresh starts from, it repeats and   *)
(* leaves out nothing.  The program and its phase are another matter: a    *)
(* restart keeps them only when the cycle it restores shows that program,  *)
(* and where it does, the phase on disk is no earlier than the one heard.  *)
(***************************************************************************)
MinuteMarks == NoMark..MaxMinutes
PercentMarks == NoMark..MaxPercent
PhaseMarks == (1..MaxPhases) \union {NoMark}
Known == Programs \union {None}
Trackers == [program : Known, phase : PhaseMarks, minute : MinuteMarks, percent : PercentMarks,
             pause : Pauses, pending : BOOLEAN]
Marks == [shows : Known, program : Known, phase : PhaseMarks, minute : MinuteMarks, percent : PercentMarks]
Shown == [program : Known, pause : Pauses, known : BOOLEAN, left : MinuteMarks, over : PercentMarks,
          phase : PhaseMarks]

TriggersTypeOK ==
    /\ active \in BOOLEAN /\ shows \in Known /\ tracker \in Trackers /\ onDisk \in Marks /\ writing \in BOOLEAN
    /\ soon \in [Minutes -> Nat] /\ over \in [Percents -> Nat]
    /\ base \in [minute : MinuteMarks, percent : PercentMarks]
    /\ named \in [program : Known, phase : PhaseMarks]
    /\ again \in BOOLEAN /\ missed \in BOOLEAN /\ heard \in [Listeners -> BOOLEAN]
    /\ lostMarks \in BOOLEAN

\* A threshold passed by the marks and not by the baseline: its automation has run.
PassedSoon(m, b, n) == m # NoMark /\ m <= n /\ ~(b # NoMark /\ b <= n)
PassedOver(m, b, n) == m >= n /\ b < n

Once(passed) == IF passed THEN 1 ELSE 0

\* The marks account for the thresholds that were heard of.
Counts(marks) ==
    /\ \A n \in Minutes : soon[n] = Once(PassedSoon(marks.minute, base.minute, n))
    /\ \A n \in Percents : over[n] = Once(PassedOver(marks.percent, base.percent, n))
    /\ base.minute # NoMark /\ marks.minute # NoMark => marks.minute <= base.minute
    /\ base.percent # NoMark /\ marks.percent # NoMark => base.percent <= marks.percent

\* The tracker's marks account for the program and the phase too.
Account(t) ==
    /\ t.program = named.program
    /\ named.phase # NoMark => named.phase <= t.phase
    /\ Counts(t)

\* Those on disk do, if the cycle is shown there as the program heard last.
DiskNames ==
    named.phase # NoMark /\ onDisk.shows = named.program =>
        onDisk.program = named.program /\ named.phase <= onDisk.phase

\* The marks on disk are no further than the tracker's.
DiskBehind ==
    /\ onDisk.minute # NoMark => tracker.minute # NoMark
    /\ onDisk.percent # NoMark => tracker.percent # NoMark

NothingWasHeard ==
    /\ soon = [n \in Minutes |-> 0] /\ over = [n \in Percents |-> 0]
    /\ base = [minute |-> NoMark, percent |-> NoMark]
    /\ named = [program |-> None, phase |-> NoMark] /\ again = FALSE /\ missed = FALSE
    /\ heard = [l \in Listeners |-> FALSE]

Quiescent == onDisk = NoMarks /\ writing = FALSE /\ NothingWasHeard /\ tracker.pause = "none"

PausesHeard == heard["user"] = (tracker.pause = "user") /\ heard["any"] = (tracker.pause # "none")

Accounted ==
    /\ ~missed /\ ~again /\ PausesHeard /\ Account(tracker)
    /\ ~writing => Counts(onDisk) /\ DiskNames /\ DiskBehind

TriggersInv ==
    TriggersTypeOK /\ (~active => Quiescent) /\ (active /\ ~lostMarks => Accounted)

LEMMA TriggerFacts ==
    /\ MaxMinutes \in Nat /\ MaxPercent \in Nat /\ MaxPhases \in Nat /\ NoMark = -1
    /\ NoMark \in MinuteMarks /\ NoMark \in PercentMarks /\ NoMark \in PhaseMarks
    /\ MinuteMarks \subseteq Int /\ PercentMarks \subseteq Int /\ PhaseMarks \subseteq Int
    /\ \A k \in MinuteMarks \union PercentMarks : k >= NoMark
    /\ \A k \in PhaseMarks : k = NoMark \/ k >= 1
    /\ \A n \in Minutes \union Percents : n \in Nat /\ n > 0
    /\ None \in Known /\ Listeners = {"user", "any"} /\ "none" \in Pauses
BY TriggerAssumption DEF NoMark, MinuteMarks, PercentMarks, PhaseMarks, Minutes, Percents, Known,
   Listeners, Pauses

LEMMA RecognisedFacts ==
    ASSUME NEW t \in Trackers, NEW s \in Shown
    PROVE  /\ Recognised(t, s) \in Trackers
           /\ Recognised(t, s).minute = t.minute /\ Recognised(t, s).percent = t.percent
           /\ Recognised(t, s).pending = t.pending
           /\ s.program \in {None, t.program} => Recognised(t, s) = t
           /\ s.program \notin {None, t.program} =>
                 Recognised(t, s).program = s.program /\ Recognised(t, s).phase = NoMark
BY TriggerFacts DEF Recognised, Trackers, Shown

LEMMA FirstFacts ==
    ASSUME NEW t \in Trackers, NEW s \in Shown
    PROVE  LET f == FirstEstimate(t, s) IN
           /\ f \in Trackers /\ f.program = t.program
           /\ f.minute = t.minute \/ (t.minute = NoMark /\ f.minute = s.left)
           /\ f.percent = t.percent \/ (t.percent = NoMark /\ f.percent = s.over)
           /\ f.phase = t.phase \/ (t.phase = NoMark /\ f.phase = s.phase)
<1>1. CASE ~t.pending
  BY <1>1 DEF FirstEstimate
<1>2. CASE t.pending
  <2>1. FirstEstimate(t, s) = [program |-> t.program,
           phase |-> IF t.phase = NoMark THEN s.phase ELSE t.phase,
           minute |-> IF t.minute = NoMark THEN s.left ELSE t.minute,
           percent |-> IF t.percent = NoMark THEN s.over ELSE t.percent,
           pause |-> t.pause, pending |-> FALSE]
    BY <1>2 DEF FirstEstimate, Trackers
  <2> QED
    BY <2>1 DEF Trackers, Shown
<1> QED
  BY <1>1, <1>2 DEF Trackers

LEMMA AnnouncedFacts ==
    ASSUME NEW t \in Trackers, NEW s \in Shown
    PROVE  LET f == FirstEstimate(t, s)
               a == Announced(t, s) IN
           /\ a \in Trackers /\ a.program = t.program
           /\ Waits(t, s) => a = t
           /\ ~Waits(t, s) => /\ a.minute = IF Fell(f, s) THEN s.left ELSE f.minute
                              /\ a.percent = IF Rose(f, s) THEN s.over ELSE f.percent
                              /\ a.phase = IF MovedOn(f, s) THEN s.phase ELSE f.phase
<1> DEFINE f == FirstEstimate(t, s)
<1>1. CASE Waits(t, s)
  BY <1>1 DEF Announced
<1>2. CASE ~Waits(t, s)
  <2>1. f \in Trackers /\ f.program = t.program
    BY FirstFacts
  <2>2. Announced(t, s) = [f EXCEPT !.phase = IF MovedOn(f, s) THEN s.phase ELSE @,
                                    !.minute = IF Fell(f, s) THEN s.left ELSE @,
                                    !.percent = IF Rose(f, s) THEN s.over ELSE @]
    BY <1>2 DEF Announced
  <2> HIDE DEF f
  <2>3. Announced(t, s) = [program |-> f.program,
           phase |-> IF MovedOn(f, s) THEN s.phase ELSE f.phase,
           minute |-> IF Fell(f, s) THEN s.left ELSE f.minute,
           percent |-> IF Rose(f, s) THEN s.over ELSE f.percent,
           pause |-> f.pause, pending |-> f.pending]
    BY <2>1, <2>2 DEF Trackers
  <2>4. Announced(t, s) \in Trackers
    BY <2>1, <2>3 DEF Trackers, Shown
  <2> QED
    BY <1>2, <2>1, <2>3, <2>4 DEF f
<1> QED
  BY <1>1, <1>2

\* What need not be saved at once.
LEMMA NotTold ==
    ASSUME NEW k, NEW s, ~Told(k, s)
    PROVE  LET t == Recognised(k, s) IN
           ~Waits(k, s) => /\ ~MovedOn(FirstEstimate(t, s), s) /\ ~Fell(FirstEstimate(t, s), s)
                           /\ ~(Rose(FirstEstimate(t, s), s) /\ s.over >= 1)
BY DEF Told

LEMMA RefreshStep ==
    ASSUME TriggersInv, NEW s \in Shown, Refresh(s)
    PROVE  TriggersInv'
<1> DEFINE t == Recognised(tracker, s)
           f == IF Waits(t, s) THEN t ELSE FirstEstimate(t, s)
           runs == ~Waits(t, s)
           falls == runs /\ Fell(f, s)
           rises == runs /\ Rose(f, s)
           moves == runs /\ MovedOn(f, s)
           a == Announced(t, s)
<1>1. /\ active /\ active' = TRUE /\ tracker' = [a EXCEPT !.pause = s.pause]
      /\ writing' = (writing \/ Told(tracker, s)) /\ onDisk' = onDisk /\ lostMarks' = lostMarks
      /\ shows' = s.program /\ shows' \in Known
  BY DEF Refresh, TriggersInv, TriggersTypeOK, Shown
<1>2. tracker \in Trackers /\ onDisk \in Marks
  BY DEF TriggersInv, TriggersTypeOK
<1>3. /\ t \in Trackers /\ t.minute = tracker.minute /\ t.percent = tracker.percent
      /\ t.pending = tracker.pending
      /\ s.program \in {None, tracker.program} => t = tracker
      /\ s.program \notin {None, tracker.program} => t.program = s.program /\ t.phase = NoMark
  BY <1>2, RecognisedFacts
<1> HIDE DEF t
<1>4. /\ f \in Trackers /\ f.program = t.program
      /\ f.minute = t.minute \/ (t.minute = NoMark /\ f.minute = s.left)
      /\ f.percent = t.percent \/ (t.percent = NoMark /\ f.percent = s.over)
      /\ f.phase = t.phase \/ (t.phase = NoMark /\ f.phase = s.phase)
  BY <1>3, FirstFacts
<1>5. /\ a \in Trackers /\ a.program = t.program
      /\ a.minute = IF falls THEN s.left ELSE f.minute
      /\ a.percent = IF rises THEN s.over ELSE f.percent
      /\ a.phase = IF moves THEN s.phase ELSE f.phase
  BY <1>3, AnnouncedFacts
<1> HIDE DEF a
<1>6. /\ tracker' \in Trackers /\ tracker'.program = t.program /\ tracker'.pause = s.pause
      /\ tracker'.minute = a.minute /\ tracker'.percent = a.percent /\ tracker'.phase = a.phase
  BY <1>1, <1>5 DEF Trackers, Shown
<1>7. writing' \in BOOLEAN
  BY <1>1 DEF TriggersInv, TriggersTypeOK, Told, Fell, Rose, MovedOn, Waits
<1>8. CASE lostMarks
  <2>1. UNCHANGED <<soon, over, base, named, again, missed, heard>>
    BY <1>8 DEF Refresh
  <2> QED
    BY <1>1, <1>2, <1>6, <1>7, <1>8, <2>1 DEF TriggersInv, TriggersTypeOK
<1>9. CASE ~lostMarks
  <2>1. Accounted /\ Paused(s) /\ Counted(s)
    BY <1>1, <1>9 DEF Refresh, TriggersInv
  <2>2. /\ soon' = [n \in Minutes |-> soon[n] +
               (IF runs /\ Fell(f, s) /\ RunsSoon(n, f.minute, s.left) THEN 1 ELSE 0)]
        /\ over' = [n \in Percents |-> over[n] +
               (IF runs /\ Rose(f, s) /\ s.over >= 1 /\ RunsOver(n, f.percent, s.over) THEN 1 ELSE 0)]
        /\ base' = [minute |-> IF t.minute = NoMark THEN f.minute ELSE base.minute,
                     percent |-> IF t.percent = NoMark THEN f.percent ELSE base.percent]
        /\ missed' = \/ missed
                     \/ runs /\ \E n \in Minutes : s.left \in 0..n /\ soon'[n] = 0 /\ base'.minute \notin 0..n
                     \/ runs /\ \E n \in Percents : s.over >= n /\ over'[n] = 0 /\ base'.percent < n
        /\ again' = \/ again
                    \/ s.program \notin {None, tracker.program} /\ s.program = named.program
                    \/ /\ runs /\ MovedOn(f, s) /\ t.program = named.program
                       /\ named.phase # NoMark /\ s.phase <= named.phase
        /\ named' = [program |-> t.program,
                      phase |-> IF runs /\ MovedOn(f, s) THEN s.phase
                                ELSE IF t.program = named.program THEN named.phase ELSE NoMark]
    BY <2>1 DEF Counted, t
  <2>3. /\ soon \in [Minutes -> Nat] /\ over \in [Percents -> Nat]
        /\ base \in [minute : MinuteMarks, percent : PercentMarks]
        /\ named \in [program : Known, phase : PhaseMarks] /\ heard \in [Listeners -> BOOLEAN]
        /\ again = FALSE /\ missed = FALSE
    BY <2>1 DEF TriggersInv, TriggersTypeOK, Accounted
  <2>4. /\ base' \in [minute : MinuteMarks, percent : PercentMarks]
        /\ base'.minute = IF t.minute = NoMark THEN f.minute ELSE base.minute
        /\ base'.percent = IF t.percent = NoMark THEN f.percent ELSE base.percent
    BY <1>3, <1>4, <2>2, <2>3 DEF Trackers
  <2>5. /\ named' \in [program : Known, phase : PhaseMarks] /\ named'.program = t.program
        /\ named'.phase = IF moves THEN s.phase
                          ELSE IF t.program = named.program THEN named.phase ELSE NoMark
    <3>1. t.program \in Known /\ s.phase \in PhaseMarks /\ named.phase \in PhaseMarks /\ NoMark \in PhaseMarks
      BY <1>3, <2>3, TriggerFacts DEF Trackers, Shown
    <3> HIDE DEF f, runs
    <3> QED
      BY <2>2, <3>1
  <2>6. soon' \in [Minutes -> Nat] /\ over' \in [Percents -> Nat]
    <3>1. soon' \in [Minutes -> Nat]
      BY <2>2, <2>3
    <3>2. over' \in [Percents -> Nat]
      BY <2>2, <2>3
    <3> QED
      BY <3>1, <3>2
  <2>7. /\ falls \in BOOLEAN /\ rises \in BOOLEAN /\ moves \in BOOLEAN
        /\ falls => s.left # NoMark /\ (f.minute = NoMark \/ s.left < f.minute)
        /\ rises => s.over # NoMark /\ (f.percent = NoMark \/ s.over > f.percent)
        /\ moves => s.phase # NoMark /\ (f.phase = NoMark \/ s.phase > f.phase)
        /\ runs /\ s.left # NoMark /\ (f.minute = NoMark \/ s.left < f.minute) => falls
        /\ runs /\ s.over # NoMark /\ (f.percent = NoMark \/ s.over > f.percent) => rises
    BY DEF Fell, Rose, MovedOn, Waits
  <2>8. /\ tracker.minute \in MinuteMarks /\ f.minute \in MinuteMarks /\ s.left \in MinuteMarks
        /\ tracker.percent \in PercentMarks /\ f.percent \in PercentMarks /\ s.over \in PercentMarks
        /\ base.minute \in MinuteMarks /\ base.percent \in PercentMarks
        /\ f.phase \in PhaseMarks /\ s.phase \in PhaseMarks /\ named.phase \in PhaseMarks
        /\ tracker.phase \in PhaseMarks
    BY <1>2, <1>4, <2>3 DEF Trackers, Shown
  <2>9. \A n \in Minutes : soon'[n] = soon[n] + (IF falls /\ RunsSoon(n, f.minute, s.left) THEN 1 ELSE 0)
    BY <2>2
  <2>10. \A n \in Percents :
            over'[n] = over[n] + (IF rises /\ s.over >= 1 /\ RunsOver(n, f.percent, s.over) THEN 1 ELSE 0)
    BY <2>2
  <2> HIDE DEF falls, rises, moves
  <2>a. /\ NoMark = -1
        /\ tracker.minute \in Int /\ tracker.minute >= -1 /\ f.minute \in Int /\ f.minute >= -1
        /\ s.left \in Int /\ s.left >= -1 /\ base.minute \in Int /\ base.minute >= -1
        /\ tracker.percent \in Int /\ tracker.percent >= -1 /\ f.percent \in Int /\ f.percent >= -1
        /\ s.over \in Int /\ s.over >= -1 /\ base.percent \in Int /\ base.percent >= -1
    <3>1. \A k \in MinuteMarks \union PercentMarks : k \in Int /\ k >= -1
      BY TriggerFacts
    <3> HIDE DEF f
    <3> QED
      BY <2>8, <3>1, TriggerFacts
  <2>b. /\ f.phase \in Int /\ s.phase \in Int /\ named.phase \in Int /\ tracker.phase \in Int
        /\ f.phase = -1 \/ f.phase >= 1
        /\ named.phase = -1 \/ named.phase >= 1
    <3>1. \A k \in PhaseMarks : k \in Int /\ (k = -1 \/ k >= 1)
      BY TriggerFacts
    <3> HIDE DEF f
    <3> QED
      BY <2>8, <3>1
  <2>c. /\ tracker'.minute = IF falls THEN s.left ELSE f.minute
        /\ tracker'.percent = IF rises THEN s.over ELSE f.percent
        /\ tracker'.phase = IF moves THEN s.phase ELSE f.phase
    BY <1>5, <1>6
  <2>d. /\ f.minute = tracker.minute \/ (tracker.minute = NoMark /\ f.minute = s.left)
        /\ f.percent = tracker.percent \/ (tracker.percent = NoMark /\ f.percent = s.over)
        /\ base'.minute = IF tracker.minute = NoMark THEN f.minute ELSE base.minute
        /\ base'.percent = IF tracker.percent = NoMark THEN f.percent ELSE base.percent
    BY <1>3, <1>4, <2>4
  <2>11. Account(tracker)
    BY <2>1 DEF Accounted
  <2>12. ASSUME NEW n \in Minutes
         PROVE  /\ soon'[n] = Once(PassedSoon(tracker'.minute, base'.minute, n))
                /\ runs /\ s.left \in 0..n => soon'[n] # 0 \/ base'.minute \in 0..n
    <3>1. n \in Nat /\ n > 0
      BY TriggerFacts
    <3>2. /\ soon[n] = Once(PassedSoon(tracker.minute, base.minute, n))
          /\ base.minute # NoMark /\ tracker.minute # NoMark => tracker.minute <= base.minute
      BY <2>11 DEF Account, Counts
    <3>3. soon'[n] = soon[n] + (IF falls /\ RunsSoon(n, f.minute, s.left) THEN 1 ELSE 0)
      BY <2>9
    <3>4. runs /\ s.left \in 0..n => (f.minute = NoMark \/ s.left < f.minute => falls)
      BY <2>7, <3>1, TriggerFacts
    <3>5. falls => s.left # NoMark /\ (f.minute = NoMark \/ s.left < f.minute)
      BY <2>7
    <3> HIDE DEF f, runs
    <3>6. soon'[n] = Once(PassedSoon(tracker'.minute, base'.minute, n))
      BY <2>a, <2>c, <2>d, <3>1, <3>2, <3>3, <3>5 DEF Once, PassedSoon, RunsSoon
    <3>7. ASSUME runs, s.left \in 0..n PROVE soon'[n] # 0 \/ base'.minute \in 0..n
      BY <2>a, <2>c, <2>d, <3>1, <3>2, <3>4, <3>5, <3>6, <3>7 DEF Once, PassedSoon
    <3> QED
      BY <3>6, <3>7
  <2>13. base'.minute # NoMark /\ tracker'.minute # NoMark => tracker'.minute <= base'.minute
    <3>1. base.minute # NoMark /\ tracker.minute # NoMark => tracker.minute <= base.minute
      BY <2>11 DEF Account, Counts
    <3>2. /\ falls => s.left # NoMark /\ (f.minute = NoMark \/ s.left < f.minute)
          /\ rises => s.over # NoMark /\ (f.percent = NoMark \/ s.over > f.percent)
      BY <2>7
    <3> HIDE DEF f, runs
    <3> QED
      BY <2>a, <2>c, <2>d, <3>1, <3>2
  <2>14. ASSUME NEW n \in Percents
         PROVE  /\ over'[n] = Once(PassedOver(tracker'.percent, base'.percent, n))
                /\ runs /\ s.over >= n => over'[n] # 0 \/ base'.percent >= n
    <3>1. n \in Nat /\ n > 0
      BY TriggerFacts
    <3>2. /\ over[n] = Once(PassedOver(tracker.percent, base.percent, n))
          /\ base.percent # NoMark /\ tracker.percent # NoMark => base.percent <= tracker.percent
      BY <2>11 DEF Account, Counts
    <3>3. over'[n] = over[n] + (IF rises /\ s.over >= 1 /\ RunsOver(n, f.percent, s.over) THEN 1 ELSE 0)
      BY <2>10
    <3>4. runs /\ s.over >= n => (f.percent = NoMark \/ s.over > f.percent => rises)
      BY <2>7, <2>a, <3>1
    <3>5. rises => s.over # NoMark /\ (f.percent = NoMark \/ s.over > f.percent)
      BY <2>7
    <3> HIDE DEF f, runs
    <3>6. over'[n] = Once(PassedOver(tracker'.percent, base'.percent, n))
      BY <2>a, <2>c, <2>d, <3>1, <3>2, <3>3, <3>5 DEF Once, PassedOver, RunsOver
    <3>7. ASSUME runs, s.over >= n PROVE over'[n] # 0 \/ base'.percent >= n
      BY <2>a, <2>c, <2>d, <3>1, <3>2, <3>4, <3>5, <3>6, <3>7 DEF Once, PassedOver
    <3> QED
      BY <3>6, <3>7
  <2>15. base'.percent # NoMark /\ tracker'.percent # NoMark => base'.percent <= tracker'.percent
    <3>1. base.percent # NoMark /\ tracker.percent # NoMark => base.percent <= tracker.percent
      BY <2>11 DEF Account, Counts
    <3>2. /\ falls => s.left # NoMark /\ (f.minute = NoMark \/ s.left < f.minute)
          /\ rises => s.over # NoMark /\ (f.percent = NoMark \/ s.over > f.percent)
      BY <2>7
    <3> HIDE DEF f, runs
    <3> QED
      BY <2>a, <2>c, <2>d, <3>1, <3>2
  <2>16. missed' = FALSE
    <3>1. ~(runs /\ \E n \in Minutes : s.left \in 0..n /\ soon'[n] = 0 /\ base'.minute \notin 0..n)
      BY <2>12
    <3>2. ~(runs /\ \E n \in Percents : s.over >= n /\ over'[n] = 0 /\ base'.percent < n)
      <4>1. ASSUME NEW n \in Percents, runs, s.over >= n, over'[n] = 0, base'.percent < n PROVE FALSE
        <5>1. base'.percent >= n
          BY <2>14, <4>1
        <5>2. n \in Int /\ base'.percent \in Int
          BY <2>a, <2>d, TriggerFacts
        <5> HIDE DEF f, runs
        <5> QED
          BY <4>1, <5>1, <5>2
      <4> QED
        BY <4>1
    <3> QED
      BY <2>2, <2>3, <3>1, <3>2
  <2>17. named.program = tracker.program /\ (named.phase # NoMark => named.phase <= tracker.phase)
    BY <2>11 DEF Account, Counts
  <2>18. named'.phase # NoMark => named'.phase <= tracker'.phase
    <3>1. CASE moves
      BY <2>5, <2>b, <2>c, <3>1
    <3>2. CASE ~moves /\ t.program = named.program
      <4>1. t = tracker
        BY <1>3, <2>17, <3>2
      <4>2. f.phase = tracker.phase \/ (tracker.phase = NoMark /\ f.phase = s.phase)
        BY <1>4, <4>1
      <4>3. named'.phase = named.phase /\ tracker'.phase = f.phase
        BY <2>5, <2>c, <3>2
      <4> HIDE DEF f
      <4> QED
        BY <2>17, <2>a, <2>b, <4>2, <4>3
    <3>3. CASE ~moves /\ t.program # named.program
      BY <2>5, <3>3
    <3> QED
      BY <3>1, <3>2, <3>3
  <2>19. again' = FALSE
    <3>1. ~(s.program \notin {None, tracker.program} /\ s.program = named.program)
      BY <2>17
    <3>2. ~(/\ runs /\ MovedOn(f, s) /\ t.program = named.program
            /\ named.phase # NoMark /\ s.phase <= named.phase)
      <4>1. ASSUME moves, t.program = named.program, named.phase # NoMark, s.phase <= named.phase
            PROVE  FALSE
        <5>1. t = tracker
          BY <1>3, <2>17, <4>1
        <5>2. f.phase = tracker.phase \/ (tracker.phase = NoMark /\ f.phase = s.phase)
          BY <1>4, <5>1
        <5>3. f.phase = NoMark \/ s.phase > f.phase
          BY <2>7, <4>1
        <5> HIDE DEF f
        <5> QED
          BY <2>17, <2>a, <2>b, <4>1, <5>2, <5>3
      <4> QED
        BY <4>1 DEF moves
    <3> QED
      BY <2>2, <2>3, <3>1, <3>2
  <2>20. PausesHeard' /\ heard' \in [Listeners -> BOOLEAN]
    <3>1. heard["user"] = (tracker.pause = "user") /\ heard["any"] = (tracker.pause # "none")
      BY <2>1 DEF Accounted, PausesHeard
    <3>2. heard' = [l \in Listeners |->
                      IF s.pause = tracker.pause THEN heard[l]
                      ELSE IF HearsPause(l, tracker.pause, s.pause) THEN TRUE
                      ELSE IF HearsResume(l, tracker.pause, s.pause) THEN FALSE ELSE heard[l]]
      BY <2>1 DEF Paused
    <3>3. heard' \in [Listeners -> BOOLEAN]
      BY <2>3, <3>2
    <3>4. heard'["user"] = (s.pause = "user") /\ heard'["any"] = (s.pause # "none")
      <4>1. "user" \in Listeners /\ "any" \in Listeners
        BY TriggerFacts
      <4> QED
        BY <3>1, <3>2, <4>1 DEF HearsPause, HearsResume
    <3> QED
      BY <1>6, <3>3, <3>4 DEF PausesHeard
  <2>21. Account(tracker)'
    BY <1>6, <2>5, <2>12, <2>13, <2>14, <2>15, <2>18 DEF Account, Counts
  <2>22. ASSUME ~writing' PROVE (Counts(onDisk) /\ DiskNames /\ DiskBehind)'
    <3>1. /\ ~Told(tracker, s) /\ Counts(onDisk) /\ DiskNames /\ DiskBehind
      BY <1>1, <2>1, <2>22 DEF Accounted
    <3>2. s.program \in {None, tracker.program} /\ t = tracker
      BY <1>3, <3>1 DEF Told
    <3>3. ~moves /\ ~falls /\ ~(rises /\ s.over >= 1)
      <4>1. ASSUME runs PROVE f = FirstEstimate(t, s)
        BY <4>1
      <4>2. runs => /\ ~MovedOn(FirstEstimate(t, s), s) /\ ~Fell(FirstEstimate(t, s), s)
                    /\ ~(Rose(FirstEstimate(t, s), s) /\ s.over >= 1)
        BY <1>3, <3>1, NotTold DEF t, Waits
      <4> QED
        BY <4>1, <4>2 DEF moves, falls, rises
    <3> HIDE DEF f
    <3>4. \A n \in Minutes : soon'[n] = soon[n]
      BY <2>3, <2>9, <3>3
    <3>5. \A n \in Percents : over'[n] = over[n]
      BY <2>3, <2>10, <3>3
    <3>6. named'.program = named.program /\ named'.phase = named.phase
      BY <2>5, <2>17, <3>2, <3>3
    <3>7. onDisk.minute = NoMark \/ base'.minute = base.minute
      BY <2>4, <3>1, <3>2 DEF DiskBehind
    <3>8. onDisk.percent = NoMark \/ base'.percent = base.percent
      BY <2>4, <3>1, <3>2 DEF DiskBehind
    <3>9. \A n \in Minutes : soon'[n] = Once(PassedSoon(onDisk.minute, base'.minute, n))
      BY <3>1, <3>4, <3>7 DEF Counts, PassedSoon
    <3>10. \A n \in Percents : over'[n] = Once(PassedOver(onDisk.percent, base'.percent, n))
      <4>1. ASSUME NEW n \in Percents, onDisk.percent = NoMark
            PROVE  PassedOver(onDisk.percent, base'.percent, n) = FALSE
                   /\ PassedOver(onDisk.percent, base.percent, n) = FALSE
        BY <4>1, TriggerFacts DEF PassedOver
      <4> QED
        BY <3>1, <3>5, <3>8, <4>1 DEF Counts
    <3>11. Counts(onDisk)' /\ DiskNames'
      BY <1>1, <3>1, <3>6, <3>7, <3>8, <3>9, <3>10 DEF Counts, DiskNames
    <3>12. /\ tracker.minute # NoMark => tracker'.minute # NoMark
           /\ tracker.percent # NoMark => tracker'.percent # NoMark
      BY <1>4, <1>5, <1>6, <2>7, <3>2
    <3> QED
      BY <1>1, <3>1, <3>11, <3>12 DEF DiskBehind
  <2>23. Accounted'
    BY <2>16, <2>19, <2>20, <2>21, <2>22 DEF Accounted
  <2>24. TriggersTypeOK'
    <3>1. active' \in BOOLEAN /\ lostMarks' \in BOOLEAN /\ again' \in BOOLEAN /\ missed' \in BOOLEAN
      BY <1>1, <2>16, <2>19 DEF TriggersInv, TriggersTypeOK
    <3> HIDE DEF f, runs
    <3> QED
      BY <1>1, <1>2, <1>6, <1>7, <2>4, <2>5, <2>6, <2>20, <3>1 DEF TriggersTypeOK
  <2> QED
    BY <1>1, <2>23, <2>24 DEF TriggersInv
<1> QED
  BY <1>8, <1>9 DEF TriggersInv, TriggersTypeOK

LEMMA NothingFacts ==
    ASSUME NothingWasHeard, TriggerAssumption
    PROVE  /\ soon \in [Minutes -> Nat] /\ over \in [Percents -> Nat]
           /\ base \in [minute : MinuteMarks, percent : PercentMarks]
           /\ named \in [program : Known, phase : PhaseMarks]
           /\ again \in BOOLEAN /\ missed \in BOOLEAN /\ heard \in [Listeners -> BOOLEAN]
<1> USE TriggerFacts DEF NothingWasHeard
<1>1. soon \in [Minutes -> Nat] /\ over \in [Percents -> Nat]
  OBVIOUS
<1>2. base \in [minute : MinuteMarks, percent : PercentMarks] /\ named \in [program : Known, phase : PhaseMarks]
  OBVIOUS
<1>3. again \in BOOLEAN /\ missed \in BOOLEAN /\ heard \in [Listeners -> BOOLEAN]
  OBVIOUS
<1> QED
  BY <1>1, <1>2, <1>3

\* A cycle that begins with nothing heard and no marks.
LEMMA FreshAccount ==
    ASSUME NothingWasHeard, NEW m, m.minute = NoMark, m.percent = NoMark
    PROVE  Counts(m) /\ (m.program = None => Account(m)) /\ DiskNames
<1> USE TriggerFacts DEF NothingWasHeard
<1>1. \A n \in Minutes : soon[n] = Once(PassedSoon(m.minute, base.minute, n))
  BY DEF Once, PassedSoon
<1>2. \A n \in Percents : over[n] = Once(PassedOver(m.percent, base.percent, n))
  BY DEF Once, PassedOver
<1>3. Counts(m)
  BY <1>1, <1>2 DEF Counts
<1> QED
  BY <1>3 DEF Account, DiskNames

LEMMA MarkFacts ==
    ASSUME NEW t \in Trackers, NEW g \in Known
    PROVE  LET m == SavedOf(t, g) IN
           /\ m \in Marks /\ m.shows = g /\ m.program = t.program /\ m.phase = t.phase
           /\ m.minute = t.minute /\ m.percent = t.percent
BY DEF SavedOf, Trackers, Marks

LEMMA TrackerFacts ==
    ASSUME NEW m \in Marks, NEW pause \in Pauses
    PROVE  LET t == Restored(m, pause) IN
           /\ t \in Trackers /\ t.pause = pause /\ t.minute = m.minute /\ t.percent = m.percent
           /\ t.program = m.shows /\ t.phase = IF m.program = m.shows THEN m.phase ELSE NoMark
BY TriggerFacts DEF Restored, Trackers, Marks

LEMMA NoTrackerFacts == NoTracker \in Trackers /\ NoTracker.pause = "none"
BY TriggerFacts DEF NoTracker, Trackers

\* Marks that agree account alike.
LEMMA SameCounts ==
    ASSUME NEW m, NEW k, Counts(m), m.minute = k.minute, m.percent = k.percent
    PROVE  Counts(k)
BY DEF Counts

\* After a restart the tracker accounts for the names heard, and so do the marks on disk,
\* if these did where they show the program heard last.
LEMMA NamesForgotten ==
    ASSUME named \in [program : Known, phase : PhaseMarks], onDisk' \in Marks, ForgottenNames,
           tracker'.program = onDisk'.shows,
           tracker'.phase = IF onDisk'.program = onDisk'.shows THEN onDisk'.phase ELSE NoMark,
           named.phase # NoMark /\ onDisk'.shows = named.program =>
               onDisk'.program = named.program /\ named.phase <= onDisk'.phase
    PROVE  /\ named' \in [program : Known, phase : PhaseMarks]
           /\ tracker'.program = named'.program
           /\ named'.phase # NoMark => named'.phase <= tracker'.phase
           /\ DiskNames'
<1>1. CASE tracker'.program = named.program
  <2>1. named' = named
    BY <1>1 DEF ForgottenNames
  <2> QED
    BY <1>1, <2>1 DEF DiskNames
<1>2. CASE tracker'.program # named.program
  <2>1. named' = [program |-> tracker'.program, phase |-> NoMark]
    BY <1>2 DEF ForgottenNames
  <2>2. tracker'.program \in Known /\ NoMark \in PhaseMarks
    BY TriggerFacts DEF Marks
  <2> QED
    BY <2>1, <2>2 DEF DiskNames
<1> QED
  BY <1>1, <1>2

LEMMA CycleStartsStep ==
    ASSUME TriggersInv, CycleStarts
    PROVE  TriggersInv'
<1>1. /\ ~active /\ active' = TRUE /\ lostMarks' = FALSE /\ tracker' = NewCycle(tracker) /\ shows' = None
      /\ UNCHANGED <<onDisk, writing, soon, over, base, named, again, missed, heard>>
  BY DEF CycleStarts
<1> USE TriggerFacts DEF TriggersInv
<1>2. tracker \in Trackers /\ Quiescent
  BY <1>1 DEF TriggersTypeOK
<1>3. /\ tracker' = [program |-> None, phase |-> NoMark, minute |-> NoMark, percent |-> NoMark,
                     pause |-> tracker.pause, pending |-> FALSE]
  BY <1>1, <1>2 DEF NewCycle, Trackers
<1>4. tracker' \in Trackers /\ tracker'.pause = "none"
  BY <1>2, <1>3 DEF Trackers, Quiescent
<1>5. TriggersTypeOK'
  BY <1>1, <1>4 DEF TriggersTypeOK
<1>6. NothingWasHeard /\ onDisk = NoMarks
  BY <1>2 DEF Quiescent
<1>7. Account(tracker') /\ Counts(onDisk) /\ DiskNames
  BY <1>3, <1>6, FreshAccount DEF NoMarks
<1>8. Account(tracker)' /\ Counts(onDisk)' /\ DiskNames'
  BY <1>1, <1>7 DEF Account, Counts, DiskNames
<1>9. DiskBehind'
  BY <1>1, <1>6 DEF DiskBehind, NoMarks
<1>10. PausesHeard' /\ ~missed' /\ ~again'
  BY <1>1, <1>4, <1>6 DEF NothingWasHeard, PausesHeard
<1> QED
  BY <1>1, <1>5, <1>8, <1>9, <1>10 DEF Accounted

LEMMA WritesStep ==
    ASSUME TriggersInv, SaveMarks \/ WriteMarks
    PROVE  TriggersInv'
<1>1. /\ UNCHANGED <<active, shows, tracker, soon, over, base, named, again, missed, heard, lostMarks>>
      /\ \/ active /\ writing' = TRUE /\ onDisk' = onDisk
         \/ writing /\ writing' = FALSE /\ onDisk' = SavedOf(tracker, shows)
  BY DEF SaveMarks, WriteMarks
<1> USE DEF TriggersInv
<1>2. tracker \in Trackers /\ shows \in Known
  BY DEF TriggersTypeOK
<1>3. active
  BY <1>1 DEF Quiescent
<1>4. onDisk' \in Marks /\ writing' \in BOOLEAN
  <2>1. onDisk \in Marks
    BY DEF TriggersTypeOK
  <2>2. SavedOf(tracker, shows) \in Marks
    BY <1>2, MarkFacts
  <2> QED
    BY <1>1, <2>1, <2>2
<1>5. TriggersTypeOK'
  BY <1>1, <1>4 DEF TriggersTypeOK
<1>6. ASSUME ~lostMarks' PROVE Accounted'
  <2>1. Accounted
    BY <1>1, <1>3, <1>6
  <2>2. Account(tracker)' /\ PausesHeard' /\ ~missed' /\ ~again'
    BY <1>1, <2>1 DEF Accounted, Account, Counts, PausesHeard
  <2>3. ASSUME ~writing' PROVE (Counts(onDisk) /\ DiskNames /\ DiskBehind)'
    <3>1. onDisk' = SavedOf(tracker, shows)
      BY <1>1, <2>3
    <3>2. /\ onDisk'.program = tracker.program /\ onDisk'.phase = tracker.phase
          /\ onDisk'.minute = tracker.minute /\ onDisk'.percent = tracker.percent
      BY <1>2, <3>1, MarkFacts
    <3>3. Account(tracker) /\ Counts(tracker)
      BY <2>1 DEF Accounted, Account
    <3>4. Counts(onDisk')
      BY <3>2, <3>3, SameCounts
    <3>5. Counts(onDisk)'
      BY <1>1, <3>4 DEF Counts
    <3>6. DiskNames'
      BY <1>1, <3>2, <3>3 DEF DiskNames, Account
    <3> QED
      BY <1>1, <3>2, <3>5, <3>6 DEF DiskBehind
  <2> QED
    BY <2>2, <2>3 DEF Accounted
<1> QED
  BY <1>1, <1>3, <1>5, <1>6

LEMMA CycleOverStep ==
    ASSUME TriggersInv, CycleEnds \/ DroppedAtRestart
    PROVE  TriggersInv'
<1>1. /\ active' = FALSE /\ onDisk' = NoMarks /\ writing' = FALSE /\ NothingHeard
      /\ lostMarks' = lostMarks /\ shows' = None
      /\ tracker' = [tracker EXCEPT !.pause = "none"] \/ tracker' = NoTracker
  BY DEF CycleEnds, DroppedAtRestart, NoCycle
<1> USE TriggerFacts DEF TriggersInv
<1>2. NothingWasHeard'
  BY <1>1 DEF NothingHeard, NothingWasHeard
<1>3. NoMarks \in Marks
  BY DEF NoMarks, Marks
<1>4. tracker' \in Trackers /\ tracker'.pause = "none"
  <2>1. CASE tracker' = [tracker EXCEPT !.pause = "none"]
    BY <2>1 DEF TriggersTypeOK, Trackers
  <2>2. CASE tracker' = NoTracker
    BY <2>2, NoTrackerFacts
  <2> QED
    BY <1>1, <2>1, <2>2
<1>5. /\ (soon \in [Minutes -> Nat] /\ over \in [Percents -> Nat])'
      /\ (base \in [minute : MinuteMarks, percent : PercentMarks])'
      /\ (named \in [program : Known, phase : PhaseMarks])'
      /\ (again \in BOOLEAN /\ missed \in BOOLEAN /\ heard \in [Listeners -> BOOLEAN])'
  BY <1>2, NothingFacts, TriggerAssumption, PTL
<1>6. TriggersTypeOK'
  BY <1>1, <1>3, <1>4, <1>5 DEF TriggersTypeOK
<1> QED
  BY <1>1, <1>2, <1>4, <1>6 DEF Quiescent

LEMMA ReloadEntryStep ==
    ASSUME TriggersInv, ReloadEntry
    PROVE  TriggersInv'
<1>1. /\ active /\ active' = active /\ shows' = shows
      /\ onDisk' = SavedOf(tracker, shows) /\ tracker' = Restored(onDisk', tracker.pause)
      /\ writing' = FALSE /\ (IF lostMarks THEN UNCHANGED named ELSE ForgottenNames)
      /\ UNCHANGED <<soon, over, base, again, missed, heard, lostMarks>>
  BY DEF ReloadEntry, Baseline, SavedOf
<1> USE TriggerFacts DEF TriggersInv
<1>2. /\ tracker \in Trackers /\ tracker.pause \in Pauses /\ shows \in Known
      /\ named \in [program : Known, phase : PhaseMarks]
  BY DEF TriggersTypeOK, Trackers
<1>3. /\ onDisk' \in Marks /\ onDisk'.program = tracker.program /\ onDisk'.phase = tracker.phase
      /\ onDisk'.minute = tracker.minute /\ onDisk'.percent = tracker.percent
  BY <1>1, <1>2, MarkFacts
<1>4. /\ tracker' \in Trackers /\ tracker'.pause = tracker.pause
      /\ tracker'.minute = tracker.minute /\ tracker'.percent = tracker.percent
      /\ tracker'.program = onDisk'.shows
      /\ tracker'.phase = IF onDisk'.program = onDisk'.shows THEN onDisk'.phase ELSE NoMark
  BY <1>1, <1>2, <1>3, TrackerFacts
<1>5. CASE lostMarks
  BY <1>1, <1>3, <1>4, <1>5 DEF TriggersTypeOK
<1>6. CASE ~lostMarks
  <2>1. Accounted /\ Account(tracker)
    BY <1>1, <1>6 DEF Accounted
  <2>2. /\ named' \in [program : Known, phase : PhaseMarks]
        /\ tracker'.program = named'.program
        /\ named'.phase # NoMark => named'.phase <= tracker'.phase
        /\ DiskNames'
    BY <1>1, <1>2, <1>3, <1>4, <1>6, <2>1, NamesForgotten DEF Account
  <2>3. TriggersTypeOK'
    BY <1>1, <1>3, <1>4, <2>2 DEF TriggersTypeOK
  <2>4. Counts(tracker') /\ Counts(onDisk')
    BY <1>3, <1>4, <2>1, SameCounts DEF Account
  <2>5. Account(tracker)' /\ Counts(onDisk)'
    BY <1>1, <2>2, <2>4 DEF Account, Counts
  <2>6. PausesHeard' /\ ~missed' /\ ~again' /\ DiskBehind'
    BY <1>1, <1>3, <1>4, <2>1 DEF Accounted, PausesHeard, DiskBehind
  <2> QED
    BY <1>1, <2>2, <2>3, <2>5, <2>6 DEF Accounted
<1> QED
  BY <1>5, <1>6

\* A crash with the marks on disk.
LEMMA DiesStep ==
    ASSUME TriggersInv, NEW pause \in Pauses, Dies(pause)
    PROVE  TriggersInv'
<1>1. /\ active /\ active' = active /\ tracker' = Restored(onDisk, pause) /\ shows' = onDisk.shows
      /\ onDisk' = onDisk /\ writing' = FALSE
      /\ lostMarks' = (lostMarks \/ writing \/ pause # tracker.pause)
      /\ IF lostMarks' THEN NothingHeard
         ELSE ForgottenNames /\ UNCHANGED <<soon, over, base, again, missed, heard>>
  BY DEF Dies, Baseline
<1> USE TriggerFacts DEF TriggersInv
<1>2. /\ onDisk \in Marks /\ shows' \in Known /\ tracker \in Trackers /\ lostMarks' \in BOOLEAN
      /\ named \in [program : Known, phase : PhaseMarks]
  BY <1>1 DEF TriggersTypeOK, Marks
<1>3. /\ tracker' \in Trackers /\ tracker'.pause = pause
      /\ tracker'.minute = onDisk.minute /\ tracker'.percent = onDisk.percent
      /\ tracker'.program = onDisk.shows
      /\ tracker'.phase = IF onDisk.program = onDisk.shows THEN onDisk.phase ELSE NoMark
  BY <1>1, <1>2, TrackerFacts
<1>4. CASE lostMarks'
  <2>1. NothingWasHeard'
    BY <1>1, <1>4 DEF NothingHeard, NothingWasHeard
  <2>2. /\ (soon \in [Minutes -> Nat] /\ over \in [Percents -> Nat])'
        /\ (base \in [minute : MinuteMarks, percent : PercentMarks])'
        /\ (named \in [program : Known, phase : PhaseMarks])'
        /\ (again \in BOOLEAN /\ missed \in BOOLEAN /\ heard \in [Listeners -> BOOLEAN])'
    BY <2>1, NothingFacts, TriggerAssumption, PTL
  <2>3. TriggersTypeOK'
    BY <1>1, <1>2, <1>3, <2>2 DEF TriggersTypeOK
  <2> QED
    BY <1>1, <1>4, <2>3
<1>5. CASE ~lostMarks'
  <2>1. /\ ~lostMarks /\ ~writing /\ pause = tracker.pause
        /\ ForgottenNames /\ UNCHANGED <<soon, over, base, again, missed, heard>>
    BY <1>1, <1>5
  <2>2. Accounted /\ Counts(onDisk) /\ DiskNames
    BY <1>1, <2>1 DEF Accounted
  <2>3. /\ named' \in [program : Known, phase : PhaseMarks]
        /\ tracker'.program = named'.program
        /\ named'.phase # NoMark => named'.phase <= tracker'.phase
        /\ DiskNames'
    BY <1>1, <1>2, <1>3, <2>1, <2>2, NamesForgotten DEF DiskNames
  <2>4. TriggersTypeOK'
    BY <1>1, <1>2, <1>3, <2>1, <2>3 DEF TriggersTypeOK
  <2>5. Counts(tracker')
    BY <1>3, <2>2, SameCounts
  <2>6. Account(tracker)' /\ Counts(onDisk)'
    BY <1>1, <2>1, <2>2, <2>3, <2>5 DEF Account, Counts
  <2>7. PausesHeard' /\ ~missed' /\ ~again' /\ DiskBehind'
    BY <1>1, <1>3, <2>1, <2>2 DEF Accounted, PausesHeard, DiskBehind
  <2> QED
    BY <1>1, <2>3, <2>4, <2>6, <2>7 DEF Accounted
<1> QED
  BY <1>4, <1>5

LEMMA TriggersStart == TriggersInit => TriggersInv
<1> SUFFICES ASSUME TriggersInit PROVE TriggersInv
  OBVIOUS
<1> USE TriggerFacts DEF TriggersInit
<1>1. NothingWasHeard
  BY DEF NothingWasHeard
<1>2. NoMarks \in Marks
  BY DEF NoMarks, Marks
<1>3. tracker \in Trackers /\ tracker.pause = "none"
  BY NoTrackerFacts
<1>4. TriggersTypeOK
  BY <1>1, <1>2, <1>3, NothingFacts, TriggerAssumption DEF TriggersTypeOK
<1> QED
  BY <1>1, <1>3, <1>4 DEF TriggersInv, Quiescent

LEMMA ShownFacts ==
    ASSUME NEW pause \in Pauses, NEW e \in Estimates \union {NoEstimate}, NEW g \in Known
    PROVE  Seen(g, pause, e) \in Shown
<1>1. e \in [known : BOOLEAN, left : MinuteMarks, over : PercentMarks, phase : PhaseMarks]
  <2>1. NoEstimate \in [known : BOOLEAN, left : MinuteMarks, over : PercentMarks, phase : PhaseMarks]
    BY TriggerFacts DEF NoEstimate
  <2>2. Estimates \subseteq [known : BOOLEAN, left : MinuteMarks, over : PercentMarks, phase : PhaseMarks]
    BY TriggerAssumption DEF MinuteMarks, PercentMarks, PhaseMarks
  <2> QED
    BY <2>1, <2>2
<1> QED
  BY <1>1 DEF Seen, Shown

LEMMA TriggersStep == TriggersInv /\ [TriggersNext]_triggerVars => TriggersInv'
<1> SUFFICES ASSUME TriggersInv, [TriggersNext]_triggerVars PROVE TriggersInv'
  OBVIOUS
<1>1. ASSUME NEW p \in Pauses, Refresh(Seen(None, p, NoEstimate)) PROVE TriggersInv'
  <2>1. Seen(None, p, NoEstimate) \in Shown
    BY ShownFacts DEF Known
  <2> QED
    BY <1>1, <2>1, RefreshStep
<1>2. ASSUME NEW p \in Pauses, NEW g \in Programs, NEW e \in Estimates, Refresh(Seen(g, p, e))
      PROVE  TriggersInv'
  <2>1. Seen(g, p, e) \in Shown
    BY ShownFacts DEF Known
  <2> QED
    BY <1>2, <2>1, RefreshStep
<1>3. CASE \E p \in Pauses : Dies(p)
  BY <1>3, DiesStep
<1>4. CASE SaveMarks \/ WriteMarks \/ CycleStarts \/ CycleEnds \/ ReloadEntry \/ DroppedAtRestart
  BY <1>4, WritesStep, CycleStartsStep, CycleOverStep, ReloadEntryStep
<1>5. CASE UNCHANGED triggerVars
  BY <1>5 DEF triggerVars, TriggersInv, TriggersTypeOK, Quiescent, NothingWasHeard, Accounted,
     PausesHeard, Account, Counts, DiskNames, DiskBehind
<1> QED
  BY <1>1, <1>2, <1>3, <1>4, <1>5 DEF TriggersNext

(* "Each automation fires exactly once for its own threshold whatever      *)
(* value it chose, and a restart cannot replay a crossing", and what is    *)
(* heard of pauses is what is shown (LiveTriggerTracker.tick, baseline,    *)
(* run_variables), for every estimate the entities can show.  No program   *)
(* or phase is announced twice running, unless a restart restored the      *)
(* cycle without showing that program: baseline then forgets it.           *)
THEOREM TriggersAreHeardAsShown == TriggersSpec => []HeardAsShown
<1>1. TriggersInv => HeardAsShown
  <2> SUFFICES ASSUME TriggersInv, active, ~lostMarks PROVE CrossedOnce /\ HeardOfPause
    BY DEF HeardAsShown, CrossedOnce, HeardOfPause
  <2>1. Accounted
    BY DEF TriggersInv
  <2>2. (\A n \in Minutes : soon[n] <= 1) /\ (\A n \in Percents : over[n] <= 1)
    BY <2>1 DEF Accounted, Account, Counts, Once
  <2> QED
    BY <2>1, <2>2 DEF Accounted, PausesHeard, CrossedOnce, HeardOfPause
<1> QED
  BY <1>1, TriggersStart, TriggersStep, PTL DEF TriggersSpec

-----------------------------------------------------------------------------
(***************************************************************************)
(* The notifications held back.  The invariant follows each "finished": of *)
(* the places it can be in, the queues, the file and what a restore has    *)
(* read, it is in one, but for the copy a stop is writing, and in none     *)
(* once it was delivered.  The arithmetic of the clock comes first.        *)
(***************************************************************************)
HalfHours == 2 * HoursPerDay

LEMMA Wraps ==
    ASSUME NEW d \in Nat \ {0}, NEW t \in 0..(2 * d - 1)
    PROVE  t % d = IF t < d THEN t ELSE t - d
BY Z3

LEMMA HourFacts ==
    ASSUME NEW t \in Nat, NEW n \in Int
    PROVE  t \div 2 \in Nat /\ (t \div 2 >= n <=> t >= 2 * n) /\ (t \div 2 < n <=> t < 2 * n)
BY Z3

LEMMA InQuietAt ==
    ASSUME NEW w \in Nat \X Nat, NEW t \in Nat
    PROVE  InQuiet(w, t) <=> \/ w[1] < w[2] /\ 2 * w[1] <= t /\ t < 2 * w[2]
                             \/ w[1] > w[2] /\ (t >= 2 * w[1] \/ t < 2 * w[2])
<1>1. w[1] \in Int /\ w[2] \in Int
  OBVIOUS
<1>2. /\ t \div 2 \in Nat /\ (t \div 2 >= w[1] <=> t >= 2 * w[1])
      /\ (t \div 2 < w[2] <=> t < 2 * w[2])
  BY <1>1, HourFacts
<1>3. (w[1] <= t \div 2 <=> 2 * w[1] <= t)
  BY <1>1, <1>2
<1> QED
  BY <1>1, <1>2, <1>3 DEF InQuiet

\* What a timer that ends in n half hours is worth to what is held.
EndsQuiet(w, t, n) ==
    /\ \A k \in 0..(n - 1) : InQuiet(w, (t + k) % HalfHours)
    /\ ~InQuiet(w, (t + n) % HalfHours)

LEMMA Hours ==
    /\ HalfHours \in Nat \ {0}
    /\ \A w \in Windows : w \in Nat \X Nat /\ 2 * w[1] < HalfHours /\ 2 * w[2] < HalfHours
<1>1. HoursPerDay \in Nat \ {0}
  BY HeldAssumption
<1>2. ASSUME NEW w \in Windows
      PROVE  w \in Nat \X Nat /\ 2 * w[1] < HalfHours /\ 2 * w[2] < HalfHours
  <2>1. w \in (0..(HoursPerDay - 1)) \X (0..(HoursPerDay - 1))
    BY HeldAssumption
  <2>2. w[1] \in 0..(HoursPerDay - 1) /\ w[2] \in 0..(HoursPerDay - 1) /\ w = <<w[1], w[2]>>
    BY <2>1
  <2>3. w[1] \in Nat /\ w[2] \in Nat /\ 2 * w[1] < HalfHours /\ 2 * w[2] < HalfHours
    BY <1>1, <2>2 DEF HalfHours
  <2> QED
    BY <2>2, <2>3
<1>3. HalfHours \in Nat \ {0}
  BY <1>1 DEF HalfHours
<1> QED
  BY <1>2, <1>3

LEMMA UntilFacts ==
    ASSUME NEW w \in Windows, NEW t \in 0..(HalfHours - 1), InQuiet(w, t)
    PROVE  UntilQuietEnd(w, t) \in 1..HalfHours /\ EndsQuiet(w, t, UntilQuietEnd(w, t))
<1> DEFINE b == w[1]
           e == w[2]
           d == HalfHours
           n == IF 2 * e > t THEN 2 * e - t ELSE 2 * e + d - t
<1>1. d \in Nat \ {0} /\ b \in Nat /\ e \in Nat /\ w \in Nat \X Nat /\ 2 * b < d /\ 2 * e < d
  BY Hours
<1>2. t \in Nat /\ t < d
  BY <1>1
<1>3. UntilQuietEnd(w, t) = n
  BY DEF UntilQuietEnd, HalfHours
<1>4. \A x \in Nat : InQuiet(w, x) <=> \/ b < e /\ 2 * b <= x /\ x < 2 * e
                                       \/ b > e /\ (x >= 2 * b \/ x < 2 * e)
  BY <1>1, InQuietAt
<1>5. \A x \in 0..(2 * d - 1) : x % d = IF x < d THEN x ELSE x - d
  BY <1>1, Wraps
<1> HIDE DEF b, e, d
<1>6. \/ b < e /\ 2 * b <= t /\ t < 2 * e
      \/ b > e /\ (t >= 2 * b \/ t < 2 * e)
  BY <1>2, <1>4
<1>7. n \in 1..d
  BY <1>1, <1>2, <1>6
<1>8. t + n = 2 * e \/ t + n = 2 * e + d
  BY <1>1, <1>2
<1>a. /\ 2 * e > t => n = 2 * e - t
      /\ ~(2 * e > t) => n = 2 * e + d - t
  OBVIOUS
<1> HIDE DEF n
<1>9. (t + n) % d = 2 * e
  <2> DEFINE s == t + n
  <2>1. s \in 0..(2 * d - 1)
    BY <1>1, <1>2, <1>7, <1>8
  <2> HIDE DEF s
  <2>2. s % d = IF s < d THEN s ELSE s - d
    BY <1>5, <2>1
  <2> USE DEF s
  <2> QED
    BY <1>1, <1>2, <1>7, <1>8, <2>2
<1>10. ~InQuiet(w, (t + n) % d)
  BY <1>1, <1>4, <1>6, <1>9
<1>11. ASSUME NEW k \in 0..(n - 1) PROVE InQuiet(w, (t + k) % d)
  <2> DEFINE s == t + k
             x == s % d
  <2>1. k \in Nat /\ k < n /\ s \in 0..(2 * d - 1)
    BY <1>1, <1>2, <1>7
  <2> HIDE DEF s
  <2>2. x = IF s < d THEN s ELSE s - d
    BY <1>5, <2>1
  <2> USE DEF s
  <2>3. x \in Nat
    BY <1>1, <1>2, <2>1, <2>2
  <2> HIDE DEF x
  <2>4. CASE 2 * e > t
    <3>1. x = t + k /\ x < 2 * e /\ t <= x
      BY <1>1, <1>2, <1>a, <2>1, <2>2, <2>4
    <3>2. (b < e /\ 2 * b <= x) \/ b > e
      BY <1>1, <1>2, <1>6, <3>1, <2>3
    <3>3. InQuiet(w, x)
      BY <1>4, <2>3, <3>1, <3>2
    <3> QED
      BY <3>3 DEF x
  <2>5. CASE ~(2 * e > t)
    <3>1. b > e /\ t >= 2 * b
      BY <1>1, <1>2, <1>6, <2>5
    <3>2. x >= 2 * b \/ x < 2 * e
      BY <1>1, <1>2, <1>a, <2>1, <2>2, <2>5, <3>1
    <3>3. InQuiet(w, x)
      BY <1>4, <2>3, <3>1, <3>2
    <3> QED
      BY <3>3 DEF x
  <2> QED
    BY <2>4, <2>5
<1> QED
  BY <1>3, <1>7, <1>10, <1>11 DEF EndsQuiet, d, n

\* Half an hour later the window ends half an hour sooner.
LEMMA TimerRuns ==
    ASSUME NEW w \in Windows, NEW t \in 0..(HalfHours - 1), NEW n \in 2..HalfHours, EndsQuiet(w, t, n)
    PROVE  EndsQuiet(w, (t + 1) % HalfHours, n - 1)
<1> DEFINE d == HalfHours
           u == (t + 1) % d
<1>1. d \in Nat \ {0}
  BY Hours
<1>2. \A x \in 0..(2 * d - 1) : x % d = IF x < d THEN x ELSE x - d
  BY <1>1, Wraps
<1> HIDE DEF d
<1>3. t \in Nat /\ t < d /\ n \in Nat /\ n <= d /\ n >= 2
  BY <1>1 DEF d
<1>4. u = IF t + 1 < d THEN t + 1 ELSE 0
  BY <1>1, <1>2, <1>3
<1>5. ASSUME NEW k \in 0..(n - 1) PROVE (u + k) % d = (t + (k + 1)) % d
  <2>1. k \in Nat /\ k <= n - 1
    BY <1>3
  <2>2. CASE t + 1 < d
    BY <1>1, <1>3, <1>4, <2>1, <2>2
  <2>3. CASE ~(t + 1 < d)
    <3>1. u = 0 /\ t + 1 = d
      BY <1>1, <1>3, <1>4, <2>3
    <3>2. k \in 0..(2 * d - 1) /\ k < d /\ t + (k + 1) = d + k /\ d + k \in 0..(2 * d - 1)
      BY <1>1, <1>3, <2>1, <3>1
    <3>3. k % d = k /\ (d + k) % d = k
      BY <1>1, <1>2, <2>1, <3>2
    <3> QED
      BY <2>1, <3>1, <3>2, <3>3
  <2> QED
    BY <2>2, <2>3
<1> HIDE DEF u
<1>6. ~InQuiet(w, (u + (n - 1)) % d)
  <2>1. n - 1 \in 0..(n - 1) /\ (n - 1) + 1 = n
    BY <1>3
  <2>2. (u + (n - 1)) % d = (t + n) % d
    BY <1>5, <2>1
  <2> QED
    BY <2>2 DEF EndsQuiet, d
<1>7. ASSUME NEW k \in 0..((n - 1) - 1) PROVE InQuiet(w, (u + k) % d)
  <2>1. k \in 0..(n - 1) /\ k + 1 \in 0..(n - 1)
    BY <1>3
  <2>2. (u + k) % d = (t + (k + 1)) % d
    BY <1>5, <2>1
  <2> QED
    BY <2>1, <2>2 DEF EndsQuiet, d
<1> QED
  BY <1>6, <1>7 DEF EndsQuiet, u, d

-----------------------------------------------------------------------------
(* The inductive invariant.                                                *)

HeldTypeOK ==
    /\ halfHour \in 0..(HalfHours - 1) /\ window \in Windows /\ home \in BOOLEAN /\ gated \in BOOLEAN
    /\ quietQ \in SUBSET Message /\ presQ \in SUBSET Message /\ quietTimer \in 0..HalfHours
    /\ heldFile \in SUBSET Message /\ keeping \in SUBSET Message /\ restoring \in SUBSET Message
    /\ phase \in {"up", "saving", "saved", "unloading", "down"}
    /\ restore \in {"due", "read", "removed", "over"}
    /\ cyc \in 0..MaxCycles /\ busy \in BOOLEAN /\ ending \in SUBSET (1..cyc) /\ clean \in 0..MaxCycles
    /\ told \in SUBSET Message /\ got \in [Message -> Nat]

\* The quiet timer, set, ends with the window, and is set while something is held.
QuietTimed ==
    /\ quietTimer > 0 => EndsQuiet(window, halfHour, quietTimer)
    /\ quietQ # {} => quietTimer > 0

PresenceHeld == Up /\ presQ # {} => gated /\ ~home

Queues == quietQ \union presQ
Filed == restoring \union heldFile

\* Where a "finished" is.  Of its copies only the one a stop is writing may be in a
\* queue as well, and what was delivered is nowhere.
Followed(m) ==
    /\ got[m] \in {0, 1}
    /\ got[m] = 1 => m \in told
    /\ m \notin told \/ got[m] = 1 => m \notin Queues \union Filed \union keeping
    /\ m \in told => got[m] = 1 \/ m \in Queues \union Filed \union keeping
    /\ m \notin quietQ \intersect presQ
    /\ m \in keeping => m \in Queues
    /\ m \in Queues \intersect Filed => m \in keeping
    /\ phase \in {"saving", "unloading"} /\ keeping # {} /\ m \in heldFile => m \in keeping
    /\ restore = "removed" /\ m \in restoring \intersect heldFile => m \in keeping

FinishFollowed == \A m \in Message : m.kind = "finish" /\ m \notin excused => Followed(m)

StopsInOrder ==
    /\ phase = "up" => keeping = {}
    /\ restore \in {"due", "over"} => restoring = {}

\* The end of cycle c and its tail are over.
Over(c) == c \in 1..cyc /\ c \notin ending /\ ~(busy /\ c = cyc)

CyclesInOrder ==
    /\ busy => cyc > 0 /\ cyc \notin ending
    /\ \A m \in told : m.kind = "finish" => Over(m.cyc)
    /\ \A c \in emptied : Over(c)
    /\ clean # 0 => Over(clean) /\ clean \notin emptied

\* What is in a queue is not about something that is over, unless nothing purges it;
\* what is in the file, or on its way, outlives a restart.
Timely ==
    /\ \A m \in Queues : /\ m.kind \in {"start", "pre", "live"} =>
                                (m.cyc = cyc /\ busy) \/ m.cyc \in ending \union stray
                         /\ m.kind = "clean" => m.cyc \notin emptied
    /\ \A m \in quietQ : m.kind \in QuietKinds
    /\ \A m \in Filed \union keeping : m.kind \notin TransientKinds

HeldInv ==
    /\ HeldTypeOK /\ QuietTimed /\ PresenceHeld
    /\ FinishFollowed /\ StopsInOrder /\ CyclesInOrder /\ Timely

\* What a step delivers.
OnTime ==
    /\ Delivered # {} => ~gated \/ home'
    /\ \A m \in Delivered :
          /\ m.kind \in {"start", "pre", "live"} => (m.cyc = cyc /\ busy) \/ m.cyc \in ending \union stray'
          /\ m.kind = "clean" => m.cyc \notin emptied

-----------------------------------------------------------------------------
(* What the gates do.                                                      *)

LEMMA Messages ==
    /\ \A m \in Message : m.kind \in {"start", "pre", "live", "finish", "clean"} /\ m.cyc \in 1..MaxCycles
    /\ \A k \in {"start", "pre", "live", "finish", "clean"}, c \in 1..MaxCycles :
          [kind |-> k, cyc |-> c] \in Message
BY DEF Message

LEMMA Dispatched ==
    ASSUME HeldTypeOK, NEW ms \in SUBSET Message, NEW q \in SUBSET Message, NEW p \in SUBSET Message,
           Dispatch(ms, TRUE, q, p)
    PROVE  LET held == ToQuiet(ms, TRUE)
               away == ToPresence(ms, TRUE)
           IN
           /\ held \subseteq ms /\ away \subseteq ms /\ held \intersect away = {}
           /\ \A m \in held : m.kind \in QuietKinds
           /\ held # {} => InQuiet(window, halfHour)
           /\ away # {} => gated /\ ~home
           /\ gated /\ ~home => ms = held \union away
           /\ quietQ' = q \union held
           /\ quietTimer' = IF held # {} /\ quietTimer = 0 THEN UntilQuietEnd(window, halfHour) ELSE quietTimer
           /\ presQ' \subseteq p \union away /\ away \subseteq presQ'
           /\ \A m \in p : m.kind # "live" => m \in presQ'
           /\ got' \in [Message -> Nat]
           /\ \A m \in Message : got'[m] = IF m \in ms /\ m \notin held /\ m \notin away
                                           THEN got[m] + 1 ELSE got[m]
<1> DEFINE held == ToQuiet(ms, TRUE)
           away == ToPresence(ms, TRUE)
<1>1. /\ held \subseteq ms /\ away \subseteq ms /\ held \intersect away = {}
      /\ \A m \in held : m.kind \in QuietKinds
      /\ held # {} => InQuiet(window, halfHour)
      /\ away # {} => gated /\ ~home
      /\ gated /\ ~home => ms = held \union away
  BY DEF ToQuiet, ToPresence
<1>2. /\ quietQ' = q \union held
      /\ quietTimer' = IF held # {} /\ quietTimer = 0 THEN UntilQuietEnd(window, halfHour) ELSE quietTimer
      /\ presQ' = Queued(p, away)
      /\ got' = [m \in Message |-> IF m \in ms \ (held \union away) THEN got[m] + 1 ELSE got[m]]
  BY DEF Dispatch
<1> HIDE DEF held, away
<1>3. /\ presQ' \subseteq p \union away /\ away \subseteq presQ'
      /\ \A m \in p : m.kind # "live" => m \in presQ'
  BY <1>2 DEF Queued
<1>4. /\ got' \in [Message -> Nat]
      /\ \A m \in Message : got'[m] = IF m \in ms /\ m \notin held /\ m \notin away
                                      THEN got[m] + 1 ELSE got[m]
  BY <1>2 DEF HeldTypeOK
<1> QED
  BY <1>1, <1>2, <1>3, <1>4 DEF held, away

\* The clocks and the types after a dispatch.
LEMMA DispatchedClocks ==
    ASSUME HeldInv, NEW ms \in SUBSET Message, NEW q \in SUBSET quietQ, NEW p \in SUBSET presQ,
           Dispatch(ms, TRUE, q, p), UNCHANGED envNow, phase' = phase
    PROVE  /\ quietQ' \in SUBSET Message /\ presQ' \in SUBSET Message
           /\ quietTimer' \in 0..HalfHours /\ got' \in [Message -> Nat]
           /\ QuietTimed' /\ PresenceHeld'
           /\ Delivered \subseteq ms /\ (Delivered # {} => ~gated \/ home')
<1> DEFINE held == ToQuiet(ms, TRUE)
           away == ToPresence(ms, TRUE)
<1>1. HeldTypeOK /\ q \in SUBSET Message /\ p \in SUBSET Message
  BY DEF HeldInv, HeldTypeOK
<1>2. /\ held \subseteq ms /\ away \subseteq ms
      /\ held # {} => InQuiet(window, halfHour)
      /\ away # {} => gated /\ ~home
      /\ gated /\ ~home => ms = held \union away
      /\ quietQ' = q \union held
      /\ quietTimer' = IF held # {} /\ quietTimer = 0 THEN UntilQuietEnd(window, halfHour) ELSE quietTimer
      /\ presQ' \subseteq p \union away
      /\ got' \in [Message -> Nat]
      /\ \A m \in Message : got'[m] = IF m \in ms /\ m \notin held /\ m \notin away
                                      THEN got[m] + 1 ELSE got[m]
  BY <1>1, Dispatched
<1> HIDE DEF held, away
<1>3. UNCHANGED <<halfHour, window, home, gated>>
  BY DEF envNow
<1>4. /\ window \in Windows /\ halfHour \in 0..(HalfHours - 1) /\ quietTimer \in 0..HalfHours
      /\ HalfHours \in Nat
  BY <1>1, Hours DEF HeldTypeOK
<1>5. ASSUME held # {} /\ quietTimer = 0
      PROVE  quietTimer' \in 0..HalfHours /\ QuietTimed'
  <2>1. quietTimer' \in 1..HalfHours /\ EndsQuiet(window, halfHour, quietTimer')
    BY <1>2, <1>4, <1>5, UntilFacts
  <2>2. quietTimer' \in 0..HalfHours /\ quietTimer' > 0
    BY <1>4, <2>1
  <2> QED
    BY <1>3, <2>1, <2>2 DEF QuietTimed
<1>6. ASSUME ~(held # {} /\ quietTimer = 0)
      PROVE  quietTimer' \in 0..HalfHours /\ QuietTimed'
  <2>1. quietTimer' = quietTimer
    BY <1>2, <1>6
  <2>2. quietTimer # 0 => quietTimer > 0
    BY <1>4
  <2>3. quietQ' # {} => quietTimer > 0
    BY <1>2, <1>6, <2>2 DEF HeldInv, QuietTimed
  <2> QED
    BY <1>3, <1>4, <2>1, <2>3 DEF HeldInv, QuietTimed
<1>7. PresenceHeld'
  BY <1>2, <1>3 DEF HeldInv, PresenceHeld, Up
<1>8. Delivered \subseteq ms /\ (Delivered # {} => ~gated \/ home')
  <2>1. ASSUME NEW m \in Delivered PROVE m \in ms /\ m \notin held /\ m \notin away
    <3>1. m \in Message /\ got'[m] > got[m] /\ got[m] \in Nat
      BY <1>1, <2>1 DEF Delivered, HeldTypeOK
    <3> QED
      BY <1>2, <3>1
  <2>2. Delivered # {} => ~(gated /\ ~home)
    BY <1>2, <2>1
  <2> QED
    BY <1>3, <2>1, <2>2
<1> QED
  BY <1>1, <1>2, <1>5, <1>6, <1>7, <1>8

-----------------------------------------------------------------------------
(* What a step leaves alone.                                               *)

LEMMA Kept ==
    ASSUME HeldInv
    PROVE  /\ HeldTypeOK /\ QuietTimed /\ PresenceHeld /\ StopsInOrder /\ CyclesInOrder /\ Timely
           /\ \A m \in Message : m.kind = "finish" /\ m \notin excused => Followed(m)
           /\ HalfHours \in Nat \ {0} /\ MaxCycles \in Nat
BY Hours, HeldAssumption DEF HeldInv, FinishFollowed

LEMMA ClocksStay ==
    ASSUME HeldInv, UNCHANGED <<halfHour, window, quietTimer>>, quietQ' \subseteq quietQ
    PROVE  QuietTimed'
BY Kept DEF QuietTimed

LEMMA PresenceStays ==
    ASSUME HeldInv, UNCHANGED <<gated, home>>, presQ' \subseteq presQ, Up' => Up
    PROVE  PresenceHeld'
BY Kept DEF PresenceHeld

LEMMA FollowedStays ==
    ASSUME NEW m, Followed(m), UNCHANGED <<phase, keeping, restoring, restore, heldFile>>,
           m \in told' <=> m \in told, m \in quietQ' <=> m \in quietQ, m \in presQ' <=> m \in presQ,
           got'[m] = got[m]
    PROVE  Followed(m)'
BY DEF Followed, Queues, Filed

\* A step about which no "finished" hears.
LEMMA FinishesStay ==
    ASSUME HeldInv, UNCHANGED fileVars, excused \subseteq excused',
           \A m \in Message : m.kind = "finish" =>
               /\ m \in told' <=> m \in told
               /\ m \in quietQ' <=> m \in quietQ
               /\ m \in presQ' <=> m \in presQ
               /\ got'[m] = got[m]
    PROVE  FinishFollowed' /\ StopsInOrder'
<1>1. UNCHANGED <<phase, keeping, restoring, restore, heldFile>>
  BY DEF fileVars
<1>2. ASSUME NEW m \in Message, m.kind = "finish", m \notin excused' PROVE Followed(m)'
  BY <1>1, <1>2, Kept, FollowedStays
<1>3. StopsInOrder'
  BY <1>1, Kept DEF StopsInOrder
<1> QED
  BY <1>2, <1>3 DEF FinishFollowed

LEMMA CyclesStay ==
    ASSUME HeldInv, UNCHANGED <<cyc, busy, ending, clean, emptied>>,
           \A m \in told' : m.kind = "finish" => m \in told
    PROVE  CyclesInOrder'
BY Kept DEF CyclesInOrder, Over

LEMMA NoDelivery == ASSUME HeldTypeOK, got' = got PROVE Delivered = {}
BY DEF Delivered, HeldTypeOK

-----------------------------------------------------------------------------
(* The cycles.                                                             *)

LEMMA BeginCycleStep == ASSUME HeldInv, BeginCycle PROVE HeldInv' /\ OnTime
<1>1. /\ ~busy /\ cyc < MaxCycles /\ cyc' = cyc + 1 /\ busy' = TRUE /\ clean' = 0
      /\ UNCHANGED <<halfHour, window, home, gated, quietQ, quietTimer, presQ, fileVars, ending, told,
                     got, excused, stray, emptied>>
  BY DEF BeginCycle, envNow
<1>2. UNCHANGED <<phase, keeping, restoring, restore, heldFile>>
  BY <1>1 DEF fileVars
<1>3. cyc \in Nat /\ MaxCycles \in Nat /\ cyc' \in 0..MaxCycles /\ \A c \in 1..cyc : c \in 1..cyc' /\ c # cyc'
  BY <1>1, Kept DEF HeldTypeOK
<1>4. HeldTypeOK'
  BY <1>1, <1>2, <1>3, Kept DEF HeldTypeOK
<1>5. QuietTimed' /\ PresenceHeld'
  BY <1>1, <1>2, ClocksStay, PresenceStays DEF Up
<1>6. FinishFollowed' /\ StopsInOrder'
  BY <1>1, FinishesStay
<1>7. CyclesInOrder'
  <2>1. \A c : Over(c) => Over(c)'
    BY <1>1, <1>3 DEF Over
  <2>2. cyc' > 0 /\ cyc' \notin ending'
    BY <1>1, <1>3, Kept DEF HeldTypeOK
  <2> QED
    BY <1>1, <2>1, <2>2, Kept DEF CyclesInOrder
<1>8. Timely'
  BY <1>1, <1>2, Kept DEF Timely, Queues, Filed
<1> QED
  BY <1>1, <1>4, <1>5, <1>6, <1>7, <1>8, Kept, NoDelivery DEF HeldInv, OnTime

\* The announcements of the cycle under way, and the reminder of the one that is clean.
LEMMA TellsStep ==
    ASSUME HeldInv, NEW m \in Message, m.kind # "finish",
           m.kind # "clean" => m.cyc = cyc /\ busy,
           m.kind = "clean" => m.cyc \notin emptied,
           Up, told' = told \union {m}, Dispatch({m}, TRUE, quietQ, presQ),
           UNCHANGED <<envNow, fileVars, cycVars, excused, stray, emptied>>
    PROVE  HeldInv' /\ OnTime
<1> DEFINE held == ToQuiet({m}, TRUE)
           away == ToPresence({m}, TRUE)
<1>0. HeldTypeOK /\ {m} \in SUBSET Message /\ quietQ \in SUBSET Message /\ presQ \in SUBSET Message
  BY Kept DEF HeldTypeOK
<1>1. UNCHANGED <<phase, keeping, restoring, restore, heldFile, cyc, busy, ending, clean, halfHour, window,
                  home, gated, excused, stray, emptied, fileVars>>
  BY DEF fileVars, cycVars, envNow
<1>2. /\ held \subseteq {m} /\ away \subseteq {m}
      /\ \A x \in held : x.kind \in QuietKinds
      /\ quietQ' = quietQ \union held
      /\ presQ' \subseteq presQ \union away
      /\ \A x \in presQ : x.kind # "live" => x \in presQ'
      /\ \A x \in Message : got'[x] = IF x \in {m} /\ x \notin held /\ x \notin away
                                      THEN got[x] + 1 ELSE got[x]
  BY <1>0, Dispatched
<1> HIDE DEF held, away
<1>3. /\ quietQ' \in SUBSET Message /\ presQ' \in SUBSET Message
      /\ quietTimer' \in 0..HalfHours /\ got' \in [Message -> Nat]
      /\ QuietTimed' /\ PresenceHeld'
      /\ Delivered \subseteq {m} /\ (Delivered # {} => ~gated \/ home')
  BY <1>0, <1>1, DispatchedClocks
<1>4. HeldTypeOK'
  BY <1>0, <1>1, <1>3 DEF HeldTypeOK
<1>5. FinishFollowed' /\ StopsInOrder'
  <2>1. \A x \in Message : x.kind = "finish" =>
               /\ x \in told' <=> x \in told
               /\ x \in quietQ' <=> x \in quietQ
               /\ x \in presQ' <=> x \in presQ
               /\ got'[x] = got[x]
    BY <1>2
  <2> QED
    BY <1>1, <2>1, FinishesStay
<1>6. CyclesInOrder'
  BY <1>1, CyclesStay
<1>7. Timely'
  BY <1>1, <1>2, Kept, Messages DEF Timely, Queues, Filed
<1>8. OnTime
  BY <1>1, <1>3, Messages DEF OnTime
<1> QED
  BY <1>3, <1>4, <1>5, <1>6, <1>7, <1>8 DEF HeldInv

LEMMA AnnounceStep ==
    ASSUME HeldInv, NEW kind \in {"start", "pre", "live"}, Announce(kind)
    PROVE  HeldInv' /\ OnTime
<1> DEFINE m == [kind |-> kind, cyc |-> cyc]
<1>1. /\ Up /\ busy /\ told' = told \union {m} /\ Dispatch({m}, TRUE, quietQ, presQ)
      /\ UNCHANGED <<envNow, fileVars, cycVars, excused, stray, emptied>>
  BY DEF Announce, Tells
<1>2. cyc \in 1..MaxCycles
  BY <1>1, Kept DEF HeldTypeOK, CyclesInOrder
<1>3. m \in Message /\ m.kind = kind /\ m.cyc = cyc
  BY <1>2, Messages
<1> HIDE DEF m
<1> QED
  BY <1>1, <1>3, TellsStep

LEMMA RemindStep == ASSUME HeldInv, Remind PROVE HeldInv' /\ OnTime
<1> DEFINE m == [kind |-> "clean", cyc |-> clean]
<1>1. /\ Up /\ clean # 0 /\ told' = told \union {m} /\ Dispatch({m}, TRUE, quietQ, presQ)
      /\ UNCHANGED <<envNow, fileVars, cycVars, excused, stray, emptied>>
  BY DEF Remind, Tells
<1>2. clean \in 1..MaxCycles /\ clean \notin emptied
  BY <1>1, Kept DEF HeldTypeOK, CyclesInOrder
<1>3. m \in Message /\ m.kind = "clean" /\ m.cyc = clean
  BY <1>2, Messages
<1> HIDE DEF m
<1> QED
  BY <1>1, <1>2, <1>3, TellsStep

LEMMA EndCycleStep == ASSUME HeldInv, EndCycle \/ DropCycle PROVE HeldInv' /\ OnTime
<1>1. /\ busy /\ busy' = FALSE
      /\ \/ ending' = ending \union {cyc} /\ stray' = stray
         \/ ending' = ending /\ stray' = stray \union {cyc}
      /\ UNCHANGED <<halfHour, window, home, gated, quietQ, quietTimer, presQ, fileVars, cyc, clean, told,
                     got, excused, emptied>>
  BY DEF EndCycle, DropCycle, envNow
<1>2. UNCHANGED <<phase, keeping, restoring, restore, heldFile>>
  BY <1>1 DEF fileVars
<1>3. cyc \in 1..cyc
  BY <1>1, Kept DEF HeldTypeOK, CyclesInOrder
<1>4. HeldTypeOK'
  BY <1>1, <1>2, <1>3, Kept DEF HeldTypeOK
<1>5. QuietTimed' /\ PresenceHeld'
  BY <1>1, <1>2, ClocksStay, PresenceStays DEF Up
<1>6. FinishFollowed' /\ StopsInOrder'
  BY <1>1, FinishesStay
<1>7. CyclesInOrder'
  <2>1. \A c : Over(c) => Over(c)'
    BY <1>1 DEF Over
  <2> QED
    BY <1>1, <2>1, Kept DEF CyclesInOrder
<1>8. Timely'
  BY <1>1, <1>2, Kept DEF Timely, Queues, Filed
<1> QED
  BY <1>1, <1>4, <1>5, <1>6, <1>7, <1>8, Kept, NoDelivery DEF HeldInv, OnTime

LEMMA CycleTailStep ==
    ASSUME HeldInv, NEW c \in ending, NEW finished \in BOOLEAN, CycleTail(c, finished)
    PROVE  HeldInv' /\ OnTime
<1> DEFINE f == [kind |-> "finish", cyc |-> c]
           ms == IF finished THEN {f} ELSE {}
           same == c = cyc
           q == IF same THEN PurgedQuiet(quietQ) ELSE quietQ
           p == IF same THEN PurgedPresence(presQ) ELSE presQ
           held == ToQuiet(ms, TRUE)
           away == ToPresence(ms, TRUE)
<1>1. /\ Up /\ ending' = ending \ {c} /\ told' = told \union ms
      /\ stray' = IF same THEN stray ELSE stray \union {c}
      /\ Dispatch(ms, TRUE, q, p)
      /\ clean' = IF same THEN IF finished THEN c ELSE 0 ELSE clean
      /\ UNCHANGED <<envNow, fileVars, cyc, busy, excused, emptied>>
  BY DEF CycleTail
<1>2. UNCHANGED <<phase, keeping, restoring, restore, heldFile, halfHour, window, home, gated>>
  BY <1>1 DEF fileVars, envNow
<1>3. c \in 1..cyc /\ c \in 1..MaxCycles /\ (same => ~busy) /\ ~Over(c)
  BY Kept DEF HeldTypeOK, CyclesInOrder, Over
<1>4. f \in Message /\ f.kind = "finish" /\ f.cyc = c
  BY <1>3, Messages
<1>5. f \notin told
  BY <1>3, <1>4, Kept DEF CyclesInOrder
<1> HIDE DEF f
<1>6. ms \in SUBSET Message /\ \A m \in ms : m = f
  BY <1>4
<1>7. /\ q \in SUBSET quietQ /\ p \in SUBSET presQ /\ q \in SUBSET Message /\ p \in SUBSET Message
      /\ \A m \in quietQ : m.kind # "pre" => m \in q
      /\ \A m \in presQ : m.kind \notin {"live", "start", "pre"} => m \in p
      /\ same => \A m \in q \union p : m.kind \in {"finish", "clean", "live", "start"}
      /\ same => \A m \in p : m.kind \notin {"live", "start"}
  BY Kept, Messages DEF PurgedQuiet, PurgedPresence, HeldTypeOK
<1> HIDE DEF q, p, ms
<1>8. /\ quietQ' \in SUBSET Message /\ presQ' \in SUBSET Message
      /\ quietTimer' \in 0..HalfHours /\ got' \in [Message -> Nat]
      /\ QuietTimed' /\ PresenceHeld'
      /\ Delivered \subseteq ms /\ (Delivered # {} => ~gated \/ home')
  BY <1>1, <1>2, <1>6, <1>7, DispatchedClocks
<1>9. /\ held \subseteq ms /\ away \subseteq ms /\ held \intersect away = {}
      /\ \A m \in held : m.kind \in QuietKinds
      /\ quietQ' = q \union held
      /\ presQ' \subseteq p \union away /\ away \subseteq presQ'
      /\ \A m \in p : m.kind # "live" => m \in presQ'
      /\ \A m \in Message : got'[m] = IF m \in ms /\ m \notin held /\ m \notin away
                                      THEN got[m] + 1 ELSE got[m]
  BY <1>1, <1>6, <1>7, Kept, Dispatched
<1> HIDE DEF held, away
<1>10. HeldTypeOK'
  <2>1. clean' \in 0..MaxCycles /\ ending' \in SUBSET (1..cyc)
    BY <1>1, <1>3, Kept DEF HeldTypeOK
  <2>2. told' \in SUBSET Message
    BY <1>1, <1>6, Kept DEF HeldTypeOK
  <2> QED
    BY <1>1, <1>2, <1>8, <2>1, <2>2, Kept DEF HeldTypeOK
<1>11. ASSUME NEW m \in Message, m.kind = "finish", m \notin excused' PROVE Followed(m)'
  <2>1. Followed(m)
    BY <1>1, <1>11, Kept
  <2>2. CASE m \notin ms
    <3>1. /\ m \in told' <=> m \in told
          /\ m \in quietQ' <=> m \in quietQ
          /\ m \in presQ' <=> m \in presQ
          /\ got'[m] = got[m]
      BY <1>1, <1>7, <1>9, <1>11, <2>2
    <3> QED
      BY <1>2, <2>1, <3>1, FollowedStays
  <2>3. CASE m \in ms
    <3>1. /\ m \notin told /\ m \in told' /\ m \notin Queues \union Filed \union keeping /\ got[m] = 0
      BY <1>1, <1>5, <1>6, <2>1, <2>3 DEF Followed
    <3>2. m \notin q /\ m \notin p
      BY <1>7, <3>1 DEF Queues
    <3>3. /\ m \in quietQ' <=> m \in held
          /\ m \in presQ' <=> m \in away
          /\ ~(m \in held /\ m \in away)
          /\ got'[m] = IF m \in held \/ m \in away THEN 0 ELSE 1
      BY <1>9, <2>3, <3>1, <3>2
    <3>4. m \notin Filed' /\ m \notin keeping'
      BY <1>2, <3>1 DEF Filed
    <3> QED
      BY <1>2, <3>1, <3>3, <3>4 DEF Followed, Queues, Filed
  <2> QED
    BY <2>2, <2>3
<1>12. StopsInOrder'
  BY <1>2, Kept DEF StopsInOrder
<1>13. CyclesInOrder'
  <2>1. \A x : Over(x) => Over(x)'
    BY <1>1 DEF Over
  <2>2. Over(c)'
    BY <1>1, <1>3 DEF Over
  <2>3. \A m \in told' : m.kind = "finish" => Over(m.cyc)'
    BY <1>1, <1>4, <1>6, <2>1, <2>2, Kept DEF CyclesInOrder
  <2>4. clean' # 0 => Over(clean)' /\ clean' \notin emptied'
    BY <1>1, <1>3, <2>1, <2>2, Kept DEF CyclesInOrder
  <2> QED
    BY <1>1, <2>1, <2>3, <2>4, Kept DEF CyclesInOrder
<1>14. Timely'
  <2>1. ASSUME NEW m \in Queues'
        PROVE  /\ m.kind \in {"start", "pre", "live"} =>
                     (m.cyc = cyc' /\ busy') \/ m.cyc \in ending' \union stray'
               /\ m.kind = "clean" => m.cyc \notin emptied'
    <3>1. CASE m \in ms
      BY <1>4, <1>6, <3>1
    <3>2. CASE m \notin ms
      <4>1. m \in q \/ m \in p
        BY <1>9, <2>1, <3>2 DEF Queues
      <4>2. m \in Queues /\ (m \in q => m.kind \in QuietKinds)
        BY <1>7, <4>1, Kept DEF Queues, Timely
      <4>3. same => m.kind \notin {"start", "pre", "live"}
        BY <1>7, <4>1, <4>2 DEF QuietKinds
      <4>4. /\ m.kind \in {"start", "pre", "live"} =>
                     (m.cyc = cyc /\ busy) \/ m.cyc \in ending \union stray
            /\ m.kind = "clean" => m.cyc \notin emptied
        BY <4>2, Kept DEF Timely
      <4> QED
        BY <1>1, <4>3, <4>4
    <3> QED
      BY <3>1, <3>2
  <2>2. \A m \in quietQ' : m.kind \in QuietKinds
    BY <1>7, <1>9, Kept DEF Timely
  <2> QED
    BY <1>2, <2>1, <2>2, Kept DEF Timely, Filed
<1>15. OnTime
  BY <1>4, <1>6, <1>8 DEF OnTime
<1> QED
  BY <1>8, <1>10, <1>11, <1>12, <1>13, <1>14, <1>15 DEF HeldInv, FinishFollowed

LEMMA UnloadedStep == ASSUME HeldInv, Unloaded PROVE HeldInv' /\ OnTime
<1>1. /\ clean # 0 /\ clean' = 0 /\ emptied' = emptied \union {clean}
      /\ quietQ' = {m \in quietQ : m.kind # "clean"}
      /\ presQ' = {m \in presQ : m.kind # "clean"}
      /\ UNCHANGED <<halfHour, window, home, gated, quietTimer, fileVars, cyc, busy, ending, told, got,
                     excused, stray>>
  BY DEF Unloaded, envNow
<1>2. UNCHANGED <<phase, keeping, restoring, restore, heldFile>>
  BY <1>1 DEF fileVars
<1>3. HeldTypeOK'
  BY <1>1, <1>2, Kept DEF HeldTypeOK
<1>4. QuietTimed' /\ PresenceHeld'
  BY <1>1, <1>2, ClocksStay, PresenceStays DEF Up
<1>5. FinishFollowed' /\ StopsInOrder'
  BY <1>1, FinishesStay
<1>6. CyclesInOrder'
  BY <1>1, Kept DEF CyclesInOrder, Over
<1>7. Timely'
  BY <1>1, <1>2, Kept DEF Timely, Queues, Filed
<1> QED
  BY <1>1, <1>3, <1>4, <1>5, <1>6, <1>7, Kept, NoDelivery DEF HeldInv, OnTime

-----------------------------------------------------------------------------
(* The day, and who is home.                                               *)

\* What a release delivers is nowhere else, unless it is excused.
LEMMA ReleasedOnce ==
    ASSUME HeldInv, Up, NEW sent \in SUBSET Queues, NEW m \in Message, m.kind = "finish",
           excused' = Doubled(sent), m \notin excused', m \in sent,
           m \notin quietQ', m \notin presQ', got'[m] = got[m] + 1, told' = told,
           UNCHANGED <<phase, keeping, restoring, restore, heldFile>>
    PROVE  Followed(m)'
<1>1. m \notin excused /\ (phase # "up" => m \notin keeping \union heldFile)
  BY DEF Doubled, Up, HeldInv, HeldTypeOK
<1>2. Followed(m) /\ (phase = "up" => keeping = {})
  BY <1>1, Kept DEF StopsInOrder
<1>3. m \notin keeping /\ m \notin Filed /\ got[m] = 0 /\ m \in told
  BY <1>1, <1>2 DEF Followed, Filed
<1> QED
  BY <1>3 DEF Followed, Queues, Filed

LEMMA HalfHourStep == ASSUME HeldInv, HalfHour PROVE HeldInv' /\ OnTime
<1> DEFINE away == ToPresence(quietQ, FALSE)
           sent == quietQ \ away
<1>1. /\ Up /\ halfHour' = (halfHour + 1) % HalfHours
      /\ quietTimer' = IF quietTimer = 0 THEN 0 ELSE quietTimer - 1
      /\ quietTimer # 1 => UNCHANGED <<quietQ, presQ, got, excused>>
      /\ quietTimer = 1 =>
            /\ quietQ' = {} /\ presQ' = Queued(presQ, away) /\ excused' = Doubled(sent)
            /\ got' = [m \in Message |-> IF m \in sent THEN got[m] + 1 ELSE got[m]]
      /\ UNCHANGED <<window, home, gated, fileVars, cyc, busy, ending, clean, told, stray, emptied>>
  BY DEF HalfHour, HalfHours, cycVars
<1>2. UNCHANGED <<phase, keeping, restoring, restore, heldFile>>
  BY <1>1 DEF fileVars
<1>3. /\ away = IF gated /\ ~home THEN quietQ ELSE {}
      /\ away \subseteq quietQ /\ sent \subseteq quietQ
  BY DEF ToPresence, ToQuiet
<1> HIDE DEF away, sent
<1>4. /\ HalfHours \in Nat \ {0} /\ halfHour \in 0..(HalfHours - 1) /\ quietTimer \in 0..HalfHours
      /\ window \in Windows
  BY Kept DEF HeldTypeOK
<1>5. halfHour' \in 0..(HalfHours - 1)
  <2> DEFINE t == halfHour + 1
  <2>1. t \in 0..(2 * HalfHours - 1) /\ t \in Nat
    BY <1>4
  <2> HIDE DEF t
  <2>2. t % HalfHours = IF t < HalfHours THEN t ELSE t - HalfHours
    BY <1>4, <2>1, Wraps
  <2>3. halfHour' = t % HalfHours
    BY <1>1 DEF t
  <2> QED
    BY <1>4, <2>1, <2>2, <2>3
<1>6. quietTimer' \in 0..HalfHours
  BY <1>1, <1>4
<1>7. /\ presQ' \subseteq presQ \union away
      /\ \A m \in presQ : m.kind # "live" => m \in presQ'
      /\ quietTimer = 1 => away \subseteq presQ'
      /\ quietTimer # 1 => presQ' = presQ
  BY <1>1, <1>3 DEF Queued
<1>8. /\ got' \in [Message -> Nat]
      /\ quietTimer = 1 => \A m \in Message : got'[m] = IF m \in sent THEN got[m] + 1 ELSE got[m]
  BY <1>1, Kept DEF HeldTypeOK
<1>9. quietQ' \subseteq quietQ /\ (quietTimer = 1 => quietQ' = {})
  BY <1>1
<1>10. HeldTypeOK'
  <2>1. quietQ' \in SUBSET Message /\ presQ' \in SUBSET Message
    BY <1>3, <1>7, <1>9, Kept DEF HeldTypeOK
  <2> QED
    BY <1>1, <1>2, <1>5, <1>6, <1>8, <2>1, Kept DEF HeldTypeOK
<1>11. QuietTimed'
  <2>1. CASE quietTimer = 0
    <3>1. quietQ' = {} /\ quietTimer' = 0
      BY <1>1, <1>9, <2>1, Kept DEF QuietTimed
    <3> QED
      BY <3>1 DEF QuietTimed
  <2>2. CASE quietTimer = 1
    <3>1. quietQ' = {} /\ quietTimer' = 0
      BY <1>1, <1>9, <2>2
    <3> QED
      BY <3>1 DEF QuietTimed
  <2>3. CASE quietTimer \in 2..HalfHours
    <3>1. EndsQuiet(window, halfHour, quietTimer)
      BY <2>3, <1>4, Kept DEF QuietTimed
    <3>2. EndsQuiet(window, halfHour', quietTimer - 1)
      BY <1>1, <1>4, <2>3, <3>1, TimerRuns
    <3>3. quietTimer' = quietTimer - 1 /\ quietTimer' > 0
      BY <1>1, <1>4, <2>3
    <3> QED
      BY <1>1, <3>2, <3>3 DEF QuietTimed
  <2> QED
    BY <1>4, <2>1, <2>2, <2>3
<1>12. PresenceHeld'
  BY <1>1, <1>2, <1>3, <1>7, Kept DEF PresenceHeld, Up
<1>13. ASSUME NEW m \in Message, m.kind = "finish", m \notin excused' PROVE Followed(m)'
  <2>1. m \notin excused
    BY <1>1, <1>13 DEF Doubled
  <2>2. Followed(m)
    BY <1>13, <2>1, Kept
  <2>3. CASE quietTimer # 1
    BY <1>1, <1>2, <2>2, <2>3, FollowedStays
  <2>4. CASE quietTimer = 1 /\ m \in sent
    <3>1. m \notin presQ /\ m \notin away
      BY <1>3, <2>2, <2>4 DEF Followed, sent
    <3>2. m \notin quietQ' /\ m \notin presQ' /\ got'[m] = got[m] + 1 /\ sent \in SUBSET Queues
      BY <1>3, <1>7, <1>8, <1>9, <2>4, <3>1 DEF Queues
    <3>3. excused' = Doubled(sent) /\ told' = told /\ Up
      BY <1>1, <2>4
    <3> QED
      BY <1>2, <1>13, <2>4, <3>2, <3>3, ReleasedOnce
  <2>5. CASE quietTimer = 1 /\ m \notin sent
    <3>1. /\ m \notin quietQ' /\ (m \in presQ' <=> m \in Queues) /\ got'[m] = got[m]
      BY <1>3, <1>7, <1>8, <1>9, <1>13, <2>5 DEF Queues, sent
    <3> QED
      BY <1>1, <1>2, <2>2, <3>1 DEF Followed, Queues, Filed
  <2> QED
    BY <2>3, <2>4, <2>5
<1>14. StopsInOrder' /\ CyclesInOrder'
  BY <1>1, <1>2, Kept, CyclesStay DEF StopsInOrder
<1>15. Timely'
  <2>1. Queues' \subseteq Queues
    BY <1>3, <1>7, <1>9 DEF Queues
  <2> QED
    BY <1>1, <1>2, <1>9, <2>1, Kept DEF Timely, Filed
<1>16. OnTime
  <2>1. CASE quietTimer # 1
    BY <1>1, <2>1, Kept, NoDelivery DEF OnTime
  <2>2. CASE quietTimer = 1
    <3>1. ASSUME NEW m \in Delivered PROVE m \in sent
      <4>1. m \in Message /\ got'[m] > got[m] /\ got[m] \in Nat
        BY Kept DEF Delivered, HeldTypeOK
      <4> QED
        BY <1>8, <2>2, <4>1
    <3>2. sent # {} => ~(gated /\ ~home)
      BY <1>3 DEF sent
    <3>3. \A m \in Delivered : m \in Queues
      BY <1>3, <3>1 DEF Queues
    <3> QED
      BY <1>1, <3>1, <3>2, <3>3, Kept DEF OnTime, Timely
  <2> QED
    BY <2>1, <2>2
<1> QED
  BY <1>10, <1>11, <1>12, <1>13, <1>14, <1>15, <1>16 DEF HeldInv, FinishFollowed

LEMMA LeavesStep == ASSUME HeldInv, Leaves PROVE HeldInv' /\ OnTime
<1>1. /\ home' = FALSE
      /\ UNCHANGED <<halfHour, window, gated, quietQ, quietTimer, presQ, fileVars, cyc, busy, ending, clean,
                     told, got, excused, stray, emptied>>
  BY DEF Leaves, cycVars
<1>2. UNCHANGED <<phase, keeping, restoring, restore, heldFile>>
  BY <1>1 DEF fileVars
<1>3. HeldTypeOK'
  BY <1>1, <1>2, Kept DEF HeldTypeOK
<1>4. QuietTimed' /\ PresenceHeld'
  BY <1>1, <1>2, Kept, ClocksStay DEF PresenceHeld, Up
<1>5. FinishFollowed' /\ StopsInOrder'
  BY <1>1, FinishesStay
<1>6. CyclesInOrder'
  BY <1>1, CyclesStay
<1>7. Timely'
  BY <1>1, <1>2, Kept DEF Timely, Queues, Filed
<1> QED
  BY <1>1, <1>3, <1>4, <1>5, <1>6, <1>7, Kept, NoDelivery DEF HeldInv, OnTime

LEMMA ArrivesStep == ASSUME HeldInv, Arrives PROVE HeldInv' /\ OnTime
<1>1. /\ home' = TRUE
      /\ ~Up \/ ~gated => UNCHANGED <<presQ, got, excused>>
      /\ Up /\ gated => /\ presQ' = {} /\ excused' = Doubled(presQ)
                        /\ got' = [m \in Message |-> IF m \in presQ THEN got[m] + 1 ELSE got[m]]
      /\ UNCHANGED <<halfHour, window, gated, quietQ, quietTimer, fileVars, cyc, busy, ending, clean,
                     told, stray, emptied>>
  BY DEF Arrives, cycVars
<1>2. UNCHANGED <<phase, keeping, restoring, restore, heldFile>>
  BY <1>1 DEF fileVars
<1>3. /\ presQ' \subseteq presQ /\ got' \in [Message -> Nat]
      /\ Up /\ gated => \A m \in Message : got'[m] = IF m \in presQ THEN got[m] + 1 ELSE got[m]
  BY <1>1, Kept DEF HeldTypeOK
<1>4. HeldTypeOK'
  BY <1>1, <1>2, <1>3, Kept DEF HeldTypeOK
<1>5. QuietTimed'
  BY <1>1, ClocksStay
<1>6. PresenceHeld'
  BY <1>1, <1>2, Kept DEF PresenceHeld, Up
<1>7. ASSUME NEW m \in Message, m.kind = "finish", m \notin excused' PROVE Followed(m)'
  <2>1. m \notin excused
    BY <1>1, <1>7 DEF Doubled
  <2>2. Followed(m)
    BY <1>7, <2>1, Kept
  <2>3. CASE Up /\ gated /\ m \in presQ
    <3>1. m \notin quietQ' /\ m \notin presQ' /\ got'[m] = got[m] + 1 /\ presQ \in SUBSET Queues
      BY <1>1, <1>3, <2>2, <2>3 DEF Followed, Queues
    <3> QED
      BY <1>1, <1>2, <1>7, <2>3, <3>1, ReleasedOnce
  <2>4. CASE ~(Up /\ gated /\ m \in presQ)
    <3>1. (m \in presQ' <=> m \in presQ) /\ got'[m] = got[m]
      BY <1>1, <1>3, <2>4
    <3> QED
      BY <1>1, <1>2, <2>2, <3>1, FollowedStays
  <2> QED
    BY <2>3, <2>4
<1>8. StopsInOrder' /\ CyclesInOrder'
  BY <1>1, <1>2, Kept, CyclesStay DEF StopsInOrder
<1>9. Timely'
  BY <1>1, <1>2, <1>3, Kept DEF Timely, Queues, Filed
<1>10. OnTime
  <2>1. ASSUME NEW m \in Delivered PROVE m \in Queues
    <3>1. m \in Message /\ got'[m] > got[m] /\ got[m] \in Nat
      BY Kept DEF Delivered, HeldTypeOK
    <3> QED
      BY <1>1, <1>3, <3>1 DEF Queues
  <2> QED
    BY <1>1, <2>1, Kept DEF OnTime, Timely
<1> QED
  BY <1>4, <1>5, <1>6, <1>7, <1>8, <1>9, <1>10 DEF HeldInv, FinishFollowed

LEMMA SetGatedStep == ASSUME HeldInv, NEW on \in BOOLEAN, SetGated(on) PROVE HeldInv' /\ OnTime
<1>1. /\ phase = "up" /\ gated' = on /\ presQ' = IF on THEN presQ ELSE {}
      /\ gated # on
      /\ excused' = IF on THEN excused ELSE excused \union presQ
      /\ UNCHANGED <<halfHour, window, home, quietQ, quietTimer, fileVars, cyc, busy, ending, clean,
                     told, got, stray, emptied>>
  BY DEF SetGated, cycVars
<1>2. UNCHANGED <<phase, keeping, restoring, restore, heldFile>>
  BY <1>1 DEF fileVars
<1>3. HeldTypeOK'
  BY <1>1, <1>2, Kept DEF HeldTypeOK
<1>4. QuietTimed'
  BY <1>1, ClocksStay
<1>5. PresenceHeld'
  BY <1>1, <1>2, Kept DEF PresenceHeld, Up, HeldTypeOK
<1>6. ASSUME NEW m \in Message, m.kind = "finish", m \notin excused' PROVE Followed(m)'
  <2>1. m \notin excused /\ (m \in presQ' <=> m \in presQ)
    BY <1>1, <1>6
  <2> QED
    BY <1>1, <1>2, <1>6, <2>1, Kept, FollowedStays
<1>7. StopsInOrder' /\ CyclesInOrder'
  BY <1>1, <1>2, Kept, CyclesStay DEF StopsInOrder
<1>8. Timely'
  BY <1>1, <1>2, Kept DEF Timely, Queues, Filed
<1> QED
  BY <1>1, <1>3, <1>4, <1>5, <1>6, <1>7, <1>8, Kept, NoDelivery DEF HeldInv, OnTime, FinishFollowed

-----------------------------------------------------------------------------
(* Stops and starts.                                                       *)

LEMMA BeginStopStep == ASSUME HeldInv, NEW unload \in BOOLEAN, BeginStop(unload) PROVE HeldInv' /\ OnTime
<1>1. /\ phase = "up" /\ phase' = IF unload THEN "unloading" ELSE "saving"
      /\ keeping' = ToKeep
      /\ excused' = excused \union restoring \union (IF ToKeep # {} THEN heldFile \ ToKeep ELSE {})
      /\ \/ ending' = {} /\ stray' = stray \union ending /\ restoring' = {} /\ restore' = "over"
         \/ UNCHANGED <<ending, stray, restoring, restore>>
      /\ UNCHANGED <<halfHour, window, home, gated, quietQ, quietTimer, presQ, heldFile, cyc, busy, clean,
                     told, got, emptied>>
  BY DEF BeginStop, envNow
<1>2. keeping = {}
  BY <1>1, Kept DEF StopsInOrder
<1>3. ToKeep \subseteq Queues /\ (\A m \in ToKeep : m.kind \notin TransientKinds)
      /\ \A m \in Queues : m.kind = "finish" => m \in ToKeep
  BY DEF ToKeep, Queues, TransientKinds
<1>4. HeldTypeOK'
  <2>1. keeping' \in SUBSET Message /\ ending' \in SUBSET (1..cyc) /\ restoring' \in SUBSET Message
    BY <1>1, <1>3, Kept DEF HeldTypeOK, Queues
  <2> QED
    BY <1>1, <2>1, Kept DEF HeldTypeOK
<1>5. QuietTimed' /\ PresenceHeld'
  BY <1>1, ClocksStay, PresenceStays DEF Up
<1>6. ASSUME NEW m \in Message, m.kind = "finish", m \notin excused' PROVE Followed(m)'
  <2>1. m \notin excused /\ m \notin restoring /\ m \notin restoring'
        /\ (m \in heldFile /\ ToKeep # {} => m \in ToKeep)
    BY <1>1, <1>6
  <2>2. Followed(m)
    BY <1>6, <2>1, Kept
  <2>3. /\ m \in keeping' <=> m \in Queues
        /\ m \in Queues' <=> m \in Queues
        /\ m \in Filed' <=> m \in heldFile
    BY <1>1, <1>3, <1>6, <2>1 DEF Queues, Filed
  <2> QED
    BY <1>1, <1>2, <2>1, <2>2, <2>3 DEF Followed, Queues, Filed
<1>7. StopsInOrder'
  BY <1>1, Kept DEF StopsInOrder
<1>8. CyclesInOrder'
  <2>1. ending' \subseteq ending
    BY <1>1
  <2> QED
    BY <1>1, <2>1, Kept DEF CyclesInOrder, Over
<1>9. Timely'
  <2>1. ending \union stray \subseteq ending' \union stray' /\ restoring' \subseteq restoring
    BY <1>1
  <2>2. Queues' = Queues /\ Filed' \subseteq Filed
    BY <1>1, <2>1 DEF Queues, Filed
  <2> QED
    BY <1>1, <1>3, <2>1, <2>2, Kept DEF Timely
<1> QED
  BY <1>1, <1>4, <1>5, <1>6, <1>7, <1>8, <1>9, Kept, NoDelivery DEF HeldInv, OnTime, FinishFollowed

LEMMA SavedStep == ASSUME HeldInv, Saved PROVE HeldInv' /\ OnTime
<1>1. /\ phase \in {"saving", "unloading"}
      /\ heldFile' = IF keeping # {} THEN keeping ELSE heldFile
      /\ phase' = IF phase = "saving" THEN "saved" ELSE "down"
      /\ UNCHANGED <<halfHour, window, home, gated, quietQ, quietTimer, presQ, keeping, restoring, restore,
                     cyc, busy, ending, clean, told, got, excused, stray, emptied>>
  BY DEF Saved, envNow, cycVars
<1>2. HeldTypeOK'
  BY <1>1, Kept DEF HeldTypeOK
<1>3. QuietTimed' /\ PresenceHeld'
  BY <1>1, ClocksStay, PresenceStays DEF Up
<1>4. ASSUME NEW m \in Message, m.kind = "finish", m \notin excused' PROVE Followed(m)'
  <2>1. Followed(m)
    BY <1>1, <1>4, Kept
  <2>2. m \in heldFile' <=> m \in IF keeping # {} THEN keeping ELSE heldFile
    BY <1>1
  <2> QED
    BY <1>1, <2>1, <2>2 DEF Followed, Queues, Filed
<1>5. StopsInOrder' /\ CyclesInOrder'
  BY <1>1, Kept, CyclesStay DEF StopsInOrder
<1>6. Timely'
  BY <1>1, Kept DEF Timely, Queues, Filed
<1> QED
  BY <1>1, <1>2, <1>3, <1>4, <1>5, <1>6, Kept, NoDelivery DEF HeldInv, OnTime, FinishFollowed

LEMMA ExitStep == ASSUME HeldInv, Exit PROVE HeldInv' /\ OnTime
<1>1. /\ phase' = "down"
      /\ UNCHANGED <<halfHour, window, home, gated, quietQ, quietTimer, presQ, heldFile, keeping, restoring,
                     restore, cyc, busy, ending, clean, told, got, excused, stray, emptied>>
  BY DEF Exit, envNow, cycVars
<1>2. HeldTypeOK'
  BY <1>1, Kept DEF HeldTypeOK
<1>3. QuietTimed' /\ PresenceHeld'
  BY <1>1, ClocksStay, PresenceStays DEF Up
<1>4. ASSUME NEW m \in Message, m.kind = "finish", m \notin excused' PROVE Followed(m)'
  BY <1>1, <1>4, Kept DEF Followed, Queues, Filed
<1>5. StopsInOrder' /\ CyclesInOrder'
  BY <1>1, Kept, CyclesStay DEF StopsInOrder
<1>6. Timely'
  BY <1>1, Kept DEF Timely, Queues, Filed
<1> QED
  BY <1>1, <1>2, <1>3, <1>4, <1>5, <1>6, Kept, NoDelivery DEF HeldInv, OnTime, FinishFollowed

LEMMA BootStep ==
    ASSUME HeldInv, NEW later \in 0..(2 * HoursPerDay - 1), NEW someone \in BOOLEAN, NEW resumed \in BOOLEAN,
           Boot(later, someone, resumed)
    PROVE  HeldInv' /\ OnTime
<1> DEFINE lost == quietQ \union presQ \union restoring
<1>1. /\ phase' = "up" /\ restore' = "due" /\ halfHour' = later /\ home' = someone
      /\ busy' = resumed /\ (resumed => busy) /\ ending' = {} /\ clean' = 0
      /\ excused' = excused \union (lost \ heldFile)
      /\ stray' = stray \union ending \union (IF resumed THEN {} ELSE {cyc})
      /\ quietQ' = {} /\ quietTimer' = 0 /\ presQ' = {} /\ restoring' = {} /\ keeping' = {}
      /\ UNCHANGED <<window, gated, heldFile, cyc, told, got, emptied>>
  BY DEF Boot
<1>2. HeldTypeOK'
  <2>1. later \in 0..(HalfHours - 1) /\ 0 \in 0..HalfHours /\ 0 \in 0..MaxCycles
    BY Kept DEF HalfHours
  <2> QED
    BY <1>1, <2>1, Kept DEF HeldTypeOK
<1>3. QuietTimed' /\ PresenceHeld' /\ StopsInOrder'
  BY <1>1 DEF QuietTimed, PresenceHeld, StopsInOrder
<1>4. ASSUME NEW m \in Message, m.kind = "finish", m \notin excused' PROVE Followed(m)'
  <2>1. m \notin excused /\ (m \in Queues \union restoring => m \in heldFile)
    BY <1>1, <1>4 DEF Queues
  <2>2. Followed(m)
    BY <1>4, <2>1, Kept
  <2> QED
    BY <1>1, <2>1, <2>2 DEF Followed, Queues, Filed
<1>5. CyclesInOrder'
  <2>1. \A c : Over(c) => Over(c)'
    BY <1>1 DEF Over
  <2> QED
    BY <1>1, <2>1, Kept DEF CyclesInOrder
<1>6. Timely'
  BY <1>1, Kept DEF Timely, Queues, Filed
<1> QED
  BY <1>1, <1>2, <1>3, <1>4, <1>5, <1>6, Kept, NoDelivery DEF HeldInv, OnTime, FinishFollowed

-----------------------------------------------------------------------------
(* The restore.                                                            *)

LEMMA ReadFileStep == ASSUME HeldInv, ReadFile PROVE HeldInv' /\ OnTime
<1>1. /\ Up /\ restore = "due" /\ restoring' = heldFile
      /\ restore' = IF heldFile = {} THEN "over" ELSE "read"
      /\ UNCHANGED <<halfHour, window, home, gated, quietQ, quietTimer, presQ, heldFile, phase, keeping,
                     cyc, busy, ending, clean, told, got, excused, stray, emptied>>
  BY DEF ReadFile, envNow, cycVars
<1>2. restoring = {}
  BY <1>1, Kept DEF StopsInOrder
<1>3. HeldTypeOK'
  BY <1>1, Kept DEF HeldTypeOK
<1>4. QuietTimed' /\ PresenceHeld'
  BY <1>1, ClocksStay, PresenceStays DEF Up
<1>5. ASSUME NEW m \in Message, m.kind = "finish", m \notin excused' PROVE Followed(m)'
  BY <1>1, <1>2, <1>5, Kept DEF Followed, Queues, Filed
<1>6. StopsInOrder' /\ CyclesInOrder'
  BY <1>1, Kept, CyclesStay DEF StopsInOrder
<1>7. Timely'
  BY <1>1, Kept DEF Timely, Queues, Filed
<1> QED
  BY <1>1, <1>3, <1>4, <1>5, <1>6, <1>7, Kept, NoDelivery DEF HeldInv, OnTime, FinishFollowed

LEMMA RemoveFileStep == ASSUME HeldInv, RemoveFile PROVE HeldInv' /\ OnTime
<1>1. /\ Up /\ restore = "read" /\ heldFile' = {} /\ restore' = "removed"
      /\ excused' = excused \union (heldFile \ restoring)
      /\ UNCHANGED <<halfHour, window, home, gated, quietQ, quietTimer, presQ, phase, keeping, restoring,
                     cyc, busy, ending, clean, told, got, stray, emptied>>
  BY DEF RemoveFile, envNow, cycVars
<1>2. HeldTypeOK'
  BY <1>1, Kept DEF HeldTypeOK
<1>3. QuietTimed' /\ PresenceHeld'
  BY <1>1, ClocksStay, PresenceStays DEF Up
<1>4. ASSUME NEW m \in Message, m.kind = "finish", m \notin excused' PROVE Followed(m)'
  <2>1. Followed(m) /\ (m \in Filed <=> m \in restoring)
    BY <1>1, <1>4, Kept DEF Filed
  <2> QED
    BY <1>1, <2>1 DEF Followed, Queues, Filed
<1>5. StopsInOrder' /\ CyclesInOrder'
  BY <1>1, Kept, CyclesStay DEF StopsInOrder
<1>6. Timely'
  BY <1>1, Kept DEF Timely, Queues, Filed
<1> QED
  BY <1>1, <1>2, <1>3, <1>4, <1>5, <1>6, Kept, NoDelivery DEF HeldInv, OnTime, FinishFollowed

LEMMA RedispatchStep ==
    ASSUME HeldInv, NEW tooOld \in BOOLEAN, Redispatch(tooOld)
    PROVE  HeldInv' /\ OnTime
<1> DEFINE ms == IF tooOld THEN {} ELSE Wanted(restoring)
           held == ToQuiet(ms, TRUE)
           away == ToPresence(ms, TRUE)
<1>1. /\ Up /\ restore = "removed" /\ restore' = "over" /\ restoring' = {}
      /\ Dispatch(ms, TRUE, quietQ, presQ)
      /\ excused' = excused \union (IF tooOld THEN restoring
                                    ELSE restoring \intersect (quietQ \union presQ \union keeping))
      /\ stray' = stray \union ({m.cyc : m \in restoring} \ {cyc})
      /\ UNCHANGED <<envNow, heldFile, phase, keeping, cyc, busy, ending, clean, told, emptied>>
  BY DEF Redispatch, cycVars
<1>2. UNCHANGED <<halfHour, window, home, gated>>
  BY <1>1 DEF envNow
<1>3. /\ ms \subseteq restoring
      /\ \A m \in ms : m.kind \in CycleKinds => busy
      /\ ~tooOld => \A m \in restoring : m.kind = "finish" => m \in ms
  BY DEF Wanted, CycleKinds
<1>4. ms \in SUBSET Message /\ quietQ \in SUBSET Message /\ presQ \in SUBSET Message
  BY <1>3, Kept DEF HeldTypeOK
<1> HIDE DEF ms
<1>5. /\ quietQ' \in SUBSET Message /\ presQ' \in SUBSET Message
      /\ quietTimer' \in 0..HalfHours /\ got' \in [Message -> Nat]
      /\ QuietTimed' /\ PresenceHeld'
      /\ Delivered \subseteq ms /\ (Delivered # {} => ~gated \/ home')
  BY <1>1, <1>4, DispatchedClocks
<1>6. /\ held \subseteq ms /\ away \subseteq ms /\ held \intersect away = {}
      /\ \A m \in held : m.kind \in QuietKinds
      /\ quietQ' = quietQ \union held
      /\ presQ' \subseteq presQ \union away /\ away \subseteq presQ'
      /\ \A m \in presQ : m.kind # "live" => m \in presQ'
      /\ \A m \in Message : got'[m] = IF m \in ms /\ m \notin held /\ m \notin away
                                      THEN got[m] + 1 ELSE got[m]
  BY <1>1, <1>4, Kept, Dispatched
<1> HIDE DEF held, away
<1>7. HeldTypeOK'
  BY <1>1, <1>2, <1>5, Kept DEF HeldTypeOK
<1>8. ASSUME NEW m \in Message, m.kind = "finish", m \notin excused' PROVE Followed(m)'
  <2>1. m \notin excused
    BY <1>1, <1>8
  <2>2. Followed(m)
    BY <1>8, <2>1, Kept
  <2>3. CASE m \notin restoring
    <3>1. /\ m \in quietQ' <=> m \in quietQ
          /\ m \in presQ' <=> m \in presQ
          /\ got'[m] = got[m]
      BY <1>3, <1>6, <1>8, <2>3
    <3> QED
      BY <1>1, <2>2, <2>3, <3>1 DEF Followed, Queues, Filed
  <2>4. CASE m \in restoring
    <3>1. ~tooOld /\ m \in ms /\ m \notin Queues /\ m \notin keeping
      BY <1>1, <1>3, <1>8, <2>4 DEF Queues
    <3>2. m \notin heldFile /\ got[m] = 0 /\ m \in told
      BY <1>1, <2>2, <2>4, <3>1 DEF Followed, Filed
    <3>3. /\ m \in quietQ' <=> m \in held
          /\ m \in presQ' <=> m \in away
          /\ ~(m \in held /\ m \in away)
          /\ got'[m] = IF m \in held \/ m \in away THEN 0 ELSE 1
      BY <1>6, <3>1, <3>2 DEF Queues
    <3> QED
      BY <1>1, <3>1, <3>2, <3>3 DEF Followed, Queues, Filed
  <2> QED
    BY <2>3, <2>4
<1>9. StopsInOrder'
  BY <1>1, Kept DEF StopsInOrder
<1>10. CyclesInOrder'
  BY <1>1, CyclesStay
<1>11. ASSUME NEW m \in ms
       PROVE  /\ m.kind \in {"start", "pre", "live"} => (m.cyc = cyc /\ busy) \/ m.cyc \in ending \union stray'
              /\ m.kind # "clean"
  <2>1. m \in restoring /\ m.kind \notin TransientKinds
    BY <1>3, Kept DEF Timely, Filed
  <2>2. m.cyc = cyc \/ m.cyc \in stray'
    BY <1>1, <2>1
  <2> QED
    BY <1>3, <2>1, <2>2 DEF TransientKinds, CycleKinds
<1>12. Timely'
  <2>1. ASSUME NEW m \in Queues'
        PROVE  /\ m.kind \in {"start", "pre", "live"} =>
                     (m.cyc = cyc' /\ busy') \/ m.cyc \in ending' \union stray'
               /\ m.kind = "clean" => m.cyc \notin emptied'
    <3>1. m \in ms \/ m \in Queues
      BY <1>6, <2>1 DEF Queues
    <3>2. stray \subseteq stray'
      BY <1>1
    <3> QED
      BY <1>1, <1>11, <3>1, <3>2, Kept DEF Timely
  <2>2. \A m \in quietQ' : m.kind \in QuietKinds
    BY <1>6, Kept DEF Timely
  <2> QED
    BY <1>1, <2>1, <2>2, Kept DEF Timely, Filed
<1>13. OnTime
  BY <1>5, <1>11 DEF OnTime
<1> QED
  BY <1>5, <1>7, <1>8, <1>9, <1>10, <1>12, <1>13 DEF HeldInv, FinishFollowed

-----------------------------------------------------------------------------
LEMMA HeldStart == HeldInit => HeldInv
<1> SUFFICES ASSUME HeldInit PROVE HeldInv
  OBVIOUS
<1>1. HeldTypeOK
  <2>1. 0 \in 0..HalfHours /\ 0 \in 0..MaxCycles /\ halfHour \in 0..(HalfHours - 1)
    BY Hours, HeldAssumption DEF HeldInit, HalfHours
  <2> QED
    BY <2>1 DEF HeldInit, HeldTypeOK
<1>2. QuietTimed /\ PresenceHeld /\ StopsInOrder /\ CyclesInOrder /\ Timely
  BY DEF HeldInit, QuietTimed, PresenceHeld, StopsInOrder, CyclesInOrder, Timely, Queues, Filed
<1>3. FinishFollowed
  BY DEF HeldInit, FinishFollowed, Followed, Queues, Filed
<1> QED
  BY <1>1, <1>2, <1>3 DEF HeldInv

LEMMA HeldStep == HeldInv /\ [HeldNext]_heldVars => HeldInv' /\ (OnTime \/ UNCHANGED heldVars)
<1> SUFFICES ASSUME HeldInv, [HeldNext]_heldVars
             PROVE  HeldInv' /\ (OnTime \/ UNCHANGED heldVars)
  OBVIOUS
<1>1. BeginCycle \/ EndCycle \/ DropCycle \/ Remind \/ Unloaded => HeldInv' /\ OnTime
  BY BeginCycleStep, EndCycleStep, RemindStep, UnloadedStep
<1>2. \A kind \in {"start", "pre", "live"} : Announce(kind) => HeldInv' /\ OnTime
  BY AnnounceStep
<1>3. \A c \in ending, finished \in BOOLEAN : CycleTail(c, finished) => HeldInv' /\ OnTime
  BY CycleTailStep
<1>4. HalfHour \/ Leaves \/ Arrives => HeldInv' /\ OnTime
  BY HalfHourStep, LeavesStep, ArrivesStep
<1>5. \A b \in BOOLEAN : SetGated(b) \/ BeginStop(b) \/ Redispatch(b) => HeldInv' /\ OnTime
  BY SetGatedStep, BeginStopStep, RedispatchStep
<1>6. Saved \/ Exit \/ ReadFile \/ RemoveFile => HeldInv' /\ OnTime
  BY SavedStep, ExitStep, ReadFileStep, RemoveFileStep
<1>7. \A t \in 0..(2 * HoursPerDay - 1), h \in BOOLEAN, r \in BOOLEAN : Boot(t, h, r) => HeldInv' /\ OnTime
  BY BootStep
<1>8. CASE UNCHANGED heldVars
  BY <1>8 DEF heldVars, HeldInv, HeldTypeOK, QuietTimed, PresenceHeld, FinishFollowed, Followed,
              StopsInOrder, CyclesInOrder, Over, Timely, Queues, Filed, Up
<1> QED
  BY <1>1, <1>2, <1>3, <1>4, <1>5, <1>6, <1>7, <1>8 DEF HeldNext

\* No notification that quiet hours or an empty house hold back (manager.py) is
\* forgotten or waits for an event that has passed, and a "finished" is delivered
\* once, whatever stops, crashes and restores come between, but for the windows of
\* the code that excused names.
THEOREM HeldAreSentOnce == HeldSpec => []HeldAndSentOnce
<1>1. HeldInit => HeldInv
  BY HeldStart
<1>2. HeldInv /\ [HeldNext]_heldVars => HeldInv'
  BY HeldStep
<1>3. HeldInv => HeldAndSentOnce
  <2> SUFFICES ASSUME HeldInv PROVE HeldAndSentOnce
    OBVIOUS
  <2>1. HeldIsAwaited
    BY Kept DEF HeldIsAwaited, QuietTimed, PresenceHeld, EndsQuiet, HalfHours
  <2>2. FinishOnce
    <3> SUFFICES ASSUME NEW m \in told, m.kind = "finish", m \notin excused
                 PROVE  /\ got[m] <= 1
                        /\ got[m] = 1 \/ m \in quietQ \union presQ \union restoring \union heldFile \union keeping
      BY DEF FinishOnce
    <3>1. Followed(m)
      BY Kept DEF HeldTypeOK
    <3> QED
      BY <3>1 DEF Followed, Queues, Filed
  <2> QED
    BY <2>1, <2>2 DEF HeldAndSentOnce
<1> QED
  BY <1>1, <1>2, <1>3, PTL DEF HeldSpec

\* Nothing is delivered to an empty house or about what is over (manager.py): each
\* release goes through the presence gate, and each end purges what belonged to it.
THEOREM DeliveriesAreInTime == HeldSpec => DeliveredInTime
<1>1. HeldInit => HeldInv
  BY HeldStart
<1>2. HeldInv /\ [HeldNext]_heldVars => HeldInv'
  BY HeldStep
<1>3. HeldInv /\ [HeldNext]_heldVars =>
        [/\ Delivered # {} => ~gated \/ home'
         /\ \A m \in Delivered :
            /\ m.kind \in {"start", "pre", "live"} => (m.cyc = cyc /\ busy) \/ m.cyc \in ending \union stray'
            /\ m.kind = "clean" => m.cyc \notin emptied]_heldVars
  BY HeldStep DEF OnTime
<1> QED
  BY <1>1, <1>2, <1>3, PTL DEF HeldSpec, DeliveredInTime
=============================================================================
