------------------------- MODULE ManagerTicks_proof -------------------------
(***************************************************************************)
(* Proofs about what the appliance manager concludes from one tick to the  *)
(* next: that a dead sensor ends a cycle (Watchdog), for every budget,     *)
(* limit and restart time, and what the programme shown has earned         *)
(* (ProgramSwitch), for every match_persistence, scores and thresholds.    *)
(*                                                                         *)
(* Watchdog: the manager never takes the silence for shorter than it is,   *)
(* and for longer only when it missed a report; the clocks of a cycle that *)
(* ended are cleared, so none is left for the next to begin with.          *)
(*                                                                         *)
(* ProgramSwitch: the counters of the code outlive what they count.        *)
(* decide_switch locks one at match_persistence, and the user's choice     *)
(* leaves them alone.  The inductive invariant compares the one the next   *)
(* win continues with the streak: it is no more, unless it was locked, and *)
(* no less up to match_persistence.  Between the two halves of a tick it   *)
(* says the same of the persistence that the tick has read.                *)
(***************************************************************************)
EXTENDS Watchdog, ProgramSwitch, TLAPS

-----------------------------------------------------------------------------
(* The watchdog.                                                           *)

\* Nothing of a cycle that ended is left for the next one to begin with.
EndedClean(x) ==
    ~x.open => ~x.unread /\ ~x.paused /\ x.real = 0 /\ x.any = 0

\* What the manager knows of the silence of an open cycle: its clock is the sensor's but
\* for a report it missed, and then there is a sensor and no restored value is waiting
\* to be compared with it.
ClocksKnown(x) ==
    x.open => /\ x.why = "none"
              /\ x.heard <= x.real /\ (~x.unread => x.heard = x.real)
              /\ x.unread => x.restored = "none" /\ x.live # "gone"

Silent(x) == x.why \in {"stale", "ghost", "offline"} => x.heard > x.owed

\* What holds of the state, and but for the last part of the states a step passes through.
Known(x) == x \in Watched /\ EndedClean(x) /\ ClocksKnown(x) /\ Silent(x)

\* The last reading that was counted, if any was, is no older than the sensor's last word.
Sound(x) == Known(x) /\ (x.open => x.any <= x.real)

WatchInv == Sound(w)
-----------------------------------------------------------------------------
\* The operators a step is composed of.

LEMMA Natural ==
    /\ Oldest \in Nat /\ Expected \in Nat /\ Leeway \in Nat /\ SilenceBudget \in Nat
    /\ PausedBudget \in Nat /\ GhostSilence \in Nat /\ ActiveTimeout \in Nat
    /\ Late \in Nat /\ Gaps \subseteq Nat
    /\ SilenceBudget <= PausedBudget /\ PausedBudget < Oldest /\ Expected + Leeway < Oldest
BY WatchdogAssumption

LEMMA OlderFacts ==
    ASSUME NEW a \in WatchAges, NEW b \in WatchAges, NEW dt \in Nat
    PROVE  /\ Older(a, dt) \in WatchAges
           /\ a <= b => Older(a, dt) <= Older(b, dt)
           /\ Older(NotRead, dt) = NotRead
BY Natural DEF Older, WatchAges, NotRead

LEMMA AgedSound ==
    ASSUME NEW x, Sound(x), x.open, NEW dt \in Nat
    PROVE  Sound(Aged(x, dt)) /\ Aged(x, dt).open /\ Aged(x, dt).unread = x.unread
<1> DEFINE y == Aged(x, dt)
<1>1. /\ Older(x.age, dt) \in WatchAges /\ Older(x.real, dt) \in WatchAges
      /\ Older(x.heard, dt) \in WatchAges /\ Older(x.any, dt) \in WatchAges \union {NotRead}
  BY OlderFacts DEF Sound, Known, Watched
<1>2. y \in Watched
  BY <1>1 DEF Aged, Sound, Known, Watched
<1>3. ClocksKnown(y) /\ y.any <= y.real
  <2>1. y.heard <= y.real /\ (~y.unread => y.heard = y.real)
    BY OlderFacts DEF Aged, Sound, Known, Watched, ClocksKnown
  <2>2. y.any <= y.real
    <3>1. CASE x.any = NotRead
      BY <3>1, <1>1, OlderFacts DEF Aged, Sound, Known, Watched, WatchAges, NotRead
    <3>2. CASE x.any # NotRead
      BY <3>2, OlderFacts DEF Aged, Sound, Known, Watched, ClocksKnown
    <3> QED
      BY <3>1, <3>2
  <2> QED
    BY <2>1, <2>2 DEF Aged, Sound, Known, Watched, ClocksKnown
<1> QED
  BY <1>2, <1>3 DEF Aged, Sound, Known, Watched, EndedClean, Silent, ClocksKnown

LEMMA IdleFacts == 0 \in WatchAges /\ Idle \in Watched
BY Natural DEF WatchAges, Idle, Watched, PowerLevels

LEMMA EndedSound ==
    ASSUME NEW x \in Watched, NEW why \in {"detector", "zombie", "ghost", "stale", "offline", "dropped"},
           NEW owed \in WatchAges, why \in {"stale", "ghost", "offline"} => x.heard > owed
    PROVE  Sound(EndedBy(x, why, owed)) /\ ~EndedBy(x, why, owed).open
<1>1. EndedBy(x, why, owed) \in Watched
  BY IdleFacts DEF EndedBy, Watched
<1>2. /\ ~EndedBy(x, why, owed).open /\ ~EndedBy(x, why, owed).unread
      /\ ~EndedBy(x, why, owed).paused
      /\ EndedBy(x, why, owed).real = 0 /\ EndedBy(x, why, owed).any = 0
  BY DEF EndedBy, Idle
<1>3. Silent(EndedBy(x, why, owed))
  BY DEF EndedBy, Idle, Silent
<1> QED
  BY <1>1, <1>2, <1>3 DEF Sound, Known, EndedClean, ClocksKnown

\* A reading ends the cycle or leaves everything but the quiet time.
LEMMA FedKnown ==
    ASSUME NEW x, Known(x), x.open, NEW power \in PowerLevels, NEW y \in Fed(x, power)
    PROVE  /\ Known(y)
           /\ y.open => /\ y.unread = x.unread /\ y.real = x.real /\ y.heard = x.heard
                        /\ y.any = x.any /\ y.restored = x.restored /\ y.live = x.live
           /\ ~y.open => ~y.unread /\ y.restored = "none" /\ y.why = "detector"
<1>1. \/ \E b \in BOOLEAN : y = [x EXCEPT !.waiting = b]
      \/ y = EndedBy(x, "detector", 0)
  BY DEF Fed, Known, Watched
<1>2. CASE y = EndedBy(x, "detector", 0)
  BY <1>2, EndedSound, IdleFacts, ZenonT(60) DEF Sound, Known, EndedBy, Idle
<1>3. ASSUME NEW b \in BOOLEAN, y = [x EXCEPT !.waiting = b]
      PROVE  Known(y) /\ y.open /\ y.unread = x.unread /\ y.real = x.real /\ y.heard = x.heard
             /\ y.any = x.any /\ y.restored = x.restored /\ y.live = x.live
  BY <1>3 DEF Known, Watched, EndedClean, ClocksKnown, Silent
<1> QED
  BY <1>1, <1>2, <1>3

\* A reading that is noted is the last.
LEMMA NotedSound ==
    ASSUME NEW x, Known(x), ~x.unread, NEW power \in PowerLevels
    PROVE  Sound(Noted(x, power)) /\ ~Noted(x, power).unread
<1>1. CASE x.open
  <2>1. Noted(x, power) = [x EXCEPT !.any = 0, !.cached = power, !.outage = FALSE]
    BY <1>1 DEF Noted
  <2>2. Noted(x, power) \in Watched
    BY <2>1, IdleFacts DEF Known, Watched
  <2>3. 0 <= x.real
    BY Natural DEF Known, Watched, WatchAges
  <2> QED
    BY <1>1, <2>1, <2>2, <2>3 DEF Sound, Known, Watched, EndedClean, ClocksKnown, Silent
<1>2. CASE ~x.open
  BY <1>2 DEF Noted, Sound, Known, Watched, EndedClean, ClocksKnown, Silent
<1> QED
  BY <1>1, <1>2

LEMMA ResyncedSound ==
    ASSUME NEW x, Sound(x), x.open, NEW y \in Resynced(x)
    PROVE  Sound(y) /\ ~y.unread
<1>1. CASE x.live = "gone"
  BY <1>1 DEF Resynced, Sound, Known, ClocksKnown, Watched
<1>2. CASE x.live # "gone" /\ ~x.unread
  <2>1. y = [x EXCEPT !.cached = x.live] /\ x.live \in PowerLevels
    BY <1>2 DEF Resynced, Sound, Known, Watched
  <2> QED
    BY <1>2, <2>1 DEF Sound, Known, Watched, EndedClean, ClocksKnown, Silent
<1>3. CASE x.live # "gone" /\ x.unread
  <2>1. x.live \in PowerLevels
    BY <1>3 DEF Sound, Known, Watched
  <2>2. PICK z \in Fed(x, x.live) :
          y = Noted([z EXCEPT !.unread = FALSE, !.real = IF z.open THEN z.heard ELSE 0], x.live)
    BY <1>3 DEF Resynced
  <2> DEFINE u == [z EXCEPT !.unread = FALSE, !.real = IF z.open THEN z.heard ELSE 0]
  <2>3. Known(z)
    BY <2>1, <2>2, FedKnown DEF Sound
  <2>4. u \in Watched
    BY <2>3, IdleFacts, ZenonT(60) DEF Known, Watched
  <2>5. Known(u) /\ ~u.unread
    BY <2>3, <2>4 DEF Known, Watched, EndedClean, ClocksKnown, Silent, WatchAges
  <2> QED
    BY <2>1, <2>2, <2>5, NotedSound
<1> QED
  BY <1>1, <1>2, <1>3

LEMMA ResyncedRead ==
    ASSUME NEW x, Sound(x), x.open, x.any # NotRead, NEW y \in Resynced(x), y.open
    PROVE  y.any # NotRead
<1>1. 0 # NotRead
  BY DEF NotRead
<1>2. CASE x.live = "gone" \/ ~x.unread
  BY <1>2 DEF Resynced, Sound, Known, Watched
<1>3. CASE x.live # "gone" /\ x.unread
  <2>1. PICK z \in Fed(x, x.live) :
          y = Noted([z EXCEPT !.unread = FALSE, !.real = IF z.open THEN z.heard ELSE 0], x.live)
    BY <1>3 DEF Resynced
  <2>2. z \in Watched
    BY <1>3, <2>1, FedKnown DEF Sound, Known, Watched
  <2> QED
    BY <1>1, <2>1, <2>2 DEF Noted, Watched
<1> QED
  BY <1>2, <1>3

LEMMA KeptAliveSound ==
    ASSUME NEW x, Sound(x), x.open, NEW y \in KeptAlive(x)
    PROVE  Sound(y)
<1> DEFINE power == IF x.live = "gone" THEN "quiet" ELSE x.live
<1>1. power \in PowerLevels
  BY DEF Sound, Known, Watched, PowerLevels
<1>2. PICK z \in IF x.outage THEN {x} ELSE Fed(x, power) :
          y = IF z.open THEN [z EXCEPT !.any = 0, !.cached = power] ELSE z
  BY DEF KeptAlive
<1> HIDE DEF power
<1>3. Sound(z)
  BY <1>1, <1>2, FedKnown DEF Sound
<1>4. CASE z.open
  <2>1. y = [z EXCEPT !.any = 0, !.cached = power]
    BY <1>2, <1>4
  <2>2. y \in Watched
    BY <2>1, <1>1, <1>3, IdleFacts DEF Sound, Known, Watched
  <2>3. 0 <= z.real
    BY <1>3, Natural DEF Sound, Known, Watched, WatchAges
  <2> QED
    BY <1>3, <1>4, <2>1, <2>2, <2>3 DEF Sound, Known, Watched, EndedClean, ClocksKnown, Silent
<1> QED
  BY <1>2, <1>3, <1>4

LEMMA BudgetNatural == ASSUME NEW x \in Watched PROVE Budget(x) \in Nat
BY Natural DEF Budget, Watched, WatchAges

\* An age over a limit is in range, and so is the limit.
LEMMA Exceeded ==
    ASSUME NEW limit \in Nat, NEW age \in WatchAges, age > limit
    PROVE  limit \in WatchAges
BY Natural DEF WatchAges

\* The checks of a tick, with no report waiting: the silence they end a cycle for is the
\* sensor's.
LEMMA CheckedSound ==
    ASSUME NEW x, Sound(x), x.open, ~x.unread, x.any # NotRead, NEW y \in Checked(x)
    PROVE  Sound(y)
<1>1. x \in Watched /\ x.real \in WatchAges /\ x.any \in WatchAges
  BY DEF Sound, Known, Watched
<1>2. x.heard = x.real /\ x.any <= x.real
  BY DEF Sound, Known, ClocksKnown
<1>3. CASE y = EndedBy(x, "zombie", 0)
  BY <1>1, <1>3, EndedSound, IdleFacts
<1>4. CASE IsGhost(x) /\ y = EndedBy(x, "ghost", GhostSilence)
  BY <1>1, <1>2, <1>4, EndedSound, Exceeded, Natural DEF IsGhost
<1>5. CASE x.real > Budget(x) /\ y = EndedBy(x, "stale", Budget(x))
  BY <1>1, <1>2, <1>5, EndedSound, Exceeded, BudgetNatural
<1>6. CASE x.any > ActiveTimeout /\ y = EndedBy(x, "offline", ActiveTimeout)
  <2>1. x.heard > ActiveTimeout
    BY <1>1, <1>2, <1>6, Natural DEF WatchAges
  <2> QED
    BY <1>1, <1>6, <2>1, EndedSound, Exceeded, Natural
<1>7. CASE y \in KeptAlive(x)
  BY <1>7, KeptAliveSound
<1>8. CASE y = [x EXCEPT !.any = 0]
  <2>1. y \in Watched
    BY <1>8, <1>1, IdleFacts DEF Watched
  <2>2. 0 <= x.real
    BY <1>1, Natural DEF WatchAges
  <2> QED
    BY <1>1, <1>8, <2>1, <2>2 DEF Sound, Known, Watched, EndedClean, ClocksKnown, Silent
<1>9. CASE y = x
  BY <1>9
<1> QED
  BY <1>3, <1>4, <1>5, <1>6, <1>7, <1>8, <1>9 DEF Checked

\* A report that repeats the value restored says nothing new; any other sets the clock.
LEMMA SeededKnown ==
    ASSUME NEW x, Known(x), x.open \/ x.why = "detector", NEW power \in PowerLevels
    PROVE  Known(Seeded(x, power)) /\ ~Seeded(x, power).unread
           /\ Seeded(x, power).open = x.open
<1>1. power # "none"
  BY DEF PowerLevels
<1>2. CASE x.open /\ x.restored = power
  BY <1>1, <1>2 DEF Seeded, Known, Watched, EndedClean, ClocksKnown, Silent
<1>3. CASE ~(x.open /\ x.restored = power)
  <2>1. Seeded(x, power) = [x EXCEPT !.restored = "none", !.unread = FALSE, !.real = 0, !.heard = 0]
    BY <1>3 DEF Seeded
  <2>2. Seeded(x, power) \in Watched
    BY <2>1, IdleFacts DEF Known, Watched
  <2> QED
    BY <2>1, <2>2, Natural DEF Known, Watched, EndedClean, ClocksKnown, Silent
<1> QED
  BY <1>2, <1>3

-----------------------------------------------------------------------------
\* The steps.

LEMMA StartInv == WatchInit => WatchInv
BY IdleFacts DEF WatchInit, WatchInv, Idle, Sound, Known, EndedClean, ClocksKnown, Silent

LEMMA TickInv == ASSUME WatchInv, NEW dt \in Nat, WatchTick(dt) PROVE WatchInv'
<1> DEFINE x == Aged(w, dt)
<1>1. Sound(x) /\ x.open
  BY AgedSound DEF WatchInv, WatchTick
<1>2. CASE x.any = NotRead
  BY <1>1, <1>2 DEF WatchTick, WatchInv
<1>3. CASE x.any # NotRead
  <2>1. PICK y \in Resynced(x) : IF ~y.open THEN w' = y ELSE \E z \in Checked(y) : w' = z
    BY <1>3 DEF WatchTick
  <2>2. Sound(y) /\ ~y.unread
    BY <1>1, <2>1, ResyncedSound
  <2>3. y.open => y.any # NotRead
    BY <1>1, <1>3, <2>1, ResyncedRead
  <2> QED
    BY <2>1, <2>2, <2>3, CheckedSound DEF WatchInv
<1> QED
  BY <1>2, <1>3

LEMMA ReportInv ==
    ASSUME WatchInv, NEW power \in PowerLevels, WatchReport(power) PROVE WatchInv'
<1> DEFINE x == [Seeded(w, power) EXCEPT !.live = power]
<1>1. Known(Seeded(w, power)) /\ ~Seeded(w, power).unread /\ Seeded(w, power).open
  BY SeededKnown DEF WatchInv, WatchReport, Sound
<1>2. Known(x) /\ ~x.unread /\ x.open
  BY <1>1 DEF Known, Watched, EndedClean, ClocksKnown, Silent
<1>3. PICK y \in Fed(x, power) : w' = Noted(y, power)
  BY DEF WatchReport, Spoken
<1>4. Known(y) /\ ~y.unread
  BY <1>2, FedKnown
<1> QED
  BY <1>3, <1>4, NotedSound DEF WatchInv

LEMMA IdleReportInv ==
    ASSUME WatchInv, NEW power \in PowerLevels, IdleReport(power) PROVE WatchInv'
<1>1. w \in Watched /\ ~w.open /\ ~w.unread /\ ~w.paused /\ w.real = 0 /\ w.any = 0
  BY DEF WatchInv, IdleReport, Sound, Known, EndedClean
<1>2. PICK near \in BOOLEAN :
          \/ w' = [w EXCEPT !.live = power, !.open = TRUE, !.near = near, !.cached = power,
                            !.outage = FALSE, !.heard = 0, !.why = "none", !.owed = 0]
          \/ w' = [w EXCEPT !.live = power, !.outage = FALSE, !.heard = 0,
                            !.why = "none", !.owed = 0]
  BY DEF IdleReport
<1> DEFINE shown == [w EXCEPT !.live = power, !.outage = FALSE, !.heard = 0, !.why = "none",
                              !.owed = 0]
<1>3. shown \in Watched
  BY <1>1, IdleFacts DEF Watched
<1>4. CASE w' = shown
  BY <1>1, <1>3, <1>4 DEF WatchInv, Sound, Known, Watched, EndedClean, ClocksKnown, Silent
<1>5. CASE w' = [shown EXCEPT !.open = TRUE, !.near = near, !.cached = power]
  <2>1. w' \in Watched
    BY <1>3, <1>5, ZenonT(60) DEF Watched
  <2> QED
    BY <1>1, <1>3, <1>5, <2>1
       DEF WatchInv, Sound, Known, Watched, EndedClean, ClocksKnown, Silent
<1> QED
  BY <1>1, <1>2, <1>4, <1>5 DEF Watched

LEMMA MissedInv ==
    ASSUME WatchInv, NEW power \in PowerLevels, MissedReport(power) PROVE WatchInv'
<1>1. w' \in Watched
  BY IdleFacts DEF WatchInv, Sound, Known, Watched, MissedReport
<1>2. 0 <= w.real /\ power # "gone"
  BY Natural DEF WatchInv, Sound, Known, Watched, WatchAges, PowerLevels
<1> QED
  BY <1>1, <1>2 DEF WatchInv, Sound, Known, Watched, EndedClean, ClocksKnown, Silent, MissedReport

LEMMA GoneInv == ASSUME WatchInv, SensorGone PROVE WatchInv'
<1>1. w' \in Watched
  <2>1. PICK heard \in WatchAges :
            w' = [w EXCEPT !.live = "gone", !.outage = TRUE, !.unread = FALSE, !.heard = heard]
    BY DEF WatchInv, Sound, Known, Watched, SensorGone
  <2> QED
    BY <2>1 DEF WatchInv, Sound, Known, Watched
<1>2. w.real \in Int
  BY Natural DEF WatchInv, Sound, Known, Watched, WatchAges
<1> QED
  BY <1>1, <1>2 DEF WatchInv, Sound, Known, Watched, EndedClean, ClocksKnown, Silent, SensorGone

LEMMA CommandInv ==
    ASSUME WatchInv, WatchPause \/ WatchResume \/ \E m, v \in BOOLEAN : WatchMatch(m, v)
    PROVE  WatchInv'
<1>1. CASE WatchPause
  BY <1>1 DEF WatchPause, WatchInv, Sound, Known, Watched, EndedClean, ClocksKnown, Silent
<1>2. CASE WatchResume
  BY <1>2 DEF WatchResume, WatchInv, Sound, Known, Watched, EndedClean, ClocksKnown, Silent
<1>3. ASSUME NEW m \in BOOLEAN, NEW v \in BOOLEAN, WatchMatch(m, v)
      PROVE  WatchInv'
  <2>1. (v \/ w.paused) \in BOOLEAN
    BY DEF WatchInv, Sound, Known, Watched
  <2> QED
    BY <1>3, <2>1 DEF WatchMatch, WatchInv, Sound, Known, Watched, EndedClean, ClocksKnown, Silent
<1> QED
  BY <1>1, <1>2, <1>3

LEMMA RestartInv ==
    ASSUME WatchInv, NEW gap \in Gaps, NEW power \in PowerLevels \union {"gone"},
           WatchRestart(gap, power)
    PROVE  WatchInv'
<1> DEFINE stopped == [w EXCEPT !.verified = w.paused]
           older == Aged(stopped, gap)
           x == [older EXCEPT !.live = power, !.any = NotRead, !.restored = w.cached,
                              !.cached = "quiet", !.outage = FALSE, !.near = FALSE,
                              !.heard = IF w.unread THEN older.real ELSE @,
                              !.unread = FALSE]
<1>1. Sound(stopped) /\ stopped.open /\ gap \in Nat
  BY Natural DEF WatchInv, WatchRestart, Sound, Known, Watched, EndedClean, ClocksKnown, Silent
<1>2. Sound(older) /\ older.open /\ older.unread = w.unread
  BY <1>1, AgedSound DEF WatchInv, Sound, Known, Watched
<1>3. older.real \in WatchAges /\ older.heard \in WatchAges
  BY <1>2 DEF Sound, Known, Watched
<1> HIDE DEF older
<1>4. x \in Watched
  <2>1. PICK heard \in WatchAges :
            x = [older EXCEPT !.live = power, !.any = NotRead, !.restored = w.cached,
                              !.cached = "quiet", !.outage = FALSE, !.near = FALSE,
                              !.heard = heard, !.unread = FALSE]
    BY <1>2, <1>3 DEF Sound, Known, Watched
  <2>2. w.cached \in PowerLevels /\ "quiet" \in PowerLevels
    BY DEF WatchInv, Sound, Known, Watched, PowerLevels
  <2> DEFINE y == [older EXCEPT !.live = power, !.any = NotRead, !.restored = w.cached]
  <2>3. y \in Watched
    BY <1>2, <2>2 DEF Sound, Known, Watched
  <2>4. x = [y EXCEPT !.cached = "quiet", !.outage = FALSE, !.near = FALSE, !.heard = heard,
                      !.unread = FALSE]
    BY <1>2, <2>1 DEF Sound, Known, Watched
  <2> QED
    BY <2>2, <2>3, <2>4 DEF Watched
<1>5. x.open /\ ~x.unread /\ x.why = "none" /\ x.heard = x.real /\ x.any = NotRead
  BY <1>2, <1>3 DEF Sound, Known, Watched, ClocksKnown
<1>6. Sound(x)
  BY <1>3, <1>4, <1>5, Natural
     DEF Sound, Known, Watched, EndedClean, ClocksKnown, Silent, NotRead, WatchAges
<1>7. \/ w' = EndedBy(x, "dropped", 0)
      \/ w' = x
      \/ power # "gone" /\ \E y \in Fed(x, power) : w' = Noted(Seeded(y, power), power)
  BY Zenon DEF WatchRestart, older
<1> HIDE DEF x
<1>8. CASE w' = EndedBy(x, "dropped", 0)
  BY <1>4, <1>8, EndedSound, IdleFacts DEF WatchInv
<1>9. CASE w' = x
  BY <1>6, <1>9 DEF WatchInv
<1>10. CASE power # "gone" /\ \E y \in Fed(x, power) : w' = Noted(Seeded(y, power), power)
  <2>1. PICK y \in Fed(x, power) : w' = Noted(Seeded(y, power), power)
    BY <1>10
  <2>2. Known(y) /\ (y.open \/ y.why = "detector")
    BY <1>5, <1>6, <1>10, FedKnown DEF Sound
  <2>3. Known(Seeded(y, power)) /\ ~Seeded(y, power).unread
    BY <1>10, <2>2, SeededKnown
  <2> QED
    BY <1>10, <2>1, <2>3, NotedSound DEF WatchInv
<1> QED
  BY <1>7, <1>8, <1>9, <1>10

-----------------------------------------------------------------------------
LEMMA WatchInvariant == WatchSpec => []WatchInv
<1>1. WatchInv /\ [WatchNext]_w => WatchInv'
  <2> SUFFICES ASSUME WatchInv, [WatchNext]_w PROVE WatchInv'
    OBVIOUS
  <2>1. CASE Ticks
    BY <2>1, TickInv, Natural DEF Ticks
  <2>2. CASE \E power \in PowerLevels :
                WatchReport(power) \/ IdleReport(power) \/ MissedReport(power)
    BY <2>2, ReportInv, IdleReportInv, MissedInv
  <2>3. CASE SensorGone
    BY <2>3, GoneInv
  <2>4. CASE WatchPause \/ WatchResume \/ \E m, v \in BOOLEAN : WatchMatch(m, v)
    BY <2>4, CommandInv
  <2>5. CASE \E gap \in Gaps, power \in PowerLevels \union {"gone"} : WatchRestart(gap, power)
    BY <2>5, RestartInv
  <2>6. CASE UNCHANGED w
    BY <2>6 DEF WatchInv
  <2> QED
    BY <2>1, <2>2, <2>3, <2>4, <2>5, <2>6 DEF WatchNext
<1> QED
  BY <1>1, StartInv, PTL DEF WatchSpec

\* The watchdog's ages, cached power and restored value stay what they are declared to be.
THEOREM WatchTyped == WatchSpec => []WatchTypeOK
<1>1. WatchInv => WatchTypeOK
  BY DEF WatchInv, Sound, Known, WatchTypeOK
<1> QED
  BY <1>1, WatchInvariant, PTL

\* The silence clock never runs behind the sensor: no keepalive, and no old value written
\* again after a restart, counts as its word (_seed_real_reading_clock).
THEOREM SilenceIsKnown == WatchSpec => []SilenceKnown
<1>1. WatchInv => SilenceKnown
  <2> SUFFICES ASSUME WatchInv, w.open PROVE w.real >= w.heard
    BY DEF SilenceKnown
  <2>1. w.real \in Int /\ w.heard \in Int /\ w.heard <= w.real
    BY Natural DEF WatchInv, Sound, Known, Watched, WatchAges, ClocksKnown
  <2> QED
    BY <2>1
<1> QED
  BY <1>1, WatchInvariant, PTL

\* A cycle the watchdog ended for silence had been silent for longer than it owed: no
\* missed report, outage, keepalive or restart makes it end one that spoke
\* (_watchdog_check_stuck_cycle, _resync_power_from_state).
THEOREM StaleWasSilent == WatchSpec => []StaleIsSilent
<1>1. WatchInv => StaleIsSilent
  BY DEF WatchInv, Sound, Known, Silent, StaleIsSilent
<1> QED
  BY <1>1, WatchInvariant, PTL

-----------------------------------------------------------------------------
(* The programme shown.                                                     *)

Switches ==
    [program : Profiles \union {"detecting"}, duration : Profiles \union {NoName},
     wins : [Profiles -> Nat], unmatch : Nat, candidate : Profiles \union {NoName},
     seen : [Profiles -> Nat], peak : [Profiles -> Nat]]

MatchTicks ==
    [at : {"idle", "matching", "aligning"}, name : Profiles \union {NoName, "detecting"},
     score : Nat, persistent : BOOLEAN, ambiguous : BOOLEAN, mismatch : BOOLEAN,
     decisive : BOOLEAN, dropped : BOOLEAN]

SwitchTypeOK ==
    /\ switch \in Switches
    /\ pinned \in BOOLEAN
    /\ tick \in MatchTicks
    /\ streak \in [Profiles -> Nat]
    /\ locked \in Profiles \union {NoName}

\* While no programme is shown no duration is expected.
EtaHolds(s) ==
    /\ s.duration \in {NoName, s.program}
    /\ s.program = "detecting" => s.duration = NoName

\* The count the next win continues is the streak, or was locked.
CountsHold(s, won, lock) ==
    \A p \in Profiles :
        /\ s.candidate = p => p = lock \/ s.wins[p] <= won[p]
        /\ won[p] > 0 => s.candidate = p /\ s.wins[p] >= Least(won[p], Persistence)

\* What consistency_override may go by.
TickHolds(t, won, lock) ==
    t.at = "aligning" =>
        /\ t.mismatch => t.name = NoName
        /\ t.persistent =>
               t.name \in Profiles /\ (t.dropped \/ t.name = lock \/ won[t.name] >= Persistence)

SwitchInv ==
    SwitchTypeOK /\ EtaHolds(switch) /\ CountsHold(switch, streak, locked)
    /\ TickHolds(tick, streak, locked)

-----------------------------------------------------------------------------
\* The constants, as the steps below use them.
LEMMA Limits == /\ Persistence \in Nat /\ Persistence > 0 /\ ambiguousFactor * Persistence \in Nat
                /\ ambiguousFactor * Persistence = Persistence + Persistence
BY SwitchAssumption DEF ambiguousFactor

LEMMA NoNames == /\ NoName \notin Profiles /\ "detecting" \notin Profiles /\ NoName # "detecting"
BY SwitchAssumption

LEMMA CappedIs ==
    ASSUME NEW n \in Nat
    PROVE  Capped(n) \in Nat /\ Capped(n) <= n
           /\ (Capped(n) = n \/ Capped(n) = Persistence + Persistence)
BY Limits DEF Capped, Least

LEMMA DurationIs ==
    ASSUME NEW p \in Profiles \union {"detecting", NoName}
    PROVE  /\ Duration(p) \in Profiles \union {NoName} /\ Duration(p) \in {NoName, p}
           /\ p \notin Profiles => Duration(p) = NoName
BY SwitchAssumption DEF Duration

\* begin_tick.  A result that a falling score made the programme lose, one that names a
\* programme, and one that names none.
LEMMA BegunIs ==
    ASSUME NEW s \in Switches, EtaHolds(s), NEW r \in Results
    PROVE  LET b == Begun(s, r)
               u == b.state
               t == b.tick
               p == r.name
           IN /\ u \in Switches /\ EtaHolds(u)
              /\ t \in MatchTicks /\ t.at = "aligning" /\ (t.mismatch => t.name = NoName)
              /\ t.score = ScoreOf(r, p)
              /\ \/ /\ p \in Profiles /\ p = s.program /\ t.name = "detecting" /\ ~t.persistent
                    /\ u.program = "detecting" /\ u.candidate = NoName
                 \/ /\ p \in Profiles /\ t.name = p /\ u.candidate = p
                    /\ u.program = s.program /\ u.duration = s.duration
                    /\ u.wins[p] = IF s.candidate = p THEN Capped(s.wins[p] + 1) ELSE 1
                    /\ t.persistent <=> u.wins[p] >= Persistence
                 \/ /\ p = NoName /\ t.name = NoName /\ ~t.persistent /\ u.candidate = NoName
                    /\ u.program = s.program /\ u.duration = s.duration
<1> DEFINE p == r.name
           diverges == p \in Profiles /\ p = s.program /\ Diverges(s, p, r.score[p])
           unmatch == IF diverges THEN s.unmatch + 1 ELSE s.unmatch
           reverted == diverges /\ unmatch >= Persistence
           name == IF reverted THEN "detecting" ELSE p
           v == IF reverted THEN Unshown(s, p) ELSE [s EXCEPT !.unmatch = unmatch]
           u == Won(v, name)
           t == [at |-> "aligning", name |-> name, score |-> ScoreOf(r, p),
                 persistent |-> name \in Profiles /\ u.wins[name] >= Persistence,
                 ambiguous |-> r.ambiguous, mismatch |-> r.mismatch, decisive |-> FarClear(r),
                 dropped |-> FALSE]
<1>1. Begun(s, r) = [state |-> u, tick |-> t]
  BY DEF Begun
<1>2. /\ p \in Profiles \union {NoName} /\ r.score \in [Profiles -> Scores \union {0}]
      /\ r.ambiguous \in BOOLEAN /\ r.mismatch \in BOOLEAN /\ (r.mismatch => p = NoName)
  BY DEF Results
<1>3. ScoreOf(r, p) \in Nat /\ FarClear(r) \in BOOLEAN
  <2>1. ScoreOf(r, p) \in Nat
    <3>1. \A x \in Scores \union {0} : x \in Nat
      BY SwitchAssumption
    <3>2. \A q \in Profiles : r.score[q] \in Nat
      BY <1>2, <3>1
    <3> QED
      BY <3>2 DEF ScoreOf
  <2>2. FarClear(r) \in BOOLEAN
    BY Zenon DEF FarClear
  <2> QED
    BY <2>1, <2>2
<1>4. reverted => p \in Profiles /\ p = s.program
  OBVIOUS
<1>5. unmatch \in Nat
  BY DEF Switches
<1> HIDE DEF p, diverges, unmatch, reverted
<1>6. v \in Switches /\ EtaHolds(v)
  <2>1. CASE reverted
    BY <1>4, <2>1, NoNames DEF Unshown, Switches, EtaHolds
  <2>2. CASE ~reverted
    BY <1>5, <2>2 DEF Switches, EtaHolds
  <2> QED
    BY <2>1, <2>2
<1>7. /\ v.program = IF reverted THEN "detecting" ELSE s.program
      /\ ~reverted => v.duration = s.duration /\ v.wins = s.wins /\ v.candidate = s.candidate
  BY DEF Unshown, Switches
<1> HIDE DEF v
<1>8. CASE name \in Profiles
  <2>1. ~reverted /\ name = p
    BY <1>8, NoNames
  <2>2. PICK n \in Nat : n = IF v.candidate = p THEN Capped(v.wins[p] + 1) ELSE 1
    BY <1>6, <1>8, <2>1, CappedIs DEF Switches
  <2>3. u = [v EXCEPT !.wins = [@ EXCEPT ![p] = n], !.candidate = p]
    BY <1>8, <2>1, <2>2 DEF Won
  <2>4. [v.wins EXCEPT ![p] = n] \in [Profiles -> Nat] /\ [v.wins EXCEPT ![p] = n][p] = n
    BY <1>6, <1>8, <2>1 DEF Switches
  <2>5. /\ u \in Switches /\ u.wins[p] = n /\ u.candidate = p
        /\ u.program = v.program /\ u.duration = v.duration
    BY <1>6, <1>8, <2>1, <2>3, <2>4 DEF Switches
  <2> HIDE DEF u
  <2>6. EtaHolds(u)
    BY <1>6, <2>5 DEF EtaHolds
  <2>7. /\ t \in MatchTicks /\ t.at = "aligning" /\ (t.mismatch => t.name = NoName)
        /\ t.score = ScoreOf(r, p) /\ t.name = p /\ (t.persistent <=> u.wins[p] >= Persistence)
    BY <1>2, <1>3, <1>8, <2>1 DEF MatchTicks
  <2> HIDE DEF t
  <2> QED
    BY <1>1, <1>7, <1>8, <2>1, <2>2, <2>5, <2>6, <2>7 DEF p
<1>9. CASE name \notin Profiles
  <2>1. u = [v EXCEPT !.candidate = NoName]
    BY <1>9 DEF Won
  <2>2. /\ u \in Switches /\ u.candidate = NoName
        /\ u.program = v.program /\ u.duration = v.duration
    BY <1>6, <2>1 DEF Switches
  <2> HIDE DEF u
  <2>3. EtaHolds(u)
    BY <1>6, <2>2 DEF EtaHolds
  <2>4. name \in {NoName, "detecting"} /\ (name = "detecting" => reverted) /\ (name = NoName => ~reverted /\ p = NoName)
    BY <1>2, <1>9, NoNames
  <2>5. /\ t \in MatchTicks /\ t.at = "aligning" /\ t.name = name /\ ~t.persistent
        /\ t.score = ScoreOf(r, p) /\ t.mismatch = r.mismatch
    BY <1>2, <1>3, <1>9, <2>4 DEF MatchTicks
  <2>6. t.mismatch => t.name = NoName
    BY <1>2, <1>4, <2>4, <2>5, NoNames
  <2> HIDE DEF t, name
  <2> QED
    BY <1>1, <1>4, <1>7, <2>2, <2>3, <2>4, <2>5, <2>6 DEF p
<1> QED
  BY <1>8, <1>9

\* decide_switch.  A programme is chosen, the one shown fades, or none of both.
LEMMA DecidedIs ==
    ASSUME NEW u \in Switches, EtaHolds(u), NEW t \in MatchTicks, NEW r, NEW rising \in BOOLEAN,
           t.persistent => t.name \in Profiles,
           t.name = "detecting" => u.program = "detecting"
    PROVE  LET d == Decided(u, t, r, rising)
           IN /\ d \in Switches /\ EtaHolds(d)
              /\ \/ /\ Chooses(u, t, r, rising) /\ t.name \in Profiles
                    /\ d.program = t.name /\ d.candidate = u.candidate
                    /\ d.wins = [u.wins EXCEPT ![t.name] = Persistence]
                 \/ /\ ~Chooses(u, t, r, rising) /\ Fades(u, t)
                    /\ d.program = "detecting" /\ d.candidate = NoName
                 \/ /\ ~Chooses(u, t, r, rising)
                    /\ d.program = u.program
                       \/ (d.program = "detecting" /\ t.name # u.program /\ u.duration = NoName)
                    /\ d.candidate = u.candidate /\ d.wins = u.wins
<1> DEFINE d == Decided(u, t, r, rising)
           faded == Fades(u, t) /\ u.unmatch + 1 >= Persistence
           kept == CASE faded -> Unshown(u, t.name)
                     [] Fades(u, t) /\ ~faded -> [u EXCEPT !.unmatch = @ + 1]
                     [] Healthy(u, t) -> [u EXCEPT !.unmatch = 0]
                     [] OTHER -> u
<1>1. d = IF Chooses(u, t, r, rising) THEN Shown(u, t.name)
          ELSE IF t.name # kept.program /\ kept.duration = NoName
               THEN [kept EXCEPT !.program = "detecting"]
               ELSE kept
  BY DEF Decided
<1>2. Fades(u, t) => t.name \in Profiles /\ t.name = u.program
  BY DEF Fades
<1>3. Fades(u, t) => ~Healthy(u, t)
  BY SwitchAssumption DEF Fades, Healthy, MatchTicks
<1>4. kept = IF faded THEN Unshown(u, t.name)
             ELSE IF Fades(u, t) THEN [u EXCEPT !.unmatch = @ + 1]
             ELSE IF Healthy(u, t) THEN [u EXCEPT !.unmatch = 0] ELSE u
  BY <1>3
<1>5. CASE Chooses(u, t, r, rising)
  <2>1. t.name \in Profiles
    BY <1>5, NoNames DEF Chooses, Commits, Replaces, MayReplace, MatchTicks
  <2>2. PICK q \in Profiles \union {NoName} : q = Duration(t.name) /\ q \in {NoName, t.name}
    BY <2>1, DurationIs
  <2> DEFINE wins == [u.wins EXCEPT ![t.name] = Persistence]
  <2>3. wins \in [Profiles -> Nat]
    BY <2>1, Limits DEF Switches
  <2>4. d = [u EXCEPT !.program = t.name, !.duration = q, !.unmatch = 0, !.wins = wins]
    BY <1>1, <1>5, <2>2 DEF Shown
  <2> HIDE DEF wins, d
  <2>5. /\ d \in Switches /\ d.program = t.name /\ d.duration = q /\ d.wins = wins
        /\ d.candidate = u.candidate
    <3>1. [u EXCEPT !.program = t.name, !.duration = q] \in Switches
      BY <2>1 DEF Switches
    <3>2. d = [[u EXCEPT !.program = t.name, !.duration = q] EXCEPT !.unmatch = 0, !.wins = wins]
      BY <2>4 DEF Switches
    <3> QED
      BY <2>3, <3>1, <3>2 DEF Switches
  <2>6. EtaHolds(d)
    BY <2>1, <2>2, <2>5, NoNames DEF EtaHolds
  <2> QED
    BY <1>5, <2>1, <2>5, <2>6 DEF d, wins
<1>6. CASE ~Chooses(u, t, r, rising) /\ faded
  <2>1. kept = Unshown(u, t.name)
    BY <1>6, <1>4
  <2>2. /\ kept \in Switches /\ kept.program = "detecting" /\ kept.duration = NoName
        /\ kept.candidate = NoName
    BY <1>2, <1>6, <2>1 DEF Unshown, Switches
  <2>3. d = [kept EXCEPT !.program = "detecting"] \/ d = kept
    BY <1>1, <1>6
  <2> HIDE DEF kept, d
  <2>4. /\ d \in Switches /\ d.program = "detecting" /\ d.duration = NoName
        /\ d.candidate = NoName
    BY <2>2, <2>3 DEF Switches
  <2> QED
    BY <1>6, <2>4 DEF EtaHolds, d
<1>7. CASE ~Chooses(u, t, r, rising) /\ ~faded
  <2>1. PICK n \in Nat : kept = u \/ kept = [u EXCEPT !.unmatch = n]
    <3>1. u.unmatch + 1 \in Nat /\ 0 \in Nat
      BY DEF Switches
    <3>2. CASE Fades(u, t)
      BY <1>7, <1>4, <3>1, <3>2
    <3>3. CASE ~Fades(u, t) /\ Healthy(u, t)
      BY <1>7, <1>4, <3>1, <3>3
    <3>4. CASE ~Fades(u, t) /\ ~Healthy(u, t)
      BY <1>7, <1>4, <3>1, <3>4
    <3> QED
      BY <3>2, <3>3, <3>4
  <2> HIDE DEF kept
  <2>2. /\ kept \in Switches /\ kept.program = u.program /\ kept.duration = u.duration
        /\ kept.candidate = u.candidate /\ kept.wins = u.wins
    BY <2>1 DEF Switches
  <2> HIDE DEF d
  <2>3. CASE t.name # u.program /\ u.duration = NoName
    <3>1. d = [kept EXCEPT !.program = "detecting"]
      BY <1>1, <1>7, <2>2, <2>3
    <3>2. /\ d \in Switches /\ d.program = "detecting" /\ d.duration = NoName
          /\ d.candidate = u.candidate /\ d.wins = u.wins
      BY <2>2, <2>3, <3>1 DEF Switches
    <3> QED
      BY <1>7, <2>3, <3>2 DEF EtaHolds, d
  <2>4. CASE ~(t.name # u.program /\ u.duration = NoName)
    <3>1. d = kept
      BY <1>1, <1>7, <2>2, <2>4
    <3> QED
      BY <1>7, <2>2, <3>1 DEF EtaHolds, d
  <2> QED
    BY <2>3, <2>4
<1> QED
  BY <1>5, <1>6, <1>7

LEMMA RecordedIs ==
    ASSUME NEW s \in Switches, NEW r \in Results
    PROVE  /\ Recorded(s, r) \in Switches
           /\ Recorded(s, r).program = s.program /\ Recorded(s, r).duration = s.duration
           /\ Recorded(s, r).wins = s.wins /\ Recorded(s, r).candidate = s.candidate
<1> DEFINE seen == [p \in Profiles |-> IF r.score[p] = 0 THEN s.seen[p]
                                       ELSE Least(s.seen[p] + 1, Trend)]
           peak == [p \in Profiles |-> IF r.score[p] > s.peak[p] THEN r.score[p] ELSE s.peak[p]]
<1>1. seen \in [Profiles -> Nat]
  <2>1. \A p \in Profiles : s.seen[p] \in Nat /\ Trend \in Nat
    BY SwitchAssumption DEF Switches
  <2> QED
    BY <2>1 DEF Least
<1>2. peak \in [Profiles -> Nat]
  <2>1. \A x \in Scores \union {0} : x \in Nat
    BY SwitchAssumption
  <2>2. \A p \in Profiles : r.score[p] \in Nat /\ s.peak[p] \in Nat
    BY <2>1 DEF Results, Switches
  <2> QED
    BY <2>2
<1>3. Recorded(s, r) = [s EXCEPT !.seen = seen, !.peak = peak]
  BY DEF Recorded
<1> HIDE DEF seen, peak
<1> QED
  BY <1>1, <1>2, <1>3 DEF Switches

\* A result, its decision and what is recorded of it, by the streak and the lock it leaves.
LEMMA ResultIs ==
    ASSUME SwitchInv, ResultReturns
    PROVE  /\ SwitchInv'
           /\ switch'.program \in Profiles \ {switch.program} =>
                  Earned(switch'.program, switch.program, tick', streak')
           /\ /\ tick'.name \in Profiles
              /\ tick'.score >= Threshold /\ ~tick'.ambiguous
              /\ streak'[tick'.name] >= Persistence
              => switch'.program \in Profiles
<1>1. PICK r \in Results, rising \in BOOLEAN :
          LET begun == Begun(switch, r)
              decided == Decided(begun.state, begun.tick, r, rising)
              lost == /\ r.name \in Profiles /\ r.name = switch.program
                      /\ decided.program = "detecting"
          IN /\ streak' = [p \in Profiles |->
                              IF p = r.name /\ ~lost THEN Capped(streak[p] + 1) ELSE 0]
             /\ locked' = CASE Chooses(begun.state, begun.tick, r, rising) -> begun.tick.name
                            [] r.name = locked /\ ~lost -> locked
                            [] OTHER -> NoName
             /\ tick' = [begun.tick EXCEPT !.dropped = lost]
             /\ switch' = Recorded(decided, r)
  BY DEF ResultReturns
<1> DEFINE p == r.name
           u == Begun(switch, r).state
           t == Begun(switch, r).tick
           d == Decided(u, t, r, rising)
           lost == p \in Profiles /\ p = switch.program /\ d.program = "detecting"
           chosen == Chooses(u, t, r, rising)
<1>2. switch \in Switches /\ EtaHolds(switch) /\ p \in Profiles \union {NoName}
  BY DEF SwitchInv, SwitchTypeOK, Results
<1>3. /\ u \in Switches /\ EtaHolds(u)
      /\ t \in MatchTicks /\ t.at = "aligning" /\ (t.mismatch => t.name = NoName)
      /\ \/ /\ p \in Profiles /\ p = switch.program /\ t.name = "detecting" /\ ~t.persistent
            /\ u.program = "detecting" /\ u.candidate = NoName
         \/ /\ p \in Profiles /\ t.name = p /\ u.candidate = p
            /\ u.program = switch.program /\ u.duration = switch.duration
            /\ u.wins[p] = IF switch.candidate = p THEN Capped(switch.wins[p] + 1) ELSE 1
            /\ t.persistent <=> u.wins[p] >= Persistence
         \/ /\ p = NoName /\ t.name = NoName /\ ~t.persistent /\ u.candidate = NoName
            /\ u.program = switch.program /\ u.duration = switch.duration
  BY <1>2, BegunIs
<1>4. /\ streak' = [q \in Profiles |-> IF q = p /\ ~lost THEN Capped(streak[q] + 1) ELSE 0]
      /\ tick' = [t EXCEPT !.dropped = lost]
      /\ switch' = Recorded(d, r)
      /\ pinned' = pinned
  BY <1>1 DEF ResultReturns
<1>5. locked' = CASE chosen -> t.name [] p = locked /\ ~lost -> locked [] OTHER -> NoName
  BY <1>1
<1> HIDE DEF u, t
<1>6. t.persistent => t.name \in Profiles
  BY <1>3
<1>7. t.name = "detecting" => u.program = "detecting"
  BY <1>3, NoNames
<1>8. /\ d \in Switches /\ EtaHolds(d)
      /\ \/ /\ chosen /\ t.name \in Profiles
            /\ d.program = t.name /\ d.candidate = u.candidate
            /\ d.wins = [u.wins EXCEPT ![t.name] = Persistence]
         \/ /\ ~chosen /\ Fades(u, t) /\ d.program = "detecting" /\ d.candidate = NoName
         \/ /\ ~chosen
            /\ d.program = u.program
               \/ (d.program = "detecting" /\ t.name # u.program /\ u.duration = NoName)
            /\ d.candidate = u.candidate /\ d.wins = u.wins
  BY <1>3, <1>6, <1>7, DecidedIs
<1> HIDE DEF d
<1>9. /\ switch' \in Switches /\ switch'.program = d.program /\ switch'.duration = d.duration
      /\ switch'.wins = d.wins /\ switch'.candidate = d.candidate
  BY <1>4, <1>8, RecordedIs
<1>10. /\ streak' \in [Profiles -> Nat] /\ streak \in [Profiles -> Nat]
       /\ \A q \in Profiles : streak'[q] = IF q = p /\ ~lost THEN Capped(streak[q] + 1) ELSE 0
  <2>1. streak \in [Profiles -> Nat]
    BY DEF SwitchInv, SwitchTypeOK
  <2>2. \A q \in Profiles : Capped(streak[q] + 1) \in Nat
    BY <2>1, CappedIs
  <2> QED
    BY <1>4, <2>1, <2>2
<1>11. /\ tick' \in MatchTicks /\ tick'.at = "aligning" /\ tick'.dropped = lost
       /\ tick'.name = t.name /\ tick'.score = t.score /\ tick'.persistent = t.persistent
       /\ tick'.ambiguous = t.ambiguous /\ tick'.mismatch = t.mismatch
       /\ tick'.decisive = t.decisive
  <2>1. lost \in BOOLEAN
    OBVIOUS
  <2> HIDE DEF lost
  <2> QED
    BY <1>3, <1>4, <2>1 DEF MatchTicks
<1>12. chosen => t.name = p /\ p \in Profiles /\ ~lost
  BY <1>3, <1>8, NoNames
<1>13. locked' = IF chosen THEN p ELSE IF p = locked /\ ~lost THEN locked ELSE NoName
  <2> HIDE DEF lost, chosen
  <2>1. CASE chosen /\ ~(p = locked /\ ~lost)
    BY <1>5, <1>12, <2>1
  <2>2. CASE chosen /\ p = locked /\ ~lost
    BY <1>5, <1>12, <2>2
  <2>3. CASE ~chosen
    BY <1>5, <2>3
  <2> QED
    BY <2>1, <2>2, <2>3
\* Of the winner: what its count was before the result, and is before the decision.
<1>14. ASSUME t.name = p, p \in Profiles
       PROVE  /\ u.wins[p] \in Nat /\ u.candidate = p
              /\ p = locked \/ u.wins[p] <= Capped(streak[p] + 1)
              /\ u.wins[p] >= Least(Capped(streak[p] + 1), Persistence)
  <2>1. /\ u.wins[p] \in Nat /\ u.candidate = p
        /\ u.wins[p] = IF switch.candidate = p THEN Capped(switch.wins[p] + 1) ELSE 1
    BY <1>3, <1>14, NoNames DEF Switches
  <2>2. /\ switch.wins[p] \in Nat /\ streak[p] \in Nat
        /\ switch.candidate = p => p = locked \/ switch.wins[p] <= streak[p]
        /\ streak[p] > 0 => switch.candidate = p /\ switch.wins[p] >= Least(streak[p], Persistence)
    BY <1>2, <1>10, <1>14 DEF SwitchInv, CountsHold, Switches
  <2> QED
    BY <2>1, <2>2, Limits DEF Capped, Least
<1> HIDE DEF lost, chosen
<1>15. SwitchTypeOK'
  <2>1. locked' \in Profiles \union {NoName}
    BY <1>12, <1>13 DEF SwitchInv, SwitchTypeOK
  <2> QED
    BY <1>4, <1>9, <1>10, <1>11, <2>1, <1>8 DEF SwitchInv, SwitchTypeOK
<1>16. EtaHolds(switch)'
  BY <1>8, <1>9 DEF EtaHolds
\* The three ways a tick goes.
<1>17. CASE chosen
  <2>1. /\ t.name = p /\ p \in Profiles /\ ~lost /\ locked' = p
        /\ switch'.program = p /\ switch'.candidate = p
        /\ switch'.wins = [u.wins EXCEPT ![p] = Persistence]
    BY <1>8, <1>9, <1>12, <1>13, <1>14, <1>17
  <2>2. switch'.wins[p] = Persistence
    BY <1>3, <2>1 DEF Switches
  <2>3. CountsHold(switch', streak', locked')
    BY <1>10, <2>1, <2>2, Limits DEF CountsHold, Least
  <2>4. TickHolds(tick', streak', locked')
    BY <1>3, <1>11, <2>1 DEF TickHolds
  <2>5. p # switch.program => Earned(p, switch.program, tick', streak')
    <3> SUFFICES ASSUME p # switch.program, p # locked,
                        ~(switch.program \in Profiles /\ t.decisive)
                 PROVE  streak'[p] >= IF t.ambiguous /\ switch.program \notin Profiles
                                      THEN ambiguousFactor * Persistence ELSE Persistence
      BY <1>11 DEF Earned
    <3>1. streak'[p] >= u.wins[p] /\ streak'[p] \in Nat /\ u.wins[p] \in Nat
      BY <1>10, <1>14, <2>1
    <3>2. u.program = switch.program /\ (t.persistent => u.wins[p] >= Persistence)
      BY <1>3, <2>1, NoNames
    <3>3. CASE Commits(u, t)
      BY <2>1, <3>1, <3>2, <3>3, Limits DEF Commits
    <3>4. CASE Replaces(u, t, r, rising)
      BY <2>1, <3>1, <3>2, <3>4, Limits DEF Replaces, MayReplace
    <3> QED
      BY <1>17, <3>3, <3>4 DEF chosen, Chooses
  <2> QED
    BY <1>15, <1>16, <2>1, <2>3, <2>4, <2>5 DEF SwitchInv
<1>18. CASE ~chosen /\ switch'.candidate = NoName
  <2>1. switch'.program \in {switch.program, "detecting"}
    BY <1>3, <1>8, <1>9, <1>18
  <2>2. \A q \in Profiles : streak'[q] = 0
    <3>1. p \notin Profiles \/ lost
      BY <1>3, <1>8, <1>9, <1>18, NoNames DEF lost, Fades
    <3> QED
      BY <1>10, <3>1
  <2>3. CountsHold(switch', streak', locked')
    BY <1>18, <2>2, NoNames DEF CountsHold
  <2>4. TickHolds(tick', streak', locked')
    <3>1. t.persistent => lost
      BY <1>3, <1>8, <1>9, <1>18, NoNames DEF lost, Fades
    <3> QED
      BY <1>3, <1>6, <1>11, <3>1 DEF TickHolds
  <2> QED
    BY <1>11, <1>15, <1>16, <2>1, <2>2, <2>3, <2>4, NoNames, Limits DEF SwitchInv
<1>19. CASE ~chosen /\ switch'.candidate # NoName
  <2>1. /\ p \in Profiles /\ t.name = p /\ switch'.candidate = p /\ switch'.wins = u.wins
        /\ u.program = switch.program /\ u.duration = switch.duration
    BY <1>3, <1>8, <1>9, <1>19
  <2>2. switch'.program \in {switch.program, "detecting"}
    BY <1>8, <1>9, <1>19, <2>1
  <2>3. ~lost
    BY <1>8, <1>9, <1>19, <2>1, NoNames DEF lost
  <2>4. streak'[p] = Capped(streak[p] + 1) /\ \A q \in Profiles : q # p => streak'[q] = 0
    BY <1>10, <2>1, <2>3
  <2>5. p = locked => p = locked'
    BY <1>13, <1>19, <2>3
  <2>6. CountsHold(switch', streak', locked')
    BY <1>14, <2>1, <2>4, <2>5 DEF CountsHold
  <2>7. TickHolds(tick', streak', locked')
    <3>1. t.persistent => p = locked' \/ streak'[p] >= Persistence
      BY <1>3, <1>10, <1>14, <2>1, <2>4, <2>5, NoNames, Limits
    <3> QED
      BY <1>3, <1>11, <2>1, <3>1 DEF TickHolds
  <2>8. ASSUME t.score >= Threshold, ~t.ambiguous, streak'[p] >= Persistence
        PROVE  switch'.program \in Profiles
    <3>1. t.persistent /\ u.wins[p] >= Persistence
      BY <1>3, <1>10, <1>14, <2>1, <2>4, <2>8, NoNames, Limits DEF Least
    <3>2. ~MayCommit(u, t)
      BY <1>19, <2>1, <2>8, <3>1 DEF chosen, Chooses, Commits
    <3>3. u.duration # NoName /\ u.program # "detecting"
      BY <2>1, <2>8, <3>2, NoNames DEF MayCommit
    <3>4. ~Fades(u, t)
      BY <1>3, <2>8, SwitchAssumption DEF Fades, MatchTicks
    <3> QED
      BY <1>3, <1>8, <1>9, <1>19, <3>3, <3>4 DEF Switches
  <2> QED
    BY <1>11, <1>15, <1>16, <2>1, <2>2, <2>6, <2>7, <2>8, NoNames DEF SwitchInv
<1> QED
  BY <1>17, <1>18, <1>19

\* The override after the alignment check goes by a persistence that was earned, counted
\* on from a lock, or lost in the first half of the same tick.
LEMMA CheckIs ==
    ASSUME SwitchInv, CheckReturns
    PROVE  /\ SwitchInv'
           /\ switch'.program \in Profiles \ {switch.program} =>
                  Earned(switch'.program, switch.program, tick, streak)
<1>1. PICK verified \in BOOLEAN : switch' = Overridden(switch, tick, verified)
  BY DEF CheckReturns
<1>2. /\ switch \in Switches /\ tick \in MatchTicks /\ EtaHolds(switch) /\ tick.at = "aligning"
      /\ tick' = NoTick /\ pinned' = pinned /\ streak' = streak /\ locked' = locked
  BY DEF CheckReturns, SwitchInv, SwitchTypeOK
<1>3. PICK q \in Profiles \union {NoName} :
          q = Duration(tick.name) /\ q \in {NoName, tick.name}
          /\ (tick.name \notin Profiles => q = NoName)
  BY <1>2, DurationIs DEF MatchTicks
<1>4. \/ switch' = switch
      \/ switch' = [switch EXCEPT !.program = "detecting", !.duration = NoName]
      \/ /\ tick.name \notin {switch.program, NoName} /\ Adopts(tick, verified)
         /\ switch' = [switch EXCEPT !.program = tick.name, !.duration = q]
  BY <1>1, <1>3 DEF Overridden
<1>5. /\ switch' \in Switches /\ switch'.wins = switch.wins
      /\ switch'.candidate = switch.candidate
      /\ \/ switch'.program = switch.program /\ switch'.duration = switch.duration
         \/ switch'.program = "detecting" /\ switch'.duration = NoName
         \/ /\ tick.name \notin {switch.program, NoName} /\ Adopts(tick, verified)
            /\ switch'.program = tick.name /\ switch'.duration = q
  <2>1. CASE switch' = switch
    BY <1>2, <2>1
  <2>2. CASE switch' = [switch EXCEPT !.program = "detecting", !.duration = NoName]
    BY <1>2, <2>2 DEF Switches
  <2>3. CASE /\ tick.name \notin {switch.program, NoName} /\ Adopts(tick, verified)
             /\ switch' = [switch EXCEPT !.program = tick.name, !.duration = q]
    <3>1. tick.name \in Profiles \union {"detecting"}
      BY <1>2, <2>3 DEF MatchTicks
    <3> QED
      BY <1>2, <2>3, <3>1 DEF Switches
  <2> QED
    BY <1>4, <2>1, <2>2, <2>3
<1>6. NoTick \in MatchTicks /\ NoTick.at = "idle"
  BY DEF NoTick, MatchTicks
<1>7. SwitchInv'
  <2>1. SwitchTypeOK'
    BY <1>2, <1>5, <1>6 DEF SwitchInv, SwitchTypeOK
  <2>2. EtaHolds(switch')
    BY <1>2, <1>3, <1>5, NoNames DEF EtaHolds
  <2>3. CountsHold(switch', streak', locked')
    BY <1>2, <1>5 DEF SwitchInv, CountsHold
  <2>4. TickHolds(tick', streak', locked')
    BY <1>2, <1>6 DEF TickHolds
  <2> QED
    BY <2>1, <2>2, <2>3, <2>4 DEF SwitchInv
<1>8. ASSUME switch'.program \in Profiles \ {switch.program}
      PROVE  Earned(switch'.program, switch.program, tick, streak)
  <2>1. Adopts(tick, verified) /\ switch'.program = tick.name /\ tick.name # NoName
    BY <1>5, <1>8, NoNames
  <2>2. /\ tick.mismatch => tick.name = NoName
        /\ tick.persistent =>
               tick.dropped \/ tick.name = locked \/ streak[tick.name] >= Persistence
    BY <1>2 DEF SwitchInv, TickHolds
  <2>3. tick.persistent /\ ~tick.ambiguous
    BY <2>1, <2>2 DEF Adopts
  <2> QED
    BY <2>1, <2>2, <2>3 DEF Earned
<1> QED
  BY <1>7, <1>8

\* The steps that are not the matcher's: the user's choice leaves the counts alone, a new
\* cycle and a restart begin them anew.
LEMMA ChosenIs ==
    ASSUME SwitchInv, NEW p \in Profiles \union {"detecting"},
           switch' = [switch EXCEPT !.program = p, !.duration = Duration(p)],
           pinned' \in BOOLEAN, UNCHANGED <<tick, streak, locked>>
    PROVE  SwitchInv'
<1>1. PICK q \in Profiles \union {NoName} :
          q = Duration(p) /\ q \in {NoName, p} /\ (p \notin Profiles => q = NoName)
  BY DurationIs
<1>2. /\ switch' \in Switches /\ switch'.wins = switch.wins
      /\ switch'.candidate = switch.candidate /\ switch'.program = p /\ switch'.duration = q
  BY <1>1 DEF SwitchInv, SwitchTypeOK, Switches
<1>3. SwitchTypeOK' /\ EtaHolds(switch') /\ CountsHold(switch', streak', locked')
  BY <1>1, <1>2, NoNames DEF SwitchInv, SwitchTypeOK, EtaHolds, CountsHold
<1> QED
  BY <1>3 DEF SwitchInv

LEMMA FreshIs ==
    /\ FreshSwitch \in Switches /\ FreshSwitch.candidate = NoName
    /\ FreshSwitch.program = "detecting" /\ FreshSwitch.duration = NoName
BY DEF FreshSwitch, NoWins, Switches

LEMMA BegunAnew ==
    ASSUME NEW p \in Profiles \union {"detecting"},
           switch' = [FreshSwitch EXCEPT !.program = p, !.duration = Duration(p)],
           pinned' \in BOOLEAN, tick' = NoTick, streak' = NoWins, locked' = NoName
    PROVE  SwitchInv'
<1>1. PICK q \in Profiles \union {NoName} :
          q = Duration(p) /\ q \in {NoName, p} /\ (p \notin Profiles => q = NoName)
  BY DurationIs
<1>2. NoWins \in [Profiles -> Nat] /\ \A x \in Profiles : NoWins[x] = 0
  BY DEF NoWins
<1>3. NoTick \in MatchTicks /\ NoTick.at = "idle"
  BY DEF NoTick, MatchTicks
<1>4. /\ switch' \in Switches /\ switch'.candidate = NoName
      /\ switch'.program = p /\ switch'.duration = q
  BY <1>1, FreshIs DEF Switches
<1>5. SwitchTypeOK' /\ EtaHolds(switch')
  BY <1>1, <1>2, <1>3, <1>4, NoNames DEF SwitchTypeOK, EtaHolds
<1>6. CountsHold(switch', streak', locked') /\ TickHolds(tick', streak', locked')
  BY <1>2, <1>3, <1>4, NoNames DEF CountsHold, TickHolds
<1> QED
  BY <1>5, <1>6 DEF SwitchInv

LEMMA SwitchInitHolds == SwitchInit => SwitchInv
<1> SUFFICES ASSUME SwitchInit PROVE SwitchInv
  OBVIOUS
<1>1. NoWins \in [Profiles -> Nat] /\ \A x \in Profiles : NoWins[x] = 0
  BY DEF NoWins
<1>2. NoTick \in MatchTicks /\ NoTick.at = "idle"
  BY DEF NoTick, MatchTicks
<1>3. SwitchTypeOK
  BY <1>1, <1>2, FreshIs DEF SwitchInit, SwitchTypeOK
<1>4. EtaHolds(switch) /\ TickHolds(tick, streak, locked)
  BY <1>2, FreshIs DEF SwitchInit, EtaHolds, TickHolds
<1>5. CountsHold(switch, streak, locked)
  BY <1>1, FreshIs, NoNames DEF SwitchInit, CountsHold
<1> QED
  BY <1>3, <1>4, <1>5 DEF SwitchInv

\* Every step keeps the invariant.  What it shows of a result and of the check after it is
\* said along with it, since both are read off the same case split.
LEMMA SwitchStep ==
    ASSUME SwitchInv, [SwitchNext]_switchVars
    PROVE  /\ SwitchInv'
           /\ switch'.program \in Profiles \ {switch.program} =>
                  /\ Decides => Earned(switch'.program, switch.program, tick', streak')
                  /\ CheckReturns => Earned(switch'.program, switch.program, tick, streak)
           /\ /\ Decides /\ tick'.name \in Profiles
              /\ tick'.score >= Threshold /\ ~tick'.ambiguous
              /\ streak'[tick'.name] >= Persistence
              => switch'.program \in Profiles
<1>1. CASE DispatchMatch
  <2>1. tick' \in MatchTicks /\ tick'.at = "matching"
    BY <1>1 DEF DispatchMatch, NoTick, MatchTicks
  <2>2. UNCHANGED <<switch, pinned, streak, locked>>
    BY <1>1 DEF DispatchMatch
  <2>3. SwitchInv'
    BY <2>1, <2>2 DEF SwitchInv, SwitchTypeOK, TickHolds
  <2> QED
    BY <2>1, <2>2, <2>3 DEF Decides
<1>2. CASE ResultReturns
  <2>1. ~CheckReturns
    BY <1>2 DEF ResultReturns, CheckReturns
  <2> QED
    BY <1>2, <2>1, ResultIs
<1>3. CASE CheckReturns
  <2>1. ~Decides
    BY <1>3 DEF CheckReturns, Decides
  <2> QED
    BY <1>3, <2>1, CheckIs
<1>4. CASE PinProgram
  <2>1. PICK p \in Profiles \union {"detecting"} :
            switch' = [switch EXCEPT !.program = p, !.duration = Duration(p)]
    BY <1>4 DEF PinProgram
  <2>2. pinned' \in BOOLEAN /\ UNCHANGED <<tick, streak, locked>>
    BY <1>4 DEF PinProgram
  <2>3. SwitchInv'
    BY <2>1, <2>2, ChosenIs
  <2>4. ~Decides /\ ~CheckReturns
    BY <2>2 DEF Decides, CheckReturns, NoTick
  <2> QED
    BY <2>3, <2>4
<1>5. CASE UnpinProgram
  <2>1. Duration("detecting") = NoName
    BY DurationIs, NoNames
  <2>2. /\ switch' = [switch EXCEPT !.program = "detecting", !.duration = Duration("detecting")]
        /\ pinned' = FALSE /\ UNCHANGED <<tick, streak, locked>>
    BY <1>5, <2>1 DEF UnpinProgram
  <2>3. SwitchInv'
    <3>1. PICK p \in Profiles \union {"detecting"} :
              switch' = [switch EXCEPT !.program = p, !.duration = Duration(p)]
      BY <2>2
    <3>2. pinned' \in BOOLEAN
      BY <2>2
    <3> QED
      BY <2>2, <3>1, <3>2, ChosenIs
  <2>4. ~Decides /\ ~CheckReturns
    BY <2>2 DEF Decides, CheckReturns, NoTick
  <2> QED
    BY <2>3, <2>4
<1>6. CASE FreshCycle
  <2>1. Duration("detecting") = NoName
    BY DurationIs, NoNames
  <2>2. FreshSwitch = [FreshSwitch EXCEPT !.program = "detecting", !.duration = Duration("detecting")]
    BY <2>1, FreshIs DEF Switches
  <2>3. PICK p \in Profiles \union {"detecting"} :
            switch' = [FreshSwitch EXCEPT !.program = p, !.duration = Duration(p)]
    BY <1>6, <2>2 DEF FreshCycle
  <2>4. pinned' \in BOOLEAN /\ tick' = NoTick /\ streak' = NoWins /\ locked' = NoName
    BY <1>6 DEF FreshCycle
  <2>5. SwitchInv'
    BY <2>3, <2>4, BegunAnew
  <2>6. ~Decides
    BY <2>4 DEF Decides, NoTick
  <2>7. CheckReturns => Earned(switch'.program, switch.program, tick, streak)
                        \/ switch'.program \notin Profiles \ {switch.program}
    BY CheckIs
  <2> QED
    BY <2>5, <2>6, <2>7
<1>7. CASE RestoreProgram
  <2>1. switch.program \in Profiles \union {"detecting"}
    BY DEF SwitchInv, SwitchTypeOK, Switches
  <2>2. /\ switch' = [FreshSwitch EXCEPT !.program = switch.program,
                                         !.duration = Duration(switch.program)]
        /\ pinned' \in BOOLEAN /\ tick' = NoTick /\ streak' = NoWins /\ locked' = NoName
    BY <1>7 DEF RestoreProgram, SwitchInv, SwitchTypeOK
  <2>3. SwitchInv'
    BY <2>1, <2>2, BegunAnew
  <2>4. ~Decides
    BY <2>2 DEF Decides, NoTick
  <2>5. CheckReturns => Earned(switch'.program, switch.program, tick, streak)
                        \/ switch'.program \notin Profiles \ {switch.program}
    BY CheckIs
  <2> QED
    BY <2>3, <2>4, <2>5
<1>8. CASE UNCHANGED switchVars
  <2>1. SwitchInv'
    BY <1>8 DEF switchVars, SwitchInv, SwitchTypeOK, EtaHolds, CountsHold, TickHolds
  <2>2. ~Decides /\ switch' = switch
    BY <1>8 DEF switchVars, Decides
  <2> QED
    BY <2>1, <2>2
<1> QED
  BY <1>1, <1>2, <1>3, <1>4, <1>5, <1>6, <1>7, <1>8 DEF SwitchNext

LEMMA SwitchInvariant == SwitchSpec => []SwitchInv
BY SwitchInitHolds, SwitchStep, PTL DEF SwitchSpec

\* The types of what the matching task keeps (manager.py, match_rules.py).
THEOREM SwitchTyped == SwitchSpec => []SwitchTypeOK
<1>1. SwitchInv => SwitchTypeOK
  BY DEF SwitchInv
<1> QED
  BY <1>1, SwitchInvariant, PTL

\* The expected duration, from which the time left is told, is at all times that of the
\* programme shown or unknown: through matches, the override, the user's choices and restarts.
THEOREM DurationIsOfTheShown == SwitchSpec => []EtaIsOwn
<1>1. SwitchInv => EtaIsOwn
  BY DEF SwitchInv, EtaHolds, EtaIsOwn
<1> QED
  BY <1>1, SwitchInvariant, PTL

\* The matching task shows another programme only when that one has earned it.
THEOREM ProgramIsEarned == SwitchSpec => ShownIsEarned
<1>1. SwitchInv /\ [SwitchNext]_switchVars =>
          [switch'.program \in Profiles \ {switch.program} =>
             /\ Decides => Earned(switch'.program, switch.program, tick', streak')
             /\ CheckReturns => Earned(switch'.program, switch.program, tick, streak)]_switchVars
  BY SwitchStep
<1> QED
  BY <1>1, SwitchInvariant, PTL DEF SwitchSpec, ShownIsEarned

\* A programme that wins clearly match_persistence times in a row is not held back: some
\* programme is shown.
THEOREM SteadyWinnerShows == SwitchSpec => SteadyIsShown
<1>1. SwitchInv /\ [SwitchNext]_switchVars =>
          [/\ Decides /\ tick'.name \in Profiles
           /\ tick'.score >= Threshold /\ ~tick'.ambiguous
           /\ streak'[tick'.name] >= Persistence
           => switch'.program \in Profiles]_switchVars
  BY SwitchStep
<1> QED
  BY <1>1, SwitchInvariant, PTL DEF SwitchSpec, SteadyIsShown
=============================================================================
