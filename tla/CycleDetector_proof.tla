------------------------ MODULE CycleDetector_proof -------------------------
(***************************************************************************)
(* Proofs about CycleDetector, for all thresholds, timeouts and cadences.  *)
(***************************************************************************)
EXTENDS CycleDetector, TLAPS

(***************************************************************************)
(* What one reading does to the quiet clocks, whatever the thresholds, the *)
(* cadence and the bounds are.                                             *)
(***************************************************************************)
\* A reading as CycleDetector draws them: an outage covers no more than the
\* silence before it.
Sound(r) == /\ r = [p |-> r.p, dt |-> r.dt, u |-> r.u, src |-> r.src]
            /\ r.p \in Level /\ r.dt \in Nat /\ r.u \in 0..r.dt /\ r.src \in Sources

LEMMA SatFacts ==
    ASSUME NEW n \in Nat
    PROVE  Sat(n) \in Ticks /\ Sat(n) <= n /\ \A m \in Nat : m <= n => Sat(m) <= Sat(n)
BY ClockAssumption DEF Sat, Lesser, Ticks

LEMMA QuietedFacts ==
    ASSUME NEW c \in Clocks, NEW r, Sound(r)
    PROVE  /\ Quieted(c, r) \in Clocks
           /\ Quieted(c, r).pulse = c.pulse
           /\ Consistent(c) => /\ Quieted(c, r).gapfree <= Quieted(c, r).below
                               /\ Quieted(c, r).below <= Quieted(c, r).silent
<1> DEFINE below == Sat(c.below + r.dt - r.u)
           gapfree == IF Gap(r) THEN 0 ELSE Sat(c.gapfree + r.dt)
           silent == Sat(c.silent + r.dt)
<1>1. Quieted(c, r) = [c EXCEPT !.below = below, !.gapfree = gapfree, !.silent = silent]
  BY DEF Quieted
<1>2. below \in Ticks /\ gapfree \in Ticks /\ silent \in Ticks
  BY SatFacts, ClockAssumption DEF Sound, Clocks, Ticks
<1>3. Consistent(c) => gapfree <= below /\ below <= silent
  <2>1. CASE Gap(r)
    BY <2>1, ClockAssumption DEF Sat, Lesser, Clocks, Ticks, Sound, Consistent
  <2>2. CASE ~Gap(r)
    <3>1. r.u = 0
      BY <2>2 DEF Gap, Unwitnessed, Sound
    <3> QED
      BY <2>2, <3>1, ClockAssumption DEF Sat, Lesser, Clocks, Ticks, Sound, Consistent
  <2> QED
    BY <2>1, <2>2
<1> HIDE DEF below, gapfree, silent
<1> QED
  BY <1>1, <1>2, <1>3 DEF Clocks

LEMMA RestoredFacts ==
    ASSUME NEW c \in Clocks, NEW r, Sound(r), c.pulse.on
    PROVE  /\ Restored(c, r) \in Clocks
           /\ Consistent(c) => /\ Restored(c, r).gapfree <= Restored(c, r).below
                               /\ Restored(c, r).below <= Restored(c, r).silent
<1> DEFINE silent == Sat(c.pulse.silent + c.pulse.len + r.dt)
<1>1. Restored(c, r) = [c EXCEPT !.below = c.pulse.below, !.gapfree = c.pulse.gapfree,
                                 !.silent = silent]
  BY DEF Restored
<1>2. c.pulse.silent + c.pulse.len + r.dt \in Nat
  BY ClockAssumption DEF Clocks, Pulse, Ticks, Sound
<1>3. silent \in Ticks /\ c.pulse.silent <= silent
  BY <1>2, ClockAssumption DEF Sat, Lesser, Clocks, Pulse, Ticks, Sound
<1> HIDE DEF silent
<1>4. c.pulse.below \in Ticks /\ c.pulse.gapfree \in Ticks /\ c.pulse.silent \in Ticks
  BY DEF Clocks, Pulse
<1>5. Consistent(c) => c.pulse.gapfree <= c.pulse.below /\ c.pulse.below <= c.pulse.silent
  BY DEF Consistent
<1>6. Restored(c, r) \in Clocks
  BY <1>1, <1>3, <1>4 DEF Clocks
<1>7. /\ Restored(c, r).below = c.pulse.below /\ Restored(c, r).gapfree = c.pulse.gapfree
      /\ Restored(c, r).silent = silent
  BY <1>1 DEF Clocks
<1> QED
  BY <1>3, <1>4, <1>5, <1>6, <1>7, ClockAssumption DEF Ticks

LEMMA PulseFacts ==
    ASSUME NEW c \in Clocks, NEW r, Sound(r)
    PROVE  /\ NoPulse \in Pulse /\ ~NoPulse.on
           /\ Begun(Quieted(c, r)) \in Pulse
           /\ Begun(Quieted(c, r)).below = Quieted(c, r).below
           /\ Begun(Quieted(c, r)).gapfree = Quieted(c, r).gapfree
           /\ Begun(Quieted(c, r)).silent = Quieted(c, r).silent
           /\ [c.pulse EXCEPT !.len = Sat(@ + r.dt)] \in Pulse
           /\ Consistent(c) /\ c.pulse.on =>
                 /\ [c.pulse EXCEPT !.len = Sat(@ + r.dt)].gapfree
                      <= [c.pulse EXCEPT !.len = Sat(@ + r.dt)].below
                 /\ [c.pulse EXCEPT !.len = Sat(@ + r.dt)].below
                      <= [c.pulse EXCEPT !.len = Sat(@ + r.dt)].silent
<1>1. NoPulse \in Pulse /\ ~NoPulse.on
  BY ClockAssumption DEF NoPulse, Pulse, Ticks
<1>2. Quieted(c, r) \in Clocks
  BY QuietedFacts
<1>3. Begun(Quieted(c, r)) \in Pulse
  BY <1>2, ClockAssumption DEF Begun, Pulse, Clocks, Ticks
<1>4. Sat(c.pulse.len + r.dt) \in Ticks
  BY SatFacts, ClockAssumption DEF Clocks, Pulse, Ticks, Sound
<1>5. [c.pulse EXCEPT !.len = Sat(@ + r.dt)] \in Pulse
  BY <1>4 DEF Clocks, Pulse
<1>6. Consistent(c) /\ c.pulse.on => c.pulse.gapfree <= c.pulse.below /\ c.pulse.below <= c.pulse.silent
  BY DEF Consistent
<1> QED
  BY <1>1, <1>3, <1>5, <1>6 DEF Begun, Clocks, Pulse

\* The active time credited to a reading never runs past what the code compares
\* it with, and is never negative, outage or not.
LEMMA HighTimeFacts ==
    ASSUME NEW c \in Clocks, NEW r, Sound(r), NEW threshold
    PROVE  Lesser(c.above + HighTime(c, r, threshold), StartDuration) \in 0..StartDuration
<1>1. HighTime(c, r, threshold) \in Nat
  BY DEF HighTime, Sound
<1> QED
  BY <1>1, ClockAssumption DEF Lesser, Clocks

LEMMA TickFacts ==
    ASSUME NEW c \in Clocks, NEW r, Sound(r), NEW threshold, NEW open
    PROVE  /\ Tick(c, r, threshold, open) \in Clocks
           /\ Consistent(c) => Consistent(Tick(c, r, threshold, open))
<1> DEFINE last == Lesser(r.p, StartLevel)
           above == Lesser(c.above + HighTime(c, r, threshold), StartDuration)
           grown == [c.pulse EXCEPT !.len = Sat(@ + r.dt)]
           pulse == IF Opens(c, r, threshold, open) THEN Begun(Quieted(c, r))
                    ELSE IF c.pulse.on /\ ~Rejects(c, r, threshold, open) THEN grown
                    ELSE NoPulse
<1>1. last \in 0..StartLevel
  BY DEF Lesser, Sound, Level, StartLevel
<1>2. above \in 0..StartDuration
  BY HighTimeFacts
<1>3. CASE High(r, threshold)
  <2>1. Tick(c, r, threshold, open) =
          [c EXCEPT !.below = 0, !.gapfree = 0, !.silent = 0, !.above = above,
                    !.last = last, !.pulse = pulse]
    BY <1>3 DEF Tick
  <2>2. pulse \in Pulse
    BY PulseFacts
  <2>3. Consistent(c) /\ pulse.on => pulse.gapfree <= pulse.below /\ pulse.below <= pulse.silent
    <3> SUFFICES ASSUME Consistent(c), pulse.on
                 PROVE  pulse.gapfree <= pulse.below /\ pulse.below <= pulse.silent
      OBVIOUS
    <3>1. CASE Opens(c, r, threshold, open)
      BY <3>1, PulseFacts, QuietedFacts
    <3>2. CASE ~Opens(c, r, threshold, open)
      <4>1. c.pulse.on /\ pulse = grown
        BY <3>2, PulseFacts
      <4> QED
        BY <4>1, PulseFacts
    <3> QED
      BY <3>1, <3>2
  <2> HIDE DEF last, above, pulse
  <2>4. 0 \in Ticks
    BY ClockAssumption DEF Ticks
  <2>5. Tick(c, r, threshold, open) \in Clocks
    BY <1>1, <1>2, <2>1, <2>2, <2>4 DEF Clocks
  <2>6. LET k == Tick(c, r, threshold, open)
        IN  k.below = 0 /\ k.gapfree = 0 /\ k.silent = 0 /\ k.pulse = pulse
    BY <2>1 DEF Clocks
  <2> QED
    BY <2>3, <2>5, <2>6 DEF Consistent
<1>4. CASE ~High(r, threshold)
  <2> DEFINE q == IF Absorbs(c, r, threshold) THEN Restored(c, r) ELSE Quieted(c, r)
  <2>1. Tick(c, r, threshold, open) = [q EXCEPT !.above = 0, !.last = last, !.pulse = NoPulse]
    BY <1>4 DEF Tick
  <2>2. q \in Clocks /\ (Consistent(c) => q.gapfree <= q.below /\ q.below <= q.silent)
    BY QuietedFacts, RestoredFacts DEF Absorbs
  <2>3. NoPulse \in Pulse /\ ~NoPulse.on
    BY PulseFacts
  <2>4. 0 \in 0..StartDuration
    BY ClockAssumption
  <2> HIDE DEF last, q
  <2>5. Tick(c, r, threshold, open) \in Clocks
    BY <1>1, <2>1, <2>2, <2>3, <2>4 DEF Clocks
  <2>6. LET k == Tick(c, r, threshold, open)
        IN  /\ k.below = q.below /\ k.gapfree = q.gapfree /\ k.silent = q.silent
            /\ k.pulse = NoPulse
    BY <2>1, <2>2 DEF Clocks
  <2>7. Consistent(c) => Consistent(Tick(c, r, threshold, open))
    BY <2>2, <2>3, <2>6 DEF Consistent
  <2> QED
    BY <2>5, <2>7
<1> QED
  BY <1>3, <1>4

-----------------------------------------------------------------------------

LEMMA CapFacts ==
    /\ Cap \in Nat /\ Ticks = 0..Cap /\ 0 \in Ticks /\ Cap \in Ticks
    /\ \A n \in Nat : Sat(n) \in Ticks
    /\ NoPulse \in Pulse /\ ClearClocks \in Clocks /\ 0 \in 0..StartDuration
BY ClockAssumption DEF Ticks, Sat, Lesser, NoPulse, Pulse, ClearClocks, Clocks, StartLevel

\* What the lemmas ask of a reading, or of what a restarted detector hears of one.
Usable(r) == Sound(r) /\ r.dt \in Nat /\ r.p \in Level /\ Sat(r.dt) \in Ticks

LEMMA ReadingUsable ==
    ASSUME NEW r \in Readings
    PROVE  Usable(r)
<1>1. r \in Reading(Steps) /\ r.u <= r.dt
  BY DEF Readings
<1>2. r.dt \in Steps /\ r.p \in Level /\ r.src \in Sources /\ r.u \in Nat
  BY <1>1, DetectorAssumption DEF Reading
<1>3. r.dt \in Nat
  BY <1>2, DetectorAssumption
<1>4. r = [p |-> r.p, dt |-> r.dt, u |-> r.u, src |-> r.src]
  BY <1>1 DEF Reading
<1> QED
  BY <1>1, <1>2, <1>3, <1>4, CapFacts DEF Sound, Usable

LEMMA HeardUsable ==
    ASSUME NEW x, NEW r \in Readings
    PROVE  Usable(Heard(x, r)) /\ (Real(Heard(x, r)) <=> Real(r))
<1> DEFINE src == IF r.src = "late" THEN "real" ELSE r.src
           h == [p |-> r.p, dt |-> 0, u |-> 0, src |-> src]
<1>1. Usable(r) /\ Sound(r)
  BY ReadingUsable DEF Usable
<1>2. CASE ~x.first
  BY <1>1, <1>2 DEF Heard
<1>3. CASE x.first
  <2>1. Heard(x, r) = h
    BY <1>3 DEF Heard
  <2>2. src \in Sources /\ (src \in {"real", "late"} <=> r.src \in {"real", "late"})
    BY <1>1 DEF Sources, Sound
  <2> HIDE DEF src
  <2>3. /\ h = [p |-> h.p, dt |-> h.dt, u |-> h.u, src |-> h.src]
        /\ h.p = r.p /\ h.dt = 0 /\ h.u = 0 /\ h.src = src
    OBVIOUS
  <2> HIDE DEF h
  <2>4. Sound(h) /\ h.p \in Level /\ h.dt \in Nat /\ Sat(h.dt) \in Ticks
    BY <1>1, <2>2, <2>3, CapFacts DEF Sound
  <2> QED
    BY <2>1, <2>2, <2>3, <2>4 DEF Usable, Real
<1> QED
  BY <1>2, <1>3

LEMMA ReadingFacts ==
    ASSUME NEW r, Usable(r)
    PROVE  Sound(r) /\ r.dt \in Nat /\ r.p \in Level /\ Sat(r.dt) \in Ticks
BY DEF Usable

LEMMA ToFacts ==
    ASSUME NEW x \in Detectors, NEW n \in States
    PROVE  /\ To(x, n) \in Detectors
           /\ To(x, n).st = n /\ To(x, n).age = x.age /\ To(x, n).vp = x.vp
           /\ To(x, n).outage = x.outage /\ To(x, n).matched = x.matched
           /\ To(x, n).clk \in {x.clk, [x.clk EXCEPT !.pulse = NoPulse]}
           /\ To(x, n).up => x.up /\ ~(n = "running" /\ x.st \in {"off", "starting"})
           /\ x.up /\ n # "running" => To(x, n).up
           /\ x.up /\ x.st \notin {"off", "starting"} => To(x, n).up
<1>1. CASE x.st = n
  BY <1>1 DEF To
<1>2. CASE x.st # n
  <2> DEFINE clk == [x.clk EXCEPT !.pulse = IF n \in Open THEN @ ELSE NoPulse]
             back == IF n = "starting" THEN x.back ELSE NoBack
             since == IF n = "starting" THEN x.since ELSE None
             band == IF n \in {"delay_wait", "running"} \/ (n = "off" /\ ~x.keepBand)
                     THEN None ELSE x.band
             keepBand == x.keepBand /\ n \notin {"off", "delay_wait", "running"}
             waitHigh == IF n \in {"off", "delay_wait"} THEN None ELSE x.waitHigh
             trueOff == IF n \in {"off", "delay_wait"} THEN 0 ELSE x.trueOff
             pausedOff == IF n \in {"off", "starting"} THEN None ELSE x.pausedOff
             idle == IF n \in {"off", "anti_wrinkle", "starting"} THEN 0 ELSE x.idle
             cand == IF n = "anti_wrinkle" THEN None ELSE x.cand
             hot == x.hot /\ n # "anti_wrinkle"
             up == x.up /\ ~(n = "running" /\ x.st \in {"off", "starting"})
  <2> DEFINE y == [x EXCEPT !.st = n, !.enter = 0, !.clk = clk, !.back = back,
                            !.since = since, !.band = band, !.keepBand = keepBand]
             z == [y EXCEPT !.waitHigh = waitHigh, !.trueOff = trueOff,
                            !.pausedOff = pausedOff, !.idle = idle, !.cand = cand,
                            !.hot = hot, !.up = up]
  <2>1. To(x, n) = z
    BY <1>2 DEF To, Detectors
  <2>2. clk \in Clocks /\ clk \in {x.clk, [x.clk EXCEPT !.pulse = NoPulse]}
    BY CapFacts DEF Detectors, Clocks
  <2>3. back \in Backs
    BY DEF Detectors, Backs
  <2>4. since \in Ages /\ band \in Ages /\ waitHigh \in Ages /\ pausedOff \in Ages /\ cand \in Ages
    BY DEF Detectors, Ages
  <2>5. trueOff \in Ticks /\ idle \in Ticks /\ 0 \in Ticks
    BY CapFacts DEF Detectors
  <2>6. keepBand \in BOOLEAN /\ hot \in BOOLEAN /\ up \in BOOLEAN
    BY DEF Detectors
  <2>7. /\ up => x.up /\ ~(n = "running" /\ x.st \in {"off", "starting"})
        /\ x.up /\ n # "running" => up
        /\ x.up /\ x.st \notin {"off", "starting"} => up
    OBVIOUS
  <2> HIDE DEF clk, back, since, band, keepBand, waitHigh, trueOff, pausedOff, idle, cand, hot, up
  <2>8. y \in Detectors /\ y.st = n /\ y.age = x.age /\ y.vp = x.vp
        /\ y.outage = x.outage /\ y.matched = x.matched /\ y.clk = clk
    BY <2>2, <2>3, <2>4, <2>5, <2>6 DEF Detectors
  <2> HIDE DEF y
  <2>9. z \in Detectors /\ z.st = y.st /\ z.age = y.age /\ z.vp = y.vp
        /\ z.outage = y.outage /\ z.matched = y.matched /\ z.clk = y.clk /\ z.up = up
    BY <2>4, <2>5, <2>6, <2>8, ZenonT(60) DEF Detectors
  <2> QED
    BY <2>1, <2>2, <2>7, <2>8, <2>9
<1> QED
  BY <1>1, <1>2

LEMMA ClocksAfterResetFacts ==
    ASSUME NEW c \in Clocks, NEW n
    PROVE  /\ ClocksAfterReset(c, n) \in Clocks
           /\ Consistent(c) => Consistent(ClocksAfterReset(c, n))
<1>1. c.below \in Ticks /\ c.gapfree \in Ticks /\ c.last \in 0..StartLevel
  BY DEF Clocks
<1>2. ClocksAfterReset(c, n) \in Clocks
  BY <1>1, CapFacts DEF ClocksAfterReset, Clocks
<1>3. c.below <= Cap /\ 0 <= Cap
  BY <1>1, CapFacts
<1>4. CASE n = "anti_wrinkle"
  <2>1. LET k == ClocksAfterReset(c, n)
        IN  k.below = c.below /\ k.gapfree = c.gapfree /\ k.silent = Cap /\ k.pulse = NoPulse
    BY <1>4 DEF ClocksAfterReset, ClearClocks
  <2> QED
    BY <1>2, <1>3, <2>1 DEF Consistent, NoPulse
<1>5. CASE n # "anti_wrinkle"
  <2>1. LET k == ClocksAfterReset(c, n)
        IN  k.below = 0 /\ k.gapfree = 0 /\ k.silent = Cap /\ k.pulse = NoPulse
    BY <1>5 DEF ClocksAfterReset, ClearClocks
  <2> QED
    BY <1>2, <1>3, <2>1 DEF Consistent, NoPulse
<1> QED
  BY <1>4, <1>5

LEMMA ResetFacts ==
    ASSUME NEW x \in Detectors, NEW n \in States
    PROVE  /\ Reset(x, n) \in Detectors
           /\ Reset(x, n).st = n /\ Reset(x, n).age = None /\ Reset(x, n).vp = FALSE
           /\ Reset(x, n).outage = x.outage
           /\ Reset(x, n).clk = ClocksAfterReset(x.clk, n)
<1> DEFINE clk == ClocksAfterReset(x.clk, n)
           y == [To(x, n) EXCEPT !.age = None, !.clk = clk, !.matched = FALSE, !.vp = FALSE,
                                 !.lock = FALSE, !.lockHigh = 0, !.back = NoBack]
           z == [y EXCEPT !.since = None, !.waitHigh = None, !.trueOff = 0, !.pausedOff = None,
                          !.idle = 0, !.floor = FALSE, !.cand = None, !.hot = FALSE]
<1>1. Reset(x, n) = z
  BY DEF Reset
<1>2. clk \in Clocks
  BY ClocksAfterResetFacts DEF Detectors
<1>3. NoBack \in Backs /\ None \in Ages /\ 0 \in Ticks
  BY CapFacts DEF Backs, Ages
<1>4. To(x, n) \in Detectors /\ To(x, n).st = n /\ To(x, n).outage = x.outage
  BY ToFacts
<1> HIDE DEF clk
<1>5. y \in Detectors /\ y.st = n /\ y.age = None /\ y.vp = FALSE /\ y.outage = x.outage
      /\ y.clk = clk
  BY <1>2, <1>3, <1>4 DEF Detectors
<1> HIDE DEF y
<1>6. z \in Detectors /\ z.st = y.st /\ z.age = y.age /\ z.vp = y.vp /\ z.outage = y.outage
      /\ z.clk = y.clk
  BY <1>3, <1>5, ZenonT(60) DEF Detectors
<1> QED
  BY <1>1, <1>5, <1>6 DEF clk

LEMMA SatSum == ASSUME NEW n \in Ticks, NEW dt \in Nat PROVE Sat(n + dt) \in Ticks
BY CapFacts

LEMMA LaterFacts ==
    ASSUME NEW n \in Ages, NEW dt \in Nat
    PROVE  Later(n, dt) \in Ages /\ (Later(n, dt) = None <=> n = None)
BY CapFacts DEF Later, Ages, None

-----------------------------------------------------------------------------
\* A user's pause and the flag the finishers look at go together in an open cycle.
Held(x) == x.st \in Open /\ x.up => x.vp

Started(x) == /\ x.st \in Live => x.age # None
              /\ x.st \in Terminal \union {"anti_wrinkle"} => x.age = None

Sane(x) == Consistent(x.clk) /\ Held(x) /\ Started(x)

IInv == TypeOK /\ Sane(d)

\* A handler that turns x into y keeps what is sane, and the outage.
Keeps(x, y) == y \in Detectors /\ y.outage = x.outage /\ (Sane(x) => Sane(y))

\* A step that acts on x keeps it, and records a cycle under a user's pause only
\* by the 8 h safety.
Good(x) ==
    /\ Keeps(x, d')
    /\ filed' \in Cycles \union {NoCycle}
    /\ filed' # NoCycle /\ Sane(x) /\ x.up => filed'.why = "force_stopped"

LEMMA BecomeGood == ASSUME NEW x, NEW y, Keeps(x, y), Become(y) PROVE Good(x) /\ filed' = NoCycle
BY DEF Become, Good

LEMMA KeepsTrans == ASSUME NEW x, NEW y, NEW z, Keeps(x, y), Keeps(y, z) PROVE Keeps(x, z)
BY DEF Keeps

LEMMA SameKeeps ==
    ASSUME NEW x \in Detectors, NEW y \in Detectors, y.outage = x.outage, y.st = x.st,
           y.clk = x.clk, y.age = x.age, y.vp = x.vp, y.up = x.up
    PROVE  Keeps(x, y)
BY DEF Keeps, Sane, Held, Started

LEMMA NoPulseConsistent ==
    ASSUME NEW c \in Clocks
    PROVE  LET k == [c EXCEPT !.pulse = NoPulse] IN k \in Clocks /\ (Consistent(c) => Consistent(k))
BY CapFacts DEF Consistent, Clocks, NoPulse

\* The transitions that leave a start known.
LEMMA ToKeeps ==
    ASSUME NEW x \in Detectors, NEW n \in States,
           \/ n \in {"off", "delay_wait"}
           \/ n = "running" /\ x.st \in Live
           \/ n \in Open /\ x.st \in Open
    PROVE  Keeps(x, To(x, n))
<1>1. /\ To(x, n) \in Detectors /\ To(x, n).outage = x.outage /\ To(x, n).st = n
      /\ To(x, n).age = x.age /\ To(x, n).vp = x.vp
  BY ToFacts
<1>2. Consistent(x.clk) => Consistent(To(x, n).clk)
  BY ToFacts, NoPulseConsistent DEF Detectors
<1>3. Held(x) => Held(To(x, n))
  BY <1>1, ToFacts DEF Held, Open, Live
<1>4. Started(x) => Started(To(x, n))
  BY <1>1 DEF Started, Live, Open, Terminal
<1> QED
  BY <1>1, <1>2, <1>3, <1>4 DEF Keeps, Sane

LEMMA EndStateFacts ==
    ASSUME NEW s \in CycleStatuses, NEW why
    PROVE  EndState(s, why) \in Terminal \union {"anti_wrinkle"} /\ EndState(s, why) \in States
BY DEF EndState, CycleStatuses, Terminal, States, Live, Open

\* A finisher may act on a cycle no user holds, or by the safety.
LEMMA FinishGood ==
    ASSUME NEW x \in Detectors, NEW lengths, NEW status \in CycleStatuses,
           NEW why \in Reasons, NEW lock \in BOOLEAN, NEW floor \in BOOLEAN,
           Finish(x, lengths, status, why, lock, floor)
    PROVE  /\ Keeps(x, d') /\ filed' \in Cycles \union {NoCycle}
           /\ filed' # NoCycle => filed'.why = why
<1>1. CASE x.age = None
  <2> DEFINE y == Reset(x, "off")
  <2>1. y \in Detectors /\ y.st = "off" /\ y.outage = x.outage /\ y.vp = FALSE
        /\ y.clk = ClocksAfterReset(x.clk, "off")
    BY ResetFacts DEF States
  <2>2. d' = [y EXCEPT !.lock = lock] /\ filed' = NoCycle
    BY <1>1 DEF Finish
  <2> HIDE DEF y
  <2>3. d' \in Detectors /\ d'.st = "off" /\ d'.outage = x.outage /\ d'.clk = y.clk
    BY <2>1, <2>2 DEF Detectors
  <2>4. Consistent(x.clk) => Consistent(d'.clk)
    BY <2>1, <2>3, ClocksAfterResetFacts DEF Detectors
  <2>5. Held(d') /\ Started(d')
    BY <2>3 DEF Held, Started, Open, Live, Terminal
  <2> QED
    BY <2>2, <2>3, <2>4, <2>5 DEF Keeps, Sane
<1>2. CASE x.age # None
  <2>1. PICK len \in lengths :
          LET s == IF len < MinComplete THEN "interrupted" ELSE status
              n == EndState(s, why)
          IN /\ filed' = [status |-> s, why |-> why]
             /\ d' = [Reset(x, n) EXCEPT !.lock = lock, !.floor = floor /\ n = "anti_wrinkle"]
    BY <1>2 DEF Finish
  <2> DEFINE s == IF len < MinComplete THEN "interrupted" ELSE status
             n == EndState(s, why)
             y == Reset(x, n)
             keep == floor /\ n = "anti_wrinkle"
  <2>2. s \in CycleStatuses
    BY DEF CycleStatuses
  <2>3. n \in Terminal \union {"anti_wrinkle"} /\ n \in States
    BY <2>2, EndStateFacts
  <2>4. d' = [y EXCEPT !.lock = lock, !.floor = keep] /\ filed' = [status |-> s, why |-> why]
    BY <2>1
  <2>5. y \in Detectors /\ y.st = n /\ y.outage = x.outage /\ y.age = None
        /\ y.clk = ClocksAfterReset(x.clk, n)
    BY <2>3, ResetFacts
  <2>6. keep \in BOOLEAN
    OBVIOUS
  <2> HIDE DEF s, n, y, keep
  <2>7. d' \in Detectors /\ d'.st = n /\ d'.outage = x.outage /\ d'.age = None /\ d'.clk = y.clk
    BY <2>4, <2>5, <2>6 DEF Detectors
  <2>8. Consistent(x.clk) => Consistent(d'.clk)
    BY <2>5, <2>7, ClocksAfterResetFacts DEF Detectors
  <2>9. Held(d') /\ Started(d')
    BY <2>3, <2>7 DEF Held, Started, Open, Live, Terminal
  <2> QED
    BY <2>2, <2>4, <2>7, <2>8, <2>9 DEF Keeps, Sane, Cycles
<1> QED
  BY <1>1, <1>2

-----------------------------------------------------------------------------
\* A probe begins with a known start, from a state that is no open cycle.
LEMMA BeginKeeps ==
    ASSUME NEW x \in Detectors, NEW back \in Backs,
           NEW since \in Ages, NEW age \in Ticks
    PROVE  Keeps(x, Begin(x, back, since, age))
<1> DEFINE y == To(x, "starting")
           z == [y EXCEPT !.back = back, !.since = since, !.age = age]
<1>1. y \in Detectors /\ y.st = "starting" /\ y.outage = x.outage
      /\ y.clk \in {x.clk, [x.clk EXCEPT !.pulse = NoPulse]}
  BY ToFacts DEF States, Live
<1>2. Begin(x, back, since, age) = z
  BY DEF Begin
<1>3. age \in Ages /\ age # None
  BY CapFacts DEF Ages, None
<1> HIDE DEF y
<1>4. z \in Detectors /\ z.st = "starting" /\ z.outage = x.outage /\ z.age = age /\ z.clk = y.clk
  BY <1>1, <1>3 DEF Detectors
<1>5. Consistent(x.clk) => Consistent(z.clk)
  BY <1>1, <1>4, NoPulseConsistent DEF Detectors
<1>6. Held(z) /\ Started(z)
  BY <1>3, <1>4 DEF Held, Started, Open, Terminal
<1> QED
  BY <1>2, <1>4, <1>5, <1>6 DEF Keeps, Sane

LEMMA ElapseFacts ==
    ASSUME NEW x \in Detectors, NEW r, Usable(r)
    PROVE  LET y == Elapse(x, r)
           IN  /\ y \in Detectors /\ y.st = x.st /\ y.clk = x.clk /\ y.up = x.up
               /\ (Sane(x) => Sane(y)) /\ (Real(r) => y.outage = "none")
<1> DEFINE enter == Sat(x.enter + r.dt)
           age == Later(x.age, r.dt)
           back == IF x.back = NoBack THEN NoBack
                   ELSE [x.back EXCEPT !.enter = Sat(x.back.enter + r.dt)]
           since == Later(x.since, r.dt)
           band == Later(x.band, r.dt)
           waitHigh == Later(x.waitHigh, r.dt)
           pausedOff == Later(x.pausedOff, r.dt)
           cand == Later(x.cand, r.dt)
           outage == IF Real(r) \/ x.outage = "none" THEN "none" ELSE "old"
           y == [x EXCEPT !.enter = enter, !.age = age, !.back = back, !.since = since,
                          !.band = band, !.waitHigh = waitHigh, !.pausedOff = pausedOff,
                          !.cand = cand, !.outage = outage]
<1>1. Elapse(x, r) = y
  BY DEF Elapse
<1>2. r.dt \in Nat
  BY ReadingFacts
<1>0. /\ x.enter \in Ticks /\ x.age \in Ages /\ x.since \in Ages /\ x.band \in Ages
      /\ x.waitHigh \in Ages /\ x.pausedOff \in Ages /\ x.cand \in Ages
      /\ x.back \in Backs
  BY DEF Detectors
<1>3. enter \in Ticks
  BY <1>0, <1>2, SatSum
<1>4. age \in Ages /\ (age = None <=> x.age = None)
  BY <1>0, <1>2, LaterFacts
<1>5. since \in Ages /\ band \in Ages /\ waitHigh \in Ages /\ pausedOff \in Ages /\ cand \in Ages
  BY <1>0, <1>2, LaterFacts
<1>6. back \in Backs
  <2>1. CASE x.back = NoBack
    BY <2>1 DEF Backs
  <2>2. CASE x.back \in [st : Terminal, enter : Ticks]
    <3>1. Sat(x.back.enter + r.dt) \in Ticks
      BY <1>2, <2>2, SatSum
    <3> QED
      BY <2>2, <3>1 DEF Backs
  <2> QED
    BY <1>0, <2>1, <2>2 DEF Backs
<1>7. outage \in {"none", "fresh", "old"} /\ (Real(r) => outage = "none")
  OBVIOUS
<1> HIDE DEF enter, age, back, since, band, waitHigh, pausedOff, cand, outage
<1>8. y \in Detectors
  BY <1>3, <1>4, <1>5, <1>6, <1>7 DEF Detectors
<1>9. /\ y.st = x.st /\ y.clk = x.clk /\ y.up = x.up /\ y.vp = x.vp
      /\ y.age = age /\ y.outage = outage
  BY DEF Detectors
<1> HIDE DEF y
<1>10. Sane(x) => Sane(y)
  BY <1>4, <1>9 DEF Sane, Held, Started
<1> QED
  BY <1>1, <1>7, <1>8, <1>9, <1>10

\* The clocks tick, and a resumed cycle runs again.
LEMMA TickedFacts ==
    ASSUME NEW x \in Detectors, NEW r, Usable(r)
    PROVE  LET y == Ticked(x, r)
           IN  /\ y \in Detectors /\ (Sane(x) => Sane(y)) /\ y.outage = x.outage
               /\ x.up /\ x.st \in Open => y.up
               /\ y.st = x.st \/ (x.st \in Open /\ y.st = "running")
<1> DEFINE threshold == Threshold(x.st)
           open == x.st \in Open
           resumes == /\ x.clk.pulse.resume /\ Rejects(x.clk, r, threshold, open)
                      /\ x.st \in {"paused", "ending"}
           enter == Sat(r.dt)
           run == To(x, "running")
           y == IF resumes THEN [run EXCEPT !.enter = enter] ELSE x
           clk == Tick(x.clk, r, threshold, open)
           z == [y EXCEPT !.clk = clk]
<1>1. Ticked(x, r) = z
  BY DEF Ticked
<1>2. enter \in Ticks /\ Sound(r)
  BY ReadingFacts
<1>3. clk \in Clocks /\ (Consistent(x.clk) => Consistent(clk))
  BY <1>2, TickFacts DEF Detectors
<1>4. /\ y \in Detectors /\ (Held(x) => Held(y)) /\ (Started(x) => Started(y))
      /\ y.outage = x.outage /\ (x.up /\ x.st \in Open => y.up)
      /\ y.st = x.st \/ (x.st \in Open /\ y.st = "running")
  <2>1. CASE ~resumes
    BY <2>1
  <2>2. CASE resumes
    <3>1. x.st \in Open /\ x.st \in Live /\ x.st \notin {"off", "starting"}
      BY <2>2 DEF Open, Live
    <3>2. /\ run \in Detectors /\ run.st = "running" /\ run.age = x.age /\ run.vp = x.vp
          /\ run.outage = x.outage /\ (run.up => x.up) /\ (x.up => run.up)
      BY <3>1, ToFacts DEF States, Live, Open
    <3> HIDE DEF run, enter, resumes
    <3>3. /\ y \in Detectors /\ y.st = "running" /\ y.age = x.age /\ y.vp = x.vp
          /\ y.outage = x.outage /\ (y.up => x.up) /\ (x.up => y.up)
      BY <1>2, <2>2, <3>2 DEF Detectors
    <3>4. (Held(x) => Held(y)) /\ (Started(x) => Started(y))
      BY <3>1, <3>3 DEF Held, Started, Terminal
    <3> QED
      BY <3>1, <3>3, <3>4
  <2> QED
    BY <2>1, <2>2
<1> HIDE DEF y, clk
<1>5. /\ z \in Detectors /\ z.st = y.st /\ z.clk = clk /\ z.age = y.age /\ z.vp = y.vp
      /\ z.up = y.up /\ z.outage = y.outage
  BY <1>3, <1>4 DEF Detectors
<1> HIDE DEF z
<1>6. Sane(x) => Sane(z)
  BY <1>3, <1>4, <1>5 DEF Sane, Held, Started
<1> QED
  BY <1>1, <1>4, <1>5, <1>6

-----------------------------------------------------------------------------
\* A handler outside the open cycles records nothing.
Files(x) == Good(x) /\ (x.st \notin Open => filed' = NoCycle)

LEMMA BecomeFiles == ASSUME NEW x, NEW y, Keeps(x, y), Become(y) PROVE Files(x)
BY BecomeGood DEF Files

LEMMA SelfKeeps == ASSUME NEW x \in Detectors PROVE Keeps(x, x)
BY DEF Keeps

LEMMA InIdleFiles ==
    ASSUME NEW x \in Detectors, NEW r, Usable(r), InIdle(x, r)
    PROVE  Files(x)
<1> DEFINE band == IF x.band = None THEN 0 ELSE x.band
           marked == [x EXCEPT !.band = band]
           kept == [x EXCEPT !.keepBand = x.band # None]
           clear == [x EXCEPT !.band = None, !.keepBand = FALSE]
           back == IF x.st \in Terminal THEN [st |-> x.st, enter |-> x.enter] ELSE NoBack
<1>1. band \in Ages /\ None \in Ages /\ 0 \in Ticks
  BY CapFacts DEF Detectors, Ages
<1>2. back \in Backs
  BY DEF Backs, Detectors
<1>3. (x.band # None) \in BOOLEAN
  OBVIOUS
<1>4. InIdle(x, r) =>
        \/ Become(To(x, "delay_wait")) \/ Become(marked) \/ Become(clear) \/ Become(x)
        \/ \E age \in {0, Preroll} : Become(Begin(kept, back, None, age))
  BY DEF InIdle
<1> HIDE DEF band, back
<1>5. Keeps(x, marked) /\ Keeps(x, clear)
  <2>1. marked \in Detectors /\ clear \in Detectors
    BY <1>1 DEF Detectors
  <2> QED
    BY <2>1, SameKeeps DEF Detectors
<1>6. kept \in Detectors /\ Keeps(x, kept)
  <2>1. kept \in Detectors
    BY <1>3 DEF Detectors
  <2> QED
    BY <2>1, SameKeeps DEF Detectors
<1> HIDE DEF marked, kept, clear
<1>7. \A age \in {0, Preroll} : Keeps(x, Begin(kept, back, None, age))
  <2> SUFFICES ASSUME NEW age \in {0, Preroll} PROVE Keeps(x, Begin(kept, back, None, age))
    OBVIOUS
  <2>1. age \in Ticks
    BY <1>1, DetectorAssumption
  <2>2. Keeps(kept, Begin(kept, back, None, age))
    BY <1>1, <1>2, <1>6, <2>1, BeginKeeps
  <2> QED
    BY <1>6, <2>2, KeepsTrans
<1>8. Keeps(x, To(x, "delay_wait")) /\ Keeps(x, x)
  BY ToKeeps, SelfKeeps DEF States
<1> QED
  BY <1>4, <1>5, <1>7, <1>8, BecomeFiles

LEMMA InAntiWrinkleFiles ==
    ASSUME NEW x \in Detectors, NEW r, Usable(r), InAntiWrinkle(x, r)
    PROVE  Files(x)
<1> PICK tumble \in {FALSE, x.floor}, quiet \in {r.p < StopLevel, r.p <= StopLevel} :
    LET cand == IF x.cand = None THEN 0 ELSE x.cand
        hot == x.hot \/ r.p > BurstLevel
        limit == IF x.floor /\ FloorBurst > BurstLimit THEN FloorBurst ELSE BurstLimit
        unburst == [x EXCEPT !.cand = None, !.hot = FALSE]
        burst == IF ~IsHigh(x, r) THEN x
                 ELSE IF tumble THEN unburst
                 ELSE [x EXCEPT !.cand = cand, !.hot = hot]
        rested == [unburst EXCEPT !.idle = Sat(@ + r.dt)]
    IN IF IsHigh(x, r) /\ ~tumble /\ (hot \/ cand > limit)
       THEN Become(Begin(unburst, NoBack, None, cand))
       ELSE IF quiet
       THEN Become(IF rested.idle >= AWIdle \/ x.enter > AWMax THEN To(rested, "off") ELSE rested)
       ELSE Become(IF x.enter > AWMax THEN To(burst, "off") ELSE [burst EXCEPT !.idle = 0])
  BY DEF InAntiWrinkle
<1> DEFINE cand == IF x.cand = None THEN 0 ELSE x.cand
           hot == x.hot \/ r.p > BurstLevel
           unburst == [x EXCEPT !.cand = None, !.hot = FALSE]
           candidate == [x EXCEPT !.cand = cand, !.hot = hot]
           burst == IF ~IsHigh(x, r) THEN x ELSE IF tumble THEN unburst ELSE candidate
           idle == Sat(x.idle + r.dt)
           rested == [unburst EXCEPT !.idle = idle]
           busy == [burst EXCEPT !.idle = 0]
<1>1. unburst.idle = x.idle
  BY DEF Detectors
<1>2. \/ Become(Begin(unburst, NoBack, None, cand))
      \/ Become(To(rested, "off")) \/ Become(rested)
      \/ Become(To(burst, "off")) \/ Become(busy)
  BY <1>1
<1>3. cand \in Ticks /\ 0 \in Ticks /\ None \in Ages /\ cand \in Ages
  BY CapFacts DEF Detectors, Ages
<1>4. hot \in BOOLEAN
  BY DEF Detectors
<1>5. idle \in Ticks
  BY ReadingFacts, SatSum DEF Detectors
<1> HIDE DEF cand, hot, idle
<1>6. /\ unburst \in Detectors /\ unburst.outage = x.outage /\ unburst.st = x.st
      /\ unburst.clk = x.clk /\ unburst.age = x.age /\ unburst.vp = x.vp /\ unburst.up = x.up
  BY <1>3 DEF Detectors
<1>7. /\ candidate \in Detectors /\ candidate.outage = x.outage /\ candidate.st = x.st
      /\ candidate.clk = x.clk /\ candidate.age = x.age /\ candidate.vp = x.vp
      /\ candidate.up = x.up
  BY <1>3, <1>4 DEF Detectors
<1> HIDE DEF unburst, candidate
<1>8. burst \in Detectors /\ Keeps(x, burst) /\ Keeps(x, unburst)
  BY <1>6, <1>7, SameKeeps, SelfKeeps
<1> HIDE DEF burst
<1>9. rested \in Detectors /\ Keeps(x, rested)
  <2>1. /\ rested \in Detectors /\ rested.outage = unburst.outage /\ rested.st = unburst.st
        /\ rested.clk = unburst.clk /\ rested.age = unburst.age /\ rested.vp = unburst.vp
        /\ rested.up = unburst.up
    BY <1>5, <1>6 DEF Detectors
  <2> QED
    BY <1>6, <1>8, <2>1, SameKeeps, KeepsTrans
<1>10. Keeps(x, busy)
  <2>1. /\ busy \in Detectors /\ busy.outage = burst.outage /\ busy.st = burst.st
        /\ busy.clk = burst.clk /\ busy.age = burst.age /\ busy.vp = burst.vp
        /\ busy.up = burst.up
    BY <1>3, <1>8 DEF Detectors
  <2> QED
    BY <1>8, <2>1, SameKeeps, KeepsTrans
<1> HIDE DEF rested, busy
<1>11. Keeps(x, To(rested, "off")) /\ Keeps(x, To(burst, "off"))
  BY <1>8, <1>9, ToKeeps, KeepsTrans DEF States
<1>12. Keeps(x, Begin(unburst, NoBack, None, cand))
  BY <1>3, <1>6, <1>8, BeginKeeps, KeepsTrans DEF Backs
<1> QED
  BY <1>2, <1>9, <1>10, <1>11, <1>12, BecomeFiles

LEMMA InDelayWaitFiles ==
    ASSUME NEW x \in Detectors, NEW r, Usable(r), InDelayWait(x, r)
    PROVE  Files(x)
<1> DEFINE off == IF r.p < StopLevel THEN Sat(x.trueOff + r.dt) ELSE 0
           lit == [x EXCEPT !.trueOff = 0]
           first == [x EXCEPT !.trueOff = 0, !.waitHigh = 0]
           dark == [x EXCEPT !.waitHigh = None, !.trueOff = off]
<1>1. \/ Become(first) \/ Become(lit) \/ Become(To(x, "off")) \/ Become(dark)
      \/ /\ x.waitHigh # None
         /\ \E age \in {x.waitHigh, Preroll} : Become(Begin(lit, NoBack, x.enter, age))
  BY DEF InDelayWait
<1>2. off \in Ticks
  BY ReadingFacts, SatSum, CapFacts DEF Detectors
<1>3. 0 \in Ticks /\ 0 \in Ages /\ None \in Ages /\ NoBack \in Backs
  BY CapFacts DEF Ages, Backs
<1> HIDE DEF off
<1>4. lit \in Detectors /\ first \in Detectors /\ dark \in Detectors
  BY <1>2, <1>3 DEF Detectors
<1>5. Keeps(x, lit) /\ Keeps(x, first) /\ Keeps(x, dark)
  BY <1>4, SameKeeps, ZenonT(60) DEF Detectors
<1> HIDE DEF lit, first, dark
<1>6. Keeps(x, To(x, "off"))
  BY ToKeeps DEF States
<1>7. ASSUME x.waitHigh # None, NEW age \in {x.waitHigh, Preroll}
      PROVE  Keeps(x, Begin(lit, NoBack, x.enter, age))
  <2>1. age \in Ticks
    BY <1>7, DetectorAssumption DEF Detectors, Ages
  <2>2. x.enter \in Ages
    BY DEF Detectors, Ages
  <2> QED
    BY <1>3, <1>4, <1>5, <2>1, <2>2, BeginKeeps, KeepsTrans
<1> QED
  BY <1>1, <1>5, <1>6, <1>7, BecomeFiles

LEMMA ReturnedKeeps ==
    ASSUME NEW x \in Detectors, x.back # NoBack
    PROVE  Keeps(x, Returned(x))
<1> DEFINE y == To(x, x.back.st)
           clk == [y.clk EXCEPT !.silent = Cap, !.above = 0]
           z == [y EXCEPT !.enter = x.back.enter, !.age = None, !.clk = clk]
<1>1. x.back.st \in Terminal /\ x.back.st \in States /\ x.back.enter \in Ticks
  BY DEF Detectors, Backs, States
<1>2. /\ y \in Detectors /\ y.st = x.back.st /\ y.outage = x.outage
      /\ y.clk \in {x.clk, [x.clk EXCEPT !.pulse = NoPulse]}
  BY <1>1, ToFacts
<1>3. y.clk \in Clocks /\ x.clk \in Clocks
  BY <1>2 DEF Detectors
<1>4. Consistent(x.clk) => Consistent(y.clk)
  BY <1>2, <1>3, NoPulseConsistent
<1> HIDE DEF y
<1>5. Returned(x) = z
  BY <1>2 DEF Returned, Detectors, y
<1>6. clk \in Clocks
  BY <1>3, CapFacts DEF Clocks
<1>7. Consistent(y.clk) => Consistent(clk)
  <2>1. /\ clk.below = y.clk.below /\ clk.gapfree = y.clk.gapfree /\ clk.silent = Cap
        /\ clk.pulse = y.clk.pulse
    BY <1>3 DEF Clocks
  <2>2. y.clk.below \in 0..Cap
    BY <1>3 DEF Clocks, Ticks
  <2>3. y.clk.below <= Cap
    BY <2>2, ClockAssumption
  <2> QED
    BY <2>1, <2>3 DEF Consistent
<1> HIDE DEF clk
<1>8. None \in Ages
  BY DEF Ages
<1>9. z \in Detectors /\ z.st = y.st /\ z.age = None /\ z.clk = clk /\ z.outage = y.outage
  BY <1>1, <1>2, <1>6, <1>8 DEF Detectors
<1>10. Held(z) /\ Started(z)
  BY <1>1, <1>2, <1>9 DEF Held, Started, Open, Live, Terminal
<1> QED
  BY <1>2, <1>4, <1>5, <1>7, <1>9, <1>10 DEF Keeps, Sane

LEMMA FalseStartKeeps ==
    ASSUME NEW x \in Detectors, NEW r, Usable(r), FalseStart(x, r)
    PROVE  Good(x) /\ filed' = NoCycle
<1>1. CASE x.back # NoBack
  BY <1>1, ReturnedKeeps, BecomeGood DEF FalseStart
<1>2. CASE x.back = NoBack /\ x.since # None /\ r.p >= StopLevel /\ x.since < DelayTimeout
  <2> DEFINE y == To(x, "delay_wait")
             z == [y EXCEPT !.enter = x.since]
  <2>1. Become(z)
    BY <1>2 DEF FalseStart
  <2>2. y \in Detectors /\ Keeps(x, y)
    BY ToKeeps, ToFacts DEF States
  <2>3. x.since \in Ticks
    BY <1>2 DEF Detectors, Ages
  <2> HIDE DEF y
  <2>4. /\ z \in Detectors /\ z.outage = y.outage /\ z.st = y.st /\ z.clk = y.clk
        /\ z.age = y.age /\ z.vp = y.vp /\ z.up = y.up
    BY <2>2, <2>3 DEF Detectors
  <2> HIDE DEF z
  <2> QED
    BY <2>1, <2>2, <2>4, SameKeeps, KeepsTrans, BecomeGood
<1>3. CASE /\ x.back = NoBack
           /\ ~(x.since # None /\ r.p >= StopLevel /\ x.since < DelayTimeout)
  BY <1>3, ToKeeps, BecomeGood DEF FalseStart, States
<1> QED
  BY <1>1, <1>2, <1>3

LEMMA InStartingFiles ==
    ASSUME NEW x \in Detectors, NEW r, Usable(r), x.st = "starting", InStarting(x, r)
    PROVE  Files(x)
<1> DEFINE off == IF r.p >= StopLevel \/ r.dt > OutageCeiling THEN None
                  ELSE IF x.pausedOff = None THEN 0 ELSE x.pausedOff
           bright == [x EXCEPT !.pausedOff = None]
           timed == [x EXCEPT !.pausedOff = off]
<1>1. \/ Become(To(bright, "running")) \/ Become(bright) \/ Become(x)
      \/ Become(To(x, "off")) \/ Become(timed) \/ FalseStart(x, r)
  BY DEF InStarting
<1>2. off \in Ages /\ None \in Ages
  BY CapFacts DEF Detectors, Ages
<1> HIDE DEF off
<1>3. bright \in Detectors /\ timed \in Detectors /\ bright.st = "starting"
  BY <1>2 DEF Detectors
<1>4. Keeps(x, bright) /\ Keeps(x, timed)
  BY <1>3, SameKeeps DEF Detectors
<1> HIDE DEF bright, timed
<1>5. Keeps(x, To(bright, "running")) /\ Keeps(x, To(x, "off")) /\ Keeps(x, x)
  BY <1>3, <1>4, ToKeeps, KeepsTrans, SelfKeeps DEF States, Live, Open
<1> QED
  BY <1>1, <1>4, <1>5, BecomeFiles, FalseStartKeeps DEF Files

-----------------------------------------------------------------------------
\* An open cycle that a user pauses is out of the finishers' reach.
LEMMA FinisherGood ==
    ASSUME NEW x \in Detectors, NEW y \in Detectors, Keeps(x, y), x.st \in Open,
           Sane(x) /\ x.up => y.up,
           NEW lengths, NEW status \in CycleStatuses, NEW why \in Reasons,
           NEW lock \in BOOLEAN, NEW floor \in BOOLEAN,
           Finish(y, lengths, status, why, lock, floor),
           why = "force_stopped" \/ ~y.up \/ (y.st \in Open /\ ~y.vp)
    PROVE  Files(x)
<1>1. /\ Keeps(y, d') /\ filed' \in Cycles \union {NoCycle}
      /\ filed' # NoCycle => filed'.why = why
  BY FinishGood
<1>2. Sane(x) /\ x.up => y.up /\ Held(y)
  BY DEF Keeps, Sane
<1> QED
  BY <1>1, <1>2, KeepsTrans DEF Files, Good, Held

\* The finishers of an open cycle, on x or on what a step first made of it.
LEMMA OpenFinishers ==
    ASSUME NEW x \in Detectors, NEW y \in Detectors, Keeps(x, y),
           x.st \in Open, y.st \in Open, Sane(x) /\ x.up => y.up,
           AntiCrease(y) \/ StandbyBand(y) \/ ForceStop(y) \/ Quiet(y)
    PROVE  Files(x)
<1> USE DEF Reasons, CycleStatuses
<1>1. CASE AntiCrease(y)
  BY <1>1, FinisherGood DEF AntiCrease
<1>2. CASE StandbyBand(y)
  BY <1>2, FinisherGood DEF StandbyBand
<1>3. CASE ForceStop(y)
  BY <1>3, FinisherGood DEF ForceStop
<1>4. CASE Quiet(y)
  <2>1. CASE ~y.up /\ Finish(y, MaybeTailed(y), "completed", "smart", FALSE, FALSE)
    BY <2>1, FinisherGood
  <2>2. CASE ~y.vp /\ Finish(y, Trimmed(y), "completed", "timeout", FALSE, FALSE)
    BY <2>2, FinisherGood
  <2>3. CASE ~y.vp /\ Finish(y, Trimmed(y), "interrupted", "terminal_drop", FALSE, FALSE)
    BY <2>3, FinisherGood
  <2>4. CASE ~y.vp /\ Finish(y, MaybeTailed(y), "completed", "timeout", FALSE, FALSE)
    BY <2>4, FinisherGood
  <2>5. CASE Become(y)
    BY <2>5, BecomeFiles
  <2> QED
    BY <1>4, <2>1, <2>2, <2>3, <2>4, <2>5 DEF Quiet
<1> QED
  BY <1>1, <1>2, <1>3, <1>4

LEMMA ToPaused ==
    ASSUME NEW x \in Detectors, x.st \in Open, NEW n \in Open
    PROVE  LET y == To(x, n)
           IN  y \in Detectors /\ Keeps(x, y) /\ y.st \in Open /\ (x.up => y.up)
<1>1. n \in States /\ x.st \notin {"off", "starting"}
  BY DEF States, Live, Open
<1> QED
  BY <1>1, ToFacts, ToKeeps

LEMMA ResumingKeeps == ASSUME NEW x \in Detectors PROVE Keeps(x, Resuming(x))
<1> DEFINE clk == [x.clk EXCEPT !.pulse = [x.clk.pulse EXCEPT !.resume = TRUE]]
           y == [x EXCEPT !.clk = clk]
<1>1. x.clk \in Clocks
  BY DEF Detectors
<1>2. clk \in Clocks /\ (Consistent(x.clk) => Consistent(clk))
  BY <1>1 DEF Clocks, Pulse, Consistent
<1>3. Resuming(x) = y
  BY <1>1 DEF Resuming, Detectors
<1> HIDE DEF clk
<1>4. /\ y \in Detectors /\ y.clk = clk /\ y.st = x.st /\ y.age = x.age /\ y.vp = x.vp
      /\ y.up = x.up /\ y.outage = x.outage
  BY <1>2 DEF Detectors
<1> HIDE DEF y
<1> QED
  BY <1>2, <1>3, <1>4 DEF Keeps, Sane, Held, Started

LEMMA InRunningFiles ==
    ASSUME NEW x \in Detectors, NEW r, Usable(r), x.st \in Open, InRunning(x, r)
    PROVE  Files(x)
<1> DEFINE y == IF x.clk.below >= PauseAfter THEN To(x, "paused") ELSE x
<1>1. AntiCrease(x) \/ StandbyBand(y) \/ ForceStop(y) \/ Become(y)
  BY DEF InRunning
<1>2. y \in Detectors /\ Keeps(x, y) /\ y.st \in Open /\ (x.up => y.up)
  BY ToPaused, SelfKeeps DEF Open
<1> HIDE DEF y
<1> QED
  BY <1>1, <1>2, OpenFinishers, SelfKeeps, BecomeFiles

LEMMA InPausedFiles ==
    ASSUME NEW x \in Detectors, NEW r, Usable(r), x.st \in Open, InPaused(x, r)
    PROVE  Files(x)
<1>1. \/ AntiCrease(x) \/ Become(To(x, "running")) \/ Become(Resuming(x)) \/ Become(x)
      \/ Become(To(x, "ending"))
  BY DEF InPaused
<1>2. Keeps(x, To(x, "running")) /\ Keeps(x, To(x, "ending")) /\ Keeps(x, x)
  BY ToPaused, SelfKeeps DEF Open
<1> QED
  BY <1>1, <1>2, OpenFinishers, ResumingKeeps, BecomeFiles

LEMMA InEndingFiles ==
    ASSUME NEW x \in Detectors, NEW r, Usable(r), x.st \in Open, InEnding(x, r)
    PROVE  Files(x)
<1>1. CASE ForceStop(x) \/ AntiCrease(x)
  BY <1>1, OpenFinishers, SelfKeeps
<1>2. CASE Spike(x)
  <2>1. StandbyBand(x) \/ Become(x) \/ Become(To(x, "running")) \/ Become(Resuming(x))
    BY <1>2 DEF Spike
  <2>2. Keeps(x, To(x, "running")) /\ Keeps(x, x)
    BY ToPaused, SelfKeeps DEF Open
  <2> QED
    BY <2>1, <2>2, OpenFinishers, ResumingKeeps, BecomeFiles
<1>3. ASSUME NEW y \in Unorphaned(x), Quiet(y) PROVE Files(x)
  <2> DEFINE z == [x EXCEPT !.vp = FALSE]
  <2>1. y = x \/ (y = z /\ ~x.up)
    BY <1>3 DEF Unorphaned
  <2>2. CASE y = x
    BY <1>3, <2>2, OpenFinishers, SelfKeeps
  <2>3. CASE y = z /\ ~x.up
    <3>1. /\ z \in Detectors /\ z.st = x.st /\ z.clk = x.clk /\ z.age = x.age
          /\ z.up = x.up /\ z.outage = x.outage
      BY DEF Detectors
    <3> HIDE DEF z
    <3>2. Keeps(x, z)
      BY <2>3, <3>1 DEF Keeps, Sane, Held, Started
    <3> QED
      BY <1>3, <2>3, <3>1, <3>2, OpenFinishers
  <2> QED
    BY <2>1, <2>2, <2>3
<1> QED
  BY <1>1, <1>2, <1>3 DEF InEnding

LEMMA DispatchFiles ==
    ASSUME NEW x \in Detectors, NEW r, Usable(r), Dispatch(x, r)
    PROVE  Files(x)
<1>1. CASE x.st \in Terminal \union {"off"}
  BY <1>1, InIdleFiles DEF Dispatch, Terminal
<1>2. CASE x.st = "anti_wrinkle"
  BY <1>2, InAntiWrinkleFiles DEF Dispatch, Terminal
<1>3. CASE x.st = "delay_wait"
  BY <1>3, InDelayWaitFiles DEF Dispatch, Terminal
<1>4. CASE x.st = "starting"
  BY <1>4, InStartingFiles DEF Dispatch, Terminal
<1>5. CASE x.st = "running"
  BY <1>5, InRunningFiles DEF Dispatch, Terminal, Open
<1>6. CASE x.st = "paused"
  BY <1>6, InPausedFiles DEF Dispatch, Terminal, Open
<1>7. CASE x.st = "ending"
  BY <1>7, InEndingFiles DEF Dispatch, Terminal, Open
<1>8. \/ x.st \in Terminal \union {"off"} \/ x.st = "anti_wrinkle" \/ x.st = "delay_wait"
      \/ x.st = "starting" \/ x.st = "running" \/ x.st = "paused" \/ x.st = "ending"
  <2>1. x.st \in States
    BY DEF Detectors
  <2> QED
    BY <2>1 DEF States, Live, Open
<1> QED
  BY <1>1, <1>2, <1>3, <1>4, <1>5, <1>6, <1>7, <1>8

-----------------------------------------------------------------------------
LEMMA WaitedFacts ==
    ASSUME NEW c \in Clocks, NEW dt \in Nat
    PROVE  /\ Waited(c, dt) \in Clocks
           /\ Consistent(c) => Consistent(Waited(c, dt))
<1> DEFINE silent == Sat(c.silent + dt)
           w == [c EXCEPT !.silent = silent]
<1>1. Waited(c, dt) = w
  BY DEF Waited
<1>2. c.silent \in 0..Cap /\ c.below \in 0..Cap
  BY DEF Clocks, Ticks
<1>3. silent \in Ticks
  BY <1>2, SatSum DEF Ticks
<1>4. c.below <= c.silent => c.below <= silent
  <2>1. c.silent <= c.silent + dt /\ c.below <= Cap
    BY <1>2, ClockAssumption
  <2>2. silent = c.silent + dt \/ silent = Cap
    BY DEF Sat, Lesser
  <2> QED
    BY <1>2, <2>1, <2>2, ClockAssumption
<1> HIDE DEF silent
<1>5. w \in Clocks
  BY <1>3 DEF Clocks
<1>6. w.below = c.below /\ w.gapfree = c.gapfree /\ w.silent = silent /\ w.pulse = c.pulse
  BY DEF Clocks
<1>7. Consistent(c) => Consistent(w)
  BY <1>4, <1>6 DEF Consistent
<1> QED
  BY <1>1, <1>5, <1>7

\* Neither the level last seen nor a pulse forgotten disturbs the clocks.
LEMMA LevelFacts ==
    ASSUME NEW c \in Clocks, NEW level \in 0..StartLevel
    PROVE  LET k == [c EXCEPT !.last = level]
           IN  k \in Clocks /\ (Consistent(c) => Consistent(k))
<1>1. [c EXCEPT !.last = level] \in Clocks
  BY DEF Clocks
<1>2. LET k == [c EXCEPT !.last = level]
      IN  k.below = c.below /\ k.gapfree = c.gapfree /\ k.silent = c.silent /\ k.pulse = c.pulse
  BY DEF Clocks
<1> QED
  BY <1>1, <1>2 DEF Consistent

\* The first reading after a restart finds the instants grown older.
LEMMA WakingFacts ==
    ASSUME NEW x \in Detectors, NEW r, Usable(r)
    PROVE  LET y == Waking(x, r)
           IN  /\ y \in Detectors /\ y.st = x.st /\ y.up = x.up /\ y.lockHigh = x.lockHigh
               /\ (Sane(x) => Sane(y)) /\ (Real(r) => y.outage = "none")
<1> DEFINE e == Elapse(x, r)
           clk == IF x.first THEN Waited(e.clk, r.dt) ELSE e.clk
           y == [e EXCEPT !.first = FALSE, !.clk = clk]
<1>1. /\ e \in Detectors /\ e.st = x.st /\ e.clk = x.clk /\ e.up = x.up
      /\ (Sane(x) => Sane(e)) /\ (Real(r) => e.outage = "none")
  BY ElapseFacts
<1>2. e.lockHigh = x.lockHigh
  BY DEF Elapse, Detectors
<1>3. Waking(x, r) = y
  BY <1>1 DEF Waking, Detectors
<1>4. clk \in Clocks /\ (Consistent(e.clk) => Consistent(clk))
  BY <1>1, WaitedFacts, ReadingFacts DEF Detectors
<1> HIDE DEF e, clk
<1>5. /\ y \in Detectors /\ y.st = e.st /\ y.up = e.up /\ y.lockHigh = e.lockHigh
      /\ y.age = e.age /\ y.vp = e.vp /\ y.outage = e.outage /\ y.clk = clk
  BY <1>1, <1>4 DEF Detectors
<1> HIDE DEF y
<1>6. Sane(e) => Sane(y)
  BY <1>4, <1>5 DEF Sane, Held, Started
<1> QED
  BY <1>1, <1>2, <1>3, <1>5, <1>6

\* What every step shows of the detector: sanity, and when a cycle is recorded.
Shows == /\ d' \in Detectors /\ filed' \in Cycles \union {NoCycle}
         /\ Sane(d) => Sane(d')
         /\ filed' # NoCycle /\ Sane(d) /\ d.up => filed'.why \in {"force_stopped", "user"}
         /\ filed' # NoCycle /\ d.outage # "none" =>
               d'.outage = "none" \/ filed'.why \in {"force_stopped", "user"}

LEMMA ReadingShows ==
    ASSUME d \in Detectors, NEW r \in Readings, ProcessReading(r)
    PROVE  Shows
<1> DEFINE x == Waking(d, r)
           h == Heard(d, r)
           z == [x EXCEPT !.lock = FALSE, !.lockHigh = 0]
           y == Ticked(z, h)
           lockHigh == x.lockHigh + h.dt
           waited == Waited(x.clk, h.dt)
           clk == [waited EXCEPT !.last = StartLevel]
           deafened == [x EXCEPT !.lockHigh = lockHigh, !.clk = clk]
<1>0. Usable(r) /\ Usable(h) /\ (Real(h) <=> Real(r))
  BY ReadingUsable, HeardUsable
<1>1. /\ x \in Detectors /\ x.st = d.st /\ x.up = d.up /\ x.lockHigh = d.lockHigh
      /\ (Sane(d) => Sane(x)) /\ (Real(h) => x.outage = "none")
  BY <1>0, WakingFacts
<1>3. IF Locked(h) THEN Become(deafened) ELSE IF Deaf(y, h) THEN Become(y) ELSE Dispatch(y, h)
  BY DEF ProcessReading
<1>4. h.dt \in Nat /\ 0 \in Ticks
  BY <1>0, ReadingFacts, CapFacts
<1> HIDE DEF x, h
<1>5. CASE Locked(h)
  <2>1. lockHigh \in Ticks
    <3>1. d.lockHigh \in Ticks /\ LockRelease \in Ticks
      BY DetectorAssumption DEF Detectors
    <3> QED
      BY <1>1, <1>4, <1>5, <3>1, ClockAssumption DEF Locked, Ticks
  <2>2. clk \in Clocks /\ (Consistent(x.clk) => Consistent(clk))
    <3>1. waited \in Clocks /\ (Consistent(x.clk) => Consistent(waited))
      BY <1>1, <1>4, WaitedFacts DEF Detectors
    <3>2. StartLevel \in 0..StartLevel
      BY DEF StartLevel
    <3> HIDE DEF waited
    <3> QED
      BY <3>1, <3>2, LevelFacts
  <2> HIDE DEF lockHigh, clk
  <2>3. /\ deafened \in Detectors /\ deafened.st = x.st /\ deafened.age = x.age
        /\ deafened.vp = x.vp /\ deafened.up = x.up /\ deafened.clk = clk
    BY <1>1, <2>1, <2>2 DEF Detectors
  <2>4. Sane(x) => Sane(deafened)
    BY <2>2, <2>3 DEF Sane, Held, Started
  <2> QED
    BY <1>1, <1>3, <1>5, <2>3, <2>4 DEF Shows, Become
<1>6. CASE ~Locked(h)
  <2>1. /\ z \in Detectors /\ z.st = x.st /\ z.age = x.age /\ z.vp = x.vp /\ z.up = x.up
        /\ z.clk = x.clk /\ z.outage = x.outage
    BY <1>1, <1>4 DEF Detectors
  <2> HIDE DEF z
  <2>2. Sane(x) => Sane(z)
    BY <2>1 DEF Sane, Held, Started
  <2>3. /\ y \in Detectors /\ (Sane(z) => Sane(y)) /\ y.outage = z.outage
        /\ z.up /\ z.st \in Open => y.up
        /\ y.st = z.st \/ (z.st \in Open /\ y.st = "running")
    BY <1>0, <2>1, TickedFacts
  <2> HIDE DEF y
  <2>4. CASE Deaf(y, h)
    BY <1>1, <1>3, <1>6, <2>1, <2>2, <2>3, <2>4 DEF Shows, Become
  <2>5. CASE ~Deaf(y, h)
    <3>1. Files(y)
      BY <1>0, <1>3, <1>6, <2>3, <2>5, DispatchFiles
    <3>2. Good(y) /\ d' \in Detectors /\ d'.outage = y.outage /\ (Sane(y) => Sane(d'))
      BY <3>1 DEF Files, Good, Keeps
    <3>3. filed' # NoCycle => y.st \in Open /\ z.st \in Open
      BY <2>3, <3>1 DEF Files
    <3>4. filed' # NoCycle /\ Sane(d) /\ d.up => filed'.why = "force_stopped"
      BY <1>1, <2>1, <2>2, <2>3, <3>2, <3>3 DEF Good
    <3>5. filed' # NoCycle /\ d.outage # "none" => d'.outage = "none"
      <4> SUFFICES ASSUME filed' # NoCycle, d.outage # "none" PROVE d'.outage = "none"
        OBVIOUS
      <4>1. Real(h)
        BY <2>5, <3>3 DEF Deaf, Live
      <4> QED
        BY <1>1, <2>1, <2>3, <3>2, <4>1
    <3> QED
      BY <1>1, <2>1, <2>2, <2>3, <3>2, <3>4, <3>5 DEF Shows, Good
  <2> QED
    BY <2>4, <2>5
<1> QED
  BY <1>5, <1>6

LEMMA FreshFacts == Fresh \in Detectors /\ Sane(Fresh) /\ Fresh.st = "off" /\ Fresh.age = None
<1>1. Fresh \in Detectors
  BY CapFacts DEF Fresh, Detectors, States, Ages, Backs
<1>2. /\ Fresh.st = "off" /\ Fresh.clk = ClearClocks /\ Fresh.age = None
  BY DEF Fresh
<1>3. Consistent(ClearClocks)
  BY CapFacts DEF Consistent, ClearClocks, NoPulse
<1> QED
  BY <1>1, <1>2, <1>3 DEF Sane, Held, Started, Open, Live, Terminal

\* What a restart makes of a snapshot: a paused start becomes a paused cycle with
\* the start it had.
LEMMA ResumedFacts ==
    ASSUME NEW x \in Detectors, NEW gap \in Nat
    PROVE  Resumed(x, gap) \in Detectors /\ (Sane(x) => Sane(Resumed(x, gap)))
<1> DEFINE st == IF x.st = "starting" /\ x.up THEN "paused" ELSE x.st
           held == x.up /\ st \in Open
           enter == Sat(x.enter + gap)
           age == Later(x.age, gap)
           waited == Waited(x.clk, gap)
           level == [waited EXCEPT !.last = 0]
           clk == [level EXCEPT !.pulse = NoPulse]
           idle == IF st = "anti_wrinkle" THEN x.idle ELSE 0
           y == [Fresh EXCEPT !.st = st, !.enter = enter, !.age = age, !.clk = clk]
           z == [y EXCEPT !.matched = x.matched, !.up = held, !.vp = held,
                          !.idle = idle, !.floor = x.floor]
<1>1. st \in States /\ (st \in Live <=> x.st \in Live) /\ (st # x.st => st = "paused")
  BY DEF Detectors, States, Live, Open
<1>2. enter \in Ticks
  BY SatSum DEF Detectors
<1>3. age \in Ages /\ (age = None <=> x.age = None)
  BY LaterFacts DEF Detectors
<1>4. waited \in Clocks /\ (Consistent(x.clk) => Consistent(waited))
  BY WaitedFacts DEF Detectors
<1> HIDE DEF waited
<1>5. level \in Clocks /\ (Consistent(x.clk) => Consistent(level))
  <2>1. 0 \in 0..StartLevel
    BY DEF StartLevel
  <2> QED
    BY <1>4, <2>1, LevelFacts
<1> HIDE DEF level
<1>6. clk \in Clocks /\ (Consistent(x.clk) => Consistent(clk))
  BY <1>5, NoPulseConsistent
<1>7. idle \in Ticks /\ held \in BOOLEAN /\ x.matched \in BOOLEAN /\ x.floor \in BOOLEAN
  BY CapFacts DEF Detectors
<1>8. Resumed(x, gap) = z
  BY <1>4, FreshFacts DEF Resumed, Detectors, Clocks, level, waited
<1>9. held => st \in Open
  OBVIOUS
<1> HIDE DEF st, held, enter, age, clk, idle
<1>10. y \in Detectors /\ y.st = st /\ y.age = age /\ y.clk = clk
  BY <1>1, <1>2, <1>3, <1>6, FreshFacts DEF Detectors
<1> HIDE DEF y
<1>11. /\ z \in Detectors /\ z.st = st /\ z.age = age /\ z.clk = clk
       /\ z.up = held /\ z.vp = held
  BY <1>7, <1>10 DEF Detectors
<1> HIDE DEF z
<1>12. Held(z)
  BY <1>11 DEF Held
<1>13. Started(x) => Started(z)
  BY <1>1, <1>3, <1>11 DEF Started, Live, Open, Terminal
<1> QED
  BY <1>6, <1>8, <1>11, <1>12, <1>13 DEF Sane

LEMMA CallShows ==
    ASSUME d \in Detectors, Call
    PROVE  Shows
<1>0. CASE Restarts
  <2>1. PICK gap \in Steps : Restart(gap)
    BY <1>0 DEF Restarts
  <2>2. Become(Fresh) \/ Become(Resumed(d, gap))
    BY <2>1 DEF Restart
  <2>3. gap \in Nat
    BY <2>1, DetectorAssumption
  <2> QED
    BY <2>2, <2>3, FreshFacts, ResumedFacts DEF Become, Shows
<1>1. CASE MarkUnavailable
  <2> DEFINE y == [d EXCEPT !.outage = "fresh"]
  <2>1. Become(y)
    BY <1>1 DEF MarkUnavailable
  <2>2. /\ y \in Detectors /\ y.st = d.st /\ y.age = d.age /\ y.vp = d.vp /\ y.up = d.up
        /\ y.clk = d.clk
    BY DEF Detectors
  <2> HIDE DEF y
  <2> QED
    BY <2>1, <2>2 DEF Become, Shows, Sane, Held, Started
<1>2. ASSUME NEW m \in BOOLEAN, NEW b \in BOOLEAN, MatchResult(m, b) PROVE Shows
  <2> DEFINE vp == b \/ d.up
             y == [d EXCEPT !.matched = m, !.vp = vp]
  <2>1. Become(y)
    BY <1>2 DEF MatchResult
  <2>2. vp \in BOOLEAN /\ (d.up => vp)
    BY DEF Detectors
  <2> HIDE DEF vp
  <2>3. /\ y \in Detectors /\ y.st = d.st /\ y.age = d.age /\ y.vp = vp /\ y.up = d.up
        /\ y.clk = d.clk
    BY <2>2 DEF Detectors
  <2> HIDE DEF y
  <2> QED
    BY <2>1, <2>2, <2>3 DEF Become, Shows, Sane, Held, Started
<1>3. CASE UserPause
  <2> DEFINE y == [d EXCEPT !.up = TRUE, !.vp = TRUE]
  <2>1. Become(y)
    BY <1>3 DEF UserPause
  <2>2. /\ y \in Detectors /\ y.st = d.st /\ y.age = d.age /\ y.vp = TRUE
        /\ y.clk = d.clk
    BY DEF Detectors
  <2> HIDE DEF y
  <2> QED
    BY <2>1, <2>2 DEF Become, Shows, Sane, Held, Started
<1>4. CASE UserResume
  <2> DEFINE y == [d EXCEPT !.up = FALSE, !.vp = FALSE]
  <2>1. Become(y)
    BY <1>4 DEF UserResume
  <2>2. /\ y \in Detectors /\ y.st = d.st /\ y.age = d.age /\ y.up = FALSE
        /\ y.clk = d.clk
    BY DEF Detectors
  <2> HIDE DEF y
  <2> QED
    BY <2>1, <2>2 DEF Become, Shows, Sane, Held, Started
<1>5. CASE UserStop
  BY <1>5, FinishGood DEF UserStop, Shows, Keeps, CycleStatuses, Reasons
<1>6. CASE ForceEnd
  BY <1>6, FinishGood DEF ForceEnd, ForceStop, Shows, Keeps, CycleStatuses, Reasons
<1>7. CASE Discard
  <2>1. PICK up \in {d.up, FALSE} : Become([Reset(d, "off") EXCEPT !.up = up])
    BY <1>7 DEF Discard
  <2> DEFINE x == Reset(d, "off")
             y == [x EXCEPT !.up = up]
  <2>2. up \in BOOLEAN
    BY DEF Detectors
  <2>3. x \in Detectors /\ x.st = "off" /\ x.clk = ClocksAfterReset(d.clk, "off")
    BY ResetFacts DEF States
  <2> HIDE DEF x
  <2>4. y \in Detectors /\ y.st = "off" /\ y.clk = x.clk
    BY <2>2, <2>3 DEF Detectors
  <2>5. Consistent(d.clk) => Consistent(y.clk)
    BY <2>3, <2>4, ClocksAfterResetFacts DEF Detectors
  <2>6. Held(y) /\ Started(y)
    BY <2>4 DEF Held, Started, Open, Live, Terminal
  <2>7. d' = y /\ filed' = NoCycle
    BY <2>1 DEF Become, x
  <2> HIDE DEF y
  <2> QED
    BY <2>4, <2>5, <2>6, <2>7 DEF Shows, Sane
<1>8. CASE CycleEndTail
  <2> DEFINE y == [d EXCEPT !.up = FALSE]
  <2>1. Become(y)
    BY <1>8 DEF CycleEndTail
  <2>2. /\ y \in Detectors /\ y.st = d.st /\ y.age = d.age /\ y.up = FALSE
        /\ y.clk = d.clk
    BY DEF Detectors
  <2> HIDE DEF y
  <2> QED
    BY <2>1, <2>2 DEF Become, Shows, Sane, Held, Started
<1> QED
  BY <1>0, <1>1, <1>2, <1>3, <1>4, <1>5, <1>6, <1>7, <1>8 DEF Call

-----------------------------------------------------------------------------
LEMMA StepShows ==
    ASSUME TypeOK, Next
    PROVE  Shows /\ ended' \in Ticks
<1>1. d \in Detectors /\ ended \in Ticks
  BY DEF TypeOK
<1>2. ASSUME NEW dt \in Nat, Age(dt) PROVE ended' \in Ticks
  BY <1>1, <1>2, SatSum, CapFacts DEF Age
<1>3. CASE Reads
  <2>1. PICK r \in Readings : ProcessReading(r)
    BY <1>3 DEF Reads
  <2>2. Age(r.dt) /\ r.dt \in Nat
    BY <2>1, ReadingUsable, ReadingFacts DEF ProcessReading
  <2> QED
    BY <1>1, <1>2, <2>1, <2>2, ReadingShows
<1>4. CASE Call
  <2>1. CASE Restarts
    <3>1. PICK gap \in Steps : Age(gap)
      BY <2>1 DEF Restarts, Restart
    <3> QED
      BY <1>1, <1>2, <1>4, <3>1, CallShows, DetectorAssumption
  <2>2. CASE ~Restarts
    <3>1. Age(0)
      BY <1>4, <2>2 DEF Call, MarkUnavailable, MatchResult, UserPause, UserResume, UserStop,
                        ForceEnd, Discard, CycleEndTail
    <3> QED
      BY <1>1, <1>2, <1>4, <3>1, CallShows
  <2> QED
    BY <2>1, <2>2
<1> QED
  BY <1>3, <1>4 DEF Next

LEMMA InitSane == Init => IInv
<1>1. Init => d = Fresh /\ filed = NoCycle /\ ended = 0
  BY DEF Init
<1> QED
  BY <1>1, FreshFacts, CapFacts DEF IInv, TypeOK

THEOREM Invariance == Spec => []IInv
<1>1. IInv /\ [Next]_vars => IInv'
  <2> SUFFICES ASSUME IInv, [Next]_vars PROVE IInv'
    OBVIOUS
  <2>1. CASE Next
    BY <2>1, StepShows DEF IInv, TypeOK, Shows, Sane, Held, Started
  <2>2. CASE UNCHANGED vars
    BY <2>2 DEF vars, IInv, TypeOK, Sane, Held, Started
  <2> QED
    BY <2>1, <2>2
<1> QED
  BY InitSane, <1>1, PTL DEF Spec

\* The detector's attributes keep their types, whatever the thresholds are.
THEOREM TypeCorrect == Spec => []TypeOK
<1>1. IInv => TypeOK
  BY DEF IInv
<1> QED
  BY <1>1, Invariance, PTL

\* Witnessed quiet is quiet, and no quiet is longer than the time since activity.
THEOREM ClocksAgree == Spec => []ClocksConsistent
<1>1. IInv => ClocksConsistent
  BY DEF IInv, Sane, ClocksConsistent
<1> QED
  BY <1>1, Invariance, PTL

\* A probe or cycle has a start to be recorded from, a shown end has none.
THEOREM StartsKnown == Spec => []StartKnown
<1>1. IInv => StartKnown
  BY DEF IInv, Sane, Started, StartKnown
<1> QED
  BY <1>1, Invariance, PTL

\* No finisher records a cycle the user has paused.
THEOREM PauseIsHeld == Spec => PauseHolds
<1> DEFINE Holds == filed' # NoCycle /\ d.up => filed'.why \in {"force_stopped", "user"}
<1>1. IInv /\ [Next]_vars => [Holds]_vars
  BY StepShows DEF IInv, Shows
<1> QED
  BY <1>1, Invariance, PTL DEF Spec, PauseHolds

\* No finisher records a cycle on the silence of an absent sensor.
THEOREM OutageIsNoEnd == Spec => OutageNeverCloses
<1> DEFINE Waits == filed' # NoCycle /\ d.outage # "none" =>
                        d'.outage = "none" \/ filed'.why \in {"force_stopped", "user"}
<1>1. IInv /\ [Next]_vars => [Waits]_vars
  BY StepShows DEF IInv, Shows
<1> QED
  BY <1>1, Invariance, PTL DEF Spec, OutageNeverCloses

-----------------------------------------------------------------------------
\* The steps of CycleLifecycle, from phase p and origin o to q and n, recording s.
Allowed(p, o, q, n, s) ==
    \/ p = q /\ n \in {o, "idle"} /\ s = "none" /\ (n # o => p = "probing")
    \/ p = "idle" /\ q = "waiting" /\ n = "idle" /\ s = "none"
    \/ /\ p \in {"idle", "waiting"} \union CycleStatuses /\ q = "probing"
       /\ n \in {p, "idle"} /\ s = "none"
    \/ p = "probing" /\ q = "cycle" /\ n = "idle" /\ s = "none"
    \/ p = "probing" /\ q \in {o, "idle"} /\ n = "idle" /\ s = "none"
    \/ p # "idle" /\ q = "idle" /\ n = "idle" /\ s = "none"
    \/ /\ p \in {"probing", "cycle", "waiting"} /\ s \in CycleStatuses
       /\ q = s /\ n = "idle"

\* The end that x shows, or gives back after a false start, began e ago.
Timed(x, e) ==
    /\ x.st \in Terminal => x.enter = e
    /\ x.st = "starting" /\ x.back # NoBack => x.back.enter = e

\* A step that acts on x keeps the promise, and the time of a shown end.
Moves(x) ==
    /\ Allowed(PhaseOf(x), OriginOf(x), PhaseOf(d'), OriginOf(d'), filed'.status)
    /\ filed' = NoCycle => \A e \in Ticks : Timed(x, e) => Timed(d', e)
    /\ filed' # NoCycle => Timed(d', 0)

LEMMA AllowedNext ==
    ASSUME Allowed(PhaseOf(d), OriginOf(d), PhaseOf(d'), OriginOf(d'), filed'.status)
    PROVE  Lifecycle!LifecycleNext
BY DEF Allowed, Lifecycle!LifecycleNext, Lifecycle!BeginWait, Lifecycle!BeginProbe,
   Lifecycle!Commit, Lifecycle!FalseStart, Lifecycle!Close, Lifecycle!Leave,
   Lifecycle!Forget, Lifecycle!Stay

\* In most states there is nothing to give back and no end shown.
Plain(x) == x.st \notin Terminal \union {"starting"}

LEMMA PlainFacts ==
    ASSUME NEW x, Plain(x)
    PROVE  OriginOf(x) = "idle" /\ \A e \in Ticks \union {0} : Timed(x, e)
BY DEF Plain, OriginOf, Timed

LEMMA PlainMoves ==
    ASSUME NEW x \in Detectors, NEW y \in Detectors, Plain(y), Become(y),
           \/ y.st = "off" \/ y.st = x.st
           \/ x.st = "off" /\ y.st = "delay_wait"
           \/ x.st \in Open \union {"starting"} /\ y.st \in Open
           \/ x.st = "starting" /\ x.back = NoBack /\ x.since # None /\ y.st = "delay_wait"
    PROVE  Moves(x)
<1>1. d' = y /\ filed' = NoCycle /\ filed'.status = "none"
  BY DEF Become, NoCycle
<1>2. OriginOf(y) = "idle" /\ \A e \in Ticks : Timed(y, e)
  BY PlainFacts
<1>3. Allowed(PhaseOf(x), OriginOf(x), PhaseOf(y), "idle", "none")
  BY DEF Allowed, PhaseOf, OriginOf, Plain, Open, Terminal
<1> QED
  BY <1>1, <1>2, <1>3 DEF Moves

\* Most readings change nothing that the lifecycle sees.
Alike(x, y) == y.st = x.st /\ y.enter = x.enter /\ y.back = x.back /\ y.since = x.since

LEMMA AlikeFacts ==
    ASSUME NEW x, NEW y, Alike(x, y)
    PROVE  /\ PhaseOf(y) = PhaseOf(x) /\ OriginOf(y) = OriginOf(x)
           /\ \A e : Timed(y, e) <=> Timed(x, e)
BY DEF Alike, PhaseOf, OriginOf, Timed

LEMMA AlikeMoves ==
    ASSUME NEW x, NEW y, Alike(x, y), Become(y)
    PROVE  Moves(x)
BY AlikeFacts DEF Moves, Become, NoCycle, Allowed

LEMMA AlikeFirst ==
    ASSUME NEW x, NEW y, Alike(x, y), Moves(y)
    PROVE  Moves(x)
BY AlikeFacts DEF Moves

LEMMA BeginMoves ==
    ASSUME NEW x \in Detectors, NEW y \in Detectors, Become(y), y.st = "starting",
           \/ /\ x.st \in Terminal /\ y.since = None
              /\ y.back = [st |-> x.st, enter |-> x.enter]
           \/ x.st \in {"off", "anti_wrinkle"} /\ y.back = NoBack /\ y.since = None
           \/ x.st = "delay_wait" /\ y.back = NoBack /\ y.since \in Ticks
    PROVE  Moves(x)
<1>1. d' = y /\ filed' = NoCycle /\ filed'.status = "none"
  BY DEF Become, NoCycle
<1>2. CASE x.st \in Terminal /\ y.since = None /\ y.back = [st |-> x.st, enter |-> x.enter]
  <2>1. y.back # NoBack /\ y.back.st = x.st /\ y.back.enter = x.enter
    BY <1>2 DEF NoBack, Terminal
  <2>2. OriginOf(y) = PhaseOf(x) /\ PhaseOf(x) \in CycleStatuses /\ PhaseOf(y) = "probing"
    BY <1>2, <2>1 DEF OriginOf, PhaseOf, Terminal, Open, CycleStatuses
  <2>3. \A e \in Ticks : Timed(x, e) => Timed(y, e)
    BY <1>2, <2>1 DEF Timed, Terminal
  <2> QED
    BY <1>1, <2>2, <2>3 DEF Moves, Allowed
<1>3. CASE x.st \in {"off", "anti_wrinkle"} /\ y.back = NoBack /\ y.since = None
  <2>1. OriginOf(y) = "idle" /\ PhaseOf(x) \in {"idle", "completed"} /\ PhaseOf(y) = "probing"
    BY <1>3 DEF OriginOf, PhaseOf, Open
  <2>2. \A e \in Ticks : Timed(y, e)
    BY <1>3 DEF Timed, Terminal
  <2> QED
    BY <1>1, <2>1, <2>2 DEF Moves, Allowed, CycleStatuses
<1>4. CASE x.st = "delay_wait" /\ y.back = NoBack /\ y.since \in Ticks
  <2>1. y.since # None
    BY <1>4, CapFacts DEF None
  <2>2. OriginOf(y) = "waiting" /\ PhaseOf(x) = "waiting" /\ PhaseOf(y) = "probing"
    BY <1>4, <2>1 DEF OriginOf, PhaseOf, Open
  <2>3. \A e \in Ticks : Timed(y, e)
    BY <1>4 DEF Timed, Terminal
  <2> QED
    BY <1>1, <2>2, <2>3 DEF Moves, Allowed
<1> QED
  BY <1>2, <1>3, <1>4

\* A false start gives the end back as it was.
LEMMA BackMoves ==
    ASSUME NEW x \in Detectors, NEW y \in Detectors, Become(y), x.st = "starting",
           x.back # NoBack, y.st = x.back.st, y.enter = x.back.enter
    PROVE  Moves(x)
<1>1. d' = y /\ filed' = NoCycle /\ filed'.status = "none"
  BY DEF Become, NoCycle
<1>2. y.st \in Terminal
  BY DEF Detectors, Backs
<1>3. PhaseOf(y) = OriginOf(x) /\ OriginOf(y) = "idle" /\ PhaseOf(x) = "probing"
  BY <1>2 DEF OriginOf, PhaseOf, Terminal, Open
<1>4. \A e \in Ticks : Timed(x, e) => Timed(y, e)
  BY <1>2 DEF Timed, Terminal
<1> QED
  BY <1>1, <1>3, <1>4 DEF Moves, Allowed

\* What _transition_to does to what the lifecycle sees.
LEMMA ToTimes ==
    ASSUME NEW x \in Detectors, NEW n \in States, x.st # n
    PROVE  To(x, n).st = n /\ To(x, n).enter = 0
BY DEF To, Detectors

LEMMA ResetTimes ==
    ASSUME NEW x \in Detectors, NEW n \in States, x.st # n
    PROVE  Reset(x, n).st = n /\ Reset(x, n).enter = 0
BY ToTimes, ToFacts DEF Reset, Detectors

LEMMA FinishMoves ==
    ASSUME NEW x \in Detectors, x.st \in Live \union {"delay_wait"},
           NEW lengths, NEW status \in CycleStatuses, NEW why,
           NEW lock \in BOOLEAN, NEW floor \in BOOLEAN,
           Finish(x, lengths, status, why, lock, floor)
    PROVE  Moves(x)
<1>0. x.st \notin Terminal \union {"off", "anti_wrinkle"}
  BY DEF Live, Open, Terminal
<1>1. CASE x.age = None
  <2> DEFINE y == Reset(x, "off")
             z == [y EXCEPT !.lock = lock]
  <2>1. y \in Detectors /\ y.st = "off"
    BY ResetFacts DEF States
  <2>2. Become(z)
    BY <1>1 DEF Finish, Become
  <2> HIDE DEF y
  <2>3. z \in Detectors /\ z.st = "off" /\ Plain(z)
    BY <2>1 DEF Detectors, Plain, Terminal
  <2> HIDE DEF z
  <2> QED
    BY <2>2, <2>3, PlainMoves
<1>2. CASE x.age # None
  <2>1. PICK len \in lengths :
          LET s == IF len < MinComplete THEN "interrupted" ELSE status
              n == EndState(s, why)
          IN /\ filed' = [status |-> s, why |-> why]
             /\ d' = [Reset(x, n) EXCEPT !.lock = lock, !.floor = floor /\ n = "anti_wrinkle"]
    BY <1>2 DEF Finish
  <2> DEFINE s == IF len < MinComplete THEN "interrupted" ELSE status
             n == EndState(s, why)
             y == Reset(x, n)
             keep == floor /\ n = "anti_wrinkle"
  <2>2. s \in CycleStatuses
    BY DEF CycleStatuses
  <2>3. /\ n \in Terminal \union {"anti_wrinkle"} /\ n \in States
        /\ s = "completed" => n \in {"finished", "anti_wrinkle"}
        /\ s # "completed" => n = s
    BY <2>2, EndStateFacts DEF EndState, CycleStatuses
  <2>4. d' = [y EXCEPT !.lock = lock, !.floor = keep] /\ filed' = [status |-> s, why |-> why]
    BY <2>1
  <2>5. y \in Detectors /\ y.st = n /\ y.enter = 0
    BY <1>0, <2>3, ResetFacts, ResetTimes
  <2> HIDE DEF s, n, y, keep
  <2>6. d'.st = n /\ d'.enter = 0
    BY <2>4, <2>5 DEF Detectors
  <2>7. filed'.status = s /\ filed' # NoCycle
    BY <2>2, <2>4 DEF NoCycle, CycleStatuses
  <2>8. PhaseOf(d') = s /\ OriginOf(d') = "idle" /\ Timed(d', 0)
    BY <2>2, <2>3, <2>6 DEF PhaseOf, OriginOf, Timed, CycleStatuses, Open, Terminal
  <2>9. PhaseOf(x) \in {"probing", "cycle", "waiting"}
    BY DEF PhaseOf, Live, Open
  <2> QED
    BY <2>2, <2>7, <2>8, <2>9 DEF Moves, Allowed
<1> QED
  BY <1>1, <1>2

-----------------------------------------------------------------------------
LEMMA BeginTimes ==
    ASSUME NEW x \in Detectors, NEW back \in Backs, NEW since \in Ages, NEW age \in Ticks
    PROVE  LET y == Begin(x, back, since, age)
           IN  y \in Detectors /\ y.st = "starting" /\ y.back = back /\ y.since = since
<1> DEFINE y == To(x, "starting")
           z == [y EXCEPT !.back = back, !.since = since, !.age = age]
<1>1. y \in Detectors /\ y.st = "starting"
  BY ToFacts DEF States, Live
<1>2. Begin(x, back, since, age) = z
  BY DEF Begin
<1>3. age \in Ages
  BY DEF Ages
<1> HIDE DEF y
<1> QED
  BY <1>1, <1>2, <1>3 DEF Detectors

\* A handler that only moves to another state, without a shown end.
LEMMA ToMoves ==
    ASSUME NEW x \in Detectors, NEW y \in Detectors, Alike(x, y), NEW n \in States,
           n \notin Terminal \union {"starting"}, Become(To(y, n)),
           \/ n = "off"
           \/ x.st = "off" /\ n = "delay_wait"
           \/ x.st \in Open \union {"starting"} /\ n \in Open
    PROVE  Moves(x)
<1>1. To(y, n) \in Detectors /\ To(y, n).st = n
  BY ToFacts
<1>2. Plain(To(y, n))
  BY <1>1 DEF Plain
<1> QED
  BY <1>1, <1>2, PlainMoves

LEMMA SelfAlike == \A x : Alike(x, x)
BY DEF Alike

LEMMA InIdleMoves ==
    ASSUME NEW x \in Detectors, NEW r, Usable(r), InIdle(x, r),
           x.st \in Terminal \union {"off"}
    PROVE  Moves(x)
<1> DEFINE band == IF x.band = None THEN 0 ELSE x.band
           marked == [x EXCEPT !.band = band]
           kept == [x EXCEPT !.keepBand = x.band # None]
           clear == [x EXCEPT !.band = None, !.keepBand = FALSE]
           back == IF x.st \in Terminal THEN [st |-> x.st, enter |-> x.enter] ELSE NoBack
<1>1. band \in Ages /\ None \in Ages /\ 0 \in Ticks
  BY CapFacts DEF Detectors, Ages
<1>2. back \in Backs
  BY DEF Backs, Detectors
<1>3. (x.band # None) \in BOOLEAN
  OBVIOUS
<1>4. InIdle(x, r) =>
        \/ x.st = "off" /\ Become(To(x, "delay_wait"))
        \/ Become(marked) \/ Become(clear) \/ Become(x)
        \/ \E age \in {0, Preroll} : Become(Begin(kept, back, None, age))
  BY DEF InIdle
<1> HIDE DEF band
<1>5. Alike(x, marked) /\ Alike(x, clear) /\ Alike(x, kept) /\ kept \in Detectors /\ Alike(x, x)
  BY <1>1, <1>3 DEF Detectors, Alike
<1> HIDE DEF marked, kept, clear
<1>6. ASSUME NEW age \in {0, Preroll}, Become(Begin(kept, back, None, age)) PROVE Moves(x)
  <2> DEFINE y == Begin(kept, back, None, age)
  <2>1. age \in Ticks
    BY <1>1, DetectorAssumption
  <2>2. y \in Detectors /\ y.st = "starting" /\ y.back = back /\ y.since = None
    BY <1>1, <1>2, <1>5, <2>1, BeginTimes
  <2>3. Become(y)
    BY <1>6
  <2> HIDE DEF y
  <2> QED
    BY <2>2, <2>3, BeginMoves
<1>7. CASE x.st = "off" /\ Become(To(x, "delay_wait"))
  BY <1>5, <1>7, ToMoves DEF States, Terminal
<1> QED
  BY <1>4, <1>5, <1>6, <1>7, AlikeMoves

LEMMA InAntiWrinkleMoves ==
    ASSUME NEW x \in Detectors, NEW r, Usable(r), InAntiWrinkle(x, r), x.st = "anti_wrinkle"
    PROVE  Moves(x)
<1> PICK tumble \in {FALSE, x.floor}, quiet \in {r.p < StopLevel, r.p <= StopLevel} :
    LET cand == IF x.cand = None THEN 0 ELSE x.cand
        hot == x.hot \/ r.p > BurstLevel
        limit == IF x.floor /\ FloorBurst > BurstLimit THEN FloorBurst ELSE BurstLimit
        unburst == [x EXCEPT !.cand = None, !.hot = FALSE]
        burst == IF ~IsHigh(x, r) THEN x
                 ELSE IF tumble THEN unburst
                 ELSE [x EXCEPT !.cand = cand, !.hot = hot]
        rested == [unburst EXCEPT !.idle = Sat(@ + r.dt)]
    IN IF IsHigh(x, r) /\ ~tumble /\ (hot \/ cand > limit)
       THEN Become(Begin(unburst, NoBack, None, cand))
       ELSE IF quiet
       THEN Become(IF rested.idle >= AWIdle \/ x.enter > AWMax THEN To(rested, "off") ELSE rested)
       ELSE Become(IF x.enter > AWMax THEN To(burst, "off") ELSE [burst EXCEPT !.idle = 0])
  BY DEF InAntiWrinkle
<1> DEFINE cand == IF x.cand = None THEN 0 ELSE x.cand
           hot == x.hot \/ r.p > BurstLevel
           unburst == [x EXCEPT !.cand = None, !.hot = FALSE]
           candidate == [x EXCEPT !.cand = cand, !.hot = hot]
           burst == IF ~IsHigh(x, r) THEN x ELSE IF tumble THEN unburst ELSE candidate
           idle == Sat(x.idle + r.dt)
           rested == [unburst EXCEPT !.idle = idle]
           busy == [burst EXCEPT !.idle = 0]
<1>1. unburst.idle = x.idle
  BY DEF Detectors
<1>2. \/ Become(Begin(unburst, NoBack, None, cand))
      \/ Become(To(rested, "off")) \/ Become(rested)
      \/ Become(To(burst, "off")) \/ Become(busy)
  BY <1>1
<1>3. cand \in Ticks /\ 0 \in Ticks /\ None \in Ages /\ cand \in Ages /\ NoBack \in Backs
  BY CapFacts DEF Detectors, Ages, Backs
<1>4. hot \in BOOLEAN
  BY DEF Detectors
<1>5. idle \in Ticks
  BY ReadingFacts, SatSum DEF Detectors
<1> HIDE DEF cand, hot, idle
<1>6. /\ unburst \in Detectors /\ Alike(x, unburst)
      /\ candidate \in Detectors /\ Alike(x, candidate)
  BY <1>3, <1>4 DEF Detectors, Alike
<1> HIDE DEF unburst, candidate
<1>7. burst \in Detectors /\ Alike(x, burst)
  BY <1>6, SelfAlike
<1> HIDE DEF burst
<1>8. rested \in Detectors /\ Alike(x, rested) /\ Alike(x, busy)
  BY <1>3, <1>5, <1>6, <1>7 DEF Detectors, Alike
<1> HIDE DEF rested, busy
<1>9. CASE Become(Begin(unburst, NoBack, None, cand))
  <2> DEFINE y == Begin(unburst, NoBack, None, cand)
  <2>1. y \in Detectors /\ y.st = "starting" /\ y.back = NoBack /\ y.since = None
    BY <1>3, <1>6, BeginTimes
  <2> HIDE DEF y
  <2> QED
    BY <1>9, <2>1, BeginMoves DEF y
<1>10. CASE Become(To(rested, "off")) \/ Become(To(burst, "off"))
  BY <1>7, <1>8, <1>10, ToMoves DEF States, Terminal
<1> QED
  BY <1>2, <1>8, <1>9, <1>10, AlikeMoves

LEMMA InDelayWaitMoves ==
    ASSUME NEW x \in Detectors, NEW r, Usable(r), InDelayWait(x, r), x.st = "delay_wait"
    PROVE  Moves(x)
<1> DEFINE off == IF r.p < StopLevel THEN Sat(x.trueOff + r.dt) ELSE 0
           lit == [x EXCEPT !.trueOff = 0]
           first == [x EXCEPT !.trueOff = 0, !.waitHigh = 0]
           dark == [x EXCEPT !.waitHigh = None, !.trueOff = off]
<1>1. \/ Become(first) \/ Become(lit) \/ Become(To(x, "off")) \/ Become(dark)
      \/ /\ x.waitHigh # None
         /\ \E age \in {x.waitHigh, Preroll} : Become(Begin(lit, NoBack, x.enter, age))
  BY DEF InDelayWait
<1>2. 0 \in Ticks /\ NoBack \in Backs /\ x.enter \in Ticks /\ x.enter \in Ages
  BY CapFacts DEF Ages, Backs, Detectors
<1> HIDE DEF off
<1>3. Alike(x, first) /\ Alike(x, lit) /\ Alike(x, dark) /\ lit \in Detectors
  BY <1>2 DEF Detectors, Alike
<1> HIDE DEF lit, first, dark
<1>4. CASE Become(To(x, "off"))
  BY <1>4, SelfAlike, ToMoves DEF States, Terminal
<1>5. ASSUME x.waitHigh # None, NEW age \in {x.waitHigh, Preroll},
             Become(Begin(lit, NoBack, x.enter, age))
      PROVE  Moves(x)
  <2> DEFINE y == Begin(lit, NoBack, x.enter, age)
  <2>1. age \in Ticks
    BY <1>5, DetectorAssumption DEF Detectors, Ages
  <2>2. y \in Detectors /\ y.st = "starting" /\ y.back = NoBack /\ y.since = x.enter
    BY <1>2, <1>3, <2>1, BeginTimes
  <2>3. Become(y)
    BY <1>5
  <2> HIDE DEF y
  <2> QED
    BY <1>2, <2>2, <2>3, BeginMoves
<1> QED
  BY <1>1, <1>3, <1>4, <1>5, AlikeMoves

LEMMA FalseStartMoves ==
    ASSUME NEW x \in Detectors, NEW r, FalseStart(x, r), x.st = "starting"
    PROVE  Moves(x)
<1>1. CASE x.back # NoBack
  <2> DEFINE y == To(x, x.back.st)
             clk == [y.clk EXCEPT !.silent = Cap, !.above = 0]
             z == [y EXCEPT !.enter = x.back.enter, !.age = None, !.clk = clk]
  <2>1. x.back.st \in States /\ x.back.enter \in Ticks
    BY <1>1 DEF Detectors, Backs, States
  <2>2. /\ y \in Detectors /\ y.st = x.back.st
        /\ y.clk \in {x.clk, [x.clk EXCEPT !.pulse = NoPulse]}
    BY <2>1, ToFacts
  <2> HIDE DEF y
  <2>3. Returned(x) = z
    BY <2>2 DEF Returned, Detectors, y
  <2>4. clk \in Clocks /\ None \in Ages
    <3>1. y.clk \in Clocks
      BY <2>2 DEF Detectors
    <3> QED
      BY <3>1, CapFacts DEF Clocks, Ages
  <2> HIDE DEF clk
  <2>5. z \in Detectors /\ z.st = x.back.st /\ z.enter = x.back.enter
    BY <2>1, <2>2, <2>4 DEF Detectors
  <2> HIDE DEF z
  <2>6. Become(z)
    BY <1>1, <2>3 DEF FalseStart
  <2> QED
    BY <1>1, <2>5, <2>6, BackMoves
<1>2. CASE x.back = NoBack /\ x.since # None /\ r.p >= StopLevel /\ x.since < DelayTimeout
  <2> DEFINE y == To(x, "delay_wait")
             z == [y EXCEPT !.enter = x.since]
  <2>1. Become(z)
    BY <1>2 DEF FalseStart
  <2>2. y \in Detectors /\ y.st = "delay_wait"
    BY ToFacts DEF States
  <2>3. x.since \in Ticks
    BY <1>2 DEF Detectors, Ages
  <2> HIDE DEF y
  <2>4. z \in Detectors /\ z.st = "delay_wait" /\ Plain(z)
    BY <2>2, <2>3 DEF Detectors, Plain, Terminal
  <2> HIDE DEF z
  <2> QED
    BY <1>2, <2>1, <2>4, PlainMoves
<1>3. CASE /\ x.back = NoBack
           /\ ~(x.since # None /\ r.p >= StopLevel /\ x.since < DelayTimeout)
  <2>1. Become(To(x, "off"))
    BY <1>3 DEF FalseStart
  <2> QED
    BY <2>1, SelfAlike, ToMoves DEF States, Terminal
<1> QED
  BY <1>1, <1>2, <1>3

LEMMA InStartingMoves ==
    ASSUME NEW x \in Detectors, NEW r, Usable(r), x.st = "starting", InStarting(x, r)
    PROVE  Moves(x)
<1> DEFINE off == IF r.p >= StopLevel \/ r.dt > OutageCeiling THEN None
                  ELSE IF x.pausedOff = None THEN 0 ELSE x.pausedOff
           bright == [x EXCEPT !.pausedOff = None]
           timed == [x EXCEPT !.pausedOff = off]
<1>1. \/ Become(To(bright, "running")) \/ Become(bright) \/ Become(x)
      \/ Become(To(x, "off")) \/ Become(timed) \/ FalseStart(x, r)
  BY DEF InStarting
<1>2. None \in Ages
  BY DEF Ages
<1> HIDE DEF off
<1>3. bright \in Detectors /\ Alike(x, bright) /\ Alike(x, timed) /\ Alike(x, x)
  BY <1>2 DEF Detectors, Alike
<1> HIDE DEF bright, timed
<1>4. CASE Become(To(bright, "running"))
  BY <1>3, <1>4, ToMoves DEF States, Live, Open, Terminal
<1>5. CASE Become(To(x, "off"))
  BY <1>3, <1>5, ToMoves DEF States, Terminal
<1> QED
  BY <1>1, <1>3, <1>4, <1>5, AlikeMoves, FalseStartMoves

-----------------------------------------------------------------------------
\* In an open cycle a reading ends it by recording it, or leaves it open.
LEMMA OpenMoves ==
    ASSUME NEW x \in Detectors, x.st \in Open, NEW y \in Detectors, y.st \in Open, Become(y)
    PROVE  Moves(x)
<1>1. Plain(y)
  BY DEF Plain, Open, Terminal
<1> QED
  BY <1>1, PlainMoves

LEMMA FinisherMoves ==
    ASSUME NEW x \in Detectors, x.st \in Open, NEW y \in Detectors, y.st \in Open,
           AntiCrease(y) \/ StandbyBand(y) \/ ForceStop(y) \/ Quiet(y)
    PROVE  Moves(x)
<1> USE DEF CycleStatuses
<1>1. y.st \in Live \union {"delay_wait"}
  BY DEF Live
<1>2. Moves(y) \/ Become(y)
  BY <1>1, FinishMoves DEF AntiCrease, StandbyBand, ForceStop, Quiet
<1>3. PhaseOf(x) = "cycle" /\ PhaseOf(y) = "cycle" /\ OriginOf(x) = "idle" /\ OriginOf(y) = "idle"
  BY DEF PhaseOf, OriginOf, Open
<1>4. Plain(y)
  BY DEF Plain, Open, Terminal
<1>5. \A e \in Ticks : Timed(y, e)
  BY <1>4, PlainFacts
<1> QED
  BY <1>2, <1>3, <1>5, OpenMoves DEF Moves

LEMMA OpenTo ==
    ASSUME NEW x \in Detectors, NEW n \in Open
    PROVE  To(x, n) \in Detectors /\ To(x, n).st \in Open
BY ToFacts DEF States, Live

LEMMA ResumingOpen ==
    ASSUME NEW x \in Detectors
    PROVE  Resuming(x) \in Detectors /\ Resuming(x).st = x.st
<1>1. Resuming(x) \in Detectors
  BY ResumingKeeps DEF Keeps
<1>2. Resuming(x).st = x.st
  BY DEF Resuming, Detectors
<1> QED
  BY <1>1, <1>2

LEMMA InRunningMoves ==
    ASSUME NEW x \in Detectors, NEW r, x.st \in Open, InRunning(x, r)
    PROVE  Moves(x)
<1> DEFINE y == IF x.clk.below >= PauseAfter THEN To(x, "paused") ELSE x
<1>1. AntiCrease(x) \/ StandbyBand(y) \/ ForceStop(y) \/ Become(y)
  BY DEF InRunning
<1>2. y \in Detectors /\ y.st \in Open
  BY OpenTo DEF Open
<1> HIDE DEF y
<1> QED
  BY <1>1, <1>2, FinisherMoves, OpenMoves

LEMMA InPausedMoves ==
    ASSUME NEW x \in Detectors, NEW r, x.st \in Open, InPaused(x, r)
    PROVE  Moves(x)
<1>1. \/ AntiCrease(x) \/ Become(To(x, "running")) \/ Become(Resuming(x)) \/ Become(x)
      \/ Become(To(x, "ending"))
  BY DEF InPaused
<1>2. "running" \in Open /\ "ending" \in Open
  BY DEF Open
<1> QED
  BY <1>1, <1>2, OpenTo, ResumingOpen, FinisherMoves, OpenMoves

LEMMA InEndingMoves ==
    ASSUME NEW x \in Detectors, NEW r, x.st \in Open, InEnding(x, r)
    PROVE  Moves(x)
<1>0. "running" \in Open
  BY DEF Open
<1>1. CASE ForceStop(x) \/ AntiCrease(x)
  BY <1>1, FinisherMoves
<1>2. CASE Spike(x)
  <2>1. StandbyBand(x) \/ Become(x) \/ Become(To(x, "running")) \/ Become(Resuming(x))
    BY <1>2 DEF Spike
  <2> QED
    BY <1>0, <2>1, OpenTo, ResumingOpen, FinisherMoves, OpenMoves
<1>3. ASSUME NEW y \in Unorphaned(x), Quiet(y) PROVE Moves(x)
  <2>1. y \in Detectors /\ y.st \in Open
    BY ZenonT(60) DEF Unorphaned, Detectors
  <2> QED
    BY <1>3, <2>1, FinisherMoves
<1> QED
  BY <1>1, <1>2, <1>3 DEF InEnding

LEMMA DispatchMoves ==
    ASSUME NEW x \in Detectors, NEW r, Usable(r), Dispatch(x, r)
    PROVE  Moves(x)
<1>1. CASE x.st \in Terminal \union {"off"}
  BY <1>1, InIdleMoves DEF Dispatch, Terminal
<1>2. CASE x.st = "anti_wrinkle"
  BY <1>2, InAntiWrinkleMoves DEF Dispatch, Terminal
<1>3. CASE x.st = "delay_wait"
  BY <1>3, InDelayWaitMoves DEF Dispatch, Terminal
<1>4. CASE x.st = "starting"
  BY <1>4, InStartingMoves DEF Dispatch, Terminal
<1>5. CASE x.st = "running"
  BY <1>5, InRunningMoves DEF Dispatch, Terminal, Open
<1>6. CASE x.st = "paused"
  BY <1>6, InPausedMoves DEF Dispatch, Terminal, Open
<1>7. CASE x.st = "ending"
  BY <1>7, InEndingMoves DEF Dispatch, Terminal, Open
<1> QED
  BY <1>1, <1>2, <1>3, <1>4, <1>5, <1>6, <1>7 DEF Detectors, States, Live, Open

-----------------------------------------------------------------------------
\* What the passing of time leaves of what the lifecycle sees.
Older(x, y, dt) ==
    /\ PhaseOf(y) = PhaseOf(x) /\ OriginOf(y) = OriginOf(x)
    /\ \A e \in Ticks : Timed(x, e) => Timed(y, Sat(e + dt))

LEMMA ElapseMoves ==
    ASSUME NEW x \in Detectors, NEW r, Usable(r)
    PROVE  Older(x, Elapse(x, r), r.dt)
<1> DEFINE y == Elapse(x, r)
           back == IF x.back = NoBack THEN NoBack
                   ELSE [x.back EXCEPT !.enter = Sat(x.back.enter + r.dt)]
<1>1. /\ y.st = x.st /\ y.enter = Sat(x.enter + r.dt)
      /\ y.back = back /\ y.since = Later(x.since, r.dt)
  BY DEF Elapse, Detectors
<1>2. x.since \in Ages /\ x.back \in Backs
  BY DEF Detectors
<1>3. y.since = None <=> x.since = None
  BY <1>1, <1>2, LaterFacts, ReadingFacts
<1>4. /\ back = NoBack <=> x.back = NoBack
      /\ x.back # NoBack => back.st = x.back.st /\ back.enter = Sat(x.back.enter + r.dt)
  BY <1>2 DEF Backs, NoBack, Terminal
<1> HIDE DEF y, back
<1>5. PhaseOf(y) = PhaseOf(x) /\ PhaseOf(y.back) = PhaseOf(x.back)
  BY <1>1, <1>4 DEF PhaseOf
<1>6. OriginOf(y) = OriginOf(x)
  BY <1>1, <1>3, <1>4, <1>5 DEF OriginOf
<1>7. \A e \in Ticks : Timed(x, e) => Timed(y, Sat(e + r.dt))
  BY <1>1, <1>4 DEF Timed
<1> QED
  BY <1>5, <1>6, <1>7 DEF Older, y

LEMMA WakingMoves ==
    ASSUME NEW x \in Detectors, NEW r, Usable(r)
    PROVE  Older(x, Waking(x, r), r.dt)
<1> DEFINE e == Elapse(x, r)
           y == Waking(x, r)
<1>1. e \in Detectors
  BY ElapseFacts
<1>2. Older(x, e, r.dt)
  BY ElapseMoves
<1> HIDE DEF e
<1>3. Alike(e, y)
  BY <1>1 DEF Waking, Detectors, Alike, e
<1> QED
  BY <1>2, <1>3, AlikeFacts DEF Older

LEMMA TickedMoves ==
    ASSUME NEW x \in Detectors, NEW r, Usable(r), Moves(Ticked(x, r))
    PROVE  Moves(x)
<1> DEFINE y == Ticked(x, r)
<1>1. y \in Detectors /\ (y.st = x.st \/ (x.st \in Open /\ y.st = "running"))
  BY TickedFacts
<1>2. CASE x.st \in Open
  <2>1. y.st \in Open
    BY <1>1, <1>2 DEF Open
  <2>2. /\ PhaseOf(x) = "cycle" /\ PhaseOf(y) = "cycle"
        /\ OriginOf(x) = "idle" /\ OriginOf(y) = "idle"
    BY <1>2, <2>1 DEF PhaseOf, OriginOf, Open
  <2>3. \A e \in Ticks : Timed(y, e)
    BY <2>1, PlainFacts DEF Plain, Open, Terminal
  <2> HIDE DEF y
  <2> QED
    BY <2>2, <2>3 DEF Moves, y
<1>3. CASE x.st \notin Open
  <2>1. x.st \notin {"paused", "ending"}
    BY <1>3 DEF Open
  <2>2. y = [x EXCEPT !.clk = Tick(x.clk, r, Threshold(x.st), x.st \in Open)]
    BY <2>1 DEF Ticked
  <2> HIDE DEF y
  <2>3. Alike(x, y)
    BY <2>2 DEF Alike, Detectors
  <2> QED
    BY <2>3, AlikeFirst DEF y
<1> QED
  BY <1>2, <1>3

\* What a step of dt shows of the lifecycle and of the time of a shown end.
Lasts(dt) ==
    /\ Allowed(PhaseOf(d), OriginOf(d), PhaseOf(d'), OriginOf(d'), filed'.status)
    /\ filed' = NoCycle => \A e \in Ticks : Timed(d, e) => Timed(d', Sat(e + dt))
    /\ filed' # NoCycle => Timed(d', 0)

LEMMA ReadingLasts ==
    ASSUME d \in Detectors, NEW r \in Readings, ProcessReading(r)
    PROVE  Lasts(r.dt)
<1> DEFINE x == Waking(d, r)
           h == Heard(d, r)
           z == [x EXCEPT !.lock = FALSE, !.lockHigh = 0]
           y == Ticked(z, h)
           lockHigh == x.lockHigh + h.dt
           clk == [Waited(x.clk, h.dt) EXCEPT !.last = StartLevel]
           deafened == [x EXCEPT !.lockHigh = lockHigh, !.clk = clk]
<1>0. Usable(r) /\ Usable(h)
  BY ReadingUsable, HeardUsable
<1>1. x \in Detectors /\ Older(d, x, r.dt)
  BY <1>0, WakingFacts, WakingMoves
<1>2. IF Locked(h) THEN Become(deafened) ELSE IF Deaf(y, h) THEN Become(y) ELSE Dispatch(y, h)
  BY DEF ProcessReading
<1>3. r.dt \in Nat /\ 0 \in Ticks
  BY <1>0, ReadingFacts, CapFacts
<1> HIDE DEF x, h
<1>4. /\ z \in Detectors /\ Alike(x, z) /\ Alike(x, deafened)
  BY <1>1, <1>3 DEF Detectors, Alike
<1> HIDE DEF z, deafened
<1>5. Moves(x)
  <2>1. CASE Locked(h)
    BY <1>2, <1>4, <2>1, AlikeMoves
  <2>2. CASE ~Locked(h)
    <3>1. y \in Detectors
      BY <1>0, <1>4, TickedFacts
    <3>2. Moves(y)
      BY <1>0, <1>2, <2>2, <3>1, SelfAlike, AlikeMoves, DispatchMoves
    <3> QED
      BY <1>0, <1>4, <3>2, TickedMoves, AlikeFirst
  <2> QED
    BY <2>1, <2>2
<1>6. \A e \in Ticks : Sat(e + r.dt) \in Ticks
  BY <1>3, SatSum
<1> QED
  BY <1>1, <1>5, <1>6 DEF Moves, Older, Lasts

LEMMA MovesLasts == ASSUME Moves(d) PROVE Lasts(0)
<1>1. \A e \in Ticks : Sat(e + 0) = e
  BY ClockAssumption DEF Ticks, Sat, Lesser
<1> QED
  BY <1>1 DEF Moves, Lasts

LEMMA DiscardMoves ==
    ASSUME d \in Detectors, d.st # "off", NEW y \in Detectors, y.st = "off", Become(y)
    PROVE  Moves(d)
<1>1. Plain(y)
  BY DEF Plain, Terminal
<1> QED
  BY <1>1, PlainMoves

LEMMA RestartLasts ==
    ASSUME d \in Detectors, NEW gap \in Nat, Restart(gap)
    PROVE  Lasts(gap)
<1>1. CASE Become(Fresh)
  <2>1. Fresh \in Detectors /\ Plain(Fresh) /\ Fresh.st = "off"
    BY FreshFacts DEF Plain, Terminal
  <2>2. Moves(d)
    BY <1>1, <2>1, PlainMoves
  <2>3. d'.st = "off" /\ filed' = NoCycle
    BY <1>1, <2>1 DEF Become
  <2> QED
    BY <2>2, <2>3 DEF Moves, Lasts, Timed, Terminal
<1>2. CASE /\ d.st \in Live \union {"anti_wrinkle"}
           /\ Become(Resumed(d, gap))
  <2> DEFINE st == IF d.st = "starting" /\ d.up THEN "paused" ELSE d.st
             y == Resumed(d, gap)
  <2>1. y \in Detectors
    BY ResumedFacts
  <2>2. y.st = st /\ y.back = NoBack /\ y.since = None
    BY FreshFacts DEF Resumed, Fresh, Detectors
  <2>3. Become(y)
    BY <1>2
  <2> HIDE DEF y
  <2>4. \A e : Timed(y, e)
    BY <1>2, <2>2 DEF Timed, Live, Open, Terminal
  <2>5. Allowed(PhaseOf(d), OriginOf(d), PhaseOf(y), OriginOf(y), "none")
    <3>1. CASE d.st = "starting" /\ d.up
      BY <2>2, <3>1 DEF Allowed, PhaseOf, OriginOf, Open
    <3>2. CASE d.st = "starting" /\ ~d.up
      BY <2>2, <3>2 DEF Allowed, PhaseOf, OriginOf, Open
    <3>3. CASE d.st # "starting"
      <4>1. PhaseOf(y) = PhaseOf(d) /\ OriginOf(y) = "idle" /\ OriginOf(d) = "idle"
        BY <2>2, <3>3 DEF PhaseOf, OriginOf
      <4> QED
        BY <4>1 DEF Allowed
    <3> QED
      BY <3>1, <3>2, <3>3
  <2> QED
    BY <2>3, <2>4, <2>5 DEF Lasts, Become, NoCycle
<1> QED
  BY <1>1, <1>2 DEF Restart

LEMMA CallMoves ==
    ASSUME d \in Detectors, Sane(d), Call, ~Restarts
    PROVE  Moves(d)
<1>1. CASE MarkUnavailable
  <2>1. Alike(d, [d EXCEPT !.outage = "fresh"])
    BY DEF Alike, Detectors
  <2> QED
    BY <1>1, <2>1, AlikeMoves DEF MarkUnavailable
<1>2. ASSUME NEW m \in BOOLEAN, NEW b \in BOOLEAN, MatchResult(m, b) PROVE Moves(d)
  <2>1. Alike(d, [d EXCEPT !.matched = m, !.vp = b \/ d.up])
    BY DEF Alike, Detectors
  <2> QED
    BY <1>2, <2>1, AlikeMoves DEF MatchResult
<1>3. CASE UserPause \/ UserResume \/ CycleEndTail
  <2>1. /\ Alike(d, [d EXCEPT !.up = TRUE, !.vp = TRUE])
        /\ Alike(d, [d EXCEPT !.up = FALSE, !.vp = FALSE])
        /\ Alike(d, [d EXCEPT !.up = FALSE])
    BY DEF Alike, Detectors
  <2> QED
    BY <1>3, <2>1, AlikeMoves DEF UserPause, UserResume, CycleEndTail
<1>4. CASE UserStop
  <2>1. CASE d.st \in Live \union {"delay_wait"}
    BY <1>4, <2>1, FinishMoves DEF UserStop, CycleStatuses
  <2>2. CASE d.st \in Terminal \union {"anti_wrinkle"}
    <3> DEFINE x == Reset(d, "off")
               y == [x EXCEPT !.lock = TRUE]
    <3>1. Become(y)
      BY <1>4, <2>2 DEF UserStop, Finish, Become, Sane, Started
    <3>2. x \in Detectors /\ x.st = "off"
      BY ResetFacts DEF States
    <3> HIDE DEF x
    <3>3. y \in Detectors /\ y.st = "off"
      BY <3>2 DEF Detectors
    <3> HIDE DEF y
    <3> QED
      BY <1>4, <3>1, <3>3, DiscardMoves DEF UserStop
  <2> QED
    BY <1>4, <2>1, <2>2 DEF UserStop, Detectors, States
<1>5. CASE ForceEnd
  BY <1>5, FinishMoves DEF ForceEnd, ForceStop, CycleStatuses
<1>6. CASE Discard
  <2>1. PICK up \in {d.up, FALSE} : Become([Reset(d, "off") EXCEPT !.up = up])
    BY <1>6 DEF Discard
  <2> DEFINE x == Reset(d, "off")
             y == [x EXCEPT !.up = up]
  <2>2. up \in BOOLEAN
    BY DEF Detectors
  <2>3. x \in Detectors /\ x.st = "off"
    BY ResetFacts DEF States
  <2>4. Become(y)
    BY <2>1
  <2> HIDE DEF x
  <2>5. y \in Detectors /\ y.st = "off"
    BY <2>2, <2>3 DEF Detectors
  <2> HIDE DEF y
  <2> QED
    BY <1>6, <2>4, <2>5, DiscardMoves DEF Discard
<1> QED
  BY <1>1, <1>2, <1>3, <1>4, <1>5, <1>6 DEF Call

\* Every step keeps both, with the time that passes in it.
LEMMA StepLasts ==
    ASSUME TypeOK, Sane(d), Next
    PROVE  \E dt \in Nat : Lasts(dt) /\ Age(dt)
<1>0. d \in Detectors /\ 0 \in Nat
  BY DEF TypeOK
<1>1. CASE Reads
  <2>1. PICK r \in Readings : ProcessReading(r)
    BY <1>1 DEF Reads
  <2>2. Age(r.dt) /\ r.dt \in Nat
    BY <2>1, ReadingUsable, ReadingFacts DEF ProcessReading
  <2> QED
    BY <1>0, <2>1, <2>2, ReadingLasts
<1>2. CASE Restarts
  <2>1. PICK gap \in Steps : Restart(gap)
    BY <1>2 DEF Restarts
  <2> QED
    BY <1>0, <2>1, RestartLasts, DetectorAssumption DEF Restart
<1>3. CASE Call /\ ~Restarts
  <2>1. Age(0)
    BY <1>3 DEF Call, MarkUnavailable, MatchResult, UserPause, UserResume, UserStop,
                ForceEnd, Discard, CycleEndTail
  <2> QED
    BY <1>0, <1>3, <2>1, CallMoves, MovesLasts
<1> QED
  BY <1>1, <1>2, <1>3 DEF Next

\* The shown end, and the one a false start would give back, began ended ago.
TimeHolds == Timed(d, ended)

LEMMA TimeKept ==
    ASSUME TypeOK, Sane(d), TimeHolds, Next
    PROVE  TimeHolds'
<1>1. PICK dt \in Nat : Lasts(dt) /\ Age(dt)
  BY StepLasts
<1>2. ended \in Ticks
  BY DEF TypeOK
<1>3. CASE ~Shown(d')
  BY <1>3 DEF Shown, TimeHolds, Timed
<1>4. CASE Shown(d') /\ filed' # NoCycle
  BY <1>1, <1>4 DEF Lasts, Age, TimeHolds
<1>5. CASE Shown(d') /\ filed' = NoCycle
  BY <1>1, <1>2, <1>5 DEF Lasts, Age, TimeHolds
<1> QED
  BY <1>3, <1>4, <1>5

LEMMA EndTimes == Spec => [](IInv /\ TimeHolds)
<1>1. Init => TimeHolds
  <2>1. Init => d = Fresh
    BY DEF Init
  <2> QED
    BY <2>1, FreshFacts DEF TimeHolds, Timed, Terminal
<1>2. IInv /\ TimeHolds /\ [Next]_vars => TimeHolds'
  <2>1. ASSUME IInv, TimeHolds, Next PROVE TimeHolds'
    BY <2>1, TimeKept DEF IInv
  <2>2. TimeHolds /\ UNCHANGED vars => TimeHolds'
    BY DEF vars, TimeHolds, Timed
  <2> QED
    BY <2>1, <2>2
<1> QED
  BY <1>1, <1>2, Invariance, PTL DEF Spec

\* However many false starts interrupt it, a shown end keeps the time it began,
\* which decides when the display expires.
THEOREM EndsKeepTheirTime == Spec => []EndKeepsItsTime
<1>1. TimeHolds => EndKeepsItsTime
  BY DEF TimeHolds, Timed, EndKeepsItsTime
<1> QED
  BY <1>1, EndTimes, PTL

\* The detector keeps the promise of CycleLifecycle, whatever the power does: a
\* cycle is recorded once, by the step that ends it, and shown as recorded; a
\* false start records nothing and gives back what it interrupted.
THEOREM KeepsThePromise == Spec => LifecycleSpec
<1>1. Init => Lifecycle!LifecycleInit
  <2>1. Init => d = Fresh /\ filed.status = "none"
    BY DEF Init, NoCycle
  <2>2. PhaseOf(Fresh) = "idle" /\ OriginOf(Fresh) = "idle"
    BY FreshFacts DEF PhaseOf, OriginOf, Open
  <2> QED
    BY <2>1, <2>2 DEF Lifecycle!LifecycleInit
<1>2. IInv /\ [Next]_vars => [Lifecycle!LifecycleNext]_(Lifecycle!lifecycleVars)
  <2>1. ASSUME IInv, Next PROVE Lifecycle!LifecycleNext
    BY <2>1, StepLasts, AllowedNext DEF IInv, Lasts
  <2>2. UNCHANGED vars => UNCHANGED Lifecycle!lifecycleVars
    BY DEF vars, Lifecycle!lifecycleVars
  <2> QED
    BY <2>1, <2>2
<1> QED
  BY <1>1, <1>2, Invariance, PTL DEF Spec, LifecycleSpec, Lifecycle!LifecycleSpec
=============================================================================
