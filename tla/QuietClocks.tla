---------------------------- MODULE QuietClocks -----------------------------
(***************************************************************************)
(* The clocks CycleDetector.process_reading keeps between power readings:  *)
(* how long the appliance has been quiet, how much of that nobody saw, and *)
(* the short anti-crease pulses of a dryer that a quiet run may contain    *)
(* without being broken.  Everything here is a function from the clocks    *)
(* before a reading to the clocks after it.                                *)
(*                                                                         *)
(* Time is counted in ticks and saturates at Cap.  A power is one of four  *)
(* levels: 0 below stop_threshold_w, 1 from there to start_threshold_w,    *)
(* 2 above that, 3 above anti_wrinkle_max_power too.                       *)
(***************************************************************************)
EXTENDS Integers

CONSTANTS
    Cap,            \* bound: every clock saturates here
    PulseMax,       \* QUIET_PULSE_MAX_S
    StartDuration,  \* start_duration_threshold
    OutageCeiling,  \* the gap above which a silence counts as an outage
    QuietPulses     \* device_type \in QUIET_PULSE_DEVICE_TYPES

ASSUME ClockAssumption ==
    /\ Cap \in Nat \ {0}
    /\ PulseMax \in Nat /\ OutageCeiling \in Nat
    /\ StartDuration \in Nat \ {0}   \* 5 s in all defaults
    /\ QuietPulses \in BOOLEAN

Level == 0..3
StopLevel == 1     \* stop_threshold_w
StartLevel == 2    \* start_threshold_w
BurstLevel == 2    \* the highest power not above anti_wrinkle_max_power

Ticks == 0..Cap

Lesser(m, n) == IF m < n THEN m ELSE n

Sat(n) == Lesser(n, Cap)

\* A reading: power, time since the one before, how much of that time a sensor
\* outage covers, and where it comes from: the sensor ("late" when the cadence it
\* is known for does not explain the time), or a watchdog keepalive that repeats
\* a state somebody "saw" or stands for an "unseen" one.
Sources == {"real", "late", "seen", "unseen"}

Real(r) == r.src \in {"real", "late"}

Reading(dts) == [p : Level, dt : dts, u : UNION {0..dt : dt \in dts}, src : Sources]

\* _QuietPulse: the quiet clocks as they were when the pulse began.
Pulse == [on : BOOLEAN, len : Ticks, below : Ticks, gapfree : Ticks,
          silent : Ticks, resume : BOOLEAN]

NoPulse == [on |-> FALSE, len |-> 0, below |-> 0, gapfree |-> 0,
            silent |-> 0, resume |-> FALSE]

\* below:   _time_below_threshold          gapfree: _time_below_threshold_gapfree
\* above:   _time_above_threshold, as far as StartDuration, which is all it is
\*          compared with
\* silent:  now - _last_active_time, Cap when that is unset
\* last:    _last_power, as far as StartLevel
Clocks == [below : Ticks, gapfree : Ticks, above : 0..StartDuration,
           silent : Ticks, last : 0..StartLevel, pulse : Pulse]

ClearClocks == [below |-> 0, gapfree |-> 0, above |-> 0,
                silent |-> Cap, last |-> 0, pulse |-> NoPulse]

-----------------------------------------------------------------------------
High(r, threshold) == r.p >= threshold

PrevHigh(c, threshold) == c.last >= threshold

\* The part of the interval credited as active: none of it across an outage, and
\* none of a silence longer than the sensor's cadence explains.
HighTime(c, r, threshold) ==
    IF ~PrevHigh(c, threshold) THEN 0
    ELSE IF r.src = "late" THEN 0
    ELSE r.dt - r.u

\* _opens_quiet_pulse: the first high reading after a quiet one, in an open cycle
\* of a device that pulses, no stronger than a burst.
Opens(c, r, threshold, open) ==
    /\ High(r, threshold) /\ ~PrevHigh(c, threshold)
    /\ QuietPulses /\ open
    /\ r.p <= BurstLevel

Overlong(c, r) == c.pulse.len + r.dt > PulseMax

Unwitnessed(r) == r.u > 0 \/ r.src = "unseen"

\* _close_quiet_pulse: a short, witnessed pulse leaves the quiet run as it was.
Absorbs(c, r, threshold) ==
    /\ ~High(r, threshold)
    /\ c.pulse.on
    /\ ~Overlong(c, r) /\ ~Unwitnessed(r)

\* _reject_quiet_pulse: the pulse was the programme resuming after all.
Rejects(c, r, threshold, open) ==
    /\ c.pulse.on
    /\ IF High(r, threshold)
       THEN ~Opens(c, r, threshold, open) /\ (r.p > BurstLevel \/ Overlong(c, r))
       ELSE Overlong(c, r) \/ Unwitnessed(r)

\* A hole in the observation: what happened in it is unknown, so the gap-free
\* clock starts over.
Gap(r) == Unwitnessed(r) \/ (Real(r) /\ r.dt > OutageCeiling)

\* The quiet interval that ends at this reading.
Quieted(c, r) ==
    [c EXCEPT !.below = Sat(@ + r.dt - r.u),
              !.gapfree = IF Gap(r) THEN 0 ELSE Sat(@ + r.dt),
              !.silent = Sat(@ + r.dt)]

Restored(c, r) ==
    [c EXCEPT !.below = c.pulse.below,
              !.gapfree = c.pulse.gapfree,
              !.silent = Sat(c.pulse.silent + c.pulse.len + r.dt)]

Begun(c) == [on |-> TRUE, len |-> 0, below |-> c.below, gapfree |-> c.gapfree,
             silent |-> c.silent, resume |-> FALSE]

\* A reading in which only the clocks that compare timestamps advance.
Waited(c, dt) == [c EXCEPT !.silent = Sat(@ + dt)]

MutTick(c, r, threshold, open) ==
    IF High(r, threshold)
    THEN [c EXCEPT !.below = 0, !.silent = 0,
                   !.above = Lesser(@ + HighTime(c, r, threshold), StartDuration),
                   !.last = Lesser(r.p, StartLevel),
                   !.pulse = IF Opens(c, r, threshold, open) THEN Begun(Quieted(c, r))
                             ELSE IF c.pulse.on /\ ~Rejects(c, r, threshold, open)
                             THEN [c.pulse EXCEPT !.len = Sat(@ + r.dt)]
                             ELSE NoPulse]
    ELSE [(IF Absorbs(c, r, threshold) THEN Restored(c, r) ELSE Quieted(c, r))
             EXCEPT !.above = 0, !.last = Lesser(r.p, StartLevel), !.pulse = NoPulse]

\* The clock part of process_reading: a quiet reading extends or, after an
\* absorbed pulse, restores the quiet run; a high one ends it, and remembers it
\* when a pulse may be all it is.
Tick(c, r, threshold, open) ==
    IF High(r, threshold)
    THEN [c EXCEPT !.below = 0, !.gapfree = 0, !.silent = 0,
                   !.above = Lesser(@ + HighTime(c, r, threshold), StartDuration),
                   !.last = Lesser(r.p, StartLevel),
                   !.pulse = IF Opens(c, r, threshold, open) THEN Begun(Quieted(c, r))
                             ELSE IF c.pulse.on /\ ~Rejects(c, r, threshold, open)
                             THEN [c.pulse EXCEPT !.len = Sat(@ + r.dt)]
                             ELSE NoPulse]
    ELSE [(IF Absorbs(c, r, threshold) THEN Restored(c, r) ELSE Quieted(c, r))
             EXCEPT !.above = 0, !.last = Lesser(r.p, StartLevel), !.pulse = NoPulse]

-----------------------------------------------------------------------------
\* The quiet a finisher may trust: the witnessed stretch never exceeds the whole
\* quiet run, and no quiet clock counts time in which the appliance was active,
\* not even across absorbed pulses.
Consistent(c) ==
    /\ c.gapfree <= c.below
    /\ c.below <= c.silent
    /\ c.pulse.on => /\ c.pulse.gapfree <= c.pulse.below
                     /\ c.pulse.below <= c.pulse.silent
=============================================================================
