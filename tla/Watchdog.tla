------------------------------- MODULE Watchdog -------------------------------
(***************************************************************************)
(* The watchdog of an open cycle (manager.py): the timer that compares     *)
(* what the manager believes of the power sensor with what it shows, feeds *)
(* the detector while the sensor is silent, and ends a cycle that stays    *)
(* silent, stays dead or stays open too long; with the restart that must   *)
(* tell a silent sensor from one that has just spoken.                     *)
(*                                                                         *)
(* Ages are counted in intervals of the watchdog and saturate at Oldest.   *)
(* The detector is taken by what the watchdog asks of it: an open cycle,   *)
(* whether quiet time has been credited, whether a programme is matched;   *)
(* its finishers may end a quiet cycle or wait on.                         *)
(***************************************************************************)
EXTENDS Integers

CONSTANTS
    Oldest,         \* bound: where ages saturate
    Late,           \* bound: the time before a late tick
    Gaps,           \* bound: how long the restarts take, counted from the last save
    SilenceBudget,  \* _low_power_no_update_timeout and the floor of its device type
    PausedBudget,   \* DEFAULT_MAX_DEFERRAL_SECONDS + 1800
    Expected,       \* the expected duration of the matched programme
    Leeway,         \* 1800 s past it
    ActiveTimeout,  \* _no_update_active_timeout
    QuietWait,      \* off_delay, before a low power that is not waiting is fed
    HighLimit,      \* 4 h of silence at high power, beyond the expected duration
    IdleCeiling,    \* _unmatched_watchdog_ceiling
    Zombie,         \* three times the expected duration and 4 h
    GhostAge,       \* 600 s, or 180 s of a dishwasher
    GhostSilence,   \* 300 s, or 60 s of a dishwasher
    CycleLimit,     \* the detector's 8 h safety
    FreshSave,      \* 1800 s: a save younger than this is restored
    HighSave,       \* 3600 s: and one this young when power is high
    External        \* an external end trigger is wired and reports

ASSUME WatchdogAssumption ==
    /\ {Oldest, Late, SilenceBudget, PausedBudget, Expected, Leeway, ActiveTimeout, QuietWait,
        HighLimit, IdleCeiling, Zombie, GhostAge, GhostSilence, CycleLimit, FreshSave,
        HighSave} \subseteq Nat
    /\ Gaps \subseteq Nat
    /\ External \in BOOLEAN
    /\ SilenceBudget <= PausedBudget
    /\ \A limit \in {PausedBudget, Expected + Leeway, Expected + HighLimit, IdleCeiling,
                     Zombie, CycleLimit} : limit < Oldest

VARIABLE
    w    \* what the watchdog reads and writes

\* quiet is below the stop threshold, low is not, but not above min_power.
PowerLevels == {"quiet", "low", "high"}
NotRead == -1
WatchAges == 0..Oldest

\* live: hass.states' record of the sensor    unread: a report of it was not processed
\* open: a cycle is                           age: since its start
\* waiting: _time_below_threshold > 0         matched: expected_duration > 0
\* verified, paused: _verified_pause, _is_user_paused
\* outage: _sensor_outage_since is set        near: it began just after another ended
\* cached: _current_power                     any: since _last_reading_time
\* real: since _last_real_reading_time        restored: _restored_sensor_clock's power
\* heard: history, since the sensor last said something new
\* why, owed: history, what ended the last cycle, and the silence that had to pass
Watched ==
    [live : PowerLevels \union {"gone"}, unread : BOOLEAN, open : BOOLEAN, age : WatchAges,
     waiting : BOOLEAN, matched : BOOLEAN, verified : BOOLEAN, paused : BOOLEAN,
     outage : BOOLEAN, near : BOOLEAN, cached : PowerLevels, any : WatchAges \union {NotRead},
     real : WatchAges, restored : PowerLevels \union {"none"}, heard : WatchAges,
     why : {"none", "detector", "zombie", "ghost", "stale", "offline", "dropped"},
     owed : WatchAges]

Idle ==
    [live |-> "quiet", unread |-> FALSE, open |-> FALSE, age |-> 0, waiting |-> FALSE,
     matched |-> FALSE, verified |-> FALSE, paused |-> FALSE, outage |-> FALSE,
     near |-> FALSE, cached |-> "quiet", any |-> 0, real |-> 0, restored |-> "none",
     heard |-> 0, why |-> "none", owed |-> 0]

WatchInit == w = Idle

-----------------------------------------------------------------------------
Older(age, dt) == IF age = NotRead THEN NotRead
                  ELSE IF age + dt < Oldest THEN age + dt ELSE Oldest

Aged(x, dt) ==
    [x EXCEPT !.age = Older(@, dt), !.any = Older(@, dt), !.real = Older(@, dt),
              !.heard = Older(@, dt)]

\* The end of a cycle, after a silence longer than owed where it is about silence.
EndedBy(x, why, owed) ==
    [Idle EXCEPT !.live = x.live, !.outage = x.outage, !.heard = x.heard,
                 !.why = why, !.owed = owed]

\* What a reading makes of the detector: quiet time counts from the last reading on,
\* unless the sensor was out; a quiet cycle may end, and so may one past the 8 h safety,
\* which ENDING has none of.
Fed(x, power) ==
    LET waiting == power = "quiet" /\ (x.waiting \/ (x.any > 0 /\ ~x.outage))
    IN {[x EXCEPT !.waiting = waiting]}
       \union (IF (waiting /\ ~x.verified) \/ x.age > CycleLimit
               THEN {EndedBy(x, "detector", 0)} ELSE {})

Spoken(x, power) == Fed([x EXCEPT !.live = power], power)

\* The manager's caches after a reading it took, none for a cycle that ended.
Noted(x, power) ==
    IF x.open THEN [x EXCEPT !.any = 0, !.cached = power, !.outage = FALSE]
              ELSE [x EXCEPT !.outage = FALSE]

-----------------------------------------------------------------------------
MutResynced(x) ==
    IF x.live = "gone" THEN {x} ELSE {[x EXCEPT !.cached = x.live, !.unread = FALSE]}

\* _resync_power_from_state: the sensor's present state is believed rather than the
\* cache, and a report the manager missed is fed as of now.
Resynced(x) ==
    IF x.live = "gone" THEN {x}
    ELSE IF x.unread
    THEN {Noted([y EXCEPT !.unread = FALSE, !.real = IF y.open THEN y.heard ELSE 0], x.live) :
              y \in Fed(x, x.live)}
    ELSE {[x EXCEPT !.cached = x.live]}

\* _low_power_silence_budget_s.
Budget(x) ==
    LET remaining == IF x.matched /\ x.age < Expected THEN Expected - x.age + Leeway ELSE 0
        least == IF x.verified THEN PausedBudget ELSE SilenceBudget
    IN IF remaining > least THEN remaining ELSE least

MutKeptAlive(x) ==
    LET power == IF x.live = "gone" THEN "quiet" ELSE x.live
    IN {IF y.open THEN [y EXCEPT !.any = 0, !.real = 0, !.cached = power] ELSE y :
            y \in IF x.outage THEN {x} ELSE Fed(x, power)}

\* A keepalive repeats what the sensor shows; during an outage the detector only takes
\* note of the time.  It is no word of the sensor.
KeptAlive(x) ==
    LET power == IF x.live = "gone" THEN "quiet" ELSE x.live
    IN {IF y.open THEN [y EXCEPT !.any = 0, !.cached = power] ELSE y :
            y \in IF x.outage THEN {x} ELSE Fed(x, power)}

IsZombie(x) ==
    /\ ~x.paused /\ ~x.verified
    /\ IF x.matched THEN x.age > Zombie
       ELSE x.age > IdleCeiling /\ x.cached # "high" /\ ~External

IsGhost(x) == ~x.matched /\ x.near /\ x.age > GhostAge /\ x.real > GhostSilence

\* The rest of a tick, in source order.
Checked(x) ==
    IF IsZombie(x) THEN {EndedBy(x, "zombie", 0)}
    ELSE IF IsGhost(x) THEN {EndedBy(x, "ghost", GhostSilence)}
    ELSE IF x.waiting
    THEN IF x.real > Budget(x) THEN {EndedBy(x, "stale", Budget(x))}
         ELSE IF x.real > 1 THEN KeptAlive(x) ELSE {x}
    ELSE IF x.cached # "high" /\ (x.any > QuietWait \/ x.real > ActiveTimeout)
    THEN KeptAlive(x)
    ELSE IF x.any > ActiveTimeout
    THEN IF x.cached = "high" /\ x.age < (IF x.matched THEN Expected ELSE 0) + HighLimit
         THEN {[x EXCEPT !.any = 0]}
         ELSE {EndedBy(x, "offline", ActiveTimeout)}
    ELSE {x}

\* _watchdog_check_stuck_cycle.  With no reading since the setup it returns at once.
WatchTick(dt) ==
    /\ w.open
    /\ LET x == Aged(w, dt)
       IN IF x.any = NotRead THEN w' = x
          ELSE \E y \in Resynced(x) :
                  IF ~y.open THEN w' = y ELSE \E z \in Checked(y) : w' = z

-----------------------------------------------------------------------------
MutSeeded(x, power) ==
    [x EXCEPT !.restored = "none", !.unread = FALSE, !.real = 0,
              !.heard = IF x.open /\ x.restored = power THEN @ ELSE 0]

\* _seed_real_reading_clock: the value of before the restart is no news.
Seeded(x, power) ==
    IF x.open /\ x.restored = power THEN [x EXCEPT !.restored = "none", !.unread = FALSE]
    ELSE [x EXCEPT !.restored = "none", !.unread = FALSE, !.real = 0, !.heard = 0]

\* _async_power_changed takes a reading of an open cycle.
WatchReport(power) ==
    /\ w.open
    /\ \E y \in Spoken(Seeded(w, power), power) : w' = Noted(y, power)

\* The reading that starts a cycle, and one that starts none.
IdleReport(power) ==
    /\ ~w.open
    /\ \E near \in BOOLEAN, open \in {FALSE, power = "high"} :
          w' = IF open THEN [w EXCEPT !.live = power, !.open = TRUE, !.near = near,
                                      !.cached = power, !.outage = FALSE, !.heard = 0,
                                      !.why = "none", !.owed = 0]
                       ELSE [w EXCEPT !.live = power, !.outage = FALSE, !.heard = 0,
                                      !.why = "none", !.owed = 0]

\* A report the throttle drops, or whose event is lost.
MissedReport(power) ==
    /\ w.open /\ w.restored = "none" /\ w.any # NotRead
    /\ w' = [w EXCEPT !.live = power, !.unread = TRUE, !.heard = 0]

\* mark_sensor_unavailable.  A report missed before is lost for good.
SensorGone ==
    /\ ~(w.live = "gone" /\ w.outage)
    /\ w' = [w EXCEPT !.live = "gone", !.outage = TRUE, !.unread = FALSE,
                      !.heard = IF w.unread THEN w.real ELSE @]

\* The matching that follows a reading, which an outage has none of.
WatchMatch(m, v) ==
    /\ w.open /\ ~w.outage /\ w.any # NotRead
    /\ v => w.verified \/ m
    /\ w' = [w EXCEPT !.matched = m, !.verified = v \/ w.paused]

WatchPause ==
    /\ w.open /\ ~w.paused
    /\ w' = [w EXCEPT !.paused = TRUE, !.verified = TRUE]

WatchResume ==
    /\ w.paused
    /\ w' = [w EXCEPT !.paused = FALSE, !.verified = FALSE]

\* _attempt_state_restoration takes the snapshot of a young save, and an older one of a
\* cycle the watchdog would still hold.
Viable(x, gap, power) ==
    \/ gap < FreshSave
    \/ gap < HighSave /\ power = "high"
    \/ power \notin {"high", "gone"} /\ x.waiting /\ x.real <= Budget(x)

\* A restart: the sensor shows something when it is over, or nothing yet.
\* _read_power_state_at_setup feeds what it shows.
WatchRestart(gap, power) ==
    /\ w.open
    /\ LET older == Aged([w EXCEPT !.verified = w.paused], gap)
           x == [older EXCEPT !.live = power, !.any = NotRead, !.restored = w.cached,
                              !.cached = "quiet", !.outage = FALSE, !.near = FALSE,
                              !.heard = IF w.unread THEN older.real ELSE @,
                              !.unread = FALSE]
       IN IF ~Viable(older, gap, power) THEN w' = EndedBy(x, "dropped", 0)
          ELSE IF power = "gone" THEN w' = x
          ELSE \E y \in Fed(x, power) : w' = Noted(Seeded(y, power), power)

Ticks == \E dt \in {1, Late} : WatchTick(dt)

WatchNext ==
    \/ Ticks
    \/ \E power \in PowerLevels : WatchReport(power) \/ IdleReport(power) \/ MissedReport(power)
    \/ SensorGone
    \/ \E m, v \in BOOLEAN : WatchMatch(m, v)
    \/ WatchPause \/ WatchResume
    \/ \E gap \in Gaps, power \in PowerLevels \union {"gone"} : WatchRestart(gap, power)

\* The timer of an open cycle fires.
WatchFairness == WF_w(Ticks)

WatchSpec == WatchInit /\ [][WatchNext]_w /\ WatchFairness

-----------------------------------------------------------------------------
WatchTypeOK == w \in Watched

\* A cycle is ended for silence only if the sensor really was silent that long: not by
\* a cache that missed its last report (_resync_power_from_state).
StaleIsSilent == w.why \in {"stale", "ghost", "offline"} => w.heard > w.owed

\* The silence clock never runs behind the sensor: neither a keepalive nor the write
\* of the old value after a restart counts as its word (_seed_real_reading_clock).
SilenceKnown == w.open => w.real >= w.heard

\* The sensor is away, a reading was taken since the setup, and the cycle either waits
\* on low power or is not paused.
Dead == /\ w.open /\ w.live = "gone" /\ w.any # NotRead
        /\ \/ w.waiting \/ w.cached = "high"
           \/ ~w.verified /\ (w.matched \/ ~External)

\* "The manager's staleness force-stop still ends a cycle whose sensor stays dead":
\* whatever keepalives it gets, a dead cycle ends or its sensor comes back.
DeadSensorEnds == Dead ~> ~Dead
=============================================================================
