--------------------------- MODULE CycleDetector ----------------------------
(***************************************************************************)
(* CycleDetector (cycle_detector.py): the state machine that turns power   *)
(* readings into recorded cycles, together with the calls the manager      *)
(* makes on it between readings (manager.py).                              *)
(*                                                                         *)
(* What a branch needs beyond clocks and flags - energy in a window, match *)
(* confidence, flatness of a plateau, the confidence providers - is        *)
(* evidence: where the code consults it the model takes either outcome.    *)
(*                                                                         *)
(* A reading is one step, as process_reading never suspends.  Calls        *)
(* between readings happen at the time of the last reading.  Instants the  *)
(* code keeps are modelled by their age at the last reading, None when     *)
(* unset.                                                                  *)
(***************************************************************************)
EXTENDS QuietClocks

CONSTANTS
    Steps,          \* bound: the times that pass between two readings
    Powers,         \* the levels the appliance draws
    AntiWrinkle,    \* anti_wrinkle_enabled on a device type that tumbles
    DelayDetect,    \* delay_detect_enabled, stop below start threshold
    Dishwasher,     \* device_type is a dishwasher
    PauseAfter,     \* _dynamic_pause_threshold
    EndAfter,       \* _dynamic_end_threshold
    OffDelay,       \* off_delay, the least the shortened waits come to
    HardQuiet,      \* the least of the hard finalize's required_quiet
    SmartDebounce,  \* smart_debounce
    DropAfter,      \* TERMINAL_DROP_OFF_DELAY_SECONDS
    OrphanWait,     \* the least orphaned_pause_wait_s
    SpikeAfter,     \* 120 s in ENDING, after which a high reading is a spike
    MaxCycle,       \* the 8 h safety
    MinComplete,    \* completion_min_seconds
    Preroll,        \* how far _apply_curve_preroll moves a start back
    BandConfirm,    \* delay_confirm_seconds
    DelayTimeout,   \* delay_timeout_seconds
    TrueOffLimit,   \* 30 s of true off that end the delay wait
    PausedOffLimit, \* STARTING_PAUSED_TRUE_OFF_TIMEOUT_SECONDS
    LockRelease,    \* STOP_LOCKOUT_RELEASE_SECONDS
    BurstLimit,     \* anti_wrinkle_max_duration
    FloorBurst,     \* ANTI_CREASE_CONFIRM_WINDOW_S
    AWIdle,         \* anti_wrinkle_idle_timeout
    AWMax           \* 7200 s in ANTI_WRINKLE

ASSUME DetectorAssumption ==
    /\ Steps \subseteq Nat \ {0} /\ Powers \subseteq Level
    /\ AntiWrinkle \in BOOLEAN /\ DelayDetect \in BOOLEAN /\ Dishwasher \in BOOLEAN
    /\ \A limit \in {PauseAfter, EndAfter, OffDelay, HardQuiet, SmartDebounce, DropAfter,
                     OrphanWait, SpikeAfter, MinComplete, Preroll, BandConfirm,
                     DelayTimeout, TrueOffLimit, PausedOffLimit, LockRelease,
                     BurstLimit, FloorBurst, AWIdle, AWMax, MaxCycle} : limit \in Ticks
    /\ MaxCycle < Cap

VARIABLES
    d,       \* the detector's attributes
    filed,   \* the cycle this step gave to _on_cycle_end
    ended    \* history: time since that, as long as its end is shown or probed

vars == <<d, filed, ended>>

None == -1
Ages == {None} \union Ticks

Open == {"running", "paused", "ending"}
Live == Open \union {"starting"}
Terminal == {"finished", "interrupted", "force_stopped"}
States == Live \union Terminal \union {"off", "delay_wait", "anti_wrinkle"}

NoBack == [st |-> "none", enter |-> 0]
Backs == {NoBack} \union [st : Terminal, enter : Ticks]

\* first: _last_process_time is unset, so the next reading closes no interval
\* st: _state                         enter: since _state_enter_time
\* age: since _current_cycle_start    clk: see QuietClocks
\* matched: _matched_profile is set   vp, up: _verified_pause, _user_paused
\* lock, lockHigh: _ignore_power_until_idle, _lockout_high_seconds
\* outage: _sensor_outage_since is unset, later or earlier than the last reading
\* back, since: _probe_terminal_from, _probe_wait_since
\* band, keepBand: since _delay_band_start, _preserve_delay_band_on_off
\* waitHigh, trueOff: since _delay_wait_high_start, _delay_wait_true_off_seconds
\* pausedOff: since _starting_paused_off_since
\* idle, floor: _anti_wrinkle_idle_time, _anticrease_tail_floor_w is set
\* cand, hot: since _anti_wrinkle_candidate_start, its peak exceeds the maximum
Detectors ==
    [first : BOOLEAN, st : States, enter : Ticks, age : Ages, clk : Clocks, matched : BOOLEAN,
     vp : BOOLEAN, up : BOOLEAN, lock : BOOLEAN, lockHigh : Ticks,
     outage : {"none", "fresh", "old"},
     back : Backs, since : Ages,
     band : Ages, keepBand : BOOLEAN, waitHigh : Ages, trueOff : Ticks,
     pausedOff : Ages, idle : Ticks, floor : BOOLEAN, cand : Ages, hot : BOOLEAN]

Reasons == {"timeout", "smart", "terminal_drop", "force_stopped", "user"}
CycleStatuses == {"completed", "interrupted", "force_stopped"}
Cycles == [status : CycleStatuses, why : Reasons]
NoCycle == [status |-> "none", why |-> "none"]

\* A detector just made.
Fresh ==
    [first |-> TRUE, st |-> "off", enter |-> 0, age |-> None, clk |-> ClearClocks,
     matched |-> FALSE, vp |-> FALSE, up |-> FALSE, lock |-> FALSE, lockHigh |-> 0,
     outage |-> "none", back |-> NoBack, since |-> None,
     band |-> None, keepBand |-> FALSE, waitHigh |-> None, trueOff |-> 0,
     pausedOff |-> None, idle |-> 0, floor |-> FALSE, cand |-> None, hot |-> FALSE]

Init ==
    /\ d = Fresh
    /\ filed = NoCycle
    /\ ended = 0

-----------------------------------------------------------------------------
\* _transition_to, with what the manager's state callback does to the detector:
\* a new cycle starts without a user pause.
To(x, n) ==
    IF x.st = n THEN x
    ELSE [x EXCEPT
            !.st = n, !.enter = 0,
            !.clk.pulse = IF n \in Open THEN @ ELSE NoPulse,
            !.back = IF n = "starting" THEN @ ELSE NoBack,
            !.since = IF n = "starting" THEN @ ELSE None,
            !.band = IF n \in {"delay_wait", "running"} \/ (n = "off" /\ ~x.keepBand)
                     THEN None ELSE @,
            !.keepBand = @ /\ n \notin {"off", "delay_wait", "running"},
            !.waitHigh = IF n \in {"off", "delay_wait"} THEN None ELSE @,
            !.trueOff = IF n \in {"off", "delay_wait"} THEN 0 ELSE @,
            !.pausedOff = IF n \in {"off", "starting"} THEN None ELSE @,
            !.idle = IF n \in {"off", "anti_wrinkle", "starting"} THEN 0 ELSE @,
            !.cand = IF n = "anti_wrinkle" THEN None ELSE @,
            !.hot = @ /\ n # "anti_wrinkle",
            !.up = @ /\ ~(n = "running" /\ x.st \in {"off", "starting"})]

\* The quiet run is carried into ANTI_WRINKLE, nothing else is carried anywhere.
ClocksAfterReset(c, n) ==
    IF n = "anti_wrinkle"
    THEN [ClearClocks EXCEPT !.below = c.below, !.gapfree = c.gapfree, !.last = c.last]
    ELSE [ClearClocks EXCEPT !.last = c.last]

Reset(x, n) ==
    [To(x, n) EXCEPT
        !.age = None, !.clk = ClocksAfterReset(x.clk, n), !.matched = FALSE, !.vp = FALSE,
        !.lock = FALSE, !.lockHigh = 0, !.back = NoBack, !.since = None,
        !.waitHigh = None, !.trueOff = 0, !.pausedOff = None,
        !.idle = 0, !.floor = FALSE, !.cand = None, !.hot = FALSE]

MutEndState(status, why) ==
    CASE AntiWrinkle /\ why \in {"timeout", "smart"} -> "anti_wrinkle"
      [] status = "interrupted"   -> "interrupted"
      [] status = "force_stopped" -> "force_stopped"
      [] OTHER -> "finished"

EndState(status, why) ==
    CASE status = "interrupted"   -> "interrupted"
      [] status = "force_stopped" -> "force_stopped"
      [] OTHER -> IF AntiWrinkle /\ why \in {"timeout", "smart"} THEN "anti_wrinkle"
                                                                ELSE "finished"

\* _finish_cycle: a cycle of one of these lengths is recorded, a short one as
\* interrupted; with no start noted there is nothing to record.  Callers may then
\* lock the detector out or keep an anti-crease floor.
Finish(x, lengths, status, why, lock, floor) ==
    IF x.age = None
    THEN d' = [Reset(x, "off") EXCEPT !.lock = lock] /\ filed' = NoCycle
    ELSE \E len \in lengths :
            LET s == IF len < MinComplete THEN "interrupted" ELSE status
                n == EndState(s, why)
            IN /\ filed' = [status |-> s, why |-> why]
               /\ d' = [Reset(x, n) EXCEPT !.lock = lock,
                                          !.floor = floor /\ n = "anti_wrinkle"]

\* end_time without the tail, and with it: _keep_tail_cap cuts it again for a
\* matched programme, but a dishwasher's at most in part.
Trimmed(x) == {x.age - x.clk.silent}
Tailed(x) == {x.age, x.age - x.clk.silent}
MaybeTailed(x) == IF Dishwasher THEN Tailed(x) ELSE Trimmed(x)

Become(x) == d' = x /\ filed' = NoCycle

-----------------------------------------------------------------------------
Threshold(st) == IF st \in Open \union {"anti_wrinkle"} THEN StopLevel ELSE StartLevel

Later(n, dt) == IF n = None THEN None ELSE Sat(n + dt)

\* The instants grow older, and an outage is known to cover the next silence.
Elapse(x, r) ==
    [x EXCEPT
        !.enter = Sat(x.enter + r.dt), !.age = Later(x.age, r.dt),
        !.back = IF x.back = NoBack THEN NoBack
                 ELSE [x.back EXCEPT !.enter = Sat(x.back.enter + r.dt)],
        !.since = Later(x.since, r.dt), !.band = Later(x.band, r.dt),
        !.waitHigh = Later(x.waitHigh, r.dt), !.pausedOff = Later(x.pausedOff, r.dt),
        !.cand = Later(x.cand, r.dt),
        !.outage = IF Real(r) \/ x.outage = "none" THEN "none" ELSE "old"]

\* The interval a reading closes: none for the first one, but the instants of a
\* restored cycle are kept.
Heard(x, r) ==
    IF ~x.first THEN r
    ELSE [p |-> r.p, dt |-> 0, u |-> 0, src |-> IF r.src = "late" THEN "real" ELSE r.src]

Waking(x, r) ==
    [Elapse(x, r) EXCEPT !.first = FALSE,
                         !.clk = IF x.first THEN Waited(@, r.dt) ELSE @]

\* How much of the time since the last reading an outage may cover.
Uncovered(x, dt) == CASE x.outage = "none"  -> {0}
                      [] x.outage = "fresh" -> 0..dt
                      [] x.outage = "old"   -> {dt}

\* A keepalive that was not observed carries 0 W.
Readings == {r \in Reading(Steps) : /\ r.p \in Powers
                                    /\ r.u <= r.dt
                                    /\ r.src = "unseen" => r.p = 0
                                    /\ r.src = "late" => r.dt > OutageCeiling}

\* Before the dispatch: the clocks tick, and a pulse that lasted too long, or
\* was not seen, resumes the cycle it would have resumed when it began.
Ticked(x, r) ==
    LET threshold == Threshold(x.st)
        open == x.st \in Open
        resumes == /\ x.clk.pulse.resume /\ Rejects(x.clk, r, threshold, open)
                   /\ x.st \in {"paused", "ending"}
        y == IF resumes THEN [To(x, "running") EXCEPT !.enter = Sat(r.dt)] ELSE x
    IN [y EXCEPT !.clk = Tick(x.clk, r, threshold, open)]

IsHigh(x, r) == r.p >= Threshold(x.st)

Begin(x, back, since, age) ==
    [To(x, "starting") EXCEPT !.back = back, !.since = since, !.age = age]

-----------------------------------------------------------------------------
\* OFF and the terminal states.  With delay detection a reading in the band
\* counts towards the wait, and only in OFF.
InIdle(x, r) ==
    LET watched == DelayDetect /\ x.st = "off"
        shown == x.st \in Terminal
        band == IF x.band = None THEN 0 ELSE x.band
    IN \/ /\ watched /\ r.p = StopLevel
          /\ Become(IF band >= BandConfirm THEN To(x, "delay_wait")
                                           ELSE [x EXCEPT !.band = band])
       \/ /\ IsHigh(x, r)
          /\ \E age \in {0, Preroll} :
                Become(Begin([x EXCEPT !.keepBand = x.band # None],
                             IF shown THEN [st |-> x.st, enter |-> x.enter] ELSE NoBack,
                             None, age))
       \/ /\ ~IsHigh(x, r) /\ ~(watched /\ r.p = StopLevel)
          /\ Become(IF watched THEN [x EXCEPT !.band = None, !.keepBand = FALSE] ELSE x)

MutInAntiWrinkle(x, r) ==
    IF IsHigh(x, r)
    THEN Become(IF r.p > BurstLevel THEN Begin(x, NoBack, None, 0) ELSE [x EXCEPT !.idle = 0])
    ELSE LET idle == Sat(x.idle + r.dt)
         IN Become(IF idle >= AWIdle THEN To(x, "off") ELSE [x EXCEPT !.idle = idle])

\* ANTI_WRINKLE: short or weak bursts are the drum moving; a long or strong one
\* is a new cycle that began with it.
InAntiWrinkle(x, r) ==
    \E tumble \in {FALSE, x.floor}, quiet \in {r.p < StopLevel, r.p <= StopLevel} :
    LET cand == IF x.cand = None THEN 0 ELSE x.cand
        hot == x.hot \/ r.p > BurstLevel
        limit == IF x.floor /\ FloorBurst > BurstLimit THEN FloorBurst ELSE BurstLimit
        unburst == [x EXCEPT !.cand = None, !.hot = FALSE]
        burst == IF ~IsHigh(x, r) THEN x
                 ELSE IF tumble THEN unburst
                 ELSE [x EXCEPT !.cand = cand, !.hot = hot]
        rested == [unburst EXCEPT !.idle = Sat(@ + r.dt)]
    IN IF IsHigh(x, r) /\ ~tumble /\ (hot \/ cand > limit)
       THEN Become(Begin(unburst, NoBack, None, cand))
       ELSE IF quiet
       THEN Become(IF rested.idle >= AWIdle \/ x.enter > AWMax THEN To(rested, "off") ELSE rested)
       ELSE Become(IF x.enter > AWMax THEN To(burst, "off") ELSE [burst EXCEPT !.idle = 0])

\* DELAY_WAIT: two high readings StartDuration apart begin the probe; 30 s of
\* true off or the timeout end the wait.
InDelayWait(x, r) ==
    \/ /\ IsHigh(x, r)
       /\ IF x.waitHigh = None
          THEN Become([x EXCEPT !.trueOff = 0, !.waitHigh = 0])
          ELSE IF x.waitHigh < StartDuration
          THEN Become([x EXCEPT !.trueOff = 0])
          ELSE \E age \in {x.waitHigh, Preroll} :
                  /\ age >= x.waitHigh
                  /\ Become(Begin([x EXCEPT !.trueOff = 0], NoBack, x.enter, age))
    \/ /\ ~IsHigh(x, r)
       /\ LET off == IF r.p < StopLevel THEN Sat(x.trueOff + r.dt) ELSE 0
          IN Become(IF off >= TrueOffLimit \/ x.enter >= DelayTimeout
                    THEN To(x, "off")
                    ELSE [x EXCEPT !.waitHigh = None, !.trueOff = off])

MutReturnedAnew(x) ==
    [To(x, x.back.st) EXCEPT !.age = None, !.clk.silent = Cap, !.clk.above = 0]

\* _return_probe_to_terminal.
Returned(x) ==
    [To(x, x.back.st) EXCEPT !.enter = x.back.enter, !.age = None,
                             !.clk.silent = Cap, !.clk.above = 0]

\* A false start gives back the state it interrupted.
FalseStart(x, r) ==
    IF x.back # NoBack THEN Become(Returned(x))
    ELSE IF x.since # None /\ r.p >= StopLevel /\ x.since < DelayTimeout
    THEN Become([To(x, "delay_wait") EXCEPT !.enter = x.since])
    ELSE Become(To(x, "off"))

\* STARTING: enough time and energy above the threshold commit the cycle.
\* Under a pause a low reading is no false start until five minutes of true off
\* were observed.
InStarting(x, r) ==
    LET off == IF r.p >= StopLevel \/ r.dt > OutageCeiling THEN None
               ELSE IF x.pausedOff = None THEN 0 ELSE x.pausedOff
    IN \/ /\ IsHigh(x, r) /\ x.clk.above >= StartDuration
          /\ Become(To([x EXCEPT !.pausedOff = None], "running"))
       \/ IsHigh(x, r) /\ Become([x EXCEPT !.pausedOff = None])
       \/ ~IsHigh(x, r) /\ x.clk.below = 0 /\ Become(x)
       \/ /\ ~IsHigh(x, r) /\ x.clk.below > 0 /\ x.vp
          /\ Become(IF off # None /\ off >= PausedOffLimit THEN To(x, "off")
                                                           ELSE [x EXCEPT !.pausedOff = off])
       \/ ~IsHigh(x, r) /\ x.clk.below > 0 /\ ~x.vp /\ FalseStart(x, r)

-----------------------------------------------------------------------------
TooLong(x) == x.age > MaxCycle

ForceStop(x) == Finish(x, Trimmed(x), "force_stopped", "force_stopped", FALSE, FALSE)

\* _maybe_finalize_anticrease_tail: keeps the burst level it saw as the floor.
AntiCrease(x) ==
    /\ AntiWrinkle /\ ~x.vp /\ x.matched
    /\ Finish(x, Trimmed(x), "completed", "smart", FALSE, TRUE)

\* _maybe_finalize_standby_band: the plateau may be cut off the recorded cycle.
StandbyBand(x) ==
    /\ ~x.vp /\ x.matched
    /\ Finish(x, Trimmed(x) \union {0}, "completed", "timeout", FALSE, FALSE)

MutInRunning(x, r) ==
    \/ AntiCrease(x)
    \/ Become(IF x.clk.below >= PauseAfter THEN To(x, "paused") ELSE x)

InRunning(x, r) ==
    LET y == IF x.clk.below >= PauseAfter THEN To(x, "paused") ELSE x
    IN \/ AntiCrease(x)
       \/ StandbyBand(y)
       \/ TooLong(y) /\ ForceStop(y)
       \/ ~TooLong(y) /\ Become(y)

NewPulse(x) == x.clk.pulse.on /\ x.clk.pulse.len = 0

Resuming(x) == [x EXCEPT !.clk.pulse.resume = TRUE]

InPaused(x, r) ==
    \/ AntiCrease(x)
    \/ /\ IsHigh(x, r)
       /\ Become(IF ~x.clk.pulse.on THEN To(x, "running")
                 ELSE IF NewPulse(x) THEN Resuming(x) ELSE x)
    \/ /\ ~IsHigh(x, r)
       /\ Become(IF x.clk.below >= EndAfter THEN To(x, "ending") ELSE x)

\* A high reading in ENDING: past the expected end or long into ENDING it is a
\* terminal spike, otherwise the programme resumes.
Spike(x) ==
    \/ StandbyBand(x)
    \/ Become(x)
    \/ x.enter < SpikeAfter /\ ~x.clk.pulse.on /\ Become(To(x, "running"))
    \/ x.enter < SpikeAfter /\ NewPulse(x) /\ Become(Resuming(x))

\* _release_orphaned_pause: a pause whose match is gone.
Unorphaned(x) ==
    IF x.vp /\ ~x.up /\ ~x.matched /\ x.clk.gapfree >= OrphanWait
    THEN {x, [x EXCEPT !.vp = FALSE]} ELSE {x}

\* A quiet reading in ENDING: the ways a cycle may end, in source order, and
\* waiting on where their evidence is missing.
Quiet(x) ==
    \/ /\ x.matched /\ ~x.up
       /\ x.enter >= SmartDebounce
       /\ Dishwasher \/ x.clk.below >= SmartDebounce
       /\ Finish(x, MaybeTailed(x), "completed", "smart", FALSE, FALSE)
    \/ /\ x.matched /\ ~x.vp /\ x.clk.below >= HardQuiet
       /\ Finish(x, Trimmed(x), "completed", "timeout", FALSE, FALSE)
    \/ /\ ~x.vp /\ x.clk.below >= DropAfter
       /\ Finish(x, Trimmed(x), "interrupted", "terminal_drop", FALSE, FALSE)
    \/ /\ ~x.vp /\ x.clk.below >= OffDelay
       /\ Finish(x, MaybeTailed(x), "completed", "timeout", FALSE, FALSE)
    \/ Become(x)

InEnding(x, r) ==
    IF TooLong(x) THEN ForceStop(x)
    ELSE \/ AntiCrease(x)
         \/ IsHigh(x, r) /\ Spike(x)
         \/ ~IsHigh(x, r) /\ \E y \in Unorphaned(x) : Quiet(y)

-----------------------------------------------------------------------------
Dispatch(x, r) ==
    CASE x.st \in Terminal \union {"off"} -> InIdle(x, r)
      [] x.st = "anti_wrinkle" -> InAntiWrinkle(x, r)
      [] x.st = "delay_wait"   -> InDelayWait(x, r)
      [] x.st = "starting"     -> InStarting(x, r)
      [] x.st = "running"      -> InRunning(x, r)
      [] x.st = "paused"       -> InPaused(x, r)
      [] x.st = "ending"       -> InEnding(x, r)

\* The end of the last cycle is shown, or will be again after a false start.
Shown(x) == x.st \in Terminal \/ (x.st = "starting" /\ x.back # NoBack)

Age(dt) == ended' = IF filed' # NoCycle \/ ~Shown(d') THEN 0 ELSE Sat(ended + dt)

Locked(r) == /\ d.lock /\ r.p >= StartLevel
             /\ d.lockHigh + r.dt < LockRelease

MutDeaf(x, r) == ~Real(r) /\ d.outage # "none" /\ x.st \in {"starting", "running", "paused"}

\* A keepalive during a sensor outage moves no probe and no open cycle.
Deaf(x, r) == ~Real(r) /\ d.outage # "none" /\ x.st \in Live

\* process_reading.  After a user's stop the power is ignored until it falls or
\* three minutes pass.
ProcessReading(r) ==
    /\ r.u \in Uncovered(d, r.dt)
    /\ LET x == Waking(d, r)
           h == Heard(d, r)
           y == Ticked([x EXCEPT !.lock = FALSE, !.lockHigh = 0], h)
       IN IF Locked(h)
          THEN Become([x EXCEPT !.lockHigh = @ + h.dt,
                                !.clk = [Waited(@, h.dt) EXCEPT !.last = StartLevel]])
          ELSE IF Deaf(y, h) THEN Become(y)
          ELSE Dispatch(y, h)
    /\ Age(r.dt)

-----------------------------------------------------------------------------
\* The power sensor went unavailable.
MarkUnavailable ==
    /\ d.outage = "none"
    /\ Become([d EXCEPT !.outage = "fresh"])
    /\ Age(0)

MutMatchResult(m, b) ==
    /\ d.st \in Open
    /\ b => d.vp \/ d.matched
    /\ Become([d EXCEPT !.matched = m, !.vp = b])
    /\ Age(0)

\* The matching task delivers: a match or none, and whether the low power is a
\* pause of the programme.  It may have read the pause flag before an await.
MatchResult(m, b) ==
    /\ d.st \in Open
    /\ b => d.vp \/ d.matched
    /\ Become([d EXCEPT !.matched = m, !.vp = b \/ d.up])
    /\ Age(0)

\* async_pause_cycle, or the door opening.
UserPause ==
    /\ d.st \in Live /\ ~(d.up /\ d.vp)
    /\ Become([d EXCEPT !.up = TRUE, !.vp = TRUE])
    /\ Age(0)

UserResume ==
    /\ d.up
    /\ Become([d EXCEPT !.up = FALSE, !.vp = FALSE])
    /\ Age(0)

\* user_stop: the stop button, the terminate service, a door left open, the
\* external end trigger.
UserStop ==
    /\ d.st # "off"
    /\ Finish(d, Tailed(d), "completed", "user", TRUE, FALSE)
    /\ Age(0)

\* force_end: the manager's watchdog.
ForceEnd ==
    /\ d.st \in Live
    /\ ForceStop(d)
    /\ Age(0)

\* reset(STATE_OFF) by the manager: the display of the end expired, the external
\* trigger in a state with no cycle, a manual recording began, or the power
\* sensor was exchanged.  The last two also end a user pause.
Discard ==
    /\ d.st # "off"
    /\ \E up \in {d.up, FALSE} : Become([Reset(d, "off") EXCEPT !.up = up])
    /\ Age(0)

\* The end of the cycle-end tail, which a cycle committed meanwhile skips.
CycleEndTail ==
    /\ d.st \notin Open /\ d.up
    /\ Become([d EXCEPT !.up = FALSE])
    /\ Age(0)

\* restore_state_snapshot, and what the manager restores with it: a start that was
\* paused is taken for a paused cycle, and the user's pause is a verified one.  The
\* probe's way back, the lockout, an outage and a burst are not in the snapshot.
Resumed(x, gap) ==
    LET st == IF x.st = "starting" /\ x.up THEN "paused" ELSE x.st
        held == x.up /\ st \in Open
    IN [Fresh EXCEPT
          !.st = st, !.enter = Sat(x.enter + gap), !.age = Later(x.age, gap),
          !.clk = [Waited(x.clk, gap) EXCEPT !.last = 0, !.pulse = NoPulse],
          !.matched = x.matched, !.up = held, !.vp = held,
          !.idle = IF st = "anti_wrinkle" THEN x.idle ELSE 0, !.floor = x.floor]

\* A reload of the entry, a restart, or a crash: the detector of the snapshot of an
\* open cycle, a probe or a tumble tail, unless that is too old to be taken; any
\* other state is not kept.  The snapshot is the one of the last reading: what a
\* crash loses by an older one is not modelled.
Restart(gap) ==
    /\ \/ Become(Fresh)
       \/ /\ d.st \in Live \/ (d.st = "anti_wrinkle" /\ d.floor)
          /\ Become(Resumed(d, gap))
    /\ Age(gap)

Restarts == \E gap \in Steps : Restart(gap)

Call ==
    \/ Restarts
    \/ MarkUnavailable
    \/ \E m, b \in BOOLEAN : MatchResult(m, b)
    \/ UserPause \/ UserResume \/ UserStop
    \/ ForceEnd \/ Discard \/ CycleEndTail

Reads == \E r \in Readings : ProcessReading(r)

Next == Reads \/ Call

Spec == Init /\ [][Next]_vars

\* The sensor or the watchdog's keepalive keeps producing readings.  A reading is
\* possible in every state, so this is weak fairness.  Restarts do not go on for ever.
FairSpec == Spec /\ []<><<Reads>>_vars /\ <>[][~Restarts]_vars

-----------------------------------------------------------------------------
\* Types of the detector's attributes.
TypeOK ==
    /\ d \in Detectors
    /\ filed \in Cycles \union {NoCycle}
    /\ ended \in Ticks

\* The quiet clocks agree with each other after every reading and call: quiet
\* that was witnessed is quiet, and no quiet run, restored after an absorbed
\* pulse or carried into ANTI_WRINKLE, is longer than the time since activity.
ClocksConsistent == Consistent(d.clk)

\* A cycle or probe always has a start to be recorded from, and a shown end has
\* none, so that a stop there records nothing (_finish_cycle's early return).
StartKnown ==
    /\ d.st \in Live => d.age # None
    /\ d.st \in Terminal \union {"anti_wrinkle"} => d.age = None

\* While the user holds a cycle paused no reading ends it, whatever the match
\* task and the finishers decide; the 8 h safety, the watchdog and the user do.
PauseHolds ==
    [][filed' # NoCycle /\ d.up => filed'.why \in {"force_stopped", "user"}]_vars

\* No finisher acts on silence: while the sensor is away a cycle ends only by
\* its first real reading, the watchdog or the user.
OutageNeverCloses ==
    [][filed' # NoCycle /\ d.outage # "none" =>
          d'.outage = "none" \/ filed'.why \in {"force_stopped", "user"}]_vars

\* However many false starts interrupt it, a shown end keeps the time it began.
EndKeepsItsTime == d.st \in Terminal => d.enter = ended

\* What CycleLifecycle sees of a detector.
PhaseOf(x) ==
    CASE x.st = "off"          -> "idle"
      [] x.st = "delay_wait"   -> "waiting"
      [] x.st = "starting"     -> "probing"
      [] x.st \in Open         -> "cycle"
      [] x.st \in {"finished", "anti_wrinkle"} -> "completed"
      [] OTHER                 -> x.st

OriginOf(x) ==
    IF x.st # "starting" THEN "idle"
    ELSE IF x.back # NoBack THEN PhaseOf(x.back)
    ELSE IF x.since # None THEN "waiting"
    ELSE "idle"

Lifecycle == INSTANCE CycleLifecycle
    WITH Statuses <- CycleStatuses, Nothing <- "none",
         phase <- PhaseOf(d), origin <- OriginOf(d), filed <- filed.status

\* The detector keeps the promise of CycleLifecycle.
LifecycleSpec == Lifecycle!LifecycleSpec

\* Once the sensor stays available every cycle ends, whatever the power does.
CycleEnds == <>[](d.outage = "none") => (d.st \in Open ~> d.st \notin Open)

\* ANTI_WRINKLE is left, though each burst restarts its idle clock.
AntiWrinkleEnds == d.st = "anti_wrinkle" ~> d.st # "anti_wrinkle"

\* "no program time, progress, or ETA is tracked until the real cycle begins":
\* stopping the wait for a delayed start records no cycle.
WaitRecordsNothing == [][d.st = "delay_wait" => filed' = NoCycle]_vars
=============================================================================
