------------------------- MODULE HeldNotifications --------------------------
(***************************************************************************)
(* Notifications that wait (manager.py, notification_rules.py).  One that  *)
(* would wake somebody is held until the quiet window ends, and any while  *)
(* nobody is home.  The held ones are written to a file when the entry     *)
(* unloads or Home Assistant stops, and dispatched again, through the same *)
(* gates, once it has started.  The end of a cycle purges what belonged to *)
(* the cycle under way.                                                    *)
(*                                                                         *)
(* Time is the local clock in half hours, HoursPerDay of them twice over.  *)
(* A message is its event type and its cycle; where it goes once the gates *)
(* let it through is left out.  A queue is a set: its order only matters   *)
(* for the cards of one delivery.                                          *)
(***************************************************************************)
EXTENDS Integers, FiniteSets

CONSTANTS
    HoursPerDay,   \* 24, fewer in the small instances
    Windows,       \* quiet hours: a start and an end hour, equal where the feature is off
    MaxCycles,     \* bound: cycles
    MaxTold,       \* bound: messages
    MaxStops       \* bound: stops, reloads and crashes

ASSUME HeldAssumption ==
    /\ HoursPerDay \in Nat \ {0} /\ MaxCycles \in Nat /\ MaxTold \in Nat /\ MaxStops \in Nat
    /\ Windows \subseteq (0..(HoursPerDay - 1)) \X (0..(HoursPerDay - 1))

VARIABLES
    halfHour,    \* half hours into the day
    window,      \* the device's quiet hours
    home,        \* somebody of notify_people is home
    gated,       \* notify_only_when_home
    quietQ,      \* _quiet_pending_notifications
    quietTimer,  \* half hours until it flushes, 0 without a timer
    presQ,       \* _pending_notifications
    heldFile,    \* what the file keeps, {} where there is none
    phase,       \* of the manager and of Home Assistant's stop
    keeping,     \* the messages the stop under way is writing
    restoring,   \* what the restore has read and not dispatched
    restore,     \* due, read, removed, over
    cyc,         \* the cycle of _ranking_snapshot_cycle_id
    busy,        \* the detector has a cycle in progress
    ending,      \* cycles between their end and the end of their tail
    clean,       \* the Clean state, with the cycle it is about, or 0
    told,        \* messages dispatched for the first time
    got,         \* how often a message went through the gates
    excused,     \* history: messages a stop, a crash or the user may have lost or doubled
    stray,       \* history: cycles nothing purges: overlapped, dropped, cut by a stop
    emptied,     \* history: cycles whose laundry was taken out
    stops        \* stops so far

heldVars == <<halfHour, window, home, gated, quietQ, quietTimer, presQ, heldFile, phase,
              keeping, restoring, restore, cyc, busy, ending, clean, told, got, excused,
              stray, emptied, stops>>

fileVars == <<heldFile, phase, keeping, restoring, restore, stops>>
cycVars == <<cyc, busy, ending, clean>>
envNow == <<halfHour, window, home, gated>>

Message == [kind : {"start", "pre", "live", "finish", "clean"}, cyc : 1..MaxCycles]
QuietKinds == {"finish", "clean", "pre"}        \* _QUIET_HOURS_EVENT_TYPES
TransientKinds == {"live", "clean"}             \* _NOTIFY_QUEUE_TRANSIENT_EVENTS
CycleKinds == {"start", "pre"}                  \* _NOTIFY_QUEUE_CYCLE_EVENTS

-----------------------------------------------------------------------------
\* notification_rules.py: the window may cross midnight, its end hour is out.
InQuiet(w, t) ==
    LET hour == t \div 2 IN
    \/ w[1] < w[2] /\ w[1] <= hour /\ hour < w[2]
    \/ w[1] > w[2] /\ (hour >= w[1] \/ hour < w[2])

MutUntilQuietEnd(w, t) == IF ~InQuiet(w, t) THEN 0 ELSE IF 2 * w[2] >= t THEN 2 * w[2] - t ELSE 2 * w[2]

\* The end hour of today, or of tomorrow where that has passed.
UntilQuietEnd(w, t) ==
    IF ~InQuiet(w, t) THEN 0
    ELSE IF 2 * w[2] > t THEN 2 * w[2] - t ELSE 2 * w[2] + 2 * HoursPerDay - t

\* _dispatch_notification of the messages ms, the quiet gate on or off, with the
\* queues as q and p: what is held for the window, what for an arrival, what goes.
ToQuiet(ms, quietGate) ==
    {m \in ms : quietGate /\ m.kind \in QuietKinds /\ InQuiet(window, halfHour)}

MutToPresence(ms, quietGate) ==
    IF quietGate /\ gated /\ ~home THEN ms \ ToQuiet(ms, quietGate) ELSE {}

ToPresence(ms, quietGate) == IF gated /\ ~home THEN ms \ ToQuiet(ms, quietGate) ELSE {}

\* A live update replaces the one held.
Queued(p, ms) ==
    IF \E m \in ms : m.kind = "live" THEN {m \in p : m.kind # "live"} \union ms ELSE p \union ms

Dispatch(ms, quietGate, q, p) ==
    LET held == ToQuiet(ms, quietGate)
        away == ToPresence(ms, quietGate)
    IN
    /\ quietQ' = q \union held
    /\ quietTimer' = IF held # {} /\ quietTimer = 0 THEN UntilQuietEnd(window, halfHour) ELSE quietTimer
    /\ presQ' = Queued(p, away)
    /\ got' = [m \in Message |-> IF m \in ms \ (held \union away) THEN got[m] + 1 ELSE got[m]]

Up == phase # "down"

-----------------------------------------------------------------------------
HeldInit ==
    /\ halfHour \in 0..(2 * HoursPerDay - 1)
    /\ window \in Windows
    /\ home \in BOOLEAN /\ gated = TRUE
    /\ quietQ = {} /\ quietTimer = 0 /\ presQ = {}
    /\ heldFile = {}
    /\ phase = "up" /\ keeping = {} /\ restoring = {} /\ restore = "over"
    /\ cyc = 0 /\ busy = FALSE /\ ending = {} /\ clean = 0
    /\ told = {} /\ got = [m \in Message |-> 0]
    /\ excused = {} /\ stray = {} /\ emptied = {} /\ stops = 0

\* A message nobody dispatched before; one live update stands for a cycle's.
Tells(m) ==
    /\ m \notin told /\ Cardinality(told) < MaxTold
    /\ told' = told \union {m}

-----------------------------------------------------------------------------
\* The cycles.  A new one ends the Clean state; a reminder held for it stays held.
BeginCycle ==
    /\ Up /\ ~busy /\ cyc < MaxCycles
    /\ cyc' = cyc + 1 /\ busy' = TRUE /\ clean' = 0
    /\ UNCHANGED <<envNow, quietQ, quietTimer, presQ, fileVars, ending, told, got, excused, stray, emptied>>

\* The start notification, the minutes-left reminder, a live update.
Announce(kind) ==
    LET m == [kind |-> kind, cyc |-> cyc] IN
    /\ Up /\ busy /\ kind \in {"start", "pre", "live"}
    /\ Tells(m)
    /\ Dispatch({m}, TRUE, quietQ, presQ)
    /\ UNCHANGED <<envNow, fileVars, cycVars, excused, stray, emptied>>

EndCycle ==
    /\ Up /\ busy
    /\ busy' = FALSE /\ ending' = ending \union {cyc}
    /\ UNCHANGED <<envNow, quietQ, quietTimer, presQ, fileVars, cyc, clean, told, got, excused, stray, emptied>>

\* A ghost, or a cycle dropped for a recording: no tail, so nothing is purged.
DropCycle ==
    /\ Up /\ busy
    /\ busy' = FALSE /\ stray' = stray \union {cyc}
    /\ UNCHANGED <<envNow, quietQ, quietTimer, presQ, fileVars, cyc, ending, clean, told, got, excused, emptied>>

MutPurgedQuiet(q) == q

\* _clear_live_progress_notification.
PurgedQuiet(q) == {m \in q : m.kind # "pre"}
PurgedPresence(p) == {m \in p : m.kind \notin {"live", "start", "pre"}}

\* The tail of the cycle: the purge, unless a newer cycle began, and "finished",
\* unless it was interrupted.
CycleTail(c, finished) ==
    LET ms == IF finished THEN {[kind |-> "finish", cyc |-> c]} ELSE {}
        same == c = cyc
    IN
    /\ Up /\ c \in ending
    /\ finished => Cardinality(told) < MaxTold
    /\ ending' = ending \ {c}
    /\ stray' = IF same THEN stray ELSE stray \union {c}
    /\ told' = told \union ms
    /\ Dispatch(ms, TRUE, IF same THEN PurgedQuiet(quietQ) ELSE quietQ,
                IF same THEN PurgedPresence(presQ) ELSE presQ)
    /\ clean' = IF same THEN IF finished THEN c ELSE 0 ELSE clean
    /\ UNCHANGED <<envNow, fileVars, cyc, busy, excused, emptied>>

\* The unload reminder, and the laundry taken out: the door, the confirmation.
Remind ==
    LET m == [kind |-> "clean", cyc |-> clean] IN
    /\ Up /\ clean # 0
    /\ Tells(m)
    /\ Dispatch({m}, TRUE, quietQ, presQ)
    /\ UNCHANGED <<envNow, fileVars, cycVars, excused, stray, emptied>>

Unloaded ==
    /\ Up /\ clean # 0
    /\ clean' = 0 /\ emptied' = emptied \union {clean}
    /\ quietQ' = {m \in quietQ : m.kind # "clean"}
    /\ presQ' = {m \in presQ : m.kind # "clean"}
    /\ UNCHANGED <<envNow, quietTimer, fileVars, cyc, busy, ending, told, got, excused, stray>>

-----------------------------------------------------------------------------
\* What goes out while a stop is writing the queues is in the file as well.
Doubled(ms) == IF phase \in {"saving", "saved", "unloading"} THEN excused \union (ms \intersect (keeping \union heldFile)) ELSE excused

\* Half an hour goes by; the quiet timer flushes, with the presence gate on.
\* The clock stops for nobody: while down it moves by itself, in Boot.
HalfHour ==
    /\ Up
    /\ halfHour' = (halfHour + 1) % (2 * HoursPerDay)
    /\ quietTimer' = IF quietTimer = 0 THEN 0 ELSE quietTimer - 1
    /\ IF quietTimer # 1 THEN UNCHANGED <<quietQ, presQ, got, excused>>
       ELSE LET away == ToPresence(quietQ, FALSE)
                sent == quietQ \ away IN
            /\ quietQ' = {}
            /\ presQ' = Queued(presQ, away)
            /\ got' = [m \in Message |-> IF m \in sent THEN got[m] + 1 ELSE got[m]]
            /\ excused' = Doubled(sent)
    /\ UNCHANGED <<window, home, gated, fileVars, cycVars, told, stray, emptied>>

\* The last one leaves, or somebody comes home: _flush_pending_notifications, no
\* gate on.
Leaves ==
    /\ home /\ home' = FALSE
    /\ UNCHANGED <<halfHour, window, gated, quietQ, quietTimer, presQ, fileVars, cycVars, told, got, excused, stray, emptied>>

Arrives ==
    /\ ~home /\ home' = TRUE
    /\ IF ~Up \/ ~gated THEN UNCHANGED <<presQ, got, excused>>
       ELSE /\ presQ' = {}
            /\ got' = [m \in Message |-> IF m \in presQ THEN got[m] + 1 ELSE got[m]]
            /\ excused' = Doubled(presQ)
    /\ UNCHANGED <<halfHour, window, gated, quietQ, quietTimer, fileVars, cycVars, told, stray, emptied>>

\* The options: presence gating on or off, which forgets what it held.
SetGated(on) ==
    /\ phase = "up" /\ gated # on
    /\ gated' = on
    /\ presQ' = IF on THEN presQ ELSE {}
    /\ excused' = IF on THEN excused ELSE excused \union presQ
    /\ UNCHANGED <<halfHour, window, home, quietQ, quietTimer, fileVars, cycVars, told, got, stray, emptied>>

-----------------------------------------------------------------------------
\* Stops and starts.
ToKeep == {m \in quietQ \union presQ : m.kind \notin TransientKinds}

\* An unload cancels the tails and the restore first; Home Assistant's stop leaves
\* them alone.  Both then write the queues as they are now, over what the file has
\* from before.
BeginStop(unload) ==
    /\ phase = "up" /\ stops < MaxStops
    /\ stops' = stops + 1
    /\ phase' = IF unload THEN "unloading" ELSE "saving"
    /\ keeping' = ToKeep
    /\ excused' = excused \union restoring \union (IF ToKeep # {} THEN heldFile \ ToKeep ELSE {})
    /\ IF unload
       THEN ending' = {} /\ stray' = stray \union ending /\ restoring' = {} /\ restore' = "over"
       ELSE UNCHANGED <<ending, stray, restoring, restore>>
    /\ UNCHANGED <<envNow, quietQ, quietTimer, presQ, heldFile, cyc, busy, clean, told, got, emptied>>

\* Nothing to keep leaves the file alone.
Saved ==
    /\ phase \in {"saving", "unloading"}
    /\ heldFile' = IF keeping # {} THEN keeping ELSE heldFile
    /\ phase' = IF phase = "saving" THEN "saved" ELSE "down"
    /\ UNCHANGED <<envNow, quietQ, quietTimer, presQ, keeping, restoring, restore, stops, cycVars, told, got, excused, stray, emptied>>

\* The process ends, at the end of the stop or at any time.
Exit ==
    /\ phase = "saved" \/ (Up /\ stops < MaxStops)
    /\ phase' = "down"
    /\ stops' = IF phase = "saved" THEN stops ELSE MaxStops
    /\ UNCHANGED <<envNow, quietQ, quietTimer, presQ, heldFile, keeping, restoring, restore, cycVars, told, got, excused, stray, emptied>>

\* A new manager, at some later time: the queues are empty, the cycle goes on if
\* its snapshot was resumed.
Boot(later, someone, resumed) ==
    LET lost == quietQ \union presQ \union restoring IN
    /\ phase = "down"
    /\ phase' = "up" /\ restore' = "due"
    /\ halfHour' = later /\ home' = someone
    /\ resumed => busy
    /\ busy' = resumed /\ ending' = {} /\ clean' = 0
    /\ excused' = excused \union (lost \ heldFile)
    /\ stray' = stray \union ending \union (IF resumed THEN {} ELSE {cyc})
    /\ quietQ' = {} /\ quietTimer' = 0 /\ presQ' = {} /\ restoring' = {} /\ keeping' = {}
    /\ UNCHANGED <<window, gated, heldFile, cyc, told, got, emptied, stops>>

\* _async_restore_notification_queues, once Home Assistant has started: it reads the
\* file, removes it, and dispatches.
ReadFile ==
    /\ Up /\ restore = "due"
    /\ restoring' = heldFile
    /\ restore' = IF heldFile = {} THEN "over" ELSE "read"
    /\ UNCHANGED <<envNow, quietQ, quietTimer, presQ, heldFile, phase, keeping, stops, cycVars, told, got, excused, stray, emptied>>

RemoveFile ==
    /\ Up /\ restore = "read"
    /\ heldFile' = {}
    /\ restore' = "removed"
    /\ excused' = excused \union (heldFile \ restoring)
    /\ UNCHANGED <<envNow, quietQ, quietTimer, presQ, phase, keeping, restoring, stops, cycVars, told, got, stray, emptied>>

MutWanted(ms) == {m \in ms : busy}

\* What is worth it still: the start and the reminder of a cycle only during one.
Wanted(ms) == {m \in ms : m.kind \in CycleKinds => busy}

Redispatch(tooOld) ==
    /\ Up /\ restore = "removed"
    /\ restore' = "over" /\ restoring' = {}
    /\ Dispatch(IF tooOld THEN {} ELSE Wanted(restoring), TRUE, quietQ, presQ)
    /\ excused' = excused \union (IF tooOld THEN restoring ELSE restoring \intersect (quietQ \union presQ \union keeping))
    /\ stray' = stray \union ({m.cyc : m \in restoring} \ {cyc})
    /\ UNCHANGED <<envNow, heldFile, phase, keeping, stops, cycVars, told, emptied>>

-----------------------------------------------------------------------------
HeldNext ==
    \/ BeginCycle \/ EndCycle \/ DropCycle \/ Remind \/ Unloaded
    \/ \E kind \in {"start", "pre", "live"} : Announce(kind)
    \/ \E c \in ending, finished \in BOOLEAN : CycleTail(c, finished)
    \/ HalfHour \/ Leaves \/ Arrives
    \/ \E b \in BOOLEAN : SetGated(b) \/ BeginStop(b) \/ Redispatch(b)
    \/ Saved \/ Exit \/ ReadFile \/ RemoveFile
    \/ \E t \in 0..(2 * HoursPerDay - 1), h, r \in BOOLEAN : Boot(t, h, r)

HeldSpec == HeldInit /\ [][HeldNext]_heldVars

-----------------------------------------------------------------------------
\* Nothing held waits for an event that has passed: what quiet hours hold has a
\* timer that ends with the window, whichever side of midnight, and what presence
\* holds has nobody home and the gate on.
HeldIsAwaited ==
    /\ Up /\ quietQ # {} =>
          /\ quietTimer > 0
          /\ \A k \in 0..(quietTimer - 1) : InQuiet(window, (halfHour + k) % (2 * HoursPerDay))
          /\ ~InQuiet(window, (halfHour + quietTimer) % (2 * HoursPerDay))
    /\ Up /\ presQ # {} => gated /\ ~home

\* A "finished" is delivered once, however long it is held, through whichever queue
\* and over whatever restarts; it is lost or doubled only in the windows of the
\* code that are named by excused: a crash, what comes after the queues were
\* written, a file not read yet that is written over, a day's delay, the option
\* turned off.
FinishOnce ==
    \A m \in told : m.kind = "finish" /\ m \notin excused =>
        /\ got[m] <= 1
        /\ got[m] = 1 \/ m \in quietQ \union presQ \union restoring \union heldFile \union keeping

\* What is held back is neither forgotten nor sent again.
HeldAndSentOnce == HeldIsAwaited /\ FinishOnce

Delivered == {m \in Message : got'[m] > got[m]}

\* With the gate on, nothing is delivered to an empty house, not even by the end of
\* the quiet hours or a restore.  A start, a reminder or a live update is not delivered
\* once its cycle's tail has run, nor an unload reminder once the laundry was taken
\* out.  Cycles that nothing purges, because a newer one had begun, they were dropped
\* or a stop cut their end, are left out (stray).
DeliveredInTime ==
    [][/\ Delivered # {} => ~gated \/ home'
       /\ \A m \in Delivered :
          /\ m.kind \in {"start", "pre", "live"} => (m.cyc = cyc /\ busy) \/ m.cyc \in ending \union stray'
          /\ m.kind = "clean" => m.cyc \notin emptied]_heldVars
=============================================================================
