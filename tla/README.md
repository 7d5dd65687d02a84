# Verification of ha_washdata

TLA+ models, model checking and machine-checked proofs for the WashData
integration (`src/custom_components/ha_washdata`).  WashData watches the power
draw of a household appliance through Home Assistant, detects its cycles,
matches them against recorded profiles, and keeps a store of cycles per device.

Contents: 1 inventory, 2 modules, 3 runs and bounds, 4 fairness, 5 proofs,
6 disagreements found, 7 what is left out and why, 8 plan.

## 1. Inventory

Everything runs in one asyncio event loop; an interleaving is possible exactly
at an `await`, in a timer or state callback, and across a restart.

| Part | State | Operations | What makes it correct |
|---|---|---|---|
| Task registry `task_registry.py` | tasks with state, flag and finish time; handles of the coroutines | create, link, update, finish, cancel, cancel_entry_tasks, evict | a running task can be found and cancelled; a cancellation stands; eviction is per entry |
| Store writers `ws_api.py`, `__init__.py` | the write lock of each entry; manager and lock captured by each coroutine | spawn, acquire, finish, user cancel, unload, drain, reload | one writer at a time, through the entry's own manager; an unload ends |
| Cycle detector `cycle_detector.py` | state, instants, quiet clocks, pulse, pause, lockout, outage, probe | process_reading, user_stop, force_end, reset, update_match, setters, snapshot and restore | each cycle is recorded once and as it ended; false starts leave no trace; a pause and an outage end nothing; every cycle ends |
| Manager `manager.py` | identity token, programme (live, pinned, armed), user pause, expiry timer, the end owed to an announced start, estimates, notification queues, snapshot, odometer | power and door callbacks, matching task, watchdog, cycle-end tail, services, setup and shutdown | results of a cycle reach that cycle and no other; an announced cycle ends once; a shown end expires; a pause holds; a restart resumes what was running; a dead sensor ends its cycle |
| Recorder `recorder.py` | recording flag, buffer, last run | start, reading, stop, save, load, clear | a run is stored once, and lost to nothing but a request |
| Match rules `match_rules.py` | switch counters, score history | begin tick, decide switch, override | no oscillation between programmes; a clear winner is shown |
| Trigger rules `trigger_rules.py`, `trigger.py`, `device_trigger.py` | marks already announced, the tumble clock | tick, baseline, new cycle, burst, collect | a mark fires once per cycle, also over a restart |
| Notification and maintenance rules | none (pure) | quiet hours, milestones, due reminders | no gap and no double at a boundary |
| Profile store `profile_store.py` | profiles, samples, cycles, labels, envelopes, feedback, groups | add, edit, split, merge, rename, delete, rebuild, save | a sample and an envelope belong to the profile they serve; a filed cycle is kept and counted once |
| Community store `store.py`, `store_client.py`, `store_account.py` | account, caches, in-flight queries, overrides | connect, list, search, share, confirm, rate, download | a read shows what this install has written |
| History import `history_import.py`, `ws_api.py` | one staging slot, scans, candidates | upload, read, scan, apply, clear | what is stored is what was reviewed; a run is on record once |
| Learning `learning.py` | pending feedback | queue, confirm, expire | feedback is applied once |
| Progress `progress.py` | smoothed estimate | update | the shown progress does not run backwards |
| Analysis, signal processing, ML, suggestions, playground | none kept | pure computations | numerical |
| Entities, config flow, panel, diagnostics | projections | none of their own | show the manager's state |

Interactions.  The power sensor's callback calls `process_reading`; the detector
calls back into the manager on a state change and at a cycle's end; the manager
spawns the matching task and later writes its result back into the detector; a
watchdog timer repeats the last reading while the sensor is silent, and ends
cycles that are stuck; services and buttons pause, resume and stop; every refresh
of the entities asks the trigger trackers what to announce.  While a recording is
on, readings go to the recorder and not to the detector.  WebSocket handlers
spawn registry tasks that rewrite the profile store under the entry's write
lock; unloading the entry takes the manager out of `hass.data`, cancels and
drains the tasks, and forgets the lock.  Three files are written apart from each
other: the profile store, the snapshot of the cycle under way and the recorder's
buffer.

What is hard: results of an await applied to a state that moved on (matching,
pause rollback, cycle-end tail, envelope rebuilds, catalogue reads); unload
racing tasks and commands; keepalives that look like readings while the sensor is
gone; clocks that are saved, restored and carried over; false starts that must
give back the state they interrupted; cycles that must end although their power
never falls; crashes between the writes of two files; windows that cross
midnight; and snapshots that leave part of the state out.  `PROJECT.json` lists
them at their lines under `hazards`, each with the properties that would catch it.

## 2. Modules

| Module | Models | Notes |
|---|---|---|
| `TaskRegistry` | `task_registry.py` | `RegistrySpec`: what the registry allows its users to do, and the abstract specification of the next module |
| `EntryWriters` | write lock, tasks and commands of one entry, unload and reload | EXTENDS `TaskRegistry`; an action is the code between two awaits |
| `QuietClocks` | the clocks of `process_reading` and the anti-crease pulse | functions from clocks to clocks, no state |
| `CycleDetector` | `cycle_detector.py`, the manager's calls on it, the restart | EXTENDS `QuietClocks`; a reading is one step |
| `CycleLifecycle` | what the detector promises | abstract; `CycleDetector!LifecycleSpec` maps onto it |
| `CycleManager` | the manager's tasks and commands around one detector | EXTENDS `CycleLifecycle`: the detector taken by its promise |
| `Watchdog` | the manager's timer over a silent or stuck cycle, and the restart's silence clock | the detector taken by the facts the watchdog reads |
| `CycleFiling` | snapshot, filing, counters and restoration over two files | crashes before and after every write |
| `ProfileCatalog` | labels, samples, envelopes, reviews and groups of the profile store | every edit a coroutine, every rebuild an await |
| `Recorder` | `recorder.py` and the commands that file a run | reload, crash, competing filers |
| `HeldNotifications` | quiet hours, presence gate, the two queues and their file | half-hours of a short day |
| `LiveTriggers`, `TumbleTriggers` | `trigger_rules.py` trackers and the manager's calls of them | with the automations that listen |
| `ProgramSwitch` | `match_rules.py`: which programme is shown | replaces, for one programme's choice, the free outcomes of `CycleManager!Switched` |
| `HistoryImport` | staging slot, scans and applies of `ws_api.py` | chunks may be dropped, doubled, of another upload |
| `HistoryScan` | `history_import.py`: reader, segmentation, gates, replay | a row at a time, against a reference definition |
| `StoreCatalog` | cached reads and writes of the community store | the store and other installs are external |
| `*_proof` | theorems | EXTEND the module they are about and TLAPS |
| `MC*` | instances for TLC | |

Parts that share no state are explored together: `MCHistory`, `MCRunning`,
`MCEntry` and `MCManager` have a variable `part` that names the one whose steps a
behaviour takes, so a run visits the sum of its parts' states and not their product.
The parts not named stay in their initial states.

**TaskRegistry and EntryWriters.**  `taskState`, `owner`, `kind`, `flag` and
`finishedAt` are the fields of `Task`; `listed` and `handles` are the keys of
the two dicts; `alive` is what asyncio knows.  Home Assistant starts a task
eagerly, so a coroutine that meets no suspension finishes before it is linked
(`CreateFinished`).  `pc`, `manager` and `lock` are each coroutine's locals.
The write lock is an object: `lockNo` numbers the one `_entry_write_lock` hands
out now, and a job keeps the number of the one it asked for, which is how a
forgotten lock comes to exist beside a new one.  `ticket` is the FIFO queue of
`asyncio.Lock`.  Five kinds of task stand for the eleven runners: those that poll
the flag, the training one that does not, those that look at the manager again
once they have the lock, and the two kinds of playground replay, which take no
lock.  An unload is four steps, because it awaits the shutdown and the drain.

**QuietClocks and CycleDetector.**  `d` holds the detector's attributes.  An
instant the code keeps is modelled by its age at the last reading, so a step adds
the elapsed time to each.  Clocks saturate at `Cap`, above every threshold they
are compared with.  Four power levels tell apart everything the thresholds do:
below stop, between stop and start, above start, above the anti-wrinkle maximum.
A reading says where it comes from: the sensor, the sensor after a silence its
cadence does not explain, or a keepalive that repeats something seen or stands
for nothing.  Whatever a branch needs beyond clocks and flags - the energy in a
window, a match confidence, the flatness of a plateau - is evidence, and the
model takes either outcome, so every property holds whatever the numbers are.
The thresholds that are computed from history (`_dynamic_pause_threshold`, the
waits `required_quiet` and `off_delay` lead to) are constants at their least
value: with the evidence free, "not yet" stays possible at any greater one.
`filed` is the cycle a step gives to `_on_cycle_end`.  A restart drops what
`get_state_snapshot` leaves out and restores the rest as `restore_state_snapshot`
does, from the snapshot of the last reading.

**CycleManager.**  The detector is here the abstract `CycleLifecycle`, which
`CycleDetector` is checked to implement: a probe begins, commits or is a false
start, a cycle closes, a shown end is left.  Running, paused and ending are one
phase, `"cycle"`.  Each of its steps is joined by the manager's callback for it, as
the code calls them synchronously.  An action is the code between two awaits: the
match task awaits the matcher and perhaps the alignment check (`match.at`), the tail
of an ended cycle awaits the complete match, the store and the flush (`tail[c].at`),
pause and resume await the switch (`call`, on a device whose pause cuts the power).
Cycles are numbered by their start, and `_ranking_snapshot_cycle_id` (`mgr.token`)
is the number of the last committed one, or 0.  What the tail freezes before its
first await is `tail[c]`; the `same_cycle` test after each await is `SameCycle`, the
match task's is `Current`.  The rules of `match_rules` are evidence: a match may
keep, switch, commit or unmatch the programme and decide either way about the pause,
except where a rule looks at the user's pause.  `mgr.from` is not in the code: it
names the cycle the shown programme was chosen for, so that a label can be traced.
`told`, `label` and `pick` are histories of what was announced, stored and chosen.

**Watchdog.**  `w` holds the ages the manager keeps (`_last_reading_time`, the last
real reading, the cycle's start, the last high) beside what the sensor really shows
(`live`, `heard`), so a property can compare what the manager believes with what
is so.  A tick is one firing of the timer: the resync, then the checks in the code's
order, then a keepalive.  A restart takes the snapshot of the last save, or is
refused by it, and rebuilds the silence clock as `_seed_real_reading_clock` does.
Which finisher of the detector would end a quiet cycle is left open.

**CycleFiling.**  Two files, `mainFile` and `snapFile`, each with its store in memory
(`main`, `snap`) and at most one write due.  A tail is a cycle's `stage` between
awaits: the odometer's capture, the adding, the energy, the flush, the clearing of the
snapshot; a new cycle may begin, end and be in its own tail meanwhile.  A tail may raise
before the add (`FailRun`), and the add may be refused (`FailAdd`: nothing is filed, and
the snapshot is cleared all the same).  When no cycle is in progress `rest` says whether
the detector shows an end or sits in the anti-crease tail, which a stop (`HomeStops`) and
an unload (`LastWrites`) save in the place of a cycle's snapshot (`WrinkleSnap`) and
a restart takes up again.  A crash falls before or after any write; a shutdown takes the
steps of `async_shutdown`.

**ProfileCatalog.**  A cycle has the list that holds it, its label and where the label
came from; a profile has a sample and an envelope, which is known by the cycles it was
built from and by `memo`, the inputs of its last build.  Edits (relabel, delete, split,
merge, rename, clean up, review answers, auto-label, the tail of a cycle) are
coroutines with the list of envelopes they have still to build.  `StartLabel` and
`StartList` give the history to begin with.

**Recorder.**  `recorder[s]` is the `CycleRecorder` of the set-up `s`; a command keeps
the one it captured across a reload, as the code does.  `mayGo` and `mayRepeat` name the
windows in which the code does lose or repeat a run (section 7); elsewhere the
property is exact.

**HeldNotifications.**  Half hours of a three-hour day with a window that crosses
midnight.  A dispatch passes the presence gate and then the quiet gate; the timer of
the quiet queue, the presence change, the stop, the shutdown, the file and the replay
after the start are each an action, as are the purges of the cycle's tail.

**LiveTriggers and TumbleTriggers.**  A refresh compares what the entities show with the
marks, and automations filter by their thresholds.  The marks are written with the
snapshot of the cycle, which also holds the programme shown (`shows`); a restart re-reads
both and takes a baseline (`Restored`): the programme is the one shown, and the phase mark
stays only if it is of that one.  A tumble is
timed in minutes since the finish; `heldTumble` and the tails are the manager's.

**ProgramSwitch.**  One result of the matcher is `begin_tick`, `decide_switch` and, after
the alignment's await, `record_scores` and `consistency_override`.  `streak` is a history
the code does not have: the wins in a row of each programme, which the counters of the
code are compared with; `locked` names the programmes whose counter a decisive switch or
an override has set to its limit.

**HistoryImport and HistoryScan.**  A stream is the runs a file covers; a chunk is one of
them, and may arrive twice, out of order or not at all.  `HistoryScan` reads rows one at a
time (`kept` is the places in the file of the rows the reader holds), and states what the
runs of a stream are by a definition of its own over the whole of it
(`RunsOfOneAppliance`), against which the incremental reader and block finder are
compared.  What follows for each block is modelled but carries no property: the trim of
leading debris, the gates of `_classify_block` (too long, too few, sparse), the filling of
quiet gaps and the replay.

**StoreCatalog.**  One device of the catalogue and everything cached about it: the badge's
point read, the list, the index with what was created since each build (`delta`).  `fresh`
is the set of fetches whose captured generation is still `_cache_gen`; a query's `flight` is the
task in `_inflight` its reader awaits.  `owed` is computed from the writes answered so far:
what a read that starts now must show.  An entry may be found expired at any
look-up.

## 3. Runs

| Run | Question | Bounds |
|---|---|---|
| `history` | the registry: late reports, eviction, reachability; the catalogue: samples and envelopes under concurrent edits; filing: nothing lost or counted twice over a crash; the recorder: a run is stored once; the programme shown has been earned | registry: 3 tasks of 2 entries and 2 kinds, 1 finished task kept; catalogue: 3 names, 6 cycles (3 on record, 3 still to come, of which one is short and one has no trace), 2 groups, 2 coroutines, 2 edits; filing: 2 cycles, 3 set-ups, any tail or add may fail; recorder: 2 runs of 1 sample, 2 set-ups, 2 filers; switch: 2 programmes, 2 scores, 3 wins to switch (the code's default).  Coroutines are interchangeable, and filers (symmetry) |
| `running` | held notifications reach somebody once and in time; triggers fire once; an import adds what was reviewed; a scan reads one appliance and finds its runs whole, before they are trimmed and gated | notifications: a day of 3 hours, a window across midnight, 2 cycles, 2 messages, 1 stop; triggers: 2 programmes, 6 estimates (2 minutes, 1 percent, 2 phases); tumbles: 3 finishes, bursts of 1 minute, giving up after 3; import: 2 runs, 2 uploads, 2 scans, 2 applies, room for 1 more; scan: 4 rows read up to 3, 4 readings.  Programmes are interchangeable (symmetry) |
| `entry_writers` | exclusion, live manager, replays, answers to cancels, unload ends, use of the registry; the watchdog ends the silent and only that | 2 tasks, 1 command, 1 reload, 1 other entry: two tasks are enough to race across a reload, one command to hold the lock the unload must not wait for; watchdog: ages to 7, with every budget between 2 and 6 so that each can be the first to run out |
| `entry_writers_race` | a documented exclusion that does not hold | 1 task, 1 command, 1 reload |
| `dryer` | the detector with pulses, ANTI_WRINKLE and restarts; it implements its promise | readings 1 or 2 ticks apart, clocks to 5, every threshold between 1 and 4 and ordered as the defaults are |
| `delayed` | the detector with DELAY_WAIT and a dishwasher's tails: an end given back keeps its time | the same, clocks to 6 |
| `dryer_live` | cycles and ANTI_WRINKLE end | readings 1 tick apart |
| `delayed_stop` | a documented exclusion that does not hold | as `delayed` |
| `cycle_manager` | nothing of one cycle lands on the next; one end per announced cycle; a shown end expires; a pause holds; a read of the community catalogue shows what this install wrote | manager: 2 starts, 1 programme, 1 status: a tail or a match can only be overtaken by the next start, and what is compared is equality of identities; store: 2 readers (symmetric) with 2 reads, 2 writes or refreshes, 1 confirmation, 2 builds of the index: one read in flight, one that joins or follows it, a write between them |
| `manager_arm` | a documented promise of arming that does not hold | 2 starts |
| `manager_pick` | a documented precedence of the user's choice that does not hold | 1 start, 2 programmes: one chosen, one matched |
| `manager_pause` | a documented promise about pauses that does not hold | 1 start |

Clock bounds are enough because only comparisons matter: the instances put each
duration on both sides of each threshold, 2 ticks are an outage and 1 is not, and
a pulse of 1 tick is absorbed while one of 2 is not.  `MCDryer` and `MCDelayed`
split the device features: pulses, ANTI_WRINKLE and the floor they leave belong
to dryers and washers; delayed start and the partly kept tail are checked on a
dishwasher.  At most one pause and one resume call are under way at a time in
`CycleManager`.  A scan's bounds put one reading on each side of every limit: a gap at, below
and above the cut, a hole that is bridged and one that is not, a block too long and one
too small.  The scores of `ProgramSwitch` are one below the threshold, which is also
below 60 % of the peak, and the peak; it needs no bound on time, for every counter stops
being compared at its limit.  In `CycleFiling` two cycles and three set-ups are the least in
which a snapshot outlives its cycle over a restart and is met by a newer one.

Deadlock is checked in the detector, the manager and the store, where
only the exhausted bound on reads may stop a behaviour (the last disjunct of
`MCManager!PartsNext`).  In `history`, `running` and `entry_writers` it is not: those
behaviours stop when the bounded number of tasks, edits, messages or rows is used up.

The bounds (`MaxTasks`, `MaxEdits`, `MaxBegun`, `MaxBoots`, `MaxRuns`, `MaxTold`,
`MaxStops`, `MaxRunsEver`, `MaxReads`, ...) are constants named in their modules and appear
in guards only.

## 4. Fairness

The event loop runs every ready callback, and the awaits of a runner (the lock,
the executor, the store's file) end: weak fairness of each coroutine's own steps
and of the unload.  Nothing obliges a user to issue, cancel or reload anything.
For the detector (`FairSpec`): readings keep coming, from the sensor or from the
watchdog's keepalive, and Home Assistant is not restarted for ever, since each
restart may give back time the clocks had counted.  A reading is possible in
every state, and while a cycle is open or ANTI_WRINKLE lasts each reading advances
some clock.  `CycleEnds` also assumes that outages end: during one keepalives move
nothing, and closing the cycle is then up to the watchdog's force-stop, which
`CycleDetector` has as an action without fairness.  That the watchdog does its part is
`Watchdog!DeadSensorEnds`, under weak fairness of its interval timer
(`WatchFairness`); it speaks of a manager that has taken a reading since its
set-up, for the watchdog does nothing before (section 6).
Nothing else asks for fairness: what else must happen is stated as a state or an
action property (`HeldIsAwaited`: what is held has a timer; `SteadyIsShown`: at the
latest with that result).

## 5. Proofs

TLAPS checks these for every value of the constants under the named ASSUMEs
(any number of tasks, commands, entries, reloads, cycles, runs, messages; any
thresholds and caps).  Each module's argument is an inductive invariant, which was
first checked by TLC, and one lemma per action.

`EntryWriters_proof`.  The exclusion of writers is not inductive: it follows from
where each coroutine's lock and manager come from.  The invariant says that a lock
has one holder (`Exclusive`), that a task at a lock is at the current one with
the current manager (`Bound`), that every active coroutine is one the next unload
will find - alive, listed, linked, running - and once draining has begun has been
found (`Supervised`), and that only settled tasks are interrupted (`Drained`).
`Supervised` is what makes `ForgetLock` safe: its guard says nothing is left to
interrupt, so nothing is active, so `Bound` holds vacuously for the new lock.
From it: `TypeCorrect`, `WritersExclude`, `WritesLiveManager`, `Reachable`,
`ReplaysExclude`, `CancelledStays`, and `RegistryRefined`, that every step is a
step of `RegistrySpec` or leaves the registry alone.

`CycleDetector_proof`.  Its first part has the lemmas about the clocks (`QuietClocks`):
what saturating addition keeps, and that each case of `Tick` preserves types and
`Consistent`.  Then types, `Consistent` clocks, a known start, and that a user
pause in an open cycle is a verified pause, as one invariant over every branch of
`process_reading`, every call and the restart; from it `TypeCorrect`, `ClocksAgree`,
`StartsKnown`, and the action properties `PauseIsHeld` and `OutageIsNoEnd`.  Types
and the known start are proved and therefore no longer run; what `delayed` and
`dryer` have in common is run for the dryer and proved for both.
`EndsKeepTheirTime` adds that the history of an end's time agrees with the detector's
end while it is shown, and with the time a probe will give back while one runs: each
branch either keeps both, ages both by the same reading, or begins a new end.
`KeepsThePromise` is the refinement: every branch, call and restart maps to one step of
`CycleLifecycle` - a commit, a start or return of a probe, a close, an end that is
left - or to none.  `CycleManager` takes the detector by that promise, so this closes
the argument of its proofs.

`CycleManager_proof`.  That a finished cycle's tail or match leaves the open one
alone follows from an order of identities (`Ordered`): every start has a greater
number than any before it, a tail is created with the token of its own cycle and
only when that cycle has closed, so while a cycle is open every tail's token is
less than it, `SameCycle` is false, and the terminal reset cannot touch it.  A
match holds the token and the start it was sent with; before the commit the token is
an older one, so a match of the previous cycle fails the comparison.  The invariant
is that order with `OpenCycleIntact`, `MatchOfItsCycle` and `UserPauseHolds`, for any
number of starts, programmes and statuses; from it `ManagerTypes`,
`OpenCycleStaysIntact`, `MatchesAreOwn`, `UserPauseIsHeld` and the action property
`SnapshotIsKept`.  `HistInv` adds the history of each start: not begun, open, being filed
by its tail, or over, with what has been announced, labelled and picked by then; an end
is owed exactly while an announced cycle is open; and an end that is shown has its timer,
or a busy tail whose identity is still current and that will set one.  From it
`LabelsAreOwn`, `AnnouncedEndsExactlyOnce` and `ShownEndExpires`.

`ManagerTicks_proof`.  `Watchdog`: while a cycle is open the manager never takes the
silence for shorter than it is (`SilenceIsKnown`), and for longer only while a report was
missed that the resync of the next tick will find; an end clears the clocks.  So a cycle
ended as stale had been silent longer than the budget that ended it (`StaleWasSilent`).
`ProgramSwitch`: the counter that the next win continues is compared with `streak`: it is no
more, unless `decide_switch` locked it, and no less up to `match_persistence`; between the
halves of a tick the same holds of the persistence it has read.  From it
`ProgramIsEarned`, `SteadyWinnerShows` and `DurationIsOfTheShown`.

`StoreCatalog_proof`.  Every cached answer, and every fetch whose generation is still
current, is as new as what a read that starts now is owed; a fetch of an earlier
generation is as new as what its own readers are owed, who joined it before the write;
builds published after the device's creation or promotion have it.  From it
`ReadsAreCurrent`.

`StoredRuns_proof`, in four parts.  *Recorder*: what the present recorder shows of a run,
which commands are filing it and whether it is in the history agree: one command files
for a set-up at a time (`Alone`), one of an earlier set-up files only what a restart may
repeat (`OldRepeats`), a claimed run is not yet stored (`ClaimedOnce`), a stored one is
shown only by the recorder whose command is about to clear it (`FiledGone`), and that
command clears its own run (`TakesOwn`).  From it `RecordedRunsAreStoredOnce`.  *Import*: the
staged text is the beginning of the upload its token was given for, the staged
candidates are what their finished scan showed, only runs that have begun are on
record, and one in progress that is on record was imported early; from it
`ImportsAreAsReviewed`.  *Filing*: a cycle whose snapshot reached the disk and that is not
filed, dropped or in `cut` is the snapshot in memory and on disk (`SnapshotHeld`); whatever
replaces or clears a snapshot before its cycle is filed puts the cycle in `cut`
(`Exposed`); one in progress or in the
first step of its tail is not on record; no tail holds the token of the cycle in
progress; and of a cycle whose record was deleted no snapshot is left.  From it
`CyclesAreFiledAndKept`.  `CountInv` adds that records and energies agree except between the
two halves of a tail, and that the odometer counts the records ever filed; from it
`OdometerIsExact`.
*Scan*: `ScanInv` follows the reader and the finder row by row.  The reader keeps every good
row while a single other entity may still stand in for the configured one, and that is
so exactly while the rows read name one entity at most (`ReaderInv`), so what remains at the
end does not depend on the order the entities come in; sorting it uses a counting argument
for the places of the rows.  The finder's closed stretches and the block being built
hold every reading walked, in order and once (`PastOK`, `CurrentOK`); its idle clock
starts at the last working reading of the block, or its first, and its quiet clock never
runs ahead of it (`ClocksOK`), which is why no run is cut while its appliance works; and
after a cut the last working reading has a hole or a reading beyond the threshold behind
it (`PartedOK`), which is why no two runs are joined.  From it `RunsAreFoundWhole`, for
every export, trace and threshold with `Quiet` no more than `Active`; trimming, gates and
replay are not part of it.

`ProfileCatalog_proof`.  `SamplesAreOwn`: with what the coroutines carry over their awaits
typed, and only stored cycles labelled, every edit heals the samples of all profiles it
takes a cycle from, and a build that re-points a sample looks at the labels of now.  It
holds also when names are used again.
`EnvelopesAreFresh`: a name's rebuild is owed, or its newest build is under way from its
evidence of now, or its envelope is built from that evidence (`EnvelopesOfNow`,
`BuildsOfNow`).  The skip of an unchanged build needs two facts more: a memo whose envelope
is still there describes it, whatever name that has by now (`MemosDescribe`; a new
identity is free because there are more of them than envelopes and memos, a counting
argument for which the names are assumed finite), and a name with a build under way has
no memo and no second newest build (`BuildsAlone`).  Both hold for names that are used
again: a rename to the name of an earlier profile may fall heir to cycles that kept its
label, to its envelope or to a build of it under way (`Inherits`), none of which the
rename rebuilds, and that name is then in `lost`; where there is nothing to inherit, the
envelope moves with the evidence it was built from.

`Announcements_proof`, in three parts.  *Tumbles*: while no two finishes met, the automations
that ran are those of the thresholds up to the latest tumble sent, and the last tumble
is that one or the one held back; a held tumble never belongs to a finish whose tail still
owns it.  *Triggers*: the marks of the tracker, and those on disk when no write is due,
both account for the thresholds each automation heard of since the baseline (`Counts`),
and the disk is no further than the tracker, so a reload or a crash repeats and skips none.
The programme and its phase need more: the tracker has those announced last (`Account`),
the disk does where it shows that programme (`DiskNames`), and a restart of a cycle not
shown as it forgets them (`ForgottenNames`), which is the exception the property names.
*Held notifications*: a quiet timer ends with the window; a "finished" is in exactly one of
the queues, the file and the restore's hands, but for the copy a stop is writing, and
nowhere once delivered; what is queued is not about something that is over; the file
holds nothing transient.

Model-checked only: the liveness properties `CancelSettles`, `UnloadEnds`, `DeadSensorEnds`,
`CycleEnds` and `AntiWrinkleEnds` (fairness and ENABLED are beyond the prover).  Every
invariant and every action property of the runs that pass is proved.

## 6. Disagreements

Each of the first five has a run that shows it.

* `entry_writers_race`: `ws_api.py:4751` says a restore cannot interleave with a
  reprocess because both take the write lock.  Unload drains tasks, not commands,
  and then forgets the lock: a restore that holds it goes on while, after the
  reload, a reprocess takes a new lock on the same store file.
* `delayed_stop`: the changelog says that nothing is tracked until a delayed
  cycle begins, and the return of a probe to a shown end clears its start so that a
  stop there records nothing.  The two other exits of a false start, to DELAY_WAIT
  and to OFF, leave the start set, and stopping the wait records a cycle.
* `manager_arm`: `set_manual_program` promises that a programme chosen while no
  cycle is under way is armed and applied to the next.  Armed in the seconds the
  last cycle's tail still runs, it is dropped by that tail's terminal reset.
* `manager_pick`: matching is skipped while a programme is chosen by hand, but a
  match already in flight is not: it replaces the programme, the flag stays, and
  the cycle is stored as labelled by hand with the matched programme.
* `manager_pause`: a user's pause, or the soft pause of an open door, is said to stay
  until the user resumes.  Both are accepted in STARTING, and the commit of the
  cycle clears them.

Met while modelling, and excused by name in the models where a property would
otherwise be false:

* Programme shown (`ProgramSwitch`).  A programme dropped for a low score
  (`match_rules.py:412`) is shown again by the same result's `consistency_override`
  under a verified pause (`:782`).  A count locked by `decide_switch` survives
  the user's pin and its clear, so that the programme's next win alone shows it again,
  where `match_persistence` wins in a row are asked of any other.
* Auto-label (`profile_store.py`, about 10105): a label the user gives while the pass
  awaits its match is overwritten by it.
* Review requests (`manager.py`, about 6733): a request is added for a cycle deleted
  during the rebuild its tail awaits, and stays until the next load.
* Recorder: "previous recordings are kept until explicitly cleared or overwritten";
  but a run stopped while another is being filed is cleared with it.
* Tumbles: the clock of a tumble held for the previous finish meets the next one's
  (`TumbleTriggers!mixed`, against `trigger_rules.py:25`).
* Snapshot: a tail that ends during STARTING clears the new cycle's snapshot
  (against the comment at `manager.py:6529`).
* Snapshot: "the cycle end has already cleared the active slot" is said of the
  anti-crease tail's snapshot (`manager.py:5999`).  The cycle end clears it only after the
  add (`:6532`); when an unload or a stop comes before, the tail's snapshot replaces the
  cycle's only one (`:2978`, `:7045`), an unload has cancelled the tail that would file
  it, and the cycle is lost.
* Failed add: `async_add_cycle` may raise (`:6473`); the tail goes on and clears the
  snapshot, so that no restart files the cycle either.
* Recording: started while an end is shown it resets the detector and clears the
  snapshot (`:10177`), though the tail of that end may not have filed its cycle yet.
* Live triggers: "a restart cannot replay a crossing"; a programme that was announced and
  then unmatched is not shown by the restored cycle, so `baseline` forgets it
  (`trigger_rules.py:351`) with its phase mark (`:354`), and it is announced again
  when it is recognised again.  Without the restart it is not.
* Watchdog: after a restart that finds the sensor dead `_last_reading_time` is None
  and the watchdog returns early for ever, against the promise at
  `cycle_detector.py:2676` that staleness still ends such a cycle.
* `find_activity_blocks` speaks of three independent cut rules; the quiet cut never
  exceeds the idle cut, so the second decides nothing.
* Community store: `refresh_catalog` (`store_client.py:445`) keeps the index for up to
  an hour, so somebody else's approval is not shown by a refreshed search; a create
  whose answer was lost is later answered as existing, a success that drops no cached
  read; `rate_device` takes a failed read of the previous rating for none; a
  `connect` that awaits its token exchange stores an account after
  `async_set_online(False)`; the overrides are in memory, so a promoted device reads
  pending after a restart until the next build.
* Panel: `_fetchCycles` during a pending undo shows the deleted row, and Undo then
  doubles it; "Load more" between a deletion and its answer skips a row.

## 7. Abstractions and omissions

* Calls between readings happen at the time of the last reading; the clock is
  monotonic (the branch for a backward step, `cycle_detector.py:2713`, is left
  out); in `CycleDetector` pause and resume succeed (`CycleManager` has the
  roll-back) and a restart finds the snapshot of the last reading (`CycleFiling` has
  which cycle's snapshot survives a crash, not how old its contents are).
* The matching task's result may be any match and any pause decision it could
  have read or made, whichever evidence it saw.
* `CycleManager`: the device has no delayed start; a start is announced at the
  commit (the fallback of `manager.py:1518` matters only after a restart); a
  probe stopped by hand has no identity of its own, so `LabelIsOwn` speaks of
  announced cycles; the external trigger and the done button end a cycle as any
  other end does; the clean state, its nag and power-off detection are left out.
* `Watchdog`: three stretches in which a dead cycle does not end are outside `Dead`:
  no reading since the set-up, a verified pause with a cached power that is low but not
  quiet, and STARTING, in which it is not started.  A sensor that returns after a
  restart at the cached value keeps the old silence clock.
* `CycleFiling`: `cut`, `dropped` and `miscounted` name what the code gives up.  `cut`:
  a crash between the clearing of the snapshot and the flush of the history; a snapshot
  that makes way before its cycle is filed, for a newer cycle's, for the anti-crease
  tail's at an unload or a stop, or cleared by a recording, a newer cycle's drop or
  another tail.  `dropped`: false starts, ghosts, resets, snapshots too old or unusable,
  and cycles the store refused.  `miscounted`: two tails that overlap while records are
  deleted, and a tail cut off between the add and the count.
* `LiveTriggers`: no profile is deleted while a restart restores a cycle of it.
* `Recorder`: `mayGo` and `mayRepeat` name what a restart, a failed filing and the
  clearing by another filer may cost.
* `HeldNotifications`: `excused` and `stray` name a crash, the race of the restore with a
  stop, a day's delay, the gate turned off, and cycles that nothing purges.  The quiet
  hours do not change while a message is held.
* `HistoryImport`: a run in progress at the scan may be imported before its live
  record is filed (`early`).  A chunk sent once the scan has dropped the text fails
  with a KeyError (`ws_api.py:7537`) and changes nothing; it is left out.
* `ProfileCatalog`: which own cycle becomes the sample is free; traces, durations and
  statistics are left out; `lost` names an envelope owed to a name renamed away, to a
  name whose cycles an earlier profile left, or to a pass that was cut off, until a build
  from the evidence of now makes up for it.
* `ProgramSwitch`: the history of 20 scores is never full; the trend is free once the
  history is long enough; the releases of an automatic pause and the label verdict are not
  modelled.
* `StoreCatalog`: the clocks of client and index agree, an index is published in one
  moment, and a failed read or a lost answer owes nothing.  Pages, brand lists,
  prefix supersets, approved-only variants, the account and downloads are left out.
* Numerical code (signal processing, ML, suggestions, matching scores, energy,
  progress) has no control state; entities show what the manager holds.  The panel
  (a quarter of the source, in JavaScript) and the development tools are not
  modelled.  Together with constants, translations of settings and data tables
  they are most of the lines, so the models stand for the control of the system
  and for a small share of its text.

`PROJECT.json` names the hazards; of those known, these have neither a property
nor a place in it: the import service's captured manager (`__init__.py:1471`), a probe in
STARTING that power between the thresholds neither commits nor ends
(`cycle_detector.py:3322`), a failed resume that pauses a later cycle
(`manager.py:10133`), the backward clock and the auto-label pass above.

## 8. Plan

What a run checks is either proved or beyond the prover (section 5); what is left to
prove are facts no run states yet.

What is left to model: the cycles list of the panel with its undo, the options flow
and its reload, the community account, the display of progress, the maintenance
reminders, and the age of a restored snapshot.
