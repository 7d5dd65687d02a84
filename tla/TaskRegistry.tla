---------------------------- MODULE TaskRegistry ----------------------------
(***************************************************************************)
(* The per-hass registry of background tasks (task_registry.py).  A task   *)
(* is created by a WebSocket handler, linked to the coroutine that runs    *)
(* it, settled once by that coroutine, flagged by a user's cancel, and     *)
(* settled from outside when its config entry unloads.  Finished tasks are *)
(* kept for the panel, at most MaxFinished of each entry.                  *)
(*                                                                         *)
(* Task ids are handed out in creation order, which is the dict's          *)
(* insertion order.  finished_at is the rank of the finish among all       *)
(* finishes: only its order is ever used.                                  *)
(***************************************************************************)
EXTENDS Integers, FiniteSets

CONSTANTS
    Entries,      \* config entries sharing the registry
    Kinds,        \* the kinds of task a handler creates
    MaxTasks,     \* bound: tasks ever created
    MaxFinished   \* _MAX_FINISHED (30 in the code)

ASSUME RegistryAssumption ==
    /\ Entries # {}
    /\ Kinds # {}
    /\ MaxTasks \in Nat \ {0}
    /\ MaxFinished \in Nat \ {0}

Task == 1..MaxTasks

Outcomes == {"done", "error", "cancelled"}

VARIABLES
    taskState,    \* Task.state, "absent" before create
    owner,        \* Task.entry_id
    kind,         \* Task.kind
    flag,         \* Task._cancelled, read through cancel_requested
    finishedAt,   \* Task.finished_at, 0 while running
    clock,        \* the time of the last finish
    listed,       \* keys of TaskRegistry._tasks
    handles,      \* keys of TaskRegistry._asyncio_tasks
    alive         \* tasks whose asyncio task is not done()

registryVars == <<taskState, owner, kind, flag, finishedAt, clock, listed, handles, alive>>

Running(t) == taskState[t] = "running"

RunningOf(e) == {t \in listed : owner[t] = e /\ Running(t)}

\* The id the next create hands out.
Fresh(t) == /\ taskState[t] = "absent"
            /\ \A u \in Task : u < t => taskState[u] # "absent"

MutKeptRunning(tasks, own, st, fin) ==
    {t \in tasks : Cardinality({u \in tasks : own[u] = own[t] /\ fin[u] > fin[t]}) < MaxFinished}

\* _evict: of the listed tasks of one entry that no longer run, drop the
\* oldest finishes until MaxFinished are left.  A running task is never dropped.
Kept(tasks, own, st, fin) ==
    {t \in tasks :
        \/ st[t] = "running"
        \/ Cardinality({u \in tasks : /\ own[u] = own[t]
                                      /\ st[u] # "running"
                                      /\ fin[u] > fin[t]}) < MaxFinished}

-----------------------------------------------------------------------------
RegistryInit ==
    /\ taskState = [t \in Task |-> "absent"]
    /\ owner = [t \in Task |-> CHOOSE e \in Entries : TRUE]
    /\ kind = [t \in Task |-> CHOOSE k \in Kinds : TRUE]
    /\ flag = [t \in Task |-> FALSE]
    /\ finishedAt = [t \in Task |-> 0]
    /\ clock = 0
    /\ listed = {}
    /\ handles = {}
    /\ alive = {}

\* create, then hass.async_create_task and link_asyncio_task: the three calls a
\* handler makes with no await between them.  A new Simulate first flags the
\* entry's running ones (victims).
CreateLinked(t, e, k, victims) ==
    /\ Fresh(t)
    /\ flag' = [u \in Task |-> flag[u] \/ u \in victims]
    /\ taskState' = [taskState EXCEPT ![t] = "running"]
    /\ owner' = [owner EXCEPT ![t] = e]
    /\ kind' = [kind EXCEPT ![t] = k]
    /\ listed' = Kept(listed \union {t}, owner', taskState', finishedAt)
    /\ handles' = handles \union {t}
    /\ alive' = alive \union {t}
    /\ UNCHANGED <<finishedAt, clock>>

\* The event loop starts the coroutine eagerly, so one that meets no
\* suspension finishes inside async_create_task: the handle is linked to a task
\* that is already over, and nothing pops it again.
CreateFinished(t, e, k, s) ==
    /\ Fresh(t)
    /\ taskState' = [taskState EXCEPT ![t] = s]
    /\ owner' = [owner EXCEPT ![t] = e]
    /\ kind' = [kind EXCEPT ![t] = k]
    /\ clock' = clock + 1
    /\ finishedAt' = [finishedAt EXCEPT ![t] = clock']
    /\ listed' = Kept(listed \union {t}, owner', taskState', finishedAt')
    /\ handles' = handles \union {t}
    /\ UNCHANGED <<flag, alive>>

MutFinish(t, s) ==
    /\ taskState' = [taskState EXCEPT ![t] = s]
    /\ clock' = clock + 1
    /\ finishedAt' = [finishedAt EXCEPT ![t] = clock']
    /\ handles' = handles \ {t}
    /\ listed' = Kept(listed, owner, taskState', finishedAt')

\* finish: a task already cancelled keeps that state whatever outcome arrives
\* late; a second "cancelled" only moves its finish time.
Finish(t, s) ==
    IF taskState[t] = "cancelled" /\ s # "cancelled"
    THEN UNCHANGED <<taskState, finishedAt, clock, handles, listed>>
    ELSE /\ taskState' = [taskState EXCEPT ![t] = s]
         /\ clock' = clock + 1
         /\ finishedAt' = [finishedAt EXCEPT ![t] = clock']
         /\ handles' = handles \ {t}
         /\ listed' = Kept(listed, owner, taskState', finishedAt')

\* The coroutine of t reports its outcome as its last act.
Settle(t, s) ==
    /\ t \in alive
    /\ Finish(t, s)
    /\ alive' = alive \ {t}
    /\ UNCHANGED <<owner, kind, flag>>

\* A coroutine whose CancelledError no handler catches ends without a report.
EndSilently(t) ==
    /\ t \in alive
    /\ alive' = alive \ {t}
    /\ UNCHANGED <<taskState, owner, kind, flag, finishedAt, clock, listed, handles>>

\* cancel: flags a running, listed task; anything else is refused.
Cancel(t) ==
    /\ t \in listed
    /\ Running(t)
    /\ flag' = [flag EXCEPT ![t] = TRUE]
    /\ UNCHANGED <<taskState, owner, kind, finishedAt, clock, listed, handles, alive>>

\* cancel_entry_tasks: every running task of the entry is flagged, unlinked and
\* finished as cancelled, in insertion order; it returns the asyncio tasks it
\* cancelled, CancelledRaws(e).
CancelledRaws(e) == RunningOf(e) \intersect handles \intersect alive

CancelEntryTasks(e) ==
    LET victims == RunningOf(e)
        Rank(t) == Cardinality({u \in victims : u <= t})
    IN /\ taskState' = [t \in Task |-> IF t \in victims THEN "cancelled" ELSE taskState[t]]
       /\ flag' = [t \in Task |-> flag[t] \/ t \in victims]
       /\ finishedAt' = [t \in Task |-> IF t \in victims THEN clock + Rank(t)
                                                         ELSE finishedAt[t]]
       /\ clock' = clock + Cardinality(victims)
       /\ handles' = handles \ victims
       /\ listed' = Kept(listed, owner, taskState', finishedAt')
       /\ UNCHANGED <<owner, kind, alive>>

-----------------------------------------------------------------------------
RegistryNext ==
    \/ \E e \in Entries, k \in Kinds, t \in Task :
          \/ \E victims \in {{}, {u \in RunningOf(e) : kind[u] = k}} :
                CreateLinked(t, e, k, victims)
          \/ \E s \in Outcomes : CreateFinished(t, e, k, s)
    \/ \E t \in Task, s \in Outcomes : Settle(t, s)
    \/ \E t \in Task : Cancel(t)
    \/ \E t \in Task : ~Running(t) /\ EndSilently(t)
    \/ \E e \in Entries : CancelEntryTasks(e)

\* What the registry promises whoever uses it: a coroutine reports its outcome
\* itself and ends without a report only when its task is settled already, so no
\* task is left running with nobody to finish it.  EntryWriters, with its
\* CancelledErrors that no handler catches, implements this.
RegistrySpec == RegistryInit /\ [][RegistryNext]_registryVars

-----------------------------------------------------------------------------
\* Types of the registry; handles may outlive their coroutine (CreateFinished).
RegistryTypeOK ==
    /\ taskState \in [Task -> {"absent", "running"} \union Outcomes]
    /\ owner \in [Task -> Entries]
    /\ kind \in [Task -> Kinds]
    /\ flag \in [Task -> BOOLEAN]
    /\ finishedAt \in [Task -> Nat]
    /\ clock \in Nat
    /\ listed \subseteq Task
    /\ handles \subseteq Task
    /\ alive \subseteq Task

\* A task that runs is always visible to get, cancel and an unload, so nothing
\* that still runs can escape cancel_entry_tasks.
RunningIsReachable ==
    \A t \in Task : Running(t) => t \in listed /\ t \in handles /\ t \in alive

\* Once cancelled, a task stays cancelled: an unload racing a completion that
\* arrives late cannot be reported as done (the comment in finish()).
CancelledWins ==
    [][\A t \in Task : taskState[t] = "cancelled" => taskState'[t] = "cancelled"]_registryVars
=============================================================================
