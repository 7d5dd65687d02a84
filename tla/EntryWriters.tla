---------------------------- MODULE EntryWriters ----------------------------
(***************************************************************************)
(* The writers of one config entry's profile store and the entry's unload  *)
(* and reload (ws_api.py, __init__.py).  Heavy store work runs either in a *)
(* registry task or inside a WebSocket or service command.  Both serialise *)
(* on the per-entry write lock, an asyncio.Lock that unload forgets after  *)
(* it has drained the registry tasks; commands are not drained.            *)
(*                                                                         *)
(* asyncio schedules cooperatively: an action is the code between two      *)
(* awaits.  Lock objects are numbered: lockNo is the number of the one     *)
(* _entry_write_lock hands out now.  Managers are numbered by gen, and     *)
(* hass.data holds one exactly while phase = "up".                         *)
(***************************************************************************)
EXTENDS TaskRegistry

CONSTANTS
    entry,        \* the entry under study; other entries only share the registry
    Commands,     \* WebSocket and service commands in flight at once
    MaxGen        \* bound: managers set up

ASSUME WritersAssumption ==
    /\ entry \in Entries
    /\ MaxGen \in Nat \ {0}
    /\ Commands \intersect Int = {}
    /\ IsFiniteSet(Commands)
    /\ {"plain", "training", "recheck", "replay", "detail"} \subseteq Kinds

Jobs == Task \union Commands

\* Kinds that write the store under the write lock.  "plain" polls the flag
\* (rebuild, reprocess, trim, split, merge); "training" does not; "recheck"
\* compares the manager again once it has the lock (store download, auto-label,
\* history apply).  "replay" tasks (playground) read only and take no lock.
Writers == {"plain", "training", "recheck"}

NoManager == 0

VARIABLES
    phase,        \* async_setup_entry / async_unload_entry of the entry
    gen,          \* managers set up so far
    lockNo,       \* number of the lock in hass.data
    pc,           \* where each job is
    manager,      \* the manager a job captured
    lock,         \* the lock a job waits for or holds
    ticket,       \* its place in that lock's queue
    cancelling    \* tasks with a CancelledError to be thrown

writerVars == <<phase, gen, lockNo, pc, manager, lock, ticket, cancelling>>
vars == <<registryVars, writerVars>>

CurrentManager == IF phase = "up" THEN gen ELSE NoManager

Holder(j) == pc[j] = "holding"
Waiter(j) == pc[j] = "waiting"

Free(n) == \A j \in Jobs : ~(Holder(j) /\ lock[j] = n)

\* asyncio.Lock wakes its waiters in the order they came.
First(j) == \A i \in Jobs : Waiter(i) /\ lock[i] = lock[j] => ticket[j] <= ticket[i]

NextTicket(n) == 1 + Cardinality({j \in Jobs : Waiter(j) /\ lock[j] = n})

\* A job leaves the queue from any place: those behind it move up.
Dequeued(j) == [i \in Jobs |-> IF /\ Waiter(i) /\ Waiter(j)
                                  /\ lock[i] = lock[j] /\ ticket[i] > ticket[j]
                               THEN ticket[i] - 1
                               ELSE ticket[i]]

Enqueue(j, m) ==
    /\ pc' = [pc EXCEPT ![j] = "waiting"]
    /\ manager' = [manager EXCEPT ![j] = m]
    /\ lock' = [lock EXCEPT ![j] = lockNo]
    /\ ticket' = [ticket EXCEPT ![j] = NextTicket(lockNo)]

MoveTo(j, where) ==
    /\ pc' = [pc EXCEPT ![j] = where]
    /\ ticket' = Dequeued(j)
    /\ UNCHANGED <<manager, lock>>

-----------------------------------------------------------------------------
Init ==
    /\ RegistryInit
    /\ phase = "up" /\ gen = 1 /\ lockNo = 1
    /\ pc = [j \in Jobs |-> "idle"]
    /\ manager = [j \in Jobs |-> NoManager]
    /\ lock = [j \in Jobs |-> 0]
    /\ ticket = [j \in Jobs |-> 0]
    /\ cancelling = {}

\* The replays of the entry that refuse another one (_pg_running).
RunningReplays == {u \in RunningOf(entry) : kind[u] = "replay"}

\* A handler creates a writer task; its coroutine captures the manager and
\* queues for the lock before it first suspends.
SpawnWriter(t, k) ==
    /\ phase = "up"
    /\ k \in Writers
    /\ CreateLinked(t, entry, k, {})
    /\ Enqueue(t, gen)
    /\ UNCHANGED <<phase, gen, lockNo, cancelling>>

\* A rebuild of no profiles meets a free lock and nothing to wait for.
SpawnEmptyRebuild(t) ==
    /\ phase = "up"
    /\ Free(lockNo)
    /\ CreateFinished(t, entry, "plain", "done")
    /\ pc' = [pc EXCEPT ![t] = "over"]
    /\ UNCHANGED <<phase, gen, lockNo, manager, lock, ticket, cancelling>>

\* Test-on-history and Optimize: one per entry (_pg_refuse_busy).
SpawnReplay(t) ==
    /\ phase = "up"
    /\ RunningReplays = {}
    /\ CreateLinked(t, entry, "replay", {})
    /\ pc' = [pc EXCEPT ![t] = "replaying"]
    /\ manager' = [manager EXCEPT ![t] = gen]
    /\ UNCHANGED <<phase, gen, lockNo, lock, ticket, cancelling>>

\* A new Simulate flags the running ones and does not wait for them.
SpawnDetail(t) ==
    /\ phase = "up"
    /\ CreateLinked(t, entry, "detail", {u \in RunningOf(entry) : kind[u] = "detail"})
    /\ pc' = [pc EXCEPT ![t] = "replaying"]
    /\ manager' = [manager EXCEPT ![t] = gen]
    /\ UNCHANGED <<phase, gen, lockNo, lock, ticket, cancelling>>

\* Another entry's task, over at once: all that matters here is its finish.
OtherEntryTask(t, e) ==
    /\ e # entry
    /\ CreateFinished(t, e, "plain", "done")
    /\ pc' = [pc EXCEPT ![t] = "over"]
    /\ UNCHANGED <<phase, gen, lockNo, manager, lock, ticket, cancelling>>

\* The lock is free and the task is first.  A recheck task whose manager is no
\* longer the entry's ends with "device reloaded".
Acquire(t) ==
    /\ Waiter(t) /\ t \notin cancelling
    /\ Free(lock[t]) /\ First(t)
    /\ IF kind[t] = "recheck" /\ manager[t] # CurrentManager
       THEN Settle(t, "error") /\ MoveTo(t, "over")
       ELSE MoveTo(t, "holding") /\ UNCHANGED registryVars
    /\ UNCHANGED <<phase, gen, lockNo, cancelling>>

MutComplete(t, s) ==
    /\ pc[t] \in {"holding", "replaying"} /\ t \notin cancelling
    /\ flag[t] => s = "cancelled"
    /\ s = "cancelled" => flag[t] /\ kind[t] # "training"
    /\ Settle(t, s)
    /\ MoveTo(t, "over")
    /\ UNCHANGED <<phase, gen, lockNo, cancelling>>

\* The runner's try block ends; the finally releases the lock.  Runners that
\* poll may also report a cancellation the user asked for.
Complete(t, s) ==
    /\ pc[t] \in {"holding", "replaying"} /\ t \notin cancelling
    /\ s = "cancelled" => flag[t] /\ kind[t] # "training"
    /\ Settle(t, s)
    /\ MoveTo(t, "over")
    /\ UNCHANGED <<phase, gen, lockNo, cancelling>>

MutInterrupted(t) ==
    /\ t \in cancelling /\ ~Waiter(t)
    /\ Settle(t, "cancelled")
    /\ MoveTo(t, "over")
    /\ cancelling' = cancelling \ {t}
    /\ UNCHANGED <<phase, gen, lockNo>>

\* CancelledError reaches the coroutine at its await.  The recheck runners
\* catch Exception only, so they end without a report.
Interrupted(t) ==
    /\ t \in cancelling
    /\ IF kind[t] = "recheck" THEN EndSilently(t) ELSE Settle(t, "cancelled")
    /\ MoveTo(t, "over")
    /\ cancelling' = cancelling \ {t}
    /\ UNCHANGED <<phase, gen, lockNo>>

UserCancel(t) == Cancel(t) /\ UNCHANGED writerVars

\* A command captures the manager and queues in the same step.
StartCommand(c) ==
    /\ phase = "up" /\ pc[c] = "idle"
    /\ Enqueue(c, gen)
    /\ UNCHANGED <<registryVars, phase, gen, lockNo, cancelling>>

\* The import service captures the manager, then reads its file in the
\* executor, and only then asks for the lock of that moment.
StartImportService(c) ==
    /\ phase = "up" /\ pc[c] = "idle"
    /\ pc' = [pc EXCEPT ![c] = "reading"]
    /\ manager' = [manager EXCEPT ![c] = gen]
    /\ UNCHANGED <<registryVars, phase, gen, lockNo, lock, ticket, cancelling>>

ImportFileRead(c) ==
    /\ pc[c] = "reading"
    /\ Enqueue(c, manager[c])
    /\ UNCHANGED <<registryVars, phase, gen, lockNo, cancelling>>

\* No command looks at the manager again before it writes.
AcquireCommand(c) ==
    /\ Waiter(c)
    /\ Free(lock[c]) /\ First(c)
    /\ MoveTo(c, "holding")
    /\ UNCHANGED <<registryVars, phase, gen, lockNo, cancelling>>

CompleteCommand(c) ==
    /\ Holder(c)
    /\ MoveTo(c, "idle")
    /\ UNCHANGED <<registryVars, phase, gen, lockNo, cancelling>>

\* async_unload_entry pops the manager, shuts it down, cancels the entry's
\* tasks, waits for the cancelled coroutines, and forgets the lock.
BeginUnload ==
    /\ phase = "up"
    /\ phase' = "shutting"
    /\ UNCHANGED <<registryVars, gen, lockNo, pc, manager, lock, ticket, cancelling>>

MutCancelTasks ==
    /\ phase = "shutting"
    /\ phase' = "draining"
    /\ cancelling' = cancelling \union CancelledRaws(entry)
    /\ UNCHANGED <<registryVars, gen, lockNo, pc, manager, lock, ticket>>

CancelTasks ==
    /\ phase = "shutting"
    /\ phase' = "draining"
    /\ CancelEntryTasks(entry)
    /\ cancelling' = cancelling \union CancelledRaws(entry)
    /\ UNCHANGED <<gen, lockNo, pc, manager, lock, ticket>>

MutForgetLock ==
    /\ phase = "draining"
    /\ phase' = "down"
    /\ lockNo' = lockNo + 1
    /\ UNCHANGED <<registryVars, gen, pc, manager, lock, ticket, cancelling>>

ForgetLock ==
    /\ phase = "draining"
    /\ cancelling = {}
    /\ phase' = "down"
    /\ lockNo' = lockNo + 1
    /\ UNCHANGED <<registryVars, gen, pc, manager, lock, ticket, cancelling>>

Setup ==
    /\ phase = "down" /\ gen < MaxGen
    /\ phase' = "up"
    /\ gen' = gen + 1
    /\ UNCHANGED <<registryVars, lockNo, pc, manager, lock, ticket, cancelling>>

-----------------------------------------------------------------------------
TaskStep(t) ==
    \/ \E k \in Writers : SpawnWriter(t, k)
    \/ SpawnEmptyRebuild(t)
    \/ SpawnReplay(t)
    \/ SpawnDetail(t)
    \/ \E e \in Entries : OtherEntryTask(t, e)
    \/ Acquire(t)
    \/ \E s \in Outcomes : Complete(t, s)
    \/ Interrupted(t)
    \/ UserCancel(t)

CommandStep(c) ==
    \/ StartCommand(c) \/ StartImportService(c) \/ ImportFileRead(c)
    \/ AcquireCommand(c) \/ CompleteCommand(c)

UnloadStep == BeginUnload \/ CancelTasks \/ ForgetLock \/ Setup

Next ==
    \/ \E t \in Task : TaskStep(t)
    \/ \E c \in Commands : CommandStep(c)
    \/ UnloadStep

\* The event loop runs every ready callback and every awaited operation of a
\* runner ends; nothing obliges a user to issue, cancel or reload anything.
Fairness ==
    /\ \A t \in Task : WF_vars(Acquire(t) \/ Interrupted(t) \/ \E s \in Outcomes : Complete(t, s))
    /\ \A c \in Commands : WF_vars(ImportFileRead(c) \/ AcquireCommand(c) \/ CompleteCommand(c))
    /\ WF_vars(CancelTasks \/ ForgetLock)

Spec == Init /\ [][Next]_vars

FairSpec == Spec /\ Fairness

-----------------------------------------------------------------------------
\* Types of the writers' state.
TypeOK ==
    /\ RegistryTypeOK
    /\ phase \in {"up", "shutting", "draining", "down"}
    /\ gen \in 1..MaxGen /\ lockNo \in Nat
    /\ pc \in [Jobs -> {"idle", "reading", "waiting", "holding", "replaying", "over"}]
    /\ manager \in [Jobs -> Nat] /\ lock \in [Jobs -> Nat] /\ ticket \in [Jobs -> Nat]
    /\ cancelling \subseteq Task

\* Two registry tasks never write one store at the same time, not even when the
\* entry reloads between them: unload drains the tasks before it forgets their
\* lock, so no task that waits for or holds a forgotten lock is left.
TaskWriterExclusion ==
    \A t, u \in Task : Holder(t) /\ Holder(u) => t = u

\* A registry task that writes does so through the manager the entry has, or had
\* until an unload that is still waiting for that very task.
TaskWritesLiveManager ==
    \A t \in Task : Holder(t) => manager[t] = gen /\ phase # "down"

\* At most one Test-on-history or Optimize coroutine of the entry is alive, even
\* after an unload marked the running one cancelled (_pg_refuse_busy looks at
\* the registry's states, not at coroutines).
OneReplayAlive ==
    \A t, u \in Task : pc[t] = "replaying" /\ kind[t] = "replay"
                      /\ pc[u] = "replaying" /\ kind[u] = "replay" => t = u

\* A user's cancel of a running task is eventually answered with an outcome.
CancelSettles == \A t \in Task : flag[t] ~> ~Running(t)

\* An unload waits for the drained coroutines only, so it ends, whatever the
\* commands that hold the lock do.
UnloadEnds == phase = "shutting" ~> phase = "down"

\* "A restore rewrites the whole store, so it takes the same per-entry write
\* lock as the imports and cannot interleave with a reprocess / recording
\* persist" (ws_api.py, undo_import): no command writes while a task does.
CommandTaskExclusion ==
    \A t \in Task, c \in Commands : ~(Holder(t) /\ Holder(c))
=============================================================================
