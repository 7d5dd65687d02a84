------------------------- MODULE EntryWriters_proof -------------------------
(***************************************************************************)
(* Proofs about EntryWriters, for every number of tasks, commands, entries *)
(* and reloads.                                                            *)
(***************************************************************************)
EXTENDS EntryWriters, FiniteSetTheorems, TLAPS

Active(t) == pc[t] \in {"waiting", "holding", "replaying"}

\* A lock has one holder, be it a task or a command.
Exclusive ==
    \A i, j \in Jobs : Holder(i) /\ Holder(j) /\ lock[i] = lock[j] => i = j

\* A task at the lock is at the lock of now, and writes the manager of now.
Bound ==
    \A t \in Task : pc[t] \in {"waiting", "holding"} =>
        manager[t] = gen /\ lock[t] = lockNo

\* An active coroutine is one the next unload will find and drain, until it has
\* been found; then its CancelledError is on the way.
Supervised ==
    \A t \in Task : Active(t) =>
        /\ t \in alive
        /\ phase # "down"
        /\ IF phase = "draining" THEN t \in cancelling
           ELSE Running(t) /\ owner[t] = entry /\ t \in listed \intersect handles

\* Only an unload throws, and only into tasks it has settled as cancelled.
Drained ==
    /\ phase # "draining" => cancelling = {}
    /\ \A t \in cancelling : taskState[t] = "cancelled"

Safe == /\ Exclusive /\ Bound /\ Supervised /\ Drained
        /\ RunningIsReachable /\ OneReplayAlive

IInv == TypeOK /\ Safe

-----------------------------------------------------------------------------
LEMMA FiniteTasks == /\ IsFiniteSet(Task) /\ IsFiniteSet(Jobs)
                     /\ Task \intersect Commands = {}
<1>1. Task \subseteq Int /\ IsFiniteSet(Task)
  BY FS_Interval, RegistryAssumption DEF Task
<1>2. IsFiniteSet(Jobs)
  BY <1>1, FS_Union, WritersAssumption DEF Jobs
<1> QED
  BY <1>1, <1>2, WritersAssumption

LEMMA TicketType == ASSUME NEW n PROVE NextTicket(n) \in Nat
<1>1. IsFiniteSet({j \in Jobs : Waiter(j) /\ lock[j] = n})
  BY FiniteTasks, FS_Subset
<1> QED
  BY <1>1, FS_CardinalityType DEF NextTicket

\* _evict drops no running task and adds none.
LEMMA KeptFacts ==
    ASSUME NEW S, NEW own, NEW st, NEW fin
    PROVE  /\ Kept(S, own, st, fin) \subseteq S
           /\ \A t \in S : st[t] = "running" => t \in Kept(S, own, st, fin)
BY DEF Kept

LEMMA CancelType ==
    ASSUME RegistryTypeOK, NEW e \in Entries, CancelEntryTasks(e)
    PROVE  RegistryTypeOK'
<1> DEFINE victims == RunningOf(e)
           Rank(t) == Cardinality({u \in victims : u <= t})
<1>1. IsFiniteSet(victims)
  BY FiniteTasks, FS_Subset DEF RunningOf, RegistryTypeOK
<1>2. \A t \in Task : Rank(t) \in Nat
  <2> TAKE t \in Task
  <2>1. IsFiniteSet({u \in victims : u <= t})
    BY <1>1, FS_Subset
  <2> QED
    BY <2>1, FS_CardinalityType
<1>3. Cardinality(victims) \in Nat
  BY <1>1, FS_CardinalityType
<1>4. listed' \subseteq listed
  BY KeptFacts DEF CancelEntryTasks
<1>5. finishedAt' = [t \in Task |-> IF t \in victims THEN clock + Rank(t) ELSE finishedAt[t]]
  BY DEF CancelEntryTasks
<1>6. clock' = clock + Cardinality(victims)
  BY DEF CancelEntryTasks
<1> HIDE DEF victims, Rank
<1>7. finishedAt' \in [Task -> Nat] /\ clock' \in Nat
  BY <1>2, <1>3, <1>5, <1>6 DEF RegistryTypeOK
<1>8. taskState' \in [Task -> {"absent", "running"} \union Outcomes] /\ flag' \in [Task -> BOOLEAN]
  BY DEF CancelEntryTasks, RegistryTypeOK, Outcomes
<1> QED
  BY <1>4, <1>7, <1>8 DEF CancelEntryTasks, RegistryTypeOK

LEMMA LinkedType ==
    ASSUME RegistryTypeOK, NEW t \in Task, NEW e \in Entries, NEW k \in Kinds, NEW victims,
           CreateLinked(t, e, k, victims)
    PROVE  RegistryTypeOK'
<1>1. listed' \subseteq listed \union {t}
  BY KeptFacts DEF CreateLinked
<1> QED
  BY <1>1 DEF CreateLinked, RegistryTypeOK

LEMMA FinishedType ==
    ASSUME RegistryTypeOK, NEW t \in Task, NEW e \in Entries, NEW k \in Kinds,
           NEW s \in Outcomes, CreateFinished(t, e, k, s)
    PROVE  RegistryTypeOK'
<1>1. listed' \subseteq listed \union {t}
  BY KeptFacts DEF CreateFinished
<1>2. clock' \in Nat /\ finishedAt' \in [Task -> Nat]
  BY DEF CreateFinished, RegistryTypeOK
<1>3. taskState' \in [Task -> {"absent", "running"} \union Outcomes]
  BY DEF CreateFinished, RegistryTypeOK
<1> QED
  BY <1>1, <1>2, <1>3 DEF CreateFinished, RegistryTypeOK

LEMMA SettleType ==
    ASSUME RegistryTypeOK, NEW t \in Task, NEW s \in Outcomes, Settle(t, s)
    PROVE  RegistryTypeOK'
<1>1. listed' \subseteq listed
  BY KeptFacts DEF Settle, Finish
<1> QED
  BY <1>1 DEF Settle, Finish, RegistryTypeOK

LEMMA DequeueType ==
    ASSUME TypeOK, NEW j \in Jobs
    PROVE  Dequeued(j) \in [Jobs -> Nat]
BY DEF TypeOK, Dequeued

LEMMA TypeStep == TypeOK /\ [Next]_vars => TypeOK'
<1> SUFFICES ASSUME TypeOK, [Next]_vars PROVE TypeOK'
  OBVIOUS
<1> USE RegistryAssumption, WritersAssumption
<1>0. Task \subseteq Jobs /\ Commands \subseteq Jobs
  BY DEF Jobs
<1>1. ASSUME NEW t \in Task, NEW k \in Writers, SpawnWriter(t, k) PROVE TypeOK'
  <2>1. k \in Kinds
    BY DEF Writers
  <2>2. RegistryTypeOK'
    BY <1>1, <2>1, LinkedType DEF SpawnWriter, TypeOK
  <2> QED
    BY <1>0, <1>1, <2>2, TicketType DEF SpawnWriter, Enqueue, TypeOK
<1>2. ASSUME NEW t \in Task, SpawnEmptyRebuild(t) PROVE TypeOK'
  <2>1. RegistryTypeOK'
    BY <1>2, FinishedType DEF SpawnEmptyRebuild, TypeOK, Outcomes
  <2> QED
    BY <1>0, <1>2, <2>1 DEF SpawnEmptyRebuild, TypeOK
<1>3. ASSUME NEW t \in Task, SpawnReplay(t) PROVE TypeOK'
  <2>1. RegistryTypeOK'
    BY <1>3, LinkedType DEF SpawnReplay, TypeOK
  <2> QED
    BY <1>0, <1>3, <2>1 DEF SpawnReplay, TypeOK
<1>4. ASSUME NEW t \in Task, SpawnDetail(t) PROVE TypeOK'
  <2>1. RegistryTypeOK'
    BY <1>4, LinkedType DEF SpawnDetail, TypeOK
  <2> QED
    BY <1>0, <1>4, <2>1 DEF SpawnDetail, TypeOK
<1>5. ASSUME NEW t \in Task, NEW e \in Entries, OtherEntryTask(t, e) PROVE TypeOK'
  <2>1. RegistryTypeOK'
    BY <1>5, FinishedType DEF OtherEntryTask, TypeOK, Outcomes
  <2> QED
    BY <1>0, <1>5, <2>1 DEF OtherEntryTask, TypeOK
<1>6. ASSUME NEW t \in Task, Acquire(t) PROVE TypeOK'
  <2>1. RegistryTypeOK'
    <3>1. ASSUME Settle(t, "error") PROVE RegistryTypeOK'
      BY <3>1, SettleType DEF TypeOK, Outcomes
    <3>2. ASSUME UNCHANGED registryVars PROVE RegistryTypeOK'
      BY <3>2 DEF TypeOK, RegistryTypeOK, registryVars
    <3> QED
      BY <1>6, <3>1, <3>2 DEF Acquire
  <2>2. MoveTo(t, "over") \/ MoveTo(t, "holding")
    BY <1>6 DEF Acquire
  <2> QED
    BY <1>0, <1>6, <2>1, <2>2, DequeueType DEF Acquire, MoveTo, TypeOK
<1>7. ASSUME NEW t \in Task, NEW s \in Outcomes, Complete(t, s) PROVE TypeOK'
  <2>1. RegistryTypeOK'
    BY <1>7, SettleType DEF Complete, TypeOK
  <2> QED
    BY <1>0, <1>7, <2>1, DequeueType DEF Complete, MoveTo, TypeOK
<1>8. ASSUME NEW t \in Task, Interrupted(t) PROVE TypeOK'
  <2>1. RegistryTypeOK'
    <3>1. ASSUME Settle(t, "cancelled") PROVE RegistryTypeOK'
      BY <3>1, SettleType DEF TypeOK, Outcomes
    <3>2. ASSUME EndSilently(t) PROVE RegistryTypeOK'
      BY <3>2 DEF TypeOK, RegistryTypeOK, EndSilently
    <3> QED
      BY <1>8, <3>1, <3>2 DEF Interrupted
  <2> QED
    BY <1>0, <1>8, <2>1, DequeueType DEF Interrupted, MoveTo, TypeOK
<1>9. ASSUME NEW t \in Task, UserCancel(t) PROVE TypeOK'
  BY <1>9 DEF UserCancel, Cancel, TypeOK, RegistryTypeOK, writerVars
<1>10. ASSUME NEW c \in Commands, CommandStep(c) PROVE TypeOK'
  <2>1. RegistryTypeOK'
    BY <1>10 DEF CommandStep, StartCommand, StartImportService, ImportFileRead, AcquireCommand,
                 CompleteCommand, registryVars, TypeOK, RegistryTypeOK
  <2>2. CASE StartCommand(c)
    BY <1>0, <2>1, <2>2, TicketType DEF StartCommand, Enqueue, TypeOK
  <2>3. CASE StartImportService(c)
    BY <1>0, <2>1, <2>3 DEF StartImportService, TypeOK
  <2>4. CASE ImportFileRead(c)
    BY <1>0, <2>1, <2>4, TicketType DEF ImportFileRead, Enqueue, TypeOK
  <2>5. CASE AcquireCommand(c)
    BY <1>0, <2>1, <2>5, DequeueType DEF AcquireCommand, MoveTo, TypeOK
  <2>6. CASE CompleteCommand(c)
    BY <1>0, <2>1, <2>6, DequeueType DEF CompleteCommand, MoveTo, TypeOK
  <2> QED
    BY <1>10, <2>2, <2>3, <2>4, <2>5, <2>6 DEF CommandStep
<1>11. ASSUME CancelTasks PROVE TypeOK'
  <2>1. RegistryTypeOK'
    BY <1>11, CancelType DEF CancelTasks, TypeOK
  <2>2. CancelledRaws(entry) \subseteq Task
    BY DEF CancelledRaws, TypeOK, RegistryTypeOK
  <2> QED
    BY <1>11, <2>1, <2>2 DEF CancelTasks, TypeOK
<1>12. ASSUME BeginUnload \/ ForgetLock \/ Setup PROVE TypeOK'
  <2>1. RegistryTypeOK'
    BY <1>12 DEF BeginUnload, ForgetLock, Setup, registryVars, TypeOK, RegistryTypeOK
  <2> QED
    BY <1>12, <2>1 DEF BeginUnload, ForgetLock, Setup, TypeOK
<1>13. CASE UNCHANGED vars
  BY <1>13 DEF vars, registryVars, writerVars, TypeOK, RegistryTypeOK
<1> QED
  BY <1>1, <1>2, <1>3, <1>4, <1>5, <1>6, <1>7, <1>8, <1>9, <1>10, <1>11, <1>12, <1>13
     DEF Next, TaskStep, UnloadStep

\* Types of the writers and the registry, for any number of each.
THEOREM TypeCorrect == Spec => []TypeOK
<1>1. Init => TypeOK
  BY RegistryAssumption, WritersAssumption
     DEF Init, RegistryInit, TypeOK, RegistryTypeOK, Jobs, NoManager
<1> QED
  BY <1>1, TypeStep, PTL DEF Spec

-----------------------------------------------------------------------------
\* What a registry operation on t leaves alone: every other task's state, and
\* the place of every other running task.
Spares(t) ==
    \A u \in Task : u # t =>
        /\ taskState'[u] = taskState[u] /\ owner'[u] = owner[u] /\ kind'[u] = kind[u]
        /\ u \in alive' <=> u \in alive
        /\ Running(u) /\ u \in listed \intersect handles => u \in listed' \intersect handles'

LEMMA LinkedEffect ==
    ASSUME RegistryTypeOK, NEW t \in Task, NEW e \in Entries, NEW k \in Kinds, NEW victims,
           CreateLinked(t, e, k, victims)
    PROVE  /\ Spares(t) /\ taskState[t] = "absent" /\ Running(t)' /\ owner'[t] = e
           /\ kind'[t] = k /\ t \in listed' \intersect handles' \intersect alive'
<1>1. taskState'[t] = "running" /\ owner'[t] = e /\ kind'[t] = k
  BY DEF CreateLinked, RegistryTypeOK
<1>2. \A u \in Task : u # t => /\ taskState'[u] = taskState[u]
                               /\ owner'[u] = owner[u] /\ kind'[u] = kind[u]
  BY DEF CreateLinked, RegistryTypeOK
<1>3. \A u \in listed \union {t} : taskState'[u] = "running" => u \in listed'
  BY KeptFacts DEF CreateLinked
<1> QED
  BY <1>1, <1>2, <1>3 DEF CreateLinked, Spares, Running, Fresh

LEMMA FinishedEffect ==
    ASSUME RegistryTypeOK, NEW t \in Task, NEW e \in Entries, NEW k \in Kinds,
           NEW s \in Outcomes, CreateFinished(t, e, k, s)
    PROVE  Spares(t) /\ taskState[t] = "absent" /\ ~Running(t)'
<1>1. taskState'[t] = s /\ s # "running"
  BY DEF CreateFinished, RegistryTypeOK, Outcomes
<1>2. \A u \in Task : u # t => /\ taskState'[u] = taskState[u]
                               /\ owner'[u] = owner[u] /\ kind'[u] = kind[u]
  BY DEF CreateFinished, RegistryTypeOK
<1>3. \A u \in listed \union {t} : taskState'[u] = "running" => u \in listed'
  BY KeptFacts DEF CreateFinished
<1> QED
  BY <1>1, <1>2, <1>3 DEF CreateFinished, Spares, Running, Fresh

LEMMA SettleEffect ==
    ASSUME RegistryTypeOK, NEW t \in Task, NEW s \in Outcomes, Settle(t, s)
    PROVE  /\ Spares(t) /\ ~Running(t)' /\ UNCHANGED kind
           /\ taskState[t] = "cancelled" => taskState'[t] = "cancelled"
<1>1. CASE taskState[t] = "cancelled" /\ s # "cancelled"
  BY <1>1 DEF Settle, Finish, Spares, Running
<1>2. CASE ~(taskState[t] = "cancelled" /\ s # "cancelled")
  <2>1. taskState'[t] = s /\ \A u \in Task : u # t => taskState'[u] = taskState[u]
    BY <1>2 DEF Settle, Finish, RegistryTypeOK
  <2>2. \A u \in listed : taskState'[u] = "running" => u \in listed'
    BY <1>2, KeptFacts DEF Settle, Finish
  <2> QED
    BY <1>2, <2>1, <2>2 DEF Settle, Finish, Spares, Running, Outcomes
<1> QED
  BY <1>1, <1>2

LEMMA CancelEffect ==
    ASSUME RegistryTypeOK, NEW e \in Entries, CancelEntryTasks(e)
    PROVE  /\ \A u \in Task : taskState'[u] = IF u \in RunningOf(e) THEN "cancelled"
                                                                   ELSE taskState[u]
           /\ \A u \in Task \ RunningOf(e) :
                 Running(u) /\ u \in listed \intersect handles
                     => u \in listed' \intersect handles'
           /\ UNCHANGED <<owner, kind, alive>>
<1>1. \A u \in Task : taskState'[u] = IF u \in RunningOf(e) THEN "cancelled" ELSE taskState[u]
  BY DEF CancelEntryTasks
<1>2. \A u \in listed : taskState'[u] = "running" => u \in listed'
  BY KeptFacts DEF CancelEntryTasks
<1> QED
  BY <1>1, <1>2 DEF CancelEntryTasks, Running

-----------------------------------------------------------------------------
\* A step that ends the coroutine of t and moves no other job.
LEMMA OverStep ==
    ASSUME IInv, NEW t \in Task, Spares(t), ~Running(t)',
           pc' = [pc EXCEPT ![t] = "over"], UNCHANGED <<phase, gen, lockNo, manager, lock>>,
           \/ cancelling' = cancelling /\ t \notin cancelling
           \/ cancelling' = cancelling \ {t}
    PROVE  Safe'
<1>1. Task \subseteq Jobs /\ pc'[t] = "over" /\ \A j \in Jobs : j # t => pc'[j] = pc[j]
  BY DEF IInv, TypeOK, Jobs
<1>2. \A u \in Task : u # t => /\ taskState'[u] = taskState[u] /\ owner'[u] = owner[u]
                               /\ kind'[u] = kind[u] /\ (u \in alive' <=> u \in alive)
                               /\ Running(u)' <=> Running(u)
  BY DEF Spares, Running
<1>3. \A u \in Task : u # t /\ Running(u) /\ u \in listed \intersect handles
                          => u \in listed' \intersect handles'
  BY DEF Spares
<1>4. cancelling' \subseteq cancelling \ {t} /\ cancelling \ {t} \subseteq cancelling'
  OBVIOUS
<1>5. Exclusive'
  BY <1>1 DEF IInv, Safe, Exclusive, Holder
<1>6. Bound'
  BY <1>1 DEF IInv, Safe, Bound
<1>7. Supervised'
  BY <1>1, <1>2, <1>3, <1>4 DEF IInv, Safe, Supervised, Active
<1>8. Drained'
  BY <1>2, <1>4 DEF IInv, Safe, Drained, TypeOK
<1>9. RunningIsReachable'
  BY <1>2, <1>3 DEF IInv, Safe, RunningIsReachable
<1>10. OneReplayAlive'
  BY <1>1, <1>2 DEF IInv, Safe, OneReplayAlive
<1> QED
  BY <1>5, <1>6, <1>7, <1>8, <1>9, <1>10 DEF Safe

\* A handler that creates a linked task, whose coroutine queues or replays.
LEMMA SpawnStep ==
    ASSUME IInv, NEW t \in Task, NEW k \in Kinds, NEW victims, phase = "up",
           CreateLinked(t, entry, k, victims),
           NEW place \in {"waiting", "replaying"}, pc' = [pc EXCEPT ![t] = place],
           manager' = [manager EXCEPT ![t] = gen],
           place = "waiting" => lock' = [lock EXCEPT ![t] = lockNo],
           place = "replaying" => UNCHANGED lock /\ (k = "replay" => RunningReplays = {}),
           UNCHANGED <<phase, gen, lockNo, cancelling>>
    PROVE  Safe'
<1>1. Task \subseteq Jobs /\ pc'[t] = place /\ \A j \in Jobs : j # t => pc'[j] = pc[j]
  BY DEF IInv, TypeOK, Jobs
<1>2. manager'[t] = gen /\ \A j \in Jobs : j # t => manager'[j] = manager[j] /\ lock'[j] = lock[j]
  BY <1>1 DEF IInv, TypeOK
<1>3. place = "waiting" => lock'[t] = lockNo
  BY <1>1 DEF IInv, TypeOK
<1>4. /\ Spares(t) /\ taskState[t] = "absent" /\ Running(t)' /\ owner'[t] = entry
      /\ kind'[t] = k /\ t \in listed' \intersect handles' \intersect alive'
  BY LinkedEffect, WritersAssumption DEF IInv, TypeOK
<1>5. Exclusive'
  BY <1>1, <1>2 DEF IInv, Safe, Exclusive, Holder
<1>6. Bound'
  BY <1>1, <1>2, <1>3 DEF IInv, Safe, Bound
<1>7. Supervised'
  BY <1>1, <1>4 DEF IInv, Safe, Supervised, Active, Spares, Running
<1>8. Drained'
  BY DEF IInv, Safe, Drained
<1>9. RunningIsReachable'
  BY <1>4 DEF IInv, Safe, RunningIsReachable, Spares, Running
<1>10. OneReplayAlive'
  <2>1. ASSUME NEW u \in Task, u # t, pc[u] = "replaying", kind[u] = "replay"
        PROVE  u \in RunningReplays
    BY <2>1 DEF IInv, Safe, Supervised, Active, RunningReplays, RunningOf
  <2>2. \A u \in Task : u # t => kind'[u] = kind[u]
    BY <1>4 DEF Spares
  <2> QED
    BY <1>1, <1>4, <2>1, <2>2 DEF IInv, Safe, OneReplayAlive
<1> QED
  BY <1>5, <1>6, <1>7, <1>8, <1>9, <1>10 DEF Safe

\* A job that gets the lock is alone with it.
LEMMA HoldStep ==
    ASSUME IInv, NEW j \in Jobs, Waiter(j), Free(lock[j]), MoveTo(j, "holding"),
           UNCHANGED <<registryVars, phase, gen, lockNo, cancelling>>
    PROVE  Safe'
<1>1. pc'[j] = "holding" /\ \A i \in Jobs : i # j => pc'[i] = pc[i]
  BY DEF MoveTo, IInv, TypeOK
<1>2. UNCHANGED <<manager, lock, taskState, owner, kind, listed, handles, alive>>
  BY DEF MoveTo, registryVars
<1>3. Task \subseteq Jobs
  BY DEF Jobs
<1>4. Exclusive'
  BY <1>1, <1>2 DEF IInv, Safe, Exclusive, Holder, Free
<1>5. Bound'
  BY <1>1, <1>2, <1>3 DEF IInv, Safe, Bound, Waiter
<1>6. Supervised'
  BY <1>1, <1>2, <1>3 DEF IInv, Safe, Supervised, Active, Waiter, Running
<1>7. Drained' /\ RunningIsReachable'
  BY <1>2 DEF IInv, Safe, Drained, RunningIsReachable, Running
<1>8. OneReplayAlive'
  BY <1>1, <1>2, <1>3 DEF IInv, Safe, OneReplayAlive, Waiter
<1> QED
  BY <1>4, <1>5, <1>6, <1>7, <1>8 DEF Safe

\* A command that does anything else moves no task and holds nothing.
LEMMA CommandOtherStep ==
    ASSUME IInv, NEW c \in Commands, NEW place \in {"idle", "reading", "waiting"},
           pc' = [pc EXCEPT ![c] = place],
           \A j \in Jobs : j # c => manager'[j] = manager[j] /\ lock'[j] = lock[j],
           UNCHANGED <<registryVars, phase, gen, lockNo, cancelling>>
    PROVE  Safe'
<1>1. pc'[c] = place /\ \A i \in Jobs : i # c => pc'[i] = pc[i]
  BY DEF IInv, TypeOK, Jobs
<1>2. UNCHANGED <<taskState, owner, kind, listed, handles, alive>>
  BY DEF registryVars
<1>3. \A t \in Task : t \in Jobs /\ t # c
  BY FiniteTasks DEF Jobs
<1>4. Exclusive'
  BY <1>1 DEF IInv, Safe, Exclusive, Holder
<1>5. Bound'
  BY <1>1, <1>3 DEF IInv, Safe, Bound
<1>6. Supervised'
  BY <1>1, <1>2, <1>3 DEF IInv, Safe, Supervised, Active, Running
<1>7. Drained' /\ RunningIsReachable'
  BY <1>2 DEF IInv, Safe, Drained, RunningIsReachable, Running
<1>8. OneReplayAlive'
  BY <1>1, <1>2, <1>3 DEF IInv, Safe, OneReplayAlive
<1> QED
  BY <1>4, <1>5, <1>6, <1>7, <1>8 DEF Safe

-----------------------------------------------------------------------------
LEMMA SafeStep == IInv /\ [Next]_vars => Safe'
<1> SUFFICES ASSUME IInv, [Next]_vars PROVE Safe'
  OBVIOUS
<1>0. TypeOK /\ RegistryTypeOK /\ Task \subseteq Jobs /\ Commands \subseteq Jobs
  BY DEF IInv, TypeOK, Jobs
<1>1. ASSUME NEW t \in Task, NEW k \in Writers, SpawnWriter(t, k) PROVE Safe'
  <2>1. k \in Kinds
    BY WritersAssumption DEF Writers
  <2> QED
    BY <1>1, <2>1, SpawnStep DEF SpawnWriter, Enqueue
<1>2. ASSUME NEW t \in Task, SpawnEmptyRebuild(t) PROVE Safe'
  <2>1. Spares(t) /\ taskState[t] = "absent" /\ ~Running(t)'
    BY <1>0, <1>2, FinishedEffect, WritersAssumption DEF SpawnEmptyRebuild, Outcomes
  <2> QED
    BY <1>2, <2>1, OverStep DEF SpawnEmptyRebuild, IInv, Safe, Drained
<1>3. ASSUME NEW t \in Task, SpawnReplay(t) PROVE Safe'
  BY <1>3, SpawnStep, WritersAssumption DEF SpawnReplay
<1>4. ASSUME NEW t \in Task, SpawnDetail(t) PROVE Safe'
  BY <1>4, SpawnStep, WritersAssumption DEF SpawnDetail
<1>5. ASSUME NEW t \in Task, NEW e \in Entries, OtherEntryTask(t, e) PROVE Safe'
  <2>1. Spares(t) /\ taskState[t] = "absent" /\ ~Running(t)'
    BY <1>0, <1>5, FinishedEffect, WritersAssumption DEF OtherEntryTask, Outcomes
  <2> QED
    BY <1>5, <2>1, OverStep DEF OtherEntryTask, IInv, Safe, Drained
<1>6. ASSUME NEW t \in Task, Acquire(t) PROVE Safe'
  <2>1. CASE kind[t] = "recheck" /\ manager[t] # CurrentManager
    <3>1. Settle(t, "error") /\ MoveTo(t, "over")
      BY <1>6, <2>1 DEF Acquire
    <3>2. Spares(t) /\ ~Running(t)'
      BY <1>0, <3>1, SettleEffect DEF Outcomes
    <3> QED
      BY <1>6, <3>1, <3>2, OverStep DEF Acquire, MoveTo
  <2>2. CASE ~(kind[t] = "recheck" /\ manager[t] # CurrentManager)
    BY <1>0, <1>6, <2>2, HoldStep DEF Acquire
  <2> QED
    BY <2>1, <2>2
<1>7. ASSUME NEW t \in Task, NEW s \in Outcomes, Complete(t, s) PROVE Safe'
  <2>1. Spares(t) /\ ~Running(t)'
    BY <1>0, <1>7, SettleEffect DEF Complete
  <2> QED
    BY <1>7, <2>1, OverStep DEF Complete, MoveTo
<1>8. ASSUME NEW t \in Task, Interrupted(t) PROVE Safe'
  <2>1. Spares(t) /\ ~Running(t)'
    <3>1. CASE kind[t] = "recheck"
      <4>1. EndSilently(t) /\ taskState[t] = "cancelled"
        BY <1>8, <3>1 DEF Interrupted, IInv, Safe, Drained
      <4> QED
        BY <4>1 DEF EndSilently, Spares, Running
    <3>2. CASE kind[t] # "recheck"
      <4>1. Settle(t, "cancelled")
        BY <1>8, <3>2 DEF Interrupted
      <4> QED
        BY <1>0, <4>1, SettleEffect DEF Outcomes
    <3> QED
      BY <3>1, <3>2
  <2> QED
    BY <1>8, <2>1, OverStep DEF Interrupted, MoveTo
<1>9. ASSUME NEW t \in Task, UserCancel(t) PROVE Safe'
  BY <1>9 DEF UserCancel, Cancel, writerVars, IInv, Safe, Exclusive, Bound, Supervised, Drained,
              RunningIsReachable, OneReplayAlive, Active, Running, Holder
<1>10. ASSUME NEW c \in Commands, CommandStep(c) PROVE Safe'
  <2>1. CASE AcquireCommand(c)
    BY <1>0, <2>1, HoldStep DEF AcquireCommand
  <2>2. CASE StartCommand(c)
    <3>1. \A j \in Jobs : j # c => manager'[j] = manager[j] /\ lock'[j] = lock[j]
      BY <1>0, <2>2 DEF StartCommand, Enqueue, TypeOK
    <3> QED
      BY <2>2, <3>1, CommandOtherStep DEF StartCommand, Enqueue
  <2>3. CASE StartImportService(c)
    <3>1. \A j \in Jobs : j # c => manager'[j] = manager[j] /\ lock'[j] = lock[j]
      BY <1>0, <2>3 DEF StartImportService, TypeOK
    <3> QED
      BY <2>3, <3>1, CommandOtherStep DEF StartImportService
  <2>4. CASE ImportFileRead(c)
    <3>1. \A j \in Jobs : j # c => manager'[j] = manager[j] /\ lock'[j] = lock[j]
      BY <1>0, <2>4 DEF ImportFileRead, Enqueue, TypeOK
    <3> QED
      BY <2>4, <3>1, CommandOtherStep DEF ImportFileRead, Enqueue
  <2>5. CASE CompleteCommand(c)
    BY <2>5, CommandOtherStep DEF CompleteCommand, MoveTo
  <2> QED
    BY <1>10, <2>1, <2>2, <2>3, <2>4, <2>5 DEF CommandStep
<1>11. ASSUME CancelTasks PROVE Safe'
  <2>1. /\ \A u \in Task : taskState'[u] = IF u \in RunningOf(entry) THEN "cancelled"
                                                                     ELSE taskState[u]
        /\ \A u \in Task \ RunningOf(entry) :
              Running(u) /\ u \in listed \intersect handles
                  => u \in listed' \intersect handles'
        /\ UNCHANGED <<owner, kind, alive>>
    BY <1>0, <1>11, CancelEffect, WritersAssumption DEF CancelTasks
  <2>2. UNCHANGED <<gen, lockNo, pc, manager, lock>> /\ phase = "shutting" /\ phase' = "draining"
    BY <1>11 DEF CancelTasks
  <2>3. cancelling' = CancelledRaws(entry)
    BY <1>11 DEF CancelTasks, IInv, Safe, Drained
  <2>4. Supervised'
    <3>1. ASSUME NEW t \in Task, Active(t) PROVE t \in alive /\ t \in cancelling'
      BY <2>2, <2>3, <3>1 DEF IInv, Safe, Supervised, RunningOf, CancelledRaws
    <3> QED
      BY <2>1, <2>2, <3>1 DEF Supervised, Active
  <2>5. Drained'
    BY <1>0, <2>1, <2>2, <2>3 DEF Drained, CancelledRaws, RunningOf, RegistryTypeOK
  <2>6. RunningIsReachable'
    BY <2>1 DEF IInv, Safe, RunningIsReachable, Running
  <2>7. Exclusive' /\ Bound' /\ OneReplayAlive'
    BY <2>1, <2>2 DEF IInv, Safe, Exclusive, Bound, OneReplayAlive, Holder
  <2> QED
    BY <2>4, <2>5, <2>6, <2>7 DEF Safe
<1>12. ASSUME BeginUnload PROVE Safe'
  BY <1>12 DEF BeginUnload, registryVars, IInv, Safe, Exclusive, Bound, Supervised, Drained,
               RunningIsReachable, OneReplayAlive, Active, Running, Holder
<1>13. ASSUME ForgetLock \/ Setup PROVE Safe'
  <2>1. \A t \in Task : ~Active(t)
    BY <1>13 DEF ForgetLock, Setup, IInv, Safe, Supervised
  <2>2. UNCHANGED <<pc, lock, cancelling, taskState, listed, handles, alive>> /\ cancelling = {}
    BY <1>13 DEF ForgetLock, Setup, registryVars, IInv, Safe, Drained
  <2>3. Exclusive'
    BY <2>2 DEF IInv, Safe, Exclusive, Holder
  <2>4. Bound' /\ Supervised' /\ OneReplayAlive'
    BY <2>1, <2>2 DEF Bound, Supervised, OneReplayAlive, Active
  <2>5. Drained' /\ RunningIsReachable'
    BY <2>2 DEF IInv, Safe, Drained, RunningIsReachable, Running
  <2> QED
    BY <2>3, <2>4, <2>5 DEF Safe
<1>14. CASE UNCHANGED vars
  BY <1>14 DEF vars, registryVars, writerVars, IInv, Safe, Exclusive, Bound, Supervised, Drained,
               RunningIsReachable, OneReplayAlive, Active, Running, Holder
<1> QED
  BY <1>1, <1>2, <1>3, <1>4, <1>5, <1>6, <1>7, <1>8, <1>9, <1>10, <1>11, <1>12, <1>13, <1>14
     DEF Next, TaskStep, UnloadStep

THEOREM Invariance == Spec => []IInv
<1>1. Init => IInv
  <2>1. Init => TypeOK
    BY RegistryAssumption, WritersAssumption
       DEF Init, RegistryInit, TypeOK, RegistryTypeOK, Jobs, NoManager
  <2>2. Init => Safe
    BY DEF Init, RegistryInit, Safe, Exclusive, Bound, Supervised, Drained, Holder, Active,
           RunningIsReachable, OneReplayAlive, Running, Jobs
  <2> QED
    BY <2>1, <2>2 DEF IInv
<1>2. IInv /\ [Next]_vars => IInv'
  BY TypeStep, SafeStep DEF IInv
<1> QED
  BY <1>1, <1>2, PTL DEF Spec

\* No two registry tasks of an entry write its store at once, across reloads.
THEOREM WritersExclude == Spec => []TaskWriterExclusion
<1>1. IInv => TaskWriterExclusion
  BY DEF IInv, Safe, Exclusive, Bound, TaskWriterExclusion, Holder, Jobs
<1> QED
  BY <1>1, Invariance, PTL

\* A task that writes, writes the entry's own manager, never one of before a reload.
THEOREM WritesLiveManager == Spec => []TaskWritesLiveManager
<1>1. IInv => TaskWritesLiveManager
  BY DEF IInv, Safe, Bound, Supervised, Active, TaskWritesLiveManager, Holder
<1> QED
  BY <1>1, Invariance, PTL

\* A running task can always be found and cancelled.
THEOREM Reachable == Spec => []RunningIsReachable
<1>1. IInv => RunningIsReachable
  BY DEF IInv, Safe
<1> QED
  BY <1>1, Invariance, PTL

\* One Test-on-history or Optimize coroutine at a time, across cancels and reloads.
THEOREM ReplaysExclude == Spec => []OneReplayAlive
<1>1. IInv => OneReplayAlive
  BY DEF IInv, Safe
<1> QED
  BY <1>1, Invariance, PTL

\* No step of the registry, late completions and unloads included, takes a task
\* out of "cancelled".
THEOREM CancelledStays == Spec => CancelledWins
<1> DEFINE Stays == \A t \in Task : taskState[t] = "cancelled" => taskState'[t] = "cancelled"
<1>1. IInv /\ [Next]_vars => [Stays]_registryVars
  <2> SUFFICES ASSUME IInv, [Next]_vars PROVE Stays
    OBVIOUS
  <2>0. RegistryTypeOK
    BY DEF IInv, TypeOK
  <2>1. ASSUME NEW t \in Task, NEW e \in Entries, NEW k \in Kinds, NEW victims,
               CreateLinked(t, e, k, victims)
        PROVE  Stays
    BY <2>0, <2>1, LinkedEffect DEF Spares
  <2>2. ASSUME NEW t \in Task, NEW e \in Entries, NEW k \in Kinds, NEW s \in Outcomes,
               CreateFinished(t, e, k, s)
        PROVE  Stays
    BY <2>0, <2>2, FinishedEffect DEF Spares
  <2>3. ASSUME NEW t \in Task, NEW s \in Outcomes, Settle(t, s) PROVE Stays
    BY <2>0, <2>3, SettleEffect DEF Spares
  <2>4. CASE UNCHANGED taskState
    BY <2>4
  <2>5. CASE CancelTasks
    BY <2>0, <2>5, CancelEffect, WritersAssumption DEF CancelTasks
  <2>6. ASSUME NEW t \in Task, TaskStep(t) PROVE Stays
    <3>1. ASSUME NEW k \in Writers, SpawnWriter(t, k) PROVE Stays
      BY <2>1, <3>1, WritersAssumption DEF SpawnWriter, Writers
    <3>2. CASE SpawnEmptyRebuild(t)
      BY <2>2, <3>2, WritersAssumption DEF SpawnEmptyRebuild, Outcomes
    <3>3. CASE SpawnReplay(t) \/ SpawnDetail(t)
      BY <2>1, <3>3, WritersAssumption DEF SpawnReplay, SpawnDetail
    <3>4. ASSUME NEW e \in Entries, OtherEntryTask(t, e) PROVE Stays
      BY <2>2, <3>4, WritersAssumption DEF OtherEntryTask, Outcomes
    <3>5. CASE Acquire(t)
      BY <2>3, <2>4, <3>5 DEF Acquire, registryVars, Outcomes
    <3>6. CASE \E s \in Outcomes : Complete(t, s)
      BY <2>3, <3>6 DEF Complete
    <3>7. CASE Interrupted(t)
      BY <2>3, <2>4, <3>7 DEF Interrupted, EndSilently, Outcomes
    <3>8. CASE UserCancel(t)
      BY <2>4, <3>8 DEF UserCancel, Cancel
    <3> QED
      BY <2>6, <3>1, <3>2, <3>3, <3>4, <3>5, <3>6, <3>7, <3>8 DEF TaskStep
  <2>7. ASSUME NEW c \in Commands, CommandStep(c) PROVE Stays
    BY <2>4, <2>7 DEF CommandStep, StartCommand, StartImportService, ImportFileRead,
                      AcquireCommand, CompleteCommand, registryVars
  <2>8. CASE BeginUnload \/ ForgetLock \/ Setup \/ UNCHANGED vars
    BY <2>4, <2>8 DEF BeginUnload, ForgetLock, Setup, vars, registryVars
  <2> QED
    BY <2>5, <2>6, <2>7, <2>8 DEF Next, UnloadStep
<1> QED
  BY <1>1, Invariance, PTL DEF Spec, CancelledWins

-----------------------------------------------------------------------------
\* The coroutines of an entry, its unload and its reload use the registry as its
\* specification allows: above all, the store download, auto-label and history
\* apply runners, which let a CancelledError escape, are settled by the unload
\* before it is thrown, so none of their tasks is left running.
THEOREM RegistryRefined == Spec => RegistrySpec
<1>1. Init => RegistryInit
  BY DEF Init
<1>2. IInv /\ [Next]_vars => [RegistryNext]_registryVars
  <2> SUFFICES ASSUME IInv, [Next]_vars PROVE RegistryNext \/ UNCHANGED registryVars
    OBVIOUS
  <2>1. ASSUME NEW t \in Task, NEW e \in Entries, NEW k \in Kinds,
               NEW victims \in {{}, {u \in RunningOf(e) : kind[u] = k}},
               CreateLinked(t, e, k, victims)
        PROVE  RegistryNext
    BY <2>1 DEF RegistryNext
  <2>2. ASSUME NEW t \in Task, NEW e \in Entries, NEW k \in Kinds, NEW s \in Outcomes,
               CreateFinished(t, e, k, s)
        PROVE  RegistryNext
    BY <2>2 DEF RegistryNext
  <2>3. ASSUME NEW t \in Task, NEW s \in Outcomes, Settle(t, s) PROVE RegistryNext
    BY <2>3 DEF RegistryNext
  <2>4. ASSUME NEW t \in cancelling, EndSilently(t) PROVE RegistryNext
    <3>1. t \in Task /\ ~Running(t)
      BY DEF IInv, Safe, Drained, TypeOK, Running
    <3> QED
      BY <2>4, <3>1 DEF RegistryNext
  <2>5. ASSUME NEW t \in Task, TaskStep(t)
        PROVE  RegistryNext \/ UNCHANGED registryVars
    <3>1. ASSUME NEW k \in Writers, SpawnWriter(t, k) PROVE RegistryNext
      BY <2>1, <3>1, WritersAssumption DEF SpawnWriter, Writers
    <3>2. CASE SpawnEmptyRebuild(t)
      BY <2>2, <3>2, WritersAssumption DEF SpawnEmptyRebuild, Outcomes
    <3>3. CASE SpawnReplay(t)
      BY <2>1, <3>3, WritersAssumption DEF SpawnReplay
    <3>4. CASE SpawnDetail(t)
      <4>1. CreateLinked(t, entry, "detail", {u \in RunningOf(entry) : kind[u] = "detail"})
        BY <3>4 DEF SpawnDetail
      <4> QED
        BY <2>1, <4>1, WritersAssumption
    <3>5. ASSUME NEW e \in Entries, OtherEntryTask(t, e) PROVE RegistryNext
      BY <2>2, <3>5, WritersAssumption DEF OtherEntryTask, Outcomes
    <3>6. CASE Acquire(t)
      BY <2>3, <3>6 DEF Acquire, Outcomes
    <3>7. CASE \E s \in Outcomes : Complete(t, s)
      BY <2>3, <3>7 DEF Complete
    <3>8. CASE Interrupted(t)
      BY <2>3, <2>4, <3>8 DEF Interrupted, Outcomes
    <3>9. CASE UserCancel(t)
      BY <3>9 DEF UserCancel, RegistryNext
    <3> QED
      BY <2>5, <3>1, <3>2, <3>3, <3>4, <3>5, <3>6, <3>7, <3>8, <3>9 DEF TaskStep
  <2>6. ASSUME NEW c \in Commands, CommandStep(c) PROVE UNCHANGED registryVars
    BY <2>6 DEF CommandStep, StartCommand, StartImportService, ImportFileRead,
                AcquireCommand, CompleteCommand
  <2>7. CASE CancelTasks
    BY <2>7, WritersAssumption DEF CancelTasks, RegistryNext
  <2>8. CASE BeginUnload \/ ForgetLock \/ Setup \/ UNCHANGED vars
    BY <2>8 DEF BeginUnload, ForgetLock, Setup, vars
  <2> QED
    BY <2>5, <2>6, <2>7, <2>8 DEF Next, UnloadStep
<1> QED
  BY <1>1, <1>2, Invariance, PTL DEF Spec, RegistrySpec
=============================================================================
