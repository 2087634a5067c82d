-------------------------- MODULE PerfEngineProofs --------------------------
(***************************************************************************)
(* Proofs about PerfEngine, for any number of workers and any              *)
(* configurations: its types, that every item is in one place, that no     *)
(* wakeup is lost, that the multithreaded mode reports what the            *)
(* single-threaded one does, and how often the lock is taken.              *)
(***************************************************************************)
EXTENDS PerfEngine, QueueFacts, FiniteSetTheorems, TLAPS

\* A thread is in a critical section exactly while it holds the mutex.
MutexInv ==
    /\ \A w \in Workers : pc[w] = "check" <=> queue_mutex = w
    /\ main \in {"check", "close"} <=> queue_mutex = "main"

\* How far the main thread is, and what the workers may have seen of it: a
\* worker leaves only when nothing is queued or will be.
StageInv ==
    /\ main \in {"check", "wait", "woken"} => MoreItems
    /\ main \in {"close", "notify", "join", "returned"} => next_item = NumItems + 1
    /\ producer_finished <=> main \in {"notify", "join", "returned"}
    /\ main = "returned" => \A w \in Workers : pc[w] = "done"
    /\ \A w \in Workers :
         /\ pc[w] # "process" => task_batch[w] = <<>>
         /\ pc[w] \in {"merge", "done"} => producer_finished /\ queue = <<>>

Control == TypeOK /\ MutexInv /\ StageInv

\* One unit for each of the c[w] things that each worker of A has counted: how
\* many units there are is the sum of those counters.
Units(A, c) == {u \in A \X Nat : 1 <= u[2] /\ u[2] <= c[u[1]]}

\* The workers whose counters are not yet in aggregate_metrics.
Unmerged == {w \in Workers : pc[w] # "done"}

Completions == [w \in Workers |-> local_metrics[w].tasks_completed]
Acquisitions == [w \in Workers |-> local_metrics[w].lock_acquisitions]

\* Workers that have taken the lock and not removed a batch since.
EmptyHanded == {w \in Workers : pc[w] \in {"check", "wait", "woken", "merge", "done"}}

\* The counters of one worker, or of all, that grow together.
Even(m) == /\ m.simulated_allocations = m.tasks_completed
           /\ m.latencies = m.tasks_completed

\* What has been counted, merged or not, is what has been done.
CountInv ==
    /\ Even(aggregate_metrics) /\ \A w \in Workers : Even(local_metrics[w])
    /\ IsFiniteSet(checksum) /\ IsFiniteSet(Units(Unmerged, Completions))
    /\ aggregate_metrics.tasks_completed + Cardinality(Units(Unmerged, Completions))
         = Cardinality(checksum)

\* Every acquisition but the last of each worker removed a batch of between 1
\* and queue_batch_size items.
Batches == aggregate_metrics.lock_acquisitions
             + Cardinality(Units(Unmerged, Acquisitions)) - Cardinality(EmptyHanded)
Popped == next_item - 1 - Len(queue)

BatchInv ==
    /\ IsFiniteSet(Units(Unmerged, Acquisitions))
    /\ Batches \in Nat /\ Batches <= Popped
    /\ Popped <= config.queue_batch_size * Batches

\* A contended acquisition is counted before the acquisition itself.
ContentionInv ==
    /\ aggregate_metrics.contended_lock_acquisitions <= aggregate_metrics.lock_acquisitions
    /\ \A w \in Workers :
         local_metrics[w].contended_lock_acquisitions
           <= local_metrics[w].lock_acquisitions + (IF pc[w] = "lock" THEN 1 ELSE 0)
-----------------------------------------------------------------------------
(* Lemmas about the operators.                                             *)

\* The number of items is a number, for every configuration.
LEMMA NumItemsType ==
    ASSUME NEW n \in Nat, NEW c \in Nat \ {0}
    PROVE  (n + c - 1) \div c \in Nat
BY SMT

\* The items do not change while the configuration does not.
LEMMA ItemsConstant ==
    ASSUME config' = config
    PROVE  NumItems' = NumItems /\ Items' = Items
BY DEF NumItems, Items

\* Counting one more thing adds one unit.
LEMMA CountOne ==
    ASSUME NEW A, NEW c \in [Workers -> Nat], NEW d \in [Workers -> Nat],
           NEW w \in A, A \subseteq Workers, IsFiniteSet(Units(A, c)),
           d[w] = c[w] + 1, \A v \in Workers \ {w} : d[v] = c[v]
    PROVE  /\ IsFiniteSet(Units(A, d))
           /\ Cardinality(Units(A, d)) = Cardinality(Units(A, c)) + 1
<1> DEFINE u == <<w, c[w] + 1>>
<1>1. u \notin Units(A, c)
  BY DEF Units
<1>2. Units(A, d) = Units(A, c) \cup {u}
  BY DEF Units
<1>3. /\ IsFiniteSet(Units(A, c) \cup {u})
      /\ Cardinality(Units(A, c) \cup {u}) = Cardinality(Units(A, c)) + 1
  BY <1>1, FS_AddElement, Zenon
<1> QED BY <1>2, <1>3

\* A worker that leaves the sum takes its own units with it.
LEMMA CountOut ==
    ASSUME NEW A, NEW c \in [Workers -> Nat], NEW w \in A, A \subseteq Workers,
           IsFiniteSet(Units(A, c))
    PROVE  /\ IsFiniteSet(Units(A \ {w}, c))
           /\ Cardinality(Units(A \ {w}, c)) = Cardinality(Units(A, c)) - c[w]
<1> DEFINE own == {w} \X (1..c[w])
<1>1. c[w] \in Nat
  OBVIOUS
<1>2. IsFiniteSet({w}) /\ Cardinality({w}) = 1
  BY FS_Singleton
<1>3. IsFiniteSet(1..c[w]) /\ Cardinality(1..c[w]) = c[w]
  BY <1>1, FS_Interval
<1>4. Cardinality(own) = c[w]
  <2>1. Cardinality(own) = Cardinality({w}) * Cardinality(1..c[w])
    BY <1>2, <1>3, FS_Product, Zenon
  <2>2. Cardinality(own) = 1 * c[w]
    BY <1>2, <1>3, <2>1, Zenon
  <2> QED BY <1>1, <2>2
<1>5. Units(A \ {w}, c) = Units(A, c) \ own /\ Units(A, c) \cap own = own
  <2>1. ASSUME NEW u \in Units(A, c)  PROVE u \in own <=> u[1] = w
    BY DEF Units
  <2>2. own \subseteq Units(A, c)
    BY DEF Units
  <2>3. Units(A \ {w}, c) = {u \in Units(A, c) : u[1] # w}
    BY DEF Units
  <2> QED BY <2>1, <2>2, <2>3
<1>6. /\ IsFiniteSet(Units(A, c) \ own)
      /\ Cardinality(Units(A, c) \ own)
           = Cardinality(Units(A, c)) - Cardinality(Units(A, c) \cap own)
  BY FS_Difference, Zenon
<1> QED BY <1>4, <1>5, <1>6
-----------------------------------------------------------------------------
(* Types, mutual exclusion and the stages of a run.                        *)

\* Whoever is notified, a worker at most goes from "wait" to "woken".
LEMMA NotifyFacts ==
    ASSUME pc \in [Workers -> WorkerPoints], NotifyOne(Waiting)
    PROVE  /\ pc' \in [Workers -> WorkerPoints]
           /\ \A w \in Workers : pc'[w] = pc[w] \/ (pc[w] = "wait" /\ pc'[w] = "woken")
           /\ \E w \in Workers : pc'[w] # "wait"
<1>1. CASE Waiting = {}
  BY <1>1, PerfEngineConstants DEF NotifyOne, Waiting
<1>2. CASE Waiting # {}
  BY <1>2 DEF NotifyOne, Waiting, WorkerPoints
<1> QED BY <1>1, <1>2

\* A batch holds at least one item, at most queue_batch_size and what is queued.
LEMMA TakeFacts ==
    ASSUME TypeOK, queue # <<>>
    PROVE  /\ tasks_to_take \in 1..Len(queue)
           /\ tasks_to_take <= config.queue_batch_size
BY DEF TypeOK, BenchmarkConfig, tasks_to_take, Lesser

\* Merging and counting yield metrics again.
LEMMA MetricsFacts ==
    ASSUME NEW a \in WorkerMetrics, NEW m \in WorkerMetrics
    PROVE  /\ Merged(a, m) \in WorkerMetrics
           /\ Acquired(m) \in WorkerMetrics /\ Completed(m) \in WorkerMetrics
           /\ [m EXCEPT !.contended_lock_acquisitions = @ + 1] \in WorkerMetrics
           /\ Merged(a, m).tasks_completed = a.tasks_completed + m.tasks_completed
           /\ Merged(a, m).simulated_allocations
                = a.simulated_allocations + m.simulated_allocations
           /\ Merged(a, m).latencies = a.latencies + m.latencies
           /\ Merged(a, m).lock_acquisitions = a.lock_acquisitions + m.lock_acquisitions
           /\ Merged(a, m).contended_lock_acquisitions
                = a.contended_lock_acquisitions + m.contended_lock_acquisitions
<1>1. DOMAIN a = {"tasks_completed", "simulated_allocations", "latencies",
                  "lock_acquisitions", "contended_lock_acquisitions"}
  BY DEF WorkerMetrics
<1>2. /\ Acquired(m) \in WorkerMetrics /\ Completed(m) \in WorkerMetrics
      /\ [m EXCEPT !.contended_lock_acquisitions = @ + 1] \in WorkerMetrics
  <2>1. Acquired(m) \in WorkerMetrics
    BY DEF Acquired, WorkerMetrics
  <2>2. Completed(m) \in WorkerMetrics
    <3> DEFINE m1 == [m EXCEPT !.tasks_completed = @ + 1]
               m2 == [m1 EXCEPT !.simulated_allocations = @ + 1]
               m3 == [m2 EXCEPT !.latencies = @ + 1]
    <3>1. m1 \in WorkerMetrics
      BY DEF WorkerMetrics
    <3> HIDE DEF m1
    <3>2. m2 \in WorkerMetrics
      BY <3>1 DEF WorkerMetrics
    <3> HIDE DEF m2
    <3>3. m3 \in WorkerMetrics
      BY <3>2 DEF WorkerMetrics
    <3>4. Completed(m) = m3
      BY Zenon DEF Completed, m1, m2
    <3> QED BY <3>3, <3>4
  <2>3. [m EXCEPT !.contended_lock_acquisitions = @ + 1] \in WorkerMetrics
    BY DEF WorkerMetrics
  <2> QED BY <2>1, <2>2, <2>3
<1>3. Merged(a, m) = [tasks_completed |-> a.tasks_completed + m.tasks_completed,
        simulated_allocations |-> a.simulated_allocations + m.simulated_allocations,
        latencies |-> a.latencies + m.latencies,
        lock_acquisitions |-> a.lock_acquisitions + m.lock_acquisitions,
        contended_lock_acquisitions
          |-> a.contended_lock_acquisitions + m.contended_lock_acquisitions]
  BY <1>1 DEF Merged, WorkerMetrics
<1>4. Merged(a, m) \in WorkerMetrics
  BY <1>3 DEF WorkerMetrics
<1> QED BY <1>2, <1>3, <1>4

\* The initial state satisfies the control invariant.
LEMMA InitControl == Init => Control
<1> SUFFICES ASSUME Init PROVE Control
  OBVIOUS
<1>1. config \in BenchmarkConfig
  BY PerfEngineConstants DEF Init
<1>2. NumItems \in Nat
  BY <1>1, NumItemsType DEF NumItems, BenchmarkConfig
<1>3. TypeOK
  <2>1. NoMetrics \in WorkerMetrics
    BY DEF NoMetrics, WorkerMetrics
  <2>2. queue \in Seq(Items) /\ task_batch \in [Workers -> Seq(Items)]
    BY DEF Init
  <2>3. pc \in [Workers -> WorkerPoints] /\ main \in MainPoints
    BY DEF Init, MainPoints, WorkerPoints
  <2>4. local_metrics \in [Workers -> WorkerMetrics] /\ aggregate_metrics \in WorkerMetrics
    BY <2>1 DEF Init
  <2>5. producer_finished \in BOOLEAN /\ checksum \subseteq Items
    BY DEF Init
  <2>6. queue_mutex \in Workers \cup {"main", "free"} /\ next_item \in 1..(NumItems + 1)
    BY <1>2 DEF Init
  <2> QED BY <1>1, <2>2, <2>3, <2>4, <2>5, <2>6 DEF TypeOK
<1>4. MutexInv /\ StageInv
  BY PerfEngineConstants DEF Init, MutexInv, StageInv
<1> QED BY <1>3, <1>4 DEF Control

\* The number of items, in a typed state.
LEMMA NumItemsNat == ASSUME TypeOK PROVE NumItems \in Nat
BY NumItemsType DEF TypeOK, NumItems, BenchmarkConfig

\* Every step keeps the declared types.
LEMMA StepType ==
    ASSUME Control, [Next]_vars
    PROVE  TypeOK'
<1>1. TypeOK /\ StageInv /\ NumItems \in Nat
  BY NumItemsNat DEF Control
<1>2. ASSUME config' = config  PROVE NumItems' = NumItems /\ Items' = Items
  BY <1>2, ItemsConstant
<1>3. ASSUME MainLock \/ MainWait \/ MainClose \/ MainReturn \/ MainSpurious
      PROVE  TypeOK'
  BY <1>1, <1>2, <1>3 DEF MainLock, MainWait, MainClose, MainReturn, MainSpurious,
       TypeOK, MainPoints, shared, workerVars
<1>4. ASSUME MainPush  PROVE TypeOK'
  <2>1. pc' \in [Workers -> WorkerPoints]
    BY <1>1, <1>4, NotifyFacts DEF MainPush, TypeOK
  <2>2. next_item \in Items /\ next_item' \in 1..(NumItems + 1)
    BY <1>1, <1>4 DEF MainPush, TypeOK, StageInv, MoreItems, Items
  <2>3. queue' \in Seq(Items)
    BY <1>1, <1>4, <2>2 DEF MainPush, TypeOK
  <2> QED BY <1>1, <1>2, <1>4, <2>1, <2>2, <2>3 DEF MainPush, TypeOK, MainPoints
<1>5. ASSUME MainNotifyAll  PROVE TypeOK'
  BY <1>1, <1>2, <1>5 DEF MainNotifyAll, TypeOK, MainPoints, WorkerPoints, shared
<1>6. ASSUME NEW w \in Workers, TryLock(w) \/ TryLockFails(w) \/ Lock(w)
      PROVE  TypeOK'
  <2>1. local_metrics' \in [Workers -> WorkerMetrics]
    <3>1. local_metrics[w] \in WorkerMetrics
      BY <1>1 DEF TypeOK
    <3>2. /\ Acquired(local_metrics[w]) \in WorkerMetrics
          /\ [local_metrics[w] EXCEPT !.contended_lock_acquisitions = @ + 1] \in WorkerMetrics
      BY <3>1, MetricsFacts
    <3>3. \/ local_metrics' = [local_metrics EXCEPT ![w] = Acquired(local_metrics[w])]
          \/ local_metrics' = [local_metrics EXCEPT ![w] =
               [local_metrics[w] EXCEPT !.contended_lock_acquisitions = @ + 1]]
      BY <1>6 DEF TryLock, TryLockFails, Lock
    <3> QED BY <1>1, <3>2, <3>3 DEF TypeOK
  <2> QED
    BY <1>1, <1>2, <1>6, <2>1
    DEF TryLock, TryLockFails, Lock, TypeOK, WorkerPoints, shared, mainVars
<1>7. ASSUME NEW w \in Workers,
             Relock(w) \/ SpuriousWake(w) \/ Wait(w) \/ Leave(w) \/ BatchDone(w)
      PROVE  TypeOK'
  BY <1>1, <1>2, <1>7
  DEF Relock, SpuriousWake, Wait, Leave, BatchDone, TypeOK, WorkerPoints, shared, mainVars
<1>8. ASSUME NEW w \in Workers, TakeBatch(w)  PROVE TypeOK'
  <2>1. SubSeq(queue, 1, tasks_to_take) \in Seq(Items) /\ Rest \in Seq(Items)
    <3>1. tasks_to_take \in 1..Len(queue) /\ queue \in Seq(Items)
      BY <1>1, <1>8, TakeFacts DEF TakeBatch, TypeOK
    <3> QED BY <3>1, SplitFacts DEF Rest
  <2>2. main' \in MainPoints
    BY <1>1, <1>8 DEF TakeBatch, NotifyNotFull, TypeOK, MainPoints
  <2> QED BY <1>1, <1>2, <1>8, <2>1, <2>2 DEF TakeBatch, TypeOK, WorkerPoints
<1>9. ASSUME NEW w \in Workers, Process(w)  PROVE TypeOK'
  <2>1. Head(task_batch[w]) \in Items /\ Tail(task_batch[w]) \in Seq(Items)
    BY <1>1, <1>9 DEF Process, TypeOK
  <2>2. checksum' \subseteq Items
    BY <1>1, <1>9, <2>1 DEF Process, Xor, TypeOK
  <2>3. local_metrics' \in [Workers -> WorkerMetrics]
    BY <1>1, <1>9, MetricsFacts DEF Process, TypeOK
  <2> QED BY <1>1, <1>2, <1>9, <2>1, <2>2, <2>3 DEF Process, TypeOK, mainVars
<1>10. ASSUME NEW w \in Workers, Merge(w)  PROVE TypeOK'
  <2>1. aggregate_metrics' \in WorkerMetrics
    BY <1>1, <1>10, MetricsFacts DEF Merge, TypeOK
  <2> QED BY <1>1, <1>2, <1>10, <2>1 DEF Merge, TypeOK, WorkerPoints, shared, mainVars
<1>11. ASSUME UNCHANGED vars  PROVE TypeOK'
  BY <1>1, <1>2, <1>11 DEF vars, shared, mainVars, workerVars, TypeOK
<1> QED
  BY <1>3, <1>4, <1>5, <1>6, <1>7, <1>8, <1>9, <1>10, <1>11
  DEF Next, MainNext, WorkerNext, Terminated

\* Every step keeps the mutex with the thread in a critical section.
LEMMA StepMutex ==
    ASSUME Control, [Next]_vars
    PROVE  MutexInv'
<1>1. TypeOK /\ MutexInv /\ pc \in [Workers -> WorkerPoints]
  BY DEF Control, TypeOK
<1>2. ASSUME MainLock \/ MainWait \/ MainClose \/ MainReturn \/ MainSpurious
      PROVE  MutexInv'
  BY <1>1, <1>2, PerfEngineConstants
  DEF MainLock, MainWait, MainClose, MainReturn, MainSpurious, MutexInv, shared, workerVars
<1>3. ASSUME MainPush  PROVE MutexInv'
  <2>1. \A w \in Workers : pc'[w] = pc[w] \/ (pc[w] = "wait" /\ pc'[w] = "woken")
    BY <1>1, <1>3, NotifyFacts DEF MainPush
  <2> QED BY <1>1, <1>3, <2>1, PerfEngineConstants DEF MainPush, MutexInv
<1>4. ASSUME MainNotifyAll  PROVE MutexInv'
  BY <1>1, <1>4 DEF MainNotifyAll, MutexInv, Waiting, shared
<1>5. ASSUME NEW w \in Workers, TryLock(w) \/ Lock(w) \/ Relock(w)
      PROVE  MutexInv'
  BY <1>1, <1>5, PerfEngineConstants DEF TryLock, Lock, Relock, MutexInv, mainVars
<1>6. ASSUME NEW w \in Workers, TryLockFails(w) \/ SpuriousWake(w) \/ BatchDone(w) \/ Merge(w)
      PROVE  MutexInv'
  BY <1>1, <1>6 DEF TryLockFails, SpuriousWake, BatchDone, Merge, MutexInv, shared, mainVars
<1>7. ASSUME NEW w \in Workers, Wait(w) \/ Leave(w) \/ TakeBatch(w)
      PROVE  MutexInv'
  BY <1>1, <1>7, PerfEngineConstants
  DEF Wait, Leave, TakeBatch, NotifyNotFull, MutexInv, mainVars
<1>8. ASSUME NEW w \in Workers, Process(w)  PROVE MutexInv'
  BY <1>1, <1>8 DEF Process, MutexInv, mainVars
<1>9. ASSUME UNCHANGED vars  PROVE MutexInv'
  BY <1>1, <1>9 DEF vars, shared, mainVars, workerVars, MutexInv
<1> QED
  BY <1>2, <1>3, <1>4, <1>5, <1>6, <1>7, <1>8, <1>9
  DEF Next, MainNext, WorkerNext, Terminated

\* Every step keeps the relation between the stages of the main thread and
\* those of the workers.
LEMMA StepStage ==
    ASSUME Control, [Next]_vars
    PROVE  StageInv'
<1>1. /\ TypeOK /\ MutexInv /\ StageInv /\ NumItems \in Nat
      /\ pc \in [Workers -> WorkerPoints] /\ next_item \in 1..(NumItems + 1)
      /\ task_batch \in [Workers -> Seq(Items)]
  BY NumItemsNat DEF Control, TypeOK
<1>2. ASSUME config' = config  PROVE NumItems' = NumItems
  BY <1>2, ItemsConstant
<1>3. ASSUME MainLock \/ MainWait \/ MainClose \/ MainReturn \/ MainSpurious
      PROVE  StageInv'
  BY <1>1, <1>2, <1>3 DEF MainLock, MainWait, MainClose, MainReturn, MainSpurious,
       StageInv, MoreItems, shared, workerVars
<1>4. ASSUME MainPush  PROVE StageInv'
  <2>1. \A w \in Workers : pc'[w] = pc[w] \/ (pc[w] = "wait" /\ pc'[w] = "woken")
    BY <1>1, <1>4, NotifyFacts DEF MainPush
  <2>2. ~producer_finished /\ main = "check"
    BY <1>1, <1>4 DEF MainPush, StageInv
  <2>3. ASSUME NEW w \in Workers
        PROVE  /\ pc'[w] # "process" => task_batch'[w] = <<>>
               /\ pc'[w] \notin {"merge", "done"}
    BY <1>1, <1>4, <2>1, <2>2 DEF MainPush, StageInv
  <2> QED BY <1>1, <1>2, <1>4, <2>2, <2>3 DEF MainPush, StageInv
<1>5. ASSUME MainNotifyAll  PROVE StageInv'
  BY <1>1, <1>2, <1>5 DEF MainNotifyAll, StageInv, MoreItems, Waiting, shared
<1>6. ASSUME NEW w \in Workers,
             TryLock(w) \/ TryLockFails(w) \/ Lock(w) \/ Relock(w) \/ SpuriousWake(w) \/ Wait(w)
      PROVE  StageInv'
  BY <1>1, <1>2, <1>6 DEF TryLock, TryLockFails, Lock, Relock, SpuriousWake, Wait,
       StageInv, MoreItems, shared, mainVars
<1>7. ASSUME NEW w \in Workers, Leave(w) \/ BatchDone(w) \/ Merge(w)
      PROVE  StageInv'
  BY <1>1, <1>2, <1>7 DEF Leave, BatchDone, Merge, StageInv, MoreItems, shared, mainVars
<1>8. ASSUME NEW w \in Workers, TakeBatch(w)  PROVE StageInv'
  <2>1. \A v \in Workers : pc[v] \notin {"merge", "done"} /\ main # "returned"
    BY <1>1, <1>8 DEF TakeBatch, StageInv
  <2>2. main' = main \/ (main = "wait" /\ main' = "woken")
    BY <1>8 DEF TakeBatch, NotifyNotFull
  <2> QED BY <1>1, <1>2, <1>8, <2>1, <2>2 DEF TakeBatch, StageInv, MoreItems
<1>9. ASSUME NEW w \in Workers, Process(w)  PROVE StageInv'
  BY <1>1, <1>2, <1>9 DEF Process, StageInv, MoreItems, mainVars
<1>10. ASSUME UNCHANGED vars  PROVE StageInv'
  BY <1>1, <1>2, <1>10 DEF vars, shared, mainVars, workerVars, StageInv, MoreItems
<1> QED
  BY <1>3, <1>4, <1>5, <1>6, <1>7, <1>8, <1>9, <1>10
  DEF Next, MainNext, WorkerNext, Terminated

\* The control invariant holds in every reachable state.
LEMMA ControlHolds == Spec => []Control
<1>1. Control /\ [Next]_vars => Control'
  BY StepType, StepMutex, StepStage DEF Control
<1> QED BY InitControl, <1>1, PTL DEF Spec

\* The variables of run_multithreaded keep their types; in particular the
\* deque and the batches hold nothing but indices of work_items.  queue_mutex
\* names exactly the thread that is between lock and unlock, so no two are.
THEOREM EngineTypes == Spec => [](TypeOK /\ MutexInv)
BY ControlHolds, PTL DEF Control
-----------------------------------------------------------------------------
(* Wakeups.                                                                *)

\* The initial state loses no wakeup.
LEMMA InitWakeup == Init => NoLostWakeup
BY PerfEngineConstants DEF Init, NoLostWakeup, BenchmarkConfig

\* Every step leaves somebody awake for what is queued.
LEMMA StepWakeup ==
    ASSUME Control, NoLostWakeup, [Next]_vars
    PROVE  NoLostWakeup'
<1>1. /\ MutexInv /\ StageInv /\ pc \in [Workers -> WorkerPoints]
      /\ queue \in Seq(Items) /\ Len(queue) \in Nat /\ config.queue_capacity \in Nat
  BY DEF Control, TypeOK, BenchmarkConfig
<1>2. ASSUME MainLock \/ MainWait \/ MainClose \/ MainReturn \/ MainSpurious
      PROVE  NoLostWakeup'
  BY <1>1, <1>2 DEF MainLock, MainWait, MainClose, MainReturn, MainSpurious, HasRoom,
       NoLostWakeup, shared, workerVars
<1>3. ASSUME MainPush  PROVE NoLostWakeup'
  <2>1. \E w \in Workers : pc'[w] # "wait"
    BY <1>1, <1>3, NotifyFacts DEF MainPush
  <2>2. Len(queue') <= config'.queue_capacity
    BY <1>1, <1>3 DEF MainPush, HasRoom
  <2> QED BY <1>3, <2>1, <2>2 DEF MainPush, NoLostWakeup
<1>4. ASSUME MainNotifyAll  PROVE NoLostWakeup'
  BY <1>1, <1>4, PerfEngineConstants DEF MainNotifyAll, NoLostWakeup, Waiting, shared
<1>5. ASSUME NEW w \in Workers,
             TryLock(w) \/ TryLockFails(w) \/ Lock(w) \/ Relock(w) \/ SpuriousWake(w)
      PROVE  NoLostWakeup'
  BY <1>1, <1>5 DEF TryLock, TryLockFails, Lock, Relock, SpuriousWake,
       NoLostWakeup, shared, mainVars
<1>6. ASSUME NEW w \in Workers, Leave(w) \/ BatchDone(w) \/ Merge(w)
      PROVE  NoLostWakeup'
  BY <1>1, <1>6 DEF Leave, BatchDone, Merge, NoLostWakeup, shared, mainVars
<1>7. ASSUME NEW w \in Workers, Wait(w)  PROVE NoLostWakeup'
  BY <1>1, <1>7 DEF Wait, NoLostWakeup, StageInv, mainVars
<1>8. ASSUME NEW w \in Workers, TakeBatch(w)  PROVE NoLostWakeup'
  <2>1. tasks_to_take \in 1..Len(queue)
    BY <1>8, TakeFacts DEF TakeBatch, Control
  <2>2. Len(queue') < Len(queue) /\ Len(queue') \in Nat
    <3>1. Len(Rest) = Len(queue) - tasks_to_take
      BY <1>1, <2>1, SplitFacts DEF Rest
    <3> QED BY <1>1, <1>8, <2>1, <3>1 DEF TakeBatch
  <2> QED BY <1>1, <1>8, <2>2 DEF TakeBatch, NotifyNotFull, NoLostWakeup
<1>9. ASSUME NEW w \in Workers, Process(w)  PROVE NoLostWakeup'
  BY <1>1, <1>9 DEF Process, NoLostWakeup, mainVars
<1>10. ASSUME UNCHANGED vars  PROVE NoLostWakeup'
  BY <1>10 DEF vars, shared, mainVars, workerVars, NoLostWakeup
<1> QED
  BY <1>2, <1>3, <1>4, <1>5, <1>6, <1>7, <1>8, <1>9, <1>10
  DEF Next, MainNext, WorkerNext, Terminated

\* For any number of workers, capacity and batch size: the producer sleeps only
\* while the deque is full, queued items have a worker awake, and after the
\* unlocked notify_all nobody is asleep.
THEOREM EngineWakeups == Spec => []NoLostWakeup
<1>1. Control /\ NoLostWakeup /\ [Next]_vars => NoLostWakeup'
  BY StepWakeup
<1> QED BY InitWakeup, ControlHolds, <1>1, PTL DEF Spec
-----------------------------------------------------------------------------
(* Every item in exactly one place.                                        *)

\* The steps that neither push, take nor process leave every item where it is.
LEMMA ItemsMove ==
    ASSUME [Next]_vars
    PROVE  \/ UNCHANGED <<queue, task_batch, checksum, next_item>>
           \/ MainPush
           \/ \E w \in Workers : TakeBatch(w) \/ Process(w)
BY DEF Next, MainNext, WorkerNext, Terminated, vars, shared, mainVars, workerVars,
     MainLock, MainWait, MainClose, MainNotifyAll, MainReturn, MainSpurious, TryLock,
     TryLockFails, Lock, Relock, SpuriousWake, Wait, Leave, BatchDone, Merge

\* The initial state has every item in one place.
LEMMA InitOnce == Init => ExactlyOnce
<1> SUFFICES ASSUME Init PROVE ExactlyOnce
  OBVIOUS
<1>1. Range(<<>>) = {} /\ IsInjective(<<>>)
  BY DEF Range, IsInjective
<1>2. queue = <<>> /\ (\A w \in Workers : task_batch[w] = <<>>) /\ checksum = {}
  BY DEF Init
<1>3. Batched = {}
  BY <1>1, <1>2 DEF Batched
<1>4. 1..(next_item - 1) = {}
  BY DEF Init
<1> QED BY <1>1, <1>2, <1>3, <1>4 DEF ExactlyOnce

\* A push puts a new item into the deque.
LEMMA PushOnce ==
    ASSUME Control, ExactlyOnce, MainPush
    PROVE  ExactlyOnce'
<1>1. /\ queue \in Seq(Items) /\ next_item \in Nat \ {0} /\ next_item \in Items
  BY NumItemsNat DEF Control, TypeOK, StageInv, MoreItems, MainPush, Items
<1>2. UNCHANGED <<task_batch, checksum>> /\ Batched' = Batched
  BY DEF MainPush, Batched
<1>3. next_item \notin 1..(next_item - 1)
  BY <1>1
<1>4. next_item \notin Range(queue) \cup Batched \cup checksum
  BY <1>3, Zenon DEF ExactlyOnce
<1>5. /\ Range(queue') = Range(queue) \cup {next_item}
      /\ IsInjective(queue')
  BY <1>1, <1>4, PushFacts DEF MainPush, ExactlyOnce
<1>6. 1..(next_item' - 1) = (1..(next_item - 1)) \cup {next_item}
  BY <1>1 DEF MainPush
<1>7. Range(queue') \cup Batched' \cup checksum' = 1..(next_item' - 1)
  BY <1>2, <1>5, <1>6, Zenon DEF ExactlyOnce
<1>8. Range(queue') \cap Batched' = {} /\ Range(queue') \cap checksum' = {}
  BY <1>2, <1>4, <1>5 DEF ExactlyOnce
<1> QED BY <1>2, <1>5, <1>7, <1>8 DEF ExactlyOnce

\* A worker without a batch takes the items at the front of the deque.
LEMMA TakeOnce ==
    ASSUME Control, ExactlyOnce, NEW w \in Workers, TakeBatch(w)
    PROVE  ExactlyOnce'
<1> DEFINE b == SubSeq(queue, 1, tasks_to_take)
<1>1. /\ queue \in Seq(Items) /\ task_batch \in [Workers -> Seq(Items)]
      /\ tasks_to_take \in 1..Len(queue)
  BY TakeFacts DEF Control, TypeOK, TakeBatch
<1>2. /\ Range(queue) = Range(b) \cup Range(Rest)
      /\ IsInjective(b) /\ IsInjective(Rest) /\ Range(b) \cap Range(Rest) = {}
  BY <1>1, SplitFacts DEF Rest, ExactlyOnce
<1>3. /\ queue' = Rest /\ task_batch' = [task_batch EXCEPT ![w] = b]
      /\ UNCHANGED <<checksum, next_item>>
  BY DEF TakeBatch
<1> HIDE DEF b
<1>4. task_batch[w] = <<>> /\ Range(task_batch[w]) = {}
  BY DEF Control, StageInv, TakeBatch, Range
<1>5. task_batch'[w] = b /\ \A v \in Workers \ {w} : task_batch'[v] = task_batch[v]
  BY <1>1, <1>3
<1>6. Batched' = Batched \cup Range(b)
  <2>1. ASSUME NEW e \in Batched'  PROVE e \in Batched \cup Range(b)
    BY <1>5 DEF Batched
  <2>2. ASSUME NEW e \in Batched  PROVE e \in Batched'
    BY <1>4, <1>5 DEF Batched
  <2>3. Range(b) \subseteq Batched'
    BY <1>5 DEF Batched
  <2> QED BY <2>1, <2>2, <2>3
<1>7. Range(queue') \cup Batched' \cup checksum' = 1..(next_item' - 1)
  BY <1>2, <1>3, <1>6 DEF ExactlyOnce
<1>8. /\ Range(queue') \cap Batched' = {} /\ Range(queue') \cap checksum' = {}
      /\ Batched' \cap checksum' = {}
  BY <1>2, <1>3, <1>6 DEF ExactlyOnce
<1>9. \A v \in Workers : IsInjective(task_batch'[v])
  BY <1>2, <1>5 DEF ExactlyOnce
<1>10. ASSUME NEW v \in Workers, v # w
       PROVE  Range(task_batch[v]) \cap Range(b) = {}
  <2>1. Range(task_batch[v]) \subseteq Batched
    BY DEF Batched
  <2> QED BY <1>2, <2>1 DEF ExactlyOnce
<1>11. \A u, v \in Workers :
          u # v => Range(task_batch'[u]) \cap Range(task_batch'[v]) = {}
  BY <1>5, <1>10 DEF ExactlyOnce
<1>12. IsInjective(queue')
  BY <1>2, <1>3
<1> QED BY <1>7, <1>8, <1>9, <1>11, <1>12 DEF ExactlyOnce

\* A worker XORs the first item of its batch into the checksum for the first
\* time, and forgets it.
LEMMA ProcessMoves ==
    ASSUME Control, ExactlyOnce, NEW w \in Workers, Process(w)
    PROVE  LET h == Head(task_batch[w]) IN
           /\ h \in Range(task_batch[w]) /\ h \notin checksum
           /\ checksum' = checksum \cup {h}
           /\ Range(task_batch'[w]) = Range(task_batch[w]) \ {h}
           /\ IsInjective(task_batch'[w])
           /\ \A v \in Workers \ {w} : task_batch'[v] = task_batch[v]
           /\ UNCHANGED <<queue, next_item>>
<1> DEFINE h == Head(task_batch[w])
<1>1. /\ task_batch \in [Workers -> Seq(Items)] /\ task_batch[w] \in Seq(Items)
      /\ task_batch[w] # <<>> /\ IsInjective(task_batch[w])
  BY DEF Control, TypeOK, Process, ExactlyOnce
<1>2. /\ h \in Range(task_batch[w]) /\ IsInjective(Tail(task_batch[w]))
      /\ Range(Tail(task_batch[w])) = Range(task_batch[w]) \ {h}
  BY <1>1, PopFacts
<1>3. h \in Batched
  BY <1>2, Zenon DEF Batched
<1>4. h \notin checksum
  BY <1>3 DEF ExactlyOnce
<1>5. checksum' = checksum \cup {h}
  BY <1>4 DEF Process, Xor
<1>6. /\ task_batch'[w] = Tail(task_batch[w])
      /\ \A v \in Workers \ {w} : task_batch'[v] = task_batch[v]
      /\ UNCHANGED <<queue, next_item>>
  BY <1>1 DEF Process, mainVars
<1> QED BY <1>2, <1>4, <1>5, <1>6

\* Processing keeps every item in one place.
LEMMA ProcessOnce ==
    ASSUME Control, ExactlyOnce, NEW w \in Workers, Process(w)
    PROVE  ExactlyOnce'
<1>1. PICK h :
        /\ h \in Range(task_batch[w]) /\ checksum' = checksum \cup {h}
        /\ Range(task_batch'[w]) = Range(task_batch[w]) \ {h}
        /\ IsInjective(task_batch'[w])
        /\ \A v \in Workers \ {w} : task_batch'[v] = task_batch[v]
        /\ UNCHANGED <<queue, next_item>>
  BY ProcessMoves, Zenon
<1>2. h \in Batched
  BY <1>1 DEF Batched
<1>3. ASSUME NEW v \in Workers, v # w
      PROVE  h \notin Range(task_batch[v])
  BY <1>1, <1>3 DEF ExactlyOnce
<1>4. Batched' = Batched \ {h}
  <2>1. ASSUME NEW e \in Batched'  PROVE e \in Batched \ {h}
    BY <1>1, <1>3 DEF Batched
  <2>2. ASSUME NEW e \in Batched, e # h  PROVE e \in Batched'
    BY <1>1, <2>2 DEF Batched
  <2> QED BY <2>1, <2>2
<1>5. Range(queue') \cup Batched' \cup checksum' = 1..(next_item' - 1)
  BY <1>1, <1>2, <1>4 DEF ExactlyOnce
<1>6. /\ Range(queue') \cap Batched' = {} /\ Range(queue') \cap checksum' = {}
      /\ Batched' \cap checksum' = {}
  BY <1>1, <1>2, <1>4 DEF ExactlyOnce
<1>7. IsInjective(queue') /\ \A v \in Workers : IsInjective(task_batch'[v])
  BY <1>1 DEF ExactlyOnce
<1>8. \A u, v \in Workers :
         u # v => Range(task_batch'[u]) \cap Range(task_batch'[v]) = {}
  BY <1>1 DEF ExactlyOnce
<1> QED BY <1>5, <1>6, <1>7, <1>8 DEF ExactlyOnce

\* Every step keeps every item in one place.
LEMMA StepOnce ==
    ASSUME Control, ExactlyOnce, [Next]_vars
    PROVE  ExactlyOnce'
<1>1. CASE UNCHANGED <<queue, task_batch, checksum, next_item>>
  <2>1. /\ queue' = queue /\ task_batch' = task_batch
        /\ checksum' = checksum /\ next_item' = next_item
    BY <1>1
  <2>2. Batched' = Batched
    BY <2>1 DEF Batched
  <2> QED BY <2>1, <2>2 DEF ExactlyOnce
<1> QED BY <1>1, ItemsMove, PushOnce, TakeOnce, ProcessOnce

\* The control invariant and the place of every item, together.
LEMMA OnceHolds == Spec => [](Control /\ ExactlyOnce)
<1>1. Control /\ ExactlyOnce /\ [Next]_vars => ExactlyOnce'
  BY StepOnce
<1> QED BY InitOnce, ControlHolds, <1>1, PTL DEF Spec

\* Whatever the schedule, the number of workers and the batch size, no item is
\* lost, and none is given to two workers or XORed into the checksum twice.
THEOREM EngineExactlyOnce == Spec => []ExactlyOnce
BY OnceHolds, PTL
-----------------------------------------------------------------------------
(* The counters.                                                           *)

\* What each way of counting does to the fields.
LEMMA FieldFacts ==
    ASSUME NEW m \in WorkerMetrics
    PROVE  /\ Acquired(m).lock_acquisitions = m.lock_acquisitions + 1
           /\ Acquired(m).contended_lock_acquisitions = m.contended_lock_acquisitions
           /\ Acquired(m).tasks_completed = m.tasks_completed
           /\ Even(m) => Even(Acquired(m)) /\ Even(Completed(m))
           /\ Even(m) => Even([m EXCEPT !.contended_lock_acquisitions = @ + 1])
           /\ Completed(m).tasks_completed = m.tasks_completed + 1
           /\ Completed(m).lock_acquisitions = m.lock_acquisitions
           /\ Completed(m).contended_lock_acquisitions = m.contended_lock_acquisitions
<1>1. /\ Acquired(m).lock_acquisitions = m.lock_acquisitions + 1
      /\ Acquired(m).contended_lock_acquisitions = m.contended_lock_acquisitions
      /\ Acquired(m).tasks_completed = m.tasks_completed
      /\ Even(m) => Even(Acquired(m))
  BY DEF Acquired, WorkerMetrics, Even
<1>2. Even(m) => Even([m EXCEPT !.contended_lock_acquisitions = @ + 1])
  BY DEF WorkerMetrics, Even
<1>3. /\ Completed(m).tasks_completed = m.tasks_completed + 1
      /\ Completed(m).lock_acquisitions = m.lock_acquisitions
      /\ Completed(m).contended_lock_acquisitions = m.contended_lock_acquisitions
      /\ Even(m) => Even(Completed(m))
  BY DEF Completed, WorkerMetrics, Even
<1> QED BY <1>1, <1>2, <1>3

\* The local counters are numbers.
LEMMA CountersType ==
    ASSUME TypeOK
    PROVE  /\ Completions \in [Workers -> Nat] /\ Acquisitions \in [Workers -> Nat]
           /\ \A w \in Workers : /\ local_metrics[w] \in WorkerMetrics
                                 /\ Completions[w] = local_metrics[w].tasks_completed
                                 /\ Acquisitions[w] = local_metrics[w].lock_acquisitions
           /\ aggregate_metrics.tasks_completed \in Nat
           /\ aggregate_metrics.lock_acquisitions \in Nat
           /\ aggregate_metrics.contended_lock_acquisitions \in Nat
           /\ \A w \in Workers : /\ local_metrics[w].tasks_completed \in Nat
                                 /\ local_metrics[w].lock_acquisitions \in Nat
                                 /\ local_metrics[w].contended_lock_acquisitions \in Nat
BY DEF TypeOK, Completions, Acquisitions, WorkerMetrics

\* Which counter, and whose, a step may change.
LEMMA CountersMove ==
    ASSUME TypeOK, [Next]_vars
    PROVE  \/ /\ UNCHANGED <<aggregate_metrics, local_metrics>> /\ Unmerged' = Unmerged
              /\ UNCHANGED checksum
           \/ \E w \in Workers : TryLock(w) \/ Lock(w) \/ TryLockFails(w) \/ Process(w) \/ Merge(w)
<1> USE DEF Unmerged, shared, workerVars, mainVars
<1>1. ASSUME MainLock \/ MainWait \/ MainClose \/ MainReturn \/ MainSpurious
      PROVE  UNCHANGED <<aggregate_metrics, local_metrics, checksum>> /\ Unmerged' = Unmerged
  BY <1>1 DEF MainLock, MainWait, MainClose, MainReturn, MainSpurious
<1>2. ASSUME MainPush
      PROVE  UNCHANGED <<aggregate_metrics, local_metrics, checksum>> /\ Unmerged' = Unmerged
  <2>1. \A w \in Workers : pc'[w] = pc[w] \/ (pc[w] = "wait" /\ pc'[w] = "woken")
    BY <1>2, NotifyFacts DEF MainPush, TypeOK
  <2> QED BY <1>2, <2>1 DEF MainPush
<1>3. ASSUME MainNotifyAll
      PROVE  UNCHANGED <<aggregate_metrics, local_metrics, checksum>> /\ Unmerged' = Unmerged
  BY <1>3 DEF MainNotifyAll, Waiting
<1>4. ASSUME NEW w \in Workers, Relock(w) \/ SpuriousWake(w) \/ Wait(w) \/ Leave(w)
                                \/ TakeBatch(w) \/ BatchDone(w)
      PROVE  UNCHANGED <<aggregate_metrics, local_metrics, checksum>> /\ Unmerged' = Unmerged
  BY <1>4 DEF Relock, SpuriousWake, Wait, Leave, TakeBatch, BatchDone, TypeOK
<1>5. ASSUME UNCHANGED vars
      PROVE  UNCHANGED <<aggregate_metrics, local_metrics, checksum>> /\ Unmerged' = Unmerged
  BY <1>5 DEF vars
<1> QED
  BY <1>1, <1>2, <1>3, <1>4, <1>5 DEF Next, MainNext, WorkerNext, Terminated

\* Nothing has been counted in the initial state.
LEMMA InitCounts == Init => CountInv /\ BatchInv /\ ContentionInv
<1> SUFFICES ASSUME Init PROVE CountInv /\ BatchInv /\ ContentionInv
  OBVIOUS
<1>1. /\ Completions = [w \in Workers |-> 0] /\ Acquisitions = [w \in Workers |-> 0]
  BY DEF Init, Completions, Acquisitions, NoMetrics
<1>2. Units(Unmerged, Completions) = {} /\ Units(Unmerged, Acquisitions) = {}
  BY <1>1 DEF Units, Unmerged
<1>3. EmptyHanded = {}
  BY DEF Init, EmptyHanded
<1>4. IsFiniteSet({}) /\ Cardinality({}) = 0
  BY FS_EmptySet
<1>5. CountInv
  BY <1>2, <1>4 DEF Init, CountInv, NoMetrics, Even
<1>6. config.queue_batch_size \in Nat
  BY PerfEngineConstants DEF Init, BenchmarkConfig
<1>7. Batches = 0 /\ Popped = 0 /\ config.queue_batch_size * 0 = 0
  <2>1. Popped = 0
    <3>1. next_item = 1 /\ Len(queue) = 0
      BY DEF Init
    <3> QED BY <3>1 DEF Popped
  <2>2. Batches = 0
    <3>1. aggregate_metrics.lock_acquisitions = 0
      BY DEF Init, NoMetrics
    <3> QED BY <1>2, <1>3, <1>4, <3>1 DEF Batches
  <2> QED BY <1>6, <2>1, <2>2
<1>8. BatchInv
  BY <1>2, <1>4, <1>7 DEF BatchInv
<1>9. ContentionInv
  BY DEF Init, ContentionInv, NoMetrics
<1> QED BY <1>5, <1>8, <1>9

\* Every step counts what it does.
LEMMA StepCount ==
    ASSUME Control, ExactlyOnce, CountInv, [Next]_vars
    PROVE  CountInv'
<1>1. /\ TypeOK /\ Completions \in [Workers -> Nat] /\ Unmerged \subseteq Workers
      /\ local_metrics \in [Workers -> WorkerMetrics] /\ pc \in [Workers -> WorkerPoints]
      /\ aggregate_metrics \in WorkerMetrics
  BY CountersType DEF Control, TypeOK, Unmerged
<1>2. Cardinality(Units(Unmerged, Completions)) \in Nat /\ Cardinality(checksum) \in Nat
  BY FS_CardinalityType DEF CountInv
<1>3. CASE UNCHANGED <<aggregate_metrics, local_metrics, checksum>> /\ Unmerged' = Unmerged
  BY <1>3 DEF CountInv, Completions
<1>4. ASSUME NEW w \in Workers, TryLock(w) \/ Lock(w) \/ TryLockFails(w)
      PROVE  CountInv'
  <2>1. \/ local_metrics' = [local_metrics EXCEPT ![w] = Acquired(local_metrics[w])]
        \/ local_metrics' = [local_metrics EXCEPT ![w] =
             [local_metrics[w] EXCEPT !.contended_lock_acquisitions = @ + 1]]
    BY <1>4 DEF TryLock, TryLockFails, Lock
  <2>2. /\ UNCHANGED <<aggregate_metrics, checksum>> /\ Unmerged' = Unmerged
    BY <1>1, <1>4 DEF TryLock, Lock, TryLockFails, Unmerged, shared
  <2>3. \A v \in Workers : /\ Even(local_metrics'[v])
                           /\ local_metrics'[v].tasks_completed = local_metrics[v].tasks_completed
    <3>1. /\ local_metrics[w] \in WorkerMetrics
          /\ \A v \in Workers : Even(local_metrics[v])
      BY <1>1 DEF CountInv
    <3>2. /\ Acquired(local_metrics[w]).tasks_completed = local_metrics[w].tasks_completed
          /\ Even(Acquired(local_metrics[w]))
          /\ Even([local_metrics[w] EXCEPT !.contended_lock_acquisitions = @ + 1])
      BY <3>1, FieldFacts
    <3>3. [local_metrics[w] EXCEPT !.contended_lock_acquisitions = @ + 1].tasks_completed
            = local_metrics[w].tasks_completed
      BY <3>1 DEF WorkerMetrics
    <3> QED BY <1>1, <2>1, <3>1, <3>2, <3>3
  <2>4. Completions' = Completions
    BY <2>3 DEF Completions
  <2> QED BY <2>2, <2>3, <2>4 DEF CountInv
<1>5. ASSUME NEW w \in Workers, Process(w)  PROVE CountInv'
  <2>1. /\ local_metrics' = [local_metrics EXCEPT ![w] = Completed(local_metrics[w])]
        /\ UNCHANGED <<aggregate_metrics, pc>> /\ w \in Unmerged /\ Unmerged' = Unmerged
    BY <1>5 DEF Process, Unmerged
  <2>2. PICK h : h \notin checksum /\ checksum' = checksum \cup {h}
    BY <1>5, ProcessMoves, Zenon
  <2>3. IsFiniteSet(checksum') /\ Cardinality(checksum') = Cardinality(checksum) + 1
    BY <2>2, FS_AddElement, Zenon DEF CountInv
  <2>4. /\ \A v \in Workers : Even(local_metrics'[v])
        /\ local_metrics'[w].tasks_completed = local_metrics[w].tasks_completed + 1
        /\ \A v \in Workers \ {w} : local_metrics'[v] = local_metrics[v]
    <3>1. local_metrics[w] \in WorkerMetrics /\ Even(local_metrics[w])
      BY <1>1 DEF CountInv
    <3>2. /\ Completed(local_metrics[w]).tasks_completed = local_metrics[w].tasks_completed + 1
          /\ Even(Completed(local_metrics[w]))
      BY <3>1, FieldFacts
    <3> QED BY <1>1, <2>1, <3>2 DEF CountInv
  <2>5. /\ Completions' \in [Workers -> Nat] /\ Completions'[w] = Completions[w] + 1
        /\ \A v \in Workers \ {w} : Completions'[v] = Completions[v]
    <3>1. Completions' \in [Workers -> Nat]
      BY StepType DEF TypeOK, Completions, WorkerMetrics
    <3> QED BY <2>4, <3>1 DEF Completions
  <2>6. /\ IsFiniteSet(Units(Unmerged, Completions'))
        /\ Cardinality(Units(Unmerged, Completions'))
             = Cardinality(Units(Unmerged, Completions)) + 1
    <3>1. w \in Unmerged /\ IsFiniteSet(Units(Unmerged, Completions))
      BY <2>1 DEF CountInv
    <3> QED BY <1>1, <2>5, <3>1, CountOne
  <2>7. aggregate_metrics.tasks_completed \in Nat
    BY <1>1, CountersType
  <2> QED BY <1>2, <2>1, <2>3, <2>4, <2>6, <2>7 DEF CountInv
<1>6. ASSUME NEW w \in Workers, Merge(w)  PROVE CountInv'
  <2>1. /\ aggregate_metrics' = Merged(aggregate_metrics, local_metrics[w])
        /\ UNCHANGED <<local_metrics, checksum>>
        /\ w \in Unmerged /\ Unmerged' = Unmerged \ {w}
    BY <1>1, <1>6 DEF Merge, Unmerged, shared
  <2>2. Completions' = Completions /\ Completions[w] = local_metrics[w].tasks_completed
    BY <2>1 DEF Completions
  <2>3. /\ IsFiniteSet(Units(Unmerged \ {w}, Completions))
        /\ Cardinality(Units(Unmerged \ {w}, Completions))
             = Cardinality(Units(Unmerged, Completions)) - Completions[w]
    BY <1>1, <2>1, CountOut DEF CountInv
  <2>4. /\ aggregate_metrics'.tasks_completed
             = aggregate_metrics.tasks_completed + Completions[w]
        /\ Even(aggregate_metrics')
    <3>1. local_metrics[w] \in WorkerMetrics
      BY <1>1
    <3>2. Even(local_metrics[w]) /\ Even(aggregate_metrics)
      BY DEF CountInv
    <3> DEFINE a == Merged(aggregate_metrics, local_metrics[w])
    <3>3. /\ a.tasks_completed = aggregate_metrics.tasks_completed + local_metrics[w].tasks_completed
          /\ a.simulated_allocations = aggregate_metrics.simulated_allocations
                                        + local_metrics[w].simulated_allocations
          /\ a.latencies = aggregate_metrics.latencies + local_metrics[w].latencies
      BY <1>1, <3>1, MetricsFacts
    <3> HIDE DEF a
    <3>4. a.tasks_completed = aggregate_metrics.tasks_completed + Completions[w] /\ Even(a)
      BY <2>2, <3>2, <3>3 DEF Even
    <3> QED BY <2>1, <3>4 DEF a
  <2>5. aggregate_metrics.tasks_completed \in Nat /\ Completions[w] \in Nat
    BY <1>1, CountersType
  <2> QED BY <1>2, <2>1, <2>2, <2>3, <2>4, <2>5 DEF CountInv
<1> QED BY <1>1, <1>3, <1>4, <1>5, <1>6, CountersMove

\* The steps that neither take the lock, remove a batch nor merge change none
\* of the numbers BatchInv is about.
LEMMA LocksMove ==
    ASSUME Control, [Next]_vars
    PROVE  \/ /\ EmptyHanded' = EmptyHanded /\ Unmerged' = Unmerged
              /\ Acquisitions' = Acquisitions
              /\ UNCHANGED <<aggregate_metrics, config>> /\ Popped' = Popped
           \/ \E w \in Workers : TryLock(w) \/ Lock(w) \/ TakeBatch(w) \/ Merge(w)
<1> DEFINE Same == /\ EmptyHanded' = EmptyHanded /\ Unmerged' = Unmerged
                   /\ Acquisitions' = Acquisitions
                   /\ UNCHANGED <<aggregate_metrics, config>> /\ Popped' = Popped
<1>1. /\ TypeOK /\ pc \in [Workers -> WorkerPoints] /\ queue \in Seq(Items)
      /\ Len(queue) \in Nat /\ next_item \in Nat
      /\ local_metrics \in [Workers -> WorkerMetrics]
  BY NumItemsNat DEF Control, TypeOK
<1> USE DEF Unmerged, EmptyHanded, Acquisitions, Popped, shared, workerVars, mainVars
<1>2. ASSUME MainLock \/ MainWait \/ MainClose \/ MainReturn \/ MainSpurious
      PROVE  Same
  BY <1>2 DEF MainLock, MainWait, MainClose, MainReturn, MainSpurious
<1>3. ASSUME MainPush  PROVE Same
  <2>1. \A w \in Workers : pc'[w] = pc[w] \/ (pc[w] = "wait" /\ pc'[w] = "woken")
    BY <1>1, <1>3, NotifyFacts DEF MainPush
  <2>2. EmptyHanded' = EmptyHanded /\ Unmerged' = Unmerged
    BY <2>1
  <2>3. Len(queue') = Len(queue) + 1 /\ next_item' = next_item + 1
    BY <1>1, <1>3 DEF MainPush
  <2>4. Popped' = Popped
    BY <1>1, <2>3
  <2> QED BY <1>3, <2>2, <2>4 DEF MainPush
<1>4. ASSUME MainNotifyAll  PROVE Same
  BY <1>4 DEF MainNotifyAll, Waiting
<1>5. ASSUME NEW w \in Workers, Relock(w) \/ SpuriousWake(w) \/ Wait(w) \/ Leave(w) \/ BatchDone(w)
      PROVE  Same
  BY <1>1, <1>5 DEF Relock, SpuriousWake, Wait, Leave, BatchDone
<1>6. ASSUME NEW w \in Workers, TryLockFails(w)  PROVE Same
  <2>1. /\ local_metrics' = [local_metrics EXCEPT ![w] =
             [local_metrics[w] EXCEPT !.contended_lock_acquisitions = @ + 1]]
        /\ local_metrics[w] \in WorkerMetrics
    BY <1>1, <1>6 DEF TryLockFails
  <2>2. \A v \in Workers : local_metrics'[v].lock_acquisitions = local_metrics[v].lock_acquisitions
    BY <1>1, <2>1 DEF WorkerMetrics
  <2> QED BY <1>1, <1>6, <2>2 DEF TryLockFails
<1>7. ASSUME NEW w \in Workers, Process(w)  PROVE Same
  <2>1. /\ local_metrics' = [local_metrics EXCEPT ![w] = Completed(local_metrics[w])]
        /\ local_metrics[w] \in WorkerMetrics
    BY <1>1, <1>7 DEF Process
  <2>2. \A v \in Workers : local_metrics'[v].lock_acquisitions = local_metrics[v].lock_acquisitions
    BY <1>1, <2>1, FieldFacts
  <2> QED BY <1>1, <1>7, <2>2 DEF Process
<1>8. ASSUME UNCHANGED vars  PROVE Same
  BY <1>8 DEF vars
<1> QED
  BY <1>2, <1>3, <1>4, <1>5, <1>6, <1>7, <1>8 DEF Next, MainNext, WorkerNext, Terminated

\* One more batch of at most s items keeps the bounds.
LEMMA OneMoreBatch ==
    ASSUME NEW s \in Nat, NEW b \in Nat, NEW p \in Int, NEW t \in Nat,
           b <= p, p <= s * b, 1 <= t, t <= s
    PROVE  b + 1 <= p + t /\ p + t <= s * (b + 1)
<1>1. s * (b + 1) = s * b + s
  OBVIOUS
<1>2. s * b \in Nat
  OBVIOUS
<1> QED BY <1>1, <1>2

\* Every step keeps the number of acquisitions within what the batches explain.
LEMMA StepBatches ==
    ASSUME Control, BatchInv, [Next]_vars
    PROVE  BatchInv'
<1>1. /\ TypeOK /\ Acquisitions \in [Workers -> Nat] /\ Unmerged \subseteq Workers
      /\ EmptyHanded \subseteq Workers
      /\ local_metrics \in [Workers -> WorkerMetrics] /\ pc \in [Workers -> WorkerPoints]
      /\ aggregate_metrics \in WorkerMetrics /\ aggregate_metrics.lock_acquisitions \in Nat
      /\ queue \in Seq(Items) /\ Len(queue) \in Nat /\ next_item \in Nat
      /\ config.queue_batch_size \in Nat
  <2>1. /\ TypeOK /\ queue \in Seq(Items) /\ next_item \in 1..(NumItems + 1)
        /\ local_metrics \in [Workers -> WorkerMetrics] /\ pc \in [Workers -> WorkerPoints]
        /\ aggregate_metrics \in WorkerMetrics /\ config \in BenchmarkConfig
    BY DEF Control, TypeOK
  <2>2. Len(queue) \in Nat /\ next_item \in Nat
    BY <2>1, NumItemsNat
  <2>3. config.queue_batch_size \in Nat
    BY <2>1 DEF BenchmarkConfig
  <2>4. Acquisitions \in [Workers -> Nat] /\ aggregate_metrics.lock_acquisitions \in Nat
    BY <2>1, CountersType
  <2>5. Unmerged \subseteq Workers /\ EmptyHanded \subseteq Workers
    BY DEF Unmerged, EmptyHanded
  <2> QED BY <2>1, <2>2, <2>3, <2>4, <2>5
<1>2. /\ IsFiniteSet(EmptyHanded) /\ Cardinality(EmptyHanded) \in Nat
  BY <1>1, PerfEngineConstants, FS_Subset, FS_CardinalityType
<1>3. /\ IsFiniteSet(Units(Unmerged, Acquisitions))
      /\ Cardinality(Units(Unmerged, Acquisitions)) \in Nat
  BY FS_CardinalityType DEF BatchInv
<1>4. CASE /\ EmptyHanded' = EmptyHanded /\ Unmerged' = Unmerged
           /\ Acquisitions' = Acquisitions
           /\ UNCHANGED <<aggregate_metrics, config>> /\ Popped' = Popped
  BY <1>4 DEF BatchInv, Batches
<1>5. ASSUME NEW w \in Workers, TryLock(w) \/ Lock(w)  PROVE BatchInv'
  <2>1. /\ local_metrics' = [local_metrics EXCEPT ![w] = Acquired(local_metrics[w])]
        /\ local_metrics[w] \in WorkerMetrics
        /\ UNCHANGED <<aggregate_metrics, config, queue, next_item>>
        /\ w \in Unmerged /\ Unmerged' = Unmerged
        /\ w \notin EmptyHanded /\ EmptyHanded' = EmptyHanded \cup {w}
    BY <1>1, <1>5 DEF TryLock, Lock, Unmerged, EmptyHanded, mainVars
  <2>2. /\ local_metrics'[w].lock_acquisitions = local_metrics[w].lock_acquisitions + 1
        /\ \A v \in Workers \ {w} : local_metrics'[v] = local_metrics[v]
    BY <1>1, <2>1, FieldFacts
  <2>3. /\ Acquisitions' \in [Workers -> Nat] /\ Acquisitions'[w] = Acquisitions[w] + 1
        /\ \A v \in Workers \ {w} : Acquisitions'[v] = Acquisitions[v]
    <3>1. Acquisitions' \in [Workers -> Nat]
      BY StepType DEF TypeOK, Acquisitions, WorkerMetrics
    <3> QED BY <2>2, <3>1 DEF Acquisitions
  <2>4. /\ IsFiniteSet(Units(Unmerged, Acquisitions'))
        /\ Cardinality(Units(Unmerged, Acquisitions'))
             = Cardinality(Units(Unmerged, Acquisitions)) + 1
    <3>1. w \in Unmerged /\ IsFiniteSet(Units(Unmerged, Acquisitions))
      BY <1>3, <2>1
    <3>2. Acquisitions \in [Workers -> Nat] /\ Unmerged \subseteq Workers
      BY <1>1
    <3> QED BY <2>3, <3>1, <3>2, CountOne
  <2>5. Cardinality(EmptyHanded') = Cardinality(EmptyHanded) + 1
    BY <1>2, <2>1, FS_AddElement, Zenon
  <2>6. Batches' = Batches /\ Popped' = Popped
    BY <1>1, <1>2, <1>3, <2>1, <2>4, <2>5 DEF Batches, Popped
  <2> QED BY <2>1, <2>4, <2>6 DEF BatchInv
<1>6. ASSUME NEW w \in Workers, TakeBatch(w)  PROVE BatchInv'
  <2>1. /\ UNCHANGED <<aggregate_metrics, local_metrics, config, next_item>>
        /\ Unmerged' = Unmerged /\ Acquisitions' = Acquisitions
        /\ w \in EmptyHanded /\ EmptyHanded' = EmptyHanded \ {w}
    BY <1>1, <1>6 DEF TakeBatch, Unmerged, EmptyHanded, Acquisitions
  <2>2. Cardinality(EmptyHanded') = Cardinality(EmptyHanded) - 1
    BY <1>2, <2>1, FS_RemoveElement, Zenon
  <2>3. Batches' = Batches + 1
    BY <1>1, <1>2, <1>3, <2>1, <2>2 DEF Batches
  <2>4. tasks_to_take \in 1..Len(queue) /\ tasks_to_take <= config.queue_batch_size
    BY <1>1, <1>6, TakeFacts DEF TakeBatch
  <2>5. Popped' = Popped + tasks_to_take /\ Popped \in Int
    <3>1. Len(Rest) = Len(queue) - tasks_to_take
      BY <1>1, <2>4, SplitFacts DEF Rest
    <3>2. Len(queue') = Len(queue) - tasks_to_take
      BY <1>6, <3>1 DEF TakeBatch
    <3> QED BY <1>1, <2>1, <2>4, <3>2 DEF Popped
  <2>6. /\ Batches + 1 <= Popped + tasks_to_take
        /\ Popped + tasks_to_take <= config.queue_batch_size * (Batches + 1)
    <3>1. /\ Batches \in Nat /\ Batches <= Popped
          /\ Popped <= config.queue_batch_size * Batches
      BY DEF BatchInv
    <3>2. /\ config.queue_batch_size \in Nat /\ tasks_to_take \in Nat
          /\ 1 <= tasks_to_take /\ tasks_to_take <= config.queue_batch_size
      BY <1>1, <2>4
    <3> QED BY <2>5, <3>1, <3>2, OneMoreBatch
  <2> QED BY <1>3, <2>1, <2>3, <2>5, <2>6 DEF BatchInv
<1>7. ASSUME NEW w \in Workers, Merge(w)  PROVE BatchInv'
  <2>1. /\ aggregate_metrics' = Merged(aggregate_metrics, local_metrics[w])
        /\ UNCHANGED <<local_metrics, config, queue, next_item>>
        /\ w \in Unmerged /\ Unmerged' = Unmerged \ {w}
        /\ EmptyHanded' = EmptyHanded
    BY <1>1, <1>7 DEF Merge, Unmerged, EmptyHanded, shared, mainVars
  <2>2. Acquisitions' = Acquisitions /\ Acquisitions[w] = local_metrics[w].lock_acquisitions
    BY <2>1 DEF Acquisitions
  <2>3. /\ IsFiniteSet(Units(Unmerged \ {w}, Acquisitions))
        /\ Cardinality(Units(Unmerged \ {w}, Acquisitions))
             = Cardinality(Units(Unmerged, Acquisitions)) - Acquisitions[w]
    BY <1>1, <1>3, <2>1, CountOut
  <2>4. aggregate_metrics'.lock_acquisitions
          = aggregate_metrics.lock_acquisitions + Acquisitions[w]
    <3>1. local_metrics[w] \in WorkerMetrics
      BY <1>1
    <3>2. Merged(aggregate_metrics, local_metrics[w]).lock_acquisitions
            = aggregate_metrics.lock_acquisitions + local_metrics[w].lock_acquisitions
      BY <1>1, <3>1, MetricsFacts
    <3> QED BY <2>1, <2>2, <3>2
  <2>5. Acquisitions[w] \in Nat
    BY <1>1
  <2>6. Batches' = Batches /\ Popped' = Popped
    BY <1>1, <1>2, <1>3, <2>1, <2>2, <2>3, <2>4, <2>5 DEF Batches, Popped
  <2> QED BY <2>1, <2>2, <2>3, <2>6 DEF BatchInv
<1> QED BY <1>4, <1>5, <1>6, <1>7, LocksMove

\* A worker counts a contended acquisition at most once per acquisition.
LEMMA StepContention ==
    ASSUME Control, ContentionInv, [Next]_vars
    PROVE  ContentionInv'
<1>1. /\ TypeOK /\ local_metrics \in [Workers -> WorkerMetrics]
      /\ pc \in [Workers -> WorkerPoints] /\ aggregate_metrics \in WorkerMetrics
      /\ \A w \in Workers : /\ local_metrics[w] \in WorkerMetrics
                            /\ local_metrics[w].lock_acquisitions \in Nat
                            /\ local_metrics[w].contended_lock_acquisitions \in Nat
      /\ aggregate_metrics.lock_acquisitions \in Nat
      /\ aggregate_metrics.contended_lock_acquisitions \in Nat
  BY CountersType DEF Control, TypeOK
<1>2. ASSUME UNCHANGED <<aggregate_metrics, local_metrics>>,
             \A v \in Workers : pc[v] = "lock" => pc'[v] = "lock"
      PROVE  ContentionInv'
  BY <1>1, <1>2 DEF ContentionInv
<1>3. ASSUME MainLock \/ MainWait \/ MainClose \/ MainReturn \/ MainSpurious
                      \/ MainNotifyAll \/ UNCHANGED vars
      PROVE  ContentionInv'
  BY <1>2, <1>3 DEF MainLock, MainWait, MainClose, MainReturn, MainSpurious, MainNotifyAll,
       Waiting, vars, workerVars
<1>4. ASSUME MainPush  PROVE ContentionInv'
  <2>1. \A w \in Workers : pc'[w] = pc[w] \/ (pc[w] = "wait" /\ pc'[w] = "woken")
    BY <1>1, <1>4, NotifyFacts DEF MainPush
  <2> QED BY <1>2, <1>4, <2>1 DEF MainPush
<1>5. ASSUME NEW w \in Workers, Relock(w) \/ SpuriousWake(w) \/ Wait(w) \/ Leave(w)
                                \/ TakeBatch(w) \/ BatchDone(w)
      PROVE  ContentionInv'
  BY <1>1, <1>2, <1>5 DEF Relock, SpuriousWake, Wait, Leave, TakeBatch, BatchDone
<1>6. ASSUME NEW w \in Workers, TryLock(w) \/ Lock(w)  PROVE ContentionInv'
  <2>1. /\ local_metrics' = [local_metrics EXCEPT ![w] = Acquired(local_metrics[w])]
        /\ UNCHANGED aggregate_metrics /\ pc' = [pc EXCEPT ![w] = "check"]
    BY <1>6 DEF TryLock, Lock
  <2>2. /\ local_metrics'[w].lock_acquisitions = local_metrics[w].lock_acquisitions + 1
        /\ local_metrics'[w].contended_lock_acquisitions
             = local_metrics[w].contended_lock_acquisitions
        /\ \A v \in Workers \ {w} : local_metrics'[v] = local_metrics[v] /\ pc'[v] = pc[v]
    BY <1>1, <2>1, FieldFacts
  <2> QED BY <1>1, <2>1, <2>2 DEF ContentionInv
<1>7. ASSUME NEW w \in Workers, TryLockFails(w)  PROVE ContentionInv'
  <2>1. /\ local_metrics' = [local_metrics EXCEPT ![w] =
             [local_metrics[w] EXCEPT !.contended_lock_acquisitions = @ + 1]]
        /\ UNCHANGED aggregate_metrics /\ pc' = [pc EXCEPT ![w] = "lock"] /\ pc[w] = "try"
    BY <1>7 DEF TryLockFails
  <2>2. /\ local_metrics'[w].lock_acquisitions = local_metrics[w].lock_acquisitions
        /\ local_metrics'[w].contended_lock_acquisitions
             = local_metrics[w].contended_lock_acquisitions + 1
        /\ \A v \in Workers \ {w} : local_metrics'[v] = local_metrics[v] /\ pc'[v] = pc[v]
    BY <1>1, <2>1 DEF WorkerMetrics
  <2>3. pc'[w] = "lock"
    BY <1>1, <2>1
  <2> QED BY <1>1, <2>1, <2>2, <2>3 DEF ContentionInv
<1>8. ASSUME NEW w \in Workers, Process(w)  PROVE ContentionInv'
  <2>1. /\ local_metrics' = [local_metrics EXCEPT ![w] = Completed(local_metrics[w])]
        /\ UNCHANGED <<aggregate_metrics, pc>>
    BY <1>8 DEF Process
  <2>2. /\ local_metrics'[w].lock_acquisitions = local_metrics[w].lock_acquisitions
        /\ local_metrics'[w].contended_lock_acquisitions
             = local_metrics[w].contended_lock_acquisitions
        /\ \A v \in Workers \ {w} : local_metrics'[v] = local_metrics[v]
    BY <1>1, <2>1, FieldFacts
  <2> QED BY <1>1, <2>1, <2>2 DEF ContentionInv
<1>9. ASSUME NEW w \in Workers, Merge(w)  PROVE ContentionInv'
  <2>1. /\ aggregate_metrics' = Merged(aggregate_metrics, local_metrics[w])
        /\ UNCHANGED local_metrics /\ pc[w] = "merge"
        /\ \A v \in Workers : pc[v] = "lock" => pc'[v] = "lock"
    BY <1>1, <1>9 DEF Merge
  <2>2. /\ Merged(aggregate_metrics, local_metrics[w]).lock_acquisitions
             = aggregate_metrics.lock_acquisitions + local_metrics[w].lock_acquisitions
        /\ Merged(aggregate_metrics, local_metrics[w]).contended_lock_acquisitions
             = aggregate_metrics.contended_lock_acquisitions
               + local_metrics[w].contended_lock_acquisitions
    BY <1>1, MetricsFacts
  <2>3. local_metrics[w].contended_lock_acquisitions <= local_metrics[w].lock_acquisitions
    BY <1>1, <2>1 DEF ContentionInv
  <2>4. aggregate_metrics'.contended_lock_acquisitions <= aggregate_metrics'.lock_acquisitions
    BY <1>1, <2>1, <2>2, <2>3 DEF ContentionInv
  <2>5. \A v \in Workers : pc'[v] = "lock" <=> pc[v] = "lock"
    BY <1>1, <1>9 DEF Merge
  <2> QED BY <1>1, <2>1, <2>4, <2>5 DEF ContentionInv
<1> QED
  BY <1>3, <1>4, <1>5, <1>6, <1>7, <1>8, <1>9 DEF Next, MainNext, WorkerNext, Terminated

\* Everything the counters rest on, in every reachable state.
LEMMA CountsHold == Spec => [](Control /\ ExactlyOnce /\ CountInv /\ BatchInv /\ ContentionInv)
<1>1. Control /\ ExactlyOnce /\ CountInv /\ [Next]_vars => CountInv'
  BY StepCount
<1>2. Control /\ BatchInv /\ [Next]_vars => BatchInv'
  BY StepBatches
<1>3. Control /\ ContentionInv /\ [Next]_vars => ContentionInv'
  BY StepContention
<1> QED BY InitCounts, OnceHolds, <1>1, <1>2, <1>3, PTL DEF Spec

\* When run_multithreaded returns nothing is left to do or to merge.
LEMMA ReturnedFacts ==
    ASSUME Control, ExactlyOnce, main = "returned"
    PROVE  /\ checksum = Items /\ Unmerged = {} /\ EmptyHanded = Workers
           /\ queue = <<>> /\ next_item = NumItems + 1 /\ NumItems \in Nat
           /\ \A c : Units(Unmerged, c) = {}
<1>1. /\ \A w \in Workers : pc[w] = "done" /\ task_batch[w] = <<>>
      /\ next_item = NumItems + 1 /\ NumItems \in Nat
  BY NumItemsNat DEF Control, StageInv
<1>2. queue = <<>>
  BY <1>1, PerfEngineConstants DEF Control, StageInv
<1>3. Range(<<>>) = {}
  BY DEF Range
<1>4. Batched = {} /\ Range(queue) = {}
  BY <1>1, <1>2, <1>3 DEF Batched
<1>5. checksum = 1..(next_item - 1)
  BY <1>4 DEF ExactlyOnce
<1>6. checksum = Items
  BY <1>1, <1>5 DEF Items
<1>7. Unmerged = {} /\ EmptyHanded = Workers
  BY <1>1 DEF Unmerged, EmptyHanded
<1>8. \A c : Units(Unmerged, c) = {}
  BY <1>7 DEF Units
<1> QED BY <1>1, <1>2, <1>6, <1>7, <1>8

\* The lock bounds follow from the invariants once every worker has merged.
LEMMA LocksAtReturn ==
    ASSUME Control, ExactlyOnce, BatchInv, ContentionInv
    PROVE  LockAccounting
<1> DEFINE locks == aggregate_metrics.lock_acquisitions
<1> SUFFICES ASSUME main = "returned"
             PROVE  /\ locks <= NumItems + Cardinality(Workers)
                    /\ NumItems <= config.queue_batch_size * (locks - Cardinality(Workers))
                    /\ aggregate_metrics.contended_lock_acquisitions <= locks
  BY DEF LockAccounting
<1>1. /\ EmptyHanded = Workers /\ Units(Unmerged, Acquisitions) = {}
      /\ queue = <<>> /\ next_item = NumItems + 1 /\ NumItems \in Nat
  BY ReturnedFacts
<1>2. locks \in Nat /\ Cardinality(Workers) \in Nat
  BY CountersType, PerfEngineConstants, FS_CardinalityType DEF Control
<1>3. Batches = locks - Cardinality(Workers)
  BY <1>1, <1>2, FS_EmptySet DEF Batches
<1>4. Popped = NumItems
  <2>1. Len(queue) = 0
    BY <1>1
  <2> QED BY <1>1, <2>1 DEF Popped
<1>5. /\ Batches <= NumItems /\ NumItems <= config.queue_batch_size * Batches
  BY <1>4 DEF BatchInv
<1>6. locks <= NumItems + Cardinality(Workers)
  BY <1>1, <1>2, <1>3, <1>5
<1>7. NumItems <= config.queue_batch_size * (locks - Cardinality(Workers))
  BY <1>3, <1>5
<1> QED BY <1>6, <1>7 DEF ContentionInv

\* For any number of workers: a run over N items takes the lock between
\* W + N / queue_batch_size and W + N times, and contention_rate is at most 1.
THEOREM EngineLockAccounting == Spec => []LockAccounting
<1>1. Control /\ ExactlyOnce /\ CountInv /\ BatchInv /\ ContentionInv => LockAccounting
  BY LocksAtReturn
<1> QED BY CountsHold, <1>1, PTL
-----------------------------------------------------------------------------
(* The two modes.                                                          *)

\* A product tells its factors apart.
LEMMA TimesLess ==
    ASSUME NEW a \in Int, NEW b \in Int, NEW c \in Nat \ {0}, a * c < b * c
    PROVE  a < b
<1> SUFFICES ASSUME b <= a PROVE FALSE
  OBVIOUS
<1>1. PICK d \in Nat : a = b + d
  <2>1. a - b \in Nat /\ a = b + (a - b)
    OBVIOUS
  <2> QED BY <2>1
<1>2. a * c = b * c + d * c
  BY <1>1
<1>3. d * c \in Nat /\ b * c \in Int
  OBVIOUS
<1> QED BY <1>2, <1>3

\* What the integer division of the source computes.
LEMMA DivFacts ==
    ASSUME NEW a \in Nat, NEW c \in Nat \ {0}
    PROVE  /\ a \div c \in Nat /\ (a \div c) * c <= a
           /\ a < ((a \div c) + 1) * c
BY SMT

\* Every element of the workload is in exactly one of the chunks.
LEMMA ChunkOf ==
    ASSUME NEW n \in Nat, NEW c \in Nat \ {0}, NEW i \in 0..(n - 1)
    PROVE  {k \in 1..((n + c - 1) \div c) : (k - 1) * c <= i /\ i < Lesser(k * c, n)}
             = {(i \div c) + 1}
<1> DEFINE q == i \div c
           N == (n + c - 1) \div c
<1>1. /\ q \in Nat /\ q * c <= i /\ i < (q + 1) * c
  BY DivFacts
<1>2. /\ N \in Nat /\ n + c - 1 < (N + 1) * c
  <2>1. n + c - 1 \in Nat
    OBVIOUS
  <2> QED BY <2>1, DivFacts
<1> HIDE DEF q, N
<1>3. q + 1 \in 1..N
  <2>1. (q + 1) * c = q * c + c /\ q * c \in Nat
    BY <1>1
  <2>2. (q + 1) * c <= n + c - 1
    BY <1>1, <2>1
  <2>3. (N + 1) * c \in Nat /\ (q + 1) * c \in Nat
    BY <1>1, <1>2
  <2>4. (q + 1) * c < (N + 1) * c
    BY <1>2, <2>2, <2>3
  <2>5. q + 1 < N + 1
    BY <1>1, <1>2, <2>4, TimesLess
  <2> QED BY <1>1, <1>2, <2>5
<1>4. (q + 1 - 1) * c <= i /\ i < Lesser((q + 1) * c, n)
  BY <1>1 DEF Lesser
<1>5. ASSUME NEW k \in 1..N, (k - 1) * c <= i, i < Lesser(k * c, n)
      PROVE  k = q + 1
  <2>1. k \in Int /\ k * c \in Int /\ (k - 1) * c \in Int /\ q * c \in Int /\ (q + 1) * c \in Int
    BY <1>1, <1>2
  <2>2. i < k * c
    BY <1>5, <2>1 DEF Lesser
  <2>3. (k - 1) * c < (q + 1) * c /\ q * c < k * c
    BY <1>1, <1>5, <2>1, <2>2
  <2>4. k - 1 < q + 1
    BY <1>1, <2>1, <2>3, TimesLess
  <2>5. q < k
    BY <1>1, <2>1, <2>3, TimesLess
  <2> QED BY <1>1, <2>1, <2>4, <2>5
<1> QED BY <1>3, <1>4, <1>5 DEF q, N

\* The reports agree once every worker has merged.
LEMMA SameAtReturn ==
    ASSUME Control, ExactlyOnce, CountInv
    PROVE  SameAsSingleThreaded
<1> SUFFICES ASSUME main = "returned"
             PROVE  /\ build_result = run_single_threaded
                    /\ \A i \in 0..(config.workload_size - 1) :
                         Cardinality({k \in checksum : /\ build_work_items[k].begin <= i
                                                       /\ i < build_work_items[k].end}) = 1
  BY DEF SameAsSingleThreaded
<1>1. /\ checksum = Items /\ Units(Unmerged, Completions) = {} /\ NumItems \in Nat
  BY ReturnedFacts
<1>2. Cardinality(Items) = NumItems
  BY <1>1, FS_Interval DEF Items
<1>3. aggregate_metrics.tasks_completed = NumItems
  <2>1. aggregate_metrics.tasks_completed + 0 = NumItems
    BY <1>1, <1>2, FS_EmptySet DEF CountInv
  <2> QED BY <2>1, CountersType DEF Control
<1>4. build_result = run_single_threaded
  BY <1>1, <1>3 DEF build_result, run_single_threaded, CountInv, Even
<1>5. ASSUME NEW i \in 0..(config.workload_size - 1)
      PROVE  Cardinality({k \in checksum : /\ build_work_items[k].begin <= i
                                           /\ i < build_work_items[k].end}) = 1
  <2> DEFINE n == config.workload_size
             c == config.chunk_size
  <2>1. n \in Nat /\ c \in Nat \ {0} /\ NumItems = (n + c - 1) \div c
    BY DEF Control, TypeOK, BenchmarkConfig, NumItems
  <2>2. \A k \in Items : /\ build_work_items[k].begin = (k - 1) * c
                         /\ build_work_items[k].end = Lesser(k * c, n)
    BY DEF build_work_items, Items
  <2> HIDE DEF n, c
  <2>3. i \in 0..(n - 1)
    BY DEF n
  <2>4. {k \in checksum : build_work_items[k].begin <= i /\ i < build_work_items[k].end}
          = {k \in 1..((n + c - 1) \div c) : (k - 1) * c <= i /\ i < Lesser(k * c, n)}
    BY <1>1, <2>1, <2>2 DEF Items
  <2>5. {k \in checksum : build_work_items[k].begin <= i /\ i < build_work_items[k].end}
          = {(i \div c) + 1}
    BY <2>1, <2>3, <2>4, ChunkOf
  <2> QED BY <2>5, FS_Singleton
<1> QED BY <1>4, <1>5

\* The multithreaded mode reports the checksum, the task count, the allocations
\* and the number of latencies of the single-threaded mode, and the chunks
\* behind them cover every element once, for every workload and chunk size.
THEOREM EngineSameAsSingleThreaded == Spec => []SameAsSingleThreaded
<1>1. Control /\ ExactlyOnce /\ CountInv /\ BatchInv /\ ContentionInv => SameAsSingleThreaded
  BY SameAtReturn
<1> QED BY CountsHold, <1>1, PTL
=============================================================================
