----------------------------- MODULE PerfEngine -----------------------------
(***************************************************************************)
(* PerformanceEngine::run_multithreaded of performance_engine.cpp: the     *)
(* main thread feeds work items to a bounded deque, the workers remove     *)
(* them in batches and process each batch outside the lock.                *)
(*                                                                         *)
(* Every access to the deque and to producer_finished is made with         *)
(* queue_mutex held, so taking the mutex is a step and so is the whole     *)
(* critical section that follows, up to its unlock or its wait.  A work    *)
(* item is its id + 1.  The XOR of the tasks' checksums is the set of the  *)
(* tasks applied an odd number of times.  Times are left out.              *)
(***************************************************************************)
EXTENDS Naturals, Sequences, FiniteSets, Functions

CONSTANTS
    Workers,    \* the worker threads
    Configs,    \* the BenchmarkConfig values a run may be given
    Spurious    \* whether wait may wake up, and try_lock fail, for no reason

BenchmarkConfig ==
    [workload_size : Nat, chunk_size : Nat \ {0}, queue_capacity : Nat,
     queue_batch_size : Nat \ {0}]

ASSUME PerfEngineConstants ==
    /\ IsFiniteSet(Workers) /\ Workers # {}
    /\ "main" \notin Workers /\ "free" \notin Workers
    /\ Configs \subseteq BenchmarkConfig
    /\ Spurious \in BOOLEAN

VARIABLES
    config,
    queue, producer_finished, checksum,    \* shared by all threads
    queue_mutex,                           \* the thread that holds it, or "free"
    main,                                  \* where the main thread is
    next_item,                             \* the next of work_items to push
    pc,                                    \* where each worker is
    task_batch, local_metrics,             \* locals of each worker
    aggregate_metrics                      \* merged under metrics_mutex

shared == <<queue, producer_finished, checksum, queue_mutex>>
mainVars == <<main, next_item>>
workerVars == <<pc, task_batch, local_metrics, aggregate_metrics>>
vars == <<config, shared, mainVars, workerVars>>

MainPoints == {"lock", "check", "wait", "woken", "close", "notify", "join",
               "returned"}
WorkerPoints == {"try", "lock", "check", "wait", "woken", "process", "merge",
                 "done"}

WorkerMetrics ==
    [tasks_completed : Nat, simulated_allocations : Nat, latencies : Nat,
     lock_acquisitions : Nat, contended_lock_acquisitions : Nat]
NoMetrics ==
    [tasks_completed |-> 0, simulated_allocations |-> 0, latencies |-> 0,
     lock_acquisitions |-> 0, contended_lock_acquisitions |-> 0]
-----------------------------------------------------------------------------
Lesser(a, b) == IF b < a THEN b ELSE a

\* build_work_items: [begin, end) of every chunk, the last one cut short.
NumItems ==
    (config.workload_size + config.chunk_size - 1) \div config.chunk_size

build_work_items ==
    [k \in 1..NumItems |->
        [begin |-> (k - 1) * config.chunk_size,
         end   |-> Lesser(k * config.chunk_size, config.workload_size)]]

Items == 1..NumItems

\* checksum.fetch_xor(task_checksum)
Xor(S, task) == IF task \in S THEN S \ {task} ELSE S \cup {task}

\* What run_single_threaded reports of the same work.
run_single_threaded ==
    [checksum |-> Items, tasks_processed |-> NumItems,
     simulated_allocations |-> NumItems, latencies |-> NumItems]

\* What run_multithreaded reports: build_result is given work_items.size(),
\* not the number of tasks that were completed.
build_result ==
    [checksum |-> checksum, tasks_processed |-> NumItems,
     simulated_allocations |-> aggregate_metrics.simulated_allocations,
     latencies |-> aggregate_metrics.latencies]

Init ==
    /\ config \in Configs
    /\ queue = <<>> /\ producer_finished = FALSE /\ checksum = {}
    /\ queue_mutex = "free"
    /\ main = "lock" /\ next_item = 1
    /\ pc = [w \in Workers |-> "try"]
    /\ task_batch = [w \in Workers |-> <<>>]
    /\ local_metrics = [w \in Workers |-> NoMetrics]
    /\ aggregate_metrics = NoMetrics

\* notify_one wakes one of the waiting workers if there is one.
NotifyOne(waiting) ==
    IF waiting = {} THEN pc' = pc
                    ELSE \E w \in waiting : pc' = [pc EXCEPT ![w] = "woken"]

Waiting == {w \in Workers : pc[w] = "wait"}
-----------------------------------------------------------------------------
(* The main thread.                                                        *)

\* Mutant: the loop runs one past the last of work_items.
MoreItems_OneMore == next_item <= NumItems + 1

MoreItems == next_item <= NumItems

\* unique_lock or lock_guard of queue_mutex, and the re-lock inside wait.
MainLock ==
    /\ main \in {"lock", "woken"} /\ queue_mutex = "free"
    /\ queue_mutex' = "main"
    /\ main' = IF MoreItems THEN "check" ELSE "close"
    /\ UNCHANGED <<config, queue, producer_finished, checksum, next_item, workerVars>>

HasRoom == Len(queue) < config.queue_capacity

MainWait ==
    /\ main = "check" /\ ~HasRoom
    /\ main' = "wait" /\ queue_mutex' = "free"
    /\ UNCHANGED <<config, queue, producer_finished, checksum, next_item, workerVars>>

\* push_back, notify_one under the lock, unlock at the end of the iteration.
MainPush ==
    /\ main = "check" /\ HasRoom
    /\ queue' = Append(queue, next_item)
    /\ next_item' = next_item + 1
    /\ NotifyOne(Waiting)
    /\ main' = "lock" /\ queue_mutex' = "free"
    /\ UNCHANGED <<config, producer_finished, checksum, task_batch, local_metrics,
                   aggregate_metrics>>

MainClose ==
    /\ main = "close"
    /\ producer_finished' = TRUE
    /\ main' = "notify" /\ queue_mutex' = "free"
    /\ UNCHANGED <<config, queue, checksum, next_item, workerVars>>

\* Mutant: notify_one where notify_all is needed.
MainNotifyAll_One ==
    /\ main = "notify"
    /\ NotifyOne(Waiting)
    /\ main' = "join"
    /\ UNCHANGED <<config, shared, next_item, task_batch, local_metrics,
                   aggregate_metrics>>

\* notify_all, after the lock has been given back.
MainNotifyAll ==
    /\ main = "notify"
    /\ pc' = [w \in Workers |-> IF w \in Waiting THEN "woken" ELSE pc[w]]
    /\ main' = "join"
    /\ UNCHANGED <<config, shared, next_item, task_batch, local_metrics,
                   aggregate_metrics>>

\* join of every worker, then build_result.
MainReturn ==
    /\ main = "join" /\ \A w \in Workers : pc[w] = "done"
    /\ main' = "returned"
    /\ UNCHANGED <<config, shared, next_item, workerVars>>

MainSpurious ==
    /\ Spurious /\ main = "wait"
    /\ main' = "woken"
    /\ UNCHANGED <<config, shared, next_item, workerVars>>

MainNext ==
    \/ MainLock \/ MainWait \/ MainPush \/ MainClose \/ MainNotifyAll \/ MainReturn
-----------------------------------------------------------------------------
(* A worker.                                                               *)

Acquired(m) == [m EXCEPT !.lock_acquisitions = @ + 1]

TryLock(w) ==
    /\ pc[w] = "try" /\ queue_mutex = "free"
    /\ queue_mutex' = w
    /\ pc' = [pc EXCEPT ![w] = "check"]
    /\ local_metrics' = [local_metrics EXCEPT ![w] = Acquired(@)]
    /\ UNCHANGED <<config, queue, producer_finished, checksum, mainVars, task_batch,
                   aggregate_metrics>>

TryLockFails(w) ==
    /\ pc[w] = "try" /\ (queue_mutex # "free" \/ Spurious)
    /\ pc' = [pc EXCEPT ![w] = "lock"]
    /\ local_metrics' = [local_metrics EXCEPT ![w].contended_lock_acquisitions = @ + 1]
    /\ UNCHANGED <<config, shared, mainVars, task_batch, aggregate_metrics>>

Lock(w) ==
    /\ pc[w] = "lock" /\ queue_mutex = "free"
    /\ queue_mutex' = w
    /\ pc' = [pc EXCEPT ![w] = "check"]
    /\ local_metrics' = [local_metrics EXCEPT ![w] = Acquired(@)]
    /\ UNCHANGED <<config, queue, producer_finished, checksum, mainVars, task_batch,
                   aggregate_metrics>>

\* The re-lock inside queue_not_empty.wait is not counted.
Relock(w) ==
    /\ pc[w] = "woken" /\ queue_mutex = "free"
    /\ queue_mutex' = w
    /\ pc' = [pc EXCEPT ![w] = "check"]
    /\ UNCHANGED <<config, queue, producer_finished, checksum, mainVars, task_batch,
                   local_metrics, aggregate_metrics>>

SpuriousWake(w) ==
    /\ Spurious /\ pc[w] = "wait"
    /\ pc' = [pc EXCEPT ![w] = "woken"]
    /\ UNCHANGED <<config, shared, mainVars, task_batch, local_metrics,
                   aggregate_metrics>>

Wait(w) ==
    /\ pc[w] = "check" /\ queue = <<>> /\ ~producer_finished
    /\ pc' = [pc EXCEPT ![w] = "wait"] /\ queue_mutex' = "free"
    /\ UNCHANGED <<config, queue, producer_finished, checksum, mainVars, task_batch,
                   local_metrics, aggregate_metrics>>

\* Mutant: the worker leaves as soon as the producer has finished.
Leave_NotDrained(w) ==
    /\ pc[w] = "check" /\ producer_finished
    /\ pc' = [pc EXCEPT ![w] = "merge"] /\ queue_mutex' = "free"
    /\ UNCHANGED <<config, queue, producer_finished, checksum, mainVars, task_batch,
                   local_metrics, aggregate_metrics>>

\* break, which destroys the unique_lock.
Leave(w) ==
    /\ pc[w] = "check" /\ queue = <<>> /\ producer_finished
    /\ pc' = [pc EXCEPT ![w] = "merge"] /\ queue_mutex' = "free"
    /\ UNCHANGED <<config, queue, producer_finished, checksum, mainVars, task_batch,
                   local_metrics, aggregate_metrics>>

tasks_to_take == Lesser(config.queue_batch_size, Len(queue))

\* Mutant: the front is read again without having been popped.
Rest_Stale == queue

Rest == SubSeq(queue, tasks_to_take + 1, Len(queue))

\* Mutant: the batch is taken without telling the producer.
NotifyNotFull_Never == main' = main

\* queue_not_full.notify_all
NotifyNotFull == main' = IF main = "wait" THEN "woken" ELSE main

TakeBatch(w) ==
    /\ pc[w] = "check" /\ queue # <<>>
    /\ task_batch' = [task_batch EXCEPT ![w] = SubSeq(queue, 1, tasks_to_take)]
    /\ queue' = Rest
    /\ NotifyNotFull
    /\ pc' = [pc EXCEPT ![w] = "process"] /\ queue_mutex' = "free"
    /\ UNCHANGED <<config, producer_finished, checksum, next_item, local_metrics,
                   aggregate_metrics>>

Completed(m) == [m EXCEPT !.tasks_completed = @ + 1,
                          !.simulated_allocations = @ + 1, !.latencies = @ + 1]

\* One iteration of the loop over task_batch.
Process(w) ==
    /\ pc[w] = "process" /\ task_batch[w] # <<>>
    /\ checksum' = Xor(checksum, Head(task_batch[w]))
    /\ task_batch' = [task_batch EXCEPT ![w] = Tail(@)]
    /\ local_metrics' = [local_metrics EXCEPT ![w] = Completed(@)]
    /\ UNCHANGED <<config, queue, producer_finished, queue_mutex, mainVars, pc,
                   aggregate_metrics>>

BatchDone(w) ==
    /\ pc[w] = "process" /\ task_batch[w] = <<>>
    /\ pc' = [pc EXCEPT ![w] = "try"]
    /\ UNCHANGED <<config, shared, mainVars, task_batch, local_metrics,
                   aggregate_metrics>>

\* Mutant: the last worker's counters replace the sum of the others'.
Merged_Last(a, m) == m

Merged(a, m) == [f \in DOMAIN a |-> a[f] + m[f]]

\* lock_guard of metrics_mutex, the sums, and the end of the thread.
Merge(w) ==
    /\ pc[w] = "merge"
    /\ aggregate_metrics' = Merged(aggregate_metrics, local_metrics[w])
    /\ pc' = [pc EXCEPT ![w] = "done"]
    /\ UNCHANGED <<config, shared, mainVars, task_batch, local_metrics>>

WorkerNext(w) ==
    \/ TryLock(w) \/ TryLockFails(w) \/ Lock(w) \/ Relock(w)
    \/ Wait(w) \/ Leave(w) \/ TakeBatch(w)
    \/ Process(w) \/ BatchDone(w) \/ Merge(w)

\* run_multithreaded has returned: the only state in which nothing happens.
Terminated == main = "returned" /\ UNCHANGED vars

Next ==
    \/ MainNext \/ MainSpurious
    \/ \E w \in Workers : WorkerNext(w) \/ SpuriousWake(w)
    \/ Terminated

Spec == Init /\ [][Next]_vars
-----------------------------------------------------------------------------
(***************************************************************************)
(* Properties.                                                             *)
(***************************************************************************)

\* The variables of run_multithreaded have the types the code declares.
TypeOK ==
    /\ config \in BenchmarkConfig
    /\ queue \in Seq(Items) /\ producer_finished \in BOOLEAN
    /\ checksum \subseteq Items
    /\ queue_mutex \in Workers \cup {"main", "free"}
    /\ main \in MainPoints /\ next_item \in 1..(NumItems + 1)
    /\ pc \in [Workers -> WorkerPoints]
    /\ task_batch \in [Workers -> Seq(Items)]
    /\ local_metrics \in [Workers -> WorkerMetrics]
    /\ aggregate_metrics \in WorkerMetrics

Batched == UNION {Range(task_batch[w]) : w \in Workers}

\* Every item pushed so far is in exactly one place, the deque, one worker's
\* batch or the checksum, and only once there: no interleaving of the pops
\* loses an item or hands it to two workers, so none cancels out of the XOR.
ExactlyOnce ==
    /\ Range(queue) \cup Batched \cup checksum = 1..(next_item - 1)
    /\ IsInjective(queue) /\ \A w \in Workers : IsInjective(task_batch[w])
    /\ Range(queue) \cap Batched = {} /\ Range(queue) \cap checksum = {}
    /\ Batched \cap checksum = {}
    /\ \A v, w \in Workers :
          v # w => Range(task_batch[v]) \cap Range(task_batch[w]) = {}

\* The deque stays within queue_capacity and no wakeup is lost: the producer
\* sleeps only while the deque is full, with items queued some worker is not
\* asleep, and once the producer is joining no worker is asleep, though the
\* last notify_all is made without the lock.
NoLostWakeup ==
    /\ Len(queue) <= config.queue_capacity
    /\ main = "wait" => Len(queue) = config.queue_capacity
    /\ queue # <<>> => \E w \in Workers : pc[w] # "wait"
    /\ main \in {"join", "returned"} => \A w \in Workers : pc[w] # "wait"

\* The two modes report the same checksum, task count, allocations and number
\* of latencies, whatever the schedule, capacity and batch size; with the
\* items that build_work_items makes, every element was processed once.
SameAsSingleThreaded ==
    main = "returned" =>
        /\ build_result = run_single_threaded
        /\ \A i \in 0..(config.workload_size - 1) :
             Cardinality({k \in checksum : /\ build_work_items[k].begin <= i
                                           /\ i < build_work_items[k].end}) = 1

\* Every batch and every exit takes the lock once: between W plus N / batch
\* and W plus N counted acquisitions for N items and W workers, and never more
\* contended ones, so that contention_rate is at most 1.
LockAccounting ==
    LET locks == aggregate_metrics.lock_acquisitions IN
    main = "returned" =>
        /\ locks <= NumItems + Cardinality(Workers)
        /\ NumItems <= config.queue_batch_size * (locks - Cardinality(Workers))
        /\ aggregate_metrics.contended_lock_acquisitions <= locks
=============================================================================
