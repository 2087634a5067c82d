-------------------------- MODULE PthreadBenchmark --------------------------
(***************************************************************************)
(* The program of pthread_queue_benchmark.c on top of PthreadQueue: main   *)
(* creates the workers, pushes task_count items, closes the queue, joins   *)
(* the workers and adds up what they did; each worker pops and processes.  *)
(* An item is its id + 1; a checksum is the set of the items it includes   *)
(* an odd number of times.  Times and the printed layout are left out.     *)
(***************************************************************************)
EXTENDS PthreadQueue

CONSTANTS
    Workers,
    task_count    \* (workload_size + chunk_size - 1) / chunk_size

ASSUME PthreadBenchmarkConstants ==
    /\ Workers # {} /\ "main" \notin Workers /\ Threads = Workers \cup {"main"}
    /\ task_count \in Nat \ {0}    \* workload_size == 0 is refused
    /\ Item = 1..task_count

VARIABLES
    main, i,      \* where main is, and the next item to push
    wpc,          \* where each worker is
    contexts      \* each worker's worker_context_t

benchVars == <<queueVars, main, i, wpc, contexts>>

MainPoints == {"create", "push", "pushing", "closing", "join", "exit0", "exit1"}
WorkerPoints == {"unborn", "call", "popping", "exited"}

worker_context_t ==
    [checksum : SUBSET Item, tasks_completed : Nat, allocations : Nat,
     latency_count : Nat]

BenchInit ==
    /\ QueueInit
    /\ main = "create" /\ i = 1
    /\ wpc = [w \in Workers |-> "unborn"]
    /\ contexts = [w \in Workers |->
           [checksum |-> {}, tasks_completed |-> 0, allocations |-> 0,
            latency_count |-> 0]]

Running == main \notin {"exit0", "exit1"}
-----------------------------------------------------------------------------
(* main                                                                    *)

CreateWorker(w) ==
    /\ main = "create" /\ wpc[w] = "unborn"
    /\ wpc' = [wpc EXCEPT ![w] = "call"]
    /\ main' = IF \A v \in Workers \ {w} : wpc[v] # "unborn" THEN "push" ELSE main
    /\ UNCHANGED <<queueVars, i, contexts>>

\* return 1 ends the process with whatever the other threads are doing.
CreateFails ==
    /\ Faults /\ main = "create"
    /\ main' = "exit1"
    /\ UNCHANGED <<queueVars, i, wpc, contexts>>

MainPush ==
    /\ main = "push" /\ i <= task_count
    /\ Invoke("main", "push", i)
    /\ main' = "pushing"
    /\ UNCHANGED <<i, wpc, contexts>>

MainPushed ==
    /\ main = "pushing" /\ call["main"].rc = "0"
    /\ i' = i + 1 /\ main' = "push"
    /\ UNCHANGED <<queueVars, wpc, contexts>>

MainPushFailed ==
    /\ main = "pushing" /\ call["main"].rc \notin {"pending", "0"}
    /\ main' = "exit1"
    /\ UNCHANGED <<queueVars, i, wpc, contexts>>

MainClose ==
    /\ main = "push" /\ i > task_count
    /\ Invoke("main", "close", NoItem)
    /\ main' = "closing"
    /\ UNCHANGED <<i, wpc, contexts>>

\* close returns nothing: a failure of its lock is not seen here.
MainClosed ==
    /\ main = "closing" /\ call["main"].rc # "pending"
    /\ main' = "join"
    /\ UNCHANGED <<queueVars, i, wpc, contexts>>

\* pthread_join of every worker, then the totals, the output and return 0.
MainReport ==
    /\ main = "join" /\ \A w \in Workers : wpc[w] = "exited"
    /\ main' = "exit0"
    /\ UNCHANGED <<queueVars, i, wpc, contexts>>
-----------------------------------------------------------------------------
(* worker_main                                                             *)

WorkerPop(w) ==
    /\ wpc[w] = "call"
    /\ Invoke(w, "pop", NoItem)
    /\ wpc' = [wpc EXCEPT ![w] = "popping"]
    /\ UNCHANGED <<main, i, contexts>>

LatencyFits(c) == c.latency_count < task_count

Xor(S, item) == IF item \in S THEN S \ {item} ELSE S \cup {item}

\* Mutant: the worker's checksum is overwritten, not accumulated.
Processed_Last(c, item) ==
    [checksum |-> {item}, tasks_completed |-> c.tasks_completed + 1,
     allocations |-> c.allocations + 1,
     latency_count |-> c.latency_count + (IF LatencyFits(c) THEN 1 ELSE 0)]

\* A processed item's effect on the worker's context.
Processed(c, item) ==
    [checksum |-> Xor(c.checksum, item), tasks_completed |-> c.tasks_completed + 1,
     allocations |-> c.allocations + 1,
     latency_count |-> c.latency_count + (IF LatencyFits(c) THEN 1 ELSE 0)]

\* Mutant: a failed malloc is counted like a successful one.
NotProcessed_Counted(c) ==
    [c EXCEPT !.tasks_completed = @ + 1, !.allocations = @ + 1,
              !.latency_count = @ + (IF LatencyFits(c) THEN 1 ELSE 0)]

\* malloc returned NULL: the checksum of 0 changes nothing, the task counts.
NotProcessed(c) ==
    [c EXCEPT !.tasks_completed = @ + 1,
              !.latency_count = @ + (IF LatencyFits(c) THEN 1 ELSE 0)]

WorkerProcess(w) ==
    /\ wpc[w] = "popping" /\ call[w].rc = "1"
    /\ \/ contexts' = [contexts EXCEPT ![w] = Processed(@, call[w].item)]
       \/ Faults /\ contexts' = [contexts EXCEPT ![w] = NotProcessed(@)]
    /\ wpc' = [wpc EXCEPT ![w] = "call"]
    /\ UNCHANGED <<queueVars, main, i>>

\* The queue is closed and empty, or pop returned an error.
WorkerExit(w) ==
    /\ wpc[w] = "popping" /\ call[w].rc \notin {"pending", "1"}
    /\ wpc' = [wpc EXCEPT ![w] = "exited"]
    /\ UNCHANGED <<queueVars, main, i, contexts>>
-----------------------------------------------------------------------------
InQueue(t) == QueueStep(t) /\ UNCHANGED <<main, i, wpc, contexts>>

MainNext ==
    /\ Running
    /\ \/ \E w \in Workers : CreateWorker(w)
       \/ CreateFails
       \/ MainPush \/ MainPushed \/ MainPushFailed
       \/ MainClose \/ MainClosed \/ MainReport
       \/ InQueue("main")

WorkerNext(w) ==
    Running /\ (WorkerPop(w) \/ WorkerProcess(w) \/ WorkerExit(w) \/ InQueue(w))

Wakeups ==
    /\ Running
    /\ \E t \in Threads : SpuriousWake(t)
    /\ UNCHANGED <<main, i, wpc, contexts>>

Exited == ~Running /\ UNCHANGED benchVars

BenchNext ==
    MainNext \/ (\E w \in Workers : WorkerNext(w)) \/ Wakeups \/ Exited

BenchSpec == BenchInit /\ [][BenchNext]_benchVars

\* Every thread keeps running while it can.
FairBenchSpec ==
    /\ BenchSpec
    /\ WF_benchVars(MainNext)
    /\ \A w \in Workers : WF_benchVars(WorkerNext(w))
-----------------------------------------------------------------------------
(***************************************************************************)
(* Properties.                                                             *)
(***************************************************************************)

\* The sum of n over the workers, as the size of a disjoint union.
Sum(n) == Cardinality(UNION {{w} \X (1..n[w]) : w \in Workers})

Total(field) == Sum([w \in Workers |-> contexts[w][field]])

\* What main prints: the XOR of the workers' checksums, and the totals.
Report ==
    [checksum |-> {item \in Item :
         Cardinality({w \in Workers : item \in contexts[w].checksum}) % 2 = 1},
     total_tasks       |-> Total("tasks_completed"),
     total_allocations |-> Total("allocations"),
     all_latency_count |-> Total("latency_count")]

InHand == {w \in Workers : wpc[w] = "popping" /\ call[w].rc = "1"}

\* Every item that was pushed is in one place: in the ring, in the hands of one
\* worker, or counted by one; and what has been counted is all that was taken.
TasksConserved ==
    LET pushed == i - 1 + (IF main = "pushing" /\ call["main"].rc = "0" THEN 1 ELSE 0)
    IN  /\ count + Cardinality(InHand) + Total("tasks_completed") = pushed
        /\ \A v, w \in InHand : v # w => call[v].item # call[w].item
        /\ \A w \in InHand, v \in Workers : call[w].item \notin contexts[v].checksum
        /\ \A v, w \in Workers :
              v # w => contexts[v].checksum \cap contexts[w].checksum = {}

\* main copies every worker's latencies to a buffer of task_count doubles
\* without a check: it never runs over, though each worker alone may fill one.
LatenciesFit == Total("latency_count") <= task_count

\* A run that ends with 0 and lost work shows it: if an item is missing from
\* the checksum because a worker gave up or could not allocate, a printed
\* total is short.
LossIsVisible ==
    (main = "exit0" /\ Report.checksum # Item) =>
        \/ Report.total_tasks < task_count
        \/ Report.total_allocations < task_count

\* No thread can take a step, whatever may still wake up for no reason.
Hung ==
    /\ Running
    /\ ~ENABLED MainNext /\ \A w \in Workers : ~ENABLED WorkerNext(w)

\* The program hangs in two ways only, both after failed pthread calls: main
\* sleeps on a full ring because every worker left with an error, or the lock
\* of close failed unseen and the workers sleep on an empty ring that nobody
\* will ever close.
HangsAreExplained ==
    Hung =>
        \/ /\ main = "pushing" /\ count = Capacity
           /\ \A w \in Workers : wpc[w] = "exited"
        \/ /\ main = "join" /\ ~closed /\ count = 0
           /\ \A w \in Workers : wpc[w] \in {"popping", "exited"}

\* Without faults the program ends, the close that follows the last push
\* reaching every worker wherever it is, and it prints every task once, with
\* one locking of the queue per task and one per worker.
Terminates ==
    ~Faults => <>(/\ main = "exit0"
                  /\ Report = [checksum |-> Item, total_tasks |-> task_count,
                               total_allocations |-> task_count,
                               all_latency_count |-> task_count]
                  /\ lock_acquisitions = task_count + Cardinality(Workers))
=============================================================================
