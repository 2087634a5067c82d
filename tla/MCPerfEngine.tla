---------------------------- MODULE MCPerfEngine ----------------------------
(***************************************************************************)
(* Three workers, with and without spurious wakeups.  In a quiet run only  *)
(* the code's own notifications wake a thread; termination is a property   *)
(* of those, because a worker that keeps waking up for no reason may keep  *)
(* the mutex from the others.                                              *)
(***************************************************************************)
EXTENDS PerfEngine

Config(size, chunk, capacity, batch) ==
    [workload_size |-> size, chunk_size |-> chunk, queue_capacity |-> capacity,
     queue_batch_size |-> batch]

\* Two items and a deque that is always full; three items, the last one short,
\* with batches of one, of part and of all of the deque; a deque without room,
\* with and without work.
MCConfigs ==
    {Config(4, 2, 1, 1), Config(5, 2, 2, 2), Config(4, 2, 0, 1), Config(0, 2, 0, 1)}

VARIABLE quiet

Quiet == INSTANCE PerfEngine WITH Spurious <- FALSE

MCInit == Init /\ quiet \in BOOLEAN

MCMain == (IF quiet THEN Quiet!MainNext ELSE MainNext) /\ UNCHANGED quiet
MCWorker(w) == (IF quiet THEN Quiet!WorkerNext(w) ELSE WorkerNext(w)) /\ UNCHANGED quiet

MCNext ==
    \/ MCMain \/ (\E w \in Workers : MCWorker(w))
    \/ ~quiet /\ (MainSpurious \/ \E w \in Workers : SpuriousWake(w)) /\ UNCHANGED quiet
    \/ Terminated /\ UNCHANGED quiet

\* Each thread keeps running while it can.  A blocked lock needs no more than
\* weak fairness: every other thread soon waits, works or ends.
MCSpec ==
    /\ MCInit
    /\ [][MCNext]_<<vars, quiet>>
    /\ WF_<<vars, quiet>>(MCMain)
    /\ \A w \in Workers : WF_<<vars, quiet>>(MCWorker(w))

CanEnd == config.queue_capacity > 0 \/ NumItems = 0

\* Without spurious wakeups the run ends whenever there is room for one item
\* or nothing to push, by the code's own notifications.  queue_capacity is the
\* one parameter that the constructor does not check: with 0 and any work at
\* all no run ends.
Terminates ==
    /\ (quiet /\ main = "lock" /\ next_item = 1 /\ CanEnd) ~> (main = "returned")
    /\ [](main = "returned" => CanEnd)
=============================================================================
