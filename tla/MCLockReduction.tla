--------------------------- MODULE MCLockReduction ---------------------------
(***************************************************************************)
(* What BatchedQueueReducesLockAcquisitions (test_performance_engine.cpp)  *)
(* expects of a run with batches, against what the schedule allows.        *)
(***************************************************************************)
EXTENDS PerfEngine

CONSTANTS w1, w2

\* Three items, room for all of them, and batches of two.
BatchedConfigs ==
    {[workload_size |-> 3, chunk_size |-> 1, queue_capacity |-> 3,
      queue_batch_size |-> 2]}

\* Without batches every item and every worker's exit takes the lock once
\* (LockAccounting with queue_batch_size 1), so the test's EXPECT_LT says that
\* a batched run counts fewer acquisitions than items plus workers.  A batch
\* is what the deque happens to hold when a worker arrives: when the workers
\* keep up with the producer, every batch is one item and nothing is saved.
BatchingReducesLocks ==
    (main = "returned" /\ config.queue_batch_size > 1) =>
        aggregate_metrics.lock_acquisitions < NumItems + Cardinality(Workers)
=============================================================================
