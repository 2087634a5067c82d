# A TLA+ verification project for AccelSim-Lite

AccelSim-Lite is a cycle-level simulator of an instruction pipeline with several
satellites: a multithreaded C++ benchmark engine, a POSIX-thread work queue in C with a
benchmark on top of it, and a number of small sequential programs. This directory models
the parts in which order, sharing and resource limits matter, checks them with TLC on small
instances, and proves the main safety properties for all parameter values with TLAPS.

Paths below are relative to the repository (`src/` here is the repository's own `src/`
directory). A line range such as `simulator.cpp 148-165` is where a reader should look.

## 1. Inventory

| Component | State | Operations | What is hard | What makes it correct |
|---|---|---|---|---|
| Pipeline simulator (`src/simulator.cpp`, `src/scheduler.cpp`, `include/accelsim/model/*`) | five deques of instruction indices, execution slots, retired ids, in-use counters, the cycle, per-instruction stage and time stamps, statistics | `run_workload`: per cycle retire, tick, wake, issue, dispatch, decode, fetch, account | deques scanned while they are rotated; resources taken in one phase and released cycles later in another; no cycle limit | no instruction lost or repeated, dependencies respected, exact latency, bounded queues, termination |
| Performance engine (`performance_engine/`) | a bounded deque, a mutex, two condition variables, `producer_finished`, a shared checksum, per-worker metrics | `run_multithreaded`, `run_single_threaded`, `build_result`, `classify_bottleneck` | producer, workers and wakeups interleave; batches; the last `notify_all` is outside the lock | the single-threaded result under every schedule; no lost wakeup; termination |
| POSIX queue (`benchmarks/pthreads_queue/src/pthread_queue.c`) | ring buffer, `closed`, mutex, two condition variables, lock counters | init, push, pop, close, destroy | `signal` wakes only one thread; close against sleeping threads; error returns | a bounded FIFO, linearizable; nobody sleeps beside work |
| POSIX benchmark (`pthread_queue_benchmark.c`) | the queue, one context per worker, the totals | main, `worker_main`, `process_item` | failing pthread calls and `malloc`; unchecked copy into one buffer | every task counted once; losses visible; termination |
| Workload loader (`src/workload_runner.cpp`) | the parsed program | `load_workload_csv` | rows that parse and yet can never finish | distinct ids, dependencies that exist, rows in file order |
| Reports and CLI (`tools/accelsim_cli.cpp`, `write_report`) | the files under `reports/`, which outlive the process | run, compare, benchmark, report | errors and kills half way through six files; unchecked opens and writes; two benchmarks in one second | bad input changes nothing; no report mixes two invocations, unless a file cannot be written |
| Storage datapath (`storage_datapath/`) | parsed requests, one result per request, two clocks | `parse_workload_csv`, `run`, `summarize`, `classify_bottleneck` | a bad row after good ones; queue depth at its limit and at 0; thresholds at equality | every row counted once; ordered percentiles; a class that follows its rule |
| Trajectory graph (`trajectory_graph_lite/`) | points, adjacency, edges, the route | `parse_trajectory_csv`, `connected_components`, `turn_transitions`, `summarize` | search in the order of a hash table; repeated ids; edges to later rows | the summary of the graph that the file describes |
| Firmware-style code (`firmware_style_validation/`) | ring buffer; one filter state | init, push, pop; update | wrap-around; two roundings per sample | bounded FIFO; bounded error, no overflow |
| RTL (`cad_flow/rtl/`) | registers of fifo, arbiter, register file | one clock edge | simultaneous read and write | bounded FIFO, one grant |
| Regression gate and CAD scripts (Python) | metrics files | compare, decide | thresholds at their edges | the decision follows the primary metrics |
| Legacy queue, memory controller, compute unit | counters | tick | unused by the simulator | bounded |

The components interact little. The CLI calls the loader and then `run_workload`; the
comparison script runs the C++ engine and the C benchmark and requires equal task counts
and checksums. The threads of the engine share the deque and the metrics; the threads of
the C benchmark share only the queue. The hazards of the code, line by line, are listed in
`PROJECT.json`.

## 2. Plan

1. (done) `Pipeline`, with its safety and liveness runs and its proofs.
2. (done) `PerfEngine`.
3. (done) `BoundedFifo`, `PthreadQueue` shown and proved to implement it,
   `PthreadBenchmark` composed on the queue.
4. (done) `WorkloadLoader` with its proofs, and `StorageDatapath`.
5. (done) `AccelsimCli`. What the loader lets through against what the pipeline needs is
   the exact `Terminates` of `Pipeline`, checked on inputs only the loader restricts.
6. (done) `NonblockingFifo` with the firmware ring buffer and the RTL fifo as its
   implementations, `FixedPointFilter`, `TrajectoryGraph`.
7. (done) Proofs of `PerfEngine`, of the queue order, the limits and the statistics of the
   pipeline, of the rows of the loader, of the devices, of the command line, of the C
   benchmark and of the storage program.
8. (done) Proofs of the search and the summary of `TrajectoryGraph` and of the percentiles
   of the storage program. What is left is beyond the prover: liveness and `ENABLED`.

## 3. Modules

### Pipeline

One behaviour is one call of `run_workload`. Its inner loops are the values of `phase`; an
action is one iteration of an inner loop or its exit, so a cycle of the simulator is a
deterministic sequence of steps and properties can be stated in the middle of a scan.
Program and configuration are chosen in `Init` and never change. A position is the source's
index + 1. `span` is the part of `dispatch_span` or `ready_span` still to scan; `moved` is
`issued`, `dispatched`, `decoded` or `fetched`.

| Actions | `simulator.cpp` |
|---|---|
| `BeginCycle`, `ReturnResult` | 109-110, 251-252 |
| `RetireOne`, `RetireEnd` | 111-119 |
| `TickKeep`, `TickFinish`, `TickEnd` | 121-146, with the two exceptions (130, 133) as phase "threw" |
| `WakeOne`, `WakeStall`, `WakeEnd` | 148-165 |
| `IssueOne`, `IssueStall`, `IssueSkip`, `IssueEnd` | 167-200 |
| `DispatchOne`, `DispatchFull`, `DispatchEnd` | 202-213 |
| `DecodeOne`, `DecodeEnd`, `FetchOne`, `FetchEnd` | 215-232 |
| `Account` | 234-248 |

`exec_slots` is walked in place: the source builds `remaining_slots` and then overwrites
`exec_slots`; the model drops the walked prefix, and `TickEnd` assigns `remaining_slots`.
Nothing reads `exec_slots` in between. Widths are natural numbers: the 32-bit in-use
counters are bounded by the configuration, which `ResourceAccounting` shows, and the 64-bit
counters would take 2^64 cycles. `memory_bytes` is not read by the simulator.

### PerfEngine

One behaviour is one call of `run_multithreaded`. The mutex is a variable that names its
holder. Everything between taking the mutex and giving it up touches only data guarded by
it, so it is one step; taking it, failing to take it, going to sleep and being woken are
steps of their own. `wait` with a predicate is `Wait`, a wakeup and `Relock`, after which
the predicate is evaluated again. An item is its id + 1; the XOR checksum is the set of
items applied an odd number of times, in which a repeated item cancels out exactly as it
does in the code. `run_single_threaded` is the operator that says what that function
reports. With `Spurious` a wait may return and `try_lock` may fail for no reason, as C++
allows. `MCPerfEngine` chooses in the initial state whether a run is quiet, without such
events, and states termination for the quiet ones.

### BoundedFifo, PthreadQueue, PthreadBenchmark

`BoundedFifo` is the promise: each call acts on a sequence at one instant between its
request and its result; a call that fails has no effect. `PthreadQueue` is
`pthread_queue.c`: ring, indices, count, the lock with its trylock and counters, the two
wait loops, `signal` and `broadcast`, and the error returns (`Faults`). A sleeping thread's
wait set is determined by its operation. `ImplementsFifo` maps the ring to the sequence
`Contents` and both share the variable `call`, the arguments and results of the threads.

`PthreadBenchmark` extends the queue with the program: main creates the workers, pushes,
closes, joins and reports; workers pop and process. `Invoke` is how a client starts a call,
`QueueStep` how a thread proceeds in it. With `Faults`, `pthread_create`, the lock, the
wait and `malloc` may fail. Returning from main ends every thread. The totals are sums over
the workers; here and in `StorageDatapath` a sum of naturals is the size of a disjoint union
(`Sum`, `Total`), a form that TLC evaluates and the provers can reason about.

### WorkloadLoader

One behaviour is one call of `load_workload_csv`: `OpenFile` or `OpenFails`, one action
per line (`SkipBlank`, `SkipHeader`, `AddRow`, or a rejection, which is any of the
exceptions of the loop body), then one `CheckOne` or `MissingDependency` per instruction.
A line is what the program tells apart in it. The dependency column is a sequence of
tokens and the separators between them, so that the choice of the separator, dropped "0"
and empty tokens, "00" (`OtherZero`), which is not dropped but read as 0, and `stoull`
stopping at the other separator are modelled. The result is a sequence of the records that
`Pipeline` calls `Instruction`.

### StorageDatapath

One behaviour is one run of the storage program: the parser, the loop of `run` (`RunOne`)
and `summarize`, each exception leading to exit code 1. Times are naturals in half
microseconds, sizes in units of 2048 bytes; rates are compared as exact fractions, so the
model says nothing of rounding. `queue_depth - 1` wraps at `SizeT`. `Sorted` puts each
value in its place, which is the number of smaller values plus the equal ones up to it
(`PlaceOf`): what `std::sort` does, in a form that can be proved about.

### AccelsimCli

A behaviour is a sequence of invocations of the command line program that share the
directory `reports/`. Each command is a straight line in the source (flags, loads,
simulations, directories, files), so an invocation is the sequence of its steps and a step
either goes on or throws. Only `benchmark` loops: `rest` is what is left of its list of
workloads, and `NextWorkload` an iteration, which skips a workload that does not exist. A
file is the invocation that wrote it and the workload it is about. A file may fail to open
(`OpenFails`: it keeps what it had) or to be written (`WriteFails`: it is cut off); the
program notices neither, and `failed` remembers both for the properties. `Kill` may cut
off the file being written. The loader and the simulation are one step each, modelled in
their own modules; that a simulation does not throw is `ResourceAccounting`, and one that
never returns ends in `Kill`. What the files say is formatting and left out.

### TrajectoryGraph

One behaviour is one run of the trajectory program: the lines, then the pending edges, then
the search. `Visit` is an iteration of the outer loop of `connected_components` and takes
any point not yet come to, since `points_` is an `unordered_map`; `Expand` takes the front
off the queue and `SeeNeighbor` looks at one neighbor of it. The points connected to a point
are defined as the smallest set that has it and that no edge of the file leaves (`Class`),
which needs no paths. Coordinates are integers. The code compares an angle with 20 degrees;
the model (`IsTurn`) compares the square of its cosine, to six digits, and the property
(`Bends`) the square of its tangent with 0.116978 / 0.883022, which is the same angle.

### NonblockingFifo, FwRingBuffer, RtlFifo, FixedPointFilter

`NonblockingFifo` is `BoundedQueue` of `include/accelsim/queue.h`, in a form that also
admits a push and a pop at once. `FwRingBuffer` (one action per function) and `RtlFifo` (one
action per clock edge, simultaneous assignments) are shown to implement it, with the
contents as the refinement mapping. Memory starts with arbitrary contents. The RTL pointers
wrap at `2^$clog2(DEPTH)`, so the design needs a power of two: `RtlFifoConstants`, which
`MCDevices` assumes with the other two modules' conditions (`DeviceConstants`).
`MCDevices` instantiates the three and runs one of them in each behaviour. `FixedPointFilter`
has the casts and the arithmetic shift of the source for any width: `half` is what one bit
less than the type counts, `one` the value that stands for 1. `lo` and `hi` only remember
the inputs.

## 4. Runs

| Run | Instance | Shows |
|---|---|---|
| `pipeline` | no instruction; two with backward dependencies over Compute and Load with latencies 0, 1, 3; three with latencies 0, 2; two and three with any dependencies (forward, cyclic, on themselves, on nothing); 11 configurations, 6 of them with a zero; under `FairSpec` | all safety properties of the pipeline, and that it returns for exactly the feasible inputs |
| `stall_reasons` | two Compute instructions, issue width 1 | violated: see findings |
| `engine` | 3 workers; 2 and 3 items (the last one short), capacities 0, 1 and 2, batches of 1 and 2, no items; with and without spurious wakeups | the safety properties; the run ends by the code's own notifications, exactly when there is room or no work |
| `lock_reduction` | 2 workers, 3 items, batches of 2 | violated: see findings |
| `pthread_queue` | 3 threads with 2 calls each of any kind, 2 items, capacity 2, faults and spurious wakeups | FIFO refinement, sufficient signals |
| `pthread_benchmark` | 3 workers, 3 tasks, capacity 2, no faults, fair | termination with the exact report |
| `pthread_benchmark_faults` | 2 workers, 3 tasks, faults and spurious wakeups | conservation, buffer bound, visible losses, the two ways to hang |
| `workload_loader` | all files of up to 3 lines over 51 rows, blank lines and headers; `U32` is 4 | closed result, rows in order, dependencies as written |
| `storage_datapath` | all files of up to 5 lines over 5 rows, blank lines and headers; depths 0, 2, 4 | rows counted, percentiles, classification, the two clocks |
| `accelsim_cli` | 2 invocations, 3 workloads (one missing, one malformed in turn), 2 seconds, in each 1 fault: a file not opened, a file not written, or a kill | bad input writes nothing, reports are whole but for files that failed |
| `trajectory_graph` | all 4-row graphs over 4 ids with every link, routes on a grid, all texts of up to 3 lines | components and summary of the file's graph |
| `devices` | ring buffer and RTL fifo with capacity 4, 2 values and arbitrary initial memory; filter with 8 bits, 4 of them fraction, all weights from 0 to 1, 10 samples | refinement of `NonblockingFifo` by both; bounded error over sequences of any length, no overflow |

Bounds. In the pipeline three instructions suffice for one to wait on another while a
third competes for its unit, and each configuration makes a different limit the tight one;
`MaxCycles` stops only runs that cannot return (a feasible run cut off by it would violate
`Terminates`; an infeasible one has long come to a cycle that repeats, as a run of three
instructions with these latencies returns within 18 cycles or not at all). In the engine
and the queue two sleeping threads and one more are what a lost or misdirected wakeup
needs; the ring wraps within three pushes. `pthread_queue`, the faults run and `engine` do
not check for deadlock: callers may stop calling, a queue whose workers all failed really
is stuck, and so is an engine with capacity 0; `HangsAreExplained` and the exact
`Terminates` say which hangs there are. The pipeline, the loader and the storage program
are single calls that end, so their safety runs do not check for deadlock either. Three
lines are a header or blank line with two rows that refer to each other; five requests on
a queue of four places are the smallest case in which the queue rate is exactly 0.40. Two
invocations of the command line are the one that leaves files behind and the one that must
overwrite them; one fault in each (`MaxFaults`) is enough for a file that is not its own
or not whole, and the theorems allow any number. Four points make two components of two,
and a path in whose middle the search may start. The ring and the fifo have finitely many
states, so all sequences of calls of any length are covered, as are all sequences of
samples. The command line and the trajectory program are runs that end.

Fairness. `run_workload` is a single thread, so `WF(Next)`. In the concurrent modules each
thread has weak fairness: the operating system keeps running a thread that can run. No
strong fairness on the mutex is needed, because a thread that is passed over is passed over
only finitely often (the work is finite). Wakeups without reason are never relied upon: the
termination properties are about runs without them.

## 5. Findings

* `stall_reasons`: README.md line 24 says every cycle without output gets a named stall
  reason. `simulator.cpp` 174-177 holds ready instructions back when `issue_width` is used
  up and counts nothing. In the run's trace the ready instruction waits a whole cycle in
  which nothing retires, and no counter moves.
* `lock_reduction`: a test (`tests/test_performance_engine.cpp` 165) and README.md line 454
  say that batching reduces lock acquisitions. A batch is what is queued when a worker
  arrives; if workers keep up, a batched run counts exactly as many. `LockAccounting` gives
  the bounds that do hold: between W + N / batch and W + N.

Not findings, but worth knowing: no zero width, unit, capacity or cyclic dependency is
rejected, and such a simulation never returns (`Feasible` says exactly which);
`queue_capacity` 0 makes the engine's producer wait for ever; a benchmark worker whose pop
fails ends in silence, and if all do, or if the lock of close fails, the program hangs
(`HangsAreExplained`); a dependency column that mixes both separators loses dependencies
without an error (`LoadedAsWritten` is stated for one separator); `SaturationRule` shows
that the storage program's `queue_depth_pressure` depends on the number of requests alone;
report files that cannot be opened or written go unnoticed, and with them a report may mix
two invocations after exit code 0, and a benchmark that meets a malformed workload leaves
the reports written before it; the fixed-point filter takes weights outside 0..1, with
which it overflows, and the RTL fifo depths that are no power of two.

## 6. Proofs

All theorems hold for every value of the constants that satisfies the named assumptions of
their modules. For the pipeline this is `PipelineConstants` (workloads are sequences of instructions, configurations records of
naturals, `MaxCycles` a natural). Nothing is assumed of the workload: duplicate ids, cyclic
or dangling dependencies and zero capacities are included.

`QueueFacts` has the lemmas about deques without repetitions: what removing the front,
appending, rotating and concatenating do to the elements.

`PipelineProofs` proves `TypeCorrect` and `OnePlace` from the inductive invariant `BaseInv`:
`TypeOK`, `SpanFits` (the part left to scan is no longer than the deque, so the front exists),
`IdleLocals` (the locals of the execute phase are empty outside it), `EachInOnePlace`,
`UnfetchedInFetch` (what is not fetched still has stage Fetch) and `CompletedAfterFetch`
(the stamp of a completed instruction is not before its fetch). `TypeOK` alone is not
inductive: the unsigned latency subtraction needs the last part, the deque heads need the
second and the typing of `stage` updates needs the deques to hold positions.

The rest of `PipelineProofs` adds, on top of `BaseInv`:
* `StageProgress`: an action property that follows from `BaseInv` alone;
* `DependenciesFirst`: strengthened with what a retired id means (some Done instruction has
  it and completed before the present cycle's wake phase) and with ready instructions having
  satisfied dependencies;
* `ResourcesExact`: strengthened with `SlotKinds`, each slot's `uses_memory` is the kind of
  its instruction, so that a release is charged to the counter the issue was;
* `LatencyExact`: strengthened with `Countdown`, issue cycle plus elapsed ticks;
* `ReturnIsComplete`: strengthened with `DoneCounted`, completed operations are the number
  of Done instructions;
* `StatsAreExact`: `StatsMatchTrace` together with `DoneCycles`, the pairs of a Done
  instruction and a cycle it was in flight, being finite. Retiring adds the pairs of one
  instruction, as many as its latency, and no step changes the times of a Done one;
* `OrderKept`: while `dispatch_q` is scanned it is two increasing parts, what is still to
  be looked at and what was put back, the second below the first (`ScanOrdered`), and all
  of it is below `decode_q` and `fetch_q` (`OrderInv`). The theorem states this for the
  middle of a scan and `ProgramOrder` for the rest; `ready_q` and `retire_q` are in no such
  order;
* `CapacitiesHold`: the slots are distinct instructions in flight, so there are no more of
  them than `ResourcesExact` admits; the deques grow only by what was compared with their
  capacity, the scans that rotate them included;
* `IssueInOrder`, an action property: what the scan has put off before the issue width is
  used up found no free unit or port, and issuing frees none (`PutOffBlocked`).

The first part of `PthreadProofs` proves the POSIX queue for any number of threads and calls, any
capacity above zero, with and without faults and spurious wakeups (`PthreadQueueConstants`:
the set of threads is finite and the capacity positive). The
inductive invariant `QueueInv` is `QueueTypeOK`, `CallInv` (the mutex names exactly the
thread that is inside the critical section, and a thread's position agrees with the call it
has under way) and `RingInv` (`tail` is `(head + count) % Capacity`).
* `QueueTypeCorrect` follows from `QueueInv`; the types alone are not inductive, because an
  unlock or a copy to `*item` is well typed only for a thread that is in a call.
* `SignalsAreEnough`: `SignalsSuffice` is inductive on top of `QueueInv`. The argument
  counts: a signal wakes one of the threads asleep on its condition, or there is none, and
  the number of threads about to take the mutex grows by what a push or a pop makes possible.
* `QueueIsFifo`: every step is a step of `BoundedFifo` or leaves `Contents` and `call` as
  they were. Lemmas about `RingSeq`, the sequence a ring holds, show that the write at
  `tail` appends and the advance of `head` removes the first element, wrapping included;
  `RingInv` is what makes the slot written the one behind the last.

The second part proves three invariants of the benchmark program, for any number of workers
and tasks, with and without faults (`PthreadBenchmarkConstants`
as well). Their common invariant
`BenchInv` is `QueueInv` with
* `BenchTypeOK`, the types of the program's own variables;
* `CallsAgree`: where main and each worker are agrees with the call they have under way, so
  that a result is looked at once and by the thread that asked for it;
* `OneHolder`: an item is in one slot of the ring, in one worker's hand or in one checksum;
* `Counts`: what is in the ring, in hand and counted adds up to what was pushed, the
  allocations to the items in the checksums, and no worker has more latencies than tasks.

Every queue step moves at most one item (`QueueResult`, `ItemPushed`, `ItemPopped`), and a
sum over workers changes by what one of them adds. `TasksAreConserved`,
`LatenciesAlwaysFit` and `LossesAreVisible` follow.

`WorkloadLoaderProofs` proves `LoaderTypeCorrect` and `LoadedClosed` for every file
(`LoaderConstants`: lines are blank, headers or rows, `U32` is above 1). The invariant adds
to the types that `ids` is exactly the set of ids of the instructions, each with its own
(`IdsAgree`), that latencies are positive (`LatencySet`), and that the dependencies of the
instructions already looked at are in `ids` (`CheckedDeps`): the property speaks only of the
end and nothing in it says what the two loops have established on the way.
`LoadedFaithfully` says that the instructions are the data rows of the file in order. "The
k-th data row" is counted: `Rank`, in `QueueFacts`, is the number of data lines up to a
line, and `RowsInv` says that the instructions so far are the rows numbered 1 to their
count (`LinesLoaded`), that `first_line` holds exactly as long as all lines were blank
(`FirstLine`), and that the second loop starts when no line is left (`AllRead`). For a column with one separator, reading a dependency
list with either one gives the same tokens (`SplitEverywhere`, `OneSeparator`).

`PerfEngineProofs` proves all five invariants of the engine, for any number of workers and
items, any capacity and batch size, with and without spurious wakeups:
* `EngineTypes` states `TypeOK` and `MutexInv` (the mutex names exactly the thread that is
  inside). With `StageInv` (how far main is, and that a worker on its way out has seen the
  producer finished and the deque empty) they are the inductive invariant `Control`;
* `EngineWakeups`: `NoLostWakeup` is inductive on top of `Control`. The case that takes care
  is the last `notify_all`, made without the lock;
* `EngineExactlyOnce`: `ExactlyOnce` is inductive on top of `Control` as well, with a lemma
  on how a batch splits the deque;
* `EngineLockAccounting` from `CountInv`, `BatchInv` and `ContentionInv`. What the workers
  have counted is a sum over threads. Sums are turned into cardinalities: `Units(A, c)` is
  the set of pairs of a thread of A and a number up to its counter, and one more task or
  locking adds one pair. Every locking but a worker's last took between 1 and
  `queue_batch_size` items;
* `EngineSameAsSingleThreaded`: when all workers have ended, the checksum holds every item
  once, the merged counters are their number (`CountInv`), and an element lies in the chunk
  that its index divided by `chunk_size` names, and in no other (`ChunkOf`).

`StorageDatapathProofs` proves all four properties of what the storage program prints, for
every file, configuration and number of requests (`StorageConstants`). Nothing is said of a
summary before it exists, so `StorageInv` follows the program:
* `LinesInv`: the requests so far, the reads and the hits among them, are as many as the
  data lines of their kinds up to the present line (`Rank` again), all of these parsed, and
  `first` holds exactly while all lines were blank;
* `OrderInv`: what has been read, run and printed in each state;
* `DepthInv`: the k-th request met `min(k, max_queue_depth)` requests;
* `BusyInv`: the clock of arrivals is two units per result and, while no latency is below
  that interval, the device's clock is the sum of the latencies plus the first arrival.

`RowsAllCounted`, `SaturationIsArithmetic` (the requests that meet a full queue are an
interval, so the comparison with 0.40 is a linear inequality) and `RuntimeIsClockTime`
follow. `PercentilesAreSound` needs to know what sorting does. No two values have the same
place (`AheadFacts`), so on a finite set every place is taken once and `Sorted` is a
permutation (`PlaceFacts`); a value with a smaller place is not larger (`SortedFacts`), and
at least i values are not above the i-th (`SortedCounts`). Interpolation
between neighbors stays between them and grows with the position (`BetweenFacts`,
`BetweenAscends`), which gives the order of the percentiles and how many values lie at or
below each (`PercentileFacts`).

The first part of `SmallProgramProofs` proves the three devices for any parameters that `DeviceConstants` admits
(capacity above 0, depth a power of two, any width, weights from 0 to 1, any samples):
* `RingRefinesFifo` and `RtlRefinesFifo`: both rest on the same facts of a ring, that
  appending writes the slot `(head + count) % capacity` and removing moves the head
  (`RingPush`, `RingPop`); the RTL fifo may do both at one edge, and then the slot written
  is not the one read. The invariants are the ranges and `wr_ptr`, or `tail`, being where
  the ring ends;
* `FilterStaysInRange`: a quotient rounded down is above the exact value less one unit, so
  a step loses less than two units; with weight alpha, a state that is 2 / alpha units
  below its inputs gets that back by the next input (`Share`, `Mean`, `Exact`). `FilterInv`
  has the property together with the ranges that keep every cast from wrapping.

The second part proves both properties of the trajectory program, `ComponentsCounted` and
`SummaryOfFile`, for every file (`TrajectoryConstants`: lines are blank, headers or rows).
The inductive invariant `TrajectoryInv` follows the program:
* `ParseInv`: of the lines read, every data line is a row that parses (`RowsRead`), a point
  stands where the last row with its id puts it (`PointsRead`), the route is the ids of the
  rows in order (`RouteRead`), and the pending edges are the rows with a next (`PendingRead`);
* `EdgesEntered` and `Adjacency`: the edges entered are the first of the pending ones, both
  ends of each are points, and m is in the list of n exactly if an edge joins the two;
* `Searching`: what the outer loop has come to is visited, the neighbors of a visited point
  are visited as well, save those of a point in the queue and those still in `neighbors`,
  and `components` is the number of classes with a visited point.

When the queue is empty no edge leaves the visited set (`VisitedIsClosed`), so it holds the
whole class of each of its points; a point not in it is in a class of its own
(`ClassFacts`), so the next `Visit` counts a new one. No induction over paths is needed,
because a class is an intersection of closed sets and the file's edges go both ways.
`SummaryOfFile` adds the counts and the turns: by the identity of Lagrange,
|v|^2 |w|^2 = (v.w)^2 + (v x w)^2, the comparison of the cosine is the one of the tangent
for all integers (`TurnIsBend`).

`AccelsimCliProofs` proves both properties of the command line for any workloads, any of
them missing or malformed, any seconds and any number of invocations
(`CliConstants`: the list of workloads has no repetitions). Neither property is inductive: both speak
of invocations that have ended. `CliInv` says of a running one:
* `CleanBefore`: as long as a run or comparison has input to read, no file is its own, and
  no input comes after a file among its steps (`InputFirst`);
* `Unbroken`: the files of a directory are written in one go (`Contiguous`), and of one that
  has been started all files come before anything that can throw. So an exception finds a
  directory untouched or complete;
* `Accounted`: every file of every report is written, among the steps, or of a workload that
  benchmark has still to come to, and of those nothing is written yet (`Untouched`);
* `OwnFiles`: nothing but files of these reports is written.

That the steps of each command have these shapes is `RunShape`, `CompareShape` and
`BenchmarkShape`, built up from how the shapes behave under concatenation.

Only model-checked:
* liveness (`Terminates` of three runs) and `HangsAreExplained`: fairness and `ENABLED`
  are outside the prover. Every other property of a passing run is a theorem.

## 7. Not modelled

* Measured times of the engine and the benchmark, and what is computed from nothing else:
  throughput, `percentile` and `classify_bottleneck` of the engine, the two profile
  programs that print them, and the regression gate, which compares them with thresholds.
* Rounding of doubles, distances in the trajectory graph, printed layouts, the text of
  reports, argument counts.
* The arithmetic of `process_work` and `process_item`; destruction of the POSIX queue.
* The arbiter and the register file: each is a single assignment.
* `memory_controller.cpp`, `compute_unit.cpp`, `trace_writer.cpp` and `main.cpp`: the class
  `Simulator` of `include/accelsim/simulator.h` that would drive them has no definition.
* Python and shell scripts, which run external tools and format files.
