------------------------------ MODULE Pipeline ------------------------------
(***************************************************************************)
(* The cycle-driven instruction pipeline: run_workload of                  *)
(* src/simulator.cpp, with deps_satisfied (src/scheduler.cpp),             *)
(* is_memory_op (core/pipeline.hpp) and the counters of model/stats.hpp.   *)
(*                                                                         *)
(* One iteration of the source's main loop is one cycle.  Its eight inner  *)
(* loops are the phases below; each action is one iteration of an inner    *)
(* loop, or its exit, so the phases always run in the source's order.      *)
(* A position in the program is 1..Len(program), the source's index + 1.   *)
(***************************************************************************)
EXTENDS Naturals, Sequences, FiniteSets, Functions

CONSTANTS
    Programs,   \* the workloads a run may be given
    Configs,    \* the SimulatorConfig values a run may be given
    MaxCycles   \* bound on the cycles explored of a run that never finishes

OpType == {"Compute", "Load", "Store"}

Instruction ==
    [id : Nat, type : OpType, execute_latency : Nat, deps : SUBSET Nat]

SimulatorConfig ==
    [fetch_width : Nat, decode_width : Nat, dispatch_width : Nat,
     issue_width : Nat, compute_units : Nat, memory_ports : Nat,
     dispatch_queue_capacity : Nat, ready_queue_capacity : Nat]

ASSUME PipelineConstants ==
    /\ Programs \subseteq Seq(Instruction)
    /\ Configs \subseteq SimulatorConfig
    /\ MaxCycles \in Nat

VARIABLES
    program, config,               \* the arguments of run_workload
    phase,                         \* the inner loop being run
    fetch_q, decode_q, dispatch_q, ready_q, retire_q, exec_slots,
    remaining_slots, finished,     \* locals of the execute phase
    span,                          \* dispatch_span or ready_span still to scan
    moved,                         \* issued, dispatched, decoded or fetched
    next_to_fetch, cycle, compute_in_use, memory_in_use, retired_ids,
    stage, enqueue_cycle, issue_cycle, complete_cycle,   \* by position
    stats

args   == <<program, config>>
queues == <<fetch_q, decode_q, dispatch_q, ready_q, retire_q, exec_slots>>
locals == <<remaining_slots, finished, span, moved>>
core   == <<next_to_fetch, cycle, compute_in_use, memory_in_use, retired_ids>>
trace  == <<stage, enqueue_cycle, issue_cycle, complete_cycle>>
vars   == <<args, phase, queues, locals, core, trace, stats>>

Stages == <<"Fetch", "Decode", "Dispatch", "Ready", "Execute", "Retire", "Done">>
Stage  == {Stages[k] : k \in 1..7}
StageOrder(s) == CHOOSE k \in 1..7 : Stages[k] = s

Phases == {"loop", "retire", "execute", "wake", "issue", "dispatch",
           "decode", "fetch", "account", "returned", "threw"}

StallReason == {"DispatchQueueFull", "ReadyQueueFull", "WaitingDependency",
                "NoComputeUnit", "NoMemoryPort"}
BusyStage   == {"Fetch", "Decode", "Dispatch", "Issue", "Execute", "Retire"}
QueueName   == {"fetch_q", "decode_q", "dispatch_q", "ready_q",
                "execute_slots", "retire_q"}

Positions == 1..Len(program)
ExecSlot  == [index : Positions, remaining : Nat, uses_memory : BOOLEAN]

Indices(slots) == {slots[k].index : k \in DOMAIN slots}
Greater(a, b) == IF a < b THEN b ELSE a
-----------------------------------------------------------------------------
is_memory_op(type) == type \in {"Load", "Store"}

\* Mutant: an instruction that completed in this very cycle counts as retired.
deps_satisfied_Completed(p) ==
    program[p].deps \subseteq
        retired_ids \cup {program[q].id : q \in Range(retire_q)}

\* Every dependency has retired; a dependency is an id, not a position.
deps_satisfied(p) == program[p].deps \subseteq retired_ids

\* Mutant: instructions still executing are not counted as work.
has_work_left_NoSlots ==
    \/ next_to_fetch <= Len(program)
    \/ fetch_q # <<>> \/ decode_q # <<>> \/ dispatch_q # <<>>
    \/ ready_q # <<>> \/ retire_q # <<>>

has_work_left ==
    \/ next_to_fetch <= Len(program)
    \/ fetch_q # <<>> \/ decode_q # <<>> \/ dispatch_q # <<>>
    \/ ready_q # <<>> \/ retire_q # <<>> \/ exec_slots # <<>>

\* bump(stats.stall_counts, reason)
Stall(reason) == stats' = [stats EXCEPT !.stall_counts[reason] = @ + 1]

\* Mutants: pop_front without push_back, and push_back without pop_front.
Rotate_Lost(q) == Tail(q)
Rotate_Dup(q) == Append(q, Head(q))

\* front, pop_front, push_back: the front instruction is put off.
Rotate(q) == Append(Tail(q), Head(q))

Init ==
    /\ program \in Programs
    /\ config \in Configs
    /\ phase = "loop"
    /\ fetch_q = <<>> /\ decode_q = <<>> /\ dispatch_q = <<>>
    /\ ready_q = <<>> /\ retire_q = <<>> /\ exec_slots = <<>>
    /\ remaining_slots = <<>> /\ finished = <<>> /\ span = 0 /\ moved = 0
    /\ next_to_fetch = 1 /\ cycle = 0
    /\ compute_in_use = 0 /\ memory_in_use = 0 /\ retired_ids = {}
    /\ stage = [p \in Positions |-> "Fetch"]
    /\ enqueue_cycle = [p \in Positions |-> 0]
    /\ issue_cycle = [p \in Positions |-> 0]
    /\ complete_cycle = [p \in Positions |-> 0]
    /\ stats = [total_cycles |-> 0, completed_ops |-> 0, total_latency |-> 0,
                stall_counts |-> [r \in StallReason |-> 0],
                stage_busy_cycles |-> [b \in BusyStage |-> 0],
                max_queue_occupancy |-> [q \in QueueName |-> 0]]
-----------------------------------------------------------------------------
(* while (has_work_left(...)): enter a cycle, or return the result.        *)

BeginCycle ==
    /\ phase = "loop" /\ has_work_left
    /\ cycle < MaxCycles
    /\ phase' = "retire"
    /\ UNCHANGED <<args, queues, locals, core, trace, stats>>

ReturnResult ==
    /\ phase = "loop" /\ ~has_work_left
    /\ phase' = "returned"
    /\ stats' = [stats EXCEPT !.total_cycles = cycle]
    /\ UNCHANGED <<args, queues, locals, core, trace>>

(* Retire what completed in the previous cycle.                            *)

\* Mutants: operands swapped; latency measured from issue.
Latency_Swapped(p) == enqueue_cycle[p] - complete_cycle[p]
Latency_FromIssue(p) == complete_cycle[p] - issue_cycle[p]

Latency(p) == complete_cycle[p] - enqueue_cycle[p]

RetireOne ==
    /\ phase = "retire" /\ retire_q # <<>>
    /\ LET p == Head(retire_q) IN
       /\ retire_q' = Tail(retire_q)
       /\ stage' = [stage EXCEPT ![p] = "Done"]
       /\ retired_ids' = retired_ids \cup {program[p].id}
       /\ stats' = [stats EXCEPT
                      !.completed_ops = @ + 1,
                      !.total_latency = @ + Latency(p)]
    /\ UNCHANGED <<args, phase, fetch_q, decode_q, dispatch_q, ready_q, exec_slots,
                   locals, next_to_fetch, cycle, compute_in_use, memory_in_use,
                   enqueue_cycle, issue_cycle, complete_cycle>>

RetireEnd ==
    /\ phase = "retire" /\ retire_q = <<>>
    /\ phase' = "execute"
    /\ remaining_slots' = <<>> /\ finished' = <<>>
    /\ UNCHANGED <<args, queues, span, moved, core, trace, stats>>

(* Tick the execution slots.  The source walks exec_slots and afterwards   *)
(* overwrites it with remaining_slots; here the walked prefix is dropped.  *)

\* Mutant: an unguarded decrement wraps a latency of 0 to a huge value.
Ticked_Wraps(slot) ==
    [slot EXCEPT !.remaining = IF @ > 0 THEN @ - 1 ELSE MaxCycles + 1]

Ticked(slot) ==
    [slot EXCEPT !.remaining = IF @ > 0 THEN @ - 1 ELSE @]

TickKeep ==
    /\ phase = "execute" /\ exec_slots # <<>>
    /\ Ticked(Head(exec_slots)).remaining # 0
    /\ remaining_slots' = Append(remaining_slots, Ticked(Head(exec_slots)))
    /\ exec_slots' = Tail(exec_slots)
    /\ UNCHANGED <<args, phase, fetch_q, decode_q, dispatch_q, ready_q, retire_q,
                   finished, span, moved, core, trace, stats>>

\* Releasing a counter that is 0 throws std::runtime_error(".. underflow").
TickFinish ==
    /\ phase = "execute" /\ exec_slots # <<>>
    /\ LET slot   == Ticked(Head(exec_slots))
           in_use == IF slot.uses_memory THEN memory_in_use ELSE compute_in_use IN
       /\ slot.remaining = 0
       /\ finished' = Append(finished, slot.index)
       /\ phase' = IF in_use = 0 THEN "threw" ELSE phase
       /\ memory_in_use' = IF slot.uses_memory /\ in_use > 0
                           THEN memory_in_use - 1 ELSE memory_in_use
       /\ compute_in_use' = IF ~slot.uses_memory /\ in_use > 0
                            THEN compute_in_use - 1 ELSE compute_in_use
    /\ exec_slots' = Tail(exec_slots)
    /\ UNCHANGED <<args, fetch_q, decode_q, dispatch_q, ready_q, retire_q,
                   remaining_slots, span, moved, next_to_fetch, cycle,
                   retired_ids, trace, stats>>

\* Mutant: the scan of dispatch_q stops after issue_width instructions.
dispatch_span_Short ==
    IF Len(dispatch_q) < config.issue_width THEN Len(dispatch_q)
                                            ELSE config.issue_width

dispatch_span == Len(dispatch_q)

TickEnd ==
    /\ phase = "execute" /\ exec_slots = <<>>
    /\ exec_slots' = remaining_slots
    /\ complete_cycle' = [p \in Positions |->
            IF p \in Range(finished) THEN cycle ELSE complete_cycle[p]]
    /\ stage' = [p \in Positions |->
            IF p \in Range(finished) THEN "Retire" ELSE stage[p]]
    /\ retire_q' = retire_q \o finished
    /\ remaining_slots' = <<>> /\ finished' = <<>>    \* out of use from here
    /\ phase' = "wake" /\ span' = dispatch_span
    /\ UNCHANGED <<args, fetch_q, decode_q, dispatch_q, ready_q, moved, core,
                   enqueue_cycle, issue_cycle, stats>>

(* Move dispatched instructions whose dependencies retired to ready_q.     *)

WakeOne ==
    /\ phase = "wake" /\ span > 0
    /\ LET p == Head(dispatch_q) IN
       /\ deps_satisfied(p)
       /\ Len(ready_q) < config.ready_queue_capacity
       /\ stage' = [stage EXCEPT ![p] = "Ready"]
       /\ ready_q' = Append(ready_q, p)
    /\ dispatch_q' = Tail(dispatch_q)
    /\ span' = span - 1
    /\ UNCHANGED <<args, phase, fetch_q, decode_q, retire_q, exec_slots,
                   remaining_slots, finished, moved, core, enqueue_cycle,
                   issue_cycle, complete_cycle, stats>>

WakeStall ==
    /\ phase = "wake" /\ span > 0
    /\ LET p == Head(dispatch_q) IN
       /\ \/ /\ deps_satisfied(p)
             /\ Len(ready_q) >= config.ready_queue_capacity
             /\ Stall("ReadyQueueFull")
          \/ /\ ~deps_satisfied(p)
             /\ Stall("WaitingDependency")
       /\ dispatch_q' = Rotate(dispatch_q)
    /\ span' = span - 1
    /\ UNCHANGED <<args, phase, fetch_q, decode_q, ready_q, retire_q, exec_slots,
                   remaining_slots, finished, moved, core, trace>>

WakeEnd ==
    /\ phase = "wake" /\ span = 0
    /\ phase' = "issue" /\ span' = Len(ready_q) /\ moved' = 0
    /\ UNCHANGED <<args, queues, remaining_slots, finished, core, trace, stats>>

(* Issue ready instructions to a free compute unit or memory port.         *)

\* Mutant: <= where the source refuses at in_use >= limit.
PortFree_OneMore(p) ==
    IF is_memory_op(program[p].type)
    THEN memory_in_use <= config.memory_ports
    ELSE compute_in_use <= config.compute_units

PortFree(p) ==
    IF is_memory_op(program[p].type)
    THEN memory_in_use < config.memory_ports
    ELSE compute_in_use < config.compute_units

\* Mutant: an instruction holds its unit for one cycle too many.
SlotFor_OneMore(p) ==
    [index |-> p, remaining |-> program[p].execute_latency + 1,
     uses_memory |-> is_memory_op(program[p].type)]

SlotFor(p) ==
    [index |-> p, remaining |-> program[p].execute_latency,
     uses_memory |-> is_memory_op(program[p].type)]

IssueOne ==
    /\ phase = "issue" /\ span > 0 /\ moved < config.issue_width
    /\ LET p   == Head(ready_q)
           mem == is_memory_op(program[p].type) IN
       /\ PortFree(p)
       /\ memory_in_use' = IF mem THEN memory_in_use + 1 ELSE memory_in_use
       /\ compute_in_use' = IF mem THEN compute_in_use ELSE compute_in_use + 1
       /\ stage' = [stage EXCEPT ![p] = "Execute"]
       /\ issue_cycle' = [issue_cycle EXCEPT ![p] = cycle]
       /\ exec_slots' = Append(exec_slots, SlotFor(p))
    /\ ready_q' = Tail(ready_q)
    /\ moved' = moved + 1 /\ span' = span - 1
    /\ UNCHANGED <<args, phase, fetch_q, decode_q, dispatch_q, retire_q,
                   remaining_slots, finished, next_to_fetch, cycle, retired_ids,
                   enqueue_cycle, complete_cycle, stats>>

IssueStall ==
    /\ phase = "issue" /\ span > 0 /\ moved < config.issue_width
    /\ LET p == Head(ready_q) IN
       /\ ~PortFree(p)
       /\ Stall(IF is_memory_op(program[p].type)
                THEN "NoMemoryPort" ELSE "NoComputeUnit")
       /\ ready_q' = Rotate(ready_q)
    /\ span' = span - 1
    /\ UNCHANGED <<args, phase, fetch_q, decode_q, dispatch_q, retire_q, exec_slots,
                   remaining_slots, finished, moved, core, trace>>

\* Mutant: the put-off instruction resets the count of issued ones.
IssueSkip_Resets ==
    /\ phase = "issue" /\ span > 0 /\ moved >= config.issue_width
    /\ ready_q' = Rotate(ready_q)
    /\ span' = span - 1 /\ moved' = 0
    /\ UNCHANGED <<args, phase, fetch_q, decode_q, dispatch_q, retire_q, exec_slots,
                   remaining_slots, finished, core, trace, stats>>

\* issue_width is used up: the rest of the queue is rotated without a stall.
IssueSkip ==
    /\ phase = "issue" /\ span > 0 /\ moved >= config.issue_width
    /\ ready_q' = Rotate(ready_q)
    /\ span' = span - 1
    /\ UNCHANGED <<args, phase, fetch_q, decode_q, dispatch_q, retire_q, exec_slots,
                   remaining_slots, finished, moved, core, trace, stats>>

IssueEnd ==
    /\ phase = "issue" /\ span = 0
    /\ phase' = "dispatch" /\ moved' = 0
    /\ UNCHANGED <<args, queues, remaining_slots, finished, span, core, trace, stats>>

(* Dispatch, decode and fetch, up to the width of each stage.              *)

\* Mutant: > where the source refuses at size >= capacity.
DispatchFits_OneMore == Len(dispatch_q) <= config.dispatch_queue_capacity

DispatchFits == Len(dispatch_q) < config.dispatch_queue_capacity

DispatchOne ==
    /\ phase = "dispatch"
    /\ decode_q # <<>> /\ moved < config.dispatch_width
    /\ DispatchFits
    /\ stage' = [stage EXCEPT ![Head(decode_q)] = "Dispatch"]
    /\ dispatch_q' = Append(dispatch_q, Head(decode_q))
    /\ decode_q' = Tail(decode_q)
    /\ moved' = moved + 1
    /\ UNCHANGED <<args, phase, fetch_q, ready_q, retire_q, exec_slots,
                   remaining_slots, finished, span, core, enqueue_cycle,
                   issue_cycle, complete_cycle, stats>>

DispatchFull ==
    /\ phase = "dispatch"
    /\ decode_q # <<>> /\ moved < config.dispatch_width
    /\ ~DispatchFits
    /\ Stall("DispatchQueueFull")
    /\ phase' = "decode" /\ moved' = 0
    /\ UNCHANGED <<args, queues, remaining_slots, finished, span, core, trace>>

DispatchEnd ==
    /\ phase = "dispatch"
    /\ decode_q = <<>> \/ moved >= config.dispatch_width
    /\ phase' = "decode" /\ moved' = 0
    /\ UNCHANGED <<args, queues, remaining_slots, finished, span, core, trace, stats>>

DecodeOne ==
    /\ phase = "decode"
    /\ fetch_q # <<>> /\ moved < config.decode_width
    /\ stage' = [stage EXCEPT ![Head(fetch_q)] = "Decode"]
    /\ decode_q' = Append(decode_q, Head(fetch_q))
    /\ fetch_q' = Tail(fetch_q)
    /\ moved' = moved + 1
    /\ UNCHANGED <<args, phase, dispatch_q, ready_q, retire_q, exec_slots,
                   remaining_slots, finished, span, core, enqueue_cycle,
                   issue_cycle, complete_cycle, stats>>

DecodeEnd ==
    /\ phase = "decode"
    /\ fetch_q = <<>> \/ moved >= config.decode_width
    /\ phase' = "fetch" /\ moved' = 0
    /\ UNCHANGED <<args, queues, remaining_slots, finished, span, core, trace, stats>>

FetchOne ==
    /\ phase = "fetch"
    /\ next_to_fetch <= Len(program) /\ moved < config.fetch_width
    /\ stage' = [stage EXCEPT ![next_to_fetch] = "Fetch"]
    /\ enqueue_cycle' = [enqueue_cycle EXCEPT ![next_to_fetch] = cycle]
    /\ fetch_q' = Append(fetch_q, next_to_fetch)
    /\ next_to_fetch' = next_to_fetch + 1
    /\ moved' = moved + 1
    /\ UNCHANGED <<args, phase, decode_q, dispatch_q, ready_q, retire_q, exec_slots,
                   remaining_slots, finished, span, cycle, compute_in_use,
                   memory_in_use, retired_ids, issue_cycle, complete_cycle, stats>>

FetchEnd ==
    /\ phase = "fetch"
    /\ next_to_fetch > Len(program) \/ moved >= config.fetch_width
    /\ phase' = "account"
    /\ UNCHANGED <<args, queues, locals, core, trace, stats>>

(* The per-cycle statistics, and cycle += 1.                               *)

Busy ==
    [Fetch    |-> next_to_fetch <= Len(program),
     Decode   |-> fetch_q # <<>>,
     Dispatch |-> decode_q # <<>> \/ dispatch_q # <<>>,
     Issue    |-> ready_q # <<>>,
     Execute  |-> exec_slots # <<>>,
     Retire   |-> retire_q # <<>>]

Occupancy ==
    [fetch_q       |-> Len(fetch_q),    decode_q |-> Len(decode_q),
     dispatch_q    |-> Len(dispatch_q), ready_q  |-> Len(ready_q),
     execute_slots |-> Len(exec_slots), retire_q |-> Len(retire_q)]

Account ==
    /\ phase = "account"
    /\ stats' = [stats EXCEPT
         !.stage_busy_cycles =
             [b \in BusyStage |-> IF Busy[b] THEN @[b] + 1 ELSE @[b]],
         !.max_queue_occupancy =
             [q \in QueueName |-> Greater(@[q], Occupancy[q])]]
    /\ cycle' = cycle + 1
    /\ phase' = "loop"
    /\ UNCHANGED <<args, queues, locals, next_to_fetch, compute_in_use,
                   memory_in_use, retired_ids, trace>>
-----------------------------------------------------------------------------
Next ==
    \/ BeginCycle \/ ReturnResult
    \/ RetireOne \/ RetireEnd
    \/ TickKeep \/ TickFinish \/ TickEnd
    \/ WakeOne \/ WakeStall \/ WakeEnd
    \/ IssueOne \/ IssueStall \/ IssueSkip \/ IssueEnd
    \/ DispatchOne \/ DispatchFull \/ DispatchEnd
    \/ DecodeOne \/ DecodeEnd
    \/ FetchOne \/ FetchEnd
    \/ Account

Spec == Init /\ [][Next]_vars

\* run_workload is one thread of straight-line loops: it keeps running.
FairSpec == Spec /\ WF_vars(Next)
-----------------------------------------------------------------------------
(***************************************************************************)
(* Properties.                                                             *)
(***************************************************************************)

QueueType ==
    /\ fetch_q \in Seq(Positions) /\ decode_q \in Seq(Positions)
    /\ dispatch_q \in Seq(Positions) /\ ready_q \in Seq(Positions)
    /\ retire_q \in Seq(Positions) /\ finished \in Seq(Positions)

SlotType ==
    /\ exec_slots \in Seq(ExecSlot) /\ remaining_slots \in Seq(ExecSlot)

CoreType ==
    /\ program \in Seq(Instruction) /\ config \in SimulatorConfig
    /\ phase \in Phases
    /\ span \in Nat /\ moved \in Nat
    /\ next_to_fetch \in 1..(Len(program) + 1)
    /\ cycle \in Nat /\ compute_in_use \in Nat /\ memory_in_use \in Nat
    /\ retired_ids \subseteq Nat

TraceType ==
    /\ stage \in [Positions -> Stage]
    /\ enqueue_cycle \in [Positions -> Nat]
    /\ issue_cycle \in [Positions -> Nat]
    /\ complete_cycle \in [Positions -> Nat]

StatsType ==
    stats \in [total_cycles : Nat, completed_ops : Nat, total_latency : Nat,
              stall_counts : [StallReason -> Nat],
              stage_busy_cycles : [BusyStage -> Nat],
              max_queue_occupancy : [QueueName -> Nat]]

\* The locals of run_workload, the instruction fields it writes and its
\* counters have the types the code declares; in particular no unsigned
\* counter (total_latency, the in-use counts) ever goes below zero.
TypeOK == CoreType /\ QueueType /\ SlotType /\ TraceType /\ StatsType

DistinctSlots(slots) ==
    \A i, j \in DOMAIN slots : slots[i].index = slots[j].index => i = j
Fetched(s) == {p \in 1..(next_to_fetch - 1) : stage[p] = s}

DequesMatchStages ==
    /\ Range(fetch_q) = Fetched("Fetch") /\ IsInjective(fetch_q)
    /\ Range(decode_q) = Fetched("Decode") /\ IsInjective(decode_q)
    /\ Range(dispatch_q) = Fetched("Dispatch") /\ IsInjective(dispatch_q)
    /\ Range(ready_q) = Fetched("Ready") /\ IsInjective(ready_q)
    /\ Range(retire_q) = Fetched("Retire") /\ IsInjective(retire_q)

SlotsMatchStage ==
    /\ DistinctSlots(exec_slots) /\ DistinctSlots(remaining_slots)
    /\ IsInjective(finished)
    /\ Indices(exec_slots) \cap Indices(remaining_slots) = {}
    /\ Indices(exec_slots) \cap Range(finished) = {}
    /\ Indices(remaining_slots) \cap Range(finished) = {}
    /\ Indices(exec_slots) \cup Indices(remaining_slots) \cup Range(finished)
           = Fetched("Execute")

\* No instruction is lost or duplicated while it is popped, put off and pushed
\* again between the deques: every fetched instruction that is not Done is
\* held exactly once, by the deque or slot vector its stage field names.
EachInOnePlace == DequesMatchStages /\ SlotsMatchStage

\* The instructions that hold a memory port, and those that hold a unit.
InFlight == Indices(exec_slots) \cup Indices(remaining_slots)
PortHolders == {p \in InFlight : is_memory_op(program[p].type)}
UnitHolders == {p \in InFlight : ~is_memory_op(program[p].type)}

\* compute_in_use and memory_in_use count exactly the instructions in flight
\* on each resource and never exceed it, and so the two "resource underflow"
\* exceptions of the execute phase are unreachable.
ResourceAccounting ==
    /\ memory_in_use = Cardinality(PortHolders)
    /\ compute_in_use = Cardinality(UnitHolders)
    /\ memory_in_use <= config.memory_ports
    /\ compute_in_use <= config.compute_units
    /\ phase # "threw"

Issued == {p \in Positions : stage[p] \in {"Execute", "Retire", "Done"}}

\* No read before write: when an instruction has been issued, each of its
\* dependencies is the id of an instruction that had retired, having
\* completed in a strictly earlier cycle than the issue.
DependencyOrder ==
    \A p \in Issued : \A d \in program[p].deps :
        \E q \in Positions : /\ program[q].id = d /\ stage[q] = "Done"
                             /\ complete_cycle[q] < issue_cycle[p]

\* A unit is held for exactly the instruction's latency, with 0 counted as 1:
\* the slot's countdown, the tick before the issue of the same cycle and the
\* stamp of complete_cycle agree.
ExactLatency ==
    \A p \in Positions : stage[p] \in {"Retire", "Done"} =>
        complete_cycle[p] = issue_cycle[p] + Greater(1, program[p].execute_latency)

\* Putting instructions off by rotating dispatch_q never reorders it: after
\* the scan the in-order queues are in program order again, although the
\* scan removed any subset of their elements.
ProgramOrder ==
    LET Ascending(q) == \A i, j \in 1..Len(q) : i < j => q[i] < q[j] IN
    /\ Ascending(decode_q \o fetch_q)
    /\ phase # "wake" => Ascending(dispatch_q \o decode_q)

\* The scan of ready_q never issues an instruction past one queued before it
\* that needs the same resource: in the issue phase the rotated part of
\* ready_q, put off in this cycle, has no instruction of the issued one's kind.
NoBypass ==
    [][(phase = "issue" /\ exec_slots' # exec_slots) =>
         \A k \in (span + 1)..Len(ready_q) :
            is_memory_op(program[ready_q[k]].type)
               # is_memory_op(program[Head(ready_q)].type)]_vars

\* An instruction's stage field moves only forward, one stage at a time.
StagesInOrder ==
    [][\A p \in Positions : stage'[p] # stage[p] =>
         StageOrder(stage'[p]) = StageOrder(stage[p]) + 1]_vars

\* The configured capacities bound the two bounded deques at every point of a
\* cycle, and with the reported maxima the execution slots as well.
CapacityRespected ==
    /\ Len(dispatch_q) <= config.dispatch_queue_capacity
    /\ Len(ready_q) <= config.ready_queue_capacity
    /\ stats.max_queue_occupancy["dispatch_q"] <= config.dispatch_queue_capacity
    /\ stats.max_queue_occupancy["ready_q"] <= config.ready_queue_capacity
    /\ stats.max_queue_occupancy["execute_slots"]
           <= config.compute_units + config.memory_ports

\* When run_workload returns, every instruction is Done and counted once, and
\* every unit and port has been given back.
ReturnsComplete ==
    phase = "returned" =>
        /\ \A p \in Positions : stage[p] = "Done"
        /\ stats.completed_ops = Len(program)
        /\ compute_in_use = 0 /\ memory_in_use = 0

\* The cycles that the Done instructions were in flight, each with its own.
DoneCycles ==
    UNION {{p} \X ((enqueue_cycle[p] + 1)..complete_cycle[p]) :
              p \in {q \in Positions : stage[q] = "Done"}}

\* total_latency and completed_ops are what the per-instruction fields say:
\* each Done instruction is counted once, with its own fetch-to-completion time.
StatsMatchTrace ==
    LET done == {p \in Positions : stage[p] = "Done"} IN
    /\ stats.completed_ops = Cardinality(done)
    /\ stats.total_latency = Cardinality(DoneCycles)
    /\ retired_ids = {program[p].id : p \in done}

\* An exact account of the programs that can finish, without cycles or queues.
\* In each round the instructions retire whose dependencies have retired and
\* in front of which fewer than dispatch_queue_capacity are still waiting.
RetirableIn[n \in Nat] ==
    IF n = 0 THEN {}
    ELSE {p \in Positions :
            /\ program[p].deps \subseteq {program[q].id : q \in RetirableIn[n - 1]}
            /\ Cardinality(1..(p - 1) \ RetirableIn[n - 1])
                  < config.dispatch_queue_capacity}

UnitExists(p) ==
    IF is_memory_op(program[p].type) THEN config.memory_ports > 0
                                     ELSE config.compute_units > 0

Feasible ==
    \/ program = <<>>
    \/ /\ \A f \in DOMAIN config \ {"memory_ports", "compute_units"} : config[f] > 0
       /\ \A p \in Positions : UnitExists(p)
       /\ RetirableIn[Len(program)] = Positions

\* run_workload returns for exactly the feasible inputs.  Its loop has no cycle
\* limit, yet no pattern of full queues, busy ports and waiting dependencies
\* keeps a feasible program from finishing; zero widths, cyclic or dangling
\* dependencies, and more waiting instructions in front of what they wait for
\* than dispatch_q holds, none of which the code checks, make it spin for ever.
Terminates ==
    /\ (phase = "loop" /\ cycle = 0 /\ Feasible) ~> (phase = "returned")
    /\ [](phase = "returned" => Feasible)
=============================================================================
