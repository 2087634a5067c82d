--------------------------- MODULE PipelineProofs ---------------------------
(***************************************************************************)
(* Proofs about Pipeline for every program, configuration and cycle bound. *)
(***************************************************************************)
EXTENDS Pipeline, QueueFacts, FiniteSetTheorems

\* The scans of dispatch_q and ready_q never outrun the queue they rotate.
SpanFits ==
    /\ phase = "wake" => span <= Len(dispatch_q)
    /\ phase = "issue" => span <= Len(ready_q)

\* Outside the execute phase its two local vectors are not in use.
IdleLocals ==
    phase \notin {"execute", "threw"} => remaining_slots = <<>> /\ finished = <<>>

\* No instruction waiting to retire completed before it was fetched.
CompletedAfterFetch ==
    /\ \A p \in Positions : enqueue_cycle[p] <= cycle
    /\ \A p \in Fetched("Retire") : enqueue_cycle[p] <= complete_cycle[p]

\* The stage of an instruction that was not fetched yet is its initial one.
UnfetchedInFetch ==
    \A p \in Positions : p >= next_to_fetch => stage[p] = "Fetch"
-----------------------------------------------------------------------------
\* The stages, one by one.
LEMMA StageFacts ==
    Stage = {"Fetch", "Decode", "Dispatch", "Ready", "Execute", "Retire", "Done"}
BY DEF Stage, Stages

\* The initial state satisfies the type invariant.
LEMMA InitType == Init => TypeOK
<1> SUFFICES ASSUME Init PROVE TypeOK
  OBVIOUS
<1>1. CoreType
  BY PipelineConstants DEF Init, CoreType, Phases
<1>2. QueueType /\ SlotType /\ TraceType
  BY StageFacts DEF Init, QueueType, SlotType, TraceType
<1>3. StatsType
  BY DEF Init, StatsType
<1> QED BY <1>1, <1>2, <1>3 DEF TypeOK

\* run_workload never changes its arguments.
LEMMA ArgsConstant ==
    ASSUME [Next]_vars
    PROVE  /\ program' = program /\ config' = config
           /\ Positions' = Positions /\ ExecSlot' = ExecSlot
<1>1. UNCHANGED args
  BY DEF Next, vars, BeginCycle, ReturnResult, RetireOne, RetireEnd, TickKeep,
     TickFinish, TickEnd, WakeOne, WakeStall, WakeEnd, IssueOne,
     IssueStall, IssueSkip, IssueEnd, DispatchOne, DispatchFull,
     DispatchEnd, DecodeOne, DecodeEnd, FetchOne, FetchEnd, Account
<1> QED BY <1>1 DEF args, Positions, ExecSlot

\* While a scan has work left, the queue it rotates is not empty.
LEMMA ScanFacts ==
    ASSUME TypeOK, SpanFits, span > 0
    PROVE  /\ phase = "wake" => dispatch_q # <<>>
           /\ phase = "issue" => ready_q # <<>>
BY DEF TypeOK, CoreType, QueueType, SpanFits

\* Counting a stall preserves the types of the counters.
LEMMA StallFacts ==
    ASSUME StatsType, NEW r \in StallReason, Stall(r)
    PROVE  StatsType'
<1>1. stats.stall_counts[r] + 1 \in Nat
  BY DEF StatsType
<1>2. [stats.stall_counts EXCEPT ![r] = @ + 1] \in [StallReason -> Nat]
  BY <1>1 DEF StatsType
<1>3. stats' = [stats EXCEPT !.stall_counts = [stats.stall_counts EXCEPT ![r] = @ + 1]]
  BY DEF Stall, StatsType
<1> QED BY <1>2, <1>3 DEF StatsType

\* Every step of run_workload preserves the types of its scalars.
LEMMA StepCoreType ==
    ASSUME TypeOK, [Next]_vars
    PROVE  CoreType'
<1> USE ArgsConstant DEF TypeOK, CoreType, Phases
<1>1. Len(dispatch_q) \in Nat /\ Len(ready_q) \in Nat /\ Len(program) \in Nat
  BY DEF QueueType
<1>2. CASE RetireOne
  <2>0. retire_q \in Seq(Positions) /\ retire_q # <<>>
    BY <1>2 DEF RetireOne, QueueType
  <2>1. Head(retire_q) \in Positions
    BY <2>0, PopFacts
  <2>2. program[Head(retire_q)] \in Instruction
    BY <2>1 DEF Positions
  <2>3. program[Head(retire_q)].id \in Nat
    BY <2>2 DEF Instruction
  <2> QED BY <1>2, <2>3 DEF RetireOne, args, queues, locals, core
<1>3. CASE TickFinish
  BY <1>3 DEF TickFinish, args, queues, locals, core
<1>4. CASE TickEnd
  BY <1>1, <1>4 DEF TickEnd, args, core, dispatch_span
<1>5. CASE WakeEnd
  BY <1>1, <1>5 DEF WakeEnd, args, queues, locals, core
<1>6. CASE IssueOne
  BY <1>6 DEF IssueOne, args, queues, locals, core
<1>7. CASE FetchOne
  BY <1>1, <1>7 DEF FetchOne, args, queues, locals, core
<1>8. CASE BeginCycle \/ ReturnResult \/ RetireEnd \/ TickKeep \/ WakeOne \/
          WakeStall \/ IssueStall \/ IssueSkip \/ IssueEnd \/ DispatchOne \/
          DispatchFull \/ DispatchEnd \/ DecodeOne \/ DecodeEnd \/
          FetchEnd
  <2>1. /\ CoreType /\ phase \in Phases /\ span \in Nat /\ moved \in Nat
        /\ span > 0 => span - 1 \in Nat
    OBVIOUS
  <2> HIDE ArgsConstant
  <2> HIDE DEF TypeOK, CoreType, Phases
  <2>2. UNCHANGED <<args, core>>
    <3>1. CASE BeginCycle \/ ReturnResult \/ RetireEnd \/ TickKeep \/ WakeOne
      BY <3>1 DEF BeginCycle, ReturnResult, RetireEnd, TickKeep, WakeOne
    <3>2. CASE WakeStall \/ IssueStall \/ IssueSkip \/ IssueEnd
      BY <3>2 DEF WakeStall, IssueStall, IssueSkip, IssueEnd
    <3>3. CASE DispatchOne \/ DispatchFull \/ DispatchEnd
      BY <3>3 DEF DispatchOne, DispatchFull, DispatchEnd
    <3>4. CASE DecodeOne \/ DecodeEnd \/ FetchEnd
      BY <3>4 DEF DecodeOne, DecodeEnd, FetchEnd
    <3> QED BY <1>8, <3>1, <3>2, <3>3, <3>4
  <2>3. phase' \in Phases /\ span' \in Nat /\ moved' \in Nat
    <3>1. CASE BeginCycle \/ ReturnResult \/ RetireEnd \/ TickKeep
      BY <2>1, <3>1 DEF BeginCycle, ReturnResult, RetireEnd, TickKeep, locals, Phases
    <3>2. CASE WakeOne \/ WakeStall
      BY <2>1, <3>2 DEF WakeOne, WakeStall
    <3>3. CASE IssueStall \/ IssueSkip \/ IssueEnd
      BY <2>1, <3>3 DEF IssueStall, IssueSkip, IssueEnd, Phases
    <3>4. CASE DispatchOne \/ DispatchFull \/ DispatchEnd
      BY <2>1, <3>4 DEF DispatchOne, DispatchFull, DispatchEnd, locals, Phases
    <3>5. CASE DecodeOne \/ DecodeEnd \/ FetchEnd
      BY <2>1, <3>5 DEF DecodeOne, DecodeEnd, FetchEnd, locals, Phases
    <3> QED BY <1>8, <3>1, <3>2, <3>3, <3>4, <3>5
  <2> QED BY <2>1, <2>2, <2>3 DEF CoreType, args, core
<1>9. CASE UNCHANGED vars
  BY <1>9 DEF vars, args, queues, locals, core
<1>10. CASE Account
  BY <1>10 DEF Account, args, locals
<1> QED
  BY <1>2, <1>3, <1>4, <1>5, <1>6, <1>7, <1>8, <1>9, <1>10 DEF Next

\* Every step preserves the types of the deques.
LEMMA StepQueueType ==
    ASSUME TypeOK, SpanFits, [Next]_vars
    PROVE  QueueType'
<1> USE ArgsConstant DEF TypeOK, QueueType
<1>1. CASE RetireOne
  <2>1. retire_q # <<>>
    BY <1>1, ScanFacts DEF RetireOne
  <2>2. Head(retire_q) \in Positions /\ Tail(retire_q) \in Seq(Positions)
    BY <2>1, PopFacts
  <2> QED BY <1>1, <2>2 DEF RetireOne, locals
<1>2. CASE RetireEnd
  BY <1>2 DEF RetireEnd, queues
<1>3. CASE TickFinish
  <2>1. Head(exec_slots) \in ExecSlot
    BY <1>3, PopFacts DEF TickFinish, SlotType
  <2>2. Ticked(Head(exec_slots)).index \in Positions
    BY <2>1 DEF Ticked, ExecSlot
  <2> QED BY <1>3, <2>2 DEF TickFinish
<1>4. CASE TickEnd
  <2>1. retire_q \o finished \in Seq(Positions)
    BY ConcatFacts
  <2> QED BY <1>4, <2>1 DEF TickEnd
<1>5. CASE WakeOne
  <2>1. dispatch_q # <<>>
    BY <1>5, ScanFacts DEF WakeOne
  <2>2. Head(dispatch_q) \in Positions /\ Tail(dispatch_q) \in Seq(Positions)
    BY <2>1, PopFacts
  <2> QED BY <1>5, <2>2 DEF WakeOne, locals
<1>6. CASE WakeStall
  <2>1. dispatch_q # <<>>
    BY <1>6, ScanFacts DEF WakeStall
  <2>2. Rotate(dispatch_q) \in Seq(Positions)
    BY <2>1, RotateFacts DEF Rotate
  <2> QED BY <1>6, <2>2 DEF WakeStall, locals
<1>7. CASE IssueOne
  <2>1. ready_q # <<>>
    BY <1>7, ScanFacts DEF IssueOne
  <2>2. Head(ready_q) \in Positions /\ Tail(ready_q) \in Seq(Positions)
    BY <2>1, PopFacts
  <2> QED BY <1>7, <2>2 DEF IssueOne, locals
<1>8. CASE IssueStall
  <2>1. ready_q # <<>>
    BY <1>8, ScanFacts DEF IssueStall
  <2>2. Rotate(ready_q) \in Seq(Positions)
    BY <2>1, RotateFacts DEF Rotate
  <2> QED BY <1>8, <2>2 DEF IssueStall, locals
<1>9. CASE IssueSkip
  <2>1. ready_q # <<>>
    BY <1>9, ScanFacts DEF IssueSkip
  <2>2. Rotate(ready_q) \in Seq(Positions)
    BY <2>1, RotateFacts DEF Rotate
  <2> QED BY <1>9, <2>2 DEF IssueSkip, locals
<1>10. CASE DispatchOne
  <2>1. decode_q # <<>>
    BY <1>10, ScanFacts DEF DispatchOne
  <2>2. Head(decode_q) \in Positions /\ Tail(decode_q) \in Seq(Positions)
    BY <2>1, PopFacts
  <2> QED BY <1>10, <2>2 DEF DispatchOne, locals
<1>11. CASE DecodeOne
  <2>1. fetch_q # <<>>
    BY <1>11, ScanFacts DEF DecodeOne
  <2>2. Head(fetch_q) \in Positions /\ Tail(fetch_q) \in Seq(Positions)
    BY <2>1, PopFacts
  <2> QED BY <1>11, <2>2 DEF DecodeOne, locals
<1>12. CASE FetchOne
  <2>1. next_to_fetch \in Positions
    BY <1>12 DEF FetchOne, CoreType, Positions
  <2> QED BY <1>12, <2>1 DEF FetchOne, locals
<1>13. CASE BeginCycle \/ ReturnResult \/ TickKeep \/ WakeEnd \/ IssueEnd \/
          DispatchFull \/ DispatchEnd \/ DecodeEnd \/ FetchEnd \/ Account
  BY <1>13 DEF BeginCycle, ReturnResult, TickKeep, WakeEnd, IssueEnd,
         DispatchFull, DispatchEnd, DecodeEnd, FetchEnd, Account, queues,
         locals
<1>14. CASE UNCHANGED vars
  BY <1>14 DEF vars, queues, locals
<1> QED
  BY <1>1, <1>2, <1>3, <1>4, <1>5, <1>6, <1>7, <1>8, <1>9, <1>10, <1>11,
     <1>12, <1>13, <1>14 DEF Next

\* Every step preserves the types of the execution slots.
LEMMA StepSlotType ==
    ASSUME TypeOK, SpanFits, [Next]_vars
    PROVE  SlotType'
<1> USE ArgsConstant DEF TypeOK, SlotType
<1>1. CASE RetireEnd
  BY <1>1 DEF RetireEnd, queues
<1>2. CASE TickKeep
  <2>1. Head(exec_slots) \in ExecSlot /\ Tail(exec_slots) \in Seq(ExecSlot)
    BY <1>2, PopFacts DEF TickKeep
  <2>2. Ticked(Head(exec_slots)) \in ExecSlot
    BY <2>1 DEF Ticked, ExecSlot
  <2> QED BY <1>2, <2>1, <2>2 DEF TickKeep
<1>3. CASE TickFinish
  <2>1. Tail(exec_slots) \in Seq(ExecSlot)
    BY <1>3, PopFacts DEF TickFinish
  <2> QED BY <1>3, <2>1 DEF TickFinish
<1>4. CASE TickEnd
  BY <1>4 DEF TickEnd
<1>5. CASE IssueOne
  <2>1. ready_q # <<>>
    BY <1>5, ScanFacts DEF IssueOne
  <2>2. Head(ready_q) \in Positions
    BY <2>1, PopFacts DEF QueueType
  <2>3. program[Head(ready_q)] \in Instruction
    BY <2>2 DEF Positions, CoreType
  <2>4. SlotFor(Head(ready_q)) \in ExecSlot
    BY <2>2, <2>3 DEF SlotFor, ExecSlot, Instruction, is_memory_op
  <2> QED BY <1>5, <2>4 DEF IssueOne
<1>6. CASE BeginCycle \/ ReturnResult \/ RetireOne \/ WakeOne \/ WakeStall \/
          WakeEnd \/ IssueStall \/ IssueSkip \/ IssueEnd \/ DispatchOne \/
          DispatchFull \/ DispatchEnd \/ DecodeOne \/ DecodeEnd \/
          FetchOne \/ FetchEnd \/ Account
  BY <1>6 DEF BeginCycle, ReturnResult, RetireOne, WakeOne, WakeStall, WakeEnd,
         IssueStall, IssueSkip, IssueEnd, DispatchOne, DispatchFull,
         DispatchEnd, DecodeOne, DecodeEnd, FetchOne, FetchEnd, Account,
         queues, locals
<1>7. CASE UNCHANGED vars
  BY <1>7 DEF vars, queues, locals
<1> QED
  BY <1>1, <1>2, <1>3, <1>4, <1>5, <1>6, <1>7 DEF Next

\* Every step preserves the types of the fields it stamps on instructions.
LEMMA StepTraceType ==
    ASSUME TypeOK, [Next]_vars
    PROVE  TraceType'
<1> USE ArgsConstant DEF TypeOK, TraceType
<1>1. CASE RetireOne
  BY <1>1, StageFacts DEF RetireOne
<1>2. CASE TickEnd
  BY <1>2, StageFacts DEF TickEnd, CoreType
<1>3. CASE WakeOne
  BY <1>3, StageFacts DEF WakeOne
<1>4. CASE IssueOne
  BY <1>4, StageFacts DEF IssueOne, CoreType
<1>5. CASE DispatchOne
  BY <1>5, StageFacts DEF DispatchOne
<1>6. CASE DecodeOne
  BY <1>6, StageFacts DEF DecodeOne
<1>7. CASE FetchOne
  BY <1>7, StageFacts DEF FetchOne, CoreType
<1>8. CASE BeginCycle \/ ReturnResult \/ RetireEnd \/ TickKeep \/
          TickFinish \/ WakeStall \/ WakeEnd \/ IssueStall \/ IssueSkip \/
          IssueEnd \/ DispatchFull \/ DispatchEnd \/ DecodeEnd \/
          FetchEnd \/ Account
  BY <1>8 DEF BeginCycle, ReturnResult, RetireEnd, TickKeep, TickFinish,
         WakeStall, WakeEnd, IssueStall, IssueSkip, IssueEnd, DispatchFull,
         DispatchEnd, DecodeEnd, FetchEnd, Account, trace
<1>9. CASE UNCHANGED vars
  BY <1>9 DEF vars, trace
<1> QED
  BY <1>1, <1>2, <1>3, <1>4, <1>5, <1>6, <1>7, <1>8, <1>9 DEF Next

\* Every step preserves the types of the counters.
LEMMA StepStatsType ==
    ASSUME TypeOK, EachInOnePlace, CompletedAfterFetch, [Next]_vars
    PROVE  StatsType'
<1> USE ArgsConstant DEF TypeOK, StatsType
<1>1. CASE ReturnResult
  BY <1>1 DEF ReturnResult, CoreType
<1>2. CASE RetireOne
  <2> DEFINE p == Head(retire_q)
  <2>1. p \in Fetched("Retire")
    BY <1>2, PopFacts DEF RetireOne, QueueType, EachInOnePlace, DequesMatchStages
  <2>2. p \in Positions /\ enqueue_cycle[p] <= complete_cycle[p]
    BY <2>1 DEF CompletedAfterFetch, Fetched, Positions, CoreType
  <2>3. Latency(p) \in Nat
    BY <2>2 DEF Latency, TraceType
  <2>4. /\ stats.total_latency + Latency(p) \in Nat
        /\ stats.completed_ops + 1 \in Nat
    BY <2>3
  <2> HIDE DEF p
  <2>5. stats' = [stats EXCEPT !.completed_ops = @ + 1, !.total_latency = @ + Latency(p)]
    BY <1>2 DEF RetireOne, p
  <2> QED BY <2>4, <2>5
<1>3. CASE WakeStall
  BY <1>3, StallFacts DEF WakeStall, StallReason
<1>4. CASE IssueStall
  BY <1>4, StallFacts DEF IssueStall, StallReason
<1>5. CASE DispatchFull
  BY <1>5, StallFacts DEF DispatchFull, StallReason
<1>6. CASE Account
  <2>0. /\ Len(fetch_q) \in Nat /\ Len(decode_q) \in Nat
        /\ Len(dispatch_q) \in Nat /\ Len(ready_q) \in Nat
        /\ Len(exec_slots) \in Nat /\ Len(retire_q) \in Nat
    BY DEF QueueType, SlotType
  <2>1. \A q \in QueueName : Occupancy[q] \in Nat
    <3>1. /\ Occupancy["fetch_q"] = Len(fetch_q)
          /\ Occupancy["decode_q"] = Len(decode_q)
          /\ Occupancy["dispatch_q"] = Len(dispatch_q)
          /\ Occupancy["ready_q"] = Len(ready_q)
          /\ Occupancy["execute_slots"] = Len(exec_slots)
          /\ Occupancy["retire_q"] = Len(retire_q)
      BY DEF Occupancy
    <3> QED BY <2>0, <3>1 DEF QueueName
  <2>2. [b \in BusyStage |-> IF Busy[b] THEN stats.stage_busy_cycles[b] + 1
                                        ELSE stats.stage_busy_cycles[b]]
           \in [BusyStage -> Nat]
    OBVIOUS
  <2>3. [q \in QueueName |-> Greater(stats.max_queue_occupancy[q], Occupancy[q])]
           \in [QueueName -> Nat]
    BY <2>1 DEF Greater
  <2> QED BY <1>6, <2>2, <2>3 DEF Account
<1>7. CASE BeginCycle \/ RetireEnd \/ TickKeep \/ TickFinish \/ TickEnd \/
          WakeOne \/ WakeEnd \/ IssueOne \/ IssueSkip \/ IssueEnd \/
          DispatchOne \/ DispatchEnd \/ DecodeOne \/ DecodeEnd \/
          FetchOne \/ FetchEnd
  BY <1>7 DEF BeginCycle, RetireEnd, TickKeep, TickFinish, TickEnd, WakeOne,
         WakeEnd, IssueOne, IssueSkip, IssueEnd, DispatchOne, DispatchEnd,
         DecodeOne, DecodeEnd, FetchOne, FetchEnd
<1>8. CASE UNCHANGED vars
  BY <1>8 DEF vars
<1> QED
  BY <1>1, <1>2, <1>3, <1>4, <1>5, <1>6, <1>7, <1>8 DEF Next

\* Every step of run_workload preserves the type invariant.
LEMMA StepType ==
    ASSUME TypeOK, SpanFits, EachInOnePlace, CompletedAfterFetch, [Next]_vars
    PROVE  TypeOK'
BY StepCoreType, StepQueueType, StepSlotType, StepTraceType, StepStatsType
   DEF TypeOK

-----------------------------------------------------------------------------
\* A deque holds instructions of its stage, which are in the program.
LEMMA FetchedFacts ==
    ASSUME TypeOK, NEW s, NEW p \in Fetched(s)
    PROVE  p \in Positions /\ p < next_to_fetch /\ p \in Nat /\ stage[p] = s
BY DEF TypeOK, CoreType, Positions, Fetched

\* pop_front of a vector of slots.
LEMMA SlotPopFacts ==
    ASSUME NEW q \in Seq(ExecSlot), q # <<>>, DistinctSlots(q)
    PROVE  /\ Head(q) \in ExecSlot /\ Tail(q) \in Seq(ExecSlot)
           /\ Head(q).index \in Indices(q)
           /\ DistinctSlots(Tail(q))
           /\ Indices(Tail(q)) = Indices(q) \ {Head(q).index}
<1>1. /\ Len(q) \in Nat /\ Len(q) > 0 /\ Tail(q) \in Seq(ExecSlot)
      /\ Head(q) = q[1] /\ Head(q) \in ExecSlot
      /\ DOMAIN q = 1..Len(q) /\ DOMAIN Tail(q) = 1..(Len(q) - 1)
      /\ \A k \in 1..(Len(q) - 1) : Tail(q)[k] = q[k + 1]
  OBVIOUS
<1>2. Head(q).index \in Indices(q)
  BY <1>1 DEF Indices
<1>3. DistinctSlots(Tail(q))
  BY <1>1 DEF DistinctSlots
<1>4. Indices(Tail(q)) \subseteq Indices(q) \ {Head(q).index}
  BY <1>1 DEF DistinctSlots, Indices
<1>5. ASSUME NEW e \in Indices(q), e # Head(q).index  PROVE e \in Indices(Tail(q))
  <2>1. PICK k \in 1..Len(q) : e = q[k].index
    BY <1>1 DEF Indices
  <2>2. k - 1 \in DOMAIN Tail(q) /\ e = Tail(q)[k - 1].index
    BY <1>1, <1>5, <2>1
  <2> QED BY <2>2 DEF Indices
<1> QED BY <1>1, <1>2, <1>3, <1>4, <1>5

\* push_back of a slot.
LEMMA SlotPushFacts ==
    ASSUME NEW q \in Seq(ExecSlot), NEW e \in ExecSlot
    PROVE  /\ Append(q, e) \in Seq(ExecSlot)
           /\ Indices(Append(q, e)) = Indices(q) \cup {e.index}
           /\ DistinctSlots(q) /\ e.index \notin Indices(q)
                 => DistinctSlots(Append(q, e))
<1>1. /\ Len(q) \in Nat /\ Append(q, e) \in Seq(ExecSlot)
      /\ DOMAIN q = 1..Len(q) /\ DOMAIN Append(q, e) = 1..(Len(q) + 1)
      /\ Append(q, e)[Len(q) + 1] = e
      /\ \A k \in 1..Len(q) : Append(q, e)[k] = q[k]
  OBVIOUS
<1>2. Indices(Append(q, e)) = Indices(q) \cup {e.index}
  BY <1>1 DEF Indices
<1>3. DistinctSlots(q) /\ e.index \notin Indices(q) => DistinctSlots(Append(q, e))
  BY <1>1 DEF DistinctSlots, Indices
<1> QED BY <1>1, <1>2, <1>3

\* Ticking a slot changes nothing but its countdown.
LEMMA TickedFacts ==
    ASSUME NEW slot \in ExecSlot
    PROVE  /\ Ticked(slot) \in ExecSlot
           /\ Ticked(slot).index = slot.index
           /\ Ticked(slot).uses_memory = slot.uses_memory
           /\ Ticked(slot).remaining
                = IF slot.remaining > 0 THEN slot.remaining - 1 ELSE slot.remaining
BY DEF Ticked, ExecSlot

\* Empty queues and slot vectors hold nothing.
LEMMA EmptyFacts ==
    /\ Range(<<>>) = {} /\ IsInjective(<<>>)
    /\ Indices(<<>>) = {} /\ DistinctSlots(<<>>)
BY DEF Range, IsInjective, Indices, DistinctSlots
-----------------------------------------------------------------------------
\* Every step keeps the two scans within their queues.
LEMMA StepSpan ==
    ASSUME TypeOK, SpanFits, [Next]_vars
    PROVE  SpanFits'
<1> USE DEF SpanFits
<1>1. CASE BeginCycle
  BY <1>1 DEF BeginCycle
<1>2. CASE TickFinish
  BY <1>2 DEF TickFinish
<1>3. CASE TickEnd
  BY <1>3 DEF TickEnd, dispatch_span, TypeOK, QueueType
<1>4. CASE WakeOne
  <2>1. dispatch_q # <<>>
    BY <1>4, ScanFacts DEF WakeOne
  <2>2. Len(Tail(dispatch_q)) = Len(dispatch_q) - 1 /\ Len(dispatch_q) \in Nat
    BY <2>1, PopFacts DEF TypeOK, QueueType
  <2> QED BY <1>4, <2>2 DEF WakeOne, TypeOK, CoreType
<1>5. CASE WakeStall
  <2>1. dispatch_q # <<>>
    BY <1>5, ScanFacts DEF WakeStall
  <2>2. Len(Rotate(dispatch_q)) = Len(dispatch_q) /\ Len(dispatch_q) \in Nat
    BY <2>1, RotateFacts DEF TypeOK, QueueType, Rotate
  <2> QED BY <1>5, <2>2 DEF WakeStall, TypeOK, CoreType
<1>6. CASE WakeEnd
  BY <1>6 DEF WakeEnd, queues, TypeOK, QueueType
<1>7. CASE IssueOne
  <2>1. ready_q # <<>>
    BY <1>7, ScanFacts DEF IssueOne
  <2>2. Len(Tail(ready_q)) = Len(ready_q) - 1 /\ Len(ready_q) \in Nat
    BY <2>1, PopFacts DEF TypeOK, QueueType
  <2> QED BY <1>7, <2>2 DEF IssueOne, TypeOK, CoreType
<1>8. CASE IssueStall
  <2>1. ready_q # <<>>
    BY <1>8, ScanFacts DEF IssueStall
  <2>2. Len(Rotate(ready_q)) = Len(ready_q) /\ Len(ready_q) \in Nat
    BY <2>1, RotateFacts DEF TypeOK, QueueType, Rotate
  <2> QED BY <1>8, <2>2 DEF IssueStall, TypeOK, CoreType
<1>9. CASE IssueSkip
  <2>1. ready_q # <<>>
    BY <1>9, ScanFacts DEF IssueSkip
  <2>2. Len(Rotate(ready_q)) = Len(ready_q) /\ Len(ready_q) \in Nat
    BY <2>1, RotateFacts DEF TypeOK, QueueType, Rotate
  <2> QED BY <1>9, <2>2 DEF IssueSkip, TypeOK, CoreType
<1>10. CASE ReturnResult \/ RetireOne \/ RetireEnd \/ TickKeep \/ IssueEnd \/
          DispatchOne \/ DispatchFull \/ DispatchEnd \/ DecodeOne \/
          DecodeEnd \/ FetchOne \/ FetchEnd \/ Account
  BY <1>10 DEF ReturnResult, RetireOne, RetireEnd, TickKeep, IssueEnd,
         DispatchOne, DispatchFull, DispatchEnd, DecodeOne, DecodeEnd,
         FetchOne, FetchEnd, Account, queues, locals
<1>11. CASE UNCHANGED vars
  BY <1>11 DEF vars, queues, locals
<1> QED
  BY <1>1, <1>2, <1>3, <1>4, <1>5, <1>6, <1>7, <1>8, <1>9, <1>10, <1>11 DEF Next

\* No step touches the stage of an instruction before it is fetched.
LEMMA StepUnfetched ==
    ASSUME TypeOK, SpanFits, EachInOnePlace, UnfetchedInFetch, [Next]_vars
    PROVE  UnfetchedInFetch'
<1> USE DEF UnfetchedInFetch
<1>1. CASE RetireOne
  <2>1. retire_q # <<>>
    BY <1>1, ScanFacts DEF RetireOne
  <2>2. Head(retire_q) \in Range(retire_q)
    BY <2>1, PopFacts DEF TypeOK, QueueType
  <2>3. Head(retire_q) < next_to_fetch /\ Head(retire_q) \in Positions
    BY <2>2, FetchedFacts DEF EachInOnePlace, DequesMatchStages
  <2> QED BY <1>1, <2>3, ArgsConstant DEF RetireOne, core, TypeOK, CoreType, TraceType, Positions
<1>2. CASE TickEnd
  <2>1. \A p \in Range(finished) : p < next_to_fetch
    BY FetchedFacts DEF EachInOnePlace, SlotsMatchStage
  <2> QED BY <1>2, <2>1, ArgsConstant DEF TickEnd, core, TypeOK, CoreType, TraceType, Positions
<1>3. CASE WakeOne
  <2>1. dispatch_q # <<>>
    BY <1>3, ScanFacts DEF WakeOne
  <2>2. Head(dispatch_q) \in Range(dispatch_q)
    BY <2>1, PopFacts DEF TypeOK, QueueType
  <2>3. Head(dispatch_q) < next_to_fetch /\ Head(dispatch_q) \in Positions
    BY <2>2, FetchedFacts DEF EachInOnePlace, DequesMatchStages
  <2> QED BY <1>3, <2>3, ArgsConstant DEF WakeOne, core, TypeOK, CoreType, TraceType, Positions
<1>4. CASE IssueOne
  <2>1. ready_q # <<>>
    BY <1>4, ScanFacts DEF IssueOne
  <2>2. Head(ready_q) \in Range(ready_q)
    BY <2>1, PopFacts DEF TypeOK, QueueType
  <2>3. Head(ready_q) < next_to_fetch /\ Head(ready_q) \in Positions
    BY <2>2, FetchedFacts DEF EachInOnePlace, DequesMatchStages
  <2> QED BY <1>4, <2>3, ArgsConstant DEF IssueOne, core, TypeOK, CoreType, TraceType, Positions
<1>5. CASE DispatchOne
  <2>1. decode_q # <<>>
    BY <1>5, ScanFacts DEF DispatchOne
  <2>2. Head(decode_q) \in Range(decode_q)
    BY <2>1, PopFacts DEF TypeOK, QueueType
  <2>3. Head(decode_q) < next_to_fetch /\ Head(decode_q) \in Positions
    BY <2>2, FetchedFacts DEF EachInOnePlace, DequesMatchStages
  <2> QED BY <1>5, <2>3, ArgsConstant DEF DispatchOne, core, TypeOK, CoreType, TraceType, Positions
<1>6. CASE DecodeOne
  <2>1. fetch_q # <<>>
    BY <1>6, ScanFacts DEF DecodeOne
  <2>2. Head(fetch_q) \in Range(fetch_q)
    BY <2>1, PopFacts DEF TypeOK, QueueType
  <2>3. Head(fetch_q) < next_to_fetch /\ Head(fetch_q) \in Positions
    BY <2>2, FetchedFacts DEF EachInOnePlace, DequesMatchStages
  <2> QED BY <1>6, <2>3, ArgsConstant DEF DecodeOne, core, TypeOK, CoreType, TraceType, Positions
<1>7. CASE FetchOne
  BY <1>7, ArgsConstant DEF FetchOne, TypeOK, CoreType, TraceType, Positions
<1>8. CASE BeginCycle \/ ReturnResult \/ RetireEnd \/ TickKeep \/
          TickFinish \/ WakeStall \/ WakeEnd \/ IssueStall \/ IssueSkip \/
          IssueEnd \/ DispatchFull \/ DispatchEnd \/ DecodeEnd \/
          FetchEnd \/ Account
  BY <1>8 DEF BeginCycle, ReturnResult, RetireEnd, TickKeep, TickFinish,
         WakeStall, WakeEnd, IssueStall, IssueSkip, IssueEnd, DispatchFull,
         DispatchEnd, DecodeEnd, FetchEnd, Account, core, trace, args,
         Positions
<1>9. CASE UNCHANGED vars
  BY <1>9 DEF vars, core, trace, args, Positions
<1> QED
  BY <1>1, <1>2, <1>3, <1>4, <1>5, <1>6, <1>7, <1>8, <1>9 DEF Next

\* Retiring moves the front of retire_q, alone, from stage Retire to Done.
LEMMA RetireOneMoves ==
    ASSUME TypeOK, SpanFits, EachInOnePlace, RetireOne, Positions' = Positions,
           NEW p, p = Head(retire_q)
    PROVE  /\ retire_q \in Seq(Positions) /\ retire_q # <<>>
           /\ p \in Positions /\ p \in Fetched("Retire")
           /\ Fetched("Retire")' = Fetched("Retire") \ {p}
           /\ Fetched("Done")' = Fetched("Done") \cup {p} /\ p \notin Fetched("Done")
           /\ Fetched("Fetch")' = Fetched("Fetch")
           /\ Fetched("Decode")' = Fetched("Decode")
           /\ Fetched("Dispatch")' = Fetched("Dispatch")
           /\ Fetched("Ready")' = Fetched("Ready")
           /\ Fetched("Execute")' = Fetched("Execute")
<1>1. retire_q \in Seq(Positions) /\ retire_q # <<>>
  BY ScanFacts DEF RetireOne, TypeOK, QueueType
<1>2. p \in Positions /\ p \in Fetched("Retire")
  BY <1>1, PopFacts DEF EachInOnePlace, DequesMatchStages
<1>3. p \in 1..(next_to_fetch - 1) /\ stage[p] = "Retire"
  BY <1>2 DEF Fetched
<1>4. next_to_fetch' = next_to_fetch /\ 1..(next_to_fetch - 1) \subseteq Positions
  BY DEF RetireOne, core, TypeOK, CoreType, Positions
<1>5. \A x \in Positions : stage'[x] = IF x = p THEN "Done" ELSE stage[x]
  BY <1>2 DEF RetireOne, TypeOK, TraceType
<1> QED BY <1>1, <1>2, <1>3, <1>4, <1>5 DEF Fetched

\* Waking moves the front of dispatch_q, alone, from stage Dispatch to Ready.
LEMMA WakeOneMoves ==
    ASSUME TypeOK, SpanFits, EachInOnePlace, WakeOne, Positions' = Positions,
           NEW p, p = Head(dispatch_q)
    PROVE  /\ dispatch_q \in Seq(Positions) /\ dispatch_q # <<>>
           /\ p \in Positions /\ p \in Fetched("Dispatch")
           /\ Fetched("Dispatch")' = Fetched("Dispatch") \ {p}
           /\ Fetched("Ready")' = Fetched("Ready") \cup {p} /\ p \notin Fetched("Ready")
           /\ Fetched("Fetch")' = Fetched("Fetch")
           /\ Fetched("Decode")' = Fetched("Decode")
           /\ Fetched("Execute")' = Fetched("Execute")
           /\ Fetched("Retire")' = Fetched("Retire")
           /\ Fetched("Done")' = Fetched("Done")
<1>1. dispatch_q \in Seq(Positions) /\ dispatch_q # <<>>
  BY ScanFacts DEF WakeOne, TypeOK, QueueType
<1>2. p \in Positions /\ p \in Fetched("Dispatch")
  BY <1>1, PopFacts DEF EachInOnePlace, DequesMatchStages
<1>3. p \in 1..(next_to_fetch - 1) /\ stage[p] = "Dispatch"
  BY <1>2 DEF Fetched
<1>4. next_to_fetch' = next_to_fetch /\ 1..(next_to_fetch - 1) \subseteq Positions
  BY DEF WakeOne, core, TypeOK, CoreType, Positions
<1>5. \A x \in Positions : stage'[x] = IF x = p THEN "Ready" ELSE stage[x]
  BY <1>2 DEF WakeOne, TypeOK, TraceType
<1> QED BY <1>1, <1>2, <1>3, <1>4, <1>5 DEF Fetched

\* Issuing moves the front of ready_q, alone, from stage Ready to Execute.
LEMMA IssueOneMoves ==
    ASSUME TypeOK, SpanFits, EachInOnePlace, IssueOne, Positions' = Positions,
           NEW p, p = Head(ready_q)
    PROVE  /\ ready_q \in Seq(Positions) /\ ready_q # <<>>
           /\ p \in Positions /\ p \in Fetched("Ready")
           /\ Fetched("Ready")' = Fetched("Ready") \ {p}
           /\ Fetched("Execute")' = Fetched("Execute") \cup {p} /\ p \notin Fetched("Execute")
           /\ Fetched("Fetch")' = Fetched("Fetch")
           /\ Fetched("Decode")' = Fetched("Decode")
           /\ Fetched("Dispatch")' = Fetched("Dispatch")
           /\ Fetched("Retire")' = Fetched("Retire")
           /\ Fetched("Done")' = Fetched("Done")
<1>1. ready_q \in Seq(Positions) /\ ready_q # <<>>
  BY ScanFacts DEF IssueOne, TypeOK, QueueType
<1>2. p \in Positions /\ p \in Fetched("Ready")
  BY <1>1, PopFacts DEF EachInOnePlace, DequesMatchStages
<1>3. p \in 1..(next_to_fetch - 1) /\ stage[p] = "Ready"
  BY <1>2 DEF Fetched
<1>4. next_to_fetch' = next_to_fetch /\ 1..(next_to_fetch - 1) \subseteq Positions
  BY DEF IssueOne, core, TypeOK, CoreType, Positions
<1>5. \A x \in Positions : stage'[x] = IF x = p THEN "Execute" ELSE stage[x]
  BY <1>2 DEF IssueOne, TypeOK, TraceType
<1> QED BY <1>1, <1>2, <1>3, <1>4, <1>5 DEF Fetched

\* Dispatching moves the front of decode_q, alone, from stage Decode to Dispatch.
LEMMA DispatchOneMoves ==
    ASSUME TypeOK, SpanFits, EachInOnePlace, DispatchOne, Positions' = Positions,
           NEW p, p = Head(decode_q)
    PROVE  /\ decode_q \in Seq(Positions) /\ decode_q # <<>>
           /\ p \in Positions /\ p \in Fetched("Decode")
           /\ Fetched("Decode")' = Fetched("Decode") \ {p}
           /\ Fetched("Dispatch")' = Fetched("Dispatch") \cup {p} /\ p \notin Fetched("Dispatch")
           /\ Fetched("Fetch")' = Fetched("Fetch")
           /\ Fetched("Ready")' = Fetched("Ready")
           /\ Fetched("Execute")' = Fetched("Execute")
           /\ Fetched("Retire")' = Fetched("Retire")
           /\ Fetched("Done")' = Fetched("Done")
<1>1. decode_q \in Seq(Positions) /\ decode_q # <<>>
  BY ScanFacts DEF DispatchOne, TypeOK, QueueType
<1>2. p \in Positions /\ p \in Fetched("Decode")
  BY <1>1, PopFacts DEF EachInOnePlace, DequesMatchStages
<1>3. p \in 1..(next_to_fetch - 1) /\ stage[p] = "Decode"
  BY <1>2 DEF Fetched
<1>4. next_to_fetch' = next_to_fetch /\ 1..(next_to_fetch - 1) \subseteq Positions
  BY DEF DispatchOne, core, TypeOK, CoreType, Positions
<1>5. \A x \in Positions : stage'[x] = IF x = p THEN "Dispatch" ELSE stage[x]
  BY <1>2 DEF DispatchOne, TypeOK, TraceType
<1> QED BY <1>1, <1>2, <1>3, <1>4, <1>5 DEF Fetched

\* Decoding moves the front of fetch_q, alone, from stage Fetch to Decode.
LEMMA DecodeOneMoves ==
    ASSUME TypeOK, SpanFits, EachInOnePlace, DecodeOne, Positions' = Positions,
           NEW p, p = Head(fetch_q)
    PROVE  /\ fetch_q \in Seq(Positions) /\ fetch_q # <<>>
           /\ p \in Positions /\ p \in Fetched("Fetch")
           /\ Fetched("Fetch")' = Fetched("Fetch") \ {p}
           /\ Fetched("Decode")' = Fetched("Decode") \cup {p} /\ p \notin Fetched("Decode")
           /\ Fetched("Dispatch")' = Fetched("Dispatch")
           /\ Fetched("Ready")' = Fetched("Ready")
           /\ Fetched("Execute")' = Fetched("Execute")
           /\ Fetched("Retire")' = Fetched("Retire")
           /\ Fetched("Done")' = Fetched("Done")
<1>1. fetch_q \in Seq(Positions) /\ fetch_q # <<>>
  BY ScanFacts DEF DecodeOne, TypeOK, QueueType
<1>2. p \in Positions /\ p \in Fetched("Fetch")
  BY <1>1, PopFacts DEF EachInOnePlace, DequesMatchStages
<1>3. p \in 1..(next_to_fetch - 1) /\ stage[p] = "Fetch"
  BY <1>2 DEF Fetched
<1>4. next_to_fetch' = next_to_fetch /\ 1..(next_to_fetch - 1) \subseteq Positions
  BY DEF DecodeOne, core, TypeOK, CoreType, Positions
<1>5. \A x \in Positions : stage'[x] = IF x = p THEN "Decode" ELSE stage[x]
  BY <1>2 DEF DecodeOne, TypeOK, TraceType
<1> QED BY <1>1, <1>2, <1>3, <1>4, <1>5 DEF Fetched

\* When the execute phase ends, the finished instructions move to Retire.
LEMMA FinishFacts ==
    ASSUME TypeOK, EachInOnePlace, TickEnd, Positions' = Positions
    PROVE  /\ Range(finished) \subseteq Fetched("Execute")
           /\ Fetched("Execute")' = Fetched("Execute") \ Range(finished)
           /\ Fetched("Retire")' = Fetched("Retire") \cup Range(finished)
           /\ \A s \in Stage \ {"Execute", "Retire"} : Fetched(s)' = Fetched(s)
<1>1. Range(finished) \subseteq Fetched("Execute")
  BY DEF EachInOnePlace, SlotsMatchStage
<1>2. /\ next_to_fetch' = next_to_fetch
      /\ 1..(next_to_fetch - 1) \subseteq Positions
  BY DEF TickEnd, core, TypeOK, CoreType, Positions
<1>3. \A p \in Positions :
          stage'[p] = IF p \in Range(finished) THEN "Retire" ELSE stage[p]
  BY DEF TickEnd
<1>4. \A p \in Range(finished) : p \in 1..(next_to_fetch - 1) /\ stage[p] = "Execute"
  BY <1>1 DEF Fetched
<1> QED BY <1>1, <1>2, <1>3, <1>4 DEF Fetched

\* Fetching adds the next instruction, alone, to the Fetch stage.
LEMMA FetchFacts ==
    ASSUME TypeOK, FetchOne
    PROVE  /\ Fetched("Fetch")' = Fetched("Fetch") \cup {next_to_fetch}
           /\ next_to_fetch \in Positions
           /\ \A s \in Stage : next_to_fetch \notin Fetched(s)
           /\ \A s \in Stage \ {"Fetch"} : Fetched(s)' = Fetched(s)
<1>1. /\ next_to_fetch \in Positions /\ next_to_fetch' = next_to_fetch + 1
      /\ next_to_fetch \in Nat \ {0}
      /\ 1..(next_to_fetch - 1) \subseteq Positions
      /\ 1..(next_to_fetch' - 1) = 1..(next_to_fetch - 1) \cup {next_to_fetch}
  BY DEF FetchOne, TypeOK, CoreType, Positions
<1>2. \A p \in Positions :
          stage'[p] = IF p = next_to_fetch THEN "Fetch" ELSE stage[p]
  BY <1>1 DEF FetchOne, TypeOK, TraceType
<1>3. next_to_fetch \notin 1..(next_to_fetch - 1)
  BY <1>1
<1> QED BY <1>1, <1>2, <1>3 DEF Fetched

\* Every step moves an instruction from one deque to the next, or not at all.
LEMMA StepDeques ==
    ASSUME TypeOK, SpanFits, EachInOnePlace, [Next]_vars
    PROVE  DequesMatchStages'
<1> USE ArgsConstant DEF EachInOnePlace, DequesMatchStages
<1>1. CASE RetireOne
  <2> DEFINE p == Head(retire_q)
  <2> USE <1>1, RetireOneMoves
  <2>1. retire_q \in Seq(Positions) /\ retire_q # <<>> /\ p \in Positions
    OBVIOUS
  <2>2. IsInjective(Tail(retire_q)) /\ Range(Tail(retire_q)) = Range(retire_q) \ {p}
    BY <2>1, PopFacts
  <2> QED BY <2>2 DEF RetireOne
<1>2. CASE TickEnd
  <2>1. \A s \in Stage \ {"Execute", "Retire"} : Fetched(s)' = Fetched(s)
    BY <1>2, FinishFacts
  <2>2. /\ Fetched("Retire")' = Fetched("Retire") \cup Range(finished)
        /\ Range(finished) \subseteq Fetched("Execute")
    BY <1>2, FinishFacts
  <2>3. Range(retire_q) \cap Range(finished) = {}
    BY <2>2 DEF Fetched
  <2>4. /\ Range(retire_q \o finished) = Range(retire_q) \cup Range(finished)
        /\ IsInjective(retire_q \o finished)
    BY <2>3, ConcatFacts DEF TypeOK, QueueType, SlotsMatchStage
  <2> QED BY <1>2, <2>1, <2>2, <2>4, StageFacts DEF TickEnd
<1>3. CASE WakeOne
  <2> DEFINE p == Head(dispatch_q)
  <2> USE <1>3, WakeOneMoves
  <2>1. dispatch_q \in Seq(Positions) /\ dispatch_q # <<>> /\ p \in Positions
    OBVIOUS
  <2>2. IsInjective(Tail(dispatch_q)) /\ Range(Tail(dispatch_q)) = Range(dispatch_q) \ {p}
    BY <2>1, PopFacts
  <2>3. p \notin Range(ready_q)
    OBVIOUS
  <2>4. /\ Range(Append(ready_q, p)) = Range(ready_q) \cup {p}
        /\ IsInjective(Append(ready_q, p))
    BY <2>1, <2>3, PushFacts DEF TypeOK, QueueType
  <2> QED BY <2>2, <2>4 DEF WakeOne
<1>4. CASE WakeStall
  <2>1. dispatch_q \in Seq(Positions) /\ dispatch_q # <<>>
    BY <1>4, ScanFacts DEF WakeStall, TypeOK, QueueType
  <2>2. IsInjective(Rotate(dispatch_q)) /\ Range(Rotate(dispatch_q)) = Range(dispatch_q)
    BY <2>1, RotateFacts DEF Rotate
  <2>3. \A s \in Stage : Fetched(s)' = Fetched(s)
    BY <1>4 DEF WakeStall, core, trace, Fetched
  <2> QED BY <1>4, <2>2, <2>3, StageFacts DEF WakeStall
<1>5. CASE IssueOne
  <2> DEFINE p == Head(ready_q)
  <2> USE <1>5, IssueOneMoves
  <2>1. ready_q \in Seq(Positions) /\ ready_q # <<>> /\ p \in Positions
    OBVIOUS
  <2>2. IsInjective(Tail(ready_q)) /\ Range(Tail(ready_q)) = Range(ready_q) \ {p}
    BY <2>1, PopFacts
  <2> QED BY <2>2 DEF IssueOne
<1>6. CASE IssueStall
  <2>1. ready_q \in Seq(Positions) /\ ready_q # <<>>
    BY <1>6, ScanFacts DEF IssueStall, TypeOK, QueueType
  <2>2. IsInjective(Rotate(ready_q)) /\ Range(Rotate(ready_q)) = Range(ready_q)
    BY <2>1, RotateFacts DEF Rotate
  <2>3. \A s \in Stage : Fetched(s)' = Fetched(s)
    BY <1>6 DEF IssueStall, core, trace, Fetched
  <2> QED BY <1>6, <2>2, <2>3, StageFacts DEF IssueStall
<1>7. CASE IssueSkip
  <2>1. ready_q \in Seq(Positions) /\ ready_q # <<>>
    BY <1>7, ScanFacts DEF IssueSkip, TypeOK, QueueType
  <2>2. IsInjective(Rotate(ready_q)) /\ Range(Rotate(ready_q)) = Range(ready_q)
    BY <2>1, RotateFacts DEF Rotate
  <2>3. \A s \in Stage : Fetched(s)' = Fetched(s)
    BY <1>7 DEF IssueSkip, core, trace, Fetched
  <2> QED BY <1>7, <2>2, <2>3, StageFacts DEF IssueSkip
<1>8. CASE DispatchOne
  <2> DEFINE p == Head(decode_q)
  <2> USE <1>8, DispatchOneMoves
  <2>1. decode_q \in Seq(Positions) /\ decode_q # <<>> /\ p \in Positions
    OBVIOUS
  <2>2. IsInjective(Tail(decode_q)) /\ Range(Tail(decode_q)) = Range(decode_q) \ {p}
    BY <2>1, PopFacts
  <2>3. p \notin Range(dispatch_q)
    OBVIOUS
  <2>4. /\ Range(Append(dispatch_q, p)) = Range(dispatch_q) \cup {p}
        /\ IsInjective(Append(dispatch_q, p))
    BY <2>1, <2>3, PushFacts DEF TypeOK, QueueType
  <2> QED BY <2>2, <2>4 DEF DispatchOne
<1>9. CASE DecodeOne
  <2> DEFINE p == Head(fetch_q)
  <2> USE <1>9, DecodeOneMoves
  <2>1. fetch_q \in Seq(Positions) /\ fetch_q # <<>> /\ p \in Positions
    OBVIOUS
  <2>2. IsInjective(Tail(fetch_q)) /\ Range(Tail(fetch_q)) = Range(fetch_q) \ {p}
    BY <2>1, PopFacts
  <2>3. p \notin Range(decode_q)
    OBVIOUS
  <2>4. /\ Range(Append(decode_q, p)) = Range(decode_q) \cup {p}
        /\ IsInjective(Append(decode_q, p))
    BY <2>1, <2>3, PushFacts DEF TypeOK, QueueType
  <2> QED BY <2>2, <2>4 DEF DecodeOne
<1>10. CASE FetchOne
  <2>1. /\ Fetched("Fetch")' = Fetched("Fetch") \cup {next_to_fetch}
        /\ next_to_fetch \notin Fetched("Fetch") /\ next_to_fetch \in Positions
        /\ \A s \in Stage \ {"Fetch"} : Fetched(s)' = Fetched(s)
    BY <1>10, FetchFacts, StageFacts
  <2>2. /\ Range(Append(fetch_q, next_to_fetch)) = Range(fetch_q) \cup {next_to_fetch}
        /\ IsInjective(Append(fetch_q, next_to_fetch))
    BY <2>1, PushFacts DEF TypeOK, QueueType
  <2> QED BY <1>10, <2>1, <2>2, StageFacts DEF FetchOne
<1>11. CASE BeginCycle \/ ReturnResult \/ RetireEnd \/ TickKeep \/
          TickFinish \/ WakeEnd \/ IssueEnd \/ DispatchFull \/
          DispatchEnd \/ DecodeEnd \/ FetchEnd \/ Account
  BY <1>11 DEF BeginCycle, ReturnResult, RetireEnd, TickKeep, TickFinish, WakeEnd,
         IssueEnd, DispatchFull, DispatchEnd, DecodeEnd, FetchEnd, Account,
         queues, core, trace, Fetched
<1>12. CASE UNCHANGED vars
  BY <1>12 DEF vars, queues, core, trace, Fetched
<1> QED
  BY <1>1, <1>2, <1>3, <1>4, <1>5, <1>6, <1>7, <1>8, <1>9, <1>10, <1>11,
     <1>12 DEF Next

\* Every step keeps the execution slots and the Execute stage the same set.
LEMMA StepSlots ==
    ASSUME TypeOK, SpanFits, IdleLocals, EachInOnePlace, [Next]_vars
    PROVE  SlotsMatchStage'
<1> USE ArgsConstant DEF EachInOnePlace, SlotsMatchStage
<1>1. CASE RetireOne
  <2>1. Fetched("Execute")' = Fetched("Execute")
    BY <1>1, RetireOneMoves
  <2> QED BY <1>1, <2>1 DEF RetireOne, locals
<1>2. CASE RetireEnd
  <2>1. /\ exec_slots' = exec_slots /\ Fetched("Execute")' = Fetched("Execute")
        /\ remaining_slots' = <<>> /\ finished' = <<>>
        /\ remaining_slots = <<>> /\ finished = <<>>
    BY <1>2 DEF RetireEnd, queues, core, trace, Fetched, IdleLocals
  <2> QED BY <2>1, EmptyFacts
<1>3. CASE TickKeep
  <2> DEFINE slot == Head(exec_slots)
  <2>1. exec_slots \in Seq(ExecSlot) /\ exec_slots # <<>>
    BY <1>3 DEF TickKeep, TypeOK, SlotType
  <2>2. /\ slot \in ExecSlot /\ slot.index \in Indices(exec_slots)
        /\ DistinctSlots(Tail(exec_slots))
        /\ Indices(Tail(exec_slots)) = Indices(exec_slots) \ {slot.index}
    BY <2>1, SlotPopFacts
  <2>3. Ticked(slot) \in ExecSlot /\ Ticked(slot).index = slot.index
    BY <2>2, TickedFacts
  <2>4. /\ exec_slots' = Tail(exec_slots) /\ finished' = finished
        /\ remaining_slots' = Append(remaining_slots, Ticked(slot))
        /\ Fetched("Execute")' = Fetched("Execute")
    BY <1>3 DEF TickKeep, core, trace, Fetched
  <2> HIDE DEF slot
  <2>5. /\ Indices(remaining_slots') = Indices(remaining_slots) \cup {slot.index}
        /\ DistinctSlots(remaining_slots')
    BY <2>2, <2>3, <2>4, SlotPushFacts DEF TypeOK, SlotType
  <2> QED BY <2>2, <2>4, <2>5
<1>4. CASE TickFinish
  <2> DEFINE slot == Head(exec_slots)
  <2>1. exec_slots \in Seq(ExecSlot) /\ exec_slots # <<>>
    BY <1>4 DEF TickFinish, TypeOK, SlotType
  <2>2. /\ slot \in ExecSlot /\ slot.index \in Indices(exec_slots)
        /\ DistinctSlots(Tail(exec_slots))
        /\ Indices(Tail(exec_slots)) = Indices(exec_slots) \ {slot.index}
    BY <2>1, SlotPopFacts
  <2>3. Ticked(slot) \in ExecSlot /\ Ticked(slot).index = slot.index
    BY <2>2, TickedFacts
  <2>4. /\ exec_slots' = Tail(exec_slots) /\ remaining_slots' = remaining_slots
        /\ finished' = Append(finished, slot.index)
        /\ Fetched("Execute")' = Fetched("Execute")
    BY <1>4, <2>3 DEF TickFinish, core, trace, Fetched
  <2>5. slot.index \in Positions
    BY <2>2 DEF ExecSlot
  <2> HIDE DEF slot
  <2>6. slot.index \notin Range(finished)
    BY <2>2
  <2>7. Range(finished') = Range(finished) \cup {slot.index} /\ IsInjective(finished')
    BY <2>4, <2>5, <2>6, PushFacts DEF TypeOK, QueueType
  <2> QED BY <2>2, <2>4, <2>7
<1>5. CASE TickEnd
  <2>1. Fetched("Execute")' = Fetched("Execute") \ Range(finished)
    BY <1>5, FinishFacts DEF EachInOnePlace
  <2>2. /\ exec_slots = <<>> /\ exec_slots' = remaining_slots
        /\ remaining_slots' = <<>> /\ finished' = <<>>
    BY <1>5 DEF TickEnd
  <2> QED BY <2>1, <2>2, EmptyFacts
<1>6. CASE WakeOne
  <2>1. Fetched("Execute")' = Fetched("Execute")
    BY <1>6, WakeOneMoves
  <2> QED BY <1>6, <2>1 DEF WakeOne, locals
<1>7. CASE IssueOne
  <2> DEFINE p == Head(ready_q)
  <2>2. p \in Positions
    BY <1>7, IssueOneMoves
  <2>4. SlotFor(p) \in ExecSlot /\ SlotFor(p).index = p
    <3>1. program[p] \in Instruction
      BY <2>2 DEF Positions, TypeOK, CoreType
    <3> QED BY <2>2, <3>1 DEF SlotFor, ExecSlot, Instruction, is_memory_op
  <2>5. exec_slots' = Append(exec_slots, SlotFor(p))
    BY <1>7 DEF IssueOne
  <2>6. /\ Fetched("Execute")' = Fetched("Execute") \cup {p}
        /\ p \notin Fetched("Execute")
    BY <1>7, IssueOneMoves
  <2> HIDE DEF p
  <2>7. p \notin Indices(exec_slots)
    BY <2>6
  <2>8. /\ Indices(exec_slots') = Indices(exec_slots) \cup {p}
        /\ DistinctSlots(exec_slots')
    BY <2>4, <2>5, <2>7, SlotPushFacts DEF TypeOK, SlotType
  <2>9. remaining_slots' = remaining_slots /\ finished' = finished
    BY <1>7 DEF IssueOne
  <2> QED BY <2>6, <2>8, <2>9
<1>8. CASE DispatchOne
  <2>1. Fetched("Execute")' = Fetched("Execute")
    BY <1>8, DispatchOneMoves
  <2> QED BY <1>8, <2>1 DEF DispatchOne, locals
<1>9. CASE DecodeOne
  <2>1. Fetched("Execute")' = Fetched("Execute")
    BY <1>9, DecodeOneMoves
  <2> QED BY <1>9, <2>1 DEF DecodeOne, locals
<1>10. CASE FetchOne
  <2>1. Fetched("Execute")' = Fetched("Execute")
    BY <1>10, FetchFacts, StageFacts
  <2> QED BY <1>10, <2>1 DEF FetchOne, locals
<1>11. CASE BeginCycle \/ ReturnResult \/ WakeStall \/ WakeEnd \/
          IssueStall \/ IssueSkip \/ IssueEnd \/ DispatchFull \/
          DispatchEnd \/ DecodeEnd \/ FetchEnd \/ Account
  BY <1>11 DEF BeginCycle, ReturnResult, WakeStall, WakeEnd, IssueStall,
         IssueSkip, IssueEnd, DispatchFull, DispatchEnd, DecodeEnd,
         FetchEnd, Account, queues, locals, core, trace, Fetched
<1>12. CASE UNCHANGED vars
  BY <1>12 DEF vars, queues, locals, core, trace, Fetched
<1> QED
  BY <1>1, <1>2, <1>3, <1>4, <1>5, <1>6, <1>7, <1>8, <1>9, <1>10, <1>11,
     <1>12 DEF Next

\* The vectors local to the execute phase are empty outside it.
LEMMA StepIdle ==
    ASSUME TypeOK, IdleLocals, [Next]_vars
    PROVE  IdleLocals'
<1> USE DEF IdleLocals
<1>1. CASE RetireEnd
  BY <1>1 DEF RetireEnd
<1>2. CASE TickKeep
  BY <1>2 DEF TickKeep, Phases, TypeOK, CoreType
<1>3. CASE TickFinish
  BY <1>3 DEF TickFinish, Phases, TypeOK, CoreType
<1>4. CASE TickEnd
  BY <1>4 DEF TickEnd
<1>5. CASE BeginCycle \/ ReturnResult \/ RetireOne \/ WakeOne \/ WakeStall \/
          WakeEnd \/ IssueOne \/ IssueStall \/ IssueSkip \/ IssueEnd \/
          DispatchOne \/ DispatchFull \/ DispatchEnd \/ DecodeOne \/
          DecodeEnd \/ FetchOne \/ FetchEnd \/ Account
  BY <1>5 DEF BeginCycle, ReturnResult, RetireOne, WakeOne, WakeStall, WakeEnd,
         IssueOne, IssueStall, IssueSkip, IssueEnd, DispatchOne,
         DispatchFull, DispatchEnd, DecodeOne, DecodeEnd, FetchOne,
         FetchEnd, Account, locals
<1>6. CASE UNCHANGED vars
  BY <1>6 DEF vars, locals
<1> QED
  BY <1>1, <1>2, <1>3, <1>4, <1>5, <1>6 DEF Next

\* Every step keeps completion times after fetch times.
LEMMA StepCompleted ==
    ASSUME TypeOK, SpanFits, EachInOnePlace, CompletedAfterFetch, [Next]_vars
    PROVE  CompletedAfterFetch'
<1> USE ArgsConstant DEF CompletedAfterFetch
<1>1. CASE RetireOne
  <2>1. Fetched("Retire")' \subseteq Fetched("Retire")
    BY <1>1, RetireOneMoves
  <2> QED BY <1>1, <2>1 DEF RetireOne, core, trace
<1>2. CASE TickEnd
  <2>1. /\ Fetched("Retire")' = Fetched("Retire") \cup Range(finished)
        /\ Range(finished) \subseteq Fetched("Execute")
    BY <1>2, FinishFacts
  <2>2. \A p \in Fetched("Retire") \cup Range(finished) : p \in Positions
    BY <2>1, FetchedFacts
  <2>3. /\ enqueue_cycle' = enqueue_cycle /\ cycle' = cycle
        /\ \A p \in Positions : complete_cycle'[p] =
              IF p \in Range(finished) THEN cycle ELSE complete_cycle[p]
    BY <1>2 DEF TickEnd, core
  <2> QED BY <2>1, <2>2, <2>3
<1>3. CASE WakeOne
  <2>1. Fetched("Retire")' \subseteq Fetched("Retire")
    BY <1>3, WakeOneMoves
  <2> QED BY <1>3, <2>1 DEF WakeOne, core, trace
<1>4. CASE IssueOne
  <2>1. Fetched("Retire")' \subseteq Fetched("Retire")
    BY <1>4, IssueOneMoves
  <2> QED BY <1>4, <2>1 DEF IssueOne, core, trace
<1>5. CASE DispatchOne
  <2>1. Fetched("Retire")' \subseteq Fetched("Retire")
    BY <1>5, DispatchOneMoves
  <2> QED BY <1>5, <2>1 DEF DispatchOne, core, trace
<1>6. CASE DecodeOne
  <2>1. Fetched("Retire")' \subseteq Fetched("Retire")
    BY <1>6, DecodeOneMoves
  <2> QED BY <1>6, <2>1 DEF DecodeOne, core, trace
<1>7. CASE FetchOne
  <2>1. Fetched("Retire")' = Fetched("Retire") /\ next_to_fetch \notin Fetched("Retire")
    BY <1>7, FetchFacts, StageFacts
  <2>2. \A p \in Fetched("Retire") : p \in Positions
    BY FetchedFacts
  <2>3. /\ cycle' = cycle /\ complete_cycle' = complete_cycle
        /\ \A p \in Positions : enqueue_cycle'[p] =
              IF p = next_to_fetch THEN cycle ELSE enqueue_cycle[p]
    BY <1>7 DEF FetchOne, TypeOK, TraceType
  <2> QED BY <2>1, <2>2, <2>3 DEF TypeOK, CoreType
<1>8. CASE Account
  <2>1. /\ Fetched("Retire")' = Fetched("Retire") /\ cycle' = cycle + 1
        /\ enqueue_cycle' = enqueue_cycle /\ complete_cycle' = complete_cycle
    BY <1>8 DEF Account, trace, Fetched
  <2> QED BY <2>1 DEF TypeOK, CoreType, TraceType
<1>9. CASE BeginCycle \/ ReturnResult \/ RetireEnd \/ TickKeep \/
          TickFinish \/ WakeStall \/ WakeEnd \/ IssueStall \/ IssueSkip \/
          IssueEnd \/ DispatchFull \/ DispatchEnd \/ DecodeEnd \/ FetchEnd
  BY <1>9 DEF BeginCycle, ReturnResult, RetireEnd, TickKeep, TickFinish,
         WakeStall, WakeEnd, IssueStall, IssueSkip, IssueEnd, DispatchFull,
         DispatchEnd, DecodeEnd, FetchEnd, core, trace, Fetched
<1>10. CASE UNCHANGED vars
  BY <1>10 DEF vars, core, trace, Fetched
<1> QED
  BY <1>1, <1>2, <1>3, <1>4, <1>5, <1>6, <1>7, <1>8, <1>9, <1>10 DEF Next

\* What the type invariant needs to be inductive, and the deques' contents.
BaseInv ==
    /\ TypeOK /\ SpanFits /\ IdleLocals
    /\ EachInOnePlace /\ UnfetchedInFetch /\ CompletedAfterFetch

\* The initial state satisfies the inductive invariant.
LEMMA InitBase == Init => BaseInv
<1> SUFFICES ASSUME Init PROVE BaseInv
  OBVIOUS
<1>1. TypeOK
  BY InitType
<1>2. SpanFits /\ IdleLocals
  BY DEF Init, SpanFits, IdleLocals
<1>3. \A s : Fetched(s) = {}
  BY DEF Init, Fetched
<1>4. EachInOnePlace
  BY <1>3, EmptyFacts DEF Init, EachInOnePlace, DequesMatchStages, SlotsMatchStage
<1>5. UnfetchedInFetch /\ CompletedAfterFetch
  BY <1>3 DEF Init, UnfetchedInFetch, CompletedAfterFetch
<1> QED BY <1>1, <1>2, <1>4, <1>5 DEF BaseInv

\* Every step preserves it.
LEMMA StepBase == BaseInv /\ [Next]_vars => BaseInv'
BY StepType, StepSpan, StepIdle, StepDeques, StepSlots, StepUnfetched,
   StepCompleted DEF BaseInv, EachInOnePlace

\* The inductive invariant holds of every reachable state.
LEMMA SpecBase == Spec => []BaseInv
BY InitBase, StepBase, PTL DEF Spec

\* Types, for every program and configuration: with it no unsigned counter of
\* run_workload ever wraps below zero.
THEOREM TypeCorrect == Spec => []TypeOK
<1>1. BaseInv => TypeOK
  BY DEF BaseInv
<1> QED BY <1>1, SpecBase, PTL

\* No instruction is ever lost, duplicated or held by the wrong queue.
THEOREM OnePlace == Spec => []EachInOnePlace
<1>1. BaseInv => EachInOnePlace
  BY DEF BaseInv
<1> QED BY <1>1, SpecBase, PTL
-----------------------------------------------------------------------------
(***************************************************************************)
(* What run_workload guarantees beyond types and places, on top of that    *)
(* inductive invariant.                                                    *)
(***************************************************************************)

\* What a step may do to the stage of one instruction, and which step does it.
LEMMA StageSteps ==
    ASSUME BaseInv, [Next]_vars, NEW p \in Positions
    PROVE  \/ stage'[p] = stage[p]
           \/ DecodeOne /\ p = Head(fetch_q)
              /\ stage[p] = "Fetch" /\ stage'[p] = "Decode"
           \/ DispatchOne /\ p = Head(decode_q)
              /\ stage[p] = "Decode" /\ stage'[p] = "Dispatch"
           \/ WakeOne /\ p = Head(dispatch_q)
              /\ stage[p] = "Dispatch" /\ stage'[p] = "Ready"
           \/ IssueOne /\ p = Head(ready_q)
              /\ stage[p] = "Ready" /\ stage'[p] = "Execute"
           \/ TickEnd /\ p \in Range(finished)
              /\ stage[p] = "Execute" /\ stage'[p] = "Retire"
           \/ RetireOne /\ p = Head(retire_q)
              /\ stage[p] = "Retire" /\ stage'[p] = "Done"
<1> USE ArgsConstant DEF BaseInv
<1>1. CASE RetireOne
  <2>1. Head(retire_q) \in Fetched("Retire")
    BY <1>1, RetireOneMoves
  <2>2. stage[Head(retire_q)] = "Retire"
    BY <2>1, FetchedFacts
  <2>3. stage'[p] = IF p = Head(retire_q) THEN "Done" ELSE stage[p]
    BY <1>1 DEF RetireOne, TypeOK, TraceType
  <2> QED BY <1>1, <2>2, <2>3
<1>2. CASE WakeOne
  <2>1. Head(dispatch_q) \in Fetched("Dispatch")
    BY <1>2, WakeOneMoves
  <2>2. stage[Head(dispatch_q)] = "Dispatch"
    BY <2>1, FetchedFacts
  <2>3. stage'[p] = IF p = Head(dispatch_q) THEN "Ready" ELSE stage[p]
    BY <1>2 DEF WakeOne, TypeOK, TraceType
  <2> QED BY <1>2, <2>2, <2>3
<1>3. CASE IssueOne
  <2>1. Head(ready_q) \in Fetched("Ready")
    BY <1>3, IssueOneMoves
  <2>2. stage[Head(ready_q)] = "Ready"
    BY <2>1, FetchedFacts
  <2>3. stage'[p] = IF p = Head(ready_q) THEN "Execute" ELSE stage[p]
    BY <1>3 DEF IssueOne, TypeOK, TraceType
  <2> QED BY <1>3, <2>2, <2>3
<1>4. CASE DispatchOne
  <2>1. Head(decode_q) \in Fetched("Decode")
    BY <1>4, DispatchOneMoves
  <2>2. stage[Head(decode_q)] = "Decode"
    BY <2>1, FetchedFacts
  <2>3. stage'[p] = IF p = Head(decode_q) THEN "Dispatch" ELSE stage[p]
    BY <1>4 DEF DispatchOne, TypeOK, TraceType
  <2> QED BY <1>4, <2>2, <2>3
<1>5. CASE DecodeOne
  <2>1. Head(fetch_q) \in Fetched("Fetch")
    BY <1>5, DecodeOneMoves
  <2>2. stage[Head(fetch_q)] = "Fetch"
    BY <2>1, FetchedFacts
  <2>3. stage'[p] = IF p = Head(fetch_q) THEN "Decode" ELSE stage[p]
    BY <1>5 DEF DecodeOne, TypeOK, TraceType
  <2> QED BY <1>5, <2>2, <2>3
<1>6. CASE TickEnd
  <2>1. p \in Range(finished) => stage[p] = "Execute"
    BY <1>6, FinishFacts, FetchedFacts
  <2> QED BY <1>6, <2>1 DEF TickEnd
<1>7. CASE FetchOne
  BY <1>7 DEF FetchOne, UnfetchedInFetch, TypeOK, CoreType, TraceType
<1>8. CASE BeginCycle \/ ReturnResult \/ RetireEnd \/ TickKeep \/
          TickFinish \/ WakeStall \/ WakeEnd \/ IssueStall \/ IssueSkip \/
          IssueEnd \/ DispatchFull \/ DispatchEnd \/ DecodeEnd \/
          FetchEnd \/ Account
  BY <1>8 DEF BeginCycle, ReturnResult, RetireEnd, TickKeep, TickFinish,
         WakeStall, WakeEnd, IssueStall, IssueSkip, IssueEnd, DispatchFull,
         DispatchEnd, DecodeEnd, FetchEnd, Account, trace
<1>9. CASE UNCHANGED vars
  BY <1>9 DEF vars, trace
<1> QED
  BY <1>1, <1>2, <1>3, <1>4, <1>5, <1>6, <1>7, <1>8, <1>9 DEF Next

\* The position of each stage in the order of enum Stage.
LEMMA StageOrderFacts ==
    /\ StageOrder("Fetch") = 1 /\ StageOrder("Decode") = 2
    /\ StageOrder("Dispatch") = 3 /\ StageOrder("Ready") = 4
    /\ StageOrder("Execute") = 5 /\ StageOrder("Retire") = 6
    /\ StageOrder("Done") = 7
BY DEF StageOrder, Stages

\* An instruction's stage moves only forward, one stage at a time.
THEOREM StageProgress == Spec => StagesInOrder
<1>1. ASSUME BaseInv, [Next]_vars
      PROVE  [\A p \in Positions : stage'[p] # stage[p] =>
                StageOrder(stage'[p]) = StageOrder(stage[p]) + 1]_vars
  BY <1>1, StageSteps, StageOrderFacts
<1> QED BY <1>1, SpecBase, PTL DEF Spec, StagesInOrder
-----------------------------------------------------------------------------
\* Instructions waiting to retire completed by now, and before this cycle
\* until the retire phase has dealt with them.
RetireTimes ==
    /\ \A p \in Fetched("Retire") : complete_cycle[p] <= cycle
    /\ phase \in {"loop", "retire"} =>
          \A p \in Fetched("Retire") : complete_cycle[p] < cycle

\* A retired id belongs to an instruction that is Done since an earlier cycle.
RetiredIsDone ==
    \A d \in retired_ids : \E q \in Positions :
        program[q].id = d /\ stage[q] = "Done" /\ complete_cycle[q] < cycle

\* An instruction waits in ready_q only once its dependencies have retired.
ReadyIsSatisfied ==
    \A p \in Positions : stage[p] = "Ready" => program[p].deps \subseteq retired_ids

\* Every step keeps those times.
LEMMA StepRetireTimes ==
    ASSUME BaseInv, RetireTimes, [Next]_vars
    PROVE  RetireTimes'
<1> USE ArgsConstant DEF BaseInv, RetireTimes
<1>1. CASE RetireOne
  <2>1. Fetched("Retire")' \subseteq Fetched("Retire")
    BY <1>1, RetireOneMoves
  <2> QED BY <1>1, <2>1 DEF RetireOne, core, trace
<1>2. CASE TickEnd
  <2>1. /\ Fetched("Retire")' = Fetched("Retire") \cup Range(finished)
        /\ Range(finished) \subseteq Fetched("Execute")
    BY <1>2, FinishFacts
  <2>2. \A p \in Fetched("Retire") \cup Range(finished) : p \in Positions
    BY <2>1, FetchedFacts
  <2>3. /\ phase' = "wake" /\ cycle' = cycle /\ cycle \in Nat
        /\ \A p \in Positions : complete_cycle'[p] =
              IF p \in Range(finished) THEN cycle ELSE complete_cycle[p]
    BY <1>2 DEF TickEnd, core, TypeOK, CoreType
  <2> QED BY <2>1, <2>2, <2>3
<1>3. CASE WakeOne
  <2>1. Fetched("Retire")' \subseteq Fetched("Retire")
    BY <1>3, WakeOneMoves
  <2> QED BY <1>3, <2>1 DEF WakeOne, core, trace
<1>4. CASE IssueOne
  <2>1. Fetched("Retire")' \subseteq Fetched("Retire")
    BY <1>4, IssueOneMoves
  <2> QED BY <1>4, <2>1 DEF IssueOne, core, trace
<1>5. CASE DispatchOne
  <2>1. Fetched("Retire")' \subseteq Fetched("Retire")
    BY <1>5, DispatchOneMoves
  <2> QED BY <1>5, <2>1 DEF DispatchOne, core, trace
<1>6. CASE DecodeOne
  <2>1. Fetched("Retire")' \subseteq Fetched("Retire")
    BY <1>6, DecodeOneMoves
  <2> QED BY <1>6, <2>1 DEF DecodeOne, core, trace
<1>7. CASE FetchOne
  <2>1. Fetched("Retire")' = Fetched("Retire")
    BY <1>7, FetchFacts, StageFacts
  <2> QED BY <1>7, <2>1 DEF FetchOne
<1>8. CASE Account
  <2>1. /\ Fetched("Retire")' = Fetched("Retire") /\ cycle' = cycle + 1
        /\ complete_cycle' = complete_cycle
    BY <1>8 DEF Account, trace, Fetched
  <2>2. \A p \in Fetched("Retire") : complete_cycle[p] \in Nat
    BY FetchedFacts DEF TypeOK, TraceType
  <2> QED BY <2>1, <2>2 DEF TypeOK, CoreType
<1>9. CASE BeginCycle \/ ReturnResult \/ RetireEnd \/ TickKeep \/
          TickFinish \/ WakeStall \/ WakeEnd \/ IssueStall \/ IssueSkip \/
          IssueEnd \/ DispatchFull \/ DispatchEnd \/ DecodeEnd \/ FetchEnd
  BY <1>9 DEF BeginCycle, ReturnResult, RetireEnd, TickKeep, TickFinish,
         WakeStall, WakeEnd, IssueStall, IssueSkip, IssueEnd, DispatchFull,
         DispatchEnd, DecodeEnd, FetchEnd, core, trace, Fetched
<1>10. CASE UNCHANGED vars
  BY <1>10 DEF vars, core, trace, Fetched
<1> QED
  BY <1>1, <1>2, <1>3, <1>4, <1>5, <1>6, <1>7, <1>8, <1>9, <1>10 DEF Next

\* An instruction that is Done stays as it is.
LEMMA DoneStays ==
    ASSUME BaseInv, [Next]_vars, NEW q \in Positions, stage[q] = "Done"
    PROVE  stage'[q] = "Done" /\ complete_cycle'[q] = complete_cycle[q]
<1>1. stage'[q] = "Done"
  BY StageSteps
<1>2. CASE TickEnd
  <2>1. q \notin Range(finished)
    BY <1>2, FinishFacts, FetchedFacts, ArgsConstant DEF BaseInv
  <2> QED BY <1>1, <1>2, <2>1 DEF TickEnd
<1>3. CASE ~TickEnd
  <2>1. complete_cycle' = complete_cycle
    BY <1>3 DEF Next, vars, trace, BeginCycle, ReturnResult, RetireOne, RetireEnd, TickKeep, TickFinish,
      TickEnd, WakeOne, WakeStall, WakeEnd, IssueOne, IssueStall, IssueSkip,
      IssueEnd, DispatchOne, DispatchFull, DispatchEnd, DecodeOne,
      DecodeEnd, FetchOne, FetchEnd, Account
  <2> QED BY <1>1, <2>1
<1> QED BY <1>2, <1>3

\* cycle never decreases and retired_ids only grows.
LEMMA Monotone ==
    ASSUME BaseInv, [Next]_vars
    PROVE  /\ cycle \in Nat /\ cycle' \in Nat /\ cycle <= cycle'
           /\ retired_ids \subseteq retired_ids'
           /\ RetireOne \/ retired_ids' = retired_ids
<1>1. cycle \in Nat
  BY DEF BaseInv, TypeOK, CoreType
<1> QED BY <1>1 DEF Next, vars, core, BeginCycle, ReturnResult, RetireOne, RetireEnd, TickKeep, TickFinish,
      TickEnd, WakeOne, WakeStall, WakeEnd, IssueOne, IssueStall, IssueSkip,
      IssueEnd, DispatchOne, DispatchFull, DispatchEnd, DecodeOne,
      DecodeEnd, FetchOne, FetchEnd, Account

\* Every step keeps the retired ids those of Done instructions.
LEMMA StepRetired ==
    ASSUME BaseInv, RetireTimes, RetiredIsDone, [Next]_vars
    PROVE  RetiredIsDone'
<1> SUFFICES ASSUME NEW d \in retired_ids'
             PROVE  \E q \in Positions : /\ program[q].id = d /\ stage'[q] = "Done"
                                        /\ complete_cycle'[q] < cycle'
  BY ArgsConstant DEF RetiredIsDone
<1>1. CASE d \in retired_ids
  <2>1. PICK q \in Positions : /\ program[q].id = d /\ stage[q] = "Done"
                               /\ complete_cycle[q] < cycle
    BY <1>1 DEF RetiredIsDone
  <2>2. complete_cycle[q] \in Nat
    BY DEF BaseInv, TypeOK, TraceType
  <2>3. stage'[q] = "Done" /\ complete_cycle'[q] = complete_cycle[q]
    BY <2>1, DoneStays
  <2> QED BY <2>1, <2>2, <2>3, Monotone
<1>2. CASE d \notin retired_ids
  <2>1. RetireOne
    BY <1>2, Monotone
  <2> DEFINE q == Head(retire_q)
  <2>2. q \in Positions /\ q \in Fetched("Retire")
    BY <2>1, RetireOneMoves, ArgsConstant DEF BaseInv
  <2>3. complete_cycle[q] < cycle
    BY <2>1, <2>2 DEF RetireTimes, RetireOne
  <2>4. program[q].id = d /\ complete_cycle' = complete_cycle /\ cycle' = cycle
    BY <1>2, <2>1 DEF RetireOne
  <2>5. stage'[q] = "Done"
    BY <2>1, <2>2 DEF RetireOne, BaseInv, TypeOK, TraceType
  <2> QED BY <2>2, <2>3, <2>4, <2>5
<1> QED BY <1>1, <1>2

\* Every step keeps the dependencies of ready instructions retired.
LEMMA StepReady ==
    ASSUME BaseInv, ReadyIsSatisfied, [Next]_vars
    PROVE  ReadyIsSatisfied'
<1> SUFFICES ASSUME NEW p \in Positions, stage'[p] = "Ready"
             PROVE  program[p].deps \subseteq retired_ids'
  BY ArgsConstant DEF ReadyIsSatisfied
<1>1. CASE stage[p] = "Ready"
  BY <1>1, Monotone DEF ReadyIsSatisfied
<1>2. CASE stage[p] # "Ready"
  <2>1. WakeOne /\ p = Head(dispatch_q)
    BY <1>2, StageSteps
  <2> QED BY <2>1, Monotone DEF WakeOne, deps_satisfied
<1> QED BY <1>1, <1>2

\* Every step keeps the order of dependent instructions.
LEMMA StepDependency ==
    ASSUME BaseInv, RetiredIsDone, ReadyIsSatisfied, DependencyOrder, [Next]_vars
    PROVE  DependencyOrder'
<1> SUFFICES ASSUME NEW p \in Positions, NEW d \in program[p].deps,
                    stage'[p] \in {"Execute", "Retire", "Done"}
             PROVE  \E q \in Positions :
                        /\ program[q].id = d /\ stage'[q] = "Done"
                        /\ complete_cycle'[q] < issue_cycle'[p]
  BY ArgsConstant DEF DependencyOrder, Issued
<1>1. CASE stage[p] \in {"Execute", "Retire", "Done"}
  <2>1. PICK q \in Positions : /\ program[q].id = d /\ stage[q] = "Done"
                               /\ complete_cycle[q] < issue_cycle[p]
    BY <1>1 DEF DependencyOrder, Issued
  <2>2. stage'[q] = "Done" /\ complete_cycle'[q] = complete_cycle[q]
    BY <2>1, DoneStays
  <2>3. issue_cycle'[p] = issue_cycle[p]
    <3>1. CASE IssueOne
      <4>1. Head(ready_q) \in Fetched("Ready")
        BY <3>1, IssueOneMoves, ArgsConstant DEF BaseInv
      <4>2. p # Head(ready_q)
        BY <1>1, <4>1, FetchedFacts DEF BaseInv
      <4> QED BY <3>1, <4>2 DEF IssueOne, BaseInv, TypeOK, TraceType
    <3>2. CASE ~IssueOne
      BY <3>2 DEF Next, vars, trace, BeginCycle, ReturnResult, RetireOne, RetireEnd, TickKeep,
         TickFinish, TickEnd, WakeOne, WakeStall, WakeEnd, IssueOne,
         IssueStall, IssueSkip, IssueEnd, DispatchOne, DispatchFull,
         DispatchEnd, DecodeOne, DecodeEnd, FetchOne, FetchEnd, Account
    <3> QED BY <3>1, <3>2
  <2> QED BY <2>1, <2>2, <2>3
<1>2. CASE stage[p] \notin {"Execute", "Retire", "Done"}
  <2>1. IssueOne /\ p = Head(ready_q)
    BY <1>2, StageSteps
  <2>2. p \in Fetched("Ready")
    BY <2>1, IssueOneMoves, ArgsConstant DEF BaseInv
  <2>3. d \in retired_ids
    BY <2>2, FetchedFacts DEF ReadyIsSatisfied, BaseInv
  <2>4. PICK q \in Positions : /\ program[q].id = d /\ stage[q] = "Done"
                               /\ complete_cycle[q] < cycle
    BY <2>3 DEF RetiredIsDone
  <2>5. stage'[q] = "Done" /\ complete_cycle'[q] = complete_cycle[q]
    BY <2>4, DoneStays
  <2>6. issue_cycle'[p] = cycle
    BY <2>1 DEF IssueOne, BaseInv, TypeOK, TraceType
  <2> QED BY <2>4, <2>5, <2>6
<1> QED BY <1>1, <1>2

\* The inductive invariant for DependencyOrder.
DependencyInv ==
    BaseInv /\ RetireTimes /\ RetiredIsDone /\ ReadyIsSatisfied /\ DependencyOrder

\* No instruction is ever issued before all its dependencies have retired,
\* each completed in an earlier cycle.
THEOREM DependenciesFirst == Spec => []DependencyOrder
<1>1. Init => DependencyInv
  <2> SUFFICES ASSUME Init PROVE DependencyInv
    OBVIOUS
  <2>1. \A s : Fetched(s) = {}
    BY DEF Init, Fetched
  <2>2. Issued = {} /\ retired_ids = {}
    BY DEF Init, Issued
  <2>3. \A p \in Positions : stage[p] = "Fetch"
    BY DEF Init
  <2> QED BY <2>1, <2>2, <2>3, InitBase DEF DependencyInv, RetireTimes, RetiredIsDone,
             ReadyIsSatisfied, DependencyOrder
<1>2. DependencyInv /\ [Next]_vars => DependencyInv'
  BY StepBase, StepRetireTimes, StepRetired, StepReady, StepDependency
     DEF DependencyInv
<1>3. DependencyInv => DependencyOrder
  BY DEF DependencyInv
<1> QED BY <1>1, <1>2, <1>3, PTL DEF Spec
-----------------------------------------------------------------------------
\* A slot records the kind of its instruction.
SlotKinds ==
    \A slot \in Range(exec_slots) \cup Range(remaining_slots) :
        slot.uses_memory = is_memory_op(program[slot.index].type)

\* The instructions in flight are in the program, so finitely many.
LEMMA HoldingFacts ==
    ASSUME BaseInv
    PROVE  /\ IsFiniteSet(PortHolders) /\ Cardinality(PortHolders) \in Nat
           /\ IsFiniteSet(UnitHolders) /\ Cardinality(UnitHolders) \in Nat
<1>1. InFlight \subseteq Positions
  BY FetchedFacts DEF InFlight, BaseInv, EachInOnePlace, SlotsMatchStage
<1>2. PortHolders \subseteq Positions /\ UnitHolders \subseteq Positions
  BY <1>1 DEF PortHolders, UnitHolders
<1>3. IsFiniteSet(Positions)
  <2>1. Len(program) \in Nat
    BY DEF BaseInv, TypeOK, CoreType
  <2> QED BY <2>1, FS_Interval DEF Positions
<1>4. IsFiniteSet(PortHolders) /\ IsFiniteSet(UnitHolders)
  BY <1>2, <1>3, FS_Subset
<1> QED BY <1>4, FS_CardinalityType

\* The slot that is ticked: its instruction is in flight, with its kind.
LEMMA FrontSlot ==
    ASSUME BaseInv, SlotKinds, exec_slots # <<>>, NEW slot, slot = Head(exec_slots)
    PROVE  /\ slot \in ExecSlot /\ slot \in Range(exec_slots)
           /\ slot.index \in Positions
           /\ slot.index \in Indices(exec_slots)
           /\ slot.index \notin Indices(remaining_slots)
           /\ slot.uses_memory = is_memory_op(program[slot.index].type)
           /\ Range(Tail(exec_slots)) \subseteq Range(exec_slots)
           /\ Indices(Tail(exec_slots)) = Indices(exec_slots) \ {slot.index}
           /\ Ticked(slot) \in ExecSlot /\ Ticked(slot).index = slot.index
           /\ Ticked(slot).uses_memory = slot.uses_memory
<1>1. exec_slots \in Seq(ExecSlot) /\ DistinctSlots(exec_slots)
  BY DEF BaseInv, TypeOK, SlotType, EachInOnePlace, SlotsMatchStage
<1>2. /\ slot \in Range(exec_slots) /\ slot \in ExecSlot
      /\ Range(Tail(exec_slots)) \subseteq Range(exec_slots)
  BY <1>1, PopFacts
<1>3. /\ slot.index \in Indices(exec_slots)
      /\ Indices(Tail(exec_slots)) = Indices(exec_slots) \ {slot.index}
  BY <1>1, SlotPopFacts
<1>4. slot.index \in Positions
  BY <1>2 DEF ExecSlot
<1>5. slot.index \notin Indices(remaining_slots)
  BY <1>3 DEF BaseInv, EachInOnePlace, SlotsMatchStage
<1>6. slot.uses_memory = is_memory_op(program[slot.index].type)
  BY <1>2 DEF SlotKinds
<1> QED BY <1>2, <1>3, <1>4, <1>5, <1>6, TickedFacts

\* The slot a newly issued instruction gets.
LEMMA NewSlot ==
    ASSUME BaseInv, [Next]_vars, IssueOne, NEW p, p = Head(ready_q)
    PROVE  /\ p \in Positions /\ stage[p] = "Ready"
           /\ p \notin Indices(exec_slots) \cup Indices(remaining_slots)
           /\ SlotFor(p) \in ExecSlot /\ SlotFor(p).index = p
           /\ SlotFor(p).remaining = program[p].execute_latency
           /\ SlotFor(p).uses_memory = is_memory_op(program[p].type)
           /\ program[p] \in Instruction
           /\ Range(exec_slots') = Range(exec_slots) \cup {SlotFor(p)}
           /\ Indices(exec_slots') = Indices(exec_slots) \cup {p}
<1>1. p \in Positions /\ p \in Fetched("Ready") /\ stage[p] = "Ready"
  BY IssueOneMoves, ArgsConstant, FetchedFacts DEF BaseInv
<1>2. p \notin Indices(exec_slots) \cup Indices(remaining_slots)
  BY <1>1, FetchedFacts DEF BaseInv, EachInOnePlace, SlotsMatchStage
<1>3. program[p] \in Instruction
  BY <1>1 DEF Positions, BaseInv, TypeOK, CoreType
<1>4. /\ SlotFor(p) \in ExecSlot /\ SlotFor(p).index = p
      /\ SlotFor(p).remaining = program[p].execute_latency
      /\ SlotFor(p).uses_memory = is_memory_op(program[p].type)
  BY <1>1, <1>3 DEF SlotFor, ExecSlot, Instruction, is_memory_op
<1>5. exec_slots' = Append(exec_slots, SlotFor(p)) /\ exec_slots \in Seq(ExecSlot)
  BY DEF IssueOne, BaseInv, TypeOK, SlotType
<1>6. Range(exec_slots') = Range(exec_slots) \cup {SlotFor(p)}
  BY <1>4, <1>5, PushFacts
<1>7. Indices(exec_slots') = Indices(exec_slots) \cup {p}
  BY <1>4, <1>5, SlotPushFacts
<1> QED BY <1>1, <1>2, <1>3, <1>4, <1>6, <1>7

\* Every step keeps the slots' kinds.
LEMMA StepKinds ==
    ASSUME BaseInv, SlotKinds, [Next]_vars
    PROVE  SlotKinds'
<1> USE ArgsConstant DEF SlotKinds
<1>1. CASE RetireEnd
  BY <1>1, EmptyFacts DEF RetireEnd, queues
<1>2. CASE TickKeep
  <2> DEFINE slot == Head(exec_slots)
  <2>1. remaining_slots \in Seq(ExecSlot)
    BY DEF BaseInv, TypeOK, SlotType
  <2>2. /\ exec_slots' = Tail(exec_slots) /\ exec_slots # <<>>
        /\ remaining_slots' = Append(remaining_slots, Ticked(slot))
    BY <1>2 DEF TickKeep
  <2>3. Ticked(slot) \in ExecSlot
    BY <2>2, FrontSlot
  <2>4. Range(remaining_slots') = Range(remaining_slots) \cup {Ticked(slot)}
    BY <2>1, <2>2, <2>3, PushFacts
  <2> QED BY <2>2, <2>4, FrontSlot
<1>3. CASE TickFinish
  <2>1. /\ exec_slots' = Tail(exec_slots) /\ exec_slots # <<>>
        /\ remaining_slots' = remaining_slots
    BY <1>3 DEF TickFinish
  <2> QED BY <2>1, FrontSlot
<1>4. CASE TickEnd
  BY <1>4, EmptyFacts DEF TickEnd
<1>5. CASE IssueOne
  <2>1. remaining_slots' = remaining_slots
    BY <1>5 DEF IssueOne
  <2> QED BY <1>5, <2>1, NewSlot
<1>6. CASE BeginCycle \/ ReturnResult \/ RetireOne \/ WakeOne \/ WakeStall \/
          WakeEnd \/ IssueStall \/ IssueSkip \/ IssueEnd \/ DispatchOne \/
          DispatchFull \/ DispatchEnd \/ DecodeOne \/ DecodeEnd \/
          FetchOne \/ FetchEnd \/ Account
  BY <1>6 DEF BeginCycle, ReturnResult, RetireOne, WakeOne, WakeStall, WakeEnd,
         IssueStall, IssueSkip, IssueEnd, DispatchOne, DispatchFull,
         DispatchEnd, DecodeOne, DecodeEnd, FetchOne, FetchEnd, Account,
         queues, locals
<1>7. CASE UNCHANGED vars
  BY <1>7 DEF vars, queues, locals
<1> QED
  BY <1>1, <1>2, <1>3, <1>4, <1>5, <1>6, <1>7 DEF Next

\* Every step keeps the two counters equal to the number of instructions in
\* flight on each resource, and within its limit.
LEMMA StepResources ==
    ASSUME BaseInv, SlotKinds, ResourceAccounting, [Next]_vars
    PROVE  ResourceAccounting'
<1> USE ArgsConstant
<1>0. /\ config.memory_ports \in Nat /\ config.compute_units \in Nat
      /\ memory_in_use \in Nat /\ compute_in_use \in Nat
  BY DEF BaseInv, TypeOK, CoreType, SimulatorConfig
<1>1. CASE TickFinish
  <2> DEFINE slot == Head(exec_slots)
             i == slot.index
  <2>1. /\ exec_slots # <<>> /\ exec_slots' = Tail(exec_slots)
        /\ remaining_slots' = remaining_slots
    BY <1>1 DEF TickFinish
  <2>2. /\ i \in Indices(exec_slots) /\ i \notin Indices(remaining_slots)
        /\ Indices(Tail(exec_slots)) = Indices(exec_slots) \ {i}
    BY <2>1, FrontSlot
  <2>3. i \in InFlight /\ InFlight' = InFlight \ {i}
    BY <2>1, <2>2 DEF InFlight
  <2>4. Ticked(slot).uses_memory = is_memory_op(program[i].type)
    BY <2>1, FrontSlot
  <2> HIDE DEF i
  <2>5. CASE is_memory_op(program[i].type)
    <3>1. /\ PortHolders' = PortHolders \ {i} /\ i \in PortHolders
          /\ UnitHolders' = UnitHolders
      BY <2>3, <2>5 DEF PortHolders, UnitHolders
    <3>2. /\ Cardinality(PortHolders') = Cardinality(PortHolders) - 1
          /\ Cardinality(PortHolders) # 0
      BY <3>1, HoldingFacts, FS_RemoveElement, FS_EmptySet
    <3>3. memory_in_use > 0
      BY <1>0, <3>2 DEF ResourceAccounting
    <3>4. /\ memory_in_use' = memory_in_use - 1 /\ compute_in_use' = compute_in_use
          /\ phase' = phase
      <4>1. Ticked(Head(exec_slots)).uses_memory = TRUE
        BY <2>4, <2>5 DEF is_memory_op
      <4> QED BY <1>1, <3>3, <4>1 DEF TickFinish
    <3> QED BY <1>0, <3>1, <3>2, <3>4 DEF ResourceAccounting
  <2>6. CASE ~is_memory_op(program[i].type)
    <3>1. /\ UnitHolders' = UnitHolders \ {i} /\ i \in UnitHolders
          /\ PortHolders' = PortHolders
      BY <2>3, <2>6 DEF PortHolders, UnitHolders
    <3>2. /\ Cardinality(UnitHolders') = Cardinality(UnitHolders) - 1
          /\ Cardinality(UnitHolders) # 0
      BY <3>1, HoldingFacts, FS_RemoveElement, FS_EmptySet
    <3>3. compute_in_use > 0
      BY <1>0, <3>2 DEF ResourceAccounting
    <3>4. /\ compute_in_use' = compute_in_use - 1 /\ memory_in_use' = memory_in_use
          /\ phase' = phase
      BY <1>1, <2>4, <2>6, <3>3 DEF TickFinish, i
    <3> QED BY <1>0, <3>1, <3>2, <3>4 DEF ResourceAccounting
  <2> QED BY <2>5, <2>6
<1>2. CASE IssueOne
  <2> DEFINE p == Head(ready_q)
  <2>1. /\ p \notin Indices(exec_slots) \cup Indices(remaining_slots)
        /\ Indices(exec_slots') = Indices(exec_slots) \cup {p}
    BY <1>2, NewSlot
  <2>2. remaining_slots' = remaining_slots /\ phase' = phase
    BY <1>2 DEF IssueOne
  <2>3. p \notin InFlight /\ InFlight' = InFlight \cup {p}
    BY <2>1, <2>2 DEF InFlight
  <2>4. CASE is_memory_op(program[p].type)
    <3>1. /\ memory_in_use' = memory_in_use + 1 /\ compute_in_use' = compute_in_use
          /\ memory_in_use < config.memory_ports
      BY <1>2, <2>4 DEF IssueOne, PortFree
    <3> HIDE DEF p
    <3>2. /\ PortHolders' = PortHolders \cup {p} /\ p \notin PortHolders
          /\ UnitHolders' = UnitHolders
      BY <2>3, <2>4 DEF PortHolders, UnitHolders
    <3>3. Cardinality(PortHolders') = Cardinality(PortHolders) + 1
      BY <3>2, HoldingFacts, FS_AddElement
    <3> QED BY <1>0, <2>2, <3>1, <3>2, <3>3 DEF ResourceAccounting
  <2>5. CASE ~is_memory_op(program[p].type)
    <3>1. /\ compute_in_use' = compute_in_use + 1 /\ memory_in_use' = memory_in_use
          /\ compute_in_use < config.compute_units
      BY <1>2, <2>5 DEF IssueOne, PortFree
    <3> HIDE DEF p
    <3>2. /\ UnitHolders' = UnitHolders \cup {p} /\ p \notin UnitHolders
          /\ PortHolders' = PortHolders
      BY <2>3, <2>5 DEF PortHolders, UnitHolders
    <3>3. Cardinality(UnitHolders') = Cardinality(UnitHolders) + 1
      BY <3>2, HoldingFacts, FS_AddElement
    <3> QED BY <1>0, <2>2, <3>1, <3>2, <3>3 DEF ResourceAccounting
  <2> QED BY <2>4, <2>5
<1>3. CASE TickKeep
  <2> DEFINE slot == Head(exec_slots)
  <2>1. /\ exec_slots # <<>> /\ exec_slots' = Tail(exec_slots)
        /\ remaining_slots' = Append(remaining_slots, Ticked(slot))
    BY <1>3 DEF TickKeep
  <2>2. /\ Indices(Tail(exec_slots)) = Indices(exec_slots) \ {slot.index}
        /\ slot.index \in Indices(exec_slots)
        /\ Ticked(slot) \in ExecSlot /\ Ticked(slot).index = slot.index
    BY <2>1, FrontSlot
  <2>3. Indices(remaining_slots') = Indices(remaining_slots) \cup {slot.index}
    BY <2>1, <2>2, SlotPushFacts DEF BaseInv, TypeOK, SlotType
  <2>4. InFlight' = InFlight
    BY <2>1, <2>2, <2>3 DEF InFlight
  <2> QED BY <1>3, <2>4 DEF TickKeep, core, ResourceAccounting, PortHolders,
             UnitHolders
<1>4. CASE TickEnd
  <2>1. InFlight' = InFlight
    BY <1>4, EmptyFacts DEF TickEnd, InFlight
  <2> QED BY <1>4, <2>1 DEF TickEnd, core, ResourceAccounting, PortHolders,
             UnitHolders
<1>5. CASE RetireEnd
  <2>1. InFlight' = InFlight
    BY <1>5, EmptyFacts DEF RetireEnd, InFlight, queues, BaseInv, IdleLocals
  <2> QED BY <1>5, <2>1 DEF RetireEnd, core, ResourceAccounting, PortHolders,
             UnitHolders
<1>6. CASE BeginCycle \/ ReturnResult \/ RetireOne \/ WakeOne \/ WakeStall \/
          WakeEnd \/ IssueStall \/ IssueSkip \/ IssueEnd \/ DispatchOne \/
          DispatchFull \/ DispatchEnd \/ DecodeOne \/ DecodeEnd \/
          FetchOne \/ FetchEnd \/ Account
  BY <1>6 DEF BeginCycle, ReturnResult, RetireOne, WakeOne, WakeStall, WakeEnd,
         IssueStall, IssueSkip, IssueEnd, DispatchOne, DispatchFull,
         DispatchEnd, DecodeOne, DecodeEnd, FetchOne, FetchEnd, Account,
         queues, locals, core, ResourceAccounting, InFlight, PortHolders,
         UnitHolders
<1>7. CASE UNCHANGED vars
  BY <1>7 DEF vars, queues, locals, core, ResourceAccounting, InFlight,
             PortHolders, UnitHolders
<1> QED
  BY <1>1, <1>2, <1>3, <1>4, <1>5, <1>6, <1>7 DEF Next

\* The inductive invariant for ResourceAccounting.
ResourceInv == BaseInv /\ SlotKinds /\ ResourceAccounting

\* The initial state satisfies it.
LEMMA InitResources == Init => ResourceInv
<1> SUFFICES ASSUME Init PROVE ResourceInv
  OBVIOUS
<1>1. PortHolders = {} /\ UnitHolders = {}
  BY EmptyFacts DEF Init, InFlight, PortHolders, UnitHolders
<1>2. Cardinality({}) = 0
  BY FS_EmptySet
<1>3. config.memory_ports \in Nat /\ config.compute_units \in Nat
  BY InitType DEF TypeOK, CoreType, SimulatorConfig
<1>4. SlotKinds
  BY EmptyFacts DEF Init, SlotKinds
<1>5. ResourceAccounting
  BY <1>1, <1>2, <1>3 DEF Init, ResourceAccounting
<1> QED BY <1>4, <1>5, InitBase DEF ResourceInv

\* It holds of every reachable state.
LEMMA SpecResources == Spec => []ResourceInv
<1>1. ResourceInv /\ [Next]_vars => ResourceInv'
  BY StepBase, StepKinds, StepResources DEF ResourceInv
<1> QED BY <1>1, InitResources, PTL DEF Spec

\* The in-use counters are exact and never exceed the units and ports of the
\* configuration, and the "resource underflow" exceptions are never thrown.
THEOREM ResourcesExact == Spec => []ResourceAccounting
<1>1. ResourceInv => ResourceAccounting
  BY DEF ResourceInv
<1> QED BY <1>1, SpecResources, PTL
-----------------------------------------------------------------------------
Hold(p) == Greater(1, program[p].execute_latency)

\* The countdown of a slot and the current cycle give the cycle of completion.
\* From the start of a cycle until the slot is ticked it is one behind.
Countdown ==
    /\ \A slot \in Range(exec_slots) :
          Greater(1, slot.remaining) + cycle =
             issue_cycle[slot.index] + Hold(slot.index)
               + (IF phase \in {"loop", "retire", "execute"} THEN 1 ELSE 0)
    /\ \A slot \in Range(remaining_slots) :
          /\ slot.remaining > 0
          /\ slot.remaining + cycle = issue_cycle[slot.index] + Hold(slot.index)
    /\ \A p \in Range(finished) : cycle = issue_cycle[p] + Hold(p)

\* The positions that slots and finished refer to, and their types.
LEMMA SlotRange ==
    ASSUME BaseInv
    PROVE  /\ \A slot \in Range(exec_slots) \cup Range(remaining_slots) :
                 /\ slot.index \in Positions /\ slot.remaining \in Nat
                 /\ stage[slot.index] = "Execute"
           /\ \A p \in Range(finished) : p \in Positions /\ stage[p] = "Execute"
<1>1. exec_slots \in Seq(ExecSlot) /\ remaining_slots \in Seq(ExecSlot)
  BY DEF BaseInv, TypeOK, SlotType
<1>2. \A slot \in Range(exec_slots) :
          slot \in ExecSlot /\ slot.index \in Indices(exec_slots)
  BY <1>1 DEF Range, Indices
<1>3. \A slot \in Range(remaining_slots) :
          slot \in ExecSlot /\ slot.index \in Indices(remaining_slots)
  BY <1>1 DEF Range, Indices
<1>4. \A p \in Indices(exec_slots) \cup Indices(remaining_slots) \cup Range(finished) :
          p \in Positions /\ stage[p] = "Execute"
  BY FetchedFacts DEF BaseInv, EachInOnePlace, SlotsMatchStage
<1> QED BY <1>2, <1>3, <1>4 DEF ExecSlot

\* Latencies and cycles are natural numbers.
LEMMA TimeTypes ==
    ASSUME BaseInv, NEW p \in Positions
    PROVE  /\ issue_cycle[p] \in Nat /\ complete_cycle[p] \in Nat /\ cycle \in Nat
           /\ Hold(p) \in Nat
<1>1. program[p] \in Instruction
  BY DEF BaseInv, TypeOK, CoreType, Positions
<1>2. program[p].execute_latency \in Nat
  BY <1>1 DEF Instruction
<1>3. Hold(p) \in Nat
  BY <1>2 DEF Hold, Greater
<1> QED BY <1>3 DEF BaseInv, TypeOK, CoreType, TraceType

\* Every step keeps the countdowns right.
LEMMA StepCountdown ==
    ASSUME BaseInv, SlotKinds, ResourceAccounting, ResourceAccounting', Countdown, [Next]_vars
    PROVE  Countdown'
<1> USE ArgsConstant DEF Countdown
<1>1. CASE ReturnResult
  BY <1>1, EmptyFacts DEF ReturnResult, has_work_left, queues, locals, core, trace, Hold
<1>2. CASE RetireEnd
  BY <1>2, EmptyFacts DEF RetireEnd, queues, core, trace, Hold
<1>3. CASE TickKeep
  <2> DEFINE slot == Head(exec_slots)
             tick == Ticked(slot)
  <2>1. /\ exec_slots # <<>> /\ exec_slots' = Tail(exec_slots) /\ phase = "execute"
        /\ remaining_slots' = Append(remaining_slots, tick) /\ phase' = phase
        /\ finished' = finished /\ tick.remaining # 0
        /\ cycle' = cycle /\ issue_cycle' = issue_cycle
    BY <1>3 DEF TickKeep, core, trace
  <2>2. /\ slot \in ExecSlot /\ slot \in Range(exec_slots) /\ tick \in ExecSlot
        /\ tick.index = slot.index /\ slot.index \in Positions
        /\ Range(Tail(exec_slots)) \subseteq Range(exec_slots)
    BY <2>1, FrontSlot
  <2>3. tick.remaining = IF slot.remaining > 0 THEN slot.remaining - 1 ELSE slot.remaining
    BY <2>2, TickedFacts
  <2>4. Range(remaining_slots') = Range(remaining_slots) \cup {tick}
    BY <2>1, <2>2, PushFacts DEF BaseInv, TypeOK, SlotType
  <2>5. Greater(1, slot.remaining) + cycle = issue_cycle[slot.index] + Hold(slot.index) + 1
    BY <2>1, <2>2
  <2>6. slot.remaining \in Nat
    BY <2>2 DEF ExecSlot
  <2> HIDE DEF slot, tick
  <2>7. /\ tick.remaining > 0
        /\ tick.remaining + cycle = issue_cycle[tick.index] + Hold(tick.index)
    <3>1. /\ issue_cycle[slot.index] \in Nat /\ Hold(slot.index) \in Nat
          /\ cycle \in Nat
      BY <2>2, TimeTypes
    <3>2. slot.remaining > 1 /\ tick.remaining = slot.remaining - 1
      BY <2>1, <2>3, <2>6
    <3>3. slot.remaining + cycle = issue_cycle[slot.index] + Hold(slot.index) + 1
      BY <2>5, <3>2 DEF Greater
    <3> QED BY <2>2, <2>6, <3>1, <3>2, <3>3
  <2> QED BY <2>1, <2>2, <2>4, <2>7 DEF Hold
<1>4. CASE TickFinish
  <2> DEFINE slot == Head(exec_slots)
             tick == Ticked(slot)
  <2>1. /\ exec_slots # <<>> /\ exec_slots' = Tail(exec_slots) /\ phase = "execute"
        /\ remaining_slots' = remaining_slots /\ finished' = Append(finished, tick.index)
        /\ tick.remaining = 0 /\ cycle' = cycle /\ issue_cycle' = issue_cycle
    BY <1>4 DEF TickFinish, core, trace
  <2>2. phase' = phase
    BY <1>4 DEF TickFinish, ResourceAccounting
  <2>3. /\ slot \in ExecSlot /\ slot \in Range(exec_slots)
        /\ tick.index = slot.index /\ slot.index \in Positions
        /\ Range(Tail(exec_slots)) \subseteq Range(exec_slots)
    BY <2>1, FrontSlot
  <2>4. tick.remaining = IF slot.remaining > 0 THEN slot.remaining - 1 ELSE slot.remaining
    BY <2>3, TickedFacts
  <2>5. Range(finished') = Range(finished) \cup {slot.index}
    BY <2>1, <2>3, PushFacts DEF BaseInv, TypeOK, QueueType
  <2>6. Greater(1, slot.remaining) + cycle = issue_cycle[slot.index] + Hold(slot.index) + 1
    BY <2>1, <2>3
  <2>7. slot.remaining \in Nat
    BY <2>3 DEF ExecSlot
  <2> HIDE DEF slot, tick
  <2>8. cycle = issue_cycle[slot.index] + Hold(slot.index)
    BY <2>1, <2>3, <2>4, <2>6, <2>7, TimeTypes DEF Greater
  <2> QED BY <2>1, <2>2, <2>3, <2>5, <2>8 DEF Hold
<1>5. CASE TickEnd
  <2>1. /\ exec_slots' = remaining_slots /\ remaining_slots' = <<>>
        /\ finished' = <<>> /\ phase' = "wake"
        /\ cycle' = cycle /\ issue_cycle' = issue_cycle
    BY <1>5 DEF TickEnd, core
  <2>2. ASSUME NEW slot \in Range(remaining_slots)
        PROVE  Greater(1, slot.remaining) + cycle =
                  issue_cycle[slot.index] + Hold(slot.index)
    BY <2>2, SlotRange DEF Greater
  <2>3. \A p \in Positions : issue_cycle[p] + Hold(p) + 0 = issue_cycle[p] + Hold(p)
    BY TimeTypes
  <2> QED BY <2>1, <2>2, <2>3, SlotRange, EmptyFacts DEF Hold
<1>6. CASE IssueOne
  <2> DEFINE p == Head(ready_q)
  <2>1. /\ p \in Positions /\ stage[p] = "Ready"
        /\ SlotFor(p).index = p /\ SlotFor(p).remaining = program[p].execute_latency
        /\ Range(exec_slots') = Range(exec_slots) \cup {SlotFor(p)}
    BY <1>6, NewSlot
  <2>2. /\ remaining_slots' = remaining_slots /\ finished' = finished
        /\ phase = "issue" /\ phase' = phase /\ cycle' = cycle
        /\ issue_cycle' = [issue_cycle EXCEPT ![p] = cycle]
    BY <1>6 DEF IssueOne
  <2> HIDE DEF p
  <2>3. /\ issue_cycle'[p] = cycle
        /\ \A x \in Positions : stage[x] = "Execute" => issue_cycle'[x] = issue_cycle[x]
    BY <2>1, <2>2 DEF BaseInv, TypeOK, TraceType
  <2>4. Greater(1, SlotFor(p).remaining) + cycle = issue_cycle'[p] + Hold(p) + 0
    BY <2>1, <2>3, TimeTypes DEF Hold
  <2> QED BY <2>1, <2>2, <2>3, <2>4, SlotRange DEF Hold
<1>7. CASE Account
  <2>1. /\ exec_slots' = exec_slots /\ cycle' = cycle + 1 /\ phase' = "loop"
        /\ remaining_slots' = <<>> /\ finished' = <<>> /\ issue_cycle' = issue_cycle
        /\ phase = "account"
    BY <1>7 DEF Account, queues, locals, trace, BaseInv, IdleLocals
  <2>2. ASSUME NEW slot \in Range(exec_slots)
        PROVE  Greater(1, slot.remaining) + (cycle + 1) =
                  issue_cycle[slot.index] + Hold(slot.index) + 1
    <3>1. /\ slot.index \in Positions /\ slot.remaining \in Nat
          /\ Greater(1, slot.remaining) + cycle =
                issue_cycle[slot.index] + Hold(slot.index) + 0
      BY <2>1, SlotRange
    <3>2. Greater(1, slot.remaining) \in Nat
      BY <3>1 DEF Greater
    <3> QED BY <3>1, <3>2, TimeTypes
  <2> QED BY <2>1, <2>2, EmptyFacts DEF Hold
<1>8. CASE BeginCycle \/ RetireOne \/ WakeOne \/ WakeStall \/ WakeEnd \/
          IssueStall \/ IssueSkip \/ IssueEnd \/ DispatchOne \/
          DispatchFull \/ DispatchEnd \/ DecodeOne \/ DecodeEnd \/
          FetchOne \/ FetchEnd
  BY <1>8 DEF BeginCycle, RetireOne, WakeOne, WakeStall, WakeEnd, IssueStall,
         IssueSkip, IssueEnd, DispatchOne, DispatchFull, DispatchEnd,
         DecodeOne, DecodeEnd, FetchOne, FetchEnd, queues, locals, core,
         trace, Hold
<1>9. CASE UNCHANGED vars
  BY <1>9 DEF vars, queues, locals, core, trace, Hold
<1> QED
  BY <1>1, <1>2, <1>3, <1>4, <1>5, <1>6, <1>7, <1>8, <1>9 DEF Next

\* Every step keeps the recorded times exact.
LEMMA StepLatency ==
    ASSUME BaseInv, Countdown, ExactLatency, [Next]_vars
    PROVE  ExactLatency'
<1> SUFFICES ASSUME NEW p \in Positions, stage'[p] \in {"Retire", "Done"}
             PROVE  complete_cycle'[p] = issue_cycle'[p] + Hold(p)
  BY ArgsConstant DEF ExactLatency, Hold
<1>1. CASE TickEnd /\ p \in Range(finished)
  <2>1. complete_cycle'[p] = cycle /\ issue_cycle' = issue_cycle
    BY <1>1 DEF TickEnd
  <2> QED BY <1>1, <2>1 DEF Countdown
<1>2. CASE ~(TickEnd /\ p \in Range(finished))
  <2>1. stage[p] \in {"Retire", "Done"}
    BY <1>2, StageSteps
  <2>2. complete_cycle[p] = issue_cycle[p] + Hold(p)
    BY <2>1 DEF ExactLatency, Hold
  <2>3. CASE TickEnd
    BY <1>2, <2>2, <2>3 DEF TickEnd
  <2>4. CASE IssueOne
    <3>1. stage[Head(ready_q)] = "Ready"
      BY <2>4, NewSlot
    <3> QED BY <2>1, <2>2, <2>4, <3>1 DEF IssueOne, BaseInv, TypeOK, TraceType
  <2>5. CASE ~TickEnd /\ ~IssueOne
    <3>1. complete_cycle' = complete_cycle /\ issue_cycle' = issue_cycle
      BY <2>5 DEF Next, vars, trace, BeginCycle, ReturnResult, RetireOne, RetireEnd, TickKeep,
         TickFinish, TickEnd, WakeOne, WakeStall, WakeEnd, IssueOne,
         IssueStall, IssueSkip, IssueEnd, DispatchOne, DispatchFull,
         DispatchEnd, DecodeOne, DecodeEnd, FetchOne, FetchEnd, Account
    <3> QED BY <2>2, <3>1
  <2> QED BY <2>3, <2>4, <2>5
<1> QED BY <1>1, <1>2

\* Every instruction holds its unit for exactly its latency, 0 counted as 1.
THEOREM LatencyExact == Spec => []ExactLatency
<1> DEFINE Inv == ResourceInv /\ Countdown /\ ExactLatency
<1>1. Init => Inv
  <2> SUFFICES ASSUME Init PROVE Inv
    OBVIOUS
  <2>1. Countdown
    BY EmptyFacts DEF Init, Countdown
  <2>2. ExactLatency
    BY DEF Init, ExactLatency
  <2> QED BY <2>1, <2>2, InitResources
<1>2. Inv /\ [Next]_vars => Inv'
  <2> SUFFICES ASSUME Inv, [Next]_vars PROVE Inv'
    OBVIOUS
  <2>1. ResourceInv'
    BY StepBase, StepKinds, StepResources DEF ResourceInv
  <2>2. Countdown'
    BY <2>1, StepCountdown DEF ResourceInv
  <2>3. ExactLatency'
    BY StepLatency DEF ResourceInv
  <2> QED BY <2>1, <2>2, <2>3
<1>3. Inv => ExactLatency
  OBVIOUS
<1> QED BY <1>1, <1>2, <1>3, PTL DEF Spec
-----------------------------------------------------------------------------
DoneSet == {p \in Positions : stage[p] = "Done"}

\* completed_ops counts the Done instructions.
DoneCounted == stats.completed_ops = Cardinality(DoneSet)

\* Every step keeps completed_ops the number of Done instructions.
LEMMA StepDone ==
    ASSUME BaseInv, DoneCounted, [Next]_vars
    PROVE  DoneCounted'
<1> USE ArgsConstant
<1>1. IsFiniteSet(DoneSet)
  <2>1. Len(program) \in Nat /\ DoneSet \subseteq 1..Len(program)
    BY DEF BaseInv, TypeOK, CoreType, Positions, DoneSet
  <2>2. IsFiniteSet(1..Len(program))
    BY <2>1, FS_Interval
  <2> QED BY <2>1, <2>2, FS_Subset
<1>2. CASE RetireOne
  <2> DEFINE p == Head(retire_q)
  <2>1. p \in Positions /\ stage[p] = "Retire"
    BY <1>2, RetireOneMoves, FetchedFacts DEF BaseInv
  <2>2. \A x \in Positions : stage'[x] = IF x = p THEN "Done" ELSE stage[x]
    BY <1>2, <2>1 DEF RetireOne, BaseInv, TypeOK, TraceType
  <2>3. stats'.completed_ops = stats.completed_ops + 1
    BY <1>2 DEF RetireOne, BaseInv, TypeOK, StatsType
  <2> HIDE DEF p
  <2>4. DoneSet' = DoneSet \cup {p} /\ p \notin DoneSet
    BY <2>1, <2>2 DEF DoneSet
  <2>5. Cardinality(DoneSet') = Cardinality(DoneSet) + 1
    BY <1>1, <2>4, FS_AddElement
  <2> QED BY <2>3, <2>5 DEF DoneCounted
<1>3. CASE ~RetireOne
  <2>1. \A p \in Positions : stage'[p] = "Done" <=> stage[p] = "Done"
    <3> SUFFICES ASSUME NEW p \in Positions
                 PROVE  stage'[p] = "Done" <=> stage[p] = "Done"
      OBVIOUS
    <3> QED BY <1>3, StageSteps
  <2>2. Positions' = Positions
    BY ArgsConstant DEF Positions
  <2>3. DoneSet' = DoneSet
    BY <2>1, <2>2, Zenon DEF DoneSet
  <2>4. stats'.completed_ops = stats.completed_ops
    BY <1>3 DEF Next, vars, Stall, BaseInv, TypeOK, StatsType,
         BeginCycle, ReturnResult, RetireOne, RetireEnd, TickKeep,
         TickFinish, TickEnd, WakeOne, WakeStall, WakeEnd, IssueOne,
         IssueStall, IssueSkip, IssueEnd, DispatchOne, DispatchFull,
         DispatchEnd, DecodeOne, DecodeEnd, FetchOne, FetchEnd, Account
  <2> QED BY <2>3, <2>4 DEF DoneCounted
<1> QED BY <1>2, <1>3

\* With no work left nothing is in any deque or slot, so all is Done.
LEMMA ReturnFacts ==
    ASSUME ResourceInv, DoneCounted, ReturnResult
    PROVE  /\ \A p \in Positions : stage[p] = "Done"
           /\ stats.completed_ops = Len(program)
           /\ compute_in_use = 0 /\ memory_in_use = 0
<1>1. /\ next_to_fetch = Len(program) + 1 /\ Len(program) \in Nat
      /\ fetch_q = <<>> /\ decode_q = <<>> /\ dispatch_q = <<>>
      /\ ready_q = <<>> /\ retire_q = <<>> /\ exec_slots = <<>>
      /\ remaining_slots = <<>> /\ finished = <<>>
  BY DEF ReturnResult, has_work_left, ResourceInv, BaseInv, TypeOK, CoreType,
         IdleLocals
<1>2. \A s \in Stage \ {"Done"} : Fetched(s) = {}
  BY <1>1, EmptyFacts, StageFacts DEF ResourceInv, BaseInv, EachInOnePlace,
     DequesMatchStages, SlotsMatchStage
<1>3. ASSUME NEW p \in Positions  PROVE stage[p] = "Done"
  <2>1. p \in 1..(next_to_fetch - 1) /\ stage[p] \in Stage
    BY <1>1 DEF Positions, ResourceInv, BaseInv, TypeOK, TraceType
  <2> QED BY <1>2, <2>1 DEF Fetched
<1>4. DoneSet = 1..Len(program)
  BY <1>3 DEF DoneSet, Positions
<1>5. Cardinality(1..Len(program)) = Len(program)
  <2>1. ASSUME NEW a \in Int, NEW b \in Int
        PROVE  Cardinality(a..b) = IF a > b THEN 0 ELSE b - a + 1
    BY FS_Interval
  <2>2. ASSUME NEW n \in Nat  PROVE Cardinality(1..n) = n
    BY <2>1
  <2> QED BY <1>1, <2>2
<1>6. PortHolders = {} /\ UnitHolders = {}
  BY <1>1, EmptyFacts DEF InFlight, PortHolders, UnitHolders
<1>7. Cardinality({}) = 0
  BY FS_EmptySet
<1> QED BY <1>3, <1>4, <1>5, <1>6, <1>7
        DEF ResourceInv, ResourceAccounting, DoneCounted

\* When run_workload returns, every instruction is Done, counted once, and
\* nothing is in use any more.
THEOREM ReturnIsComplete == Spec => []ReturnsComplete
<1> DEFINE Inv == ResourceInv /\ DoneCounted /\ ReturnsComplete
<1>1. Init => Inv
  <2> SUFFICES ASSUME Init PROVE Inv
    OBVIOUS
  <2>1. DoneSet = {} /\ Cardinality({}) = 0
    BY FS_EmptySet DEF Init, DoneSet
  <2> QED BY <2>1, InitResources DEF Init, DoneCounted, ReturnsComplete
<1>2. Inv /\ [Next]_vars => Inv'
  <2> SUFFICES ASSUME Inv, [Next]_vars PROVE Inv'
    OBVIOUS
  <2>1. ResourceInv' /\ DoneCounted'
    BY StepBase, StepKinds, StepResources, StepDone DEF ResourceInv
  <2>2. ReturnsComplete'
    <3>1. CASE ReturnResult
      <4>1. /\ stage' = stage /\ compute_in_use' = compute_in_use
            /\ memory_in_use' = memory_in_use
        BY <3>1 DEF ReturnResult, core, trace
      <4>2. stats'.completed_ops = stats.completed_ops
        BY <3>1 DEF ReturnResult, ResourceInv, BaseInv, TypeOK, StatsType
      <4> QED BY <3>1, <4>1, <4>2, ReturnFacts, ArgsConstant DEF ReturnsComplete
    <3>2. CASE UNCHANGED vars
      BY <3>2 DEF vars, args, core, trace, ReturnsComplete, Positions
    <3>3. CASE Next /\ ~ReturnResult
      <4>1. CASE \/ BeginCycle \/ RetireOne \/ RetireEnd \/ TickKeep \/ TickFinish
                 \/ TickEnd \/ WakeOne \/ WakeStall \/ WakeEnd \/ IssueOne \/ IssueStall
        <5>1. phase' # "returned"
          BY <4>1 DEF BeginCycle, RetireOne, RetireEnd, TickKeep, TickFinish, TickEnd,
             WakeOne, WakeStall, WakeEnd, IssueOne, IssueStall
        <5> QED BY <5>1 DEF ReturnsComplete
      <4>2. CASE \/ IssueSkip \/ IssueEnd \/ DispatchOne \/ DispatchFull \/ DispatchEnd
                 \/ DecodeOne \/ DecodeEnd \/ FetchOne \/ FetchEnd \/ Account
        <5>1. phase' # "returned"
          BY <4>2 DEF IssueSkip, IssueEnd, DispatchOne, DispatchFull, DispatchEnd,
             DecodeOne, DecodeEnd, FetchOne, FetchEnd, Account
        <5> QED BY <5>1 DEF ReturnsComplete
      <4> QED BY <3>3, <4>1, <4>2 DEF Next
    <3> QED BY <3>1, <3>2, <3>3
  <2> QED BY <2>1, <2>2
<1>3. Inv => ReturnsComplete
  OBVIOUS
<1> QED BY <1>1, <1>2, <1>3, PTL DEF Spec
-----------------------------------------------------------------------------
\* The cycles of one instruction.
Flight(p) == {p} \X ((enqueue_cycle[p] + 1)..complete_cycle[p])

\* There are as many of them as its latency says.
LEMMA FlightFacts ==
    ASSUME TypeOK, NEW p \in Positions, enqueue_cycle[p] <= complete_cycle[p]
    PROVE  IsFiniteSet(Flight(p)) /\ Cardinality(Flight(p)) = Latency(p) /\ Latency(p) \in Nat
<1> DEFINE a == enqueue_cycle[p]
           b == complete_cycle[p]
<1>1. a \in Nat /\ b \in Nat /\ a <= b
  BY DEF TypeOK, TraceType
<1> HIDE DEF a, b
<1>2. IsFiniteSet((a + 1)..b) /\ Cardinality((a + 1)..b) = b - a
  <2>1. a + 1 \in Int /\ b \in Int
    BY <1>1
  <2>2. /\ IsFiniteSet((a + 1)..b)
        /\ Cardinality((a + 1)..b) = IF a + 1 > b THEN 0 ELSE b - (a + 1) + 1
    BY <2>1, FS_Interval
  <2> QED BY <1>1, <2>2
<1>3. IsFiniteSet({p}) /\ Cardinality({p}) = 1
  BY FS_Singleton
<1>4. /\ IsFiniteSet({p} \X ((a + 1)..b))
      /\ Cardinality({p} \X ((a + 1)..b)) = Cardinality({p}) * Cardinality((a + 1)..b)
  BY <1>2, <1>3, FS_Product
<1> QED BY <1>1, <1>2, <1>3, <1>4 DEF Flight, Latency, a, b

\* What a Done instruction was fetched and completed at stays.
LEMMA DoneTimesStay ==
    ASSUME BaseInv, [Next]_vars, NEW q \in Positions, stage[q] = "Done"
    PROVE  Flight(q)' = Flight(q)
<1>1. complete_cycle'[q] = complete_cycle[q]
  BY DoneStays
<1>2. enqueue_cycle'[q] = enqueue_cycle[q]
  <2>1. CASE FetchOne
    <3>1. q # next_to_fetch
      BY DEF BaseInv, UnfetchedInFetch, TypeOK, CoreType
    <3> QED BY <2>1, <3>1 DEF FetchOne, BaseInv, TypeOK, TraceType
  <2>2. CASE ~FetchOne
    BY <2>2 DEF Next, vars, trace, BeginCycle, ReturnResult, RetireOne, RetireEnd, TickKeep, TickFinish,
      TickEnd, WakeOne, WakeStall, WakeEnd, IssueOne, IssueStall, IssueSkip,
      IssueEnd, DispatchOne, DispatchFull, DispatchEnd, DecodeOne,
      DecodeEnd, FetchOne, FetchEnd, Account
  <2> QED BY <2>1, <2>2
<1> QED BY <1>1, <1>2 DEF Flight

\* The statistics match the trace, and the trace is finite.
TraceInv == BaseInv /\ StatsMatchTrace /\ IsFiniteSet(DoneCycles)

\* Every step keeps them so.
LEMMA StepTrace ==
    ASSUME TraceInv, [Next]_vars
    PROVE  StatsMatchTrace' /\ IsFiniteSet(DoneCycles)'
<1> USE ArgsConstant
<1>0. /\ BaseInv /\ StatsMatchTrace /\ IsFiniteSet(DoneCycles)
      /\ stats.completed_ops = Cardinality(DoneSet)
      /\ stats.total_latency = Cardinality(DoneCycles)
      /\ retired_ids = {program[q].id : q \in DoneSet}
      /\ stats.total_latency \in Nat /\ DoneSet \subseteq Positions
  BY DEF TraceInv, StatsMatchTrace, DoneSet, BaseInv, TypeOK, StatsType
<1>1. stats'.completed_ops = Cardinality(DoneSet')
  BY <1>0, StepDone DEF DoneCounted
<1>2. /\ \A u : u \in DoneCycles <=> \E q \in DoneSet : u \in Flight(q)
      /\ \A u : u \in DoneCycles' <=> \E q \in DoneSet' : u \in Flight(q)'
  BY DEF DoneCycles, DoneSet, Flight
<1>3. \A q \in DoneSet : Flight(q)' = Flight(q)
  BY <1>0, DoneTimesStay DEF DoneSet
<1>4. CASE RetireOne
  <2>0. PICK p : p = Head(retire_q)
    OBVIOUS
  <2>1. p \in Positions /\ p \in Fetched("Retire") /\ stage[p] = "Retire"
    BY <1>0, <1>4, <2>0, RetireOneMoves, FetchedFacts DEF BaseInv
  <2>2. enqueue_cycle[p] <= complete_cycle[p]
    BY <1>0, <2>1 DEF BaseInv, CompletedAfterFetch
  <2>3. /\ stats'.total_latency = stats.total_latency + Latency(p)
        /\ retired_ids' = retired_ids \cup {program[p].id}
        /\ enqueue_cycle' = enqueue_cycle /\ complete_cycle' = complete_cycle
    BY <1>0, <1>4, <2>0 DEF RetireOne, BaseInv, TypeOK, StatsType
  <2>4. \A x \in Positions : stage'[x] = IF x = p THEN "Done" ELSE stage[x]
    BY <1>0, <1>4, <2>0, <2>1 DEF RetireOne, BaseInv, TypeOK, TraceType
  <2>5. DoneSet' = DoneSet \cup {p} /\ p \notin DoneSet
    BY <2>1, <2>4 DEF DoneSet
  <2>6. Flight(p)' = Flight(p)
    BY <2>3 DEF Flight
  <2>7. DoneCycles' = DoneCycles \cup Flight(p)
    BY <1>2, <1>3, <2>5, <2>6
  <2>8. DoneCycles \cap Flight(p) = {}
    <3> SUFFICES ASSUME NEW u \in DoneCycles, u \in Flight(p) PROVE FALSE
      OBVIOUS
    <3>1. PICK q \in DoneSet : u \in Flight(q)
      BY <1>2
    <3>2. u[1] = q /\ u[1] = p
      BY <3>1 DEF Flight
    <3> QED BY <2>5, <3>2
  <2>9. IsFiniteSet(Flight(p)) /\ Cardinality(Flight(p)) = Latency(p) /\ Latency(p) \in Nat
    BY <1>0, <2>1, <2>2, FlightFacts DEF BaseInv
  <2>10. /\ IsFiniteSet(DoneCycles \cup Flight(p))
         /\ Cardinality(DoneCycles \cup Flight(p)) =
               Cardinality(DoneCycles) + Cardinality(Flight(p)) - Cardinality(DoneCycles \cap Flight(p))
    BY <1>0, <2>9, FS_Union
  <2>11. Cardinality(DoneCycles \cap Flight(p)) = 0
    BY <2>8, FS_EmptySet
  <2>12. stats'.total_latency = Cardinality(DoneCycles')
    <3>1. Cardinality(DoneCycles') = Cardinality(DoneCycles) + Latency(p) - 0
      BY <2>7, <2>9, <2>10, <2>11, Zenon
    <3> QED BY <1>0, <2>3, <2>9, <3>1
  <2>13. IsFiniteSet(DoneCycles')
    BY <2>7, <2>10
  <2>14. retired_ids' = {program[q].id : q \in DoneSet'}
    BY <1>0, <2>3, <2>5
  <2> QED BY <1>1, <2>12, <2>13, <2>14 DEF StatsMatchTrace, DoneSet
<1>5. CASE ~RetireOne
  <2>1. DoneSet' = DoneSet
    BY <1>0, <1>5, StageSteps DEF DoneSet
  <2>2. DoneCycles' = DoneCycles
    BY <1>2, <1>3, <2>1
  <2>3. stats'.total_latency = stats.total_latency
    BY <1>0, <1>5 DEF Next, vars, Stall, BaseInv, TypeOK, StatsType,
         BeginCycle, ReturnResult, RetireOne, RetireEnd, TickKeep,
         TickFinish, TickEnd, WakeOne, WakeStall, WakeEnd, IssueOne,
         IssueStall, IssueSkip, IssueEnd, DispatchOne, DispatchFull,
         DispatchEnd, DecodeOne, DecodeEnd, FetchOne, FetchEnd, Account
  <2>4. retired_ids' = retired_ids
    BY <1>0, <1>5, Monotone
  <2>5. retired_ids' = {program'[q].id : q \in DoneSet'}
    BY <1>0, <2>1, <2>4
  <2> QED BY <1>0, <1>1, <2>2, <2>3, <2>5 DEF StatsMatchTrace, DoneSet
<1> QED BY <1>4, <1>5

\* completed_ops, total_latency and retired_ids are, in every run of every
\* workload, what the fields of the Done instructions add up to.
THEOREM StatsAreExact == Spec => []StatsMatchTrace
<1>1. Init => TraceInv
  <2> SUFFICES ASSUME Init PROVE TraceInv
    OBVIOUS
  <2>1. {p \in Positions : stage[p] = "Done"} = {} /\ Cardinality({}) = 0
    BY FS_EmptySet DEF Init
  <2>2. DoneCycles = {}
    BY <2>1 DEF DoneCycles
  <2>3. StatsMatchTrace
    BY <2>1, <2>2 DEF Init, StatsMatchTrace
  <2> QED BY <2>2, <2>3, InitBase, FS_EmptySet DEF TraceInv
<1>2. TraceInv /\ [Next]_vars => TraceInv'
  <2> SUFFICES ASSUME TraceInv, [Next]_vars PROVE TraceInv'
    OBVIOUS
  <2>1. BaseInv'
    BY StepBase DEF TraceInv
  <2> QED BY <2>1, StepTrace DEF TraceInv
<1>3. TraceInv => StatsMatchTrace
  BY DEF TraceInv
<1> QED BY <1>1, <1>2, <1>3, PTL DEF Spec
-----------------------------------------------------------------------------
\* The in-order queues are in program order and behind each other, and the
\* rotated dispatch_q is in order once what its scan has passed is moved back.
OrderInv ==
    /\ Increasing(fetch_q) /\ Increasing(decode_q)
    /\ Below(decode_q, fetch_q) /\ Below(dispatch_q, decode_q)
    /\ Below(dispatch_q, fetch_q)
    /\ phase = "wake" => ScanOrdered(dispatch_q, span)
    /\ phase # "wake" => Increasing(dispatch_q)

\* The in-order queues hold fetched positions, which are numbers.
LEMMA InOrderTypes ==
    ASSUME BaseInv
    PROVE  /\ fetch_q \in Seq(Nat) /\ decode_q \in Seq(Nat) /\ dispatch_q \in Seq(Nat)
           /\ next_to_fetch \in Nat /\ span \in Nat
           /\ \A a \in Range(fetch_q) \cup Range(decode_q) \cup Range(dispatch_q) :
                 a < next_to_fetch
<1>1. Positions \subseteq Nat
  BY DEF Positions
<1>2. fetch_q \in Seq(Nat) /\ decode_q \in Seq(Nat) /\ dispatch_q \in Seq(Nat)
  <2>1. ASSUME NEW q \in Seq(Positions)  PROVE q \in Seq(Nat)
    <3>1. Len(q) \in Nat /\ q = [k \in 1..Len(q) |-> q[k]]
      OBVIOUS
    <3>2. ASSUME NEW k \in 1..Len(q)  PROVE q[k] \in Positions
      OBVIOUS
    <3>3. \A k \in 1..Len(q) : q[k] \in Nat
      BY <1>1, <3>2
    <3> QED BY <3>1, <3>3
  <2> QED BY <2>1 DEF BaseInv, TypeOK, QueueType
<1>3. \A a \in Range(fetch_q) \cup Range(decode_q) \cup Range(dispatch_q) :
        a < next_to_fetch
  BY FetchedFacts DEF BaseInv, EachInOnePlace, DequesMatchStages
<1> QED BY <1>2, <1>3 DEF BaseInv, TypeOK, CoreType

\* Every step keeps the in-order queues in order.
LEMMA StepOrder ==
    ASSUME BaseInv, OrderInv, [Next]_vars
    PROVE  OrderInv'
<1> USE DEF OrderInv
<1>1. /\ fetch_q \in Seq(Nat) /\ decode_q \in Seq(Nat) /\ dispatch_q \in Seq(Nat)
      /\ next_to_fetch \in Nat /\ span \in Nat
      /\ \A a \in Range(fetch_q) \cup Range(decode_q) \cup Range(dispatch_q) :
            a < next_to_fetch
  BY InOrderTypes
<1>2. CASE TickEnd
  <2>1. ScanOrdered(dispatch_q, Len(dispatch_q))
    BY <1>1, <1>2, ScanEnds DEF TickEnd
  <2> QED BY <1>2, <2>1 DEF TickEnd, dispatch_span
<1>3. CASE WakeOne
  <2>1. span \in 1..Len(dispatch_q) /\ dispatch_q # <<>>
    BY <1>1, <1>3, ScanFacts DEF WakeOne, BaseInv, SpanFits
  <2>2. ScanOrdered(Tail(dispatch_q), span - 1)
    BY <1>1, <1>3, <2>1, ScanPop DEF WakeOne
  <2>3. Range(Tail(dispatch_q)) \subseteq Range(dispatch_q)
    BY <1>1, <2>1, PopFacts
  <2> QED BY <1>3, <2>2, <2>3 DEF WakeOne, Below
<1>4. CASE WakeStall
  <2>1. span \in 1..Len(dispatch_q) /\ dispatch_q # <<>>
    BY <1>1, <1>4, ScanFacts DEF WakeStall, BaseInv, SpanFits
  <2>2. ScanOrdered(Rotate(dispatch_q), span - 1)
    BY <1>1, <1>4, <2>1, ScanRotate DEF WakeStall, Rotate
  <2>3. Range(Rotate(dispatch_q)) = Range(dispatch_q)
    BY <1>1, <2>1, RotateFacts DEF Rotate, BaseInv, EachInOnePlace, DequesMatchStages
  <2> QED BY <1>4, <2>2, <2>3 DEF WakeStall, Below
<1>5. CASE WakeEnd
  <2>1. Increasing(dispatch_q)
    BY <1>1, <1>5, ScanEnds DEF WakeEnd
  <2> QED BY <1>5, <2>1 DEF WakeEnd, queues
<1>6. CASE DispatchOne
  <2> DEFINE p == Head(decode_q)
  <2>1. /\ p \in Nat /\ p \in Range(decode_q) /\ Range(Tail(decode_q)) \subseteq Range(decode_q)
        /\ Increasing(Tail(decode_q)) /\ \A e \in Range(Tail(decode_q)) : p < e
    BY <1>1, <1>6, PopFacts, OrderedPop DEF DispatchOne
  <2>2. phase = "dispatch" /\ phase' = "dispatch" /\ Increasing(dispatch_q)
    BY <1>6 DEF DispatchOne
  <2>3. \A a \in Range(dispatch_q) : a < p
    BY <2>1 DEF Below
  <2> HIDE DEF p
  <2>4. /\ Increasing(Append(dispatch_q, p))
        /\ Range(Append(dispatch_q, p)) = Range(dispatch_q) \cup {p}
    <3>1. Increasing(Append(dispatch_q, p))
      BY <1>1, <2>1, <2>2, <2>3, OrderedPush
    <3>2. Range(Append(dispatch_q, p)) = Range(dispatch_q) \cup {p}
      BY <1>1, <2>1, PushFacts
    <3> QED BY <3>1, <3>2
  <2>5. /\ dispatch_q' = Append(dispatch_q, p) /\ decode_q' = Tail(decode_q)
        /\ fetch_q' = fetch_q
    BY <1>6 DEF DispatchOne, p
  <2>6. Below(dispatch_q', decode_q') /\ Below(dispatch_q', fetch_q') /\ Below(decode_q', fetch_q')
    BY <2>1, <2>4, <2>5 DEF Below
  <2> QED BY <2>1, <2>2, <2>4, <2>5, <2>6
<1>7. CASE DecodeOne
  <2> DEFINE p == Head(fetch_q)
  <2>1. /\ p \in Nat /\ p \in Range(fetch_q) /\ Range(Tail(fetch_q)) \subseteq Range(fetch_q)
        /\ Increasing(Tail(fetch_q)) /\ \A e \in Range(Tail(fetch_q)) : p < e
    BY <1>1, <1>7, PopFacts, OrderedPop DEF DecodeOne
  <2>2. phase = "decode" /\ phase' = "decode" /\ Increasing(dispatch_q)
    BY <1>7 DEF DecodeOne
  <2>3. \A a \in Range(decode_q) : a < p
    BY <2>1 DEF Below
  <2> HIDE DEF p
  <2>4. /\ Increasing(Append(decode_q, p))
        /\ Range(Append(decode_q, p)) = Range(decode_q) \cup {p}
    <3>1. Increasing(Append(decode_q, p))
      BY <1>1, <2>1, <2>3, OrderedPush
    <3>2. Range(Append(decode_q, p)) = Range(decode_q) \cup {p}
      BY <1>1, <2>1, PushFacts
    <3> QED BY <3>1, <3>2
  <2>5. /\ decode_q' = Append(decode_q, p) /\ fetch_q' = Tail(fetch_q)
        /\ dispatch_q' = dispatch_q
    BY <1>7 DEF DecodeOne, p
  <2>6. Below(dispatch_q', decode_q') /\ Below(dispatch_q', fetch_q') /\ Below(decode_q', fetch_q')
    <3>1. \A e \in Range(decode_q') : e = p \/ e \in Range(decode_q)
      BY <2>4, <2>5
    <3>2. Range(fetch_q') \subseteq Range(fetch_q) /\ \A e \in Range(fetch_q') : p < e
      BY <2>1, <2>5
    <3>3. Below(dispatch_q', decode_q')
      BY <2>1, <2>5, <3>1 DEF Below
    <3>4. Below(dispatch_q', fetch_q')
      BY <2>5, <3>2 DEF Below
    <3>5. Below(decode_q', fetch_q')
      BY <3>1, <3>2 DEF Below
    <3> QED BY <3>3, <3>4, <3>5
  <2> QED BY <2>1, <2>2, <2>4, <2>5, <2>6
<1>8. CASE FetchOne
  <2>1. /\ Increasing(Append(fetch_q, next_to_fetch))
        /\ Range(Append(fetch_q, next_to_fetch)) = Range(fetch_q) \cup {next_to_fetch}
    <3>1. /\ fetch_q \in Seq(Nat) /\ next_to_fetch \in Nat /\ Increasing(fetch_q)
          /\ \A a \in Range(fetch_q) : a < next_to_fetch
      BY <1>1
    <3>2. Increasing(Append(fetch_q, next_to_fetch))
      BY <3>1, OrderedPush
    <3>3. Range(Append(fetch_q, next_to_fetch)) = Range(fetch_q) \cup {next_to_fetch}
      <4>1. \A q \in Seq(Nat), e \in Nat : Range(Append(q, e)) = Range(q) \cup {e}
        BY PushFacts
      <4> QED BY <3>1, <4>1
    <3> QED BY <3>2, <3>3
  <2>2. /\ fetch_q' = Append(fetch_q, next_to_fetch) /\ decode_q' = decode_q
        /\ dispatch_q' = dispatch_q /\ phase = "fetch" /\ phase' = "fetch"
    BY <1>8 DEF FetchOne
  <2>3. Below(dispatch_q', fetch_q') /\ Below(decode_q', fetch_q')
    BY <1>1, <2>1, <2>2 DEF Below
  <2> QED BY <2>1, <2>2, <2>3
<1>9. CASE BeginCycle \/ ReturnResult \/ RetireOne \/ RetireEnd \/ TickKeep \/ TickFinish
          \/ IssueOne \/ IssueStall \/ IssueSkip \/ IssueEnd \/ DispatchFull \/ DispatchEnd
          \/ DecodeEnd \/ FetchEnd \/ Account
  BY <1>9 DEF BeginCycle, ReturnResult, RetireOne, RetireEnd, TickKeep, TickFinish, IssueOne,
       IssueStall, IssueSkip, IssueEnd, DispatchFull, DispatchEnd, DecodeEnd, FetchEnd,
       Account, queues
<1>10. CASE UNCHANGED vars
  BY <1>10 DEF vars, queues, locals
<1> QED
  BY <1>2, <1>3, <1>4, <1>5, <1>6, <1>7, <1>8, <1>9, <1>10 DEF Next

\* For every program and configuration, decode_q and fetch_q are in program
\* order behind each other, and so is dispatch_q in front of them between the
\* scans of wake.  In the middle of a scan dispatch_q is in order once the part
\* put back is moved to the front again, and all of it comes before decode_q.
\* (ready_q and retire_q are in no such order: instructions wait and finish as
\* their dependencies and latencies have it.)
THEOREM OrderKept ==
    Spec => [](/\ ProgramOrder
               /\ phase = "wake" => ScanOrdered(dispatch_q, span) /\ Below(dispatch_q, decode_q))
<1> DEFINE Inv == BaseInv /\ OrderInv
<1>1. Init => Inv
  <2>1. Init => OrderInv
    BY EmptyFacts DEF Init, OrderInv, Increasing, Below
  <2> QED BY <2>1, InitBase
<1>2. Inv /\ [Next]_vars => Inv'
  BY StepBase, StepOrder
<1>3. Inv => /\ ProgramOrder
             /\ phase = "wake" => ScanOrdered(dispatch_q, span) /\ Below(dispatch_q, decode_q)
  <2> SUFFICES ASSUME BaseInv, OrderInv PROVE ProgramOrder
    BY DEF OrderInv
  <2>1. fetch_q \in Seq(Nat) /\ decode_q \in Seq(Nat) /\ dispatch_q \in Seq(Nat)
    BY InOrderTypes
  <2>2. Increasing(decode_q \o fetch_q)
    BY <2>1, OrderedConcat DEF OrderInv
  <2>3. phase # "wake" => Increasing(dispatch_q \o decode_q)
    BY <2>1, OrderedConcat DEF OrderInv
  <2> QED BY <2>2, <2>3 DEF ProgramOrder, Increasing
<1> QED BY <1>1, <1>2, <1>3, PTL DEF Spec
-----------------------------------------------------------------------------
\* The execution slots never outnumber the units and ports.
LEMMA SlotCount ==
    ASSUME ResourceInv
    PROVE  /\ Len(exec_slots) \in Nat
           /\ Len(exec_slots) <= config.compute_units + config.memory_ports
<1> USE DEF ResourceInv
<1>1. exec_slots \in Seq(ExecSlot) /\ Len(exec_slots) \in Nat /\ DistinctSlots(exec_slots)
  BY DEF BaseInv, TypeOK, SlotType, EachInOnePlace, SlotsMatchStage
<1>2. Cardinality(Indices(exec_slots)) = Len(exec_slots) /\ IsFiniteSet(Indices(exec_slots))
  <2> DEFINE f == [k \in 1..Len(exec_slots) |-> exec_slots[k].index]
  <2>1. DOMAIN exec_slots = 1..Len(exec_slots)
    BY <1>1
  <2>2. f \in Surjection(1..Len(exec_slots), Indices(exec_slots))
    BY <2>1 DEF Surjection, Indices
  <2>3. f \in Injection(1..Len(exec_slots), Indices(exec_slots))
    <3>1. f \in [1..Len(exec_slots) -> Indices(exec_slots)]
      BY <2>1 DEF Indices
    <3>2. \A j, k \in 1..Len(exec_slots) : f[j] = f[k] => j = k
      BY <1>1, <2>1 DEF DistinctSlots
    <3> QED BY <3>1, <3>2 DEF Injection, IsInjective
  <2>4. ExistsBijection(1..Len(exec_slots), Indices(exec_slots))
    BY <2>2, <2>3 DEF ExistsBijection, Bijection
  <2>5. IsFiniteSet(1..Len(exec_slots)) /\ Cardinality(1..Len(exec_slots)) = Len(exec_slots)
    <3>1. Len(exec_slots) \in Nat
      BY <1>1
    <3>2. \A n \in Nat : IsFiniteSet(1..n) /\ Cardinality(1..n) = n
      BY FS_Interval
    <3> QED BY <3>1, <3>2
  <2> QED BY <2>4, <2>5, FS_Bijection
<1>3. /\ IsFiniteSet(PortHolders) /\ Cardinality(PortHolders) \in Nat
      /\ IsFiniteSet(UnitHolders) /\ Cardinality(UnitHolders) \in Nat
  BY HoldingFacts
<1>4. /\ Indices(exec_slots) \subseteq PortHolders \cup UnitHolders
      /\ PortHolders \cap UnitHolders = {}
  BY DEF PortHolders, UnitHolders, InFlight
<1>5. /\ IsFiniteSet(PortHolders \cup UnitHolders)
      /\ Cardinality(PortHolders \cup UnitHolders)
           = Cardinality(PortHolders) + Cardinality(UnitHolders)
  <2>1. Cardinality({}) = 0
    BY FS_EmptySet
  <2>2. /\ IsFiniteSet(PortHolders \cup UnitHolders)
        /\ Cardinality(PortHolders \cup UnitHolders)
             = Cardinality(PortHolders) + Cardinality(UnitHolders)
               - Cardinality(PortHolders \cap UnitHolders)
    BY <1>3, FS_Union, Zenon
  <2>3. Cardinality(PortHolders \cap UnitHolders) = 0
    BY <1>4, <2>1, Zenon
  <2> QED BY <1>3, <2>2, <2>3
<1>6. Cardinality(Indices(exec_slots)) <= Cardinality(PortHolders \cup UnitHolders)
  BY <1>4, <1>5, FS_Subset
<1>7. config.compute_units \in Nat /\ config.memory_ports \in Nat
  BY DEF BaseInv, TypeOK, CoreType, SimulatorConfig
<1> QED BY <1>1, <1>2, <1>3, <1>5, <1>6, <1>7 DEF ResourceAccounting

\* Every step keeps the bounded deques within their capacities.
LEMMA StepBounded ==
    ASSUME BaseInv, CapacityRespected, [Next]_vars
    PROVE  /\ Len(dispatch_q') <= config.dispatch_queue_capacity
           /\ Len(ready_q') <= config.ready_queue_capacity
<1>1. /\ dispatch_q \in Seq(Positions) /\ ready_q \in Seq(Positions)
      /\ Len(dispatch_q) \in Nat /\ Len(ready_q) \in Nat
      /\ config.dispatch_queue_capacity \in Nat /\ config.ready_queue_capacity \in Nat
  <2>1. dispatch_q \in Seq(Positions) /\ ready_q \in Seq(Positions)
    BY DEF BaseInv, TypeOK, QueueType
  <2>2. config \in SimulatorConfig
    BY DEF BaseInv, TypeOK, CoreType
  <2>3. config.dispatch_queue_capacity \in Nat /\ config.ready_queue_capacity \in Nat
    BY <2>2 DEF SimulatorConfig
  <2> QED BY <2>1, <2>3
<1> USE DEF CapacityRespected
<1>2. CASE WakeOne
  <2>1. dispatch_q # <<>>
    BY <1>2, ScanFacts DEF WakeOne, BaseInv
  <2>2. Head(dispatch_q) \in Positions /\ Len(Tail(dispatch_q)) = Len(dispatch_q) - 1
    BY <1>1, <2>1, PopFacts
  <2>3. Len(Append(ready_q, Head(dispatch_q))) = Len(ready_q) + 1
    BY <1>1, <2>2, PushFacts
  <2> QED BY <1>1, <1>2, <2>2, <2>3 DEF WakeOne
<1>3. CASE WakeStall
  <2>1. Len(Rotate(dispatch_q)) = Len(dispatch_q)
    BY <1>1, <1>3, ScanFacts, RotateFacts DEF WakeStall, BaseInv, Rotate
  <2> QED BY <1>3, <2>1 DEF WakeStall
<1>4. CASE IssueOne
  <2>1. ready_q # <<>>
    BY <1>4, ScanFacts DEF IssueOne, BaseInv
  <2>2. Len(Tail(ready_q)) = Len(ready_q) - 1
    BY <1>1, <2>1, PopFacts
  <2> QED BY <1>1, <1>4, <2>2 DEF IssueOne
<1>5. CASE IssueStall \/ IssueSkip
  <2>1. Len(Rotate(ready_q)) = Len(ready_q)
    BY <1>1, <1>5, ScanFacts, RotateFacts DEF IssueStall, IssueSkip, BaseInv, Rotate
  <2> QED BY <1>5, <2>1 DEF IssueStall, IssueSkip
<1>6. CASE DispatchOne
  <2>1. Head(decode_q) \in Positions
    BY <1>6, PopFacts DEF DispatchOne, BaseInv, TypeOK, QueueType
  <2>2. Len(Append(dispatch_q, Head(decode_q))) = Len(dispatch_q) + 1
    BY <1>1, <2>1, PushFacts
  <2> QED BY <1>1, <1>6, <2>2 DEF DispatchOne, DispatchFits
<1>7. CASE BeginCycle \/ ReturnResult \/ RetireOne \/ RetireEnd \/ TickKeep \/ TickFinish
          \/ TickEnd \/ WakeEnd \/ IssueEnd \/ DispatchFull \/ DispatchEnd \/ DecodeOne
          \/ DecodeEnd \/ FetchOne \/ FetchEnd \/ Account \/ UNCHANGED vars
  BY <1>7 DEF BeginCycle, ReturnResult, RetireOne, RetireEnd, TickKeep, TickFinish, TickEnd,
       WakeEnd, IssueEnd, DispatchFull, DispatchEnd, DecodeOne, DecodeEnd, FetchOne, FetchEnd,
       Account, queues, vars
<1> QED BY <1>2, <1>3, <1>4, <1>5, <1>6, <1>7 DEF Next

\* Every step keeps the reported maxima within the same bounds.
LEMMA StepMaxima ==
    ASSUME ResourceInv, CapacityRespected, [Next]_vars, NEW q \in QueueName
    PROVE  \/ stats'.max_queue_occupancy[q] = stats.max_queue_occupancy[q]
           \/ stats'.max_queue_occupancy[q] = Occupancy[q]
<1>1. stats.max_queue_occupancy \in [QueueName -> Nat] /\ StatsType
  BY DEF ResourceInv, BaseInv, TypeOK, StatsType
<1>2. CASE Account
  <2>1. stats'.max_queue_occupancy
          = [r \in QueueName |-> Greater(stats.max_queue_occupancy[r], Occupancy[r])]
    BY <1>1, <1>2 DEF Account, StatsType
  <2>2. stats'.max_queue_occupancy[q] = Greater(stats.max_queue_occupancy[q], Occupancy[q])
    BY <2>1
  <2> QED BY <2>2 DEF Greater
<1>3. CASE ~Account
  <2>1. stats'.max_queue_occupancy = stats.max_queue_occupancy
    BY <1>1, <1>3 DEF Next, vars, Stall, StatsType,
         BeginCycle, ReturnResult, RetireOne, RetireEnd, TickKeep,
         TickFinish, TickEnd, WakeOne, WakeStall, WakeEnd, IssueOne,
         IssueStall, IssueSkip, IssueEnd, DispatchOne, DispatchFull,
         DispatchEnd, DecodeOne, DecodeEnd, FetchOne, FetchEnd
  <2> QED BY <2>1
<1> QED BY <1>2, <1>3

\* For every program and configuration, the bounded deques, the execution slots
\* and the maxima the report prints respect the configured limits.
THEOREM CapacitiesHold == Spec => []CapacityRespected
<1> DEFINE Inv == ResourceInv /\ CapacityRespected
<1>1. Init => Inv
  <2> SUFFICES ASSUME Init PROVE CapacityRespected
    BY InitResources
  <2>1. /\ config.dispatch_queue_capacity \in Nat /\ config.ready_queue_capacity \in Nat
        /\ config.compute_units \in Nat /\ config.memory_ports \in Nat
    BY InitType DEF TypeOK, CoreType, SimulatorConfig
  <2>2. \A q \in QueueName : stats.max_queue_occupancy[q] = 0
    BY DEF Init
  <2>3. Len(dispatch_q) = 0 /\ Len(ready_q) = 0
    BY DEF Init
  <2> QED BY <2>1, <2>2, <2>3 DEF CapacityRespected, QueueName
<1>2. Inv /\ [Next]_vars => Inv'
  <2> SUFFICES ASSUME ResourceInv, CapacityRespected, [Next]_vars
               PROVE  ResourceInv' /\ CapacityRespected'
    OBVIOUS
  <2>1. ResourceInv'
    BY StepBase, StepKinds, StepResources DEF ResourceInv
  <2>2. /\ Len(dispatch_q') <= config.dispatch_queue_capacity
        /\ Len(ready_q') <= config.ready_queue_capacity
    BY StepBounded DEF ResourceInv
  <2>3. config' = config
    BY ArgsConstant
  <2>4. Len(exec_slots) <= config.compute_units + config.memory_ports
    BY SlotCount
  <2>5. /\ Occupancy["dispatch_q"] = Len(dispatch_q) /\ Occupancy["ready_q"] = Len(ready_q)
        /\ Occupancy["execute_slots"] = Len(exec_slots)
    BY DEF Occupancy
  <2>6. ASSUME NEW q \in QueueName
        PROVE  \/ stats'.max_queue_occupancy[q] = stats.max_queue_occupancy[q]
               \/ stats'.max_queue_occupancy[q] = Occupancy[q]
    BY StepMaxima
  <2>7. "dispatch_q" \in QueueName /\ "ready_q" \in QueueName /\ "execute_slots" \in QueueName
    BY DEF QueueName
  <2>8. /\ stats'.max_queue_occupancy["dispatch_q"] <= config.dispatch_queue_capacity
        /\ stats'.max_queue_occupancy["ready_q"] <= config.ready_queue_capacity
        /\ stats'.max_queue_occupancy["execute_slots"]
              <= config.compute_units + config.memory_ports
    BY <2>4, <2>5, <2>6, <2>7 DEF CapacityRespected
  <2> QED BY <2>1, <2>2, <2>3, <2>8 DEF CapacityRespected
<1>3. Inv => CapacityRespected
  OBVIOUS
<1> QED BY <1>1, <1>2, <1>3, PTL DEF Spec
-----------------------------------------------------------------------------
\* While the issue width lasts, an instruction that was put off has no free
\* unit or port: the scan only ever takes more of them.
PutOffBlocked ==
    phase = "issue" /\ moved < config.issue_width =>
        \A k \in (span + 1)..Len(ready_q) : ~PortFree(ready_q[k])

\* Every step of the issue scan leaves what it has passed blocked.
LEMMA StepPutOff ==
    ASSUME BaseInv, PutOffBlocked, [Next]_vars
    PROVE  PutOffBlocked'
<1>1. /\ ready_q \in Seq(Positions) /\ Len(ready_q) \in Nat /\ span \in Nat /\ moved \in Nat
      /\ memory_in_use \in Nat /\ compute_in_use \in Nat
      /\ config.memory_ports \in Nat /\ config.compute_units \in Nat
      /\ config.issue_width \in Nat
  BY DEF BaseInv, TypeOK, QueueType, CoreType, SimulatorConfig
<1>2. program' = program /\ config' = config
  BY ArgsConstant
<1>3. ASSUME NEW p, NEW r, r = p, ~PortFree(p),
             memory_in_use' >= memory_in_use, compute_in_use' >= compute_in_use,
             memory_in_use' \in Nat, compute_in_use' \in Nat
      PROVE  IF is_memory_op(program'[r].type) THEN ~(memory_in_use' < config'.memory_ports)
                                               ELSE ~(compute_in_use' < config'.compute_units)
  BY <1>1, <1>2, <1>3 DEF PortFree
<1>4. CASE IssueOne
  <2>1. ready_q # <<>> /\ span \in 1..Len(ready_q)
    BY <1>1, <1>4, ScanFacts DEF IssueOne, BaseInv, SpanFits
  <2>2. /\ Len(Tail(ready_q)) = Len(ready_q) - 1
        /\ \A k \in 1..(Len(ready_q) - 1) : Tail(ready_q)[k] = ready_q[k + 1]
    BY <1>1, <2>1
  <2>3. /\ memory_in_use' >= memory_in_use /\ compute_in_use' >= compute_in_use
        /\ memory_in_use' \in Nat /\ compute_in_use' \in Nat
    BY <1>1, <1>4 DEF IssueOne
  <2>4. ASSUME NEW k \in (span' + 1)..Len(ready_q')
        PROVE  ready_q'[k] = ready_q[k + 1] /\ ~PortFree(ready_q[k + 1])
    <3>1. ready_q' = Tail(ready_q) /\ span' = span - 1 /\ moved < config.issue_width
          /\ phase = "issue"
      BY <1>4 DEF IssueOne
    <3>2. k + 1 \in (span + 1)..Len(ready_q) /\ k \in 1..(Len(ready_q) - 1)
      BY <1>1, <2>1, <2>2, <3>1
    <3> QED BY <2>2, <3>1, <3>2 DEF PutOffBlocked
  <2>5. ASSUME NEW k \in (span' + 1)..Len(ready_q')
        PROVE  PortFree(ready_q[k])' = FALSE
    BY <1>3, <2>3, <2>4 DEF PortFree
  <2> QED BY <2>5 DEF PutOffBlocked
<1>5. CASE IssueStall
  <2> DEFINE p == Head(ready_q)
  <2>1. ready_q # <<>> /\ span \in 1..Len(ready_q)
    BY <1>1, <1>5, ScanFacts DEF IssueStall, BaseInv, SpanFits
  <2>2. /\ Len(Rotate(ready_q)) = Len(ready_q) /\ Rotate(ready_q)[Len(ready_q)] = p
        /\ \A k \in 1..(Len(ready_q) - 1) : Rotate(ready_q)[k] = ready_q[k + 1]
    BY <1>1, <2>1 DEF Rotate
  <2>3. /\ memory_in_use' = memory_in_use /\ compute_in_use' = compute_in_use
        /\ ready_q' = Rotate(ready_q) /\ span' = span - 1 /\ moved < config.issue_width
        /\ phase = "issue" /\ ~PortFree(p)
    BY <1>5 DEF IssueStall, core
  <2> HIDE DEF p
  <2>4. ASSUME NEW k \in (span' + 1)..Len(ready_q')
        PROVE  \E r : ready_q'[k] = r /\ ~PortFree(r)
    <3>1. CASE k = Len(ready_q)
      BY <2>2, <2>3, <3>1
    <3>2. CASE k # Len(ready_q)
      <4>1. k + 1 \in (span + 1)..Len(ready_q) /\ k \in 1..(Len(ready_q) - 1)
        BY <1>1, <2>1, <2>2, <2>3, <3>2
      <4> QED BY <2>2, <2>3, <4>1 DEF PutOffBlocked
    <3> QED BY <3>1, <3>2
  <2>5. ASSUME NEW k \in (span' + 1)..Len(ready_q')
        PROVE  PortFree(ready_q[k])' = FALSE
    <3>1. PICK r : ready_q'[k] = r /\ ~PortFree(r)
      BY <2>4
    <3> QED BY <1>2, <2>3, <3>1 DEF PortFree
  <2> QED BY <2>5 DEF PutOffBlocked
<1>6. CASE WakeEnd
  BY <1>1, <1>6 DEF WakeEnd, queues, PutOffBlocked
<1>7. CASE IssueSkip
  BY <1>1, <1>2, <1>7 DEF IssueSkip, PutOffBlocked
<1>8. CASE BeginCycle \/ ReturnResult \/ RetireOne \/ RetireEnd \/ TickKeep \/ TickFinish
          \/ TickEnd \/ WakeOne \/ WakeStall \/ IssueEnd \/ DispatchOne \/ DispatchFull
          \/ DispatchEnd \/ DecodeOne \/ DecodeEnd \/ FetchOne \/ FetchEnd \/ Account
  BY <1>8 DEF BeginCycle, ReturnResult, RetireOne, RetireEnd, TickKeep, TickFinish, TickEnd,
       WakeOne, WakeStall, IssueEnd, DispatchOne, DispatchFull, DispatchEnd, DecodeOne,
       DecodeEnd, FetchOne, FetchEnd, Account, PutOffBlocked
<1>9. CASE UNCHANGED vars
  BY <1>9 DEF vars, args, queues, locals, core, PutOffBlocked, PortFree
<1> QED BY <1>4, <1>5, <1>6, <1>7, <1>8, <1>9 DEF Next

\* For every program and configuration, no instruction is issued past one queued
\* before it that waits for the same kind of resource.
THEOREM IssueInOrder == Spec => NoBypass
<1> DEFINE Inv == BaseInv /\ PutOffBlocked
           InTurn == (phase = "issue" /\ exec_slots' # exec_slots) =>
                       \A k \in (span + 1)..Len(ready_q) :
                          is_memory_op(program[ready_q[k]].type)
                             # is_memory_op(program[Head(ready_q)].type)
<1>1. Init => Inv
  BY InitBase DEF Init, PutOffBlocked
<1>2. Inv /\ [Next]_vars => Inv'
  BY StepBase, StepPutOff
<1>3. Inv /\ [Next]_vars => [InTurn]_vars
  <2> SUFFICES ASSUME Inv, Next, phase = "issue", exec_slots' # exec_slots,
                      NEW k \in (span + 1)..Len(ready_q)
               PROVE  is_memory_op(program[ready_q[k]].type)
                        # is_memory_op(program[Head(ready_q)].type)
    OBVIOUS
  <2>1. IssueOne
    BY DEF Next, BeginCycle, ReturnResult, RetireOne, RetireEnd, TickKeep,
         TickFinish, TickEnd, WakeOne, WakeStall, WakeEnd,
         IssueStall, IssueSkip, IssueEnd, DispatchOne, DispatchFull,
         DispatchEnd, DecodeOne, DecodeEnd, FetchOne, FetchEnd, Account, queues
  <2>2. PortFree(Head(ready_q)) /\ ~PortFree(ready_q[k])
    BY <2>1 DEF IssueOne, PutOffBlocked
  <2> QED BY <2>2 DEF PortFree
<1> QED BY <1>1, <1>2, <1>3, PTL DEF Spec, NoBypass
=============================================================================
