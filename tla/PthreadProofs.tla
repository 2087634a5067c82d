--------------------------- MODULE PthreadProofs ----------------------------
(***************************************************************************)
(* Proofs about PthreadQueue, then about the program PthreadBenchmark that *)
(* uses it.  The first part assumes PthreadQueueConstants only, so it is   *)
(* about any callers: types, that one signal per item or free slot is      *)
(* enough, and that the queue implements BoundedFifo, for any number of    *)
(* threads, any capacity and any items.  The second part is about what     *)
(* main and the workers do with it, for any number of workers and tasks.   *)
(***************************************************************************)
EXTENDS PthreadBenchmark, QueueFacts, FiniteSetTheorems, TLAPS

\* A thread is at "check" exactly when it holds the mutex; its call is pending
\* exactly while it is inside the queue; only push and pop ever sleep.
CallInv ==
    \A t \in Threads :
        /\ pc[t] = "check" <=> mutex = t
        /\ pc[t] = "idle" <=> call[t].rc # "pending"
        /\ pc[t] \in {"wait", "woken"} => call[t].op \in {"push", "pop"}
        /\ call[t].op = "push" /\ pc[t] # "idle" => call[t].item \in Item

\* The next free slot follows the last queued item.
RingInv == tail = (head + count) % Capacity

QueueInv == QueueTypeOK /\ CallInv /\ RingInv

\* A remainder of two numbers up to the divisor.
LEMMA SmallMod ==
    ASSUME NEW C \in Nat \ {0}, NEW h \in 0..(C - 1), NEW k \in 0..C
    PROVE  /\ h + k < C => (h + k) % C = h + k
           /\ h + k >= C => (h + k) % C = h + k - C
BY SMT

\* Where the item k places after the front of the ring is.
Place(h, k) == IF h + k < Capacity THEN h + k ELSE h + k - Capacity

\* The index of a place in the ring, without the remainder.
LEMMA PlaceFacts ==
    ASSUME NEW h \in Slots, NEW k \in 0..Capacity
    PROVE  (h + k) % Capacity = Place(h, k) /\ Place(h, k) \in Slots
<1>1. Capacity \in Nat \ {0} /\ h \in 0..(Capacity - 1)
  BY PthreadQueueConstants DEF Slots
<1>2. /\ h + k < Capacity => (h + k) % Capacity = h + k
      /\ h + k >= Capacity => (h + k) % Capacity = h + k - Capacity
  BY <1>1, SmallMod, Zenon
<1> QED BY <1>1, <1>2 DEF Place, Slots

\* The index after k.
LEMMA AdvanceFacts ==
    ASSUME NEW k \in Slots
    PROVE  Advance(k) = Place(k, 1) /\ Advance(k) \in Slots
<1>1. 1 \in 0..Capacity
  BY PthreadQueueConstants
<1> QED BY <1>1, PlaceFacts DEF Advance

\* Whichever way a call ends, its thread is idle and others at most woken.
LEMMA SignalFacts ==
    ASSUME QueueTypeOK, NEW t \in Threads, NEW op, SignalAndReturn(t, op)
    PROVE  /\ pc' \in [Threads -> Points]
           /\ pc'[t] = "idle" \/ pc[t] = "wait"
           /\ \A u \in Threads \ {t} :
                 pc'[u] = pc[u] \/ (pc[u] = "wait" /\ pc'[u] = "woken")
BY DEF QueueTypeOK, SignalAndReturn, Waiting, Points

\* The initial state satisfies the invariant.
LEMMA InitQueue == QueueInit => QueueInv
<1> SUFFICES ASSUME QueueInit PROVE QueueInv
  OBVIOUS
<1>1. Capacity \in Nat \ {0} /\ 0 \in Slots /\ 0 \in 0..Capacity
  BY PthreadQueueConstants DEF Slots
<1>2. QueueTypeOK
  BY <1>1 DEF QueueInit, QueueTypeOK, Slots, Points, Calls
<1>3. CallInv
  BY PthreadQueueConstants DEF QueueInit, CallInv
<1>4. RingInv
  <2>1. (0 + 0) % Capacity = Place(0, 0)
    BY <1>1, PlaceFacts
  <2> QED BY <1>1, <2>1 DEF QueueInit, RingInv, Place, Slots
<1> QED BY <1>2, <1>3, <1>4 DEF QueueInv

\* Every step keeps the declared types.
LEMMA StepType ==
    ASSUME QueueTypeOK, [QueueNext]_queueVars
    PROVE  QueueTypeOK'
<1> USE DEF QueueTypeOK
<1>1. ASSUME NEW t \in Threads, NEW op \in {"push", "pop", "close"},
             NEW item \in Item \cup {NoItem}, Invoke(t, op, item)
      PROVE  QueueTypeOK'
  BY <1>1 DEF Invoke, ring, counters, Points, Calls
<1>2. ASSUME NEW t \in Threads, TryLock(t) \/ TryBusy(t) \/ Lock(t) \/ Relock(t)
      PROVE  QueueTypeOK'
  BY <1>2 DEF TryLock, TryBusy, Lock, Relock, ring, counters, Points
<1>3. ASSUME NEW t \in Threads, NEW item \in Item \cup {NoItem},
             NEW rc \in {"0", "1", "ECANCELED", "error"}, Answer(t, item, rc)
      PROVE  call' \in [Threads -> Calls]
  BY <1>3 DEF Answer, Calls
<1>4. ASSUME NEW t \in Threads,
             LockFails(t) \/ WaitFails(t) \/ PushCancelled(t) \/ PopClosed(t)
      PROVE  QueueTypeOK'
  <2>1. call' \in [Threads -> Calls]
    BY <1>3, <1>4 DEF LockFails, WaitFails, PushCancelled, PopClosed
  <2> QED
    BY <1>4, <2>1 DEF LockFails, WaitFails, PushCancelled, PopClosed, ring, counters, Points
<1>5. ASSUME NEW t \in Threads, Wait(t) \/ SpuriousWake(t)
      PROVE  QueueTypeOK'
  BY <1>5 DEF Wait, SpuriousWake, ring, counters, Points
<1>6. ASSUME NEW t \in Threads, PushItem(t)
      PROVE  QueueTypeOK'
  <2>1. call' \in [Threads -> Calls]
    BY <1>3, <1>6 DEF PushItem
  <2>2. pc' \in [Threads -> Points]
    BY <1>6, SignalFacts DEF PushItem
  <2>3. tail' \in Slots
    BY <1>6, AdvanceFacts DEF PushItem
  <2>4. count' \in 0..Capacity
    BY <1>6, PthreadQueueConstants DEF PushItem, MustWait
  <2>5. items' \in [Slots -> Item \cup {NoItem}]
    BY <1>6 DEF PushItem, Calls
  <2> QED BY <1>6, <2>1, <2>2, <2>3, <2>4, <2>5 DEF PushItem, counters
<1>7. ASSUME NEW t \in Threads, PopItem(t)
      PROVE  QueueTypeOK'
  <2>1. call' \in [Threads -> Calls]
    <3>1. Front \in Item \cup {NoItem}
      BY DEF Front
    <3> QED BY <1>3, <1>7, <3>1 DEF PopItem
  <2>2. pc' \in [Threads -> Points]
    BY <1>7, SignalFacts DEF PopItem
  <2>3. head' \in Slots
    BY <1>7, AdvanceFacts DEF PopItem
  <2>4. count' \in 0..Capacity
    BY <1>7, PthreadQueueConstants DEF PopItem, CountAfterPop
  <2> QED BY <1>7, <2>1, <2>2, <2>3, <2>4 DEF PopItem, counters
<1>8. ASSUME NEW t \in Threads, Close(t)
      PROVE  QueueTypeOK'
  <2>1. call' \in [Threads -> Calls]
    BY <1>3, <1>8 DEF Close
  <2> QED BY <1>8, <2>1 DEF Close, ring, counters, Points
<1>9. CASE UNCHANGED queueVars
  BY <1>9 DEF queueVars, ring, counters
<1> QED
  BY <1>1, <1>2, <1>4, <1>5, <1>6, <1>7, <1>8, <1>9 DEF QueueNext, AnyCall, QueueStep

\* The declared types hold in every state of the queue, whatever its callers do.
THEOREM QueueTypeCorrect == QueueSpec => []QueueTypeOK
<1>1. QueueInit => QueueTypeOK
  BY InitQueue DEF QueueInv
<1>2. QueueTypeOK /\ [QueueNext]_queueVars => QueueTypeOK'
  BY StepType
<1> QED BY <1>1, <1>2, PTL DEF QueueSpec

\* Every step keeps mutex, positions and calls in agreement.
LEMMA StepCalls ==
    ASSUME QueueTypeOK, CallInv, [QueueNext]_queueVars
    PROVE  CallInv'
<1> USE PthreadQueueConstants DEF QueueTypeOK, CallInv, Points
<1>1. ASSUME NEW t \in Threads, NEW op \in {"push", "pop", "close"},
             NEW item \in Item \cup {NoItem}, op = "push" => item \in Item,
             Invoke(t, op, item)
      PROVE  CallInv'
  BY <1>1 DEF Invoke
<1>2. ASSUME NEW t \in Threads, TryLock(t) \/ TryBusy(t) \/ Lock(t) \/ Relock(t)
      PROVE  CallInv'
  BY <1>2 DEF TryLock, TryBusy, Lock, Relock
<1>3. ASSUME NEW t \in Threads, LockFails(t)
      PROVE  CallInv'
  BY <1>3 DEF LockFails, Answer
<1>4. ASSUME NEW t \in Threads, WaitFails(t) \/ PushCancelled(t) \/ PopClosed(t)
      PROVE  CallInv'
  BY <1>4 DEF WaitFails, PushCancelled, PopClosed, Answer
<1>5. ASSUME NEW t \in Threads, Wait(t) \/ SpuriousWake(t)
      PROVE  CallInv'
  BY <1>5 DEF Wait, SpuriousWake, MustWait
<1>6. ASSUME NEW t \in Threads, PushItem(t) \/ PopItem(t)
      PROVE  CallInv'
  <2>1. PICK op : SignalAndReturn(t, op)
    BY <1>6 DEF PushItem, PopItem
  <2>2. /\ pc'[t] = "idle"
        /\ \A u \in Threads \ {t} :
              pc'[u] = pc[u] \/ (pc[u] = "wait" /\ pc'[u] = "woken")
    BY <1>6, <2>1, SignalFacts DEF PushItem, PopItem
  <2>3. /\ call'[t].rc # "pending" /\ mutex' = "free" /\ mutex = t
        /\ \A u \in Threads \ {t} : call'[u] = call[u]
    BY <1>6 DEF PushItem, PopItem, Answer
  <2> QED BY <2>2, <2>3
<1>7. ASSUME NEW t \in Threads, Close(t)
      PROVE  CallInv'
  <2>1. /\ pc'[t] = "idle"
        /\ \A u \in Threads \ {t} :
              pc'[u] = pc[u] \/ (pc[u] = "wait" /\ pc'[u] = "woken")
    BY <1>7 DEF Close, Broadcast, Waiting
  <2>2. /\ call'[t].rc # "pending" /\ mutex' = "free" /\ mutex = t
        /\ \A u \in Threads \ {t} : call'[u] = call[u]
    BY <1>7 DEF Close, Answer
  <2> QED BY <2>1, <2>2
<1>8. CASE UNCHANGED queueVars
  BY <1>8 DEF queueVars
<1> QED
  BY <1>1, <1>2, <1>3, <1>4, <1>5, <1>6, <1>7, <1>8 DEF QueueNext, AnyCall, QueueStep

\* Only push and pop touch the ring, and both keep tail behind the last item.
LEMMA StepRing ==
    ASSUME QueueTypeOK, RingInv, [QueueNext]_queueVars
    PROVE  RingInv'
<1> USE DEF QueueTypeOK
<1>1. ASSUME NEW t \in Threads, PushItem(t)
      PROVE  RingInv'
  <2>1. count \in 0..Capacity /\ count + 1 \in 0..Capacity /\ Capacity \in Nat \ {0}
    BY <1>1, PthreadQueueConstants DEF PushItem, MustWait
  <2>2. (head + count) % Capacity = Place(head, count)
        /\ (head + (count + 1)) % Capacity = Place(head, count + 1)
    BY <2>1, PlaceFacts
  <2>3. tail' = Place(tail, 1)
    BY <1>1, AdvanceFacts DEF PushItem
  <2>4. Place(tail, 1) = Place(head, count + 1)
    BY <2>1, <2>2 DEF RingInv, Place, Slots
  <2> QED BY <1>1, <2>2, <2>3, <2>4 DEF PushItem, RingInv
<1>2. ASSUME NEW t \in Threads, PopItem(t)
      PROVE  RingInv'
  <2>1. count \in 0..Capacity /\ count - 1 \in 0..Capacity /\ Capacity \in Nat \ {0}
    BY <1>2, PthreadQueueConstants DEF PopItem
  <2>2. head' = Place(head, 1) /\ head' \in Slots
    BY <1>2, AdvanceFacts DEF PopItem
  <2>3. (head + count) % Capacity = Place(head, count)
        /\ (head' + (count - 1)) % Capacity = Place(head', count - 1)
    BY <2>1, <2>2, PlaceFacts
  <2>4. Place(head', count - 1) = Place(head, count)
    BY <1>2, <2>1, <2>2 DEF PopItem, Place, Slots
  <2> QED BY <1>2, <2>3, <2>4 DEF PopItem, CountAfterPop, RingInv
<1>3. CASE UNCHANGED ring
  BY <1>3 DEF ring, RingInv
<1> QED
  BY <1>1, <1>2, <1>3 DEF QueueNext, AnyCall, QueueStep, Invoke, TryLock, TryBusy,
     Lock, Relock, LockFails, Wait, WaitFails, PushCancelled, PopClosed, Close,
     SpuriousWake, queueVars

\* The invariant is inductive.
LEMMA StepQueue == QueueInv /\ [QueueNext]_queueVars => QueueInv'
BY StepType, StepCalls, StepRing DEF QueueInv

\* The two sets that SignalsSuffice counts are finite.
LEMMA ComingFinite ==
    ASSUME NEW op
    PROVE  IsFiniteSet(Coming(op)) /\ Cardinality(Coming(op)) \in Nat
<1>1. Coming(op) \subseteq Threads
  BY DEF Coming
<1> QED BY <1>1, PthreadQueueConstants, FS_Subset, FS_CardinalityType

\* A sleeper of one kind is served: after a signal for op, the sleepers are
\* fewer by the woken thread and the coming ones more by it.
LEMMA SignalCounts ==
    ASSUME QueueInv, NEW t \in Threads, NEW op \in {"push", "pop"},
           pc[t] = "check", call[t].op # op, SignalAndReturn(t, op),
           \A u \in Threads \ {t} : call'[u] = call[u],
           call'[t].op = call[t].op
    PROVE  /\ Waiting(op) = {} => Waiting(op)' = {}
           /\ Waiting(op) # {} =>
                 Cardinality(Coming(op)') = Cardinality(Coming(op)) + 1
<1> USE DEF QueueInv, QueueTypeOK
<1>1. Waiting(op) = {} => Waiting(op)' = {}
  BY DEF SignalAndReturn, Waiting
<1>2. ASSUME Waiting(op) # {}
      PROVE  Cardinality(Coming(op)') = Cardinality(Coming(op)) + 1
  <2>1. PICK u \in Waiting(op) : pc' = [pc EXCEPT ![t] = "idle", ![u] = "woken"]
    BY <1>2 DEF SignalAndReturn
  <2>2. u \in Threads /\ u # t /\ pc[u] = "wait" /\ call[u].op = op
    BY <2>1 DEF Waiting
  <2>3. u \notin Coming(op)
    BY <2>2 DEF Coming
  <2>4. Coming(op)' = Coming(op) \cup {u}
    BY <2>1, <2>2 DEF Coming
  <2>5. IsFiniteSet(Coming(op)) /\ Cardinality(Coming(op) \cup {u}) = Cardinality(Coming(op)) + 1
    BY <2>3, ComingFinite, FS_AddElement
  <2> QED BY <2>4, <2>5
<1> QED BY <1>1, <1>2

\* A thread that leaves the queue from "check" is one coming thread less of
\* its own kind, and the sleepers of that kind stay as they are.
LEMMA LeaveCounts ==
    ASSUME QueueInv, NEW t \in Threads, NEW op \in {"push", "pop"}, NEW other,
           pc[t] = "check", call[t].op = op, other # op,
           SignalAndReturn(t, other),
           \A u \in Threads \ {t} : call'[u] = call[u],
           call'[t].op = call[t].op
    PROVE  /\ Waiting(op)' = Waiting(op)
           /\ Cardinality(Coming(op)') = Cardinality(Coming(op)) - 1
<1> USE DEF QueueInv, QueueTypeOK
<1>1. /\ pc'[t] = "idle"
      /\ \A u \in Threads \ {t} : call[u].op = op => pc'[u] = pc[u]
  BY DEF SignalAndReturn, Waiting
<1>2. Waiting(op)' = Waiting(op)
  BY <1>1 DEF Waiting
<1>3. t \in Coming(op) /\ Coming(op)' = Coming(op) \ {t}
  BY <1>1 DEF Coming
<1>4. IsFiniteSet(Coming(op))
  BY ComingFinite
<1>5. Cardinality(Coming(op) \ {t}) = Cardinality(Coming(op)) - 1
  BY <1>3, <1>4, FS_RemoveElement, Zenon
<1> QED BY <1>2, <1>3, <1>5

\* Steps that leave ring and closed alone, let nobody fall asleep and let no
\* coming thread go, keep SignalsSuffice.
LEMMA QuietStep ==
    ASSUME QueueInv, SignalsSuffice, UNCHANGED <<count, closed>>,
           \A op \in {"push", "pop"} : /\ Waiting(op)' \subseteq Waiting(op)
                                       /\ Coming(op) \subseteq Coming(op)'
    PROVE  SignalsSuffice'
<1>1. ASSUME NEW op \in {"push", "pop"}
      PROVE  /\ Cardinality(Coming(op)) <= Cardinality(Coming(op)')
             /\ Cardinality(Coming(op)) \in Nat /\ Cardinality(Coming(op)') \in Nat
  <2>1. Coming(op)' \subseteq Threads /\ Coming(op) \subseteq Coming(op)'
    BY DEF Coming
  <2>2. IsFiniteSet(Coming(op)')
    BY <2>1, PthreadQueueConstants, FS_Subset
  <2>3. Cardinality(Coming(op)') \in Nat
    BY <2>2, FS_CardinalityType
  <2> QED BY <2>1, <2>2, <2>3, ComingFinite, FS_Subset
<1>2. count \in Nat /\ Capacity \in Nat
  BY PthreadQueueConstants DEF QueueInv, QueueTypeOK
<1> QED BY <1>1, <1>2 DEF SignalsSuffice

\* Every step keeps SignalsSuffice.
LEMMA StepSignals ==
    ASSUME QueueInv, SignalsSuffice, [QueueNext]_queueVars
    PROVE  SignalsSuffice'
<1>0. /\ count \in 0..Capacity /\ Capacity \in Nat /\ "push" # "pop"
      /\ Cardinality(Coming("push")) \in Nat /\ Cardinality(Coming("pop")) \in Nat
  BY ComingFinite, PthreadQueueConstants DEF QueueInv, QueueTypeOK
<1>1. ASSUME NEW t \in Threads, NEW op, NEW item, Invoke(t, op, item)
      PROVE  SignalsSuffice'
  <2>1. /\ pc[t] = "idle" /\ pc'[t] \in {"try", "lock"} /\ UNCHANGED <<count, closed>>
        /\ \A u \in Threads \ {t} : pc'[u] = pc[u] /\ call'[u] = call[u]
    BY <1>1 DEF Invoke, ring, QueueInv, QueueTypeOK
  <2>2. \A o : Waiting(o)' = Waiting(o) /\ Coming(o)' = Coming(o)
    BY <2>1 DEF Waiting, Coming
  <2> QED BY <2>1, <2>2, QuietStep
<1>2. ASSUME NEW t \in Threads,
             TryLock(t) \/ TryBusy(t) \/ Lock(t) \/ Relock(t) \/ SpuriousWake(t)
      PROVE  SignalsSuffice'
  <2>1. /\ UNCHANGED <<count, closed>>
        /\ pc[t] \in {"try", "lock", "woken", "wait"}
        /\ pc'[t] \in {"check", "lock", "woken"}
        /\ pc[t] = "woken" => pc'[t] = "check"
        /\ call' = call
        /\ \A u \in Threads \ {t} : pc'[u] = pc[u]
    BY <1>2 DEF TryLock, TryBusy, Lock, Relock, SpuriousWake, ring, QueueInv, QueueTypeOK
  <2>2. \A o : Waiting(o)' \subseteq Waiting(o) /\ Coming(o) \subseteq Coming(o)'
    BY <2>1 DEF Waiting, Coming
  <2> QED BY <2>1, <2>2, QuietStep
<1>3. ASSUME NEW t \in Threads, LockFails(t)
      PROVE  SignalsSuffice'
  <2>1. /\ pc[t] \in {"try", "lock"} /\ pc'[t] = "idle" /\ UNCHANGED <<count, closed>>
        /\ \A u \in Threads \ {t} : pc'[u] = pc[u] /\ call'[u] = call[u]
    BY <1>3 DEF LockFails, Answer, ring, QueueInv, QueueTypeOK
  <2>2. \A o : Waiting(o)' = Waiting(o) /\ Coming(o)' = Coming(o)
    BY <2>1 DEF Waiting, Coming
  <2> QED BY <2>1, <2>2, QuietStep
<1>4. ASSUME NEW t \in Threads, Wait(t) \/ WaitFails(t)
      PROVE  SignalsSuffice'
  <2>1. /\ pc[t] = "check" /\ pc'[t] \in {"wait", "idle"} /\ UNCHANGED <<count, closed>>
        /\ ~closed
        /\ \/ call[t].op = "push" /\ count = Capacity
           \/ call[t].op = "pop" /\ count = 0
        /\ call'[t].op = call[t].op
        /\ \A u \in Threads \ {t} : pc'[u] = pc[u] /\ call'[u] = call[u]
    BY <1>4 DEF Wait, WaitFails, MustWait, Answer, ring, QueueInv, QueueTypeOK
  <2>2. \A o : o # call[t].op => Waiting(o)' = Waiting(o) /\ Coming(o)' = Coming(o)
    BY <2>1 DEF Waiting, Coming
  <2>3. Cardinality(Coming(call[t].op)') \in Nat
    <3>1. Coming(call[t].op)' \subseteq Threads
      BY DEF Coming
    <3> QED BY <3>1, PthreadQueueConstants, FS_Subset, FS_CardinalityType
  <2>4. CASE call[t].op = "push" /\ count = Capacity
    <3>1. Coming(call[t].op)' = Coming("push")'
      BY <2>1, <2>4
    <3>2. Cardinality(Coming("push")') \in Nat /\ Coming("pop")' = Coming("pop")
          /\ Waiting("pop")' = Waiting("pop")
      BY <2>2, <2>3, <2>4, <3>1
    <3> QED BY <1>0, <2>1, <2>4, <3>2 DEF SignalsSuffice
  <2>5. CASE call[t].op = "pop" /\ count = 0
    <3>1. Coming(call[t].op)' = Coming("pop")'
      BY <2>1, <2>5
    <3>2. Cardinality(Coming("pop")') \in Nat /\ Coming("push")' = Coming("push")
          /\ Waiting("push")' = Waiting("push")
      BY <2>2, <2>3, <2>5, <3>1
    <3> QED BY <1>0, <2>1, <2>5, <3>2 DEF SignalsSuffice
  <2> QED BY <2>1, <2>4, <2>5
<1>5. ASSUME NEW t \in Threads, PushCancelled(t) \/ PopClosed(t)
      PROVE  SignalsSuffice'
  <2>1. closed /\ closed' = closed /\ pc'[t] = "idle"
        /\ \A u \in Threads \ {t} : pc'[u] = pc[u] /\ call'[u] = call[u]
    BY <1>5 DEF PushCancelled, PopClosed, Answer, QueueInv, QueueTypeOK
  <2>2. Waiting("pop")' = {} /\ Waiting("push")' = {}
    BY <2>1 DEF SignalsSuffice, Waiting
  <2> QED BY <2>2 DEF SignalsSuffice
<1>6. ASSUME NEW t \in Threads, PushItem(t)
      PROVE  SignalsSuffice'
  <2>1. /\ pc[t] = "check" /\ call[t].op = "push" /\ ~closed /\ closed' = closed
        /\ SignalAndReturn(t, "pop") /\ call'[t].op = call[t].op
        /\ count' = count + 1
        /\ \A u \in Threads \ {t} : call'[u] = call[u]
    BY <1>6 DEF PushItem, Answer, QueueInv, QueueTypeOK
  <2>2. /\ Waiting("pop") = {} => Waiting("pop")' = {}
        /\ Waiting("pop") # {} =>
              Cardinality(Coming("pop")') = Cardinality(Coming("pop")) + 1
    BY <2>1, SignalCounts
  <2>3. /\ Waiting("push")' = Waiting("push")
        /\ Cardinality(Coming("push")') = Cardinality(Coming("push")) - 1
    BY <2>1, LeaveCounts
  <2> QED BY <1>0, <2>1, <2>2, <2>3 DEF SignalsSuffice
<1>7. ASSUME NEW t \in Threads, PopItem(t)
      PROVE  SignalsSuffice'
  <2>1. /\ pc[t] = "check" /\ call[t].op = "pop" /\ closed' = closed
        /\ SignalAndReturn(t, "push") /\ call'[t].op = call[t].op
        /\ count' = count - 1
        /\ \A u \in Threads \ {t} : call'[u] = call[u]
    BY <1>7 DEF PopItem, CountAfterPop, Answer, QueueInv, QueueTypeOK
  <2>2. /\ Waiting("push") = {} => Waiting("push")' = {}
        /\ Waiting("push") # {} =>
              Cardinality(Coming("push")') = Cardinality(Coming("push")) + 1
    BY <2>1, SignalCounts
  <2>3. /\ Waiting("pop")' = Waiting("pop")
        /\ Cardinality(Coming("pop")') = Cardinality(Coming("pop")) - 1
    BY <2>1, LeaveCounts
  <2> QED BY <1>0, <2>1, <2>2, <2>3 DEF SignalsSuffice
<1>8. ASSUME NEW t \in Threads, Close(t)
      PROVE  SignalsSuffice'
  <2>1. /\ call'[t].op = "close"
        /\ \A u \in Threads \ {t} : call'[u] = call[u]
        /\ \A u \in Threads : u \in Broadcast => pc'[u] # "wait"
        /\ \A u \in Threads : pc'[u] = "wait" => pc[u] = "wait"
    BY <1>8 DEF Close, Answer, QueueInv, QueueTypeOK
  <2>2. Waiting("pop")' = {} /\ Waiting("push")' = {}
    BY <2>1 DEF Waiting, Broadcast
  <2> QED BY <2>2 DEF SignalsSuffice
<1>9. CASE UNCHANGED queueVars
  <2>1. UNCHANGED <<count, closed, pc, call>>
    BY <1>9 DEF queueVars, ring
  <2>2. \A o : Waiting(o)' = Waiting(o) /\ Coming(o)' = Coming(o)
    BY <2>1 DEF Waiting, Coming
  <2> QED BY <2>1, <2>2, QuietStep
<1> QED
  BY <1>1, <1>2, <1>3, <1>4, <1>5, <1>6, <1>7, <1>8, <1>9
     DEF QueueNext, AnyCall, QueueStep

\* One signal per pushed item and per popped one is enough: no pop sleeps on
\* an item, no push on a free slot, and nobody after close.
THEOREM SignalsAreEnough == QueueSpec => []SignalsSuffice
<1>1. QueueInit => QueueInv /\ SignalsSuffice
  <2> SUFFICES ASSUME QueueInit PROVE QueueInv /\ SignalsSuffice
    OBVIOUS
  <2>1. Waiting("pop") = {} /\ Waiting("push") = {}
    BY DEF QueueInit, Waiting
  <2> QED BY <2>1, InitQueue DEF SignalsSuffice
<1>2. QueueInv /\ SignalsSuffice /\ [QueueNext]_queueVars => (QueueInv /\ SignalsSuffice)'
  BY StepQueue, StepSignals
<1> QED BY <1>1, <1>2, PTL DEF QueueSpec

\* The n items of f from slot h on.
RingSeq(f, h, n) == [k \in 1..n |-> f[(h + k - 1) % Capacity]]

\* The sequence that a ring stands for.
LEMMA RingFacts ==
    ASSUME NEW f \in [Slots -> Item \cup {NoItem}], NEW h \in Slots, NEW n \in 0..Capacity
    PROVE  /\ RingSeq(f, h, n) \in Seq(Item \cup {NoItem}) /\ Len(RingSeq(f, h, n)) = n
           /\ \A k \in 1..n : RingSeq(f, h, n)[k] = f[Place(h, k - 1)]
<1>1. n \in 0..Capacity /\ Capacity \in Nat \ {0} /\ h \in Slots
  BY PthreadQueueConstants
<1>2. ASSUME NEW k \in 1..n
      PROVE  /\ f[(h + k - 1) % Capacity] = f[Place(h, k - 1)]
             /\ f[Place(h, k - 1)] \in Item \cup {NoItem}
  <2>1. k - 1 \in 0..Capacity /\ h + k - 1 = h + (k - 1)
    BY <1>1 DEF Slots
  <2>2. (h + (k - 1)) % Capacity = Place(h, k - 1) /\ Place(h, k - 1) \in Slots
    BY <1>1, <2>1, PlaceFacts
  <2> QED BY <1>1, <2>1, <2>2
<1>3. RingSeq(f, h, n) = [k \in 1..n |-> f[Place(h, k - 1)]]
  BY <1>2 DEF RingSeq
<1> QED BY <1>1, <1>2, <1>3

\* A push appends its item to the contents.
LEMMA PushContents ==
    ASSUME QueueInv, QueueInv', NEW x \in Item \cup {NoItem}, count # Capacity,
           items' = [items EXCEPT ![tail] = x], head' = head, count' = count + 1
    PROVE  Contents' = Append(Contents, x)
<1>1. count \in 0..Capacity /\ Capacity \in Nat \ {0} /\ head \in Slots
      /\ items \in [Slots -> Item \cup {NoItem}] /\ tail \in Slots
      /\ count + 1 \in 0..Capacity
  BY PthreadQueueConstants DEF QueueInv, QueueTypeOK
<1>2. tail = Place(head, count)
  BY <1>1, PlaceFacts DEF QueueInv, RingInv
<1>3. /\ Contents \in Seq(Item \cup {NoItem}) /\ Len(Contents) = count
      /\ \A k \in 1..count : Contents[k] = items[Place(head, k - 1)]
  BY <1>1, RingFacts DEF Contents, RingSeq
<1>4. /\ Contents' \in Seq(Item \cup {NoItem}) /\ Len(Contents') = count + 1
      /\ \A k \in 1..(count + 1) : Contents'[k] = items'[Place(head, k - 1)]
  <2>1. /\ Contents' \in Seq(Item \cup {NoItem}) /\ Len(Contents') = count'
        /\ \A k \in 1..count' : Contents'[k] = items'[Place(head', k - 1)]
    <3>1. count' \in 0..Capacity /\ head' \in Slots
          /\ items' \in [Slots -> Item \cup {NoItem}]
      BY DEF QueueInv, QueueTypeOK
    <3>2. Contents' = RingSeq(items', head', count')
      BY DEF Contents, RingSeq
    <3> QED
      <4> DEFINE f == items'
                 h == head'
                 n == count'
      <4>1. f \in [Slots -> Item \cup {NoItem}] /\ h \in Slots /\ n \in 0..Capacity
        BY <3>1
      <4>2. /\ RingSeq(f, h, n) \in Seq(Item \cup {NoItem}) /\ Len(RingSeq(f, h, n)) = n
            /\ \A k \in 1..n : RingSeq(f, h, n)[k] = f[Place(h, k - 1)]
        <5> HIDE DEF f, h, n
        <5> QED BY <4>1, RingFacts
      <4> QED BY <3>2, <4>2, Zenon
  <2> QED BY <2>1
<1>5. ASSUME NEW k \in 1..count
      PROVE  items'[Place(head, k - 1)] = Contents[k]
  <2>1. Place(head, k - 1) \in Slots /\ Place(head, k - 1) # tail
    BY <1>1, <1>2 DEF Place, Slots
  <2> QED BY <1>1, <1>3, <2>1
<1>6. items'[Place(head, count)] = x
  BY <1>1, <1>2
<1>7. \A k \in 1..(count + 1) : Contents'[k] = Append(Contents, x)[k]
  <2> TAKE k \in 1..(count + 1)
  <2>1. CASE k \in 1..count
    BY <1>1, <1>3, <1>4, <1>5, <2>1
  <2>2. CASE k = count + 1
    <3>1. k - 1 = count
      BY <1>1, <2>2
    <3>2. Contents'[k] = items'[Place(head, k - 1)]
      BY <1>4
    <3>3. Append(Contents, x)[count + 1] = x
      BY <1>1, <1>3
    <3> QED BY <1>6, <2>2, <3>1, <3>2, <3>3, Zenon
  <2>3. k \in 1..count \/ k = count + 1
    BY <1>1
  <2> QED BY <2>1, <2>2, <2>3, Zenon
<1>8. Append(Contents, x) \in Seq(Item \cup {NoItem}) /\ Len(Append(Contents, x)) = count + 1
  BY <1>3
<1> HIDE DEF Contents
<1> QED BY <1>4, <1>7, <1>8

\* A pop removes the front of the contents and returns it.
LEMMA PopContents ==
    ASSUME QueueInv, QueueInv', count # 0,
           items' = items, head' = Advance(head), count' = count - 1
    PROVE  /\ Contents # <<>> /\ Front = Head(Contents)
           /\ Contents' = Tail(Contents)
<1>1. count \in 0..Capacity /\ Capacity \in Nat \ {0} /\ head \in Slots
      /\ count - 1 \in 0..Capacity /\ items \in [Slots -> Item \cup {NoItem}]
  BY PthreadQueueConstants DEF QueueInv, QueueTypeOK
<1>2. head' = Place(head, 1)
  BY <1>1, AdvanceFacts
<1>3. /\ Contents \in Seq(Item \cup {NoItem}) /\ Len(Contents) = count
      /\ \A k \in 1..count : Contents[k] = items[Place(head, k - 1)]
  BY <1>1, RingFacts DEF Contents, RingSeq
<1>4. /\ Contents' \in Seq(Item \cup {NoItem}) /\ Len(Contents') = count - 1
      /\ \A k \in 1..(count - 1) : Contents'[k] = items[Place(head', k - 1)]
  <2>1. /\ Contents' \in Seq(Item \cup {NoItem}) /\ Len(Contents') = count'
        /\ \A k \in 1..count' : Contents'[k] = items'[Place(head', k - 1)]
    <3>1. count' \in 0..Capacity /\ head' \in Slots
          /\ items' \in [Slots -> Item \cup {NoItem}]
      BY DEF QueueInv, QueueTypeOK
    <3>2. Contents' = RingSeq(items', head', count')
      BY DEF Contents, RingSeq
    <3> QED
      <4> DEFINE f == items'
                 h == head'
                 n == count'
      <4>1. f \in [Slots -> Item \cup {NoItem}] /\ h \in Slots /\ n \in 0..Capacity
        BY <3>1
      <4>2. /\ RingSeq(f, h, n) \in Seq(Item \cup {NoItem}) /\ Len(RingSeq(f, h, n)) = n
            /\ \A k \in 1..n : RingSeq(f, h, n)[k] = f[Place(h, k - 1)]
        <5> HIDE DEF f, h, n
        <5> QED BY <4>1, RingFacts
      <4> QED BY <3>2, <4>2, Zenon
  <2> QED BY <2>1
<1>5. ASSUME NEW k \in 1..(count - 1)
      PROVE  Contents'[k] = Contents[k + 1]
  <2>1. Place(head', k - 1) = Place(head, k)
    BY <1>1, <1>2 DEF Place, Slots
  <2>2. k + 1 \in 1..count /\ (k + 1) - 1 = k
    BY <1>1
  <2>3. Contents[k + 1] = items[Place(head, (k + 1) - 1)]
    BY <1>3, <2>2
  <2> QED BY <1>4, <2>1, <2>2, <2>3
<1>6. Front = Contents[1]
  <2>1. 1 \in 1..count /\ Place(head, 1 - 1) = head
    BY <1>1 DEF Place, Slots
  <2> QED BY <1>3, <2>1 DEF Front
<1> HIDE DEF Contents
<1> QED BY <1>1, <1>3, <1>4, <1>5, <1>6

\* Every step of the ring buffer is a step of the FIFO or changes nothing of it.
LEMMA StepImplements ==
    ASSUME QueueInv, QueueInv', [QueueNext]_queueVars
    PROVE  [Fifo!FifoNext]_(Fifo!fifoVars)
<1> USE DEF Fifo!FifoNext, Fifo!fifoVars
<1>1. ASSUME UNCHANGED <<items, head, count>>
      PROVE  Contents' = Contents
  BY <1>1 DEF Contents
<1>2. ASSUME NEW t \in Threads, NEW item, NEW op \in {"push", "pop", "close"},
             Invoke(t, op, item),
             (op = "push" /\ item \in Item) \/ (op # "push" /\ item = NoItem)
      PROVE  Fifo!FifoNext
  <2>1. Fifo!Request(t, op, item)
    <3>1. UNCHANGED <<items, head, count, closed>> /\ call[t].rc # "pending"
      BY <1>2 DEF Invoke, ring, QueueInv, CallInv
    <3>2. Contents' = Contents
      BY <1>1, <3>1
    <3> QED BY <1>2, <3>1, <3>2 DEF Invoke, Fifo!Request
  <2> QED BY <1>2, <2>1, Zenon
<1>3. ASSUME NEW t \in Threads, LockFails(t) \/ WaitFails(t)
      PROVE  Fifo!FifoNext
  <2>1. UNCHANGED <<items, head, count, closed>> /\ call[t].rc = "pending" /\ Faults
        /\ Answer(t, NoItem, "error")
    BY <1>3 DEF LockFails, WaitFails, ring, QueueInv, CallInv
  <2>2. Contents' = Contents
    BY <1>1, <2>1
  <2>3. Fifo!FifoFail(t)
    BY <2>1, <2>2 DEF Fifo!FifoFail, Fifo!Result, Answer
  <2> QED BY <2>3
<1>4. ASSUME NEW t \in Threads, PushCancelled(t)
      PROVE  Fifo!FifoNext
  <2>1. UNCHANGED <<items, head, count, closed>> /\ call[t].rc = "pending"
        /\ call[t].op = "push" /\ closed /\ Answer(t, NoItem, "ECANCELED")
    BY <1>4 DEF PushCancelled, ring, QueueInv, CallInv
  <2>2. Contents' = Contents
    BY <1>1, <2>1
  <2>3. Fifo!FifoCancel(t)
    BY <2>1, <2>2 DEF Fifo!FifoCancel, Fifo!Pending, Fifo!Result, Answer
  <2> QED BY <2>3
<1>5. ASSUME NEW t \in Threads, PushItem(t)
      PROVE  Fifo!FifoNext
  <2>1. /\ call[t].rc = "pending" /\ call[t].op = "push" /\ ~closed /\ closed' = closed
        /\ call[t].item \in Item /\ count # Capacity /\ Answer(t, NoItem, "0")
        /\ items' = [items EXCEPT ![tail] = call[t].item] /\ head' = head
        /\ count' = count + 1
    BY <1>5 DEF PushItem, MustWait, QueueInv, CallInv
  <2>2. Contents' = Append(Contents, call[t].item)
    BY <2>1, PushContents
  <2>3. Len(Contents) < Capacity
    <3>1. items \in [Slots -> Item \cup {NoItem}] /\ head \in Slots /\ count \in 0..Capacity
      BY DEF QueueInv, QueueTypeOK
    <3>2. Len(Contents) = count
      BY <3>1, RingFacts DEF Contents, RingSeq
    <3> QED BY <2>1, <3>1, <3>2, PthreadQueueConstants
  <2>4. Fifo!FifoPush(t)
    BY <2>1, <2>2, <2>3 DEF Fifo!FifoPush, Fifo!Pending, Fifo!Result, Answer
  <2> QED BY <2>4
<1>6. ASSUME NEW t \in Threads, PopClosed(t)
      PROVE  Fifo!FifoNext
  <2>1. UNCHANGED <<items, head, count, closed>> /\ call[t].rc = "pending"
        /\ call[t].op = "pop" /\ closed /\ count = 0 /\ Answer(t, NoItem, "0")
    BY <1>6 DEF PopClosed, ring, QueueInv, CallInv
  <2>2. Contents' = Contents /\ Contents = <<>>
    BY <1>1, <2>1 DEF Contents
  <2>3. Fifo!FifoPopClosed(t)
    BY <2>1, <2>2 DEF Fifo!FifoPopClosed, Fifo!Pending, Fifo!Result, Answer
  <2> QED BY <2>3
<1>7. ASSUME NEW t \in Threads, PopItem(t)
      PROVE  Fifo!FifoNext
  <2>1. /\ call[t].rc = "pending" /\ call[t].op = "pop" /\ closed' = closed
        /\ count # 0 /\ Answer(t, Front, "1")
        /\ items' = items /\ head' = Advance(head) /\ count' = count - 1
    BY <1>7 DEF PopItem, CountAfterPop, QueueInv, CallInv
  <2>2. Contents # <<>> /\ Front = Head(Contents) /\ Contents' = Tail(Contents)
    BY <2>1, PopContents
  <2>3. Fifo!FifoPop(t)
    BY <2>1, <2>2 DEF Fifo!FifoPop, Fifo!Pending, Fifo!Result, Answer
  <2> QED BY <2>3
<1>8. ASSUME NEW t \in Threads, Close(t)
      PROVE  Fifo!FifoNext
  <2>1. UNCHANGED <<items, head, count>> /\ call[t].rc = "pending"
        /\ call[t].op = "close" /\ closed' = TRUE /\ Answer(t, NoItem, "0")
    BY <1>8 DEF Close, ring, QueueInv, CallInv
  <2>2. Contents' = Contents
    BY <1>1, <2>1
  <2>3. Fifo!FifoClose(t)
    BY <2>1, <2>2 DEF Fifo!FifoClose, Fifo!Pending, Fifo!Result, Answer
  <2> QED BY <2>3
<1>9. ASSUME UNCHANGED <<items, head, count, closed, call>>
      PROVE  UNCHANGED Fifo!fifoVars
  BY <1>1, <1>9
<1>10. CASE \E t \in Threads : \/ TryLock(t) \/ TryBusy(t) \/ Lock(t) \/ Relock(t)
                               \/ Wait(t) \/ SpuriousWake(t)
  BY <1>9, <1>10 DEF TryLock, TryBusy, Lock, Relock, Wait, SpuriousWake, ring
<1>11. CASE UNCHANGED queueVars
  BY <1>9, <1>11 DEF queueVars, ring
<1>12. ASSUME NEW t \in Threads, AnyCall(t)
       PROVE  Fifo!FifoNext
  BY <1>2, <1>12 DEF AnyCall
<1> HIDE DEF Fifo!FifoNext, Fifo!fifoVars
<1> QED
  BY <1>3, <1>4, <1>5, <1>6, <1>7, <1>8, <1>10, <1>11, <1>12 DEF QueueNext, QueueStep

\* The ring buffer with its mutex and condition variables implements the
\* bounded FIFO: linearizable push, pop and close for any number of threads.
THEOREM QueueIsFifo == QueueSpec => ImplementsFifo
<1>1. QueueInit => Fifo!FifoInit
  <2> SUFFICES ASSUME QueueInit PROVE Fifo!FifoInit
    OBVIOUS
  <2>1. Contents = <<>>
    BY DEF QueueInit, Contents
  <2> QED BY <2>1 DEF QueueInit, Fifo!FifoInit
<1>2. QueueInit => QueueInv
  BY InitQueue
<1>3. QueueInv /\ [QueueNext]_queueVars => QueueInv'
  BY StepQueue
<1>4. QueueInv /\ QueueInv' /\ [QueueNext]_queueVars => [Fifo!FifoNext]_(Fifo!fifoVars)
  BY StepImplements
<1> QED BY <1>1, <1>2, <1>3, <1>4, PTL DEF QueueSpec, ImplementsFifo, Fifo!FifoSpec
-----------------------------------------------------------------------------
(***************************************************************************)
(* The benchmark program.                                                  *)
(***************************************************************************)

BenchTypeOK ==
    /\ main \in MainPoints /\ i \in 1..(task_count + 1)
    /\ wpc \in [Workers -> WorkerPoints]
    /\ contexts \in [Workers -> worker_context_t]

\* A thread is in a call of the queue only where its program makes that call;
\* main pushes item i, and closes after the last push.
CallsAgree ==
    /\ main \notin {"pushing", "closing"} => call["main"].rc # "pending"
    /\ main = "pushing" =>
          /\ call["main"].op = "push" /\ i <= task_count
          /\ call["main"].rc = "pending" => call["main"].item = i
    /\ main = "closing" => call["main"].op = "close"
    /\ main \in {"closing", "join", "exit0"} => i = task_count + 1
    /\ \A w \in Workers :
          IF wpc[w] = "popping" THEN call[w].op = "pop" ELSE call[w].rc # "pending"

\* How many items have been pushed.
Pushed == i - 1 + (IF main = "pushing" /\ call["main"].rc = "0" THEN 1 ELSE 0)

\* Every item in the ring, in a worker's hands or in a checksum is one of the
\* pushed items, and there only.
OneHolder ==
    /\ IsInjective(Contents)
    /\ \A e \in Range(Contents) : e \in 1..Pushed
    /\ \A w \in InHand : call[w].item \in 1..Pushed \ Range(Contents)
    /\ \A w \in Workers : \A e \in contexts[w].checksum : e \in 1..Pushed \ Range(Contents)
    /\ \A v, w \in InHand : v # w => call[v].item # call[w].item
    /\ \A w \in InHand, v \in Workers : call[w].item \notin contexts[v].checksum
    /\ \A v, w \in Workers :
          v # w => contexts[v].checksum \cap contexts[w].checksum = {}

\* The items in some worker's checksum.
Done == UNION {contexts[w].checksum : w \in Workers}

\* What the workers count adds up to what has left the ring, and to what is in
\* the checksums.
Counts ==
    /\ count + Cardinality(InHand) + Total("tasks_completed") = Pushed
    /\ Total("allocations") = Cardinality(Done)
    /\ \A w \in Workers : contexts[w].latency_count <= contexts[w].tasks_completed

BenchInv == QueueInv /\ BenchTypeOK /\ CallsAgree /\ OneHolder /\ Counts
-----------------------------------------------------------------------------
(* Sums over the workers.                                                  *)

\* The workers and main are threads, and there are finitely many.
LEMMA WorkersFinite ==
    /\ IsFiniteSet(Workers) /\ Workers \subseteq Threads
    /\ "main" \in Threads /\ "main" \notin Workers
    /\ task_count \in Nat \ {0} /\ Item = 1..task_count
<1>1. Workers \in SUBSET Threads /\ IsFiniteSet(Threads)
  BY PthreadBenchmarkConstants, PthreadQueueConstants
<1>2. IsFiniteSet(Workers)
  BY <1>1, FS_Subset
<1> QED BY <1>1, <1>2, PthreadBenchmarkConstants

\* The disjoint union whose size the sum of n is.
Parts(n) == UNION {{w} \X (1..n[w]) : w \in Workers}

\* A pair of a worker and a number up to its count.
LEMMA PartsFacts ==
    ASSUME NEW n \in [Workers -> Nat]
    PROVE  /\ IsFiniteSet(Parts(n)) /\ Sum(n) = Cardinality(Parts(n)) /\ Sum(n) \in Nat
           /\ \A p : p \in Parts(n) <=> \E w \in Workers : \E k \in 1..n[w] : p = <<w, k>>
<1> DEFINE f == [w \in Workers |-> {w} \X (1..n[w])]
           Pieces == {{w} \X (1..n[w]) : w \in Workers}
<1>1. IsFiniteSet({{w} \X (1..n[w]) : w \in Workers})
  <2>1. f \in Surjection(Workers, Pieces)
    BY DEF Surjection
  <2> HIDE DEF f, Pieces
  <2>2. IsFiniteSet(Pieces)
    BY <2>1, WorkersFinite, FS_Surjection
  <2> QED BY <2>2 DEF Pieces
<1>2. ASSUME NEW T \in {{w} \X (1..n[w]) : w \in Workers}
      PROVE  IsFiniteSet(T)
  <2>1. PICK w \in Workers : T = {w} \X (1..n[w])
    OBVIOUS
  <2>2. IsFiniteSet({w})
    BY FS_Singleton
  <2>3. IsFiniteSet(1..n[w])
    <3>1. 1 \in Int /\ n[w] \in Int
      OBVIOUS
    <3> QED BY <3>1, FS_Interval
  <2> QED BY <2>1, <2>2, <2>3, FS_Product
<1>3. IsFiniteSet(Parts(n))
  BY <1>1, <1>2, FS_UNION DEF Parts
<1>4. Sum(n) = Cardinality(Parts(n))
  BY DEF Sum, Parts
<1>5. \A p : p \in Parts(n) <=> \E w \in Workers : \E k \in 1..n[w] : p = <<w, k>>
  BY DEF Parts
<1> QED BY <1>3, <1>4, <1>5, FS_CardinalityType

\* Counts of 0 add up to 0.
LEMMA SumZero ==
    ASSUME NEW n \in [Workers -> Nat], \A w \in Workers : n[w] = 0
    PROVE  Sum(n) = 0
<1>1. ASSUME NEW p \in Parts(n)  PROVE FALSE
  <2>1. PICK w \in Workers : \E k \in 1..n[w] : p = <<w, k>>
    BY PartsFacts
  <2> QED BY <2>1
<1>2. Parts(n) = {}
  BY <1>1
<1> QED BY <1>2, PartsFacts, FS_EmptySet

\* One more in the count of one worker is one more in the sum.
LEMMA SumGrows ==
    ASSUME NEW n \in [Workers -> Nat], NEW m \in [Workers -> Nat], NEW w \in Workers,
           m[w] = n[w] + 1, \A v \in Workers \ {w} : m[v] = n[v]
    PROVE  Sum(m) = Sum(n) + 1
<1> DEFINE new == <<w, n[w] + 1>>
<1>1. new \notin Parts(n)
  <2> SUFFICES ASSUME new \in Parts(n) PROVE FALSE
    OBVIOUS
  <2>1. PICK v \in Workers : \E k \in 1..n[v] : new = <<v, k>>
    BY PartsFacts
  <2> QED BY <2>1
<1>2. ASSUME NEW p  PROVE p \in Parts(m) <=> (p \in Parts(n) \/ p = new)
  <2>1. ASSUME NEW v \in Workers, NEW k \in 1..m[v]
        PROVE  (\E l \in 1..n[v] : <<v, k>> = <<v, l>>) \/ <<v, k>> = new
    BY <2>1
  <2>2. ASSUME NEW v \in Workers, NEW k \in 1..n[v]  PROVE k \in 1..m[v]
    BY <2>2
  <2>3. n[w] + 1 \in 1..m[w]
    OBVIOUS
  <2>4. /\ p \in Parts(m) <=> \E v \in Workers : \E k \in 1..m[v] : p = <<v, k>>
        /\ p \in Parts(n) <=> \E v \in Workers : \E k \in 1..n[v] : p = <<v, k>>
    BY PartsFacts
  <2>5. p \in Parts(m) => (p \in Parts(n) \/ p = new)
    BY <2>1, <2>4, Zenon
  <2>6. (p \in Parts(n) \/ p = new) => p \in Parts(m)
    BY <2>2, <2>3, <2>4, Zenon
  <2> QED BY <2>5, <2>6
<1> HIDE DEF new
<1>3. Parts(m) = Parts(n) \cup {new}
  BY <1>2
<1> QED BY <1>1, <1>3, PartsFacts, FS_AddElement

\* Smaller counts have a smaller sum.
LEMMA SumBelow ==
    ASSUME NEW n \in [Workers -> Nat], NEW m \in [Workers -> Nat],
           \A w \in Workers : n[w] <= m[w]
    PROVE  Sum(n) <= Sum(m)
<1>1. ASSUME NEW p \in Parts(n)  PROVE p \in Parts(m)
  <2>1. PICK w \in Workers : \E k \in 1..n[w] : p = <<w, k>>
    BY PartsFacts
  <2>2. PICK k \in 1..n[w] : p = <<w, k>>
    BY <2>1
  <2>3. k \in 1..m[w]
    OBVIOUS
  <2> QED BY <2>2, <2>3, PartsFacts, Zenon
<1>2. Parts(n) \in SUBSET Parts(m)
  BY <1>1
<1> QED BY <1>2, PartsFacts, FS_Subset
-----------------------------------------------------------------------------
(* What the program does to the queue.                                     *)

\* The program uses the queue only through its operations.
LEMMA BenchUsesQueue ==
    ASSUME BenchTypeOK, [BenchNext]_benchVars
    PROVE  [QueueNext]_queueVars
<1>1. CASE MainPush
  <2>1. i \in Item /\ Invoke("main", "push", i)
    BY <1>1, WorkersFinite DEF MainPush, BenchTypeOK
  <2>2. AnyCall("main")
    BY <2>1 DEF AnyCall
  <2> QED BY <2>2, WorkersFinite DEF QueueNext
<1>2. CASE MainClose
  <2>1. AnyCall("main")
    BY <1>2 DEF MainClose, AnyCall
  <2> QED BY <2>1, WorkersFinite DEF QueueNext
<1>3. ASSUME NEW w \in Workers, WorkerPop(w)  PROVE QueueNext
  <2>1. AnyCall(w)
    BY <1>3 DEF WorkerPop, AnyCall
  <2> QED BY <2>1, WorkersFinite DEF QueueNext
<1>4. ASSUME NEW t \in Threads, InQueue(t)  PROVE QueueNext
  BY <1>4 DEF InQueue, QueueNext
<1>5. CASE Wakeups
  BY <1>5 DEF Wakeups, QueueNext
<1>6. ASSUME UNCHANGED queueVars  PROVE [QueueNext]_queueVars
  BY <1>6
<1>7. ASSUME NEW w \in Workers, CreateWorker(w) \/ WorkerProcess(w) \/ WorkerExit(w)
      PROVE  UNCHANGED queueVars
  BY <1>7 DEF CreateWorker, WorkerProcess, WorkerExit
<1>8. CASE CreateFails \/ MainPushed \/ MainPushFailed \/ MainClosed \/ MainReport
  BY <1>8 DEF CreateFails, MainPushed, MainPushFailed, MainClosed, MainReport
<1>9. CASE Exited \/ UNCHANGED benchVars
  BY <1>9 DEF Exited, benchVars
<1> QED
  BY <1>1, <1>2, <1>3, <1>4, <1>5, <1>6, <1>7, <1>8, <1>9, WorkersFinite
     DEF BenchNext, MainNext, WorkerNext

\* Steps inside a call that neither end it nor touch the ring.
Inside == UNCHANGED <<Contents, count, call>>

\* A push puts its item at the back of the ring.
Pushes(t) ==
    /\ call[t].op = "push"
    /\ Contents' = Append(Contents, call[t].item) /\ count' = count + 1
    /\ call'[t].rc = "0"

\* A pop takes the front of the ring.
Pops(t) ==
    /\ call[t].op = "pop"
    /\ Contents # <<>> /\ Contents' = Tail(Contents) /\ count' = count - 1
    /\ call'[t].rc = "1" /\ call'[t].item = Head(Contents)

\* A call ends without touching the ring, and says so.
GivesUp(t) ==
    /\ UNCHANGED <<Contents, count>>
    /\ call'[t].rc # "pending"
    /\ call[t].op = "push" => call'[t].rc # "0"
    /\ call[t].op = "pop" => call'[t].rc # "1"

\* What a step of a thread inside the queue means to the program.
LEMMA QueueResult ==
    ASSUME QueueInv, QueueInv', NEW t \in Threads, QueueStep(t)
    PROVE  \/ Inside
           \/ /\ Pushes(t) \/ Pops(t) \/ GivesUp(t)
              /\ call[t].rc = "pending" /\ call'[t].op = call[t].op
              /\ \A u \in Threads \ {t} : call'[u] = call[u]
<1>1. ASSUME UNCHANGED <<items, head, count>>
      PROVE  Contents' = Contents
  BY <1>1 DEF Contents
<1>2. ASSUME NEW item, NEW rc, Answer(t, item, rc)
      PROVE  /\ call'[t].op = call[t].op /\ call'[t].item = item /\ call'[t].rc = rc
             /\ \A u \in Threads \ {t} : call'[u] = call[u]
  BY <1>2 DEF Answer, QueueInv, QueueTypeOK
<1>3. ASSUME pc[t] # "idle"  PROVE call[t].rc = "pending"
  BY <1>3 DEF QueueInv, CallInv
<1>4. CASE TryLock(t) \/ TryBusy(t) \/ Lock(t) \/ Relock(t) \/ Wait(t)
  <2>1. UNCHANGED <<items, head, count, call>>
    BY <1>4 DEF TryLock, TryBusy, Lock, Relock, Wait, ring
  <2> QED BY <1>1, <2>1 DEF Inside
<1>5. CASE LockFails(t) \/ WaitFails(t)
  <2>1. UNCHANGED <<items, head, count>> /\ pc[t] # "idle" /\ Answer(t, NoItem, "error")
    BY <1>5 DEF LockFails, WaitFails, ring
  <2>2. GivesUp(t)
    BY <1>1, <1>2, <2>1 DEF GivesUp
  <2> QED BY <1>2, <1>3, <2>1, <2>2
<1>6. CASE PushCancelled(t)
  <2>1. /\ UNCHANGED <<items, head, count>> /\ pc[t] # "idle" /\ call[t].op = "push"
        /\ Answer(t, NoItem, "ECANCELED")
    BY <1>6 DEF PushCancelled, ring
  <2>2. GivesUp(t)
    BY <1>1, <1>2, <2>1 DEF GivesUp
  <2> QED BY <1>2, <1>3, <2>1, <2>2
<1>7. CASE PopClosed(t) \/ Close(t)
  <2>1. /\ UNCHANGED <<items, head, count>> /\ pc[t] # "idle" /\ call[t].op # "push"
        /\ Answer(t, NoItem, "0")
    BY <1>7 DEF PopClosed, Close, ring
  <2>2. GivesUp(t)
    BY <1>1, <1>2, <2>1 DEF GivesUp
  <2> QED BY <1>2, <1>3, <2>1, <2>2
<1>8. CASE PushItem(t)
  <2>1. /\ pc[t] # "idle" /\ call[t].op = "push" /\ count # Capacity
        /\ Answer(t, NoItem, "0") /\ call[t].item \in Item
        /\ items' = [items EXCEPT ![tail] = call[t].item] /\ head' = head
        /\ count' = count + 1
    BY <1>8 DEF PushItem, MustWait, QueueInv, CallInv
  <2>2. Contents' = Append(Contents, call[t].item)
    BY <2>1, PushContents
  <2>3. Pushes(t)
    BY <1>2, <2>1, <2>2 DEF Pushes
  <2> QED BY <1>2, <1>3, <2>1, <2>3
<1>9. CASE PopItem(t)
  <2>1. /\ pc[t] # "idle" /\ call[t].op = "pop" /\ count # 0
        /\ Answer(t, Front, "1")
        /\ items' = items /\ head' = Advance(head) /\ count' = count - 1
    BY <1>9 DEF PopItem, CountAfterPop
  <2>2. Contents # <<>> /\ Front = Head(Contents) /\ Contents' = Tail(Contents)
    BY <2>1, PopContents
  <2>3. Pops(t)
    BY <1>2, <2>1, <2>2 DEF Pops
  <2> QED BY <1>2, <1>3, <2>1, <2>3
<1> QED BY <1>4, <1>5, <1>6, <1>7, <1>8, <1>9 DEF QueueStep
-----------------------------------------------------------------------------
(* The invariant is inductive.                                             *)

\* A thread outside the queue can be in no step of it.
LEMMA OnlyCallers ==
    ASSUME BenchTypeOK, CallsAgree
    PROVE  /\ Pushed \in 0..task_count
           /\ call["main"].rc = "pending" => main \in {"pushing", "closing"}
           /\ \A w \in Workers : call[w].rc = "pending" => wpc[w] = "popping"
<1>1. i \in 1..(task_count + 1) /\ task_count \in Nat
  BY WorkersFinite DEF BenchTypeOK
<1>2. main = "pushing" => i <= task_count
  BY DEF CallsAgree
<1>3. Pushed \in 0..task_count
  BY <1>1, <1>2 DEF Pushed
<1> QED BY <1>3 DEF CallsAgree

\* Processing an item keeps the types of a context.
LEMMA ContextTypes ==
    ASSUME NEW c \in worker_context_t, NEW item \in Item
    PROVE  Processed(c, item) \in worker_context_t /\ NotProcessed(c) \in worker_context_t
<1>1. /\ c.checksum \in SUBSET Item /\ c.tasks_completed \in Nat
      /\ c.allocations \in Nat /\ c.latency_count \in Nat
  BY DEF worker_context_t
<1>2. Xor(c.checksum, item) \in SUBSET Item
  BY <1>1 DEF Xor
<1>3. /\ c.latency_count + (IF LatencyFits(c) THEN 1 ELSE 0) \in Nat
      /\ c.tasks_completed + 1 \in Nat /\ c.allocations + 1 \in Nat
  BY <1>1
<1>4. Processed(c, item) \in worker_context_t
  <2> DEFINE s == Xor(c.checksum, item)
             n == c.latency_count + (IF LatencyFits(c) THEN 1 ELSE 0)
             k == c.tasks_completed + 1
             a == c.allocations + 1
  <2>1. s \in SUBSET Item /\ n \in Nat /\ k \in Nat /\ a \in Nat
    BY <1>2, <1>3
  <2> HIDE DEF s, n, k, a
  <2>2. [checksum |-> s, tasks_completed |-> k, allocations |-> a, latency_count |-> n]
           \in worker_context_t
    BY <2>1 DEF worker_context_t
  <2> QED BY <2>2, Zenon DEF Processed, s, n, k, a
<1>5. NotProcessed(c) \in worker_context_t
  BY <1>3 DEF NotProcessed, worker_context_t
<1> QED BY <1>4, <1>5

\* The state keeps its types.
LEMMA StepBenchType ==
    ASSUME BenchInv, [BenchNext]_benchVars
    PROVE  BenchTypeOK'
<1> USE DEF BenchTypeOK, MainPoints, WorkerPoints
<1>0. /\ BenchTypeOK /\ CallsAgree /\ task_count \in Nat \ {0}
      /\ \A w \in InHand : call[w].item \in Item
  <2>1. ASSUME NEW w \in InHand  PROVE call[w].item \in Item
    <3>1. call[w].item \in 1..Pushed /\ Pushed \in 0..task_count
      BY OnlyCallers DEF BenchInv, OneHolder
    <3> QED BY <3>1, WorkersFinite
  <2> QED BY <2>1, WorkersFinite DEF BenchInv
<1>1. ASSUME NEW w \in Workers, CreateWorker(w)  PROVE BenchTypeOK'
  BY <1>0, <1>1 DEF CreateWorker
<1>2. CASE CreateFails \/ MainPush \/ MainPushFailed \/ MainClose \/ MainClosed \/ MainReport
  BY <1>0, <1>2 DEF CreateFails, MainPush, MainPushFailed, MainClose, MainClosed, MainReport
<1>3. CASE MainPushed
  BY <1>0, <1>3 DEF MainPushed, CallsAgree
<1>4. ASSUME NEW w \in Workers, WorkerPop(w) \/ WorkerExit(w)  PROVE BenchTypeOK'
  BY <1>0, <1>4 DEF WorkerPop, WorkerExit
<1>5. ASSUME NEW w \in Workers, WorkerProcess(w)  PROVE BenchTypeOK'
  <2>1. w \in InHand
    BY <1>5 DEF WorkerProcess, InHand
  <2>2. contexts[w] \in worker_context_t /\ call[w].item \in Item
    BY <1>0, <2>1
  <2>3. /\ Processed(contexts[w], call[w].item) \in worker_context_t
        /\ NotProcessed(contexts[w]) \in worker_context_t
    BY <2>2, ContextTypes
  <2>4. contexts' \in [Workers -> worker_context_t]
    BY <1>0, <1>5, <2>3 DEF WorkerProcess
  <2> QED BY <1>0, <1>5, <2>4 DEF WorkerProcess
<1>6. ASSUME NEW t \in Threads, InQueue(t)  PROVE BenchTypeOK'
  BY <1>0, <1>6 DEF InQueue
<1>7. CASE Wakeups \/ Exited \/ UNCHANGED benchVars
  BY <1>0, <1>7 DEF Wakeups, Exited, benchVars
<1> QED
  BY <1>1, <1>2, <1>3, <1>4, <1>5, <1>6, <1>7, WorkersFinite
     DEF BenchNext, MainNext, WorkerNext

\* A new call, as the queue records it.
LEMMA InvokeFacts ==
    ASSUME QueueTypeOK, NEW t \in Threads, NEW op, NEW item, Invoke(t, op, item)
    PROVE  /\ call'[t].op = op /\ call'[t].item = item /\ call'[t].rc = "pending"
           /\ \A u \in Threads \ {t} : call'[u] = call[u]
           /\ UNCHANGED <<Contents, count>>
BY DEF Invoke, QueueTypeOK, ring, Contents

\* Program and queue stay in agreement.
LEMMA StepAgree ==
    ASSUME BenchInv, QueueInv', [BenchNext]_benchVars
    PROVE  CallsAgree'
<1>0. /\ BenchTypeOK /\ CallsAgree /\ QueueInv /\ QueueTypeOK /\ task_count \in Nat \ {0}
      /\ "main" \in Threads /\ \A w \in Workers : w \in Threads /\ w # "main"
      /\ i \in 1..(task_count + 1)
  BY WorkersFinite DEF BenchInv, QueueInv, BenchTypeOK
<1>1. ASSUME NEW w \in Workers, CreateWorker(w)  PROVE CallsAgree'
  <2>1. /\ main = "create" /\ main' \in {"create", "push"} /\ call' = call /\ i' = i
        /\ wpc[w] = "unborn" /\ wpc'[w] = "call"
        /\ \A v \in Workers \ {w} : wpc'[v] = wpc[v]
    BY <1>0, <1>1 DEF CreateWorker, queueVars, BenchTypeOK
  <2> QED BY <1>0, <2>1 DEF CallsAgree
<1>2. CASE CreateFails \/ MainPushFailed \/ MainPushed
  <2>1. /\ call["main"].rc # "pending" /\ main' \in {"exit1", "push"}
        /\ call' = call /\ wpc' = wpc
    BY <1>0, <1>2 DEF CreateFails, MainPushFailed, MainPushed, queueVars, CallsAgree
  <2> QED BY <1>0, <2>1 DEF CallsAgree
<1>3. CASE MainPush
  <2>1. /\ call'["main"].op = "push" /\ call'["main"].item = i
        /\ \A u \in Threads \ {"main"} : call'[u] = call[u]
    BY <1>0, <1>3, InvokeFacts DEF MainPush
  <2>2. i <= task_count /\ main' = "pushing" /\ i' = i /\ wpc' = wpc
    BY <1>3 DEF MainPush
  <2>3. \A w \in Workers : call'[w] = call[w]
    BY <1>0, <2>1
  <2> QED BY <1>0, <2>1, <2>2, <2>3 DEF CallsAgree
<1>4. CASE MainClose
  <2>1. /\ call'["main"].op = "close"
        /\ \A u \in Threads \ {"main"} : call'[u] = call[u]
    BY <1>0, <1>4, InvokeFacts DEF MainClose
  <2>2. i = task_count + 1 /\ main' = "closing" /\ i' = i /\ wpc' = wpc
    BY <1>0, <1>4 DEF MainClose
  <2>3. \A w \in Workers : call'[w] = call[w]
    BY <1>0, <2>1
  <2> QED BY <1>0, <2>1, <2>2, <2>3 DEF CallsAgree
<1>5. CASE MainClosed \/ MainReport
  <2>1. /\ main \in {"closing", "join"} /\ call["main"].rc # "pending"
        /\ main' \in {"join", "exit0"} /\ call' = call /\ wpc' = wpc /\ i' = i
    BY <1>0, <1>5 DEF MainClosed, MainReport, queueVars, CallsAgree
  <2> QED BY <1>0, <2>1 DEF CallsAgree
<1>6. ASSUME NEW w \in Workers, WorkerPop(w)  PROVE CallsAgree'
  <2>1. call'[w].op = "pop" /\ \A u \in Threads \ {w} : call'[u] = call[u]
    BY <1>0, <1>6, InvokeFacts DEF WorkerPop
  <2>2. /\ main' = main /\ i' = i /\ wpc'[w] = "popping"
        /\ \A v \in Workers \ {w} : wpc'[v] = wpc[v]
    BY <1>0, <1>6 DEF WorkerPop, BenchTypeOK
  <2>3. call'["main"] = call["main"] /\ \A v \in Workers \ {w} : call'[v] = call[v]
    BY <1>0, <2>1
  <2> QED BY <1>0, <2>1, <2>2, <2>3 DEF CallsAgree
<1>7. ASSUME NEW w \in Workers, WorkerProcess(w) \/ WorkerExit(w)  PROVE CallsAgree'
  <2>1. /\ main' = main /\ i' = i /\ call' = call /\ call[w].rc # "pending"
        /\ wpc'[w] \in {"call", "exited"}
        /\ \A v \in Workers \ {w} : wpc'[v] = wpc[v]
    BY <1>0, <1>7 DEF WorkerProcess, WorkerExit, queueVars, BenchTypeOK
  <2> QED BY <1>0, <2>1 DEF CallsAgree
<1>8. ASSUME NEW t \in Threads, InQueue(t)  PROVE CallsAgree'
  <2>1. UNCHANGED <<main, i, wpc>> /\ QueueStep(t)
    BY <1>8 DEF InQueue
  <2>2. CASE Inside
    BY <1>0, <2>1, <2>2 DEF Inside, CallsAgree
  <2>3. CASE /\ Pushes(t) \/ Pops(t) \/ GivesUp(t)
             /\ call[t].rc = "pending" /\ call'[t].op = call[t].op
             /\ \A u \in Threads \ {t} : call'[u] = call[u]
    <3>1. call'[t].rc # "pending" /\ \A u \in Threads : call'[u].op = call[u].op
      BY <2>3 DEF Pushes, Pops, GivesUp
    <3>2. \A u \in Threads : call'[u].rc = "pending" => call'[u] = call[u]
      BY <2>3, <3>1
    <3> QED BY <1>0, <2>1, <3>1, <3>2 DEF CallsAgree
  <2> QED BY <1>0, <2>1, <2>2, <2>3, QueueResult
<1>9. CASE Wakeups \/ Exited \/ UNCHANGED benchVars
  <2>1. UNCHANGED <<main, i, wpc, call>>
    BY <1>9 DEF Wakeups, SpuriousWake, Exited, benchVars, queueVars
  <2> QED BY <1>0, <2>1 DEF CallsAgree
<1> QED
  BY <1>0, <1>1, <1>2, <1>3, <1>4, <1>5, <1>6, <1>7, <1>8, <1>9
     DEF BenchNext, MainNext, WorkerNext
\* The contents of the ring are a sequence of count items.
LEMMA ContentsType ==
    ASSUME QueueInv
    PROVE  Contents \in Seq(Item \cup {NoItem}) /\ Len(Contents) = count
BY RingFacts DEF Contents, RingSeq, QueueInv, QueueTypeOK

\* The counters of a field.
LEMMA FieldTypes ==
    ASSUME BenchTypeOK
    PROVE  /\ [w \in Workers |-> contexts[w].tasks_completed] \in [Workers -> Nat]
           /\ [w \in Workers |-> contexts[w].allocations] \in [Workers -> Nat]
           /\ [w \in Workers |-> contexts[w].latency_count] \in [Workers -> Nat]
           /\ Total("tasks_completed") = Sum([w \in Workers |-> contexts[w].tasks_completed])
           /\ Total("allocations") = Sum([w \in Workers |-> contexts[w].allocations])
           /\ Total("latency_count") = Sum([w \in Workers |-> contexts[w].latency_count])
<1>1. ASSUME NEW w \in Workers
      PROVE  /\ contexts[w].tasks_completed \in Nat /\ contexts[w].allocations \in Nat
             /\ contexts[w].latency_count \in Nat
  BY DEF BenchTypeOK, worker_context_t
<1> QED BY <1>1 DEF Total

\* Steps that move no item keep the two parts about items.
LEMMA ItemsStay ==
    ASSUME OneHolder, Counts, UNCHANGED <<Contents, count, contexts, Pushed, InHand>>,
           \A w \in InHand : call'[w].item = call[w].item
    PROVE  OneHolder' /\ Counts'
<1>1. UNCHANGED <<Total("tasks_completed"), Total("allocations"), Done>>
  BY DEF Total, Done
<1>2. Counts'
  BY <1>1 DEF Counts
<1>3. OneHolder'
  BY DEF OneHolder
<1> QED BY <1>2, <1>3

\* The hands that hold an item are finitely many.
LEMMA InHandFinite == IsFiniteSet(InHand) /\ Cardinality(InHand) \in Nat
<1>1. InHand \in SUBSET Workers
  BY DEF InHand
<1> QED BY <1>1, WorkersFinite, FS_Subset, FS_CardinalityType

\* An item pushed is new in the ring and one more in all.
LEMMA ItemPushed ==
    ASSUME BenchInv, QueueInv', main = "pushing", call["main"].rc = "pending",
           Pushes("main"), \A u \in Threads \ {"main"} : call'[u] = call[u],
           UNCHANGED <<main, i, wpc, contexts>>
    PROVE  OneHolder' /\ Counts'
<1> DEFINE x == call["main"].item
<1>1. /\ x = i /\ Pushed = i - 1 /\ Pushed' = i /\ Pushed \in 0..task_count
      /\ i \in 1..(task_count + 1) /\ task_count \in Nat \ {0} /\ i <= task_count
      /\ Item = 1..task_count
  BY OnlyCallers, WorkersFinite DEF BenchInv, BenchTypeOK, CallsAgree, Pushed, Pushes
<1>2. /\ x \in Item \cup {NoItem} /\ x \notin 1..Pushed
      /\ \A e \in 1..Pushed : e \in 1..Pushed'
      /\ x \in 1..Pushed'
  BY <1>1
<1>3. \A w \in Workers : call'[w] = call[w]
  BY WorkersFinite
<1>4. InHand' = InHand
  BY <1>3 DEF InHand
<1>5. /\ Range(Contents') = Range(Contents) \cup {x}
      /\ IsInjective(Contents) /\ x \notin Range(Contents) => IsInjective(Contents')
  BY <1>2, ContentsType, PushFacts DEF BenchInv, Pushes
<1>6. OneHolder /\ Counts
  BY DEF BenchInv
<1> HIDE DEF x
<1>7. OneHolder'
  <2>1. /\ IsInjective(Contents') /\ \A e \in Range(Contents)' : e \in 1..Pushed'
    BY <1>2, <1>5, <1>6 DEF OneHolder
  <2>2. \A w \in InHand' : call'[w].item \in 1..Pushed' \ Range(Contents')
    BY <1>2, <1>3, <1>4, <1>5, <1>6 DEF OneHolder, InHand
  <2>3. \A w \in Workers : \A e \in contexts'[w].checksum : e \in 1..Pushed' \ Range(Contents')
    BY <1>2, <1>5, <1>6 DEF OneHolder
  <2>4. /\ \A v, w \in InHand' : v # w => call'[v].item # call'[w].item
        /\ \A w \in InHand', v \in Workers : call'[w].item \notin contexts'[v].checksum
        /\ \A v, w \in Workers :
              v # w => contexts'[v].checksum \cap contexts'[w].checksum = {}
    BY <1>3, <1>4, <1>6 DEF OneHolder, InHand
  <2> QED BY <2>1, <2>2, <2>3, <2>4 DEF OneHolder
<1>8. Counts'
  <2>1. UNCHANGED <<Total("tasks_completed"), Total("allocations"), Done>>
    BY DEF Total, Done
  <2>2. Pushed' = Pushed + 1 /\ count' = count + 1
    BY <1>1 DEF Pushes
  <2>3. /\ count \in Nat /\ Cardinality(InHand) \in Nat /\ Total("tasks_completed") \in Nat
    BY InHandFinite, FieldTypes, PartsFacts DEF BenchInv, QueueInv, QueueTypeOK
  <2> QED BY <1>4, <1>6, <2>1, <2>2, <2>3 DEF Counts
<1> QED BY <1>7, <1>8

\* A pop moves the item at the front from the ring to one worker's hands.
LEMMA ItemPopped ==
    ASSUME BenchInv, QueueInv', NEW w \in Workers, call[w].rc = "pending",
           Pops(w), \A u \in Threads \ {w} : call'[u] = call[u],
           UNCHANGED <<main, i, wpc, contexts>>
    PROVE  OneHolder' /\ Counts'
<1> DEFINE x == Head(Contents)
<1>1. OneHolder /\ Counts /\ wpc[w] = "popping"
  BY OnlyCallers DEF BenchInv
<1>2. Pushed' = Pushed
  BY WorkersFinite DEF Pushed
<1>3. /\ x \in Range(Contents) /\ IsInjective(Contents')
      /\ Range(Contents') = Range(Contents) \ {x}
  BY <1>1, ContentsType, PopFacts DEF BenchInv, Pops, OneHolder
<1>4. /\ call'[w].item = x /\ call'[w].rc = "1"
      /\ \A v \in Workers \ {w} : call'[v] = call[v]
  BY WorkersFinite DEF Pops
<1>5. w \notin InHand /\ InHand' = InHand \cup {w}
  BY <1>1, <1>4 DEF InHand
<1>6. \A v \in InHand : v # w /\ call'[v].item = call[v].item /\ v \in Workers
  BY <1>4, <1>5 DEF InHand
<1> HIDE DEF x
<1>7. OneHolder'
  <2>1. /\ IsInjective(Contents') /\ \A e \in Range(Contents)' : e \in 1..Pushed'
    BY <1>1, <1>2, <1>3 DEF OneHolder
  <2>2. x \in 1..Pushed
    BY <1>1, <1>3 DEF OneHolder
  <2>3. \A v \in InHand' : call'[v].item \in 1..Pushed' \ Range(Contents')
    BY <1>1, <1>2, <1>3, <1>4, <1>5, <1>6, <2>2 DEF OneHolder
  <2>4. \A v \in Workers : \A e \in contexts'[v].checksum : e \in 1..Pushed' \ Range(Contents')
    BY <1>1, <1>2, <1>3 DEF OneHolder
  <2>5. \A u, v \in InHand' : u # v => call'[u].item # call'[v].item
    BY <1>1, <1>3, <1>4, <1>5, <1>6 DEF OneHolder
  <2>6. \A u \in InHand', v \in Workers : call'[u].item \notin contexts'[v].checksum
    BY <1>1, <1>3, <1>4, <1>5, <1>6 DEF OneHolder
  <2>7. \A u, v \in Workers :
              u # v => contexts'[u].checksum \cap contexts'[v].checksum = {}
    BY <1>1 DEF OneHolder
  <2> QED BY <2>1, <2>3, <2>4, <2>5, <2>6, <2>7 DEF OneHolder
<1>8. Counts'
  <2>1. UNCHANGED <<Total("tasks_completed"), Total("allocations"), Done>>
    BY DEF Total, Done
  <2>2. count' = count - 1
    BY DEF Pops
  <2>3. /\ count \in Nat /\ Cardinality(InHand) \in Nat /\ Total("tasks_completed") \in Nat
    BY InHandFinite, FieldTypes, PartsFacts DEF BenchInv, QueueInv, QueueTypeOK
  <2>4. Cardinality(InHand') = Cardinality(InHand) + 1
    BY <1>5, InHandFinite, FS_AddElement
  <2> QED BY <1>1, <1>2, <2>1, <2>2, <2>3, <2>4 DEF Counts
<1> QED BY <1>7, <1>8
\* What processing an item, or failing to, does to one context.
LEMMA ProcessFacts ==
    ASSUME BenchInv, BenchTypeOK', NEW w \in Workers, WorkerProcess(w)
    PROVE  /\ w \in InHand /\ call[w].item \in Item
           /\ call[w].item \notin contexts[w].checksum
           /\ \A v \in Workers \ {w} : contexts'[v] = contexts[v]
           /\ contexts'[w].tasks_completed = contexts[w].tasks_completed + 1
           /\ contexts'[w].latency_count <= contexts[w].latency_count + 1
           /\ \/ /\ contexts'[w].checksum = contexts[w].checksum \cup {call[w].item}
                 /\ contexts'[w].allocations = contexts[w].allocations + 1
              \/ /\ contexts'[w].checksum = contexts[w].checksum
                 /\ contexts'[w].allocations = contexts[w].allocations
<1> DEFINE c == contexts[w]
           x == call[w].item
<1>1. w \in InHand
  BY DEF WorkerProcess, InHand
<1>2. x \in Item /\ x \notin c.checksum
  <2>1. x \in 1..Pushed /\ x \notin c.checksum /\ Pushed \in 0..task_count
    BY <1>1, OnlyCallers DEF BenchInv, OneHolder
  <2> QED BY <2>1, WorkersFinite
<1>3. /\ contexts \in [Workers -> worker_context_t] /\ c \in worker_context_t
      /\ c.latency_count \in Nat
  BY DEF BenchInv, BenchTypeOK, worker_context_t
<1>4. (IF LatencyFits(c) THEN 1 ELSE 0) \in {0, 1}
  OBVIOUS
<1>5. c.latency_count + (IF LatencyFits(c) THEN 1 ELSE 0) <= c.latency_count + 1
  BY <1>3, <1>4
<1>6. CASE contexts' = [contexts EXCEPT ![w] = Processed(@, x)]
  <2>1. contexts'[w] = Processed(c, x) /\ \A v \in Workers \ {w} : contexts'[v] = contexts[v]
    BY <1>3, <1>6
  <2>2. /\ Processed(c, x).checksum = Xor(c.checksum, x)
        /\ Processed(c, x).tasks_completed = c.tasks_completed + 1
        /\ Processed(c, x).allocations = c.allocations + 1
        /\ Processed(c, x).latency_count =
              c.latency_count + (IF LatencyFits(c) THEN 1 ELSE 0)
    BY DEF Processed
  <2>3. Xor(c.checksum, x) = c.checksum \cup {x}
    BY <1>2 DEF Xor
  <2> HIDE DEF c, x
  <2> QED BY <1>1, <1>2, <1>5, <2>1, <2>2, <2>3 DEF c, x
<1>7. CASE contexts' = [contexts EXCEPT ![w] = NotProcessed(@)]
  <2>1. contexts'[w] = NotProcessed(c) /\ \A v \in Workers \ {w} : contexts'[v] = contexts[v]
    BY <1>3, <1>7
  <2>2. /\ NotProcessed(c).checksum = c.checksum
        /\ NotProcessed(c).tasks_completed = c.tasks_completed + 1
        /\ NotProcessed(c).allocations = c.allocations
        /\ NotProcessed(c).latency_count =
              c.latency_count + (IF LatencyFits(c) THEN 1 ELSE 0)
    BY <1>3 DEF NotProcessed, worker_context_t
  <2> HIDE DEF c, x
  <2> QED BY <1>1, <1>2, <1>5, <2>1, <2>2 DEF c, x
<1> QED BY <1>6, <1>7 DEF WorkerProcess

\* A processed item leaves the worker's hands for its counters.
LEMMA ItemProcessed ==
    ASSUME BenchInv, BenchTypeOK', NEW w \in Workers, WorkerProcess(w)
    PROVE  OneHolder' /\ Counts'
<1> DEFINE x == call[w].item
           tasks == [v \in Workers |-> contexts[v].tasks_completed]
           tasks2 == [v \in Workers |-> contexts'[v].tasks_completed]
           allocs == [v \in Workers |-> contexts[v].allocations]
           allocs2 == [v \in Workers |-> contexts'[v].allocations]
<1>1. /\ UNCHANGED <<Contents, count, call, main, i>>
      /\ wpc'[w] = "call" /\ \A v \in Workers \ {w} : wpc'[v] = wpc[v]
  BY DEF WorkerProcess, queueVars, ring, Contents, BenchInv, BenchTypeOK
<1>2. Pushed' = Pushed /\ InHand' = InHand \ {w}
  BY <1>1 DEF Pushed, InHand
<1>3. OneHolder /\ Counts /\ w \in InHand /\ InHand \subseteq Workers
      /\ x \in 1..Pushed \ Range(Contents) /\ \A v \in Workers : x \notin contexts[v].checksum
  BY ProcessFacts DEF BenchInv, OneHolder, InHand
<1>4. /\ \A v \in Workers \ {w} : contexts'[v] = contexts[v]
      /\ contexts'[w].tasks_completed = contexts[w].tasks_completed + 1
      /\ contexts'[w].latency_count <= contexts[w].latency_count + 1
      /\ \/ /\ contexts'[w].checksum = contexts[w].checksum \cup {x}
            /\ contexts'[w].allocations = contexts[w].allocations + 1
         \/ /\ contexts'[w].checksum = contexts[w].checksum
            /\ contexts'[w].allocations = contexts[w].allocations
  BY ProcessFacts
<1> HIDE DEF x
<1>5. /\ contexts'[w].checksum \subseteq contexts[w].checksum \cup {x}
      /\ contexts[w].checksum \subseteq contexts'[w].checksum
  BY <1>4
<1>6. OneHolder'
  <2>1. /\ IsInjective(Contents') /\ \A e \in Range(Contents)' : e \in 1..Pushed'
        /\ \A v \in InHand' : call'[v].item \in 1..Pushed' \ Range(Contents')
        /\ \A u, v \in InHand' : u # v => call'[u].item # call'[v].item
    BY <1>1, <1>2, <1>3 DEF OneHolder
  <2>2. \A v \in Workers : \A e \in contexts'[v].checksum : e \in 1..Pushed' \ Range(Contents')
    <3>1. ASSUME NEW e \in contexts'[w].checksum  PROVE e \in 1..Pushed \ Range(Contents)
      BY <1>3, <1>5 DEF OneHolder
    <3> QED BY <1>1, <1>2, <1>3, <1>4, <3>1 DEF OneHolder
  <2>3. \A u \in InHand', v \in Workers : call'[u].item \notin contexts'[v].checksum
    <3> SUFFICES ASSUME NEW u \in InHand \ {w}, NEW v \in Workers
                 PROVE  call[u].item \notin contexts'[v].checksum
      BY <1>1, <1>2
    <3>1. call[u].item # x /\ call[u].item \notin contexts[v].checksum
      BY <1>3 DEF OneHolder, x
    <3> QED BY <1>4, <1>5, <3>1
  <2>4. \A u, v \in Workers :
              u # v => contexts'[u].checksum \cap contexts'[v].checksum = {}
    <3>1. ASSUME NEW v \in Workers \ {w}
          PROVE  contexts'[w].checksum \cap contexts'[v].checksum = {}
      BY <1>3, <1>4, <1>5 DEF OneHolder
    <3>2. ASSUME NEW u \in Workers \ {w}, NEW v \in Workers \ {w}, u # v
          PROVE  contexts'[u].checksum \cap contexts'[v].checksum = {}
      BY <1>3, <1>4, <3>2 DEF OneHolder
    <3> QED BY <3>1, <3>2
  <2> QED BY <2>1, <2>2, <2>3, <2>4 DEF OneHolder
<1>7. /\ \A v \in Workers : /\ contexts[v].tasks_completed \in Nat
                            /\ contexts[v].allocations \in Nat
                            /\ contexts[v].latency_count \in Nat
                            /\ contexts'[v].tasks_completed \in Nat
                            /\ contexts'[v].allocations \in Nat
                            /\ contexts'[v].latency_count \in Nat
  BY DEF BenchInv, BenchTypeOK, worker_context_t
<1>8. /\ tasks \in [Workers -> Nat] /\ tasks2 \in [Workers -> Nat]
      /\ allocs \in [Workers -> Nat] /\ allocs2 \in [Workers -> Nat]
      /\ tasks2[w] = tasks[w] + 1 /\ \A v \in Workers \ {w} : tasks2[v] = tasks[v]
      /\ allocs2[w] = contexts'[w].allocations /\ allocs[w] = contexts[w].allocations
      /\ \A v \in Workers \ {w} : allocs2[v] = allocs[v]
  BY <1>4, <1>7
<1>9. /\ Total("tasks_completed") = Sum(tasks) /\ Total("allocations") = Sum(allocs)
      /\ Total("tasks_completed")' = Sum(tasks2) /\ Total("allocations")' = Sum(allocs2)
  BY DEF Total, Sum
<1> HIDE DEF tasks, tasks2, allocs, allocs2
<1>10. Total("tasks_completed")' = Total("tasks_completed") + 1
       /\ Total("tasks_completed") \in Nat
  BY <1>8, <1>9, SumGrows, PartsFacts
<1>11. Cardinality(InHand') = Cardinality(InHand) - 1
  BY <1>2, <1>3, InHandFinite, FS_RemoveElement
<1>12. Total("allocations")' = Cardinality(Done')
  <2>1. IsFiniteSet(Done) /\ x \notin Done
    <3>1. \A v \in Workers : contexts[v].checksum \subseteq Item
      BY DEF BenchInv, BenchTypeOK, worker_context_t
    <3>2. Done \in SUBSET (1..task_count)
      BY <3>1, WorkersFinite DEF Done
    <3>3. IsFiniteSet(1..task_count)
      <4>1. 1 \in Int /\ task_count \in Int
        BY WorkersFinite
      <4> QED BY <4>1, FS_Interval
    <3> QED BY <1>3, <3>2, <3>3, FS_Subset DEF Done
  <2>2. CASE /\ contexts'[w].checksum = contexts[w].checksum \cup {x}
             /\ contexts'[w].allocations = contexts[w].allocations + 1
    <3>1. Done' = Done \cup {x}
      BY <1>4, <2>2 DEF Done
    <3>2. Cardinality(Done') = Cardinality(Done) + 1
      BY <2>1, <3>1, FS_AddElement
    <3>3. Sum(allocs2) = Sum(allocs) + 1
      BY <1>8, <2>2, SumGrows
    <3> QED BY <1>3, <1>9, <3>2, <3>3 DEF Counts
  <2>3. CASE /\ contexts'[w].checksum = contexts[w].checksum
             /\ contexts'[w].allocations = contexts[w].allocations
    <3>1. Done' = Done
      BY <1>4, <2>3 DEF Done
    <3>2. \A v \in Workers : allocs2[v] = allocs[v]
      BY <1>8, <2>3
    <3>3. allocs2 = allocs
      BY <1>8, <3>2
    <3> QED BY <1>3, <1>9, <3>1, <3>3 DEF Counts
  <2> QED BY <1>4, <2>2, <2>3
<1>13. \A v \in Workers : contexts'[v].latency_count <= contexts'[v].tasks_completed
  BY <1>3, <1>4, <1>7 DEF Counts
<1>14. count \in Nat /\ Cardinality(InHand) \in Nat
  BY InHandFinite DEF BenchInv, QueueInv, QueueTypeOK
<1>15. Counts'
  BY <1>1, <1>2, <1>3, <1>10, <1>11, <1>12, <1>13, <1>14 DEF Counts
<1> QED BY <1>6, <1>15
\* Every step keeps what is said of the items and of the counters.
LEMMA StepItems ==
    ASSUME BenchInv, QueueInv', BenchTypeOK', [BenchNext]_benchVars
    PROVE  OneHolder' /\ Counts'
<1>0. /\ BenchTypeOK /\ CallsAgree /\ QueueInv /\ QueueTypeOK /\ OneHolder /\ Counts
      /\ "main" \in Threads /\ \A w \in Workers : w \in Threads /\ w # "main"
      /\ i \in 1..(task_count + 1) /\ InHand \subseteq Workers
  BY WorkersFinite DEF BenchInv, QueueInv, BenchTypeOK, InHand
<1>1. ASSUME NEW w \in Workers, CreateWorker(w)  PROVE OneHolder' /\ Counts'
  <2>1. /\ UNCHANGED <<items, head, count, contexts, call, i>>
        /\ main = "create" /\ main' \in {"create", "push"}
        /\ wpc[w] = "unborn" /\ wpc'[w] = "call"
        /\ \A v \in Workers \ {w} : wpc'[v] = wpc[v]
    BY <1>0, <1>1 DEF CreateWorker, queueVars, ring, BenchTypeOK
  <2>2. UNCHANGED <<Contents, Pushed, InHand>>
    BY <2>1 DEF Contents, Pushed, InHand
  <2> QED BY <1>0, <2>1, <2>2, ItemsStay
<1>2. CASE CreateFails \/ MainPushed \/ MainPushFailed \/ MainClosed \/ MainReport
  <2>1. UNCHANGED <<items, head, count, contexts, call, wpc>>
    BY <1>2 DEF CreateFails, MainPushed, MainPushFailed, MainClosed, MainReport, queueVars, ring
  <2>2. Pushed' = Pushed
    BY <1>0, <1>2, <2>1
       DEF CreateFails, MainPushed, MainPushFailed, MainClosed, MainReport, Pushed
  <2>3. UNCHANGED <<Contents, InHand>>
    BY <2>1 DEF Contents, InHand
  <2> QED BY <1>0, <2>1, <2>2, <2>3, ItemsStay
<1>3. CASE MainPush \/ MainClose
  <2>1. /\ main = "push" /\ main' \in {"pushing", "closing"} /\ UNCHANGED <<i, wpc, contexts>>
        /\ \E op, item : Invoke("main", op, item)
    BY <1>3 DEF MainPush, MainClose
  <2>2. /\ call'["main"].rc = "pending" /\ UNCHANGED <<Contents, count>>
        /\ \A w \in Workers : call'[w] = call[w]
    BY <1>0, <2>1, InvokeFacts
  <2>3. UNCHANGED <<Pushed, InHand>>
    BY <2>1, <2>2 DEF Pushed, InHand
  <2> QED BY <1>0, <2>1, <2>2, <2>3, ItemsStay
<1>4. ASSUME NEW w \in Workers, WorkerPop(w)  PROVE OneHolder' /\ Counts'
  <2>1. /\ UNCHANGED <<main, i, contexts>> /\ Invoke(w, "pop", NoItem)
        /\ wpc[w] = "call" /\ \A v \in Workers \ {w} : wpc'[v] = wpc[v]
    BY <1>0, <1>4 DEF WorkerPop, BenchTypeOK
  <2>2. /\ call'[w].rc = "pending" /\ UNCHANGED <<Contents, count>>
        /\ \A u \in Threads \ {w} : call'[u] = call[u]
    BY <1>0, <2>1, InvokeFacts
  <2>3. UNCHANGED <<Pushed, InHand>>
    BY <1>0, <2>1, <2>2 DEF Pushed, InHand
  <2>4. \A v \in InHand : call'[v].item = call[v].item
    BY <1>0, <2>1, <2>2 DEF InHand
  <2> QED BY <1>0, <2>1, <2>2, <2>3, <2>4, ItemsStay
<1>5. ASSUME NEW w \in Workers, WorkerExit(w)  PROVE OneHolder' /\ Counts'
  <2>1. /\ UNCHANGED <<items, head, count, contexts, call, main, i>>
        /\ call[w].rc # "1" /\ wpc'[w] = "exited"
        /\ \A v \in Workers \ {w} : wpc'[v] = wpc[v]
    BY <1>0, <1>5 DEF WorkerExit, queueVars, ring, BenchTypeOK
  <2>2. UNCHANGED <<Contents, Pushed, InHand>>
    BY <2>1 DEF Contents, Pushed, InHand
  <2> QED BY <1>0, <2>1, <2>2, ItemsStay
<1>6. ASSUME NEW w \in Workers, WorkerProcess(w)  PROVE OneHolder' /\ Counts'
  BY <1>6, ItemProcessed
<1>7. ASSUME NEW t \in Threads, InQueue(t)  PROVE OneHolder' /\ Counts'
  <2>1. UNCHANGED <<main, i, wpc, contexts>> /\ QueueStep(t)
    BY <1>7 DEF InQueue
  <2>2. CASE Inside
    <3>1. UNCHANGED <<Contents, count, call, Pushed, InHand>>
      BY <2>1, <2>2 DEF Inside, Pushed, InHand
    <3> QED BY <1>0, <2>1, <3>1, ItemsStay
  <2>3. CASE /\ Pushes(t) \/ Pops(t) \/ GivesUp(t)
             /\ call[t].rc = "pending" /\ call'[t].op = call[t].op
             /\ \A u \in Threads \ {t} : call'[u] = call[u]
    <3>1. CASE t = "main" /\ Pushes(t)
      <4>1. main = "pushing"
        BY <1>0, <2>3, <3>1, OnlyCallers DEF Pushes, CallsAgree
      <4> QED BY <2>1, <2>3, <3>1, <4>1, ItemPushed
    <3>2. CASE t \in Workers /\ Pops(t)
      BY <2>1, <2>3, <3>2, ItemPopped
    <3>3. CASE GivesUp(t)
      <4>1. t = "main" => Pushed' = Pushed
        BY <1>0, <2>1, <2>3, <3>3, OnlyCallers DEF GivesUp, Pushed, CallsAgree
      <4>2. t # "main" => Pushed' = Pushed
        BY <1>0, <2>1, <2>3 DEF Pushed
      <4>3. \A w \in Workers : w # t => call'[w] = call[w]
        BY <1>0, <2>3
      <4>4. \A w \in Workers : w = t => /\ call[w].rc # "1" /\ call'[w].rc # "1"
        <5>1. t \in Workers => call[t].op = "pop"
          BY <1>0, <2>3 DEF CallsAgree
        <5> QED BY <2>3, <3>3, <5>1 DEF GivesUp
      <4>5. InHand' = InHand
        BY <2>1, <4>3, <4>4 DEF InHand
      <4>6. \A w \in InHand : call'[w].item = call[w].item
        BY <4>3, <4>4 DEF InHand
      <4>7. UNCHANGED <<Contents, count>>
        BY <3>3 DEF GivesUp
      <4> QED BY <1>0, <2>1, <4>1, <4>2, <4>5, <4>6, <4>7, ItemsStay
    <3>4. t = "main" => ~Pops(t)
      BY <1>0, <2>3, OnlyCallers DEF Pops, CallsAgree
    <3>5. t \in Workers => ~Pushes(t)
      BY <1>0, <2>3 DEF Pushes, CallsAgree
    <3>6. t = "main" \/ t \in Workers
      BY PthreadBenchmarkConstants
    <3> QED BY <2>3, <3>1, <3>2, <3>3, <3>4, <3>5, <3>6
  <2> QED BY <1>0, <2>1, <2>2, <2>3, QueueResult
<1>8. CASE Wakeups \/ Exited \/ UNCHANGED benchVars
  <2>1. UNCHANGED <<items, head, count, call, main, i, wpc, contexts>>
    BY <1>8 DEF Wakeups, SpuriousWake, Exited, benchVars, queueVars, ring
  <2>2. UNCHANGED <<Contents, Pushed, InHand>>
    BY <2>1 DEF Contents, Pushed, InHand
  <2> QED BY <1>0, <2>1, <2>2, ItemsStay
<1> QED
  BY <1>0, <1>1, <1>2, <1>3, <1>4, <1>5, <1>6, <1>7, <1>8
     DEF BenchNext, MainNext, WorkerNext

\* In the initial state nothing has been pushed or counted.
LEMMA InitBench == BenchInit => BenchInv
<1> SUFFICES ASSUME BenchInit PROVE BenchInv
  OBVIOUS
<1>1. QueueInv
  BY InitQueue DEF BenchInit
<1>2. /\ main = "create" /\ i = 1 /\ count = 0
      /\ \A w \in Workers : wpc[w] = "unborn" /\ contexts[w].checksum = {}
      /\ \A t \in Threads : call[t].rc = "0"
      /\ \A w \in Workers : /\ contexts[w].tasks_completed = 0
                            /\ contexts[w].allocations = 0 /\ contexts[w].latency_count = 0
  BY DEF BenchInit, QueueInit
<1>3. BenchTypeOK
  BY WorkersFinite DEF BenchInit, BenchTypeOK, MainPoints, WorkerPoints, worker_context_t
<1>4. CallsAgree
  BY <1>2, WorkersFinite DEF CallsAgree
<1>5. InHand = {} /\ Pushed = 0 /\ Done = {} /\ Contents = <<>>
  <2>1. Done = {}
    BY <1>2 DEF Done
  <2>2. Contents = <<>>
    BY <1>2 DEF Contents
  <2> QED BY <1>2, <2>1, <2>2 DEF InHand, Pushed
<1>6. OneHolder
  <2>1. IsInjective(<<>>) /\ Range(<<>>) = {}
    BY DEF IsInjective, Range
  <2> QED BY <1>2, <1>5, <2>1 DEF OneHolder
<1>7. Counts
  <2>1. Total("tasks_completed") = 0
    <3> DEFINE n == [w \in Workers |-> contexts[w].tasks_completed]
    <3>1. n \in [Workers -> Nat] /\ (\A w \in Workers : n[w] = 0) /\ Total("tasks_completed") = Sum(n)
      BY <1>2, <1>3, FieldTypes
    <3> HIDE DEF n
    <3> QED BY <3>1, SumZero
  <2>2. Total("allocations") = 0
    <3> DEFINE n == [w \in Workers |-> contexts[w].allocations]
    <3>1. n \in [Workers -> Nat] /\ (\A w \in Workers : n[w] = 0) /\ Total("allocations") = Sum(n)
      BY <1>2, <1>3, FieldTypes
    <3> HIDE DEF n
    <3> QED BY <3>1, SumZero
  <2> QED BY <1>2, <1>5, <2>1, <2>2, FS_EmptySet DEF Counts
<1> QED BY <1>1, <1>3, <1>4, <1>6, <1>7 DEF BenchInv

\* The invariant holds in every state of the program.
LEMMA BenchInvariant == BenchSpec => []BenchInv
<1>1. BenchInit => BenchInv
  BY InitBench
<1>2. BenchInv /\ [BenchNext]_benchVars => BenchInv'
  <2> SUFFICES ASSUME BenchInv, [BenchNext]_benchVars PROVE BenchInv'
    OBVIOUS
  <2>1. QueueInv'
    BY BenchUsesQueue, StepQueue DEF BenchInv
  <2>2. BenchTypeOK'
    BY StepBenchType
  <2>3. CallsAgree'
    BY <2>1, StepAgree
  <2>4. OneHolder' /\ Counts'
    BY <2>1, <2>2, StepItems
  <2> QED BY <2>1, <2>2, <2>3, <2>4 DEF BenchInv
<1> QED BY <1>1, <1>2, PTL DEF BenchSpec
-----------------------------------------------------------------------------
\* Every item that was pushed is in the ring, in one worker's hands or counted
\* by one, whatever calls fail and however the threads take turns.
THEOREM TasksAreConserved == BenchSpec => []TasksConserved
<1>1. BenchInv => TasksConserved
  BY DEF BenchInv, OneHolder, Counts, TasksConserved, Pushed
<1> QED BY <1>1, BenchInvariant, PTL

\* The latencies that main copies fit in its buffer of task_count.
THEOREM LatenciesAlwaysFit == BenchSpec => []LatenciesFit
<1>1. ASSUME BenchInv  PROVE LatenciesFit
  <2> DEFINE n == [w \in Workers |-> contexts[w].latency_count]
             m == [w \in Workers |-> contexts[w].tasks_completed]
  <2>1. /\ n \in [Workers -> Nat] /\ m \in [Workers -> Nat]
        /\ Total("latency_count") = Sum(n) /\ Total("tasks_completed") = Sum(m)
        /\ \A w \in Workers : n[w] <= m[w]
    BY <1>1, FieldTypes DEF BenchInv, Counts
  <2> HIDE DEF n, m
  <2>2. Sum(n) <= Sum(m) /\ Sum(n) \in Nat /\ Sum(m) \in Nat
    BY <2>1, SumBelow, PartsFacts
  <2>3. /\ count + Cardinality(InHand) + Sum(m) = Pushed
        /\ count \in Nat /\ Cardinality(InHand) \in Nat
    BY <1>1, <2>1, InHandFinite DEF BenchInv, Counts, QueueInv, QueueTypeOK
  <2>4. Pushed \in 0..task_count /\ task_count \in Nat
    BY <1>1, OnlyCallers, WorkersFinite DEF BenchInv
  <2> QED BY <2>1, <2>2, <2>3, <2>4 DEF LatenciesFit
<1> QED BY <1>1, BenchInvariant, PTL

\* A program that ends with 0 and whose checksum misses an item prints a total
\* that is short.
THEOREM LossesAreVisible == BenchSpec => []LossIsVisible
<1>1. ASSUME BenchInv  PROVE LossIsVisible
  <2> SUFFICES ASSUME ~(Total("allocations") < task_count)
               PROVE  Report.checksum = Item
    BY DEF LossIsVisible, Report
  <2>1. task_count \in Nat /\ Item = 1..task_count
    BY WorkersFinite
  <2>2. /\ \A w \in Workers : contexts[w].checksum \subseteq Item
        /\ Total("allocations") = Cardinality(Done) /\ Total("allocations") \in Nat
        /\ \A v, w \in Workers :
              v # w => contexts[v].checksum \cap contexts[w].checksum = {}
    BY <1>1, FieldTypes, PartsFacts DEF BenchInv, BenchTypeOK, worker_context_t, Counts, OneHolder
  <2>3. IsFiniteSet(Item) /\ Cardinality(Item) = task_count
    <3>1. 1 \in Int /\ task_count \in Int
      BY <2>1
    <3>2. IsFiniteSet(1..task_count)
          /\ Cardinality(1..task_count) = IF 1 > task_count THEN 0 ELSE task_count - 1 + 1
      BY <3>1, FS_Interval
    <3> QED BY <2>1, <3>2, WorkersFinite
  <2>4. Done \in SUBSET Item
    BY <2>2 DEF Done
  <2>5. Done = Item
    <3>1. Cardinality(Done) <= Cardinality(Item) /\ (Cardinality(Item) = Cardinality(Done) => Item = Done)
      BY <2>3, <2>4, FS_Subset
    <3> QED BY <2>1, <2>2, <2>3, <3>1
  <2>6. ASSUME NEW item \in Item
        PROVE  Cardinality({w \in Workers : item \in contexts[w].checksum}) % 2 = 1
    <3>1. PICK w \in Workers : item \in contexts[w].checksum
      BY <2>5 DEF Done
    <3>2. {v \in Workers : item \in contexts[v].checksum} = {w}
      BY <2>2, <3>1
    <3>3. Cardinality({w}) = 1
      BY FS_Singleton
    <3>4. 1 % 2 = 1
      OBVIOUS
    <3> QED BY <3>2, <3>3, <3>4
  <2> QED BY <2>6 DEF Report
<1> QED BY <1>1, BenchInvariant, PTL
=============================================================================
