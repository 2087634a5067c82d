---------------------------- MODULE PthreadQueue ----------------------------
(***************************************************************************)
(* The bounded work queue of pthread_queue.c: a ring buffer, a mutex and   *)
(* the condition variables not_empty and not_full, used by any number of   *)
(* threads.  As in PerfEngine, taking the mutex is a step and so is the    *)
(* critical section up to its unlock or its wait.  A thread at "wait" with *)
(* a pop is in the wait set of not_empty, with a push in that of not_full. *)
(* The state is the one pthread_work_queue_init leaves.                    *)
(***************************************************************************)
EXTENDS Naturals, Sequences, FiniteSets

CONSTANTS
    Threads, Item, NoItem, Capacity,
    Faults,     \* whether pthread_mutex_lock and pthread_cond_wait may fail
    Spurious    \* whether pthread_cond_wait may return for no reason

ASSUME PthreadQueueConstants ==
    /\ IsFiniteSet(Threads) /\ "free" \notin Threads
    /\ NoItem \notin Item
    /\ Capacity \in Nat \ {0}    \* pthread_work_queue_init returns EINVAL for 0
    /\ Faults \in BOOLEAN /\ Spurious \in BOOLEAN

VARIABLES
    items, head, tail, count, closed,
    mutex,      \* the thread that holds it, or "free"
    pc,         \* where each thread is in its call
    call,       \* each thread's arguments and result
    lock_acquisitions, contended_lock_acquisitions

ring == <<items, head, tail, count>>
counters == <<lock_acquisitions, contended_lock_acquisitions>>
queueVars == <<ring, closed, mutex, pc, call, counters>>

Slots == 0..(Capacity - 1)
Points == {"idle", "try", "lock", "check", "wait", "woken"}
Calls ==
    [op : {"none", "push", "pop", "close"}, item : Item \cup {NoItem},
     rc : {"pending", "0", "1", "ECANCELED", "error"}]

QueueInit ==
    /\ items = [k \in Slots |-> NoItem]
    /\ head = 0 /\ tail = 0 /\ count = 0 /\ closed = FALSE
    /\ mutex = "free"
    /\ pc = [t \in Threads |-> "idle"]
    /\ call = [t \in Threads |-> [op |-> "none", item |-> NoItem, rc |-> "0"]]
    /\ lock_acquisitions = 0 /\ contended_lock_acquisitions = 0
-----------------------------------------------------------------------------
\* A thread calls the queue.  Only pop goes through lock_queue and its trylock.
Invoke(t, op, item) ==
    /\ pc[t] = "idle"
    /\ call' = [call EXCEPT ![t] = [op |-> op, item |-> item, rc |-> "pending"]]
    /\ pc' = [pc EXCEPT ![t] = IF op = "pop" THEN "try" ELSE "lock"]
    /\ UNCHANGED <<ring, closed, mutex, counters>>

TryLock(t) ==
    /\ pc[t] = "try" /\ mutex = "free"
    /\ mutex' = t /\ pc' = [pc EXCEPT ![t] = "check"]
    /\ lock_acquisitions' = lock_acquisitions + 1
    /\ UNCHANGED <<ring, closed, call, contended_lock_acquisitions>>

TryBusy(t) ==
    /\ pc[t] = "try" /\ mutex # "free"
    /\ pc' = [pc EXCEPT ![t] = "lock"]
    /\ UNCHANGED <<ring, closed, mutex, call, counters>>

\* A pop is here only after EBUSY, and counts the acquisition as contended.
Lock(t) ==
    /\ pc[t] = "lock" /\ mutex = "free"
    /\ mutex' = t /\ pc' = [pc EXCEPT ![t] = "check"]
    /\ \/ /\ call[t].op = "pop"
          /\ lock_acquisitions' = lock_acquisitions + 1
          /\ contended_lock_acquisitions' = contended_lock_acquisitions + 1
       \/ call[t].op # "pop" /\ UNCHANGED counters
    /\ UNCHANGED <<ring, closed, call>>

\* The re-lock inside pthread_cond_wait, which no counter sees.
Relock(t) ==
    /\ pc[t] = "woken" /\ mutex = "free"
    /\ mutex' = t /\ pc' = [pc EXCEPT ![t] = "check"]
    /\ UNCHANGED <<ring, closed, call, counters>>

Answer(t, item, rc) ==
    call' = [call EXCEPT ![t] = [op |-> call[t].op, item |-> item, rc |-> rc]]

LockFails(t) ==
    /\ Faults /\ pc[t] \in {"try", "lock"}
    /\ Answer(t, NoItem, "error")
    /\ pc' = [pc EXCEPT ![t] = "idle"]
    /\ UNCHANGED <<ring, closed, mutex, counters>>
-----------------------------------------------------------------------------
(* With the mutex held.                                                    *)

Waiting(op) == {t \in Threads : pc[t] = "wait" /\ call[t].op = op}

\* Mutant: closing the queue does not stop the wait.
MustWait_Open(t) ==
    \/ call[t].op = "push" /\ count = Capacity
    \/ call[t].op = "pop" /\ count = 0

\* Mutant: a push waits only when the ring already holds one item too many.
MustWait_OneMore(t) ==
    /\ ~closed
    /\ \/ call[t].op = "push" /\ count > Capacity
       \/ call[t].op = "pop" /\ count = 0

\* The conditions of the two while loops.
MustWait(t) ==
    /\ ~closed
    /\ \/ call[t].op = "push" /\ count = Capacity
       \/ call[t].op = "pop" /\ count = 0

\* Mutant: a signal only when the ring was empty or full.
SignalAndReturn_AtEdge(t, op) ==
    \/ /\ (Waiting(op) = {} \/ count \notin {0, Capacity})
       /\ pc' = [pc EXCEPT ![t] = "idle"]
    \/ \E u \in Waiting(op) : /\ count \in {0, Capacity}
                              /\ pc' = [pc EXCEPT ![t] = "idle", ![u] = "woken"]

\* pthread_cond_signal wakes one waiting thread, if there is one; unlock.
SignalAndReturn(t, op) ==
    \/ Waiting(op) = {} /\ pc' = [pc EXCEPT ![t] = "idle"]
    \/ \E u \in Waiting(op) : pc' = [pc EXCEPT ![t] = "idle", ![u] = "woken"]

Wait(t) ==
    /\ pc[t] = "check" /\ MustWait(t)
    /\ pc' = [pc EXCEPT ![t] = "wait"] /\ mutex' = "free"
    /\ UNCHANGED <<ring, closed, call, counters>>

WaitFails(t) ==
    /\ Faults /\ pc[t] = "check" /\ MustWait(t)
    /\ Answer(t, NoItem, "error")
    /\ pc' = [pc EXCEPT ![t] = "idle"] /\ mutex' = "free"
    /\ UNCHANGED <<ring, closed, counters>>

PushCancelled(t) ==
    /\ pc[t] = "check" /\ ~MustWait(t) /\ call[t].op = "push" /\ closed
    /\ Answer(t, NoItem, "ECANCELED")
    /\ pc' = [pc EXCEPT ![t] = "idle"] /\ mutex' = "free"
    /\ UNCHANGED <<ring, closed, counters>>

\* Mutant: the index is not brought back to the start of the ring.
Advance_NoWrap(k) == IF k + 1 < Capacity THEN k + 1 ELSE k

Advance(k) == (k + 1) % Capacity

PushItem(t) ==
    /\ pc[t] = "check" /\ ~MustWait(t) /\ call[t].op = "push" /\ ~closed
    /\ items' = [items EXCEPT ![tail] = call[t].item]
    /\ tail' = Advance(tail)
    /\ count' = count + 1
    /\ SignalAndReturn(t, "pop")
    /\ Answer(t, NoItem, "0")
    /\ mutex' = "free"
    /\ UNCHANGED <<head, closed, counters>>

\* Mutant: a closed queue gives nothing more out.
PopClosed_AtOnce(t) ==
    /\ pc[t] = "check" /\ ~MustWait(t) /\ call[t].op = "pop" /\ closed
    /\ Answer(t, NoItem, "0")
    /\ pc' = [pc EXCEPT ![t] = "idle"] /\ mutex' = "free"
    /\ UNCHANGED <<ring, closed, counters>>

PopClosed(t) ==
    /\ pc[t] = "check" /\ ~MustWait(t) /\ call[t].op = "pop" /\ count = 0 /\ closed
    /\ Answer(t, NoItem, "0")
    /\ pc' = [pc EXCEPT ![t] = "idle"] /\ mutex' = "free"
    /\ UNCHANGED <<ring, closed, counters>>

\* Mutant: the item is read after head has been advanced.
Front_Advanced == items[Advance(head)]

Front == items[head]

\* Mutant: count is not decremented.
CountAfterPop_Same == count

CountAfterPop == count - 1

PopItem(t) ==
    /\ pc[t] = "check" /\ ~MustWait(t) /\ call[t].op = "pop" /\ count # 0
    /\ head' = Advance(head)
    /\ count' = CountAfterPop
    /\ SignalAndReturn(t, "push")
    /\ Answer(t, Front, "1")
    /\ mutex' = "free"
    /\ UNCHANGED <<items, tail, closed, counters>>

\* Mutant: only not_empty is broadcast.
Broadcast_PopOnly == Waiting("pop")

\* The threads that the two broadcasts of close wake.
Broadcast == Waiting("pop") \cup Waiting("push")

Close(t) ==
    /\ pc[t] = "check" /\ call[t].op = "close"
    /\ closed' = TRUE
    /\ pc' = [u \in Threads |-> IF u = t THEN "idle"
                                ELSE IF u \in Broadcast THEN "woken" ELSE pc[u]]
    /\ Answer(t, NoItem, "0")
    /\ mutex' = "free"
    /\ UNCHANGED <<ring, counters>>

SpuriousWake(t) ==
    /\ Spurious /\ pc[t] = "wait"
    /\ pc' = [pc EXCEPT ![t] = "woken"]
    /\ UNCHANGED <<ring, closed, mutex, call, counters>>

\* A step of thread t inside the queue that the thread itself takes.
QueueStep(t) ==
    \/ TryLock(t) \/ TryBusy(t) \/ Lock(t) \/ Relock(t) \/ LockFails(t)
    \/ Wait(t) \/ WaitFails(t) \/ PushCancelled(t) \/ PushItem(t)
    \/ PopClosed(t) \/ PopItem(t) \/ Close(t)

AnyCall(t) ==
    \/ \E item \in Item : Invoke(t, "push", item)
    \/ Invoke(t, "pop", NoItem) \/ Invoke(t, "close", NoItem)

QueueNext == \E t \in Threads : AnyCall(t) \/ QueueStep(t) \/ SpuriousWake(t)

QueueSpec == QueueInit /\ [][QueueNext]_queueVars
-----------------------------------------------------------------------------
(***************************************************************************)
(* Properties.                                                             *)
(***************************************************************************)

\* The fields of the queue and the threads' calls have the declared types.
QueueTypeOK ==
    /\ items \in [Slots -> Item \cup {NoItem}]
    /\ head \in Slots /\ tail \in Slots /\ count \in 0..Capacity
    /\ closed \in BOOLEAN
    /\ mutex \in Threads \cup {"free"}
    /\ pc \in [Threads -> Points]
    /\ call \in [Threads -> Calls]
    /\ lock_acquisitions \in Nat /\ contended_lock_acquisitions \in Nat

\* Awake and about to look at the ring again, or for the first time.
Coming(op) == {t \in Threads : pc[t] \in {"woken", "check"} /\ call[t].op = op}

\* signal wakes one thread and is enough: while a pop sleeps, every item in
\* the ring has a pop that is awake and on its way to it, while a push sleeps
\* every free slot has such a push, and after close nobody sleeps.
SignalsSuffice ==
    /\ Waiting("pop") # {} => count <= Cardinality(Coming("pop"))
    /\ Waiting("push") # {} => Capacity - count <= Cardinality(Coming("push"))
    /\ closed => Waiting("pop") \cup Waiting("push") = {}

Contents == [k \in 1..count |-> items[(head + k - 1) % Capacity]]

\* The ring buffer is the bounded FIFO that its callers count on: every call
\* acts on it at one instant, whatever the threads do around it.
Fifo == INSTANCE BoundedFifo WITH fifo <- Contents
ImplementsFifo == Fifo!FifoSpec
=============================================================================
