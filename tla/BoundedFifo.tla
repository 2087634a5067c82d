----------------------------- MODULE BoundedFifo -----------------------------
(***************************************************************************)
(* What pthread_queue.h promises its callers: push, pop and close act on a *)
(* bounded first-in first-out queue, each at one instant between the call  *)
(* and its return, and a push or pop that cannot act yet waits.            *)
(***************************************************************************)
EXTENDS Naturals, Sequences

CONSTANTS
    Threads, Item,
    NoItem,      \* the item of a call that has none
    Capacity,
    Faults       \* whether a pthread call may return an error

VARIABLES
    fifo, closed,
    call         \* each thread's call: pending, or its last one's result

fifoVars == <<fifo, closed, call>>

\* pop returns 1 with an item and 0 without one; push returns 0 if it acted.
Calls ==
    [op : {"none", "push", "pop", "close"}, item : Item \cup {NoItem},
     rc : {"pending", "0", "1", "ECANCELED", "error"}]

Pending(t, op) == call[t].op = op /\ call[t].rc = "pending"

Result(t, item, rc) ==
    call' = [call EXCEPT ![t] = [op |-> call[t].op, item |-> item, rc |-> rc]]

FifoInit ==
    /\ fifo = <<>> /\ closed = FALSE
    /\ call = [t \in Threads |-> [op |-> "none", item |-> NoItem, rc |-> "0"]]

Request(t, op, item) ==
    /\ call[t].rc # "pending"
    /\ call' = [call EXCEPT ![t] = [op |-> op, item |-> item, rc |-> "pending"]]
    /\ UNCHANGED <<fifo, closed>>

FifoPush(t) ==
    /\ Pending(t, "push") /\ ~closed /\ Len(fifo) < Capacity
    /\ fifo' = Append(fifo, call[t].item)
    /\ Result(t, NoItem, "0")
    /\ UNCHANGED closed

FifoCancel(t) ==
    /\ Pending(t, "push") /\ closed
    /\ Result(t, NoItem, "ECANCELED")
    /\ UNCHANGED <<fifo, closed>>

\* What was queued before the close is still delivered after it.
FifoPop(t) ==
    /\ Pending(t, "pop") /\ fifo # <<>>
    /\ fifo' = Tail(fifo)
    /\ Result(t, Head(fifo), "1")
    /\ UNCHANGED closed

FifoPopClosed(t) ==
    /\ Pending(t, "pop") /\ fifo = <<>> /\ closed
    /\ Result(t, NoItem, "0")
    /\ UNCHANGED <<fifo, closed>>

FifoClose(t) ==
    /\ Pending(t, "close")
    /\ closed' = TRUE
    /\ Result(t, NoItem, "0")
    /\ UNCHANGED fifo

\* A call that fails has no effect.
FifoFail(t) ==
    /\ Faults /\ call[t].rc = "pending"
    /\ Result(t, NoItem, "error")
    /\ UNCHANGED <<fifo, closed>>

FifoNext ==
    \E t \in Threads :
        \/ \E item \in Item : Request(t, "push", item)
        \/ Request(t, "pop", NoItem) \/ Request(t, "close", NoItem)
        \/ FifoPush(t) \/ FifoCancel(t) \/ FifoPop(t) \/ FifoPopClosed(t)
        \/ FifoClose(t) \/ FifoFail(t)

FifoSpec == FifoInit /\ [][FifoNext]_fifoVars
=============================================================================
