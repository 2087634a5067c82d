---------------------------- MODULE FwRingBuffer ----------------------------
(***************************************************************************)
(* The firmware-style ring buffer of ring_buffer.cpp: one action per       *)
(* function.  reply holds what the last push or pop returned, and *out of  *)
(* a pop that returned true.                                               *)
(***************************************************************************)
EXTENDS Naturals, Sequences

CONSTANTS
    Item,                      \* the values of uint8_t
    FW_RING_BUFFER_CAPACITY

FwRingBufferConstants ==
    Item # {} /\ FW_RING_BUFFER_CAPACITY \in Nat \ {0}

VARIABLES data, head, tail, count, reply

vars == <<data, head, tail, count, reply>>

Slots == 0..(FW_RING_BUFFER_CAPACITY - 1)
NoReply == [pushed |-> FALSE, popped |-> <<>>]

\* data is not initialised.
Init ==
    /\ data \in [Slots -> Item]
    /\ head = 0 /\ tail = 0 /\ count = 0 /\ reply = NoReply

\* fw_ring_buffer_init of a buffer in use.
fw_ring_buffer_init ==
    /\ head' = 0 /\ tail' = 0 /\ count' = 0 /\ reply' = NoReply
    /\ UNCHANGED data

fw_ring_buffer_is_empty == count = 0
fw_ring_buffer_is_full == count = FW_RING_BUFFER_CAPACITY

\* Mutant: the index wraps one slot too early.
Advance_Early(k) == (k + 1) % (IF k = 0 THEN FW_RING_BUFFER_CAPACITY
                               ELSE FW_RING_BUFFER_CAPACITY - 1)

Advance(k) == (k + 1) % FW_RING_BUFFER_CAPACITY

fw_ring_buffer_push(value) ==
    \/ /\ fw_ring_buffer_is_full
       /\ reply' = NoReply /\ UNCHANGED <<data, head, tail, count>>
    \/ /\ ~fw_ring_buffer_is_full
       /\ data' = [data EXCEPT ![tail] = value]
       /\ tail' = Advance(tail) /\ count' = count + 1
       /\ reply' = [pushed |-> TRUE, popped |-> <<>>]
       /\ UNCHANGED head

fw_ring_buffer_pop ==
    \/ /\ fw_ring_buffer_is_empty
       /\ reply' = NoReply /\ UNCHANGED <<data, head, tail, count>>
    \/ /\ ~fw_ring_buffer_is_empty
       /\ head' = Advance(head) /\ count' = count - 1
       /\ reply' = [pushed |-> FALSE, popped |-> <<data[head]>>]
       /\ UNCHANGED <<data, tail>>

Next ==
    \/ \E value \in Item : fw_ring_buffer_push(value)
    \/ fw_ring_buffer_pop
    \/ fw_ring_buffer_init

Spec == Init /\ [][Next]_vars
-----------------------------------------------------------------------------
\* The items between head and tail, oldest first.
Contents ==
    [k \in 1..count |-> data[(head + k - 1) % FW_RING_BUFFER_CAPACITY]]

Fifo == INSTANCE NonblockingFifo
            WITH contents <- Contents, Capacity <- FW_RING_BUFFER_CAPACITY

\* The ring is a bounded FIFO under every sequence of calls: after any number
\* of wrap-arounds of the two indices, and whatever a refused call or a
\* re-initialisation left in data, pops return the items pushed, in order.
RingIsFifo == Fifo!Spec
=============================================================================
