-------------------------- MODULE NonblockingFifo ---------------------------
(***************************************************************************)
(* A bounded queue whose operations never wait: BoundedQueue of            *)
(* include/accelsim/queue.h, and what the firmware ring buffer and the RTL *)
(* fifo promise.  A request may push, pop or do both at once; each half is *)
(* accepted or refused by the state before it.  A refused half (an         *)
(* exception, false or an ignored strobe) has no effect.                   *)
(***************************************************************************)
EXTENDS Naturals, Sequences

CONSTANTS Item, Capacity

VARIABLES
    contents,   \* q_
    reply       \* the answer to the last request

NoReply == [pushed |-> FALSE, popped |-> <<>>]

full == Len(contents) >= Capacity
empty == contents = <<>>

Init == contents = <<>> /\ reply = NoReply

Request(push, pop, v) ==
    LET pushed == push /\ ~full
        popped == pop /\ ~empty IN
    /\ reply' = [pushed |-> pushed,
                 popped |-> IF popped THEN <<Head(contents)>> ELSE <<>>]
    /\ contents' = (IF popped THEN Tail(contents) ELSE contents)
                      \o (IF pushed THEN <<v>> ELSE <<>>)

Reset == contents' = <<>> /\ reply' = NoReply

Next ==
    \/ \E push, pop \in BOOLEAN, v \in Item : Request(push, pop, v)
    \/ Reset

Spec == Init /\ [][Next]_<<contents, reply>>
=============================================================================
