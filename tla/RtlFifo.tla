------------------------------ MODULE RtlFifo -------------------------------
(***************************************************************************)
(* cad_flow/rtl/fifo.sv.  A step is a rising clock edge with the values of *)
(* push, pop and data_in at that edge, or a reset.  reply is what the      *)
(* user sees of the edge: whether the push was taken (not full), and       *)
(* data_out if the pop was (not empty).                                    *)
(***************************************************************************)
EXTENDS Naturals, Sequences

CONSTANTS
    Item,      \* the values of data_in
    DEPTH

\* $clog2
clog2(n) == CHOOSE k \in 0..n : 2^k >= n /\ (k = 0 \/ 2^(k - 1) < n)

\* The number of values of a pointer and of count.
PtrValues == 2^clog2(DEPTH)
CountValues == 2^clog2(DEPTH + 1)

\* The pointers wrap by themselves, so that the design is a fifo only for a
\* DEPTH that is a power of two, which it does not check; it is used with its
\* default of 4.  That count has room for DEPTH is the meaning of $clog2.
RtlFifoConstants ==
    /\ Item # {} /\ DEPTH \in Nat \ {0, 1}
    /\ DEPTH = PtrValues
    /\ CountValues \in Nat /\ CountValues > DEPTH

VARIABLES mem, rd_ptr, wr_ptr, count, reply

vars == <<mem, rd_ptr, wr_ptr, count, reply>>

NoReply == [pushed |-> FALSE, popped |-> <<>>]

full == count = DEPTH
empty == count = 0
data_out == mem[rd_ptr]

\* After the first reset; mem has no reset.
Init ==
    /\ mem \in [0..(DEPTH - 1) -> Item]
    /\ rd_ptr = 0 /\ wr_ptr = 0 /\ count = 0 /\ reply = NoReply

Reset ==
    /\ rd_ptr' = 0 /\ wr_ptr' = 0 /\ count' = 0 /\ reply' = NoReply
    /\ UNCHANGED mem

NextPtr(p) == (p + 1) % PtrValues

\* Mutant: two separate statements, the second of which wins.
NextCount_LastWins(pushes, pops) ==
    IF pops THEN count - 1 ELSE IF pushes THEN count + 1 ELSE count

\* A push and a pop at the same edge leave count as it is.
NextCount(pushes, pops) ==
    IF pushes /\ ~pops THEN (count + 1) % CountValues
    ELSE IF pops /\ ~pushes THEN count - 1
    ELSE count

\* posedge clk, out of reset.
Clock(push, pop, data_in) ==
    LET pushes == push /\ ~full
        pops   == pop /\ ~empty IN
    /\ mem' = IF pushes THEN [mem EXCEPT ![wr_ptr] = data_in] ELSE mem
    /\ wr_ptr' = IF pushes THEN NextPtr(wr_ptr) ELSE wr_ptr
    /\ rd_ptr' = IF pops THEN NextPtr(rd_ptr) ELSE rd_ptr
    /\ count' = NextCount(pushes, pops)
    /\ reply' = [pushed |-> pushes, popped |-> IF pops THEN <<data_out>> ELSE <<>>]

Next ==
    \/ \E push, pop \in BOOLEAN, data_in \in Item : Clock(push, pop, data_in)
    \/ Reset

Spec == Init /\ [][Next]_vars
-----------------------------------------------------------------------------
\* The words between the pointers, oldest first.
Contents == [k \in 1..count |-> mem[(rd_ptr + k - 1) % DEPTH]]

Fifo == INSTANCE NonblockingFifo WITH contents <- Contents, Capacity <- DEPTH

\* The design is a bounded FIFO at every clock edge: with a push and a pop at
\* the same edge, on a full and on an empty fifo too, with a reset between any
\* two edges, and after the pointers have wrapped.
RtlIsFifo == Fifo!Spec
=============================================================================
