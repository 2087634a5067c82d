----------------------------- MODULE MCDevices ------------------------------
(***************************************************************************)
(* The firmware ring buffer, the RTL fifo and the fixed-point filter, none *)
(* of which knows of the others: a behaviour runs one of them, and the     *)
(* other two stay in an initial state.                                     *)
(***************************************************************************)
EXTENDS Integers, Sequences

CONSTANTS Item, FW_RING_BUFFER_CAPACITY, DEPTH, half, one, Inputs, Alphas

\* Samples at the limits of the type, around zero and in between; every weight.
MCInputs == {-half, 1 - half, -50, -16, -1, 0, 1, 7, 100, half - 1}
MCAlphas == 0..one

VARIABLES
    device,
    data, head, tail, count, reply,          \* the ring buffer
    mem, rd_ptr, wr_ptr, words, answer,      \* the fifo
    alpha_, state_, lo, hi                   \* the filter

ringVars   == <<data, head, tail, count, reply>>
rtlVars    == <<mem, rd_ptr, wr_ptr, words, answer>>
filterVars == <<alpha_, state_, lo, hi>>

Ring   == INSTANCE FwRingBuffer
Rtl    == INSTANCE RtlFifo WITH count <- words, reply <- answer
Filter == INSTANCE FixedPointFilter

ASSUME DeviceConstants ==
    Ring!FwRingBufferConstants /\ Rtl!RtlFifoConstants /\ Filter!FilterConstants

RingRests   == Ring!Init /\ \E v \in Item : data = [k \in Ring!Slots |-> v]
RtlRests    == Rtl!Init /\ \E v \in Item : mem = [k \in DOMAIN mem |-> v]
FilterRests == Filter!Init /\ alpha_ = CHOOSE alpha \in Alphas : TRUE

DevicesInit ==
    \/ device = "ring" /\ Ring!Init /\ RtlRests /\ FilterRests
    \/ device = "rtl" /\ Rtl!Init /\ RingRests /\ FilterRests
    \/ device = "filter" /\ Filter!Init /\ RingRests /\ RtlRests

RingStep ==
    device = "ring" /\ Ring!Next /\ UNCHANGED <<device, rtlVars, filterVars>>
RtlStep ==
    device = "rtl" /\ Rtl!Next /\ UNCHANGED <<device, ringVars, filterVars>>
FilterStep ==
    device = "filter" /\ Filter!Next /\ UNCHANGED <<device, ringVars, rtlVars>>

DevicesNext == RingStep \/ RtlStep \/ FilterStep

DevicesSpec == DevicesInit /\ [][DevicesNext]_<<device, ringVars, rtlVars, filterVars>>

\* The ring of ring_buffer.cpp is a bounded FIFO, wherever its indices are and
\* whatever refused calls and re-initialisations came before.
RingIsFifo == Ring!RingIsFifo

\* fifo.sv is one too, with a push and a pop at the same clock edge and resets
\* between any two edges.
RtlIsFifo == Rtl!RtlIsFifo

\* The filter of fixed_point_filter.cpp stays in the range of its inputs up to
\* a bounded rounding error, and never overflows.
StaysInRange == Filter!StaysInRange
=============================================================================
