--------------------------- MODULE MCStallReasons ---------------------------
(***************************************************************************)
(* Pipeline with a history variable that remembers the counters at the     *)
(* start of the current cycle, to state what README.md says of every cycle *)
(* that produces no output.                                                *)
(***************************************************************************)
EXTENDS MCPipeline, FiniteSetsExt

VARIABLE mark   \* completed operations and stalls counted before this cycle

Stalls == MapThenSumSet(LAMBDA r : stats.stall_counts[r], StallReason)

MarkInit == Init /\ mark = [completed |-> 0, stalls |-> 0]

MarkNext ==
    /\ Next
    /\ mark' = IF phase = "loop"
               THEN [completed |-> stats.completed_ops, stalls |-> Stalls]
               ELSE mark

MarkSpec == MarkInit /\ [][MarkNext]_<<vars, mark>>

\* README.md:24, "Every cycle that doesn't produce output gets a named stall
\* reason", in its narrowest reading: an instruction was ready to issue and is
\* still waiting at the end of the cycle, no instruction retired in it, and so
\* some counter of stall_counts went up in it.
IdleCycleIsNamed ==
    (/\ phase = "account" /\ ready_q # <<>>
     /\ stats.completed_ops = mark.completed)
        => Stalls > mark.stalls

TwoPrograms == TwoBackward({"Compute"}, {2})
NarrowIssue == {Config(2, 1, 2, 1, 2, 2)}
=============================================================================
