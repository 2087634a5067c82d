------------------------- MODULE MCPthreadBenchmark -------------------------
(***************************************************************************)
(* Small instances of PthreadBenchmark.                                    *)
(***************************************************************************)
EXTENDS PthreadBenchmark

CONSTANTS w1, w2, w3

TwoAndMain == {w1, w2, "main"}
ThreeAndMain == {w1, w2, w3, "main"}
Three == 1..3
=============================================================================
