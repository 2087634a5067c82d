--------------------------- MODULE MCPthreadQueue ---------------------------
(***************************************************************************)
(* PthreadQueue with callers that make at most MaxCalls calls each.        *)
(***************************************************************************)
EXTENDS PthreadQueue

CONSTANTS MaxCalls, t1, t2, t3, i1, i2

VARIABLE calls

MCInit == QueueInit /\ calls = [t \in Threads |-> 0]

MCNext ==
    \E t \in Threads :
        \/ /\ calls[t] < MaxCalls /\ AnyCall(t)
           /\ calls' = [calls EXCEPT ![t] = @ + 1]
        \/ (QueueStep(t) \/ SpuriousWake(t)) /\ UNCHANGED calls

MCSpec == MCInit /\ [][MCNext]_<<queueVars, calls>>
=============================================================================
