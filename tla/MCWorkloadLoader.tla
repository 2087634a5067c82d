-------------------------- MODULE MCWorkloadLoader --------------------------
(***************************************************************************)
(* Files of up to three lines: blank lines, headers, rows with and without *)
(* dependencies on each other, on nothing and on ids that do not exist,    *)
(* and one row for each exception.  A row with id 0 lets a dependency      *)
(* spelled "00" exist.                                                     *)
(***************************************************************************)
EXTENDS WorkloadLoader, SequencesExt

Column(tokens, separators) == [tokens |-> tokens, separators |-> separators]
Plain == Column(<<NoText>>, <<>>)

DepsColumns ==
    {Plain, Column(<<0>>, <<>>), Column(<<1>>, <<>>), Column(<<9>>, <<>>),
     Column(<<1, 2>>, <<"|">>), Column(<<2, 1>>, <<";">>),
     Column(<<0, NoText>>, <<"|">>), Column(<<BadText>>, <<>>),
     Column(<<OtherZero, 0>>, <<";">>),
     Column(<<2, 1, 9>>, <<"|", ";">>), Column(<<NoText, 1, 2>>, <<";", "|">>)}

MCRow(cols, id, op, latency, bytes, deps) ==
    [cols |-> cols, id |-> id, op |-> op, latency |-> latency,
     memory_bytes |-> bytes, deps |-> deps]

Rows ==
    {MCRow(5, id, "LOAD", latency, 0, deps) :
        id \in {1, 2}, latency \in {0, 7}, deps \in DepsColumns}
    \cup {MCRow(5, 0, "LOAD", 7, 0, Plain), MCRow(4, 2, "STORE", 4, 0, Plain), MCRow(3, 1, "COMPUTE", 1, 0, Plain),
          MCRow(5, BadText, "COMPUTE", 1, 0, Plain), MCRow(5, 1, "FENCE", 1, 0, Plain),
          MCRow(5, 1, "COMPUTE", BadText, 0, Plain),
          MCRow(5, 1, "COMPUTE", 1, BadText, Plain)}

MCFiles == BoundedSeq(Rows \cup {Blank, Header}, 3)
=============================================================================
