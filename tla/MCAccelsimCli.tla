--------------------------- MODULE MCAccelsimCli ----------------------------
(***************************************************************************)
(* Three workloads.  Either the one that does not parse is missing and the *)
(* other two are good, or the second is missing and the last throws.       *)
(***************************************************************************)
EXTENDS AccelsimCli

MCWorkloads == <<"compute", "memory", "malformed">>
MCMissing == {{"malformed"}, {"memory"}}
=============================================================================
