-------------------------- MODULE MCQueryExecution --------------------------
(***************************************************************************)
(* Instances of QueryExecution for TLC: the cfg files give the requests,   *)
(* the faults and the two bounds (NumStatements, MaxCrashes).              *)
(***************************************************************************)
EXTENDS QueryExecution

=============================================================================
