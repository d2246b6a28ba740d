---------------------------- MODULE MCJobHistory ----------------------------
(***************************************************************************)
(* A small instance of the store and of a client that reads its history:   *)
(* two jobs, two request kinds.                                            *)
(***************************************************************************)
EXTENDS JobHistory, TLC

CONSTANTS small, large

MCCost == (small :> 1) @@ (large :> 2)

(* Mark a job and hide it.                                                   *)
MCChanges == {[favorite |-> "set", hidden |-> "set"]}
=============================================================================
