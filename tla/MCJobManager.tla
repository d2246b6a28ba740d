---------------------------- MODULE MCJobManager ----------------------------
(***************************************************************************)
(* Small instances of JobManager for TLC.  Job ids and clients are         *)
(* interchangeable; symmetry is used for the safety runs only.             *)
(***************************************************************************)
EXTENDS JobManager, TLC

Symmetry == Permutations(Ids) \cup Permutations(Clients)
=============================================================================
