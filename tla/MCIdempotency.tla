--------------------------- MODULE MCIdempotency ---------------------------
(***************************************************************************)
(* A small instance of Idempotency for TLC.                                *)
(***************************************************************************)
EXTENDS Idempotency, TLC

Symmetry == Permutations(Callers) \cup Permutations(Keys) \cup Permutations(Prints)
=============================================================================
