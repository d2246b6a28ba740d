------------------------------ MODULE MCHandoff ------------------------------
(***************************************************************************)
(* A small instance of Handoff for TLC.                                    *)
(***************************************************************************)
EXTENDS Handoff, TLC
=============================================================================
