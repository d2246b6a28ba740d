----------------------------- MODULE MCArtifacts -----------------------------
(***************************************************************************)
(* A small instance of Artifacts for TLC: two requests for one file name,  *)
(* or one of two outputs with metadata beside another.                     *)
(***************************************************************************)
EXTENDS Artifacts, TLC

CONSTANTS r1, r2, f

Want1(filename, collision, with) ==
  [outputs |-> 1, filename |-> filename, collision |-> collision, sidecar |-> with]

MCWants == {r1 :> Want1(f, "error", TRUE) @@ r2 :> Want1(f, "suffix", FALSE),
            r1 :> [Want1(None, "error", TRUE) EXCEPT !.outputs = 2]
              @@ r2 :> Want1(f, "error", FALSE)}
=============================================================================
