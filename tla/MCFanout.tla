------------------------------ MODULE MCFanout ------------------------------
(***************************************************************************)
(* A small instance of Fanout for TLC: one batch of two chunks, the second *)
(* half full, and one that needs a single call and a permit.               *)
(***************************************************************************)
EXTENDS Fanout, TLC

CONSTANTS b1, b2

R(n, failFast, isolated, execution) ==
  [n |-> n, failFast |-> failFast, isolated |-> isolated, execution |-> execution]
A(images, failures, model) ==
  [error |-> NoError, images |-> images, failures |-> failures, model |-> model]

MCRequests ==
  (b1 :> {R(3, TRUE, TRUE, "parallel"), R(3, TRUE, FALSE, "auto"),
           R(3, FALSE, FALSE, "auto")})
  @@ (b2 :> {R(1, TRUE, TRUE, "auto")})
MCResponses == {A({0, 1}, {}, "m1"), A({0}, {}, "m1"), A({0}, {1}, "m1"), A({0}, {}, "m2")}
MCErrors    == {Known("upstream"), Unknown("upstream")}
=============================================================================
