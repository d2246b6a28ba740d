--------------------------- MODULE MCOrchestrator ---------------------------
(***************************************************************************)
(* A small instance of Orchestrator for TLC.                               *)
(***************************************************************************)
EXTENDS Orchestrator, TLC

CONSTANTS c1, c2, p1, p2

MCRoutes == (c1 :> <<p1, p1>>) @@ (c2 :> <<p1, p2>>)
MCPolicy == (c1 :> "on_error") @@ (c2 :> "on_unavailable")
MCDiscovery == {Known("authentication")}
MCProvider  == {Known("upstream"), Unknown("upstream"), Known("timeout")}
MCOutput    == {Known("artifact")}
NoFaults    == {}
=============================================================================
