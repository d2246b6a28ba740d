---------------------------- MODULE MCAppServer ----------------------------
(***************************************************************************)
(* A small instance of AppServer for TLC: two calls of one session, or an  *)
(* isolated call or one with a thread of its own beside a readiness check. *)
(***************************************************************************)
EXTENDS AppServer, TLC

CONSTANTS c1, c2, k1

R(mode, key) == [mode |-> mode, key |-> key]

MCRequests == {c1 :> R("persistent", k1) @@ c2 :> R("persistent", k1),
               c1 :> R("isolated", None) @@ c2 :> R("ready", None),
               c1 :> R("thread", None) @@ c2 :> R("ready", None)}
=============================================================================
