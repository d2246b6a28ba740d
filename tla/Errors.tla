------------------------------- MODULE Errors -------------------------------
(***************************************************************************)
(* Errors of the bridge as the runtime tells them apart: the stable code   *)
(* and whether details.outcome is "unknown" (the upstream may have done    *)
(* the work).  crates/core/src/error.rs, and the three places of the       *)
(* runtime that classify an error.                                         *)
(***************************************************************************)

ErrorCode ==
  {"invalid_request", "unsupported_capability", "configuration", "authentication",
   "permission_denied", "safety_rejected", "rate_limited", "overloaded", "timeout",
   "cancelled", "upstream", "protocol", "input", "artifact", "session",
   "idempotency_conflict", "internal"}

Error == [code : ErrorCode, unknown : BOOLEAN]
Known(code)   == [code |-> code, unknown |-> FALSE]
Unknown(code) == [code |-> code, unknown |-> TRUE]

Policies == {"on_unavailable", "on_error"}

(* should_fallback(): may a failed route be followed by the next one?        *)
ShouldFallback(error, policy) ==
  /\ ~error.unknown
  /\ \/ error.code \in {"configuration", "authentication", "unsupported_capability",
                        "rate_limited", "overloaded"}
     \/ /\ policy = "on_error"
        /\ error.code \in {"upstream", "protocol", "artifact", "input", "internal"}

(* counts_as_failure(): is an error evidence against the provider?           *)
CountsAsFailure(error) ==
  error.code \in {"rate_limited", "overloaded", "timeout", "upstream", "protocol"}

(* An answer after which nobody knows whether the work was done.             *)
Ambiguous(error) == error.unknown \/ error.code \in {"timeout", "cancelled"}

(* classify_provider_execution_result()                                      *)
Classified(error) == [error EXCEPT !.unknown = Ambiguous(error)]
=============================================================================
