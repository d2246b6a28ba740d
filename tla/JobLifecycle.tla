---------------------------- MODULE JobLifecycle ----------------------------
(***************************************************************************)
(* What a durable job promises to the client that submitted it, with no    *)
(* worker, process, handler or database in sight: the lifecycle of         *)
(* ImageJobStatus (crates/core/src/job.rs) together with the paid call     *)
(* behind it.  JobManager implements this module.                          *)
(*                                                                         *)
(*   - a job is accepted, starts, and settles, in this order, once;        *)
(*   - its paid call happens at most once, while the job is running;       *)
(*   - it succeeds only when the call was made;                            *)
(*   - it ends cancelled only when somebody asked for it;                  *)
(*   - a settled job never changes its verdict, it can only be forgotten.  *)
(*                                                                         *)
(* A step may move several jobs, as a restart does.                        *)
(***************************************************************************)
EXTENDS Naturals

CONSTANT Ids

VARIABLES
  state,   \* the status a client would read
  asked,   \* cancellation was requested
  paid     \* calls of the provider runtime made for the job

State == {"absent", "queued", "running", "succeeded", "failed", "cancelled",
          "interrupted", "pruned"}
Verdicts == {"succeeded", "failed", "cancelled", "interrupted"}

LifecycleInit ==
  /\ state = [id \in Ids |-> "absent"]
  /\ asked = [id \in Ids |-> FALSE]
  /\ paid  = [id \in Ids |-> 0]

Keeps(id, f) == f'[id] = f[id]
Becomes(id, from, to) == state[id] = from /\ state'[id] = to

Accept(id)   == Becomes(id, "absent", "queued") /\ Keeps(id, asked) /\ Keeps(id, paid)
Start(id)    == Becomes(id, "queued", "running") /\ ~asked[id] /\ Keeps(id, asked) /\ Keeps(id, paid)
Withdraw(id) == Becomes(id, "queued", "cancelled") /\ asked'[id] /\ Keeps(id, paid)
Ask(id)      == Becomes(id, "running", "running") /\ asked'[id] /\ Keeps(id, paid)
Pay(id) ==
  /\ Becomes(id, "running", "running")
  /\ paid[id] = 0 /\ paid'[id] = 1
  /\ Keeps(id, asked)
Settle(id, verdict) ==
  /\ Becomes(id, "running", verdict)
  /\ verdict = "succeeded" => paid[id] = 1
  /\ verdict = "cancelled" => asked[id]
  /\ Keeps(id, asked) /\ Keeps(id, paid)
Forget(id) ==
  /\ state[id] \in Verdicts /\ state'[id] = "pruned"
  /\ Keeps(id, paid)

Step(id) ==
  \/ Accept(id) \/ Start(id) \/ Withdraw(id) \/ Ask(id) \/ Pay(id)
  \/ \E verdict \in Verdicts : Settle(id, verdict)
  \/ Forget(id)
  \/ Keeps(id, state) /\ Keeps(id, asked) /\ Keeps(id, paid)

LifecycleNext ==
  /\ state' \in [Ids -> State]
  /\ asked' \in [Ids -> BOOLEAN]
  /\ paid' \in [Ids -> Nat]
  /\ \A id \in Ids : Step(id)

LifecycleSpec == LifecycleInit /\ [][LifecycleNext]_<<state, asked, paid>>
=============================================================================
