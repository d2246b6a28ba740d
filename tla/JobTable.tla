------------------------------ MODULE JobTable ------------------------------
(***************************************************************************)
(* The image_jobs table of crates/runtime/src/sqlite_jobs.rs, one action   *)
(* per statement or transaction that changes it.  A row is reduced to what *)
(* the workers' correctness depends on: its lifecycle status, the durable  *)
(* cancel_requested flag and the submission key.  Timestamps, byte         *)
(* accounting, ownership scopes and gallery fields are in JobStore, which  *)
(* implements this module.                                                 *)
(*                                                                         *)
(* A row that was never inserted is "absent"; one that retention deleted   *)
(* is "pruned".  The two are kept apart because a job id is a UUIDv7 and   *)
(* is never issued twice.                                                  *)
(***************************************************************************)
EXTENDS Naturals, FiniteSets

CONSTANTS
  Ids,          \* job identifiers
  Keys,         \* submission keys (a pair of ownership scope and Idempotency-Key)
  NoKey,        \* a submission without an Idempotency-Key
  MaxPending    \* server.jobs.max_pending

ASSUME TableAssumption ==
  /\ NoKey \notin Keys
  /\ MaxPending \in Nat

VARIABLE rows   \* the durable table: it survives a crash of the process

Live     == {"queued", "running"}
Terminal == {"succeeded", "failed", "cancelled", "interrupted"}
Gone     == {"absent", "pruned"}
Row      == [status : Live \cup Terminal \cup Gone,
             cancel : BOOLEAN,
             key    : Keys \cup {NoKey}]

NoRow(s) == [status |-> s, cancel |-> FALSE, key |-> NoKey]

Status(id)   == rows[id].status
IdsIn(S)     == {id \in Ids : Status(id) \in S}
KeyTaken(k)  == \E id \in Ids : Status(id) \notin Gone /\ rows[id].key = k

TableTypeOK == rows \in [Ids -> Row]
TableInit   == rows = [id \in Ids |-> NoRow("absent")]

-----------------------------------------------------------------------------
(* The insertion of create(): the immediate transaction that looks the key  *)
(* up, counts the queued rows and inserts.  Every other outcome of create() *)
(* (replay, conflict, full) leaves the table alone.                         *)
Create(id, k) ==
  /\ Status(id) = "absent"
  /\ k # NoKey => ~KeyTaken(k)
  /\ Cardinality(IdsIn({"queued"})) < MaxPending
  /\ rows' = [rows EXCEPT ![id] = [status |-> "queued", cancel |-> FALSE, key |-> k]]

(* The single UPDATE of claim(), when it changes its row.                   *)
Claimable(id) == Status(id) = "queued" /\ ~rows[id].cancel
Claim(id) ==
  /\ Claimable(id)
  /\ rows' = [rows EXCEPT ![id].status = "running"]

(* The UPDATE of finish(), reached from succeed() and fail().               *)
Finish(id, verdict) ==
  /\ Status(id) = "running"
  /\ rows' = [rows EXCEPT ![id].status = verdict]

(* Mutant: cancellation settles a running row too.                           *)
RequestCancelAlways(id) ==
  /\ Status(id) \notin Gone
  /\ rows' = [rows EXCEPT
        ![id].status = IF @ \in Live THEN "cancelled" ELSE @,
        ![id].cancel = @ \/ Status(id) \in Live]

(* The transaction of request_cancel(): a queued row is terminal at once, a *)
(* running row is only flagged, a terminal row is left alone.               *)
RequestCancel(id) ==
  /\ Status(id) \notin Gone
  /\ rows' = [rows EXCEPT
        ![id].status = IF @ = "queued" THEN "cancelled" ELSE @,
        ![id].cancel = @ \/ Status(id) \in Live]

(* Mutants: a running row is retried; a flagged one is not recovered.        *)
RecoverRequeues ==
  rows' = [id \in Ids |->
             IF Status(id) = "running" THEN [rows[id] EXCEPT !.status = "queued"]
                                       ELSE rows[id]]
RecoverUnflagged ==
  rows' = [id \in Ids |->
             IF Status(id) = "running" /\ ~rows[id].cancel
               THEN [rows[id] EXCEPT !.status = "interrupted"]
               ELSE rows[id]]

(* recover_interrupted(): every row a previous process left running.        *)
RecoverInterrupted ==
  rows' = [id \in Ids |->
             IF Status(id) = "running" THEN [rows[id] EXCEPT !.status = "interrupted"]
                                       ELSE rows[id]]

(* prune(): deletes terminal rows.  Which of them retention selects is      *)
(* JobStore's business.                                                     *)
Prune(S) ==
  /\ S \subseteq IdsIn(Terminal)
  /\ rows' = [id \in Ids |-> IF id \in S THEN NoRow("pruned") ELSE rows[id]]

TableNext ==
  \/ \E id \in Ids, k \in Keys \cup {NoKey} : Create(id, k)
  \/ \E id \in Ids : Claim(id) \/ RequestCancel(id)
  \/ \E id \in Ids, v \in Terminal : Finish(id, v)
  \/ RecoverInterrupted
  \/ \E S \in SUBSET Ids : Prune(S)

TableSpec == TableInit /\ [][TableNext]_rows
=============================================================================
