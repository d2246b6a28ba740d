---------------------------- MODULE ServiceProofs ----------------------------
(***************************************************************************)
(* Proofs about the two ends of a generation.  The first part is about     *)
(* JobManager, for every set of jobs and clients, every capacity and any   *)
(* number of faults.  The second is about Pipeline, for every set of       *)
(* configuration layers and every set of calls.                            *)
(***************************************************************************)
EXTENDS JobManager, Pipeline, FiniteSetTheorems, WellFoundedInduction, TLAPS

(***************************************************************************)
(* The inductive invariant.  What the properties say of a job, WorkerOwnsRow *)
(* and AtMostOnce, is not inductive: it needs who may still move the row     *)
(* (a row has one task, spawned once), which stages come before the paid     *)
(* call, and that a signal or a cancelled token stands for a recorded        *)
(* request.                                                                  *)
(***************************************************************************)
Ownership(id) ==
  /\ worker[id] \in Owning => Status(id) = "running"
  /\ id \in inserted => worker[id] = "none"
  /\ worker[id] # "none" \/ id \in inserted => Status(id) # "absent"
  /\ id \in active <=> worker[id] \in Registered
  /\ id \in partials => worker[id] \in Registered \cup {"removed"}

Payment(id) ==
  /\ calls[id] \in {0, 1}
  /\ Status(id) \in {"absent", "queued"} => calls[id] = 0
  /\ worker[id] \in {"claimed", "registered", "loaded"} => calls[id] = 0
  /\ worker[id] = "executing" => calls[id] = 1
  /\ outcome[id] \in {"ok", "succeeded"} => calls[id] = 1

Cancellation(id) ==
  /\ Status(id) \in {"absent", "queued"} => ~rows[id].cancel
  /\ id \in signalling => Status(id) \notin {"absent", "queued"}
  /\ id \in signalling /\ Status(id) = "running" => rows[id].cancel
  /\ token[id] => worker[id] \in Registered \cup {"removed"}
  /\ token[id] /\ ~ShuttingDown => rows[id].cancel
  /\ worker[id] \in {"loaded", "executing"} /\ rows[id].cancel /\ id \notin lost
       => token[id] \/ id \in signalling
  /\ worker[id] = "finishing" => outcome[id] \in Terminal
  /\ worker[id] = "finishing" /\ outcome[id] = "cancelled" => rows[id].cancel

OffLine ==
  ~Alive => /\ inserted = {} /\ signalling = {}
            /\ \A id \in Ids : worker[id] = "none"

IInv ==
  /\ TypeOK
  /\ OffLine
  /\ \A id \in Ids : Ownership(id) /\ Payment(id) /\ Cancellation(id)

USE DEF Live, Terminal, Gone

-----------------------------------------------------------------------------
(* The state of every operation of the manager keeps its type (TypeOK).      *)
LEMMA TypeInit == Init => TypeOK
  <1> SUFFICES ASSUME Init PROVE TypeOK
      OBVIOUS
  <1>1. TableTypeOK
        BY DEF Init, TableInit, NoRow, TableTypeOK, Row
  <1>2. submitting \in [Clients -> Keys \cup {NoKey, Idle}]
        BY DEF Init, VolatileInit
  <1>3. worker \in [Ids -> WorkerPc] /\ token \in [Ids -> BOOLEAN]
        BY DEF Init, VolatileInit, WorkerPc
  <1>4. outcome \in [Ids -> {"none", "ok", "err"} \cup Terminal] /\ calls \in [Ids -> Nat]
        BY DEF Init, VolatileInit
  <1>5. QED
        BY <1>1, <1>2, <1>3, <1>4 DEF Init, VolatileInit, TypeOK

(* request_cancel() changes one row, settling it when it was queued.         *)
LEMMA RequestCancelRow ==
  ASSUME TableTypeOK, NEW id \in Ids, RequestCancel(id)
  PROVE  /\ TableTypeOK'
         /\ Status(id) \notin Gone
         /\ \A j \in Ids \ {id} : rows'[j] = rows[j]
         /\ Status(id)' = IF Status(id) = "queued" THEN "cancelled" ELSE Status(id)
         /\ rows'[id].cancel = (rows[id].cancel \/ Status(id) \in Live)
  <1> DEFINE next == [rows[id] EXCEPT !.status = IF @ = "queued" THEN "cancelled" ELSE @,
                                      !.cancel = @ \/ rows[id].status \in Live]
  <1>1. rows \in [Ids -> Row] /\ rows[id] \in Row
        BY DEF TableTypeOK
  <1>2. /\ next \in Row
        /\ next.status = IF rows[id].status = "queued" THEN "cancelled" ELSE rows[id].status
        /\ next.cancel = (rows[id].cancel \/ rows[id].status \in Live)
        BY <1>1 DEF Row
  <1>3. rows[id].status \notin Gone /\ rows' = [rows EXCEPT ![id] = next]
        BY <1>1 DEF RequestCancel, Status, Row
  <1> HIDE DEF next
  <1>4. QED
        BY <1>1, <1>2, <1>3 DEF TableTypeOK, Status

(* claim() changes one row, queued and not cancelled, to running.            *)
LEMMA ClaimRow ==
  ASSUME TableTypeOK, NEW id \in Ids, Claim(id)
  PROVE  /\ TableTypeOK'
         /\ Status(id) = "queued" /\ ~rows[id].cancel
         /\ \A j \in Ids \ {id} : rows'[j] = rows[j]
         /\ Status(id)' = "running" /\ rows'[id].cancel = rows[id].cancel
  BY TableAssumption DEF Claim, Claimable, TableTypeOK, Row, Status

(* finish() changes one row, running, to the verdict.                        *)
LEMMA FinishRow ==
  ASSUME TableTypeOK, NEW id \in Ids, NEW v \in Terminal, Finish(id, v)
  PROVE  /\ TableTypeOK'
         /\ Status(id) = "running"
         /\ \A j \in Ids \ {id} : rows'[j] = rows[j]
         /\ Status(id)' = v /\ rows'[id].cancel = rows[id].cancel
  BY DEF Finish, TableTypeOK, Row, Status

(* prune() touches terminal rows only.                                       *)
LEMMA PruneRows ==
  ASSUME TableTypeOK, NEW S \in SUBSET Ids, Prune(S)
  PROVE  /\ TableTypeOK'
         /\ \A j \in Ids : \/ rows'[j] = rows[j]
                           \/ Status(j) \in Terminal /\ rows'[j].status = "pruned"
  <1>1. TableTypeOK'
        BY TableAssumption DEF Prune, NoRow, TableTypeOK, Row
  <1>2. ASSUME NEW j \in Ids, j \notin S PROVE rows'[j] = rows[j]
        BY <1>2 DEF Prune, TableTypeOK
  <1>3. ASSUME NEW j \in Ids, j \in S
        PROVE  Status(j) \in Terminal /\ rows'[j].status = "pruned"
        BY <1>3 DEF Prune, IdsIn, NoRow, Status
  <1>4. QED
        BY <1>1, <1>2, <1>3 DEF Status

(* A sweep, whoever runs it, touches the table and retention_healthy.        *)
LEMMA EnforceRetentionRows ==
  ASSUME TypeOK, EnforceRetention
  PROVE  /\ TableTypeOK' /\ healthy' \in BOOLEAN /\ faults' \in Nat
         /\ \A j \in Ids : \/ rows'[j] = rows[j]
                           \/ Status(j) \in Terminal /\ rows'[j].status = "pruned"
  <1>1. CASE \E S \in SUBSET Ids : Prune(S) /\ healthy' = TRUE /\ UNCHANGED faults
        BY <1>1, PruneRows DEF TypeOK
  <1>2. CASE Fault("db") /\ healthy' = FALSE /\ UNCHANGED rows
    <2>1. faults' \in Nat
          BY <1>2 DEF Fault, TypeOK
    <2>2. TableTypeOK' /\ healthy' \in BOOLEAN /\ \A j \in Ids : rows'[j] = rows[j]
          BY <1>2 DEF TypeOK, TableTypeOK
    <2>3. QED
          BY <2>1, <2>2
  <1>3. QED
        BY <1>1, <1>2 DEF EnforceRetention

(* Every step of open() preserves the invariant. *)
LEMMA OpeningStep == IInv /\ Opening => IInv'
  <1> SUFFICES ASSUME IInv, Opening PROVE IInv'
      OBVIOUS
  <1> USE TableAssumption, ManagerAssumption
      DEF IInv, TypeOK, TableTypeOK, Row, WorkerPc, OffLine, Alive, ShuttingDown, Status,
          Ownership, Payment, Cancellation, Owning, Registered
  <1>1. CASE OpenRecover
        BY <1>1 DEF OpenRecover, RecoverInterrupted, volatile
  <1>2. CASE OpenPrune
        BY <1>2 DEF OpenPrune, Prune, IdsIn, NoRow, volatile
  <1>3. CASE OpenSchedule
        BY <1>3 DEF OpenSchedule, Resumed, IdsIn
  <1>4. QED
        BY <1>1, <1>2, <1>3 DEF Opening

(* So does every step of an HTTP handler. *)
LEMMA HandlerStep == IInv /\ Handler => IInv'
  <1> SUFFICES ASSUME IInv, Handler PROVE IInv'
      OBVIOUS
  <1> USE TableAssumption, ManagerAssumption
      DEF IInv, TypeOK, TableTypeOK, Row, WorkerPc, OffLine, Alive, ShuttingDown, Status,
          Ownership, Payment, Cancellation, Owning, Registered
  <1>1. ASSUME NEW c \in Clients, NEW k \in Keys \cup {NoKey}, SubmitAdmit(c, k) PROVE IInv'
        BY <1>1 DEF SubmitAdmit
  <1>2. ASSUME NEW c \in Clients, NEW id \in Ids, SubmitCreate(c, id) PROVE IInv'
        BY <1>2 DEF SubmitCreate, Create
  <1>3. ASSUME NEW c \in Clients, SubmitRefused(c) PROVE IInv'
        BY <1>3 DEF SubmitRefused
  <1>4. ASSUME NEW id \in Ids, SubmitSchedule(id) PROVE IInv'
        BY <1>4 DEF SubmitSchedule
  <1>5. ASSUME NEW id \in Ids, SubmitDropped(id) PROVE IInv'
        BY <1>5 DEF SubmitDropped, Fault
  <1>6. ASSUME NEW id \in Ids, CancelRequest(id) PROVE IInv'
        BY <1>6, RequestCancelRow DEF CancelRequest
  <1>7. ASSUME NEW id \in Ids, CancelSignal(id) PROVE IInv'
        BY <1>7 DEF CancelSignal
  <1>8. ASSUME NEW id \in Ids, CancelDropped(id) PROVE IInv'
        BY <1>8 DEF CancelDropped, Fault
  <1>9. QED
        BY <1>1, <1>2, <1>3, <1>4, <1>5, <1>6, <1>7, <1>8 DEF Handler

(* So does every step of a worker. *)
LEMMA WorkerStep == IInv /\ (\E id \in Ids : Run(id)) => IInv'
  <1> SUFFICES ASSUME IInv, (\E id \in Ids : Run(id)) PROVE IInv'
      OBVIOUS
  <1> USE TableAssumption, ManagerAssumption
      DEF IInv, TypeOK, TableTypeOK, Row, WorkerPc, OffLine, Alive, ShuttingDown, Status,
          Ownership, Payment, Cancellation, Owning, Registered
  <1>1. ASSUME NEW id \in Ids, WorkerStop(id) PROVE IInv'
        BY <1>1 DEF WorkerStop, Moves, process, handlers
  <1>2. ASSUME NEW id \in Ids, WorkerClaim(id) PROVE IInv'
        BY <1>2, ClaimRow DEF WorkerClaim, Moves, process, handlers
  <1>3. ASSUME NEW id \in Ids, WorkerSkip(id) PROVE IInv'
        BY <1>3 DEF WorkerSkip, Moves, Fault, process, handlers
  <1>4. ASSUME NEW id \in Ids, WorkerRegister(id) PROVE IInv'
        BY <1>4 DEF WorkerRegister, Moves, NotifyWaiters, process, handlers
  <1>5. ASSUME NEW id \in Ids, WorkerLoad(id) PROVE IInv'
        BY <1>5 DEF WorkerLoad, Moves, process, handlers
  <1>6. ASSUME NEW id \in Ids, WorkerLoadError(id) PROVE IInv'
        BY <1>6 DEF WorkerLoadError, Moves, Fault, process, handlers
  <1>7. ASSUME NEW id \in Ids, WorkerDispatch(id) PROVE IInv'
        BY <1>7 DEF WorkerDispatch, Moves, process, handlers
  <1>8. ASSUME NEW id \in Ids, NEW r \in {"ok", "err"}, WorkerReturn(id, r) PROVE IInv'
        BY <1>8 DEF WorkerReturn, Moves, process, handlers
  <1>9. ASSUME NEW id \in Ids, WorkerRemove(id) PROVE IInv'
        BY <1>9 DEF WorkerRemove, Moves, process, handlers
  <1>10. ASSUME NEW id \in Ids, WorkerRelease(id) PROVE IInv'
        BY <1>10 DEF WorkerRelease, Moves, NotifyWaiters, Verdict, process, handlers
  <1>11. ASSUME NEW id \in Ids, WorkerPersist(id) PROVE IInv'
        <2>1. outcome[id] \in Terminal
              BY <1>11 DEF WorkerPersist, Moves
        <2>2. /\ TableTypeOK' /\ Status(id) = "running"
              /\ \A j \in Ids \ {id} : rows'[j] = rows[j]
              /\ Status(id)' = outcome[id] /\ rows'[id].cancel = rows[id].cancel
              BY <1>11, <2>1, FinishRow DEF WorkerPersist
        <2>3. TypeOK'
              BY <1>11, <2>2 DEF WorkerPersist, Moves, process, handlers
        <2>4. OffLine'
              BY <1>11 DEF WorkerPersist, Moves, process, handlers
        <2>5. \A j \in Ids : Ownership(j)'
              BY <1>11, <2>1, <2>2 DEF WorkerPersist, Moves, process, handlers
        <2>6. \A j \in Ids : Payment(j)'
              BY <1>11, <2>1, <2>2 DEF WorkerPersist, Moves, process, handlers
        <2>7. \A j \in Ids : Cancellation(j)'
              BY <1>11, <2>1, <2>2 DEF WorkerPersist, Moves, process, handlers
        <2>8. QED
              BY <2>3, <2>4, <2>5, <2>6, <2>7
  <1>12. ASSUME NEW id \in Ids, WorkerDowngrade(id) PROVE IInv'
        BY <1>12 DEF WorkerDowngrade, Fault, process, handlers
  <1>13. ASSUME NEW id \in Ids, WorkerAbandon(id) PROVE IInv'
        BY <1>13 DEF WorkerAbandon, Moves, Fault, process, handlers
  <1>14. ASSUME NEW id \in Ids, WorkerRetain(id) PROVE IInv'
        <2>0. /\ TableTypeOK' /\ healthy' \in BOOLEAN /\ faults' \in Nat
              /\ \A j \in Ids : \/ rows'[j] = rows[j]
                                \/ Status(j) \in Terminal /\ rows'[j].status = "pruned"
              BY <1>14, EnforceRetentionRows DEF WorkerRetain
        <2>1. TypeOK' /\ OffLine'
              BY <1>14, <2>0 DEF WorkerRetain, Moves, handlers
        <2>2. ASSUME NEW j \in Ids PROVE Ownership(j)'
              <3>1. CASE rows'[j] = rows[j]
                    BY <1>14, <3>1 DEF WorkerRetain, Moves, handlers
              <3>2. CASE Status(j) \in Terminal /\ rows'[j].status = "pruned"
                    BY <1>14, <3>2 DEF WorkerRetain, Moves, handlers
              <3>3. QED
                    BY <2>0, <3>1, <3>2
        <2>3. \A j \in Ids : Payment(j)'
              BY <1>14, <2>0 DEF WorkerRetain, Moves, handlers
        <2>4. ASSUME NEW j \in Ids PROVE Cancellation(j)'
              <3>1. CASE rows'[j] = rows[j]
                    BY <1>14, <3>1 DEF WorkerRetain, Moves, handlers
              <3>2. CASE Status(j) \in Terminal /\ rows'[j].status = "pruned"
                    BY <1>14, <3>2 DEF WorkerRetain, Moves, handlers
              <3>3. QED
                    BY <2>0, <3>1, <3>2
        <2>5. QED
              BY <2>1, <2>2, <2>3, <2>4
  <1> HIDE DEF IInv, OffLine, Alive, ShuttingDown, Status, Ownership, Payment, Cancellation,
               TypeOK, TableTypeOK, Row, WorkerPc, Owning, Registered
  <1>15. QED
        BY <1>1, <1>2, <1>3, <1>4, <1>5, <1>6, <1>7, <1>8, <1>9, <1>10, <1>11, <1>12, <1>13, <1>14 DEF Run

(* So do the grant of a permit and a preview. *)
LEMMA PermitStep == IInv /\ (\E id \in Ids : WorkerAcquire(id) \/ WorkerPartial(id)) => IInv'
  <1> SUFFICES ASSUME IInv, (\E id \in Ids : WorkerAcquire(id) \/ WorkerPartial(id)) PROVE IInv'
      OBVIOUS
  <1> USE TableAssumption, ManagerAssumption
      DEF IInv, TypeOK, TableTypeOK, Row, WorkerPc, OffLine, Alive, ShuttingDown, Status,
          Ownership, Payment, Cancellation, Owning, Registered
  <1>1. ASSUME NEW id \in Ids, WorkerAcquire(id) PROVE IInv'
        BY <1>1 DEF WorkerAcquire, Moves, process, handlers
  <1>2. ASSUME NEW id \in Ids, WorkerPartial(id) PROVE IInv'
        BY <1>2 DEF WorkerPartial, process, handlers
  <1>3. QED
        BY <1>1, <1>2 DEF Holding

(* What the process leaves behind when it goes owes nothing to anybody.       *)
LEMMA GoneKeeps ==
  ASSUME IInv, ProcessGone, UNCHANGED <<rows, calls>>, faults' \in Nat
  PROVE  IInv'
  <1>1. TypeOK'
        <2>1. rows' \in [Ids -> Row] /\ calls' \in [Ids -> Nat]
              BY DEF IInv, TypeOK, TableTypeOK
        <2>2. QED
              BY <2>1 DEF TypeOK, TableTypeOK, ProcessGone, WorkerPc
  <1>2. OffLine'
        BY DEF ProcessGone, OffLine
  <1>3. ASSUME NEW j \in Ids PROVE Ownership(j)' /\ Payment(j)' /\ Cancellation(j)'
        <2>1. worker'[j] = "none" /\ outcome'[j] = "none" /\ ~token'[j]
              BY DEF ProcessGone
        <2>2. inserted' = {} /\ active' = {} /\ partials' = {} /\ signalling' = {}
              BY DEF ProcessGone
        <2>3. Ownership(j)'
              BY <2>1, <2>2 DEF Ownership, Owning, Registered
        <2>4. Payment(j)'
              BY <2>1 DEF IInv, Payment, Status
        <2>5. Cancellation(j)'
              BY <2>1, <2>2 DEF IInv, Cancellation, Status
        <2>6. QED
              BY <2>3, <2>4, <2>5
  <1>4. QED
        BY <1>1, <1>2, <1>3 DEF IInv

(* The wait loop of shutdown() moves nothing but itself.                     *)
LEMMA DrainKeeps ==
  ASSUME IInv, Drain
  PROVE  IInv'
  <1>1. /\ UNCHANGED <<rows, healthy, submitting, inserted, signalling, worker, active,
                       token, partials, outcome, lost, calls, faults>>
        /\ life = "draining" /\ life' \in {"draining", "stopped"}
        /\ drain' \in {"idle", "enlisted", "looked", "sleeping"}
        /\ woken' \in {woken, FALSE}
        BY DEF Drain, DrainEnlist, DrainCheck, DrainSleep, DrainWake, handlers
  <1>2. TypeOK'
        BY <1>1 DEF IInv, TypeOK, TableTypeOK
  <1>3. OffLine'
        BY <1>1 DEF OffLine, Alive
  <1>4. ShuttingDown /\ ShuttingDown'
        BY <1>1 DEF ShuttingDown
  <1>5. ASSUME NEW j \in Ids PROVE Ownership(j)' /\ Payment(j)' /\ Cancellation(j)'
        BY <1>1, <1>4 DEF IInv, Ownership, Payment, Cancellation, Status
  <1>6. QED
        BY <1>2, <1>3, <1>5 DEF IInv

(* So do retention, shutdown, exit and crash. *)
LEMMA LifeStep == IInv /\ (RetentionTick \/ ShutdownBegin \/ Drain \/ DrainTimeout \/ ProcessExit \/ Crash) => IInv'
  <1> SUFFICES ASSUME IInv, (RetentionTick \/ ShutdownBegin \/ Drain \/ DrainTimeout \/ ProcessExit \/ Crash) PROVE IInv'
      OBVIOUS
  <1> USE TableAssumption, ManagerAssumption
      DEF IInv, TypeOK, TableTypeOK, Row, WorkerPc, OffLine, Alive, ShuttingDown, Status,
          Ownership, Payment, Cancellation, Owning, Registered
  <1>1. CASE RetentionTick
        BY <1>1, EnforceRetentionRows DEF RetentionTick, handlers
  <1>2. CASE ShutdownBegin
        BY <1>2 DEF ShutdownBegin, volatile
  <1>3. CASE Drain
        BY <1>3, DrainKeeps
  <1>4. CASE DrainTimeout
        BY <1>4 DEF DrainTimeout, Fault, process, handlers
  <1>5. CASE ProcessExit
        BY <1>5, GoneKeeps DEF ProcessExit
  <1>6. CASE Crash
        <2>1. faults' \in Nat
              BY <1>6 DEF Crash, Fault
        <2>2. QED
              BY <1>6, <2>1, GoneKeeps DEF Crash
  <1>7. QED
        BY <1>1, <1>2, <1>3, <1>4, <1>5, <1>6

-----------------------------------------------------------------------------
(* The invariant holds when open() begins.                                   *)
LEMMA InvInit == Init => IInv
  <1> SUFFICES ASSUME Init PROVE IInv
      OBVIOUS
  <1>1. TypeOK
        BY TypeInit
  <1>2. OffLine
        BY DEF Init, VolatileInit, OffLine
  <1>3. ASSUME NEW id \in Ids PROVE Ownership(id) /\ Payment(id) /\ Cancellation(id)
        BY DEF Init, VolatileInit, TableInit, NoRow, Status, Ownership, Payment,
               Cancellation, Owning, Registered
  <1>4. QED
        BY <1>1, <1>2, <1>3 DEF IInv

(* Every step, a stutter included, preserves it.                             *)
LEMMA InvStep == IInv /\ [Next]_vars => IInv'
  <1> SUFFICES ASSUME IInv, [Next]_vars PROVE IInv'
      OBVIOUS
  <1>1. CASE Next
        BY <1>1, OpeningStep, HandlerStep, WorkerStep, PermitStep, LifeStep DEF Next
  <1>2. CASE UNCHANGED vars
        BY <1>2 DEF vars, volatile, IInv, TypeOK, TableTypeOK, OffLine, Alive, ShuttingDown,
                    Status, Ownership, Payment, Cancellation
  <1>3. QED
        BY <1>1, <1>2

(* The inductive invariant holds in every state the manager reaches, across  *)
(* crashes and restarts: rows and workers agree (IInv).                      *)
THEOREM Invariance == Spec => []IInv
  BY InvInit, InvStep, PTL DEF Spec

(* The manager's state keeps its type, whatever the capacities, the clients  *)
(* and the faults (TypeOK).                                                  *)
THEOREM TypeCorrect == Spec => []TypeOK
  <1>1. IInv => TypeOK
        BY DEF IInv
  <1>2. QED
        BY <1>1, Invariance, PTL

(* A job is paid for at most once over all restarts: recover_interrupted()   *)
(* and the spawn of one task per row leave no way back to the dispatch in    *)
(* execute_claimed().                                                        *)
THEOREM PaidAtMostOnce == Spec => []AtMostOnce
  <1>1. IInv => AtMostOnce
        BY DEF IInv, Payment, AtMostOnce
  <1>2. QED
        BY <1>1, Invariance, PTL

(* finish() never meets a row another actor settled: from claim() to the     *)
(* verdict the row belongs to its worker.                                    *)
THEOREM RowBelongsToWorker == Spec => []WorkerOwnsRow
  <1>1. IInv => WorkerOwnsRow
        BY DEF IInv, Ownership, WorkerOwnsRow, WorkersAt
  <1>2. QED
        BY <1>1, Invariance, PTL

(* No interleaving of cancel() and execute_claimed() loses a cancellation    *)
(* whose handler and worker run to their end.                                *)
THEOREM CancelIsNotLost == Spec => []CancelReaches
  <1>1. IInv => CancelReaches
        BY DEF IInv, Cancellation, CancelReaches, WorkersAt
  <1>2. QED
        BY <1>1, Invariance, PTL

(* No preview outlives its worker (partial_preview).                         *)
THEOREM PreviewsAreBounded == Spec => []PreviewsOnlyWhileActive
  <1>1. IInv => PreviewsOnlyWhileActive
        BY DEF IInv, TypeOK, Ownership, PreviewsOnlyWhileActive, WorkersAt
  <1>2. QED
        BY <1>1, Invariance, PTL

-----------------------------------------------------------------------------
(* The refinement.  Moves of one job, in the manager's own terms: each is a  *)
(* step of JobLifecycle or leaves the job alone.                             *)
Turns(j, from, to) == Status(j) \in from /\ rows'[j].status = to
Flag(j)  == rows'[j].cancel = rows[j].cancel
Tally(j) == calls'[j] = calls[j]

JobStays(j)     == Turns(j, {Status(j)}, Status(j)) /\ Flag(j) /\ Tally(j)
JobAccepted(j)  == Turns(j, {"absent"}, "queued") /\ Flag(j) /\ Tally(j)
JobStarted(j)   == Turns(j, {"queued"}, "running") /\ ~rows[j].cancel /\ Flag(j) /\ Tally(j)
JobWithdrawn(j) == Turns(j, {"queued"}, "cancelled") /\ rows'[j].cancel /\ Tally(j)
JobAsked(j)     == Turns(j, {"running"}, "running") /\ rows'[j].cancel /\ Tally(j)
JobPaid(j) ==
  Turns(j, {"running"}, "running") /\ Flag(j) /\ calls[j] = 0 /\ calls'[j] = 1
JobSettled(j) ==
  /\ Status(j) = "running" /\ rows'[j].status \in Terminal
  /\ rows'[j].status = "succeeded" => calls[j] = 1
  /\ rows'[j].status = "cancelled" => rows[j].cancel
  /\ Flag(j) /\ Tally(j)
JobForgotten(j) == Turns(j, Terminal, "pruned") /\ Tally(j)

JobMoves(j) ==
  \/ JobStays(j) \/ JobAccepted(j) \/ JobStarted(j) \/ JobWithdrawn(j)
  \/ JobAsked(j) \/ JobPaid(j) \/ JobSettled(j) \/ JobForgotten(j)

(* Every step that leaves the table and the calls alone moves no job.        *)
LEMMA StillJobs ==
  ASSUME rows' = rows, calls' = calls
  PROVE  \A j \in Ids : JobMoves(j)
  BY DEF JobMoves, JobStays, Turns, Flag, Tally, Status

(* Every step moves each job along one edge of JobMoves or leaves it alone.  *)
LEMMA JobSteps ==
  ASSUME IInv, [Next]_vars
  PROVE  \A j \in Ids : JobMoves(j)
  <1> USE DEF Turns, Flag, Tally
  <1>1. CASE OpenRecover
        BY <1>1 DEF OpenRecover, RecoverInterrupted, JobMoves, JobStays, JobSettled,
                    Status, IInv, TypeOK, TableTypeOK, Row
  <1>2. CASE OpenPrune
        BY <1>2, PruneRows DEF OpenPrune, IInv, TypeOK, JobMoves, JobStays, JobForgotten, Status
  <1>3. ASSUME NEW c \in Clients, NEW id \in Ids, SubmitCreate(c, id)
        PROVE  \A j \in Ids : JobMoves(j)
        BY <1>3, TableAssumption
        DEF SubmitCreate, Create, JobMoves, JobStays, JobAccepted, Status, IInv, TypeOK,
            TableTypeOK, Row, Cancellation
  <1>4. ASSUME NEW id \in Ids, CancelRequest(id)
        PROVE  \A j \in Ids : JobMoves(j)
        BY <1>4, RequestCancelRow
        DEF CancelRequest, JobMoves, JobStays, JobWithdrawn, JobAsked, Status, IInv, TypeOK,
            TableTypeOK, Row
  <1>5. ASSUME NEW id \in Ids, WorkerClaim(id)
        PROVE  \A j \in Ids : JobMoves(j)
        BY <1>5, ClaimRow
        DEF WorkerClaim, JobMoves, JobStays, JobStarted, Status, IInv, TypeOK
  <1>6. ASSUME NEW id \in Ids, WorkerDispatch(id)
        PROVE  \A j \in Ids : JobMoves(j)
        BY <1>6 DEF WorkerDispatch, Moves, JobMoves, JobStays, JobPaid, Status, IInv, TypeOK,
                    Payment, Ownership, Owning
  <1>7. ASSUME NEW id \in Ids, WorkerPersist(id)
        PROVE  \A j \in Ids : JobMoves(j)
        BY <1>7 DEF WorkerPersist, Moves, Finish, JobMoves, JobStays, JobSettled, Status, IInv,
                    TypeOK, TableTypeOK, Row, Payment, Cancellation
  <1>8. CASE RetentionTick \/ \E id \in Ids : WorkerRetain(id)
        BY <1>8, EnforceRetentionRows
        DEF RetentionTick, WorkerRetain, IInv, JobMoves, JobStays, JobForgotten, Status
  <1>9. CASE rows' = rows /\ calls' = calls
        BY <1>9, StillJobs
  <1>10. CASE Opening
         BY <1>1, <1>2, <1>9, <1>10 DEF Opening, OpenSchedule
  <1>11. CASE Handler
         BY <1>3, <1>4, <1>9, <1>11
         DEF Handler, SubmitAdmit, SubmitRefused, SubmitSchedule, SubmitDropped, CancelSignal,
             CancelDropped
  <1>12. CASE \E id \in Ids : Run(id)
         BY <1>5, <1>6, <1>7, <1>8, <1>9, <1>12
         DEF Run, WorkerStop, WorkerSkip, WorkerRegister, WorkerLoad, WorkerLoadError,
             WorkerReturn, WorkerRemove, WorkerRelease, WorkerDowngrade, WorkerAbandon
  <1>13. CASE \E id \in Ids : WorkerAcquire(id) \/ WorkerPartial(id)
         BY <1>9, <1>13 DEF WorkerAcquire, WorkerPartial
  <1>14. CASE ShutdownBegin \/ Drain \/ DrainTimeout \/ ProcessExit \/ Crash
         BY <1>9, <1>14 DEF ShutdownBegin, Drain, DrainEnlist, DrainCheck, DrainSleep, DrainWake,
                            DrainTimeout, ProcessExit, Crash
  <1>15. CASE UNCHANGED vars
         BY <1>9, <1>15 DEF vars
  <1>16. QED
         BY <1>8, <1>10, <1>11, <1>12, <1>13, <1>14, <1>15 DEF Next

(* Every move of a job is a step of its lifecycle.                           *)
LEMMA MovesAreSteps ==
  ASSUME IInv, NEW j \in Ids, JobMoves(j)
  PROVE  Lifecycle!Step(j)
  <1> USE DEF Turns, Flag, Tally, Status, Lifecycle!Step, Lifecycle!Becomes, Lifecycle!Keeps
  <1>1. CASE JobStays(j)
        BY <1>1 DEF JobStays
  <1>2. CASE JobAccepted(j)
        BY <1>2 DEF JobAccepted, Lifecycle!Accept
  <1>3. CASE JobStarted(j)
        BY <1>3 DEF JobStarted, Lifecycle!Start
  <1>4. CASE JobWithdrawn(j)
        BY <1>4 DEF JobWithdrawn, Lifecycle!Withdraw
  <1>5. CASE JobAsked(j)
        BY <1>5 DEF JobAsked, Lifecycle!Ask
  <1>6. CASE JobPaid(j)
        BY <1>6 DEF JobPaid, Lifecycle!Pay
  <1>7. CASE JobSettled(j)
        BY <1>7 DEF JobSettled, Lifecycle!Settle, Lifecycle!Verdicts
  <1>8. CASE JobForgotten(j)
        BY <1>8 DEF JobForgotten, Lifecycle!Forget, Lifecycle!Verdicts
  <1>9. QED
        BY <1>1, <1>2, <1>3, <1>4, <1>5, <1>6, <1>7, <1>8 DEF JobMoves

(* The manager implements the lifecycle a client is promised, over any       *)
(* number of jobs, workers, crashes and restarts.                            *)
THEOREM LifecycleRefinement == Spec => ImplementsLifecycle
  <1>1. Init => Lifecycle!LifecycleInit
        BY DEF Init, TableInit, NoRow, Status, Lifecycle!LifecycleInit
  <1>2. ASSUME IInv, IInv', [Next]_vars
        PROVE  [Lifecycle!LifecycleNext]_<<[id \in Ids |-> Status(id)],
                                           [id \in Ids |-> rows[id].cancel], calls>>
    <2>1. \A j \in Ids : Lifecycle!Step(j)
          BY <1>2, JobSteps, MovesAreSteps
    <2>2. /\ [id \in Ids |-> Status(id)]' \in [Ids -> Lifecycle!State]
          /\ [id \in Ids |-> rows[id].cancel]' \in [Ids -> BOOLEAN]
          /\ calls' \in [Ids -> Nat]
          BY <1>2 DEF IInv, TypeOK, TableTypeOK, Row, Status, Lifecycle!State
    <2>3. QED
          BY <2>1, <2>2 DEF Lifecycle!LifecycleNext
  <1>3. QED
        BY <1>1, <1>2, Invariance, PTL DEF ImplementsLifecycle, Spec, Lifecycle!LifecycleSpec

-----------------------------------------------------------------------------
(***************************************************************************)
(* Nothing is left behind.  That every queued row has its task after open() *)
(* needs that no more rows are queued than open() resumes, which create()   *)
(* guards; that active stays within its limit needs the permits it is       *)
(* registered under.                                                        *)
(***************************************************************************)
Served(id) ==
  id \notin lost =>
    /\ life = "up" /\ Status(id) = "queued" =>
         id \in inserted \/ worker[id] \in {"waiting", "permitted"}
    /\ Alive /\ Status(id) = "running" => worker[id] \in Owning

Recovered == life \in {"recovered", "swept"} => \A id \in Ids : Status(id) # "running"

AtMost(S, n) == IsFiniteSet(S) /\ Cardinality(S) <= n

Kept ==
  /\ Recovered
  /\ AtMost(IdsIn({"queued"}), MaxPending)
  /\ AtMost(WorkersAt(Holding), MaxRunning)
  /\ \A id \in Ids : Served(id)

(* A set that loses elements stays within its bound; one that has room takes *)
(* one more.                                                                 *)
LEMMA AtMostShrinks ==
  ASSUME NEW S, NEW n \in Nat, AtMost(S, n), NEW T, T \subseteq S
  PROVE  AtMost(T, n)
  <1>1. IsFiniteSet(T) /\ Cardinality(T) <= Cardinality(S)
        BY FS_Subset DEF AtMost
  <1>2. Cardinality(T) \in Nat /\ Cardinality(S) \in Nat
        BY <1>1, FS_CardinalityType DEF AtMost
  <1>3. QED
        BY <1>1, <1>2 DEF AtMost

LEMMA AtMostGrows ==
  ASSUME NEW S, NEW n \in Nat, AtMost(S, n), Cardinality(S) < n, NEW x, NEW T,
         T \subseteq S \cup {x}
  PROVE  AtMost(T, n)
  <1>1. /\ IsFiniteSet(S \cup {x}) /\ Cardinality(S) \in Nat
        /\ Cardinality(S \cup {x}) = IF x \in S THEN Cardinality(S) ELSE Cardinality(S) + 1
        BY FS_AddElement, FS_CardinalityType DEF AtMost
  <1>2. AtMost(S \cup {x}, n)
        BY <1>1 DEF AtMost
  <1>3. QED
        BY <1>2, AtMostShrinks

(* open() resumes every queued row, as long as they are within the limit.    *)
LEMMA AllResumed ==
  ASSUME NEW S, Resumed(S), AtMost(IdsIn({"queued"}), MaxPending)
  PROVE  S = IdsIn({"queued"})
  <1> DEFINE Q == IdsIn({"queued"})
  <1>1. S \subseteq Q /\ (S # Q => Cardinality(S) = MaxPending)
        BY DEF Resumed
  <1>2. S # Q => Cardinality(S) < Cardinality(Q)
        BY <1>1, FS_Subset, FS_CardinalityType DEF AtMost
  <1>3. Cardinality(Q) \in Nat /\ Cardinality(Q) <= MaxPending
        BY FS_CardinalityType DEF AtMost
  <1> HIDE DEF Q
  <1>4. QED
        BY <1>1, <1>2, <1>3, TableAssumption DEF Q

(* Only create() queues a row.                                               *)
LEMMA QueuedBefore ==
  ASSUME IInv, [Next]_vars, ~\E c \in Clients, id \in Ids : SubmitCreate(c, id),
         NEW j \in Ids, rows'[j].status = "queued"
  PROVE  Status(j) = "queued"
  <1>0. TableTypeOK /\ TypeOK
        BY DEF IInv, TypeOK
  <1>1. CASE OpenRecover
        BY <1>0, <1>1 DEF OpenRecover, RecoverInterrupted, Status, TableTypeOK, Row
  <1>2. CASE OpenPrune
        BY <1>0, <1>2, PruneRows DEF OpenPrune, Status
  <1>3. ASSUME NEW id \in Ids, CancelRequest(id)
        PROVE  Status(j) = "queued"
        BY <1>0, <1>3, RequestCancelRow DEF CancelRequest, Status
  <1>4. ASSUME NEW id \in Ids, WorkerClaim(id)
        PROVE  Status(j) = "queued"
        BY <1>0, <1>4, ClaimRow DEF WorkerClaim, Status
  <1>5. ASSUME NEW id \in Ids, WorkerPersist(id)
        PROVE  Status(j) = "queued"
        <2>1. outcome[id] \in Terminal /\ rows' = [rows EXCEPT ![id].status = outcome[id]]
              BY <1>5 DEF IInv, Cancellation, WorkerPersist, Moves, Finish
        <2>2. QED
              BY <1>0, <2>1 DEF Status, TableTypeOK, Row
  <1>6. CASE RetentionTick \/ \E id \in Ids : WorkerRetain(id)
        BY <1>0, <1>6, EnforceRetentionRows DEF RetentionTick, WorkerRetain, Status
  <1>7. CASE rows' = rows
        BY <1>7 DEF Status
  <1>8. CASE Opening
        BY <1>1, <1>2, <1>7, <1>8 DEF Opening, OpenSchedule
  <1>9. CASE Handler
        BY <1>3, <1>7, <1>9
        DEF Handler, SubmitAdmit, SubmitRefused, SubmitSchedule, SubmitDropped, CancelSignal,
            CancelDropped
  <1>10. CASE \E id \in Ids : Run(id)
         BY <1>4, <1>5, <1>6, <1>7, <1>10
         DEF Run, WorkerStop, WorkerSkip, WorkerRegister, WorkerLoad, WorkerLoadError,
             WorkerDispatch, WorkerReturn, WorkerRemove, WorkerRelease, WorkerDowngrade,
             WorkerAbandon
  <1>11. CASE \E id \in Ids : WorkerAcquire(id) \/ WorkerPartial(id)
         BY <1>7, <1>11 DEF WorkerAcquire, WorkerPartial
  <1>12. CASE ShutdownBegin \/ Drain \/ DrainTimeout \/ ProcessExit \/ Crash
         BY <1>7, <1>12 DEF ShutdownBegin, Drain, DrainEnlist, DrainCheck, DrainSleep, DrainWake,
                            DrainTimeout, ProcessExit, Crash
  <1>13. CASE UNCHANGED vars
         BY <1>7, <1>13 DEF vars
  <1>14. QED
         BY <1>6, <1>8, <1>9, <1>10, <1>11, <1>12, <1>13 DEF Next

(* The queue stays within its limit: create() looks before it inserts.       *)
LEMMA QueueKept ==
  ASSUME IInv, [Next]_vars, AtMost(IdsIn({"queued"}), MaxPending)
  PROVE  AtMost(IdsIn({"queued"})', MaxPending)
  <1> DEFINE Q == IdsIn({"queued"})
  <1>1. MaxPending \in Nat
        BY TableAssumption
  <1>2. CASE \E c \in Clients, id \in Ids : SubmitCreate(c, id)
        <2>1. PICK c \in Clients, id \in Ids : SubmitCreate(c, id)
              BY <1>2
        <2>2. Cardinality(Q) < MaxPending /\ \A j \in Ids \ {id} : rows'[j] = rows[j]
              BY <2>1 DEF SubmitCreate, Create, IInv, TypeOK, TableTypeOK
        <2>3. Q' \subseteq Q \cup {id}
              BY <2>2 DEF IdsIn, Status
        <2> HIDE DEF Q
        <2>4. AtMost(Q', MaxPending)
              BY <1>1, <2>2, <2>3, AtMostGrows DEF Q
        <2>5. QED
              BY <2>4 DEF Q
  <1>3. CASE ~\E c \in Clients, id \in Ids : SubmitCreate(c, id)
        <2>1. \A j \in Ids : rows'[j].status = "queued" => Status(j) = "queued"
              BY <1>3, QueuedBefore
        <2>2. Q' \subseteq Q
              BY <2>1 DEF IdsIn, Status
        <2> HIDE DEF Q
        <2>3. AtMost(Q', MaxPending)
              BY <1>1, <2>2, AtMostShrinks DEF Q
        <2>4. QED
              BY <2>3 DEF Q
  <1>4. QED
        BY <1>2, <1>3

(* Only WorkerAcquire gives a permit, and only while one is left.            *)
LEMMA PermitsKept ==
  ASSUME IInv, [Next]_vars, AtMost(WorkersAt(Holding), MaxRunning)
  PROVE  AtMost(WorkersAt(Holding)', MaxRunning)
  <1> DEFINE H == WorkersAt(Holding)
  <1>0. MaxRunning \in Nat /\ worker \in [Ids -> WorkerPc]
        BY ManagerAssumption DEF IInv, TypeOK
  <1>1. CASE \E id \in Ids : WorkerAcquire(id)
        <2>1. PICK id \in Ids : WorkerAcquire(id)
              BY <1>1
        <2>2. Cardinality(H) < MaxRunning /\ H' \subseteq H \cup {id}
              BY <1>0, <2>1 DEF WorkerAcquire, Moves, WorkersAt
        <2> HIDE DEF H
        <2>3. AtMost(H', MaxRunning)
              BY <1>0, <2>2, AtMostGrows DEF H
        <2>4. QED
              BY <2>3 DEF H
  <1>2. ASSUME \A id \in Ids : worker'[id] \in Holding => worker[id] \in Holding
        PROVE  AtMost(WorkersAt(Holding)', MaxRunning)
        <2>1. H' \subseteq H
              BY <1>2 DEF WorkersAt
        <2> HIDE DEF H
        <2>2. AtMost(H', MaxRunning)
              BY <1>0, <2>1, AtMostShrinks DEF H
        <2>3. QED
              BY <2>2 DEF H
  <1>3. CASE worker' = worker
        BY <1>2, <1>3
  <1>4. CASE Opening
        <2>1. \A id \in Ids : worker'[id] \in Holding => worker[id] \in Holding
              BY <1>4 DEF Opening, OpenRecover, OpenPrune, OpenSchedule, volatile, Holding
        <2>2. QED
              BY <1>2, <2>1
  <1>5. CASE Handler
        <2>1. \A id \in Ids : worker'[id] \in Holding => worker[id] \in Holding
              BY <1>0, <1>5
              DEF Handler, SubmitAdmit, SubmitCreate, SubmitRefused, SubmitSchedule,
                  SubmitDropped, CancelRequest, CancelSignal, CancelDropped, Holding
        <2>2. QED
              BY <1>2, <2>1
  <1>6. ASSUME NEW id \in Ids, Run(id)
        PROVE  AtMost(WorkersAt(Holding)', MaxRunning)
        <2>1. \/ worker' = worker
              \/ \E from \in Holding, to \in WorkerPc : Moves(id, from, to)
              \/ \E from \in WorkerPc, to \in WorkerPc \ Holding : Moves(id, from, to)
              BY <1>6 DEF Run, WorkerStop, WorkerClaim, WorkerSkip, WorkerRegister, WorkerLoad,
                 WorkerLoadError, WorkerDispatch, WorkerReturn, WorkerRemove, WorkerRelease,
                 WorkerPersist, WorkerDowngrade, WorkerAbandon, WorkerRetain, Holding, WorkerPc
        <2>2. \A j \in Ids : worker'[j] \in Holding => worker[j] \in Holding
              BY <1>0, <2>1 DEF Moves
        <2>3. QED
              BY <1>2, <2>2
  <1>7. CASE \E id \in Ids : WorkerPartial(id)
        BY <1>3, <1>7 DEF WorkerPartial
  <1>8. CASE RetentionTick \/ ShutdownBegin \/ Drain \/ DrainTimeout
        BY <1>3, <1>8 DEF RetentionTick, ShutdownBegin, volatile, Drain, DrainEnlist, DrainCheck,
                          DrainSleep, DrainWake, DrainTimeout
  <1>9. CASE ProcessExit \/ Crash
        <2>1. \A id \in Ids : worker'[id] \in Holding => worker[id] \in Holding
              BY <1>9 DEF ProcessExit, Crash, ProcessGone, Holding
        <2>2. QED
              BY <1>2, <2>1
  <1>10. CASE UNCHANGED vars
        BY <1>3, <1>10 DEF vars, volatile
  <1>11. QED
        BY <1>1, <1>4, <1>5, <1>6, <1>7, <1>8, <1>9, <1>10 DEF Next

(* Between recover_interrupted() and the first claim no row is running.      *)
LEMMA RecoveredKept ==
  ASSUME IInv, [Next]_vars, Recovered
  PROVE  Recovered'
  <1>0. TableTypeOK /\ TypeOK
        BY DEF IInv, TypeOK
  <1> SUFFICES ASSUME life' \in {"recovered", "swept"}, NEW j \in Ids
               PROVE  rows'[j].status # "running"
      BY DEF Recovered, Status
  <1>1. CASE OpenRecover
        BY <1>0, <1>1 DEF OpenRecover, RecoverInterrupted, Status, TableTypeOK, Row
  <1>2. CASE OpenPrune
        BY <1>0, <1>2, PruneRows DEF OpenPrune, Status, Recovered
  <1>3. CASE ~OpenRecover /\ ~OpenPrune
        <2>1. life' = life /\ (rows' = rows \/ Alive \/ \E id \in Ids : worker[id] # "none")
              <3>1. CASE OpenSchedule
                    BY <3>1 DEF OpenSchedule
              <3>2. CASE Handler
                    BY <3>2
                    DEF Handler, SubmitAdmit, SubmitCreate, SubmitRefused, SubmitSchedule,
                        SubmitDropped, CancelRequest, CancelSignal, CancelDropped, Alive
              <3>3. ASSUME NEW id \in Ids, Run(id)
                    PROVE  life' = life /\ worker[id] # "none"
                    BY <3>3
                    DEF Run, WorkerStop, WorkerClaim, WorkerSkip, WorkerRegister, WorkerLoad,
                        WorkerLoadError, WorkerDispatch, WorkerReturn, WorkerRemove,
                        WorkerRelease, WorkerPersist, WorkerDowngrade, WorkerAbandon,
                        WorkerRetain, Moves, process
              <3>4. CASE \E id \in Ids : WorkerAcquire(id) \/ WorkerPartial(id)
                    BY <3>4 DEF WorkerAcquire, WorkerPartial, process
              <3>5. CASE RetentionTick
                    BY <3>5 DEF RetentionTick
              <3>6. CASE ShutdownBegin \/ Drain \/ DrainTimeout
                    BY <3>6 DEF ShutdownBegin, Drain, DrainEnlist, DrainCheck, DrainSleep,
                                DrainWake, DrainTimeout
              <3>7. CASE ProcessExit \/ Crash
                    BY <3>7 DEF ProcessExit, Crash, ProcessGone
              <3>8. CASE UNCHANGED vars
                    BY <3>8 DEF vars
              <3>9. QED
                    BY <1>3, <3>1, <3>2, <3>3, <3>4, <3>5, <3>6, <3>7, <3>8 DEF Next, Opening
        <2>2. rows' = rows
              BY <2>1 DEF IInv, OffLine, Alive, ShuttingDown
        <2>3. QED
              BY <2>1, <2>2 DEF Recovered, Status
  <1>4. QED
        BY <1>1, <1>2, <1>3

(* A job whose row, stage and handler stay as they are is served as before.  *)
LEMMA ServedStays ==
  ASSUME NEW j \in Ids, Served(j), rows'[j] = rows[j], worker'[j] = worker[j],
         j \in inserted => j \in inserted', j \in lost => j \in lost',
         life' = "up" => life = "up", Alive' => Alive
  PROVE  Served(j)'
  BY DEF Served, Status

(* No step strands a job: whoever takes a row out of a stage hands it on, is *)
(* cut short by a fault, or goes down with its process.                      *)
LEMMA ServedKept ==
  ASSUME IInv, [Next]_vars, Kept, NEW j \in Ids
  PROVE  Served(j)'
  <1>0. /\ TypeOK /\ TableTypeOK /\ worker \in [Ids -> WorkerPc] /\ Served(j)
        /\ Ownership(j) /\ Cancellation(j)
        BY DEF IInv, TypeOK, Kept
  <1> USE <1>0
  <1>1. CASE OpenRecover \/ OpenPrune \/ ProcessExit \/ Crash
        BY <1>1 DEF OpenRecover, OpenPrune, ProcessExit, Crash, ProcessGone, Served, Alive
  <1>2. CASE OpenSchedule
        <2>1. PICK S \in SUBSET Ids :
                /\ Resumed(S)
                /\ worker' = [id \in Ids |-> IF id \in S THEN "waiting" ELSE worker[id]]
              BY <1>2 DEF OpenSchedule
        <2>2. S = IdsIn({"queued"}) /\ Status(j) # "running" /\ rows' = rows
              BY <1>2, <2>1, AllResumed DEF OpenSchedule, Kept, Recovered
        <2>3. Status(j) = "queued" => worker'[j] = "waiting"
              BY <2>1, <2>2 DEF IdsIn
        <2>4. QED
              BY <2>2, <2>3 DEF Served, Status
  <1>3. CASE Handler
        <2>1. ASSUME NEW c \in Clients, NEW id \in Ids, SubmitCreate(c, id) PROVE Served(j)'
              <3>1. j # id => rows'[j] = rows[j]
                    BY <2>1 DEF SubmitCreate, Create, TableTypeOK
              <3>2. j = id => j \in inserted' /\ rows'[j].status = "queued"
                    BY <2>1 DEF SubmitCreate, Create, TableTypeOK
              <3>3. QED
                    BY <2>1, <3>1, <3>2 DEF SubmitCreate, Served, Status, Alive
        <2>2. ASSUME NEW id \in Ids, SubmitSchedule(id) PROVE Served(j)'
              BY <2>2 DEF SubmitSchedule, Served, Status, Alive, Ownership, Owning
        <2>3. ASSUME NEW id \in Ids, SubmitDropped(id) PROVE Served(j)'
              BY <2>3 DEF SubmitDropped, Served, Status, Alive
        <2>4. ASSUME NEW id \in Ids, CancelRequest(id) PROVE Served(j)'
              BY <2>4, RequestCancelRow DEF CancelRequest, Served, Status, Alive
        <2>5. ASSUME NEW id \in Ids, CancelSignal(id) \/ CancelDropped(id) PROVE Served(j)'
              BY <2>5, ServedStays DEF CancelSignal, CancelDropped, Alive
        <2>6. ASSUME NEW c \in Clients, NEW k \in Keys \cup {NoKey},
                     SubmitAdmit(c, k) \/ SubmitRefused(c)
              PROVE  Served(j)'
              BY <2>6, ServedStays DEF SubmitAdmit, SubmitRefused, Alive
        <2>7. QED
              BY <1>3, <2>1, <2>2, <2>3, <2>4, <2>5, <2>6 DEF Handler
  <1>4. ASSUME NEW id \in Ids, Run(id) PROVE Served(j)'
        <2>1. CASE WorkerStop(id)
              BY <2>1 DEF WorkerStop, ShuttingDown, Moves, process, handlers, Served, Status,
                          Alive, Owning
        <2>2. CASE WorkerClaim(id)
              BY <2>2, ClaimRow DEF WorkerClaim, Moves, process, handlers, Served, Status,
                                    Alive, Owning
        <2>3. CASE WorkerSkip(id)
              <3>1. j = id /\ j \notin lost' => Status(j) # "queued"
                    BY <2>3 DEF WorkerSkip, Claimable, Cancellation
              <3>2. QED
                    BY <2>3, <3>1 DEF WorkerSkip, Moves, process, handlers, Served, Status,
                                      Alive, Owning
        <2>4. CASE \/ WorkerRegister(id) \/ WorkerLoad(id) \/ WorkerLoadError(id)
                   \/ WorkerDispatch(id) \/ WorkerRemove(id) \/ WorkerRelease(id)
                   \/ \E result \in {"ok", "err"} : WorkerReturn(id, result)
              <3>1. /\ UNCHANGED <<rows, life, inserted, lost>>
                    /\ \E from, to \in Owning : Moves(id, from, to)
                    BY <2>4 DEF WorkerRegister, WorkerLoad, WorkerLoadError, WorkerDispatch,
                       WorkerRemove, WorkerRelease, WorkerReturn, process, handlers, Owning
              <3>2. QED
                    BY <3>1 DEF Moves, Served, Status, Alive, Owning
        <2>5. CASE WorkerPersist(id)
              <3>1. outcome[id] \in Terminal
                    BY <2>5 DEF WorkerPersist, Moves, IInv, Cancellation
              <3>2. /\ rows'[id].status = outcome[id]
                    /\ \A i \in Ids \ {id} : rows'[i] = rows[i]
                    BY <2>5, <3>1, FinishRow DEF WorkerPersist, Status
              <3>3. /\ UNCHANGED <<life, inserted, lost>>
                    /\ \A i \in Ids \ {id} : worker'[i] = worker[i]
                    BY <2>5 DEF WorkerPersist, Moves, process, handlers
              <3>4. QED
                    BY <3>1, <3>2, <3>3, ServedStays DEF Served, Status, Alive
        <2>6. CASE WorkerDowngrade(id)
              BY <2>6, ServedStays DEF WorkerDowngrade, process, handlers, Alive
        <2>7. CASE WorkerAbandon(id)
              BY <2>7 DEF WorkerAbandon, Moves, process, handlers, Served, Status, Alive
        <2>8. CASE WorkerRetain(id)
              <3>1. \/ rows'[j] = rows[j]
                    \/ Status(j) \in Terminal /\ rows'[j].status = "pruned"
                    BY <2>8, EnforceRetentionRows DEF WorkerRetain
              <3>2. QED
                    BY <2>8, <3>1 DEF WorkerRetain, Moves, handlers, Served, Status, Alive,
                                      Owning
        <2>9. QED
              BY <1>4, <2>1, <2>2, <2>3, <2>4, <2>5, <2>6, <2>7, <2>8 DEF Run
  <1>5. ASSUME NEW id \in Ids, WorkerAcquire(id) \/ WorkerPartial(id) PROVE Served(j)'
        BY <1>5 DEF WorkerAcquire, WorkerPartial, Moves, process, handlers, Served, Status,
                    Alive, Owning
  <1>6. CASE RetentionTick
        <2>1. rows'[j] = rows[j] \/ (Status(j) \in Terminal /\ rows'[j].status = "pruned")
              BY <1>6, EnforceRetentionRows DEF RetentionTick
        <2>2. QED
              BY <1>6, <2>1 DEF RetentionTick, handlers, Served, Status, Alive
  <1>7. CASE ShutdownBegin \/ Drain \/ DrainTimeout
        BY <1>7, ServedStays
        DEF ShutdownBegin, volatile, Drain, DrainEnlist, DrainCheck, DrainSleep, DrainWake,
            DrainTimeout, handlers, Alive
  <1>8. CASE UNCHANGED vars
        BY <1>8, ServedStays DEF vars, volatile, Alive
  <1>9. QED
        BY <1>1, <1>2, <1>3, <1>4, <1>5, <1>6, <1>7, <1>8 DEF Next, Opening

LEMMA KeptInit == Init => Kept
  <1> SUFFICES ASSUME Init PROVE Kept
      OBVIOUS
  <1>1. IdsIn({"queued"}) = {} /\ WorkersAt(Holding) = {}
        BY DEF Init, TableInit, NoRow, VolatileInit, IdsIn, Status, WorkersAt, Holding
  <1>2. AtMost({}, MaxPending) /\ AtMost({}, MaxRunning)
        BY FS_EmptySet, TableAssumption, ManagerAssumption DEF AtMost
  <1>3. Recovered /\ \A id \in Ids : Served(id)
        BY DEF Init, Recovered, Served, Alive
  <1>4. QED
        BY <1>1, <1>2, <1>3 DEF Kept

LEMMA KeptStep == IInv /\ Kept /\ [Next]_vars => Kept'
  <1> SUFFICES ASSUME IInv, Kept, [Next]_vars PROVE Kept'
      OBVIOUS
  <1>1. Recovered'
        BY RecoveredKept DEF Kept
  <1>2. AtMost(IdsIn({"queued"}), MaxPending)'
        BY QueueKept DEF Kept, AtMost
  <1>3. AtMost(WorkersAt(Holding), MaxRunning)'
        BY PermitsKept DEF Kept, AtMost
  <1>4. \A id \in Ids : Served(id)'
        BY ServedKept
  <1>5. QED
        BY <1>1, <1>2, <1>3, <1>4 DEF Kept

(* What the parts of Sound come from.                                        *)
LEMMA KeptIsSound == IInv /\ Kept => Sound
  <1> SUFFICES ASSUME IInv, Kept PROVE Sound
      OBVIOUS
  <1>1. NothingStranded
        BY DEF Kept, Served, NothingStranded
  <1>2. PreviewsOnlyWhileActive
        BY DEF IInv, TypeOK, Ownership, PreviewsOnlyWhileActive, WorkersAt
  <1>3. active \subseteq WorkersAt(Holding)
        BY DEF IInv, TypeOK, Ownership, WorkersAt, Registered, Holding
  <1>4. AtMost(active, MaxRunning)
        BY <1>3, AtMostShrinks, ManagerAssumption DEF Kept
  <1>5. QED
        BY <1>1, <1>2, <1>4 DEF AtMost, ActiveBounded, Sound

(* No job is left behind by submit(), run(), open() or a sweep: a queued row *)
(* has a task or a handler about to spawn one and a running row its worker,  *)
(* unless a fault cut that one short; no preview outlives its worker, and    *)
(* active never holds more than max_running jobs (Sound).                    *)
THEOREM NothingIsStranded == Spec => []Sound
  <1>1. Spec => [](IInv /\ Kept)
        BY InvInit, InvStep, KeptInit, KeptStep, PTL DEF Spec
  <1>2. QED
        BY <1>1, KeptIsSound, PTL
-----------------------------------------------------------------------------

(***************************************************************************)
(* A negotiation under way, and what one of its steps may have done to it: *)
(* a step touches the one field that it is about.                          *)
(***************************************************************************)
Fields ==
  {"prompt", "negative", "kind", "images", "mask", "references", "inputs", "identifiers", "n", "size",
   "aspect", "resolution", "quality", "format", "compression", "background", "moderation", "partials",
   "policy", "fidelity", "action", "model", "provider", "fallbacks", "fallback", "session", "key",
   "thread", "rendering", "directory", "filename", "prefix", "collision", "metadata", "transparency",
   "keyColor", "thresholds", "compatibility", "negativeMode", "revised", "batch", "timeout", "user",
   "idempotency"}

Listed(list) == \E S : list \in Seq(S)

Talking(talk) ==
  /\ DOMAIN talk = {"request", "notes", "refused"}
  /\ DOMAIN talk.request = Fields
  /\ Listed(talk.notes)

Touched(talk, next, fields) ==
  Talking(next) /\ \A field \in Fields \ fields : next.request[field] = talk.request[field]

LEMMA PlainFields == DOMAIN Plain = Fields
  BY DEF Plain, Fields

LEMMA Startable ==
  ASSUME NEW r, DOMAIN r = Fields
  PROVE  Talking(Start(r)) /\ Start(r).request = r /\ Start(r).refused = None
  <1>1. <<>> \in Seq({})
        OBVIOUS
  <1> QED BY <1>1 DEF Talking, Start, Listed

LEMMA AppendListed ==
  ASSUME NEW list, Listed(list), NEW x
  PROVE  Listed(Append(list, x))
  <1>1. PICK S : list \in Seq(S)
        BY DEF Listed
  <1>2. Append(list, x) \in Seq(S \cup {x})
        BY <1>1
  <1> QED BY <1>2 DEF Listed

LEMMA ChangeTouches ==
  ASSUME NEW talk, Talking(talk), NEW field \in Fields, NEW value
  PROVE  /\ Touched(talk, Change(talk, field, value), {field})
         /\ Change(talk, field, value).request[field] = value
         /\ Change(talk, field, value).refused = talk.refused
  <1> DEFINE note == Note(field, talk.request[field], value)
             turned == [talk.request EXCEPT ![field] = value]
             next == Change(talk, field, value)
  <1>1. /\ DOMAIN next = {"request", "notes", "refused"} /\ next.request = turned
        /\ next.notes = Append(talk.notes, note) /\ next.refused = talk.refused
        BY DEF Change, Talking
  <1>2. Listed(Append(talk.notes, note))
        BY AppendListed DEF Talking
  <1>3. /\ DOMAIN turned = Fields /\ turned[field] = value
        /\ \A f \in Fields \ {field} : turned[f] = talk.request[f]
        BY DEF Talking
  <1> HIDE DEF note, turned, next
  <1> SUFFICES /\ Touched(talk, next, {field}) /\ next.request[field] = value
               /\ next.refused = talk.refused
      BY DEF next
  <1> QED BY <1>1, <1>2, <1>3 DEF Talking, Touched

LEMMA RefuseRefuses ==
  ASSUME NEW talk, Talking(talk), NEW field \in Refusable
  PROVE  Refuse(talk, field).refused # None
  BY NoneAssumption DEF Refuse, Talking

LEMMA NormalizeTouches ==
  ASSUME NEW talk, Talking(talk), NEW field \in Fields, NEW value,
         Normalize(talk, field, value).refused = None
  PROVE  /\ Touched(talk, Normalize(talk, field, value), {field})
         /\ Normalize(talk, field, value).request[field] = value
  <1>1. field \in Refusable
        BY PlainFields DEF Refusable
  <1> QED BY <1>1, ChangeTouches, RefuseRefuses DEF Normalize


LEMMA TouchedByNothing ==
  ASSUME NEW talk, Talking(talk), NEW fields
  PROVE  Touched(talk, talk, fields)
  BY DEF Touched

LEMMA TouchedTwice ==
  ASSUME NEW a, NEW b, NEW c, NEW H, NEW F \in SUBSET H, NEW G \in SUBSET H,
         Touched(a, b, F), Touched(b, c, G)
  PROVE  Touched(a, c, H)
  BY DEF Touched

(***************************************************************************)
(* What a provider must offer for a negotiation to end well, and what the  *)
(* request is like when it has.                                            *)
(***************************************************************************)
Span(range) == range.min \in Int /\ range.max \in Int /\ range.min <= range.max

Generous(caps) ==
  /\ "auto" \in caps.actions /\ "auto" \in caps.qualities /\ "auto" \in caps.backgrounds
  /\ "auto" \in caps.moderation /\ "png" \in caps.formats /\ caps.sizes.auto
  /\ Span(caps.count) /\ Span(caps.partials)

Uncompressed(r) == r.compression = None \/ r.format # "png"
Unmerged(r, level) ==
  \/ r.negative = None
  \/ /\ ~(r.negativeMode = "reject" \/ (r.negativeMode = "native" /\ level # "native")
          \/ (r.negativeMode = "auto" /\ level = "unsupported"))
     /\ ~(r.negativeMode = "merge" \/ (r.negativeMode = "auto" /\ level = "emulated"))

Answerable(r, caps) ==
  /\ Unmet(r, caps) = {}
  /\ r.action \in caps.actions
  /\ InRange(r.n, caps.count)
  /\ SizeSupported(r.size, caps.sizes)
  /\ ~r.aspect \/ caps.aspect
  /\ ~r.resolution \/ caps.resolution
  /\ r.quality \in caps.qualities
  /\ r.format \in caps.formats
  /\ Uncompressed(r)
  /\ r.background \in caps.backgrounds
  /\ r.moderation \in caps.moderation
  /\ InRange(r.partials, caps.partials)
  /\ Unmerged(r, caps.negative)

LEMMA ActionTouches ==
  ASSUME NEW talk, Talking(talk), NEW caps, Generous(caps), Action(talk, caps).refused = None
  PROVE  /\ talk.refused = None /\ Touched(talk, Action(talk, caps), {"action"})
         /\ Action(talk, caps).request.action \in caps.actions
  <1>0. talk.refused = None
        BY DEF Action, Declined
  <1>1. "action" \in Fields
        BY DEF Fields
  <1>2. CASE talk.request.action \in caps.actions
        BY <1>0, <1>2, TouchedByNothing DEF Declined, Action
  <1>3. CASE talk.request.action \notin caps.actions
        <2>1. Action(talk, caps) = Change(talk, "action", "auto")
              BY <1>0, <1>3 DEF Declined, Action, Generous
        <2> QED BY <1>0, <2>1, <1>1, ChangeTouches DEF Generous
  <1> QED BY <1>0, <1>2, <1>3

LEMMA RangedTouches ==
  ASSUME NEW talk, Talking(talk), NEW field \in Fields, NEW range, Span(range),
         talk.request[field] \in Int, Ranged(talk, field, range).refused = None
  PROVE  /\ talk.refused = None /\ Touched(talk, Ranged(talk, field, range), {field})
         /\ InRange(Ranged(talk, field, range).request[field], range)
         /\ Ranged(talk, field, range).request[field] \in Int
  <1>0. talk.refused = None
        BY DEF Ranged, Declined
  <1> DEFINE value == Clamp(talk.request[field], range)
  <1>1. value \in Int /\ InRange(value, range)
        BY DEF Span, Clamp, InRange
  <1>2. CASE InRange(talk.request[field], range)
        BY <1>0, <1>2, TouchedByNothing DEF Declined, Ranged
  <1>3. CASE ~InRange(talk.request[field], range)
        <2>1. Ranged(talk, field, range) = Normalize(talk, field, value)
              BY <1>0, <1>3 DEF Declined, Ranged
        <2> HIDE DEF value
        <2> QED BY <1>0, <2>1, <1>1, NormalizeTouches
  <1> QED BY <1>0, <1>2, <1>3

LEMMA SizeTouches ==
  ASSUME NEW talk, Talking(talk), NEW sizes, sizes.auto, Size(talk, sizes).refused = None
  PROVE  /\ talk.refused = None /\ Touched(talk, Size(talk, sizes), {"size"})
         /\ SizeSupported(Size(talk, sizes).request.size, sizes)
  <1>0. talk.refused = None
        BY DEF Size, Declined
  <1>1. "size" \in Fields
        BY DEF Fields
  <1>2. SizeSupported(<<>>, sizes)
        BY DEF SizeSupported, IsAuto
  <1>3. CASE SizeSupported(talk.request.size, sizes)
        BY <1>0, <1>3, TouchedByNothing DEF Declined, Size
  <1>4. CASE ~SizeSupported(talk.request.size, sizes)
        <2>1. ~IsAuto(talk.request.size)
              BY <1>4, <1>2 DEF IsAuto
        <2>2. Size(talk, sizes) = Normalize(talk, "size", <<>>)
              BY <1>0, <1>4, <2>1 DEF Declined, Size
        <2>3. /\ Touched(talk, Normalize(talk, "size", <<>>), {"size"})
              /\ Normalize(talk, "size", <<>>).request["size"] = <<>>
              BY <2>2, <1>1, NormalizeTouches
        <2> QED BY <1>0, <2>2, <2>3, <1>2
  <1> QED BY <1>0, <1>3, <1>4

LEMMA HintTouches ==
  ASSUME NEW talk, Talking(talk), NEW field \in Fields, NEW supported,
         Hint(talk, field, supported).refused = None
  PROVE  /\ talk.refused = None /\ Touched(talk, Hint(talk, field, supported), {field})
         /\ ~Hint(talk, field, supported).request[field] \/ supported
  <1>0. talk.refused = None
        BY DEF Hint, Declined
  <1>1. CASE ~talk.request[field] \/ supported
        BY <1>0, <1>1, TouchedByNothing DEF Declined, Hint
  <1>2. CASE ~(~talk.request[field] \/ supported)
        <2>1. Hint(talk, field, supported) = Normalize(talk, field, FALSE)
              BY <1>0, <1>2 DEF Declined, Hint
        <2>2. Normalize(talk, field, FALSE).refused = None
              BY <2>1
        <2>3. /\ Touched(talk, Normalize(talk, field, FALSE), {field})
              /\ Normalize(talk, field, FALSE).request[field] = FALSE
              <3>1. \A value : Normalize(talk, field, value).refused = None
                      => /\ Touched(talk, Normalize(talk, field, value), {field})
                         /\ Normalize(talk, field, value).request[field] = value
                    BY NormalizeTouches
              <3> QED BY <2>2, <3>1, Zenon
        <2> QED BY <1>0, <2>1, <2>3
  <1> QED BY <1>0, <1>1, <1>2

LEMMA OneOfTouches ==
  ASSUME NEW talk, Talking(talk), NEW field \in Fields, NEW allowed, NEW preferred \in allowed, NEW order,
         OneOf(talk, field, allowed, preferred, order).refused = None
  PROVE  /\ talk.refused = None /\ Touched(talk, OneOf(talk, field, allowed, preferred, order), {field})
         /\ OneOf(talk, field, allowed, preferred, order).request[field] \in allowed
  <1>0. talk.refused = None
        BY DEF OneOf, Declined
  <1>1. CASE talk.request[field] \in allowed
        <2>1. OneOf(talk, field, allowed, preferred, order) = talk
              BY <1>0, <1>1 DEF Declined, OneOf
        <2> QED BY <1>0, <2>1, <1>1, TouchedByNothing
  <1>2. CASE talk.request[field] \notin allowed
        <2>1. OneOf(talk, field, allowed, preferred, order) = Normalize(talk, field, preferred)
              BY <1>0, <1>2 DEF Declined, OneOf
        <2> QED BY <1>0, <2>1, NormalizeTouches
  <1> QED BY <1>0, <1>1, <1>2

LEMMA CompressionTouches ==
  ASSUME NEW talk, Talking(talk), Compression(talk).refused = None
  PROVE  /\ talk.refused = None /\ Touched(talk, Compression(talk), {"compression"})
         /\ Uncompressed(Compression(talk).request)
  <1>0. talk.refused = None
        BY DEF Compression, Declined
  <1>1. "compression" \in Fields /\ "format" \in Fields
        BY DEF Fields
  <1>2. CASE Uncompressed(talk.request)
        BY <1>0, <1>2, TouchedByNothing DEF Declined, Compression, Uncompressed
  <1>3. CASE ~Uncompressed(talk.request)
        <2>1. Compression(talk) = Normalize(talk, "compression", None)
              BY <1>0, <1>3 DEF Declined, Compression, Uncompressed
        <2> QED BY <1>0, <2>1, <1>1, NormalizeTouches DEF Uncompressed
  <1> QED BY <1>0, <1>2, <1>3

LEMMA MergeTouches ==
  ASSUME NEW talk, Talking(talk)
  PROVE  /\ Touched(talk, Merge(talk), {"prompt", "negative"})
         /\ Merge(talk).request.negative = None
         /\ Merge(talk).request.prompt = talk.request.prompt + MergePrompt + talk.request.negative
  <1> DEFINE note == Note("negative", TRUE, "merged")
             next == Merge(talk)
  <1>1. /\ DOMAIN next = {"request", "notes", "refused"} /\ next.notes = Append(talk.notes, note)
        /\ DOMAIN next.request = Fields
        BY DEF Merge, Talking
  <1>2. Listed(Append(talk.notes, note))
        BY AppendListed DEF Talking
  <1>3. /\ \A f \in Fields \ {"prompt", "negative"} : next.request[f] = talk.request[f]
        /\ next.request.negative = None
        /\ next.request.prompt = talk.request.prompt + MergePrompt + talk.request.negative
        <2>1. "prompt" \in Fields /\ "negative" \in Fields
              BY DEF Fields
        <2> QED BY <2>1 DEF Merge, Talking
  <1> HIDE DEF note, next
  <1> SUFFICES /\ Touched(talk, next, {"prompt", "negative"})
               /\ next.request.negative = None
               /\ next.request.prompt = talk.request.prompt + MergePrompt + talk.request.negative
      BY DEF next
  <1> QED BY <1>1, <1>2, <1>3 DEF Talking, Touched

LEMMA NegativeTouches ==
  ASSUME NEW talk, Talking(talk), NEW level, Negative(talk, level).refused = None
  PROVE  /\ talk.refused = None /\ Touched(talk, Negative(talk, level), {"prompt", "negative"})
         /\ Unmerged(Negative(talk, level).request, level)
  <1>0. talk.refused = None
        BY DEF Negative, Declined
  <1>1. CASE Unmerged(talk.request, level)
        <2>1. talk.request.negative = None => Negative(talk, level) = talk
              BY <1>0 DEF Declined, Negative
        <2>2. talk.request.negative # None => Negative(talk, level) = talk
              BY <1>0, <1>1 DEF Declined, Negative, Unmerged
        <2>3. Negative(talk, level) = talk
              BY <2>1, <2>2
        <2> QED BY <1>0, <2>3, <1>1, TouchedByNothing
  <1>2. CASE ~Unmerged(talk.request, level)
        <2>1. "negative" \in Refusable
              BY DEF Refusable, Plain
        <2>2. Negative(talk, level) = Merge(talk)
              BY <1>0, <1>2, <2>1, RefuseRefuses DEF Declined, Negative, Unmerged
        <2> QED BY <1>0, <2>2, MergeTouches DEF Unmerged
  <1> QED BY <1>0, <1>1, <1>2

LEMMA UnmetNames ==
  ASSUME NEW r, NEW caps
  PROVE  Unmet(r, caps) \subseteq Refusable
  <1> DEFINE names == {"routing.model", "operation", "reference_images", "images", "mask", "session.mode",
                       "user", "parameters.input_fidelity", "policies.revised_prompt"}
             model == r.model \notin {None, caps.model} /\ caps.model # None
             operation == IF r.kind = "edit" THEN ~caps.edits ELSE ~caps.generation
             references == r.references > caps.references
             images == r.kind = "edit" /\ r.images > caps.images
             mask == r.mask /\ ~caps.masks
             session == \/ r.session = "persistent" /\ ~caps.sessions
                        \/ r.session = "thread" /\ ~caps.threads
             user == r.user /\ ~caps.user
             fidelity == r.fidelity \notin {None} \cup caps.fidelities
             revised == r.revised = "require" /\ ~caps.revised
             checks == {<<"routing.model", model>>, <<"operation", operation>>,
                        <<"reference_images", references>>, <<"images", images>>, <<"mask", mask>>,
                        <<"session.mode", session>>, <<"user", user>>,
                        <<"parameters.input_fidelity", fidelity>>, <<"policies.revised_prompt", revised>>}
  <1>1. Unmet(r, caps) = {pair[1] : pair \in {check \in checks : check[2]}}
        BY DEF Unmet
  <1> HIDE DEF model, operation, references, images, mask, session, user, fidelity, revised
  <1>2. \A check \in checks : check[1] \in names
        OBVIOUS
  <1> HIDE DEF checks
  <1>3. Unmet(r, caps) \subseteq names
        BY <1>1, <1>2
  <1>4. names \subseteq Refusable
        BY PlainFields DEF Refusable, Fields
  <1> QED BY <1>3, <1>4

LEMMA UnmetSame ==
  ASSUME NEW r, NEW s, NEW caps,
         s.model = r.model, s.kind = r.kind, s.references = r.references, s.images = r.images,
         s.mask = r.mask, s.session = r.session, s.user = r.user, s.fidelity = r.fidelity,
         s.revised = r.revised
  PROVE  Unmet(s, caps) = Unmet(r, caps)
  BY DEF Unmet

LEMMA Open ==
  ASSUME NEW talk, NEW caps
  PROVE  /\ Action(talk, caps).refused = None => talk.refused = None
         /\ \A field, range : Ranged(talk, field, range).refused = None => talk.refused = None
         /\ \A sizes : Size(talk, sizes).refused = None => talk.refused = None
         /\ \A field, supported : Hint(talk, field, supported).refused = None => talk.refused = None
         /\ \A field, allowed, preferred, order :
              OneOf(talk, field, allowed, preferred, order).refused = None => talk.refused = None
         /\ Compression(talk).refused = None => talk.refused = None
         /\ \A level : Negative(talk, level).refused = None => talk.refused = None
  <1>1. Action(talk, caps).refused = None => talk.refused = None
        BY DEF Action, Declined
  <1>2. \A field, range : Ranged(talk, field, range).refused = None => talk.refused = None
        BY DEF Ranged, Declined
  <1>3. \A sizes : Size(talk, sizes).refused = None => talk.refused = None
        BY DEF Size, Declined
  <1>4. \A field, supported : Hint(talk, field, supported).refused = None => talk.refused = None
        BY DEF Hint, Declined
  <1>5. \A field, allowed, preferred, order :
          OneOf(talk, field, allowed, preferred, order).refused = None => talk.refused = None
        BY DEF OneOf, Declined
  <1>6. Compression(talk).refused = None => talk.refused = None
        BY DEF Compression, Declined
  <1>7. \A level : Negative(talk, level).refused = None => talk.refused = None
        BY DEF Negative, Declined
  <1> QED BY <1>1, <1>2, <1>3, <1>4, <1>5, <1>6, <1>7

(***************************************************************************)
(* A negotiation that ends well: the stages of Negotiate(), each of which  *)
(* leaves in order what the ones before it have put in order.              *)
(***************************************************************************)
Changeable ==
  {"action", "n", "size", "aspect", "resolution", "quality", "format", "compression", "background",
   "moderation", "partials", "prompt", "negative"}

LEMMA NegotiatedWell ==
  ASSUME NEW r, DOMAIN r = Fields, r.n \in Int, r.partials \in Int, NEW caps, Generous(caps),
         Negotiate(r, caps).refused = None
  PROVE  /\ Answerable(Negotiate(r, caps).request, caps)
         /\ Touched(Start(r), Negotiate(r, caps), Changeable)
         /\ Negotiate(r, caps).request.n \in Int
  <1> DEFINE able == Able(r, caps)
             action == Action(able, caps)
             count == Ranged(action, "n", caps.count)
             size == Size(count, caps.sizes)
             aspect == Hint(size, "aspect", caps.aspect)
             resolution == Hint(aspect, "resolution", caps.resolution)
             quality == OneOf(resolution, "quality", caps.qualities, "auto", Qualities)
             format == OneOf(quality, "format", caps.formats, "png", Formats)
             compression == Compression(format)
             background == OneOf(compression, "background", caps.backgrounds, "auto", Backgrounds)
             moderation == OneOf(background, "moderation", caps.moderation, "auto", Moderations)
             partial == Ranged(moderation, "partials", caps.partials)
             last == Negative(partial, caps.negative)
  <1>1. last = Negotiate(r, caps)
        BY DEF Negotiate
  <1> HIDE DEF able, action, count, size, aspect, resolution, quality, format, compression, background, moderation, partial, last
  <1>2. last.refused = None
        BY <1>1
  <1>3. partial.refused = None
        BY <1>2, Open DEF last
  <1>4. moderation.refused = None
        BY <1>3, Open DEF partial
  <1>5. background.refused = None
        BY <1>4, Open DEF moderation
  <1>6. compression.refused = None
        BY <1>5, Open DEF background
  <1>7. format.refused = None
        BY <1>6, Open DEF compression
  <1>8. quality.refused = None
        BY <1>7, Open DEF format
  <1>9. resolution.refused = None
        BY <1>8, Open DEF quality
  <1>10. aspect.refused = None
        BY <1>9, Open DEF resolution
  <1>11. size.refused = None
        BY <1>10, Open DEF aspect
  <1>12. count.refused = None
        BY <1>11, Open DEF size
  <1>13. action.refused = None
        BY <1>12, Open DEF count
  <1>14. able.refused = None
        BY <1>13, Open DEF action
  <1>15. Unmet(r, caps) = {} /\ able = Start(r)
        <2>1. Unmet(r, caps) \subseteq Refusable
              BY UnmetNames
        <2>2. Unmet(r, caps) # {} => (CHOOSE field \in Unmet(r, caps) : TRUE) \in Refusable
              BY <2>1
        <2>3. Unmet(r, caps) # {} => able.refused # None
              BY <2>2, Startable, RefuseRefuses DEF Able, able
        <2> QED BY <2>3, <1>14 DEF Able, able
  <1>16. Talking(able) /\ Touched(Start(r), able, {}) /\ able.request = r
        BY <1>15, Startable, TouchedByNothing
  <1>17. /\ "n" \in Fields /\ "aspect" \in Fields /\ "resolution" \in Fields /\ "quality" \in Fields
        /\ "format" \in Fields /\ "background" \in Fields /\ "moderation" \in Fields /\ "partials" \in Fields
        BY DEF Fields
  <1>18. /\ Talking(action) /\ Touched(able, action, {"action"})
        /\ action.request.action \in caps.actions
        /\ Touched(Start(r), action, {"action"})
        <2>1. Talking(able)
              BY <1>16
        <2>2. Touched(able, action, {"action"}) /\ action.request.action \in caps.actions
              BY <2>1, <1>13, <1>17, ActionTouches DEF action, Generous
        <2> QED BY <2>2, <1>16, TouchedTwice DEF Touched
  <1>19. /\ Talking(count) /\ Touched(action, count, {"n"})
        /\ InRange(count.request.n, caps.count) /\ count.request.n \in Int
        /\ Touched(Start(r), count, {"action", "n"})
        <2>1. Talking(action)
              BY <1>18
        <2>2. action.request["n"] \in Int
              BY <1>18, Startable, <1>17 DEF Touched
        <2>3. Touched(action, count, {"n"}) /\ InRange(count.request.n, caps.count) /\ count.request.n \in Int
              BY <2>1, <2>2, <1>12, <1>17, RangedTouches DEF count, Generous
        <2> QED BY <2>3, <1>18, TouchedTwice DEF Touched
  <1>20. /\ Talking(size) /\ Touched(count, size, {"size"})
        /\ SizeSupported(size.request.size, caps.sizes)
        /\ Touched(Start(r), size, {"action", "n", "size"})
        <2>1. Talking(count)
              BY <1>19
        <2>2. Touched(count, size, {"size"}) /\ SizeSupported(size.request.size, caps.sizes)
              BY <2>1, <1>11, <1>17, SizeTouches DEF size, Generous
        <2> QED BY <2>2, <1>19, TouchedTwice DEF Touched
  <1>21. /\ Talking(aspect) /\ Touched(size, aspect, {"aspect"})
        /\ (~aspect.request.aspect \/ caps.aspect)
        /\ Touched(Start(r), aspect, {"action", "n", "size", "aspect"})
        <2>1. Talking(size)
              BY <1>20
        <2>2. Touched(size, aspect, {"aspect"}) /\ (~aspect.request.aspect \/ caps.aspect)
              BY <2>1, <1>10, <1>17, HintTouches DEF aspect, Generous
        <2> QED BY <2>2, <1>20, TouchedTwice DEF Touched
  <1>22. /\ Talking(resolution) /\ Touched(aspect, resolution, {"resolution"})
        /\ (~resolution.request.resolution \/ caps.resolution)
        /\ Touched(Start(r), resolution, {"action", "n", "size", "aspect", "resolution"})
        <2>1. Talking(aspect)
              BY <1>21
        <2>2. Touched(aspect, resolution, {"resolution"}) /\ (~resolution.request.resolution \/ caps.resolution)
              BY <2>1, <1>9, <1>17, HintTouches DEF resolution, Generous
        <2> QED BY <2>2, <1>21, TouchedTwice DEF Touched
  <1>23. /\ Talking(quality) /\ Touched(resolution, quality, {"quality"})
        /\ quality.request.quality \in caps.qualities
        /\ Touched(Start(r), quality, {"action", "n", "size", "aspect", "resolution", "quality"})
        <2>1. Talking(resolution)
              BY <1>22
        <2>2. Touched(resolution, quality, {"quality"}) /\ quality.request.quality \in caps.qualities
              BY <2>1, <1>8, <1>17, OneOfTouches DEF quality, Generous
        <2> QED BY <2>2, <1>22, TouchedTwice DEF Touched
  <1>24. /\ Talking(format) /\ Touched(quality, format, {"format"})
        /\ format.request.format \in caps.formats
        /\ Touched(Start(r), format, {"action", "n", "size", "aspect", "resolution", "quality",
                                   "format"})
        <2>1. Talking(quality)
              BY <1>23
        <2>2. Touched(quality, format, {"format"}) /\ format.request.format \in caps.formats
              BY <2>1, <1>7, <1>17, OneOfTouches DEF format, Generous
        <2> QED BY <2>2, <1>23, TouchedTwice DEF Touched
  <1>25. /\ Talking(compression) /\ Touched(format, compression, {"compression"})
        /\ Uncompressed(compression.request)
        /\ Touched(Start(r), compression, {"action", "n", "size", "aspect", "resolution", "quality",
                                   "format", "compression"})
        <2>1. Talking(format)
              BY <1>24
        <2>2. Touched(format, compression, {"compression"}) /\ Uncompressed(compression.request)
              BY <2>1, <1>6, <1>17, CompressionTouches DEF compression, Generous
        <2> QED BY <2>2, <1>24, TouchedTwice DEF Touched
  <1>26. /\ Talking(background) /\ Touched(compression, background, {"background"})
        /\ background.request.background \in caps.backgrounds
        /\ Touched(Start(r), background, {"action", "n", "size", "aspect", "resolution", "quality",
                                   "format", "compression", "background"})
        <2>1. Talking(compression)
              BY <1>25
        <2>2. Touched(compression, background, {"background"}) /\ background.request.background \in caps.backgrounds
              BY <2>1, <1>5, <1>17, OneOfTouches DEF background, Generous
        <2> QED BY <2>2, <1>25, TouchedTwice DEF Touched
  <1>27. /\ Talking(moderation) /\ Touched(background, moderation, {"moderation"})
        /\ moderation.request.moderation \in caps.moderation
        /\ Touched(Start(r), moderation, {"action", "n", "size", "aspect", "resolution", "quality",
                                   "format", "compression", "background", "moderation"})
        <2>1. Talking(background)
              BY <1>26
        <2>2. Touched(background, moderation, {"moderation"}) /\ moderation.request.moderation \in caps.moderation
              BY <2>1, <1>4, <1>17, OneOfTouches DEF moderation, Generous
        <2> QED BY <2>2, <1>26, TouchedTwice DEF Touched
  <1>28. /\ Talking(partial) /\ Touched(moderation, partial, {"partials"})
        /\ InRange(partial.request.partials, caps.partials)
        /\ Touched(Start(r), partial, {"action", "n", "size", "aspect", "resolution", "quality",
                                   "format", "compression", "background", "moderation", "partials"})
        <2>1. Talking(moderation)
              BY <1>27
        <2>2. moderation.request["partials"] \in Int
              BY <1>27, Startable, <1>17 DEF Touched
        <2>3. Touched(moderation, partial, {"partials"}) /\ InRange(partial.request.partials, caps.partials)
              BY <2>1, <2>2, <1>3, <1>17, RangedTouches DEF partial, Generous
        <2> QED BY <2>3, <1>27, TouchedTwice DEF Touched
  <1>29. /\ Talking(last) /\ Touched(partial, last, {"prompt", "negative"})
        /\ Unmerged(last.request, caps.negative)
        /\ Touched(Start(r), last, {"action", "n", "size", "aspect", "resolution", "quality",
                                   "format", "compression", "background", "moderation", "partials", "prompt", "negative"})
        <2>1. Talking(partial)
              BY <1>28
        <2>2. Touched(partial, last, {"prompt", "negative"}) /\ Unmerged(last.request, caps.negative)
              BY <2>1, <1>2, <1>17, NegativeTouches DEF last, Generous
        <2> QED BY <2>2, <1>28, TouchedTwice DEF Touched
  <1>30. Touched(partial, last, {"prompt", "negative"})
        BY <1>29
  <1>31. Touched(moderation, last, {"partials", "prompt", "negative"})
        BY <1>28, <1>30, TouchedTwice
  <1>32. Touched(background, last, {"moderation", "partials", "prompt", "negative"})
        BY <1>27, <1>31, TouchedTwice
  <1>33. Touched(compression, last, {"background", "moderation", "partials", "prompt", "negative"})
        BY <1>26, <1>32, TouchedTwice
  <1>34. Touched(format, last, {"compression", "background", "moderation", "partials", "prompt", "negative"})
        BY <1>25, <1>33, TouchedTwice
  <1>35. Touched(quality, last, {"format", "compression", "background", "moderation", "partials", "prompt",
                               "negative"})
        BY <1>24, <1>34, TouchedTwice
  <1>36. Touched(resolution, last, {"quality", "format", "compression", "background", "moderation", "partials",
                               "prompt", "negative"})
        BY <1>23, <1>35, TouchedTwice
  <1>37. Touched(aspect, last, {"resolution", "quality", "format", "compression", "background", "moderation",
                               "partials", "prompt", "negative"})
        BY <1>22, <1>36, TouchedTwice
  <1>38. Touched(size, last, {"aspect", "resolution", "quality", "format", "compression", "background",
                               "moderation", "partials", "prompt", "negative"})
        BY <1>21, <1>37, TouchedTwice
  <1>39. Touched(count, last, {"size", "aspect", "resolution", "quality", "format", "compression",
                               "background", "moderation", "partials", "prompt", "negative"})
        BY <1>20, <1>38, TouchedTwice
  <1>40. Touched(action, last, {"n", "size", "aspect", "resolution", "quality", "format",
                               "compression", "background", "moderation", "partials", "prompt", "negative"})
        BY <1>19, <1>39, TouchedTwice
  <1>41. Unmet(last.request, caps) = Unmet(r, caps)
        <2>1. /\ last.request.model = r.model /\ last.request.kind = r.kind
              /\ last.request.references = r.references /\ last.request.images = r.images
              /\ last.request.mask = r.mask /\ last.request.session = r.session
              /\ last.request.user = r.user /\ last.request.fidelity = r.fidelity
              /\ last.request.revised = r.revised
              BY <1>29, Startable DEF Touched, Fields
        <2> QED BY <2>1, UnmetSame
  <1>42. last.request.action \in caps.actions
        BY <1>18, <1>40 DEF Touched, Fields
  <1>43. InRange(last.request.n, caps.count) /\ last.request.n \in Int
        BY <1>19, <1>39 DEF Touched, Fields
  <1>44. SizeSupported(last.request.size, caps.sizes)
        BY <1>20, <1>38 DEF Touched, Fields
  <1>45. (~last.request.aspect \/ caps.aspect)
        BY <1>21, <1>37 DEF Touched, Fields
  <1>46. (~last.request.resolution \/ caps.resolution)
        BY <1>22, <1>36 DEF Touched, Fields
  <1>47. last.request.quality \in caps.qualities
        BY <1>23, <1>35 DEF Touched, Fields
  <1>48. last.request.format \in caps.formats
        BY <1>24, <1>34 DEF Touched, Fields
  <1>49. Uncompressed(last.request)
        BY <1>25, <1>33 DEF Touched, Fields, Uncompressed
  <1>50. last.request.background \in caps.backgrounds
        BY <1>26, <1>32 DEF Touched, Fields
  <1>51. last.request.moderation \in caps.moderation
        BY <1>27, <1>31 DEF Touched, Fields
  <1>52. InRange(last.request.partials, caps.partials)
        BY <1>28, <1>30 DEF Touched, Fields
  <1>53. Answerable(last.request, caps)
        BY <1>15, <1>41, <1>42, <1>43, <1>44, <1>45, <1>46, <1>47, <1>48, <1>49, <1>50, <1>51, <1>52, <1>29 DEF Answerable
  <1>54. Touched(Start(r), last, Changeable)
        BY <1>29 DEF Touched, Changeable
  <1> QED BY <1>1, <1>53, <1>54, <1>43

(***************************************************************************)
(* What has been negotiated well is not changed by negotiating it again.   *)
(***************************************************************************)
LEMMA Settled ==
  ASSUME NEW r, NEW caps, Answerable(r, caps)
  PROVE  Negotiate(r, caps) = Start(r)
  <1> DEFINE start == Start(r)
             able == Able(r, caps)
             action == Action(able, caps)
             count == Ranged(action, "n", caps.count)
             size == Size(count, caps.sizes)
             aspect == Hint(size, "aspect", caps.aspect)
             resolution == Hint(aspect, "resolution", caps.resolution)
             quality == OneOf(resolution, "quality", caps.qualities, "auto", Qualities)
             format == OneOf(quality, "format", caps.formats, "png", Formats)
             compression == Compression(format)
             background == OneOf(compression, "background", caps.backgrounds, "auto", Backgrounds)
             moderation == OneOf(background, "moderation", caps.moderation, "auto", Moderations)
             partial == Ranged(moderation, "partials", caps.partials)
             last == Negative(partial, caps.negative)
  <1>1. last = Negotiate(r, caps)
        BY DEF Negotiate
  <1>2. start.request = r /\ ~Declined(start)
        BY DEF Start, Declined
  <1>3. able = start
        BY DEF Able, Answerable
  <1> HIDE DEF start, able, action, count, size, aspect, resolution, quality, format, compression, background, moderation, partial, last
  <1>4. action = start
        BY <1>2, <1>3 DEF action, Action, Answerable
  <1>5. count = start
        BY <1>2, <1>4 DEF count, Ranged, Answerable
  <1>6. size = start
        BY <1>2, <1>5 DEF size, Size, Answerable
  <1>7. aspect = start
        BY <1>2, <1>6 DEF aspect, Hint, Answerable
  <1>8. resolution = start
        BY <1>2, <1>7 DEF resolution, Hint, Answerable
  <1>9. quality = start
        BY <1>2, <1>8 DEF quality, OneOf, Answerable
  <1>10. format = start
        BY <1>2, <1>9 DEF format, OneOf, Answerable
  <1>11. compression = start
        BY <1>2, <1>10 DEF compression, Compression, Answerable, Uncompressed
  <1>12. background = start
        BY <1>2, <1>11 DEF background, OneOf, Answerable
  <1>13. moderation = start
        BY <1>2, <1>12 DEF moderation, OneOf, Answerable
  <1>14. partial = start
        BY <1>2, <1>13 DEF partial, Ranged, Answerable
  <1>15. last = start
        <2>1. start.request.negative = None => last = start
              BY <1>2, <1>14 DEF last, Negative
        <2>2. start.request.negative # None => last = start
              BY <1>2, <1>14 DEF last, Negative, Answerable, Unmerged
        <2> QED BY <2>1, <2>2
  <1> QED BY <1>1, <1>15 DEF start

(***************************************************************************)
(* Both providers are generous.                                            *)
(***************************************************************************)
LEMMA AppServerIsGenerous ==
  /\ Generous(AppServerCaps) /\ AppServerCaps.count.max = 1 /\ AppServerCaps.count.min = 1
  BY DEF Generous, AppServerCaps, Span

LEMMA EffectiveIsGenerous ==
  ASSUME NEW provider, provider.max_outputs \in Int, 1 <= provider.max_outputs
  PROVE  /\ Generous(Effective(AppServerCaps, provider))
         /\ Effective(AppServerCaps, provider).count.min = 1
  <1>1. CASE provider.max_outputs <= AppServerCaps.count.max
        BY <1>1, AppServerIsGenerous DEF Effective
  <1>2. CASE ~(provider.max_outputs <= AppServerCaps.count.max)
        <2> DEFINE batch == [mode |-> "fan_out", min |-> AppServerCaps.count.min,
                             max |-> AppServerCaps.count.max, parallel |-> Parallel(provider)]
                   caps == [AppServerCaps EXCEPT !.count.max = provider.max_outputs, !.batching = batch]
        <2>1. Effective(AppServerCaps, provider) = caps
              BY <1>2 DEF Effective
        <2> HIDE DEF batch
        <2>2. caps.count.max = provider.max_outputs /\ caps.count.min = 1
              BY DEF AppServerCaps
        <2>3. /\ caps.actions = AppServerCaps.actions /\ caps.qualities = AppServerCaps.qualities
              /\ caps.backgrounds = AppServerCaps.backgrounds /\ caps.formats = AppServerCaps.formats
              /\ caps.moderation = AppServerCaps.moderation /\ caps.sizes = AppServerCaps.sizes
              /\ caps.partials = AppServerCaps.partials
              BY DEF AppServerCaps
        <2> HIDE DEF caps
        <2> QED BY <2>1, <2>2, <2>3, AppServerIsGenerous DEF Generous, Span
  <1> QED BY <1>1, <1>2

LEMMA ResponsesIsGenerous ==
  ASSUME NEW model, NEW provider, provider.max_outputs \in Int, 1 <= provider.max_outputs
  PROVE  /\ Generous(ResponsesCaps(model, provider))
         /\ ResponsesCaps(model, provider).count.min = 1
  BY DEF Generous, ResponsesCaps, Span

(* One output of what the fan-out has accepted suits the provider behind it. *)
LEMMA ChunkIsAnswerable ==
  ASSUME NEW r, DOMAIN r = Fields, NEW provider, Answerable(r, Effective(AppServerCaps, provider)),
         NEW q, DOMAIN q = Fields, q.n = 1,
         \A field \in Fields \ {"n"} : q[field] = r[field]
  PROVE  Answerable(q, AppServerCaps)
  <1> DEFINE caps == Effective(AppServerCaps, provider)
  <1>1. /\ caps.model = AppServerCaps.model /\ caps.edits = AppServerCaps.edits
        /\ caps.generation = AppServerCaps.generation /\ caps.references = AppServerCaps.references
        /\ caps.images = AppServerCaps.images /\ caps.masks = AppServerCaps.masks
        /\ caps.sessions = AppServerCaps.sessions /\ caps.threads = AppServerCaps.threads
        /\ caps.user = AppServerCaps.user /\ caps.fidelities = AppServerCaps.fidelities
        /\ caps.revised = AppServerCaps.revised
        BY DEF Effective, AppServerCaps
  <1>2. /\ caps.actions = AppServerCaps.actions /\ caps.qualities = AppServerCaps.qualities
        /\ caps.backgrounds = AppServerCaps.backgrounds /\ caps.formats = AppServerCaps.formats
        /\ caps.moderation = AppServerCaps.moderation /\ caps.sizes = AppServerCaps.sizes
        /\ caps.partials = AppServerCaps.partials /\ caps.aspect = AppServerCaps.aspect
        /\ caps.resolution = AppServerCaps.resolution /\ caps.negative = AppServerCaps.negative
        BY DEF Effective, AppServerCaps
  <1> HIDE DEF caps
  <1>3. /\ q.model = r.model /\ q.kind = r.kind /\ q.references = r.references /\ q.images = r.images
        /\ q.mask = r.mask /\ q.session = r.session /\ q.user = r.user /\ q.fidelity = r.fidelity
        /\ q.revised = r.revised
        BY DEF Fields
  <1>4. /\ q.action = r.action /\ q.size = r.size /\ q.aspect = r.aspect /\ q.resolution = r.resolution
        /\ q.quality = r.quality /\ q.format = r.format /\ q.compression = r.compression
        /\ q.background = r.background /\ q.moderation = r.moderation /\ q.partials = r.partials
        /\ q.negative = r.negative /\ q.negativeMode = r.negativeMode
        BY DEF Fields
  <1>5. Answerable(r, caps)
        BY DEF caps
  <1>6. Unmet(q, AppServerCaps) = Unmet(r, caps)
        <2>1. Unmet(q, AppServerCaps) = Unmet(r, AppServerCaps)
              BY <1>3, UnmetSame
        <2>2. Unmet(r, AppServerCaps) = Unmet(r, caps)
              BY <1>1 DEF Unmet
        <2> QED BY <2>1, <2>2
  <1>7. InRange(q.n, AppServerCaps.count)
        BY AppServerIsGenerous DEF InRange
  <1>8. Uncompressed(q) /\ Unmerged(q, AppServerCaps.negative)
        BY <1>2, <1>4, <1>5 DEF Answerable, Uncompressed, Unmerged
  <1> QED BY <1>2, <1>4, <1>5, <1>6, <1>7, <1>8 DEF Answerable

(***************************************************************************)
(* What a configuration that was checked, and a request that was judged,   *)
(* are known to be like.                                                   *)
(***************************************************************************)
LEMMA NoneIsBroken ==
  ASSUME NEW rules, {pair[1] : pair \in {rule \in rules : rule[2]}} = {}, NEW rule \in rules
  PROVE  ~rule[2]
  OBVIOUS

LEMMA ValidCounts ==
  ASSUME NEW r, NEW limits, Valid(r, limits)
  PROVE  r.n \in Int /\ 1 <= r.n /\ r.partials \in 0..3
  <1> DEFINE rules == TextIssues(r, limits) \cup ParameterIssues(r, limits) \cup RoutingIssues(r)
                      \cup OutputIssues(r, limits) \cup InputIssues(r, limits)
  <1>1. /\ <<"parameters.n", r.n \notin 1..limits.outputs>> \in ParameterIssues(r, limits)
        /\ <<"parameters.partial_images", r.partials \notin 0..3>> \in ParameterIssues(r, limits)
        BY DEF ParameterIssues
  <1>2. {pair[1] : pair \in {rule \in rules : rule[2]}} = {}
        BY DEF Valid, Issues
  <1>3. \A rule \in ParameterIssues(r, limits) : ~rule[2]
        <2> SUFFICES ASSUME NEW rule \in ParameterIssues(r, limits)
                     PROVE  ~rule[2]
            OBVIOUS
        <2>1. rule \in rules
              OBVIOUS
        <2> HIDE DEF rules
        <2> QED BY <1>2, <2>1, NoneIsBroken
  <1>4. r.n \in 1..limits.outputs /\ r.partials \in 0..3
        BY <1>1, <1>3
  <1> QED BY <1>4

LEMMA EnabledProviders ==
  ASSUME NEW s, NEW name \in Registry(s)
  PROVE  \/ name = "codex-app-server" /\ s.providers.codex_app_server.enabled
         \/ name = "codex-responses" /\ s.providers.codex_responses.enabled
  BY DEF Registry, Enabled

LEMMA RulesHold ==
  ASSUME NEW rules, Broken(rules) = {}
  PROVE  \A rule \in rules : ~rule[2]
  BY NoneIsBroken DEF Broken

LEMMA CheckedParts ==
  ASSUME NEW s, SettingsIssues(s) = {}
  PROVE  /\ RuntimeIssues(s.runtime) = {} /\ ArtifactIssues(s.artifacts) = {}
         /\ s.providers.codex_app_server.enabled =>
              AppServerIssues(s.providers.codex_app_server, s.runtime.request) = {}
         /\ s.providers.codex_responses.enabled =>
              ResponsesIssues(s.providers.codex_responses, s.runtime.request) = {}
         /\ Enabled(s) # {} /\ s.default_provider \notin BadNames /\ s.default_provider \in Enabled(s)
  <1> DEFINE app == s.providers.codex_app_server
             responses == s.providers.codex_responses
             limits == s.runtime.request
             runtime == RuntimeIssues(s.runtime)
             artifacts == ArtifactIssues(s.artifacts)
             server == ServerIssues(s.server)
             appServer == IF app.enabled THEN AppServerIssues(app, limits) ELSE {}
             direct == IF responses.enabled THEN ResponsesIssues(responses, limits) ELSE {}
             openai == IF s.providers.openai.enabled THEN OpenAiIssues(s.providers.openai) ELSE {}
             remote == RemoteIssue(s.inputs.remote)
             rules == {<<"version", s.version # 1>>,
                       <<"default_provider", s.default_provider \in BadNames>>,
                       <<"inputs.local_roots", s.inputs.local_roots = 0>>,
                       <<"inputs.remote", remote>>,
                       <<"providers", Enabled(s) = {}>>,
                       <<"default_provider", s.default_provider \notin Enabled(s)>>}
  <1>1. SettingsIssues(s) = runtime \cup artifacts \cup server \cup appServer \cup direct \cup openai \cup Broken(rules)
        BY DEF SettingsIssues
  <1> HIDE DEF runtime, artifacts, server, appServer, direct, openai, remote
  <1>2. runtime = {} /\ artifacts = {} /\ appServer = {} /\ direct = {} /\ Broken(rules) = {}
        <2> HIDE DEF rules
        <2> QED BY <1>1
  <1>3. \A rule \in rules : ~rule[2]
        <2> HIDE DEF rules
        <2> QED BY <1>2, RulesHold
  <1>4. Enabled(s) # {} /\ s.default_provider \notin BadNames /\ s.default_provider \in Enabled(s)
        BY <1>3
  <1> QED BY <1>2, <1>4 DEF runtime, artifacts, appServer, direct

LEMMA CheckedAppServer ==
  ASSUME NEW app, NEW limits, AppServerIssues(app, limits) = {}
  PROVE  ~OutputsIssue(app, limits) /\ ~RpcRefuses(app)
  <1> DEFINE outputs == OutputsIssue(app, limits)
             exchange == \/ app.rpc_max_message_bytes \notin 1..(64 * MiB)
                         \/ app.rpc_max_notification_bytes \notin 1..app.rpc_max_message_bytes
                         \/ app.rpc_max_notification_bytes > 48 * MiB
                         \/ app.rpc_timeout_ms = 0 \/ app.notification_capacity \notin 1..64
                         \/ ~RingFits(app)
                         \/ app.shutdown_timeout_ms = 0 \/ app.restart_backoff_ms > 30 * Second
             rules == {<<"codex_app_server.executable", app.executable = "bad">>,
                       <<"codex_app_server.max_outputs", outputs>>, <<"codex_app_server", exchange>>}
  <1>1. Broken(rules) = {}
        BY DEF AppServerIssues
  <1> HIDE DEF outputs, exchange
  <1>2. \A rule \in rules : ~rule[2]
        BY <1>1, RulesHold
  <1>3. ~outputs /\ ~exchange
        BY <1>2
  <1> QED BY <1>3 DEF outputs, exchange, RpcRefuses

LEMMA CheckedResponses ==
  ASSUME NEW responses, NEW limits, ResponsesIssues(responses, limits) = {}
  PROVE  /\ ~OutputsIssue(responses, limits) /\ Upstream(responses.endpoint)
         /\ responses.max_transient_attempts \in 1..2
         /\ ~(responses.transient_retry_backoff_ms > 30 * Second)
  <1> DEFINE endpoint == ~Upstream(responses.endpoint)
             models == responses.responses_model = "" \/ responses.image_model = ""
             outputs == OutputsIssue(responses, limits)
             attempts == responses.max_transient_attempts \notin 1..2
             backoff == responses.transient_retry_backoff_ms > 30 * Second
             rules == {<<"codex_responses.endpoint", endpoint>>, <<"codex_responses", models>>,
                       <<"codex_responses.max_parallel_outputs", outputs>>,
                       <<"codex_responses.max_transient_attempts", attempts>>,
                       <<"codex_responses.transient_retry_backoff_ms", backoff>>}
  <1>1. Broken(rules) = {}
        BY DEF ResponsesIssues
  <1> HIDE DEF endpoint, models, outputs, attempts, backoff
  <1>2. \A rule \in rules : ~rule[2]
        BY <1>1, RulesHold
  <1>3. ~endpoint /\ ~outputs /\ ~attempts /\ ~backoff
        BY <1>2
  <1> QED BY <1>3 DEF endpoint, outputs, attempts, backoff

LEMMA CheckedOutputs ==
  ASSUME NEW s, SettingsIssues(s) = {}
  PROVE  /\ s.providers.codex_app_server.enabled =>
               /\ s.providers.codex_app_server.max_outputs \in Int
               /\ 1 <= s.providers.codex_app_server.max_outputs
         /\ s.providers.codex_responses.enabled =>
               /\ s.providers.codex_responses.max_outputs \in Int
               /\ 1 <= s.providers.codex_responses.max_outputs
  <1>1. \A provider, limits : ~OutputsIssue(provider, limits) =>
                               provider.max_outputs \in Int /\ 1 <= provider.max_outputs
        BY DEF OutputsIssue
  <1> QED BY <1>1, CheckedParts, CheckedAppServer, CheckedResponses

(***************************************************************************)
(* The plan for a transparent background, and the fronts, keep to the      *)
(* fields of a request.                                                    *)
(***************************************************************************)
LEMMA ConcatListed ==
  ASSUME NEW a, Listed(a), NEW b, Listed(b)
  PROVE  Listed(a \o b)
  <1>1. PICK S : a \in Seq(S)
        BY DEF Listed
  <1>2. PICK T : b \in Seq(T)
        BY DEF Listed
  <1>3. a \in Seq(S \cup T) /\ b \in Seq(S \cup T)
        BY <1>1, <1>2
  <1>4. a \o b \in Seq(S \cup T)
        BY <1>3
  <1> QED BY <1>4 DEF Listed

LEMMA ConcatNothing ==
  ASSUME NEW list, Listed(list)
  PROVE  list \o <<>> = list
  BY DEF Listed

LEMMA RefuseTalks ==
  ASSUME NEW talk, Talking(talk), NEW field
  PROVE  Talking(Refuse(talk, field))
  BY DEF Talking, Refuse

LEMMA NormalizeTalks ==
  ASSUME NEW talk, Talking(talk), NEW field \in Fields, NEW value
  PROVE  Talking(Normalize(talk, field, value))
  BY RefuseTalks, ChangeTouches DEF Normalize, Touched

LEMMA AlphaFormatTalks ==
  ASSUME NEW talk, Talking(talk)
  PROVE  Talking(AlphaFormat(talk))
  <1> DEFINE changed == Normalize(talk, "format", "png")
             next == [changed EXCEPT !.request.compression = None]
  <1>1. Talking(changed)
        BY NormalizeTalks DEF Fields
  <1> HIDE DEF changed
  <1>2. Talking(next)
        BY <1>1 DEF Talking
  <1>3. AlphaFormat(talk) \in {talk, changed, next}
        BY DEF AlphaFormat, changed
  <1> QED BY <1>1, <1>2, <1>3

LEMMA KeyBackgroundTalks ==
  ASSUME NEW talk, Talking(talk), NEW caps
  PROVE  Talking(KeyBackground(talk, caps))
  <1> DEFINE added == <<Note("background", "transparent", "transparent"),
                        Note("keyColor", talk.request.keyColor, "keyed")>>
             next == [talk EXCEPT !.request.background = First(caps.backgrounds, Backgrounds),
                                  !.request.prompt = @ + KeyPrompt,
                                  !.notes = @ \o added]
  <1>1. Listed(added)
        <2>1. added \in Seq({Note("background", "transparent", "transparent"),
                              Note("keyColor", talk.request.keyColor, "keyed")})
              OBVIOUS
        <2> QED BY <2>1 DEF Listed
  <1>2. KeyBackground(talk, caps) \in {talk, Refuse(talk, "background"), next}
        BY DEF KeyBackground
  <1> HIDE DEF added
  <1>3. Listed(talk.notes \o added)
        BY <1>1, ConcatListed DEF Talking
  <1>4. Talking(next)
        BY <1>3 DEF Talking
  <1> QED BY <1>2, <1>4, RefuseTalks

LEMMA PrepareTalks ==
  ASSUME NEW r, DOMAIN r = Fields, NEW caps
  PROVE  Talking(Prepare(r, caps))
  <1> DEFINE mode == TransparencyMode(r, caps)
             note == Note("transparency", r.transparency, mode)
             noted == [Start(r) EXCEPT !.notes = <<note>>]
  <1>1. Talking(Start(r))
        BY Startable
  <1>2. Talking(noted)
        <2> HIDE DEF note
        <2>1. <<note>> \in Seq({note})
              OBVIOUS
        <2> QED BY <1>1, <2>1 DEF Talking, Start, Listed
  <1>3. Prepare(r, caps) \in {Start(r), Refuse(Start(r), "background"), Refuse(noted, "transparency"),
                              noted, KeyBackground(AlphaFormat(noted), caps)}
        BY DEF Prepare
  <1> HIDE DEF noted
  <1> QED BY <1>1, <1>2, <1>3, RefuseTalks, AlphaFormatTalks, KeyBackgroundTalks

LEMMA NegotiateTalks ==
  ASSUME NEW r, DOMAIN r = Fields, r.n \in Int, r.partials \in Int, NEW caps, Generous(caps),
         Negotiate(r, caps).refused = None
  PROVE  Talking(Negotiate(r, caps))
  BY NegotiatedWell DEF Touched

LEMMA SayingKeeps ==
  ASSUME NEW said, NEW fields, NEW r, DOMAIN r = Fields
  PROVE  DOMAIN Saying(said, fields, r) = Fields
  BY DEF Saying

LEMMA AppliedKeeps ==
  ASSUME NEW template, DOMAIN template = Fields, NEW prompt, Applied(template, prompt) # None
  PROVE  DOMAIN Applied(template, prompt) = Fields
  BY DEF Applied, Bare

LEMMA ArgumentsKeep ==
  ASSUME NEW said, NEW r, DOMAIN r = Fields
  PROVE  DOMAIN ApplyImageArgs(said, r) = Fields
  <1> DEFINE flagged == Saying(said, Flags, r)
             located == Located(said, flagged)
             implied == Implied(said, located)
  <1>1. DOMAIN flagged = Fields
        BY SayingKeeps
  <1> HIDE DEF flagged
  <1>2. DOMAIN located = Fields
        BY <1>1 DEF Located
  <1> HIDE DEF located
  <1>3. DOMAIN implied = Fields
        BY <1>2 DEF Implied
  <1> HIDE DEF implied
  <1>4. DOMAIN InSession(said, implied) = Fields
        BY <1>3 DEF InSession
  <1> QED BY <1>4 DEF ApplyImageArgs, implied, located, flagged

LEMMA CommandLineKeeps ==
  ASSUME NEW c, NEW template, template = None \/ DOMAIN template = Fields
  PROVE  DOMAIN CommandLine(c, template).request = Fields
  <1> DEFINE said == c.said
             prompt == IF Says(said, "prompt") THEN said.prompt ELSE None
             start == IF template # None THEN Applied(template, prompt)
                      ELSE IF prompt = None THEN None ELSE [Plain EXCEPT !.prompt = prompt]
             begun == Saying(said, {"kind", "images", "mask", "references", "inputs"}, start)
             arguments == ApplyImageArgs(said, begun)
  <1>1. DOMAIN Refused("invalid_request").request = Fields
        BY PlainFields DEF Refused
  <1>2. ASSUME start # None
        PROVE  DOMAIN Presented(said, c.show, arguments).request = Fields
        <2>1. DOMAIN start = Fields
              BY <1>2, AppliedKeeps, PlainFields
        <2> HIDE DEF start
        <2>2. DOMAIN arguments = Fields
              BY <2>1, SayingKeeps, ArgumentsKeep
        <2> HIDE DEF arguments
        <2> QED BY <2>2, <1>1 DEF Presented, Asks
  <1>3. \/ CommandLine(c, template) = Refused("invalid_request")
        \/ start # None /\ CommandLine(c, template) = Presented(said, c.show, arguments)
        BY DEF CommandLine
  <1> HIDE DEF start, arguments
  <1> QED BY <1>1, <1>2, <1>3

LEMMA WithHeaderKeeps ==
  ASSUME NEW key, NEW ask, DOMAIN ask.request = Fields
  PROVE  DOMAIN WithHeader(key, ask).request = Fields
  BY PlainFields DEF WithHeader, Refused, Asks

LEMMA FrontsKeep ==
  ASSUME NEW said, NEW twice
  PROVE  /\ DOMAIN Native(said).request = Fields
         /\ DOMAIN Compatible(said).request = Fields
         /\ DOMAIN Multipart(said, twice).request = Fields
         /\ DOMAIN Durable(Native(said)).request = Fields
  <1>1. DOMAIN Refused("invalid_request").request = Fields
        BY PlainFields DEF Refused
  <1>2. DOMAIN Native(said).request = Fields
        <2>1. DOMAIN Asks(Saying(said, DOMAIN said, Plain)).request = Fields
              BY PlainFields, SayingKeeps DEF Asks
        <2> QED BY <1>1, <2>1 DEF Native
  <1>3. DOMAIN Compatible(said).request = Fields
        <2>1. \A words : DOMAIN Asks(IntoNative(words)).request = Fields
              BY PlainFields, SayingKeeps DEF Asks, IntoNative
        <2> DEFINE words == IF "prompt" \in DOMAIN said THEN said
                            ELSE [f \in DOMAIN said \cup {"prompt"} |-> IF f = "prompt" THEN 0 ELSE said[f]]
        <2>2. Compatible(said) \in {Refused("invalid_request"), Asks(IntoNative(words))}
              BY DEF Compatible
        <2> HIDE DEF words
        <2> QED BY <1>1, <2>1, <2>2
  <1>4. DOMAIN Multipart(said, twice).request = Fields
        <2> DEFINE edit == [Plain EXCEPT !.kind = "edit"]
                   applied == Saying(said, TextFields \cup ImageFields, edit)
                   next == [applied EXCEPT !.session = IF "key" \in DOMAIN said THEN "persistent" ELSE @]
        <2>1. DOMAIN edit = Fields
              BY PlainFields
        <2> HIDE DEF edit
        <2>2. DOMAIN applied = Fields
              BY <2>1, SayingKeeps
        <2> HIDE DEF applied
        <2>3. DOMAIN Asks(next).request = Fields
              BY <2>2 DEF Asks
        <2>4. Multipart(said, twice) \in {Refused("invalid_request"), Asks(next)}
              BY DEF Multipart, ApplyEditFields, applied, edit
        <2> QED BY <1>1, <2>3, <2>4
  <1>5. DOMAIN Durable(Native(said)).request = Fields
        <2> DEFINE ask == Native(said)
        <2> HIDE DEF ask
        <2>1. DOMAIN ask.request = Fields
              BY <1>2 DEF ask
        <2>2. DOMAIN Durable(ask).request = Fields
              BY <2>1 DEF Durable, Asks
        <2> QED BY <2>2 DEF ask
  <1> QED BY <1>2, <1>3, <1>4, <1>5

(* Whatever is said, at whichever front, a request comes of it.              *)
LEMMA TakenKeeps ==
  ASSUME NEW c, NEW server, NEW template, template = None \/ DOMAIN template = Fields
  PROVE  DOMAIN Taken(c, server, template).request = Fields
  <1>1. \A code : DOMAIN Refused(code).request = Fields
        BY PlainFields DEF Refused
  <1>2. \/ Taken(c, server, template) = CommandLine(c, template)
        \/ Taken(c, server, template) = Refused(Stopped(c, server))
        \/ \E ask \in {Native(c.said), Compatible(c.said), Multipart(c.said, c.twice), Durable(Native(c.said))} :
             Taken(c, server, template) = WithHeader(c.header, ask)
        BY DEF Taken
  <1> QED BY <1>1, <1>2, CommandLineKeeps, FrontsKeep, WithHeaderKeeps

(***************************************************************************)
(* The shelf of presets.                                                   *)
(***************************************************************************)
Shelved ==
  /\ DOMAIN shelf = PresetNames
  /\ \A name \in PresetNames : shelf[name] # None => DOMAIN shelf[name] = Fields

LEMMA ShelfKept ==
  ASSUME Shelved, NEW templates, NEW revisions, PresetsNext(templates, revisions)
  PROVE  Shelved'
  <1>1. ASSUME NEW name \in PresetNames, NEW template, PresetValid(template),
               shelf' = [shelf EXCEPT ![name] = template]
        PROVE  Shelved'
        <2>1. DOMAIN template = Fields
              BY <1>1, PlainFields DEF PresetValid
        <2> QED BY <1>1, <2>1 DEF Shelved
  <1>2. ASSUME NEW name \in PresetNames, DeletePreset(name)
        PROVE  Shelved'
        BY <1>2 DEF Shelved, DeletePreset
  <1>3. ASSUME UNCHANGED shelf
        PROVE  Shelved'
        BY <1>3 DEF Shelved
  <1> QED BY <1>1, <1>2, <1>3 DEF PresetsNext, CreatePreset, ReplacePreset, ReadBack, Told

(***************************************************************************)
(* The invariant of the pipeline: only a checked configuration serves, and *)
(* behind the runtime's negotiation a request is one that the fan-out and  *)
(* the provider can answer as it is.                                       *)
(***************************************************************************)
Unchecked == {"read", "unreadable", "loaded", "misconfigured"}
Configured == stage \notin Unchecked => SettingsIssues(settings) = {}
Understood == DOMAIN asked = Fields
Queued == stage = "queued" => Valid(asked, settings.runtime.request)

Negotiated ==
  stage \in {"fan_out", "provider"} =>
    /\ DOMAIN request = Fields /\ Listed(notes)
    /\ stage = "fan_out" =>
         /\ Way.provider = "codex-app-server"
         /\ capable = Effective(AppServerCaps, settings.providers.codex_app_server)
         /\ Answerable(request, capable) /\ request.n \in Int /\ 1 <= request.n
    /\ stage = "provider" =>
         Answerable(request, IF Way.provider = "codex-app-server" THEN AppServerCaps ELSE capable)

PipelineInv == Shelved /\ Configured /\ Understood /\ Queued /\ Negotiated

LEMMA PipelineInitInv == PipelineInit => PipelineInv
  BY PlainFields DEF PipelineInit, PipelineInv, PresetsInit, Shelved, Configured, Unchecked,
                     Understood, Queued, Negotiated

LEMMA LoadKeeps ==
  ASSUME PipelineInv, Load
  PROVE  PipelineInv'
  <1>1. stage' \in {"unreadable", "loaded"} /\ UNCHANGED <<shelf, asked>>
        BY DEF Load
  <1> QED BY <1>1 DEF PipelineInv, Shelved, Configured, Unchecked, Understood, Queued, Negotiated

LEMMA CheckKeeps ==
  ASSUME PipelineInv, Check
  PROVE  PipelineInv'
  BY DEF PipelineInv, Check, standing, Shelved, Configured, Unchecked, Understood, Queued, Negotiated

LEMMA AssembleKeeps ==
  ASSUME PipelineInv, NEW denied, Assemble(denied)
  PROVE  PipelineInv'
  <1>1. /\ stage = "checked" /\ stage' \in {"serving", "unstarted"}
        /\ UNCHANGED <<shelf, asked, settings>>
        BY DEF Assemble, standing
  <1> QED BY <1>1 DEF PipelineInv, Shelved, Configured, Unchecked, Understood, Queued, Negotiated

LEMMA EnterKeeps ==
  ASSUME PipelineInv, stage \in {"serving", "queued"}, NEW r, DOMAIN r = Fields, Enter(r), UNCHANGED standing
  PROVE  PipelineInv'
  <1>1. stage' \in {"refused", "admitted"} /\ asked' = r /\ UNCHANGED <<shelf, settings>>
        BY DEF Enter, standing
  <1> QED BY <1>1 DEF PipelineInv, Shelved, Configured, Unchecked, Understood, Queued, Negotiated

LEMMA ArriveKeeps ==
  ASSUME PipelineInv, NEW c, Arrive(c),
         c.preset = None \/ (c.preset \in PresetNames /\ shelf[c.preset] # None)
  PROVE  PipelineInv'
  <1> DEFINE template == IF c.preset = None THEN None ELSE shelf[c.preset]
             taken == Taken(c, settings.server, template)
  <1>1. template = None \/ DOMAIN template = Fields
        BY DEF PipelineInv, Shelved
  <1>2. DOMAIN taken.request = Fields
        BY <1>1, TakenKeeps
  <1>3. /\ stage = "serving" /\ UNCHANGED standing
        /\ \/ \E code : TurnAway(code)
           \/ Enter(taken.request)
           \/ /\ Valid(taken.request, settings.runtime.request)
              /\ stage' = "queued" /\ asked' = taken.request
        BY DEF Arrive
  <1> HIDE DEF taken
  <1>4. CASE \E code : TurnAway(code)
        <2>1. stage' = "refused" /\ UNCHANGED <<shelf, settings, asked>>
              BY <1>3, <1>4 DEF TurnAway, standing
        <2> QED BY <1>3, <2>1 DEF PipelineInv, Shelved, Configured, Unchecked, Understood, Queued, Negotiated
  <1>5. CASE Enter(taken.request)
        BY <1>2, <1>3, <1>5, EnterKeeps
  <1>6. CASE /\ Valid(taken.request, settings.runtime.request)
             /\ stage' = "queued" /\ asked' = taken.request
        <2>1. UNCHANGED <<shelf, settings>>
              BY <1>3 DEF standing
        <2> QED BY <1>2, <1>3, <1>6, <2>1
                DEF PipelineInv, Shelved, Configured, Unchecked, Understood, Queued, Negotiated
  <1> QED BY <1>3, <1>4, <1>5, <1>6

LEMMA RejectKeeps ==
  ASSUME PipelineInv, NEW code, Reject(code), stage \in {"admitted", "fan_out", "provider", "returned"}
  PROVE  PipelineInv'
  <1>1. stage' \in {"admitted", "refused"} /\ UNCHANGED <<shelf, settings, asked>>
        BY DEF Reject, standing
  <1> QED BY <1>1 DEF PipelineInv, Shelved, Configured, Unchecked, Understood, Queued, Negotiated

(* What the runtime makes of a request that it sends on a route.             *)
LEMMA RouteKeeps ==
  ASSUME PipelineInv, Route
  PROVE  PipelineInv'
  <1> DEFINE caps == Capabilities(settings, Way.provider, Way.model)
             prepared == Prepare(On(asked, Way), caps)
             negotiated == Negotiate(prepared.request, caps)
             accepted == /\ Way.provider \in Registry(settings) /\ caps # None
                         /\ Valid(prepared.request, settings.runtime.request)
                         /\ negotiated.refused = None
                         /\ stage' = IF Way.provider = "codex-app-server" THEN "fan_out" ELSE "provider"
                         /\ capable' = caps /\ request' = negotiated.request
                         /\ notes' = prepared.notes \o negotiated.notes
                         /\ UNCHANGED <<standing, call, asked, route, answer, reply>>
  <1>1. stage = "admitted" /\ ((\E code : Reject(code)) \/ accepted)
        BY DEF Route
  <1>2. CASE \E code : Reject(code)
        BY <1>1, <1>2, RejectKeeps
  <1>3. CASE accepted
        <2> DEFINE app == settings.providers.codex_app_server
                   responses == settings.providers.codex_responses
        <2>1. SettingsIssues(settings) = {} /\ DOMAIN On(asked, Way) = Fields
              BY <1>1 DEF PipelineInv, Configured, Unchecked, Understood, On
        <2>2. \/ Way.provider = "codex-app-server" /\ caps = Effective(AppServerCaps, app)
              \/ Way.provider = "codex-responses" /\ \E model : caps = ResponsesCaps(model, responses)
              BY <1>3, EnabledProviders DEF Capabilities
        <2>3. Generous(caps) /\ caps.count.min = 1
              <3>1. CASE Way.provider = "codex-app-server" /\ caps = Effective(AppServerCaps, app)
                    <4>1. app.max_outputs \in Int /\ 1 <= app.max_outputs
                          BY <1>3, <2>1, <3>1, EnabledProviders, CheckedOutputs
                    <4> HIDE DEF caps, app
                    <4> QED BY <3>1, <4>1, EffectiveIsGenerous
              <3>2. CASE Way.provider = "codex-responses" /\ \E model : caps = ResponsesCaps(model, responses)
                    <4>1. responses.max_outputs \in Int /\ 1 <= responses.max_outputs
                          BY <1>3, <2>1, <3>2, EnabledProviders, CheckedOutputs
                    <4> HIDE DEF caps, responses
                    <4> QED BY <3>2, <4>1, ResponsesIsGenerous
              <3> QED BY <2>2, <3>1, <3>2
        <2> HIDE DEF caps
        <2>4. Talking(prepared)
              BY <2>1, PrepareTalks
        <2> HIDE DEF prepared
        <2>5. DOMAIN prepared.request = Fields /\ Listed(prepared.notes)
              BY <2>4 DEF Talking
        <2>6. prepared.request.n \in Int /\ prepared.request.partials \in Int
              BY <1>3, ValidCounts
        <2>7. /\ Answerable(negotiated.request, caps) /\ negotiated.request.n \in Int
              /\ Talking(negotiated)
              BY <1>3, <2>3, <2>5, <2>6, NegotiatedWell, NegotiateTalks
        <2> HIDE DEF negotiated
        <2>8. 1 <= negotiated.request.n
              BY <2>3, <2>7 DEF Answerable, InRange
        <2>9. DOMAIN negotiated.request = Fields /\ Listed(negotiated.notes)
              BY <2>7 DEF Talking
        <2>10. Listed(prepared.notes \o negotiated.notes)
               BY <2>5, <2>9, ConcatListed
        <2>11. UNCHANGED <<shelf, settings, asked>> /\ Way' = Way
               BY <1>3 DEF standing, Way
        <2>12. Shelved' /\ Configured' /\ Understood' /\ Queued'
               BY <1>1, <1>3, <2>11 DEF PipelineInv, Shelved, Configured, Unchecked, Understood, Queued
        <2>13. Negotiated'
               BY <1>3, <2>2, <2>7, <2>8, <2>9, <2>10, <2>11 DEF Negotiated
        <2> QED BY <2>12, <2>13 DEF PipelineInv
  <1> QED BY <1>1, <1>2, <1>3

(* A second judge of the same request finds nothing to change.               *)
LEMMA JudgeSettles ==
  ASSUME NEW caps, NEW next, NEW outputs, Judge(caps, next, outputs), Answerable(request, caps),
         DOMAIN request = Fields, Listed(notes)
  PROVE  \/ \E code \in {"invalid_request", "protocol"} : Reject(code)
         \/ /\ stage' = next /\ notes' = notes /\ UNCHANGED <<standing, asked, route, capable>>
            /\ DOMAIN request' = Fields
            /\ request'.n = (IF request.n < outputs THEN request.n ELSE outputs)
            /\ \A field \in Fields \ {"n"} : request'[field] = request[field]
  <1> DEFINE negotiated == Negotiate(request, caps)
             sent == [negotiated.request EXCEPT !.n = IF @ < outputs THEN @ ELSE outputs]
  <1>1. negotiated = Start(request)
        BY Settled
  <1>2. negotiated.request = request /\ negotiated.notes = <<>> /\ negotiated.refused = None
        BY <1>1 DEF Start
  <1>3. \/ Reject("invalid_request") \/ Reject("protocol")
        \/ /\ stage' = next /\ request' = sent /\ notes' = notes \o negotiated.notes
           /\ UNCHANGED <<standing, call, asked, route, capable, routed, answer, reply>>
        BY <1>2 DEF Judge
  <1> HIDE DEF negotiated
  <1>4. CASE Reject("invalid_request") \/ Reject("protocol")
        BY <1>4
  <1>5. CASE /\ stage' = next /\ request' = sent /\ notes' = notes \o negotiated.notes
             /\ UNCHANGED <<standing, call, asked, route, capable, routed, answer, reply>>
        <2>1. notes' = notes
              BY <1>2, <1>5, ConcatNothing
        <2>2. /\ DOMAIN sent = Fields /\ sent.n = (IF request.n < outputs THEN request.n ELSE outputs)
              /\ \A field \in Fields \ {"n"} : sent[field] = request[field]
              BY <1>2 DEF Fields
        <2> HIDE DEF sent
        <2> QED BY <1>5, <2>1, <2>2
  <1> QED BY <1>3, <1>4, <1>5

LEMMA FanOutKeeps ==
  ASSUME PipelineInv, FanOut
  PROVE  PipelineInv'
  <1> DEFINE app == settings.providers.codex_app_server
  <1>1. /\ stage = "fan_out" /\ Judge(capable, "provider", 1)
        /\ Way.provider = "codex-app-server" /\ capable = Effective(AppServerCaps, app)
        /\ Answerable(request, capable) /\ request.n \in Int /\ 1 <= request.n
        /\ DOMAIN request = Fields /\ Listed(notes)
        BY AppServerIsGenerous DEF FanOut, PipelineInv, Negotiated
  <1>2. \/ \E code : Reject(code)
        \/ /\ stage' = "provider" /\ notes' = notes /\ UNCHANGED <<standing, asked, route, capable>>
           /\ DOMAIN request' = Fields /\ request'.n = 1
           /\ \A field \in Fields \ {"n"} : request'[field] = request[field]
        <2>1. (IF request.n < 1 THEN request.n ELSE 1) = 1
              BY <1>1
        <2> QED BY <1>1, <2>1, JudgeSettles
  <1>3. CASE \E code : Reject(code)
        BY <1>1, <1>3, RejectKeeps
  <1>4. CASE /\ stage' = "provider" /\ notes' = notes /\ UNCHANGED <<standing, asked, route, capable>>
             /\ DOMAIN request' = Fields /\ request'.n = 1
             /\ \A field \in Fields \ {"n"} : request'[field] = request[field]
        <2>1. UNCHANGED <<shelf, settings, asked>> /\ Way' = Way
              BY <1>4 DEF standing, Way
        <2>2. PICK sent : sent = request'
              OBVIOUS
        <2>3. Answerable(sent, AppServerCaps)
              BY <1>1, <1>4, <2>2, ChunkIsAnswerable
        <2>4. Shelved' /\ Configured' /\ Understood' /\ Queued'
              BY <1>1, <1>4, <2>1 DEF PipelineInv, Shelved, Configured, Unchecked, Understood, Queued
        <2>5. Negotiated'
              BY <1>1, <1>4, <2>1, <2>2, <2>3 DEF Negotiated
        <2> QED BY <2>4, <2>5 DEF PipelineInv
  <1> QED BY <1>2, <1>3, <1>4

LEMMA CallKeeps ==
  ASSUME PipelineInv, Call
  PROVE  PipelineInv'
  <1> DEFINE caps == IF Way.provider = "codex-app-server" THEN AppServerCaps ELSE capable
  <1>1. /\ stage = "provider" /\ Judge(caps, "sent", request.n) /\ Answerable(request, caps)
        /\ DOMAIN request = Fields /\ Listed(notes)
        BY DEF Call, PipelineInv, Negotiated
  <1> HIDE DEF caps
  <1>2. \/ \E code : Reject(code)
        \/ stage' = "sent" /\ UNCHANGED <<standing, asked>>
        BY <1>1, JudgeSettles
  <1>3. CASE \E code : Reject(code)
        BY <1>1, <1>3, RejectKeeps
  <1>4. CASE stage' = "sent" /\ UNCHANGED <<standing, asked>>
        BY <1>1, <1>4
           DEF standing, PipelineInv, Shelved, Configured, Unchecked, Understood, Queued, Negotiated
  <1> QED BY <1>2, <1>3, <1>4

LEMMA AnswerKeeps ==
  ASSUME PipelineInv, Answer
  PROVE  PipelineInv'
  BY PlainFields
     DEF Answer, standing, PipelineInv, Shelved, Configured, Unchecked, Understood, Queued, Negotiated

LEMMA MaterializeKeeps ==
  ASSUME PipelineInv, Materialize
  PROVE  PipelineInv'
  <1>1. /\ stage = "returned"
        /\ (\E code : Reject(code)) \/ (stage' = "materialized" /\ UNCHANGED <<standing, asked>>)
        BY DEF Materialize, Conclude
  <1>2. CASE \E code : Reject(code)
        BY <1>1, <1>2, RejectKeeps
  <1>3. CASE stage' = "materialized" /\ UNCHANGED <<standing, asked>>
        BY <1>1, <1>3
           DEF standing, PipelineInv, Shelved, Configured, Unchecked, Understood, Queued, Negotiated
  <1> QED BY <1>1, <1>2, <1>3

LEMMA PipelineNextInv == PipelineInv /\ [PipelineNext]_pipelineVars => PipelineInv'
  <1> SUFFICES ASSUME PipelineInv, [PipelineNext]_pipelineVars
               PROVE  PipelineInv'
      OBVIOUS
  <1>1. CASE ChangeShelf
        <2>1. Shelved'
              BY <1>1, ShelfKept DEF ChangeShelf, PipelineInv
        <2> QED BY <1>1, <2>1
                DEF ChangeShelf, PipelineInv, Configured, Unchecked, Understood, Queued, Negotiated
  <1>2. CASE RunJob
        BY <1>2, EnterKeeps DEF RunJob, PipelineInv, Understood
  <1>3. ASSUME NEW given, Return(given)
        PROVE  PipelineInv'
        BY <1>3 DEF Return, standing, PipelineInv, Shelved, Configured, Unchecked, Understood, Queued, Negotiated
  <1>4. ASSUME NEW stored, AttachMetadata(stored)
        PROVE  PipelineInv'
        <2>1. stage = "materialized" /\ stage' \in {"delivered", "refused"} /\ UNCHANGED <<shelf, settings, asked>>
              BY <1>4 DEF AttachMetadata, standing
        <2> QED BY <2>1 DEF PipelineInv, Shelved, Configured, Unchecked, Understood, Queued, Negotiated
  <1>5. CASE UNCHANGED pipelineVars
        <2>1. UNCHANGED <<shelf, settings, stage, asked, request, notes, capable, route>>
              BY <1>5 DEF pipelineVars
        <2> QED BY <2>1
                DEF PipelineInv, Shelved, Configured, Unchecked, Understood, Queued, Negotiated, Way
  <1>6. ASSUME NEW c, c.preset = None, Arrive(c)
        PROVE  PipelineInv'
        BY <1>6, ArriveKeeps
  <1>7. ASSUME NEW c \in PresetCalls, shelf[c.preset] # None, Arrive(c)
        PROVE  PipelineInv'
        BY <1>7, ArriveKeeps, PipelineAssumption
  <1> QED BY <1>1, <1>2, <1>3, <1>4, <1>5, <1>6, <1>7, LoadKeeps, CheckKeeps, AssembleKeeps, RouteKeeps,
             FanOutKeeps, CallKeeps, AnswerKeeps, MaterializeKeeps DEF PipelineNext

(* Whatever the configuration, the calls and the providers' answers are, the *)
(* invariant holds.                                                          *)
THEOREM PipelineInvHolds == PipelineSpec => []PipelineInv
  <1> QED BY PipelineInitInv, PipelineNextInv, PTL DEF PipelineSpec

LEMMA RejectSettles ==
  ASSUME NEW code, Reject(code), code # "unsupported_capability"
  PROVE  Settles
  BY DEF Reject, Settles

LEMMA JudgedSettles ==
  ASSUME PipelineInv, PipelineNext, stage \in {"fan_out", "provider"}
  PROVE  Settles
  <1> DEFINE caps == IF Way.provider = "codex-app-server" THEN AppServerCaps ELSE capable
  <1>1. Listed(notes) /\ DOMAIN request = Fields
        BY DEF PipelineInv, Negotiated
  <1>2. \/ stage = "fan_out" /\ Answerable(request, capable) /\ Judge(capable, "provider", AppServerCaps.count.max)
        \/ stage = "provider" /\ Answerable(request, caps) /\ Judge(caps, "sent", request.n)
        <2>1. \/ Load \/ Check \/ RunJob \/ Route \/ Answer \/ ChangeShelf \/ (\E denied : Assemble(denied))
              \/ Materialize
              => stage \notin {"fan_out", "provider"}
              BY DEF Load, Check, RunJob, Route, Answer, ChangeShelf, Assemble, Materialize
        <2>2. (\E stored : AttachMetadata(stored)) => stage \notin {"fan_out", "provider"}
              BY DEF AttachMetadata
        <2>3. FanOut \/ Call
              BY <2>1, <2>2 DEF PipelineNext
        <2> QED BY <2>3 DEF FanOut, Call, PipelineInv, Negotiated
  <1> HIDE DEF caps
  <1>3. \/ \E code \in {"invalid_request", "protocol"} : Reject(code)
        \/ /\ stage' \in {"provider", "sent"} /\ notes' = notes
           /\ \A field \in Fields \ {"n"} : request'[field] = request[field]
        BY <1>1, <1>2, JudgeSettles
  <1>4. CASE \E code \in {"invalid_request", "protocol"} : Reject(code)
        BY <1>4, RejectSettles
  <1>5. CASE /\ stage' \in {"provider", "sent"} /\ notes' = notes
             /\ \A field \in Fields \ {"n"} : request'[field] = request[field]
        BY <1>1, <1>5 DEF Settles
  <1> QED BY <1>3, <1>4, <1>5

(* The runtime's negotiation is final for every request, configuration and   *)
(* provider: negotiate_request() maps what it has accepted to itself, and    *)
(* the fan-out's capabilities are the provider's own for one output.         *)
THEOREM NegotiationSettled == PipelineSpec => NegotiationSettles
  <1>1. PipelineInv /\ [PipelineNext]_pipelineVars =>
          [(stage \in {"fan_out", "provider"}) => Settles]_pipelineVars
        BY JudgedSettles
  <1> QED BY <1>1, PipelineInvHolds, PTL DEF PipelineSpec, NegotiationSettles

(***************************************************************************)
(* A job that was accepted is run, unless two of its routes are the same.  *)
(***************************************************************************)
LEMMA JobsStep ==
  ASSUME PipelineInv, JobsAreRun, [PipelineNext]_pipelineVars
  PROVE  JobsAreRun'
  <1>1. CASE RunJob
        <2>1. stage = "queued" /\ Valid(asked, settings.runtime.request) /\ Enter(asked) /\ UNCHANGED settings
              BY <1>1 DEF RunJob, standing, PipelineInv, Queued
        <2>2. asked' = asked /\ (stage' = "refused" => ~IsInjective(Routes(settings, asked)))
              BY <2>1 DEF Enter
        <2> QED BY <2>1, <2>2 DEF JobsAreRun
  <1>2. CASE ~RunJob /\ ~UNCHANGED pipelineVars
        <2>1. (\E code : Reject(code)) /\ stage # "queued" => reply'.at # "queued"
              BY DEF Reject
        <2>2. Load \/ Check \/ (\E denied : Assemble(denied)) \/ ChangeShelf \/ Answer \/ (\E given : Return(given))
              => stage' # "refused"
              BY DEF Load, Check, Assemble, ChangeShelf, Answer, Return
        <2>3. ((\E stored : AttachMetadata(stored)) \/ (\E c : Arrive(c))) /\ stage' = "refused" => reply'.at # "queued"
              BY DEF AttachMetadata, Arrive, TurnAway, Enter
        <2>4. Route /\ stage' = "refused" => stage # "queued" /\ \E code : Reject(code)
              BY DEF Route
        <2>5. FanOut /\ stage' = "refused" => stage # "queued" /\ \E code : Reject(code)
              BY DEF FanOut, Judge
        <2>6. Call /\ stage' = "refused" => stage # "queued" /\ \E code : Reject(code)
              BY DEF Call, Judge
        <2>7. Materialize /\ stage' = "refused" => stage # "queued" /\ \E code : Reject(code)
              BY DEF Materialize, Conclude
        <2>8. stage' = "refused" => reply'.at # "queued"
              BY <1>2, <2>1, <2>2, <2>3, <2>4, <2>5, <2>6, <2>7 DEF PipelineNext
        <2> QED BY <2>8 DEF JobsAreRun
  <1>3. CASE UNCHANGED pipelineVars
        BY <1>3 DEF pipelineVars, JobsAreRun
  <1> QED BY <1>1, <1>2, <1>3

(* No accepted job is refused when its turn comes, unless the routes that    *)
(* submit() did not resolve are the same.                                    *)
THEOREM JobsRun == PipelineSpec => []JobsAreRun
  <1>1. PipelineInit => JobsAreRun
        BY DEF PipelineInit, JobsAreRun
  <1>2. PipelineInv /\ JobsAreRun /\ [PipelineNext]_pipelineVars => JobsAreRun'
        BY JobsStep
  <1> QED BY <1>1, <1>2, PipelineInvHolds, PTL DEF PipelineSpec

(***************************************************************************)
(* What `config check` accepts, `serve` can start with.  Steps are         *)
(* harmless when those that can go wrong have a name that is tolerated.    *)
(***************************************************************************)
Tolerated(s, at) ==
  \/ at \in World \cup {"openai", "gate", "workers", "listener"}
  \/ /\ at = "unregistered name"
     /\ ~(DOMAIN s.runtime.providers \cup DOMAIN s.runtime.circuit_breakers \subseteq Enabled(s))

Fine(s, step) == step[2] => Tolerated(s, step[1])
Harmless(s, steps) == \E S : steps \in Seq(S) /\ \A step \in S : Fine(s, step)

LEMMA HarmlessTogether ==
  ASSUME NEW s, NEW a, NEW b, Harmless(s, a), Harmless(s, b)
  PROVE  Harmless(s, a \o b)
  <1>1. PICK S : a \in Seq(S) /\ \A step \in S : Fine(s, step)
        BY DEF Harmless
  <1>2. PICK T : b \in Seq(T) /\ \A step \in T : Fine(s, step)
        BY DEF Harmless
  <1>3. a \in Seq(S \cup T) /\ b \in Seq(S \cup T)
        BY <1>1, <1>2
  <1>4. a \o b \in Seq(S \cup T)
        BY <1>3
  <1>5. \A step \in S \cup T : Fine(s, step)
        BY <1>1, <1>2
  <1> QED BY <1>4, <1>5 DEF Harmless

LEMMA HarmlessList ==
  ASSUME NEW s
  PROVE  /\ Harmless(s, <<>>)
         /\ \A a : Fine(s, a) => Harmless(s, <<a>>)
         /\ \A a, b : Fine(s, a) /\ Fine(s, b) => Harmless(s, <<a, b>>)
         /\ \A a, b, c : Fine(s, a) /\ Fine(s, b) /\ Fine(s, c) => Harmless(s, <<a, b, c>>)
         /\ \A a, b, c, d : Fine(s, a) /\ Fine(s, b) /\ Fine(s, c) /\ Fine(s, d) => Harmless(s, <<a, b, c, d>>)
  <1>1. Harmless(s, <<>>)
        <2> DEFINE S == {}
        <2>1. <<>> \in Seq(S) /\ \A step \in S : Fine(s, step)
              OBVIOUS
        <2> HIDE DEF S
        <2> QED BY <2>1 DEF Harmless
  <1>2. ASSUME NEW a, Fine(s, a)
        PROVE  Harmless(s, <<a>>)
        <2> DEFINE S == {a}
        <2>1. <<a>> \in Seq(S) /\ \A step \in S : Fine(s, step)
              BY <1>2
        <2> HIDE DEF S
        <2> QED BY <2>1 DEF Harmless
  <1>3. ASSUME NEW a, NEW b, Fine(s, a), Fine(s, b)
        PROVE  Harmless(s, <<a, b>>)
        <2> DEFINE S == {a, b}
        <2>1. <<a, b>> \in Seq(S) /\ \A step \in S : Fine(s, step)
              BY <1>3
        <2> HIDE DEF S
        <2> QED BY <2>1 DEF Harmless
  <1>4. ASSUME NEW a, NEW b, NEW c, Fine(s, a), Fine(s, b), Fine(s, c)
        PROVE  Harmless(s, <<a, b, c>>)
        <2> DEFINE S == {a, b, c}
        <2>1. <<a, b, c>> \in Seq(S) /\ \A step \in S : Fine(s, step)
              BY <1>4
        <2> HIDE DEF S
        <2> QED BY <2>1 DEF Harmless
  <1>5. ASSUME NEW a, NEW b, NEW c, NEW d, Fine(s, a), Fine(s, b), Fine(s, c), Fine(s, d)
        PROVE  Harmless(s, <<a, b, c, d>>)
        <2> DEFINE S == {a, b, c, d}
        <2>1. <<a, b, c, d>> \in Seq(S) /\ \A step \in S : Fine(s, step)
              BY <1>5
        <2> HIDE DEF S
        <2> QED BY <2>1 DEF Harmless
  <1> QED BY <1>1, <1>2, <1>3, <1>4, <1>5

LEMMA ProviderStepsHarmless ==
  ASSUME NEW s, SettingsIssues(s) = {}, NEW denied
  PROVE  /\ Harmless(s, AppServerSteps(s.providers.codex_app_server, denied))
         /\ Harmless(s, ResponsesSteps(s.providers.codex_responses, denied))
  <1> DEFINE app == s.providers.codex_app_server
             responses == s.providers.codex_responses
             limits == s.runtime.request
  <1>1. \A provider : ~OutputsIssue(provider, limits) => CapacityFits(provider)
        BY DEF OutputsIssue, CapacityFits, Parallel
  <1>2. app.enabled => ~RpcRefuses(app) /\ CapacityFits(app)
        BY <1>1, CheckedParts, CheckedAppServer
  <1>3. responses.enabled => ~ResponsesRefuse(responses)
        <2>1. responses.enabled => /\ CapacityFits(responses) /\ Upstream(responses.endpoint)
                                   /\ responses.max_transient_attempts \in 1..2
                                   /\ ~(responses.transient_retry_backoff_ms > 30 * Second)
              BY <1>1, CheckedParts, CheckedResponses
        <2> QED BY <2>1 DEF ResponsesRefuse, Upstream
  <1>4. Harmless(s, AppServerSteps(app, denied))
        <2> DEFINE a == <<"sessions", "sessions" \in denied>>
                   b == <<"codex", "codex" \in denied>>
                   c == <<"rpc", RpcRefuses(app)>>
                   d == <<"fan-out", ~CapacityFits(app)>>
        <2>1. Fine(s, a) /\ Fine(s, b)
              BY DEF Fine, Tolerated, World
        <2>2. app.enabled => Fine(s, c) /\ Fine(s, d)
              BY <1>2 DEF Fine
        <2>3. app.enabled => AppServerSteps(app, denied) = <<a, b, c, d>>
              BY DEF AppServerSteps
        <2>4. ~app.enabled => AppServerSteps(app, denied) = <<>>
              BY DEF AppServerSteps
        <2> HIDE DEF a, b, c, d
        <2> QED BY <2>1, <2>2, <2>3, <2>4, HarmlessList
  <1>5. Harmless(s, ResponsesSteps(responses, denied))
        <2> DEFINE a == <<"credentials", "credentials" \in denied>>
                   b == <<"responses", ResponsesRefuse(responses)>>
        <2>1. Fine(s, a)
              BY DEF Fine, Tolerated, World
        <2>2. responses.enabled => Fine(s, b)
              BY <1>3 DEF Fine
        <2>3. responses.enabled => ResponsesSteps(responses, denied) = <<a, b>>
              BY DEF ResponsesSteps
        <2>4. ~responses.enabled => ResponsesSteps(responses, denied) = <<>>
              BY DEF ResponsesSteps
        <2> HIDE DEF a, b
        <2> QED BY <2>1, <2>2, <2>3, <2>4, HarmlessList
  <1> QED BY <1>4, <1>5

LEMMA CheckedRuntime ==
  ASSUME NEW r, RuntimeIssues(r) = {}
  PROVE  /\ ~Outside(r.default_timeout_ms, r.request.timeout) /\ ~Outside(r.cancellation_grace_ms, 30 * Second)
         /\ ~Outside(r.shutdown_grace_ms, 300 * Second)
         /\ ~BreakerIssue(r.circuit_breaker)
         /\ \A name \in DOMAIN r.circuit_breakers : ~BreakerIssue(r.circuit_breakers[name])
         /\ \A field \in DOMAIN r.idempotency : r.idempotency[field] # 0
  <1> DEFINE a == NoRoom(r.global)
             b == NoRoom(r.provider_default)
             c == DOMAIN r.providers \cap BadNames # {}
             d == \E name \in DOMAIN r.providers : NoRoom(r.providers[name])
             e == BreakerIssue(r.circuit_breaker)
             f == DOMAIN r.circuit_breakers \cap BadNames # {}
             g == \E name \in DOMAIN r.circuit_breakers : BreakerIssue(r.circuit_breakers[name])
             h == Outside(r.default_timeout_ms, r.request.timeout)
             i == Outside(r.cancellation_grace_ms, 30 * Second)
             j == Outside(r.shutdown_grace_ms, 300 * Second)
             k == \E field \in DOMAIN r.request : r.request[field] = 0
             l == \E field \in DOMAIN r.idempotency : r.idempotency[field] = 0
             rules == {<<"runtime.global", a>>, <<"runtime.provider_default", b>>, <<"runtime.providers", c>>,
                       <<"runtime.providers.*", d>>, <<"runtime.circuit_breaker", e>>,
                       <<"runtime.circuit_breakers", f>>, <<"runtime.circuit_breakers.*", g>>,
                       <<"runtime.default_timeout_ms", h>>, <<"runtime.cancellation_grace_ms", i>>,
                       <<"runtime.shutdown_grace_ms", j>>, <<"runtime.request", k>>,
                       <<"runtime.idempotency", l>>}
  <1>1. Broken(rules) = {}
        BY DEF RuntimeIssues
  <1> HIDE DEF a, b, c, d, e, f, g, h, i, j, k, l
  <1>2. \A rule \in rules : ~rule[2]
        BY <1>1, RulesHold
  <1>3. ~e /\ ~g /\ ~h /\ ~i /\ ~j /\ ~l
        BY <1>2
  <1> QED BY <1>3 DEF e, g, h, i, j, l

LEMMA CheckedArtifacts ==
  ASSUME NEW artifacts, ArtifactIssues(artifacts) = {}
  PROVE  /\ artifacts.max_base64_chars # 0 /\ artifacts.max_response_bytes # 0
         /\ artifacts.public_base_url # None => PublicBase(artifacts.public_base_url)
  <1> DEFINE a == RemoteIssue(artifacts.remote_output)
             b == artifacts.max_base64_chars = 0 \/ artifacts.max_response_bytes = 0
             c == \E field \in DOMAIN artifacts.image : artifacts.image[field] = 0
             d == artifacts.image.max_pixels > artifacts.image.max_edge * artifacts.image.max_edge
             e == \/ artifacts.retention.max_scan_entries = 0 \/ artifacts.retention.max_age_secs = 0
                  \/ artifacts.retention.max_artifacts = 0
             f == artifacts.public_base_url # None /\ ~PublicBase(artifacts.public_base_url)
             rules == {<<"artifacts.remote_output", a>>, <<"artifacts", b>>, <<"artifacts.image", c>>,
                       <<"artifacts.image.max_pixels", d>>, <<"artifacts.retention", e>>,
                       <<"artifacts.public_base_url", f>>}
  <1>1. Broken(rules) = {}
        BY DEF ArtifactIssues
  <1> HIDE DEF a, b, c, d, e, f
  <1>2. \A rule \in rules : ~rule[2]
        BY <1>1, RulesHold
  <1>3. ~b /\ ~f
        BY <1>2
  <1> QED BY <1>3 DEF b, f

LEMMA WithinIsPositive ==
  ASSUME NEW value, NEW most, ~Outside(value, most)
  PROVE  value # 0
  BY DEF Outside

LEMMA BreakerAccepted ==
  ASSUME NEW breaker, ~BreakerIssue(breaker)
  PROVE  ~BreakerRefuses(breaker)
  BY WithinIsPositive, SMT DEF BreakerIssue, BreakerRefuses

LEMMA RuntimeStepsHarmless ==
  ASSUME NEW s, SettingsIssues(s) = {}, Registry(s) = Enabled(s)
  PROVE  Harmless(s, RuntimeSteps(RuntimeConfig(s), Registry(s)))
  <1> DEFINE r == s.runtime
             config == RuntimeConfig(s)
             registered == Registry(s)
             a == <<"default timeout", Outside(config.default_timeout, config.request_limits.timeout)>>
             b == <<"cancellation grace", Outside(config.cancellation_grace, 30 * Second)>>
             c == <<"shutdown grace", Outside(config.shutdown_grace, 300 * Second)>>
             d == <<"unregistered name",
                    ~(DOMAIN config.provider_limits \cup DOMAIN config.circuit_breakers \subseteq registered)>>
             e == <<"gate", \/ GateRefuses(config.global_limit)
                            \/ \E name \in registered : GateRefuses(LimitOf(config, name))>>
             f == <<"breaker", \E name \in registered : BreakerRefuses(BreakerOf(config, name))>>
             g == <<"idempotency", IdempotencyRefuses(config.idempotency)>>
             h == <<"materializer", MaterializerRefuses(config.materialization)>>
  <1>0. /\ ~Outside(r.default_timeout_ms, r.request.timeout) /\ ~Outside(r.cancellation_grace_ms, 30 * Second)
        /\ ~Outside(r.shutdown_grace_ms, 300 * Second)
        /\ ~BreakerIssue(r.circuit_breaker)
        /\ \A name \in DOMAIN r.circuit_breakers : ~BreakerIssue(r.circuit_breakers[name])
        /\ \A field \in DOMAIN r.idempotency : r.idempotency[field] # 0
        <2>1. RuntimeIssues(r) = {}
              BY CheckedParts
        <2> QED BY <2>1, CheckedRuntime
  <1>1. RuntimeSteps(config, registered) = <<a, b, c, d, e, f, g, h>>
        BY DEF RuntimeSteps
  <1>2. /\ config.default_timeout = r.default_timeout_ms /\ config.request_limits = r.request
        /\ config.cancellation_grace = r.cancellation_grace_ms /\ config.shutdown_grace = r.shutdown_grace_ms
        /\ DOMAIN config.provider_limits = DOMAIN r.providers
        /\ config.default_circuit_breaker = r.circuit_breaker /\ config.circuit_breakers = r.circuit_breakers
        /\ config.idempotency = r.idempotency
        /\ config.materialization.base64 = s.artifacts.max_base64_chars
        /\ config.materialization.response = s.artifacts.max_response_bytes
        /\ config.materialization.public_base = s.artifacts.public_base_url
        BY DEF RuntimeConfig
  <1> HIDE DEF config
  <1>3. Fine(s, a) /\ Fine(s, b) /\ Fine(s, c)
        <2>1. ~Outside(config.default_timeout, config.request_limits.timeout)
              BY <1>0, <1>2
        <2>2. ~Outside(config.cancellation_grace, 30 * Second)
              BY <1>0, <1>2
        <2>3. ~Outside(config.shutdown_grace, 300 * Second)
              BY <1>0, <1>2
        <2> QED BY <2>1, <2>2, <2>3 DEF Fine
  <1>4. Fine(s, d) /\ Fine(s, e)
        BY <1>2 DEF Fine, Tolerated
  <1>5. Fine(s, f)
        <2>2. \A name : ~BreakerIssue(BreakerOf(config, name))
              BY <1>0, <1>2 DEF BreakerOf
        <2> QED BY <2>2, BreakerAccepted DEF Fine
  <1>6. Fine(s, g)
        BY <1>0, <1>2 DEF Fine, IdempotencyRefuses
  <1>7. Fine(s, h)
        BY <1>2, CheckedParts, CheckedArtifacts DEF Fine, MaterializerRefuses
  <1> HIDE DEF registered, a, b, c, d, e, f, g, h
  <1> DEFINE S == {a, b, c, d, e, f, g, h}
  <1>8. <<a, b, c, d, e, f, g, h>> \in Seq(S) /\ \A step \in S : Fine(s, step)
        BY <1>3, <1>4, <1>5, <1>6, <1>7
  <1> HIDE DEF S
  <1>9. Harmless(s, RuntimeSteps(config, registered))
        BY <1>1, <1>8 DEF Harmless
  <1> QED BY <1>9 DEF config, registered

LEMMA ServerStepsHarmless ==
  ASSUME NEW s, NEW denied
  PROVE  Harmless(s, ServerSteps(s.server, denied))
  <1> DEFINE a == <<"token", s.server.bearer_token_env # None /\ "token" \in denied>>
             b == <<"database", s.server.jobs.enabled /\ "database" \in denied>>
             c == <<"workers", s.server.jobs.enabled /\ s.server.jobs.max_running > MaxPermits>>
  <1>1. ServerSteps(s.server, denied) = <<a, b, c>>
        BY DEF ServerSteps
  <1>2. Fine(s, a) /\ Fine(s, b) /\ Fine(s, c)
        BY DEF Fine, Tolerated, World
  <1> HIDE DEF a, b, c
  <1> QED BY <1>1, <1>2, HarmlessList

(* Without the provider that this build has not, the parts of the start.     *)
LEMMA AssemblyHarmless ==
  ASSUME NEW s, SettingsIssues(s) = {}, ~s.providers.openai.enabled, NEW denied
  PROVE  Harmless(s, AssemblySteps(s, denied))
  <1> DEFINE a == <<"lock", s.server.activation_lock # None /\ "lock" \in denied>>
             b == <<"openai", s.providers.openai.enabled>>
             c == <<"roots", "roots" \in denied>>
             d == <<"store", "store" \in denied>>
             e == <<"registry", RegistryRefuses(s, Registry(s))>>
             f == <<"address", "address" \in denied>>
             g == <<"listener", Permits(s.server.max_connections) \notin 1..MaxPermits>>
             app == AppServerSteps(s.providers.codex_app_server, denied)
             responses == ResponsesSteps(s.providers.codex_responses, denied)
             runtime == RuntimeSteps(RuntimeConfig(s), Registry(s))
             server == ServerSteps(s.server, denied)
  <1>1. AssemblySteps(s, denied)
          = <<a, b, c, d>> \o app \o responses \o <<e>> \o runtime \o <<f>> \o server \o <<g>>
        BY DEF AssemblySteps
  <1>2. Registry(s) = Enabled(s)
        BY DEF Registry, Enabled
  <1>3. Fine(s, a) /\ Fine(s, b) /\ Fine(s, c) /\ Fine(s, d) /\ Fine(s, f) /\ Fine(s, g)
        BY DEF Fine, Tolerated, World
  <1>4. Fine(s, e)
        BY <1>2, CheckedParts DEF Fine, RegistryRefuses
  <1>5. Harmless(s, app) /\ Harmless(s, responses) /\ Harmless(s, runtime) /\ Harmless(s, server)
        BY <1>2, ProviderStepsHarmless, RuntimeStepsHarmless, ServerStepsHarmless
  <1> HIDE DEF a, b, c, d, e, f, g, app, responses, runtime, server
  <1>6. Harmless(s, <<a, b, c, d>>) /\ Harmless(s, <<e>>) /\ Harmless(s, <<f>>) /\ Harmless(s, <<g>>)
        BY <1>3, <1>4, HarmlessList
  <1> QED BY <1>1, <1>5, <1>6, HarmlessTogether

LEMMA LeastStep ==
  ASSUME NEW T \in SUBSET Nat, T # {}
  PROVE  /\ (CHOOSE i \in T : \A j \in T : i <= j) \in T
         /\ \A j \in T : (CHOOSE i \in T : \A k \in T : i <= k) <= j
  <1> DEFINE R == {p \in Nat \X Nat : p[1] < p[2]}
  <1>1. R = OpToRel(<, Nat)
        BY DEF OpToRel
  <1>2. IsWellFoundedOn(R, Nat)
        BY <1>1, NatLessThanWellFounded
  <1>3. \E x \in T : \A y \in T : ~(<<y, x>> \in R)
        BY <1>2, WFMin
  <1>4. \A x, y \in T : <<y, x>> \in R <=> y < x
        OBVIOUS
  <1> HIDE DEF R
  <1>5. PICK x \in T : \A y \in T : ~(<<y, x>> \in R)
        BY <1>3
  <1>6. \A y \in T : ~(y < x)
        BY <1>4, <1>5
  <1>7. \A y \in T : x \in Int /\ y \in Int
        OBVIOUS
  <1>8. \A y \in T : x <= y
        BY <1>6, <1>7
  <1> QED BY <1>8

(* The first two steps, whatever follows them.                               *)
Headed(first, second, steps) ==
  Listed(steps) /\ Len(steps) >= 2 /\ steps[1] = first /\ steps[2] = second

LEMMA HeadedTogether ==
  ASSUME NEW first, NEW second, NEW a, NEW b, Headed(first, second, a), Listed(b)
  PROVE  Headed(first, second, a \o b)
  <1>1. PICK S : a \in Seq(S)
        BY DEF Headed, Listed
  <1>2. PICK T : b \in Seq(T)
        BY DEF Listed
  <1>3. a \in Seq(S \cup T) /\ b \in Seq(S \cup T)
        BY <1>1, <1>2
  <1>4. /\ a \o b \in Seq(S \cup T) /\ Len(a \o b) >= 2
        /\ (a \o b)[1] = a[1] /\ (a \o b)[2] = a[2]
        BY <1>3 DEF Headed
  <1> QED BY <1>4 DEF Headed, Listed

LEMMA ListedFew ==
  /\ Listed(<<>>)
  /\ \A a : Listed(<<a>>)
  /\ \A a, b : Listed(<<a, b>>)
  /\ \A a, b, c : Listed(<<a, b, c>>)
  /\ \A a, b, c, d : Listed(<<a, b, c, d>>)
  <1>1. \A S, list : list \in Seq(S) => Listed(list)
        BY DEF Listed
  <1>2. <<>> \in Seq({})
        OBVIOUS
  <1>3. \A a : <<a>> \in Seq({a})
        OBVIOUS
  <1>4. \A a, b : <<a, b>> \in Seq({a, b})
        OBVIOUS
  <1>5. \A a, b, c : <<a, b, c>> \in Seq({a, b, c})
        OBVIOUS
  <1>6. \A a, b, c, d : <<a, b, c, d>> \in Seq({a, b, c, d})
        OBVIOUS
  <1> QED BY <1>1, <1>2, <1>3, <1>4, <1>5, <1>6, Zenon

LEMMA AssemblyHeaded ==
  ASSUME NEW s, NEW denied
  PROVE  Headed(<<"lock", s.server.activation_lock # None /\ "lock" \in denied>>,
                <<"openai", s.providers.openai.enabled>>, AssemblySteps(s, denied))
  <1> DEFINE a == <<"lock", s.server.activation_lock # None /\ "lock" \in denied>>
             b == <<"openai", s.providers.openai.enabled>>
             c == <<"roots", "roots" \in denied>>
             d == <<"store", "store" \in denied>>
             e == <<"registry", RegistryRefuses(s, Registry(s))>>
             f == <<"address", "address" \in denied>>
             g == <<"listener", Permits(s.server.max_connections) \notin 1..MaxPermits>>
             app == AppServerSteps(s.providers.codex_app_server, denied)
             responses == ResponsesSteps(s.providers.codex_responses, denied)
             runtime == RuntimeSteps(RuntimeConfig(s), Registry(s))
             server == ServerSteps(s.server, denied)
  <1>1. AssemblySteps(s, denied)
          = <<a, b, c, d>> \o app \o responses \o <<e>> \o runtime \o <<f>> \o server \o <<g>>
        BY DEF AssemblySteps
  <1>2. Listed(app)
        BY ListedFew DEF AppServerSteps
  <1>3. Listed(responses)
        BY ListedFew DEF ResponsesSteps
  <1>4. Listed(runtime)
        <2> DEFINE config == RuntimeConfig(s)
                   registered == Registry(s)
                   gates == \/ GateRefuses(config.global_limit)
                            \/ \E name \in registered : GateRefuses(LimitOf(config, name))
                   breakers == \E name \in registered : BreakerRefuses(BreakerOf(config, name))
                   t == <<"default timeout", Outside(config.default_timeout, config.request_limits.timeout)>>
                   u == <<"cancellation grace", Outside(config.cancellation_grace, 30 * Second)>>
                   v == <<"shutdown grace", Outside(config.shutdown_grace, 300 * Second)>>
                   w == <<"unregistered name",
                          ~(DOMAIN config.provider_limits \cup DOMAIN config.circuit_breakers \subseteq registered)>>
                   x == <<"gate", gates>>
                   y == <<"breaker", breakers>>
                   z == <<"idempotency", IdempotencyRefuses(config.idempotency)>>
                   q == <<"materializer", MaterializerRefuses(config.materialization)>>
        <2>1. runtime = <<t, u, v, w, x, y, z, q>>
              BY DEF RuntimeSteps
        <2> HIDE DEF runtime, t, u, v, w, x, y, z, q
        <2> DEFINE S == {t, u, v, w, x, y, z, q}
        <2>2. runtime \in Seq(S)
              BY <2>1
        <2> HIDE DEF S
        <2> QED BY <2>2 DEF Listed
  <1>5. Listed(server)
        BY ListedFew DEF ServerSteps
  <1> HIDE DEF a, b, c, d, e, f, g, app, responses, runtime, server
  <1>6. Headed(a, b, <<a, b, c, d>>)
        BY ListedFew DEF Headed
  <1>7. Headed(a, b, <<a, b, c, d>> \o app \o responses \o <<e>> \o runtime \o <<f>> \o server \o <<g>>)
        BY <1>2, <1>3, <1>4, <1>5, <1>6, HeadedTogether, ListedFew
  <1> QED BY <1>1, <1>7 DEF a, b

LEMMA ObstacleTolerated ==
  ASSUME NEW s, SettingsIssues(s) = {}, NEW denied, Obstacle(s, denied) # None
  PROVE  Tolerated(s, Obstacle(s, denied))
  <1> DEFINE steps == AssemblySteps(s, denied)
             wrong == {i \in DOMAIN steps : steps[i][2]}
             least == CHOOSE i \in wrong : \A j \in wrong : i <= j
  <1>1. wrong # {} /\ Obstacle(s, denied) = steps[least][1]
        BY DEF Obstacle
  <1>2. CASE ~s.providers.openai.enabled
        <2>1. PICK S : steps \in Seq(S) /\ \A step \in S : Fine(s, step)
              BY <1>2, AssemblyHarmless DEF Harmless
        <2> HIDE DEF steps
        <2>2. wrong \in SUBSET Nat
              BY <2>1
        <2>3. least \in wrong
              BY <1>1, <2>2, LeastStep
        <2>4. steps[least] \in S /\ steps[least][2]
              BY <2>1, <2>3
        <2> QED BY <1>1, <2>1, <2>4 DEF Fine
  <1>3. CASE s.providers.openai.enabled
        <2> DEFINE lock == <<"lock", s.server.activation_lock # None /\ "lock" \in denied>>
                   openai == <<"openai", s.providers.openai.enabled>>
        <2>1. Headed(lock, openai, steps)
              BY AssemblyHeaded
        <2> HIDE DEF steps
        <2>2. /\ 1 \in DOMAIN steps /\ 2 \in DOMAIN steps /\ DOMAIN steps \subseteq Nat
              /\ steps[1] = lock /\ steps[2] = openai
              BY <2>1 DEF Headed, Listed
        <2>3. 2 \in wrong /\ wrong \in SUBSET Nat
              <3>1. steps[2][2]
                    BY <1>3, <2>2
              <3>2. 2 \in wrong
                    BY <2>2, <3>1
              <3>3. wrong \subseteq DOMAIN steps
                    OBVIOUS
              <3> QED BY <2>2, <3>2, <3>3
        <2>4. least \in wrong /\ least <= 2
              BY <1>1, <2>3, LeastStep
        <2>5. least \in DOMAIN steps
              BY <2>4
        <2>6. least \in {1, 2}
              <3>1. \A i \in DOMAIN steps : i \in Nat /\ i >= 1
                    BY <2>1 DEF Headed, Listed
              <3>2. least \in Nat /\ least >= 1 /\ least <= 2
                    BY <2>4, <2>5, <3>1
              <3> HIDE DEF least, wrong
              <3> QED BY <3>2
        <2>7. steps[1][1] = "lock" /\ steps[2][1] = "openai"
              BY <2>2
        <2>8. steps[least][1] \in {"lock", "openai"}
              <3> HIDE DEF least, wrong
              <3> QED BY <2>6, <2>7
        <2> QED BY <1>1, <2>8 DEF Tolerated, World
  <1> QED BY <1>2, <1>3

(* No configuration that `config check` accepts is refused by a constructor, *)
(* but for the host, a provider that this build has not, a limit for a name  *)
(* that is not a provider, and a limit beyond what a semaphore can hold.     *)
THEOREM ConfigurationsStart == PipelineSpec => []ConfigurationSound
  <1>1. PipelineInit => ConfigurationSound
        BY DEF PipelineInit, ConfigurationSound
  <1>2. PipelineInv /\ ConfigurationSound /\ [PipelineNext]_pipelineVars => ConfigurationSound'
        <2> SUFFICES ASSUME PipelineInv, ConfigurationSound, [PipelineNext]_pipelineVars
                     PROVE  ConfigurationSound'
            OBVIOUS
        <2>1. ASSUME NEW denied, Assemble(denied)
              PROVE  ConfigurationSound'
              <3>1. stage = "checked" /\ UNCHANGED settings /\ SettingsIssues(settings) = {}
                    BY <2>1 DEF Assemble, standing, PipelineInv, Configured, Unchecked
              <3>2. stage' = "unstarted" => /\ Obstacle(settings, denied) # None
                                            /\ reply'.at = Obstacle(settings, denied)
                    BY <2>1 DEF Assemble, Nothing
              <3>3. stage' = "unstarted" => Tolerated(settings, reply'.at)
                    BY <3>1, <3>2, ObstacleTolerated
              <3> QED BY <3>1, <3>3 DEF ConfigurationSound, Tolerated
        <2>2. CASE UNCHANGED pipelineVars
              BY <2>2 DEF pipelineVars, ConfigurationSound
        <2>3. ASSUME NEW code, Reject(code)
              PROVE  stage' # "unstarted"
              BY <2>3 DEF Reject
        <2>4. ASSUME NEW c, Arrive(c)
              PROVE  stage' # "unstarted"
              BY <2>4 DEF Arrive, TurnAway, Enter
        <2>5. Load \/ Check \/ RunJob \/ Answer \/ ChangeShelf => stage' # "unstarted"
              BY DEF Load, Check, RunJob, Enter, Answer, ChangeShelf
        <2>6. (\E given : Return(given)) \/ (\E stored : AttachMetadata(stored)) => stage' # "unstarted"
              BY DEF Return, AttachMetadata
        <2>7. Route => stage' # "unstarted"
              BY <2>3 DEF Route
        <2>8. FanOut \/ Call => stage' # "unstarted"
              BY <2>3 DEF FanOut, Call, Judge
        <2>9. Materialize => stage' # "unstarted"
              BY <2>3 DEF Materialize, Conclude
        <2>10. stage' # "unstarted" => ConfigurationSound'
               BY DEF ConfigurationSound
        <2> QED BY <2>1, <2>2, <2>4, <2>5, <2>6, <2>7, <2>8, <2>9, <2>10 DEF PipelineNext
  <1> QED BY <1>1, <1>2, PipelineInvHolds, PTL DEF PipelineSpec

-----------------------------------------------------------------------------
(***************************************************************************)
(* A replacement is an update and a read.  Until another client changes    *)
(* the row, it is what the update wrote.                                   *)
(***************************************************************************)
Writer(w) ==
  /\ DOMAIN w = DOMAIN Unoccupied
  /\ w.name \in PresetNames \cup {None} /\ w.answered \in BOOLEAN /\ w.overtaken \in BOOLEAN

Standing(w, table) ==
  ~w.overtaken =>
    IF w.answered THEN w.read = w.wrote ELSE w.name # None => table[w.name] = w.wrote

Replaced ==
  /\ DOMAIN writer = PresetClients /\ DOMAIN shelf = PresetNames
  /\ \A c \in PresetClients : Writer(writer[c]) /\ Standing(writer[c], shelf)

LEMMA UnoccupiedStands ==
  ASSUME NEW table
  PROVE  Writer(Unoccupied) /\ Standing(Unoccupied, table)
  BY DEF Unoccupied, Writer, Standing

LEMMA OvertakenStand ==
  ASSUME Replaced, NEW name, NEW template, NEW c \in PresetClients
  PROVE  LET w == Overtake(name)[c] IN Writer(w) /\ Standing(w, [shelf EXCEPT ![name] = template])
  <1> DEFINE w == writer[c]
             table == [shelf EXCEPT ![name] = template]
  <1>1. Writer(w) /\ Standing(w, shelf) /\ DOMAIN shelf = PresetNames
        BY DEF Replaced
  <1>2. Overtake(name)[c] = IF w.name = name /\ ~w.answered THEN [w EXCEPT !.overtaken = TRUE] ELSE w
        BY DEF Overtake
  <1> HIDE DEF w
  <1>3. CASE w.name = name /\ ~w.answered
        <2> DEFINE late == [w EXCEPT !.overtaken = TRUE]
        <2>1. /\ DOMAIN late = DOMAIN w /\ late.name = w.name /\ late.answered = w.answered /\ late.overtaken
              /\ late.overtaken = TRUE
              BY <1>1 DEF Writer, Unoccupied
        <2>2. Overtake(name)[c] = late
              BY <1>2, <1>3
        <2> HIDE DEF late
        <2>3. Writer(late) /\ Standing(late, table)
              BY <1>1, <2>1 DEF Writer, Standing
        <2> QED BY <2>2, <2>3
  <1>4. CASE ~(w.name = name /\ ~w.answered)
        <2>1. ~w.answered /\ w.name # None => table[w.name] = shelf[w.name]
              BY <1>1, <1>4 DEF Writer
        <2>2. Writer(w) /\ Standing(w, table)
              BY <1>1, <2>1 DEF Standing
        <2> QED BY <1>2, <1>4, <2>2
  <1> QED BY <1>3, <1>4

LEMMA PresetsNextStands ==
  ASSUME Replaced, NEW templates, NEW revisions, PresetsNext(templates, revisions)
  PROVE  Replaced'
  <1>1. ASSUME NEW name, NEW template, shelf' = [shelf EXCEPT ![name] = template], writer' = Overtake(name)
        PROVE  Replaced'
        <2>1. DOMAIN writer' = PresetClients /\ DOMAIN shelf' = PresetNames
              BY <1>1 DEF Overtake, Replaced
        <2>2. \A c \in PresetClients : Writer(writer'[c]) /\ Standing(writer'[c], shelf')
              BY <1>1, OvertakenStand
        <2> QED BY <2>1, <2>2 DEF Replaced, Writer, Standing
  <1>2. ASSUME NEW name \in PresetNames, NEW c \in PresetClients, NEW template, ReplacePreset(c, name, template)
        PROVE  Replaced'
        <2> DEFINE written == [Unoccupied EXCEPT !.name = name, !.wrote = template]
        <2>1. DOMAIN writer' = PresetClients /\ DOMAIN shelf' = PresetNames /\ shelf'[name] = template
              BY <1>2 DEF ReplacePreset, Overtake, Replaced
        <2>2. writer'[c] = written /\ \A d \in PresetClients \ {c} : writer'[d] = Overtake(name)[d]
              BY <1>2 DEF ReplacePreset, Overtake
        <2>3. Writer(written) /\ Standing(written, shelf')
              BY <2>1 DEF Writer, Standing, Unoccupied
        <2>4. \A d \in PresetClients : Writer(Overtake(name)[d]) /\ Standing(Overtake(name)[d], shelf')
              BY <1>2, OvertakenStand DEF ReplacePreset
        <2> HIDE DEF written
        <2>5. \A d \in PresetClients : Writer(writer'[d]) /\ Standing(writer'[d], shelf')
              BY <2>2, <2>3, <2>4
        <2> QED BY <2>1, <2>5 DEF Replaced, Writer, Standing
  <1>3. ASSUME NEW c \in PresetClients, ReadBack(c)
        PROVE  Replaced'
        <2> DEFINE w == writer[c]
                   told == [w EXCEPT !.read = shelf[w.name], !.answered = TRUE]
        <2>1. Writer(w) /\ Standing(w, shelf) /\ w.name # None /\ ~w.answered
              BY <1>3 DEF Replaced, ReadBack
        <2>2. /\ DOMAIN writer' = PresetClients /\ shelf' = shelf
              /\ \A d \in PresetClients : writer'[d] = IF d = c THEN told ELSE writer[d]
              BY <1>3 DEF Replaced, ReadBack
        <2> HIDE DEF w
        <2>3. /\ DOMAIN told = DOMAIN w /\ told.name = w.name /\ told.wrote = w.wrote
              /\ told.overtaken = w.overtaken /\ told.read = shelf[w.name] /\ told.answered = TRUE
              BY <2>1 DEF Writer, Unoccupied
        <2> HIDE DEF told
        <2>4. Writer(told) /\ Standing(told, shelf)
              BY <2>1, <2>3 DEF Writer, Standing
        <2>5. \A d \in PresetClients : Writer(writer'[d]) /\ Standing(writer'[d], shelf')
              BY <2>2, <2>4 DEF Replaced
        <2> QED BY <2>2, <2>5 DEF Replaced, Writer, Standing
  <1>4. ASSUME NEW c \in PresetClients, Told(c)
        PROVE  Replaced'
        <2>1. /\ DOMAIN writer' = PresetClients /\ shelf' = shelf
              /\ \A d \in PresetClients : writer'[d] = IF d = c THEN Unoccupied ELSE writer[d]
              BY <1>4 DEF Replaced, Told
        <2>2. \A d \in PresetClients : Writer(writer'[d]) /\ Standing(writer'[d], shelf')
              BY <2>1, UnoccupiedStands DEF Replaced
        <2> QED BY <2>1, <2>2 DEF Replaced, Writer, Standing
  <1> QED BY <1>1, <1>2, <1>3, <1>4 DEF PresetsNext, CreatePreset, DeletePreset

LEMMA JudgeStands ==
  ASSUME NEW caps, NEW next, NEW outputs, Judge(caps, next, outputs)
  PROVE  UNCHANGED <<shelf, writer>>
  BY DEF Judge, Reject, standing

LEMMA OnlyClientsChangeTheShelf ==
  ASSUME PipelineNext, ~ChangeShelf
  PROVE  UNCHANGED <<shelf, writer>>
  <1>1. ASSUME FanOut \/ Call
        PROVE  UNCHANGED <<shelf, writer>>
        BY <1>1, JudgeStands DEF FanOut, Call
  <1>2. ASSUME Route
        PROVE  UNCHANGED <<shelf, writer>>
        BY <1>2 DEF Route, Reject, standing
  <1>3. ASSUME Materialize
        PROVE  UNCHANGED <<shelf, writer>>
        BY <1>3 DEF Materialize, Conclude, Reject, standing
  <1>4. ASSUME Load \/ Check \/ RunJob \/ Answer
        PROVE  UNCHANGED <<shelf, writer>>
        BY <1>4 DEF Load, Check, RunJob, Answer, standing
  <1>5. \A x : Assemble(x) \/ Return(x) \/ AttachMetadata(x) \/ Arrive(x) => UNCHANGED <<shelf, writer>>
        BY DEF Assemble, Return, AttachMetadata, Arrive, standing
  <1> QED BY <1>1, <1>2, <1>3, <1>4, <1>5 DEF PipelineNext

(* For any number of clients and presets, a replacement answers with what it *)
(* wrote, unless another change of the same preset came between its two      *)
(* statements.                                                               *)
THEOREM ReplacementsTold == PipelineSpec => []ReplacementsAnswer
  <1>1. PipelineInit => Replaced
        BY UnoccupiedStands DEF PipelineInit, PresetsInit, Replaced
  <1>2. Replaced /\ [PipelineNext]_pipelineVars => Replaced'
        <2>1. ASSUME Replaced, ChangeShelf
              PROVE  Replaced'
              BY <2>1, PresetsNextStands DEF ChangeShelf
        <2>2. ASSUME Replaced, UNCHANGED <<shelf, writer>>
              PROVE  Replaced'
              BY <2>2 DEF Replaced, Writer, Standing
        <2> QED BY <2>1, <2>2, OnlyClientsChangeTheShelf DEF pipelineVars
  <1>3. Replaced => ReplacementsAnswer
        BY DEF Replaced, Standing, ReplacementsAnswer
  <1> QED BY <1>1, <1>2, <1>3, PTL DEF PipelineSpec

(***************************************************************************)
(* A strict negotiation gives up the action and merges a negative prompt,  *)
(* and refuses whatever else it would have to change.                      *)
(***************************************************************************)
Held == Fields \ {"action", "prompt", "negative"}

Exact(talk, r) ==
  /\ DOMAIN talk = {"request", "notes", "refused"}
  /\ talk.refused = None =>
       DOMAIN talk.request = Fields /\ \A field \in Held : talk.request[field] = r[field]

LEMMA RefusedExactly ==
  ASSUME NEW talk, NEW r, Exact(talk, r), NEW field \in Refusable
  PROVE  Exact(Refuse(talk, field), r) /\ Refuse(talk, field).refused # None
  BY NoneAssumption DEF Exact, Refuse

LEMMA NormalizedExactly ==
  ASSUME NEW talk, NEW r, Exact(talk, r), r.compatibility = "strict", talk.refused = None,
         NEW field \in Fields, NEW value
  PROVE  Exact(Normalize(talk, field, value), r) /\ Normalize(talk, field, value).refused # None
  <1>1. field \in Refusable
        BY PlainFields DEF Refusable
  <1>2. talk.request.compatibility = "strict"
        BY DEF Exact, Held, Fields
  <1> QED BY <1>1, <1>2, RefusedExactly DEF Normalize

(* Every step of negotiate_request() leaves a strict request as it is.       *)
LEMMA StepsAreExact ==
  ASSUME NEW talk, NEW r, Exact(talk, r), r.compatibility = "strict"
  PROVE  /\ \A caps : Exact(Action(talk, caps), r)
         /\ \A field \in Fields : \A range : Exact(Ranged(talk, field, range), r)
         /\ \A sizes : Exact(Size(talk, sizes), r)
         /\ \A field \in Fields : \A supported : Exact(Hint(talk, field, supported), r)
         /\ \A field \in Fields : \A allowed, preferred, order :
              Exact(OneOf(talk, field, allowed, preferred, order), r)
         /\ Exact(Compression(talk), r)
         /\ \A level : Exact(Negative(talk, level), r)
  <1>1. \A field \in Fields : \A value : talk.refused = None => Exact(Normalize(talk, field, value), r)
        BY NormalizedExactly
  <1>2. \A field \in Fields : field \in Refusable /\ Exact(Refuse(talk, field), r)
        BY RefusedExactly, PlainFields DEF Refusable
  <1>3. {"action", "size", "compression", "negative"} \subseteq Fields
        BY DEF Fields
  <1>4. ASSUME NEW caps PROVE Exact(Action(talk, caps), r)
        <2>1. talk.refused = None => Exact(Change(talk, "action", "auto"), r)
              BY DEF Exact, Change, Held
        <2> QED BY <1>2, <1>3, <2>1 DEF Action, Declined
  <1>5. ASSUME NEW field \in Fields, NEW range PROVE Exact(Ranged(talk, field, range), r)
        BY <1>1, Zenon DEF Ranged, Declined
  <1>6. ASSUME NEW sizes PROVE Exact(Size(talk, sizes), r)
        BY <1>1, <1>2, <1>3, Zenon DEF Size, Declined
  <1>7. ASSUME NEW field \in Fields, NEW supported PROVE Exact(Hint(talk, field, supported), r)
        BY <1>1, Zenon DEF Hint, Declined
  <1>8. ASSUME NEW field \in Fields, NEW allowed, NEW preferred, NEW order
        PROVE  Exact(OneOf(talk, field, allowed, preferred, order), r)
        BY <1>1, <1>2, Zenon DEF OneOf, Declined
  <1>9. Exact(Compression(talk), r)
        BY <1>1, <1>3, Zenon DEF Compression, Declined
  <1>10. ASSUME NEW level PROVE Exact(Negative(talk, level), r)
        <2>1. talk.refused = None => Exact(Merge(talk), r)
              BY DEF Exact, Merge, Held
        <2> QED BY <1>2, <1>3, <2>1 DEF Negative, Declined
  <1> QED BY <1>4, <1>5, <1>6, <1>7, <1>8, <1>9, <1>10

LEMMA StartsExact ==
  ASSUME NEW r, DOMAIN r = Fields, NEW caps
  PROVE  Exact(Able(r, caps), r)
  <1>1. Exact(Start(r), r)
        BY DEF Exact, Start
  <1>2. \A field : Exact(Refuse(Start(r), field), r) \/ field = None
        BY <1>1 DEF Exact, Refuse
  <1>3. Unmet(r, caps) # {} => (CHOOSE field \in Unmet(r, caps) : TRUE) # None
        BY UnmetNames, NoneAssumption
  <1> QED BY <1>1, <1>2, <1>3 DEF Able

LEMMA NegotiatedExactly ==
  ASSUME NEW r, DOMAIN r = Fields, r.compatibility = "strict", NEW caps
  PROVE  Exact(Negotiate(r, caps), r)
  <1> DEFINE able == Able(r, caps)
             action == Action(able, caps)
             count == Ranged(action, "n", caps.count)
             size == Size(count, caps.sizes)
             aspect == Hint(size, "aspect", caps.aspect)
             resolution == Hint(aspect, "resolution", caps.resolution)
             quality == OneOf(resolution, "quality", caps.qualities, "auto", Qualities)
             format == OneOf(quality, "format", caps.formats, "png", Formats)
             compression == Compression(format)
             background == OneOf(compression, "background", caps.backgrounds, "auto", Backgrounds)
             moderation == OneOf(background, "moderation", caps.moderation, "auto", Moderations)
             partial == Ranged(moderation, "partials", caps.partials)
             last == Negative(partial, caps.negative)
  <1>1. Negotiate(r, caps) = last
        BY DEF Negotiate
  <1>2. Exact(able, r)
        BY StartsExact
  <1>3. {"n", "aspect", "resolution", "quality", "format", "background", "moderation", "partials"} \subseteq Fields
        BY DEF Fields
  <1> HIDE DEF able
  <1>4. Exact(action, r)
        BY <1>2, StepsAreExact
  <1> HIDE DEF action
  <1>5. Exact(count, r)
        BY <1>3, <1>4, StepsAreExact
  <1> HIDE DEF count
  <1>6. Exact(size, r)
        BY <1>5, StepsAreExact
  <1> HIDE DEF size
  <1>7. Exact(aspect, r)
        BY <1>3, <1>6, StepsAreExact
  <1> HIDE DEF aspect
  <1>8. Exact(resolution, r)
        BY <1>3, <1>7, StepsAreExact
  <1> HIDE DEF resolution
  <1>9. Exact(quality, r)
        BY <1>3, <1>8, StepsAreExact
  <1> HIDE DEF quality
  <1>10. Exact(format, r)
        BY <1>3, <1>9, StepsAreExact
  <1> HIDE DEF format
  <1>11. Exact(compression, r)
        BY <1>10, StepsAreExact
  <1> HIDE DEF compression
  <1>12. Exact(background, r)
        BY <1>3, <1>11, StepsAreExact
  <1> HIDE DEF background
  <1>13. Exact(moderation, r)
        BY <1>3, <1>12, StepsAreExact
  <1> HIDE DEF moderation
  <1>14. Exact(partial, r)
        BY <1>3, <1>13, StepsAreExact
  <1> HIDE DEF partial
  <1>15. Exact(last, r)
        BY <1>14, StepsAreExact
  <1> QED BY <1>1, <1>15

(* What prepare_transparency() asks a strict provider for differs from what  *)
(* the caller asked for by the key alone.                                    *)
LEMMA PreparedExactly ==
  ASSUME NEW r, DOMAIN r = Fields, r.compatibility = "strict", NEW caps, Prepare(r, caps).refused = None
  PROVE  /\ DOMAIN Prepare(r, caps).request = Fields
         /\ \A field \in Fields \ {"prompt", "background"} : Prepare(r, caps).request[field] = r[field]
         /\ Keyed(r, caps) \/ Prepare(r, caps).request.background = r.background
  <1> DEFINE mode == TransparencyMode(r, caps)
             noted == [Start(r) EXCEPT !.notes = <<Note("transparency", r.transparency, mode)>>]
             formed == AlphaFormat(noted)
             keyed == KeyBackground(formed, caps)
  <1>1. /\ Exact(Start(r), r) /\ Start(r).request = r
        /\ Exact(noted, r) /\ noted.request = r /\ noted.refused = None
        BY DEF Exact, Start
  <1>2. \A field : field # None => Refuse(Start(r), field).refused # None /\ Refuse(noted, field).refused # None
        BY DEF Refuse, Start
  <1>3. {"format", "background", "transparency"} \subseteq Fields /\ None \notin Fields
        BY NoneAssumption, PlainFields DEF Fields, Refusable
  <1>4. \/ Prepare(r, caps) = Start(r)
        \/ Prepare(r, caps) = Refuse(Start(r), "background")
        \/ Prepare(r, caps) = Refuse(noted, "transparency")
        \/ mode = "native" /\ Prepare(r, caps) = noted
        \/ r.background = "transparent" /\ mode # "native" /\ Prepare(r, caps) = keyed
        BY DEF Prepare
  <1>5. CASE r.background = "transparent" /\ mode # "native" /\ Prepare(r, caps) = keyed
        <2>1. formed = noted \/ formed.refused # None
              <3>1. CASE noted.request.format # "jpeg"
                    BY <3>1 DEF AlphaFormat
              <3>2. CASE noted.request.format = "jpeg"
                    <4>1. Normalize(noted, "format", "png").refused # None
                          <5> HIDE DEF noted
                          <5> QED BY <1>1, <1>3, NormalizedExactly
                    <4> HIDE DEF noted
                    <4> QED BY <3>2, <4>1 DEF AlphaFormat
              <3> QED BY <3>1, <3>2
        <2>2. formed = noted
              BY <1>5, <2>1 DEF KeyBackground
        <2>3. \/ keyed = Refuse(noted, "background")
              \/ /\ DOMAIN keyed.request = DOMAIN noted.request
                 /\ \A field \in DOMAIN noted.request \ {"prompt", "background"} :
                      keyed.request[field] = noted.request[field]
              <3> HIDE DEF noted, formed
              <3>1. DOMAIN noted = {"request", "notes", "refused"}
                    BY <1>1 DEF Exact
              <3> QED BY <1>1, <2>2, <3>1 DEF KeyBackground
        <2>4. Keyed(r, caps)
              BY <1>5 DEF Keyed
        <2> HIDE DEF noted, formed, keyed, mode
        <2>5. keyed # Refuse(noted, "background")
              BY <1>2, <1>3, <1>5
        <2> QED BY <1>1, <1>5, <2>3, <2>4, <2>5
  <1> HIDE DEF noted, formed, keyed, mode
  <1>6. CASE Prepare(r, caps) = Start(r) \/ Prepare(r, caps) = noted
        BY <1>1, <1>6
  <1>7. Prepare(r, caps) # Refuse(Start(r), "background") /\ Prepare(r, caps) # Refuse(noted, "transparency")
        BY <1>2, <1>3
  <1> QED BY <1>4, <1>5, <1>6, <1>7

(* What a strict request has become in front of the provider.                *)
Strictly ==
  stage \in {"fan_out", "provider", "sent"} /\ asked.compatibility = "strict" =>
    \A field \in Parameters \ {"action"} : Answered[field] = asked[field]

LEMMA RoutedStrictly ==
  ASSUME PipelineInv, Route
  PROVE  Strictly'
  <1> DEFINE caps == Capabilities(settings, Way.provider, Way.model)
             tried == On(asked, Way)
             prepared == Prepare(tried, caps)
             negotiated == Negotiate(prepared.request, caps)
  <1>1. \/ \E code : Reject(code)
        \/ /\ prepared.refused = None /\ negotiated.refused = None
           /\ capable' = caps /\ routed' = negotiated.request
           /\ UNCHANGED <<standing, call, asked, route, answer, reply>>
        BY DEF Route
  <1>2. CASE \E code : Reject(code)
        <2>1. stage' \in {"admitted", "refused"}
              BY <1>2 DEF Reject
        <2> QED BY <2>1 DEF Strictly
  <1>3. CASE /\ prepared.refused = None /\ negotiated.refused = None
             /\ capable' = caps /\ routed' = negotiated.request
             /\ UNCHANGED <<standing, call, asked, route, answer, reply>>
             /\ asked.compatibility = "strict"
        <2>1. /\ DOMAIN asked = Fields /\ DOMAIN tried = Fields
              /\ \A field \in Fields \ {"provider", "model", "fallbacks"} : tried[field] = asked[field]
              BY DEF PipelineInv, Understood, On
        <2>2. /\ Parameters \ {"action"} \subseteq Held
              /\ Parameters \cap {"prompt", "provider", "model", "fallbacks"} = {}
              /\ "compatibility" \in Held /\ "background" \in Fields /\ Held \subseteq Fields
              <3>1. Parameters \ {"action"} \subseteq Held
                    BY DEF Parameters, Held, Fields
              <3>2. Parameters \cap {"prompt", "provider", "model", "fallbacks"} = {}
                    BY DEF Parameters
              <3>3. "compatibility" \in Held /\ "background" \in Fields /\ Held \subseteq Fields
                    BY DEF Held, Fields
              <3> QED BY <3>1, <3>2, <3>3
        <2>3. tried.compatibility = "strict" /\ tried.background = asked.background
              BY <1>3, <2>1, <2>2
        <2>4. (Way)' = Way /\ On(asked, Way)' = tried
              BY <1>3 DEF Way, standing, On
        <2>5. Keyed(On(asked, Way), capable)' = Keyed(tried, caps)
              BY <1>3, <2>4 DEF Keyed, TransparencyMode
        <2> HIDE DEF tried, caps
        <2>6. /\ DOMAIN prepared.request = Fields
              /\ \A field \in Fields \ {"prompt", "background"} : prepared.request[field] = tried[field]
              /\ Keyed(tried, caps) \/ prepared.request.background = tried.background
              BY <1>3, <2>1, <2>3, PreparedExactly
        <2> HIDE DEF prepared
        <2>7. prepared.request.compatibility = "strict"
              BY <2>3, <2>6, <2>2
        <2>8. Exact(negotiated, prepared.request)
              BY <2>6, <2>7, NegotiatedExactly
        <2> HIDE DEF negotiated
        <2>9. DOMAIN negotiated.request = Fields
              /\ \A field \in Held : negotiated.request[field] = prepared.request[field]
              BY <1>3, <2>8 DEF Exact
        <2>10. Answered' = IF Keyed(tried, caps) THEN [negotiated.request EXCEPT !.background = "transparent"]
                                                 ELSE negotiated.request
              BY <1>3, <2>5 DEF Answered
        <2>11. Keyed(tried, caps) => asked.background = "transparent"
              BY <2>3 DEF Keyed
        <2>12. \A field \in Parameters \ {"action"} : Answered'[field] = asked[field]
              BY <2>1, <2>2, <2>6, <2>9, <2>10, <2>11
        <2> QED BY <1>3, <2>12 DEF Strictly
  <1> QED BY <1>1, <1>2, <1>3 DEF Strictly

LEMMA JudgeStaysStrict ==
  ASSUME Strictly, stage \in {"fan_out", "provider", "sent"}, NEW caps, NEW next, NEW outputs, Judge(caps, next, outputs)
  PROVE  Strictly'
  <1>1. CASE \E code : Reject(code)
        BY <1>1 DEF Reject, Strictly
  <1>2. CASE UNCHANGED <<asked, route, capable, routed, settings>>
        <2>1. Answered' = Answered
              BY <1>2 DEF Answered, Keyed, TransparencyMode, Way, On
        <2> QED BY <1>2, <2>1 DEF Strictly
  <1> QED BY <1>1, <1>2 DEF Judge, standing

LEMMA StaysStrict ==
  ASSUME PipelineInv, Strictly, [PipelineNext]_pipelineVars
  PROVE  Strictly'
  <1>1. ASSUME FanOut \/ Call
        PROVE  Strictly'
        BY <1>1, JudgeStaysStrict DEF FanOut, Call
  <1>2. ASSUME stage' \notin {"fan_out", "provider", "sent"}
        PROVE  Strictly'
        BY <1>2 DEF Strictly
  <1>3. ASSUME UNCHANGED pipelineVars
        PROVE  Strictly'
        <2>1. Answered' = Answered /\ stage' = stage /\ asked' = asked
              BY <1>3 DEF pipelineVars, Answered, Keyed, TransparencyMode, Way, On
        <2> QED BY <2>1 DEF Strictly
  <1>4. Load \/ Check \/ RunJob \/ Answer \/ ChangeShelf \/ Materialize =>
          stage' \notin {"fan_out", "provider", "sent"}
        BY DEF Load, Check, RunJob, Enter, Answer, ChangeShelf, Materialize, Conclude, Reject
  <1>5. \A x : Assemble(x) \/ Return(x) \/ AttachMetadata(x) \/ Arrive(x) =>
                 stage' \notin {"fan_out", "provider", "sent"}
        BY DEF Assemble, Return, AttachMetadata, Arrive, Enter, TurnAway
  <1> QED BY <1>1, <1>2, <1>3, <1>4, <1>5, RoutedStrictly DEF PipelineNext

(* A request under strict compatibility reaches the model with every         *)
(* parameter as it was asked for, the action aside, or not at all: through   *)
(* the plan for transparency and up to three negotiations.                   *)
THEOREM StrictRequestsAreExact == PipelineSpec => []StrictIsExact
  <1>1. PipelineInit => Strictly
        BY DEF PipelineInit, Strictly
  <1>2. Strictly => StrictIsExact
        BY DEF Strictly, StrictIsExact
  <1> QED BY <1>1, <1>2, StaysStrict, PipelineInvHolds, PTL DEF PipelineSpec
=============================================================================
