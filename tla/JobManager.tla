----------------------------- MODULE JobManager -----------------------------
(***************************************************************************)
(* The durable job manager of crates/server/src/jobs.rs over the job table *)
(* of sqlite_jobs.rs: HTTP handlers submit and cancel, one spawned task    *)
(* per job waits for a worker permit, claims its row, runs the runtime and *)
(* settles the row; the process may stop gracefully or crash at any await  *)
(* point and opens again over the same table.                              *)
(*                                                                         *)
(* Every action is what the code does between two await points, and every  *)
(* await of the source that another task can interleave with is a boundary *)
(* between two actions.                                                    *)
(***************************************************************************)
EXTENDS JobTable

CONSTANTS
  Clients,      \* concurrent HTTP handlers of POST /v1/jobs
  Idle,         \* a handler slot that serves no request
  MaxRunning,   \* server.jobs.max_running
  Faults,       \* which of "crash", "drop", "db", "drain" the environment may do
  MaxFaults     \* bound: how many faults one behaviour contains

ASSUME ManagerAssumption ==
  /\ Idle \notin Keys \cup {NoKey}
  /\ MaxRunning \in Nat \ {0}
  /\ Faults \subseteq {"crash", "drop", "db", "drain"}
  /\ MaxFaults \in Nat

VARIABLES
  life,        \* where the process is between open() and its exit
  healthy,     \* retention_healthy
  submitting,  \* handlers past submit()'s admission checks, before create() commits
  inserted,    \* rows whose handler has committed create() and not yet called schedule()
  signalling,  \* jobs with a handler between request_cancel() and cancellation.cancel()
  worker,      \* where the task spawned by schedule() is inside run()
  active,      \* the keys of JobManager::active
  token,       \* the cancellation token of each running job
  partials,    \* the keys of JobManager::partials
  outcome,     \* what execute_claimed() returned, then the status run() chose for it
  drain,       \* where shutdown()'s wait loop is
  woken,       \* whether the Notified future of that loop has been notified
  lost,        \* history: jobs whose handler or worker a fault cut short in this process
  calls,       \* history: calls of the runtime made for each job, over all restarts
  faults       \* number of faults so far

handlers == <<submitting, inserted, signalling>>
process  == <<life, healthy, drain>>
volatile == <<healthy, submitting, inserted, signalling, worker, active, token,
              partials, outcome, drain, woken, lost>>
vars     == <<rows, life, volatile, calls, faults>>

WorkerPc == {"none", "waiting", "permitted", "claimed", "registered", "loaded",
             "executing", "returned", "removed", "finishing", "retaining"}

(* The pcs at which run() owns its semaphore permit, from acquire_owned() to *)
(* drop(permit).                                                             *)
Holding    == {"permitted", "claimed", "registered", "loaded", "executing",
               "returned", "removed"}
(* The pcs between inserting the token in the active map and removing it.    *)
Registered == {"registered", "loaded", "executing", "returned"}

WorkersAt(S) == {id \in Ids : worker[id] \in S}
Alive        == life \in {"up", "draining", "stopped", "forced"}
ShuttingDown == life \in {"draining", "stopped", "forced"}

TypeOK ==
  /\ TableTypeOK
  /\ life \in {"down", "recovered", "swept", "up", "draining", "stopped", "forced"}
  /\ healthy \in BOOLEAN
  /\ submitting \in [Clients -> Keys \cup {NoKey, Idle}]
  /\ inserted \subseteq Ids /\ signalling \subseteq Ids
  /\ active \subseteq Ids /\ partials \subseteq Ids
  /\ worker \in [Ids -> WorkerPc]
  /\ token \in [Ids -> BOOLEAN]
  /\ outcome \in [Ids -> {"none", "ok", "err"} \cup Terminal]
  /\ drain \in {"idle", "enlisted", "looked", "sleeping"}
  /\ woken \in BOOLEAN
  /\ lost \subseteq Ids
  /\ calls \in [Ids -> Nat]
  /\ faults \in Nat

(* Everything that lives in the process: gone with it, rebuilt by open().    *)
VolatileInit ==
  /\ healthy = TRUE
  /\ submitting = [c \in Clients |-> Idle]
  /\ inserted = {} /\ signalling = {} /\ active = {} /\ partials = {}
  /\ worker = [id \in Ids |-> "none"]
  /\ token = [id \in Ids |-> FALSE]
  /\ outcome = [id \in Ids |-> "none"]
  /\ drain = "idle"
  /\ woken = FALSE
  /\ lost = {}

Init ==
  /\ TableInit
  /\ VolatileInit
  /\ life = "down"
  /\ calls = [id \in Ids |-> 0]
  /\ faults = 0

Fault(kind) == kind \in Faults /\ faults < MaxFaults /\ faults' = faults + 1

-----------------------------------------------------------------------------
(* open(): three awaited store calls, then the spawn of one task per queued *)
(* row.  A crash may fall between any two of them.                          *)

OpenRecover ==
  /\ life = "down"
  /\ life' = "recovered"
  /\ RecoverInterrupted
  /\ UNCHANGED <<volatile, calls, faults>>

OpenPrune ==
  /\ life = "recovered"
  /\ life' = "swept"
  /\ \E S \in SUBSET Ids : Prune(S)
  /\ UNCHANGED <<volatile, calls, faults>>

(* Mutant: LIMIT max_pending - 1.                                            *)
ResumedOffByOne(S) ==
  /\ S \subseteq IdsIn({"queued"})
  /\ Cardinality(S) < MaxPending
  /\ S # IdsIn({"queued"}) => Cardinality(S) = MaxPending - 1

(* queued_identities(max_pending) is limited; the rows beyond the limit get  *)
(* no task.                                                                  *)
Resumed(S) ==
  /\ S \subseteq IdsIn({"queued"})
  /\ Cardinality(S) <= MaxPending
  /\ S # IdsIn({"queued"}) => Cardinality(S) = MaxPending

OpenSchedule ==
  /\ life = "swept"
  /\ life' = "up"
  /\ \E S \in SUBSET Ids :
       /\ Resumed(S)
       /\ worker' = [id \in Ids |-> IF id \in S THEN "waiting" ELSE worker[id]]
  /\ UNCHANGED <<rows, healthy, submitting, inserted, signalling, active, token,
                 partials, outcome, drain, woken, lost, calls, faults>>

-----------------------------------------------------------------------------
(* submit(): the admission checks, the awaited create(), then schedule().    *)

SubmitAdmit(c, k) ==
  /\ life = "up" /\ healthy
  /\ submitting[c] = Idle
  /\ submitting' = [submitting EXCEPT ![c] = k]
  /\ UNCHANGED <<rows, life, healthy, inserted, signalling, worker, active, token,
                 partials, outcome, drain, woken, lost, calls, faults>>

SubmitCreate(c, id) ==
  /\ Alive
  /\ submitting[c] # Idle
  /\ Create(id, submitting[c])
  /\ submitting' = [submitting EXCEPT ![c] = Idle]
  /\ inserted' = inserted \cup {id}
  /\ UNCHANGED <<life, healthy, signalling, worker, active, token, partials,
                 outcome, drain, woken, lost, calls, faults>>

(* create() inserted nothing: a replay (created = false, so nothing is       *)
(* scheduled), a conflict, a full queue or byte budget, or an error.         *)
SubmitRefused(c) ==
  /\ Alive
  /\ submitting[c] # Idle
  /\ submitting' = [submitting EXCEPT ![c] = Idle]
  /\ UNCHANGED <<rows, life, healthy, inserted, signalling, worker, active, token,
                 partials, outcome, drain, woken, lost, calls, faults>>

SubmitSchedule(id) ==
  /\ id \in inserted
  /\ inserted' = inserted \ {id}
  /\ worker' = [worker EXCEPT ![id] = "waiting"]
  /\ UNCHANGED <<rows, life, healthy, submitting, signalling, active, token,
                 partials, outcome, drain, woken, lost, calls, faults>>

(* The row is committed by the database thread, but the handler never        *)
(* reaches schedule(): its future is dropped at the await (the client is     *)
(* gone), or the get() that ends create() fails.                             *)
SubmitDropped(id) ==
  /\ id \in inserted
  /\ inserted' = inserted \ {id}
  /\ Fault("drop") \/ Fault("db")
  /\ lost' = lost \cup {id}
  /\ UNCHANGED <<rows, life, healthy, submitting, signalling, worker, active,
                 token, partials, outcome, drain, woken, calls>>

-----------------------------------------------------------------------------
(* cancel(): the durable request, then the signal to an active token, which  *)
(* a dropped handler or a failed read of the row never sends.                *)

CancelRequest(id) ==
  /\ life = "up"
  /\ RequestCancel(id)
  /\ signalling' = signalling \cup {id}
  /\ UNCHANGED <<life, healthy, submitting, inserted, worker, active, token,
                 partials, outcome, drain, woken, lost, calls, faults>>

CancelSignal(id) ==
  /\ id \in signalling
  /\ signalling' = signalling \ {id}
  /\ token' = [token EXCEPT ![id] = @ \/ id \in active]
  /\ UNCHANGED <<rows, life, healthy, submitting, inserted, worker, active,
                 partials, outcome, drain, woken, lost, calls, faults>>

CancelDropped(id) ==
  /\ id \in signalling
  /\ signalling' = signalling \ {id}
  /\ Fault("drop") \/ Fault("db")
  /\ lost' = lost \cup {id}
  /\ UNCHANGED <<rows, life, healthy, submitting, inserted, worker, active, token,
                 partials, outcome, drain, woken, calls>>
-----------------------------------------------------------------------------
(* run(): one task per scheduled job.                                        *)

Moves(id, from, to) ==
  /\ worker[id] = from
  /\ worker' = [worker EXCEPT ![id] = to]

(* The select between the semaphore and the shutdown token is not biased:    *)
(* after shutdown a free permit may still win.                               *)
WorkerAcquire(id) ==
  /\ Moves(id, "waiting", "permitted")
  /\ Cardinality(WorkersAt(Holding)) < MaxRunning
  /\ UNCHANGED <<rows, process, handlers, active, token, partials, outcome,
                 woken, lost, calls, faults>>

WorkerStop(id) ==
  /\ ShuttingDown
  /\ Moves(id, "waiting", "none")
  /\ UNCHANGED <<rows, process, handlers, active, token, partials, outcome,
                 woken, lost, calls, faults>>

WorkerClaim(id) ==
  /\ Moves(id, "permitted", "claimed")
  /\ Claim(id)
  /\ UNCHANGED <<process, handlers, active, token, partials, outcome, woken,
                 lost, calls, faults>>

(* The row was cancelled while it waited (or the UPDATE failed): the task    *)
(* ends and its permit goes with it.                                         *)
WorkerSkip(id) ==
  /\ Moves(id, "permitted", "none")
  /\ \/ ~Claimable(id) /\ UNCHANGED <<lost, faults>>
     \/ Fault("db") /\ lost' = lost \cup {id}
  /\ UNCHANGED <<rows, process, handlers, active, token, partials, outcome,
                 woken, calls>>

(* Mutant: notify_waiters() reaches only futures that were already polled.   *)
NotifyPolled == woken' = (woken \/ drain = "sleeping")

(* notify_waiters() reaches every Notified future that exists.               *)
NotifyWaiters == woken' = (woken \/ drain # "idle")

WorkerRegister(id) ==
  /\ Moves(id, "claimed", "registered")
  /\ active' = active \cup {id}
  /\ token' = [token EXCEPT ![id] = FALSE]
  /\ NotifyWaiters
  /\ UNCHANGED <<rows, process, handlers, partials, outcome, lost, calls, faults>>

(* Mutant: the row's cancel_requested is not looked at.                      *)
WorkerLoadBlind(id) ==
  /\ Moves(id, "registered", "loaded")
  /\ UNCHANGED <<rows, process, handlers, active, token, partials, outcome, woken,
                 lost, calls, faults>>

(* execute_claimed() reads the row back, so a request made before the token  *)
(* was registered is seen here.                                              *)
WorkerLoad(id) ==
  /\ Moves(id, "registered", "loaded")
  /\ token' = [token EXCEPT ![id] = @ \/ rows[id].cancel]
  /\ UNCHANGED <<rows, process, handlers, active, partials, outcome, woken,
                 lost, calls, faults>>

WorkerLoadError(id) ==
  /\ Moves(id, "registered", "returned")
  /\ outcome' = [outcome EXCEPT ![id] = "err"]
  /\ Fault("db")
  /\ UNCHANGED <<rows, process, handlers, active, token, partials, woken, lost, calls>>

WorkerDispatch(id) ==
  /\ Moves(id, "loaded", "executing")
  /\ calls' = [calls EXCEPT ![id] = @ + 1]
  /\ UNCHANGED <<rows, process, handlers, active, token, partials, outcome,
                 woken, lost, faults>>

(* handle_job_event() of a partial image; the row's progress columns are     *)
(* left out.                                                                 *)
WorkerPartial(id) ==
  /\ worker[id] = "executing"
  /\ partials' = partials \cup {id}
  /\ UNCHANGED <<rows, process, handlers, worker, active, token, outcome, woken,
                 lost, calls, faults>>

WorkerReturn(id, result) ==
  /\ Moves(id, "executing", "returned")
  /\ outcome' = [outcome EXCEPT ![id] = result]
  /\ UNCHANGED <<rows, process, handlers, active, token, partials, woken, lost, calls,
                 faults>>

WorkerRemove(id) ==
  /\ Moves(id, "returned", "removed")
  /\ active' = active \ {id}
  /\ UNCHANGED <<rows, process, handlers, token, partials, outcome, woken, lost, calls,
                 faults>>

(* Mutants: the result itself is written; an error always reads cancelled.   *)
VerdictRaw(id) == outcome[id]
VerdictCancelled(id) == IF outcome[id] = "ok" THEN "succeeded" ELSE "cancelled"

Verdict(id) ==
  CASE outcome[id] = "ok" -> "succeeded"
    [] outcome[id] # "ok" /\ ShuttingDown -> "interrupted"
    [] outcome[id] # "ok" /\ ~ShuttingDown /\ token[id] -> "cancelled"
    [] OTHER -> "failed"

(* The rest of run() up to its next await: the preview goes, the waiters are *)
(* notified, the permit is returned and the status to write is chosen.       *)
WorkerRelease(id) ==
  /\ Moves(id, "removed", "finishing")
  /\ partials' = partials \ {id}
  /\ NotifyWaiters
  /\ outcome' = [outcome EXCEPT ![id] = Verdict(id)]
  /\ token' = [token EXCEPT ![id] = FALSE]
  /\ UNCHANGED <<rows, process, handlers, active, lost, calls, faults>>

WorkerPersist(id) ==
  /\ Moves(id, "finishing", "retaining")
  /\ Finish(id, outcome[id])
  /\ outcome' = [outcome EXCEPT ![id] = "none"]
  /\ UNCHANGED <<process, handlers, active, token, partials, woken, lost, calls, faults>>

(* succeed() failed (a database error, or a result larger than the reserve): *)
(* the job is settled as failed instead.                                     *)
WorkerDowngrade(id) ==
  /\ worker[id] = "finishing" /\ outcome[id] = "succeeded"
  /\ outcome' = [outcome EXCEPT ![id] = "failed"]
  /\ Fault("db")
  /\ UNCHANGED <<rows, process, handlers, worker, active, token, partials, woken,
                 lost, calls>>

(* fail() failed: the task ends and nothing settles the row until a restart. *)
WorkerAbandon(id) ==
  /\ Moves(id, "finishing", "none")
  /\ outcome[id] # "succeeded"
  /\ outcome' = [outcome EXCEPT ![id] = "none"]
  /\ Fault("db")
  /\ lost' = lost \cup {id}
  /\ UNCHANGED <<rows, process, handlers, active, token, partials, woken, calls>>

-----------------------------------------------------------------------------
(* enforce_retention(): run by a worker after it settled its row, and by the *)
(* periodic loop, whose select takes either branch once shutdown began.      *)

EnforceRetention ==
  \/ /\ \E S \in SUBSET Ids : Prune(S)
     /\ healthy' = TRUE
     /\ UNCHANGED faults
  \/ /\ Fault("db")
     /\ healthy' = FALSE
     /\ UNCHANGED rows

WorkerRetain(id) ==
  /\ Moves(id, "retaining", "none")
  /\ EnforceRetention
  /\ UNCHANGED <<life, drain, handlers, active, token, partials, outcome, woken,
                 lost, calls>>

RetentionTick ==
  /\ Alive
  /\ EnforceRetention
  /\ UNCHANGED <<life, drain, handlers, worker, active, token, partials, outcome,
                 woken, lost, calls>>

-----------------------------------------------------------------------------
(* shutdown(), which serve_command() calls once the HTTP server has drained  *)
(* its handlers.                                                             *)

ShutdownBegin ==
  /\ life = "up"
  /\ \A c \in Clients : submitting[c] = Idle
  /\ inserted = {} /\ signalling = {}
  /\ life' = "draining"
  /\ UNCHANGED <<rows, volatile, calls, faults>>

(* One round of the wait loop: create the Notified future, look at active    *)
(* under its lock, then sleep until notified.                                *)
DrainEnlist ==
  /\ life = "draining" /\ drain = "idle"
  /\ drain' = "enlisted"
  /\ woken' = FALSE
  /\ UNCHANGED <<rows, life, healthy, handlers, worker, active, token, partials,
                 outcome, lost, calls, faults>>

DrainCheck ==
  /\ life = "draining" /\ drain = "enlisted"
  /\ \/ active = {} /\ life' = "stopped" /\ drain' = "idle"
     \/ active # {} /\ life' = life /\ drain' = "looked"
  /\ UNCHANGED <<rows, healthy, handlers, worker, active, token, partials,
                 outcome, woken, lost, calls, faults>>

DrainSleep ==
  /\ life = "draining" /\ drain = "looked"
  /\ drain' = "sleeping"
  /\ UNCHANGED <<rows, life, healthy, handlers, worker, active, token, partials,
                 outcome, woken, lost, calls, faults>>

DrainWake ==
  /\ life = "draining" /\ drain = "sleeping" /\ woken
  /\ drain' = "idle"
  /\ UNCHANGED <<rows, life, healthy, handlers, worker, active, token, partials,
                 outcome, woken, lost, calls, faults>>

(* SHUTDOWN_DRAIN_TIMEOUT passed: every registered token is cancelled and    *)
(* shutdown() returns.                                                       *)
DrainTimeout ==
  /\ life = "draining"
  /\ life' = "forced"
  /\ drain' = "idle"
  /\ token' = [id \in Ids |-> token[id] \/ id \in active]
  /\ Fault("drain")
  /\ UNCHANGED <<rows, healthy, handlers, worker, active, partials, outcome,
                 woken, lost, calls>>

(* What the end of the process leaves of its memory; open() starts from it.  *)
ProcessGone ==
  /\ life' = "down"
  /\ healthy' = TRUE
  /\ submitting' = [c \in Clients |-> Idle]
  /\ inserted' = {} /\ signalling' = {} /\ active' = {} /\ partials' = {}
  /\ worker' = [id \in Ids |-> "none"]
  /\ token' = [id \in Ids |-> FALSE]
  /\ outcome' = [id \in Ids |-> "none"]
  /\ drain' = "idle"
  /\ woken' = FALSE
  /\ lost' = {}

(* serve_command() returns: the tasks that are left are dropped where they   *)
(* are.                                                                      *)
ProcessExit ==
  /\ life \in {"stopped", "forced"}
  /\ ProcessGone
  /\ UNCHANGED <<rows, calls, faults>>

Crash ==
  /\ life # "down"
  /\ ProcessGone
  /\ Fault("crash")
  /\ UNCHANGED <<rows, calls>>

-----------------------------------------------------------------------------
Opening == OpenRecover \/ OpenPrune \/ OpenSchedule

Handler ==
  \/ \E c \in Clients, k \in Keys \cup {NoKey} : SubmitAdmit(c, k)
  \/ \E c \in Clients, id \in Ids : SubmitCreate(c, id)
  \/ \E c \in Clients : SubmitRefused(c)
  \/ \E id \in Ids : \/ SubmitSchedule(id) \/ SubmitDropped(id)
                     \/ CancelRequest(id) \/ CancelSignal(id) \/ CancelDropped(id)

Run(id) ==
  \/ WorkerStop(id) \/ WorkerClaim(id) \/ WorkerSkip(id) \/ WorkerRegister(id)
  \/ WorkerLoad(id) \/ WorkerLoadError(id) \/ WorkerDispatch(id)
  \/ \E result \in {"ok", "err"} : WorkerReturn(id, result)
  \/ WorkerRemove(id) \/ WorkerRelease(id) \/ WorkerPersist(id)
  \/ WorkerDowngrade(id) \/ WorkerAbandon(id) \/ WorkerRetain(id)

Drain == DrainEnlist \/ DrainCheck \/ DrainSleep \/ DrainWake

Next ==
  \/ Opening
  \/ Handler
  \/ \E id \in Ids : WorkerAcquire(id) \/ WorkerPartial(id) \/ Run(id)
  \/ RetentionTick
  \/ ShutdownBegin \/ Drain \/ DrainTimeout \/ ProcessExit
  \/ Crash

Spec == Init /\ [][Next]_vars

(* What the runtime schedules: every task that can step does, the semaphore  *)
(* is FIFO (so a waiter that is passed over finitely often gets a permit),   *)
(* the retention interval keeps ticking until it succeeds, and a stopped     *)
(* process is started again.  Nothing makes a client submit or cancel, the   *)
(* operator stop the server, or a fault happen.                              *)
RetentionRecovers == life = "up" /\ ~healthy /\ RetentionTick /\ healthy'

Fairness ==
  /\ WF_vars(Opening)
  /\ \A id \in Ids : /\ WF_vars(SubmitSchedule(id))
                     /\ WF_vars(CancelSignal(id))
                     /\ SF_vars(WorkerAcquire(id))
                     /\ WF_vars(Run(id))
  /\ WF_vars(RetentionRecovers)
  /\ WF_vars(Drain)
  /\ WF_vars(ProcessExit)

FairSpec == Spec /\ Fairness

-----------------------------------------------------------------------------
(* A job's runtime call is made at most once over any number of crashes,     *)
(* restarts and retries: "Marks previously running jobs interrupted without  *)
(* retrying paid work" (recover_interrupted), and no path schedules a        *)
(* claimed job again.                                                        *)
AtMostOnce == \A id \in Ids : calls[id] <= 1

(* The pcs at which the task of a job is the one that will settle its row.   *)
Owning == {"claimed", "registered", "loaded", "executing", "returned",
           "removed", "finishing"}

(* finish() updates WHERE status='running' and fails otherwise: between      *)
(* claim() and finish() nothing, neither a cancel, nor retention, nor a      *)
(* restart, takes the row out of 'running' under its worker.                 *)
WorkerOwnsRow == \A id \in WorkersAt(Owning) : Status(id) = "running"

(* No wake-up is forgotten: while the process serves, a queued row has a     *)
(* task that waits for it or a handler about to spawn one, and a running row *)
(* has a worker that will settle it, unless a fault cut that very handler or *)
(* worker short (submit(), run()).                                           *)
NothingStranded ==
  \A id \in Ids \ lost :
    /\ life = "up" /\ Status(id) = "queued" =>
         id \in inserted \/ worker[id] \in {"waiting", "permitted"}
    /\ Alive /\ Status(id) = "running" => worker[id] \in Owning

(* cancel() writes the flag, then looks for a token; execute_claimed()       *)
(* registers the token, then reads the flag.  Whatever the interleaving, the *)
(* provider call of a job whose cancellation was recorded runs under a       *)
(* cancelled token, or the handler that will cancel it is on its way.        *)
CancelReaches ==
  \A id \in WorkersAt({"loaded", "executing"}) \ lost :
    rows[id].cancel => token[id] \/ id \in signalling

(* "Returns the latest verified preview retained only while a job is active" *)
(* (partial_preview): a preview never outlives its worker.                   *)
PreviewsOnlyWhileActive == partials \subseteq active \cup WorkersAt({"removed"})

(* "Maximum simultaneous durable workers" (JobManagerDiagnostics): the       *)
(* permit outlives the entry in active, so the map never holds more.         *)
ActiveBounded == Cardinality(active) <= MaxRunning

(* What holds between the table, the workers and the tasks at every moment.  *)
Sound == NothingStranded /\ PreviewsOnlyWhileActive /\ ActiveBounded

(* The manager, its table and its restarts implement the lifecycle a client  *)
(* is promised: verdicts are final, success and the paid call come together, *)
(* a job ends cancelled only when asked.                                     *)
Lifecycle == INSTANCE JobLifecycle WITH
  state <- [id \in Ids |-> Status(id)],
  asked <- [id \in Ids |-> rows[id].cancel],
  paid  <- calls
ImplementsLifecycle == Lifecycle!LifecycleSpec

-----------------------------------------------------------------------------
(* A queued job does not wait forever in a serving process: permits come     *)
(* back on every path through run().                                         *)
QueuedStarts ==
  \A id \in Ids : life = "up" /\ Status(id) = "queued"
                   ~> Status(id) # "queued" \/ ShuttingDown \/ id \in lost

(* A running job is settled: by its worker, or as interrupted by the open()  *)
(* that follows the end of its process.                                      *)
RunningSettles ==
  \A id \in Ids : Status(id) = "running" ~> Status(id) # "running" \/ id \in lost

(* The wait loop of shutdown() misses no notification: Notified is created   *)
(* before active is read, and every removal is followed by notify_waiters(). *)
ShutdownReturns == life = "draining" ~> life # "draining"

(* Submissions refused because retention failed are accepted again once a    *)
(* sweep succeeds (retention_healthy).                                       *)
AdmissionRecovers == ~healthy ~> healthy \/ ShuttingDown

(* Nothing that the manager has taken on is left for ever: jobs start and    *)
(* settle, shutdown() returns, a closed admission opens again.               *)
EverythingMoves == QueuedStarts /\ RunningSettles /\ ShutdownReturns /\ AdmissionRecovers

-----------------------------------------------------------------------------
(* What the code says of itself and does not do.                             *)

(* ImageJobStatus::Queued, crates/core/src/job.rs: "Accepted and waiting for *)
(* bounded worker capacity."  Once its handler is gone, a queued job has a   *)
(* task that waits for capacity.                                             *)
QueuedIsWaiting ==
  \A id \in Ids : life = "up" /\ Status(id) = "queued" =>
                     id \in inserted \/ worker[id] \in {"waiting", "permitted"}

(* shutdown(): "waits a bounded interval for active state to settle": when   *)
(* it returns within the interval, no worker still has a verdict to write.   *)
ShutdownSettles ==
  life = "stopped" => WorkersAt({"returned", "removed", "finishing"}) = {}
=============================================================================
