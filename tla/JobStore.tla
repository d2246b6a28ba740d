------------------------------ MODULE JobStore ------------------------------
(***************************************************************************)
(* The SQLite job store of crates/runtime/src/sqlite_jobs.rs in full:      *)
(* ownership scopes, submission keys and fingerprints, logical byte        *)
(* accounting, time and count retention, favorites and reversible          *)
(* deletion.  Every statement or transaction runs on the one database      *)
(* thread and is atomic; update_history() is two of them with other        *)
(* callers in between.                                                     *)
(*                                                                         *)
(* Sizes are in units: a request of a kind costs Cost[kind] (its columns   *)
(* and the fixed 128 bytes), a live row also its Reserve.                  *)
(***************************************************************************)
EXTENDS Integers, FiniteSets, FiniteSetsExt

CONSTANTS
  Ids,               \* job identifiers, numbers: a later UUIDv7 is larger
  Scopes,            \* authorization scopes
  Keys, NoKey,       \* Idempotency-Key values, and a submission without one
  Kinds,             \* requests, up to their fingerprint
  Cost,              \* stored bytes of a request of each kind
  ResultSizes,       \* encoded sizes of the results and errors workers offer
  Reserve,           \* ACTIVE_RESULT_RESERVE_BYTES
  MaxPending,        \* server.jobs.max_pending
  MaxDatabaseBytes,  \* server.jobs.max_database_bytes
  RetentionSecs,     \* server.jobs.retention_secs
  MaxRetained,       \* server.jobs.max_retained
  MaxRetainedBytes,  \* server.jobs.max_retained_bytes
  Changes,           \* updates clients ask for (what the route can send)
  MaxEdits,          \* bound: update_history() calls in flight at a time
  MaxTime            \* bound: the clock stops there

(* What update_history() does to a field; "keep" is SQL NULL.                *)
Change == {"keep", "set", "clear"}

ASSUME StoreAssumption ==
  /\ Ids \subseteq Nat
  /\ NoKey \notin Keys
  /\ Cost \in [Kinds -> Nat \ {0}]
  /\ ResultSizes \subseteq Nat /\ Reserve \in Nat \ {0}
  /\ {MaxPending, MaxDatabaseBytes, RetentionSecs, MaxRetained, MaxRetainedBytes} \subseteq Nat
  /\ Changes \subseteq [favorite : Change, hidden : Change]
  /\ MaxEdits \in Nat /\ MaxTime \in Nat

VARIABLES
  jobs,     \* the image_jobs table
  now,      \* unix_timestamp()
  editing   \* update_history() calls between their get() and their UPDATE

vars == <<jobs, now, editing>>

Live     == {"queued", "running"}
Terminal == {"succeeded", "failed", "cancelled", "interrupted"}
Gone     == {"absent", "pruned"}

Job == [status   : Live \cup Terminal \cup Gone,
        cancel   : BOOLEAN,
        scope    : Scopes \cup {NoKey},
        key      : Keys \cup {NoKey},
        kind     : Kinds \cup {NoKey},
        created  : Nat,
        completed: Nat,
        result   : Nat,
        favorite : BOOLEAN,
        hidden   : BOOLEAN]

NoJob(s) == [status |-> s, cancel |-> FALSE, scope |-> NoKey, key |-> NoKey,
             kind |-> NoKey, created |-> 0, completed |-> 0, result |-> 0,
             favorite |-> FALSE, hidden |-> FALSE]

Edit == [id : Ids, change : Changes]

Status(id)      == jobs[id].status
With(S)         == {id \in Ids : Status(id) \in S}
Present         == With(Live \cup Terminal)
Owned(scope)    == {id \in Present : jobs[id].scope = scope}

(* Types; a row carries a completion time, not before its creation, exactly  *)
(* from the moment it is settled (retention reads it).                       *)
TypeOK ==
  /\ jobs \in [Ids -> Job]
  /\ now \in 0 .. MaxTime
  /\ editing \subseteq Edit
  /\ \A id \in With(Live) : jobs[id].completed = 0
  /\ \A id \in With(Terminal) : jobs[id].completed \in jobs[id].created .. now

Init ==
  /\ jobs = [id \in Ids |-> NoJob("absent")]
  /\ now = 0
  /\ editing = {}

-----------------------------------------------------------------------------
(* logical_bytes_query(): a live row is charged the reserve its result may   *)
(* need, a terminal one what it stores.                                      *)
StoredBytes(id) ==
  Cost[jobs[id].kind] + (IF Status(id) \in Live THEN Reserve ELSE jobs[id].result)
LogicalBytes == MapThenSumSet(StoredBytes, Present)

(* Mutant: the reserve of the new row is forgotten.                          *)
NewJobBytesBare(kind) == Cost[kind]

NewJobBytes(kind) == Cost[kind] + Reserve

(* create(): the transaction that inserts.                                   *)
SameSubmission(scope, key) ==
  {id \in Owned(scope) : key # NoKey /\ jobs[id].key = key}

Fits(kind) ==
  /\ Cardinality(With({"queued"})) < MaxPending
  /\ LogicalBytes + NewJobBytes(kind) <= MaxDatabaseBytes

Create(id, scope, key, kind) ==
  /\ Status(id) = "absent"
  /\ SameSubmission(scope, key) = {}
  /\ Fits(kind)
  /\ jobs' = [jobs EXCEPT ![id] = [NoJob("queued") EXCEPT
                !.scope = scope, !.key = key, !.kind = kind, !.created = now]]
  /\ UNCHANGED <<now, editing>>

Claim(id) ==
  /\ Status(id) = "queued" /\ ~jobs[id].cancel
  /\ jobs' = [jobs EXCEPT ![id].status = "running"]
  /\ UNCHANGED <<now, editing>>

(* finish(): the UPDATE behind succeed() and fail().                         *)
Finish(id, verdict, size) ==
  /\ Status(id) = "running"
  /\ jobs' = [jobs EXCEPT ![id].status = verdict, ![id].completed = now,
                          ![id].result = size]
  /\ UNCHANGED <<now, editing>>

(* A result larger than the reserve is refused; an error is replaced by a    *)
(* short one.                                                                *)
Succeed(id, size) == size <= Reserve /\ Finish(id, "succeeded", size)
Fail(id, verdict, size) ==
  /\ verdict \in {"failed", "cancelled", "interrupted"}
  /\ Finish(id, verdict, IF size <= Reserve THEN size ELSE 1)

(* Mutant: a running job is settled on the spot.                             *)
RequestCancelNow(scope, id) ==
  /\ id \in Owned(scope)
  /\ jobs' =
       [jobs EXCEPT ![id] =
          IF Status(id) \in Live
            THEN [@ EXCEPT !.status = "cancelled", !.cancel = TRUE, !.completed = now]
            ELSE @]
  /\ UNCHANGED <<now, editing>>

RequestCancel(scope, id) ==
  /\ id \in Owned(scope)
  /\ jobs' =
       [jobs EXCEPT ![id] =
          CASE Status(id) = "queued" -> [@ EXCEPT !.status = "cancelled", !.cancel = TRUE,
                                                  !.completed = now]
            [] Status(id) = "running" -> [@ EXCEPT !.cancel = TRUE]
            [] OTHER -> @]
  /\ UNCHANGED <<now, editing>>

(* recover_interrupted(), when the process opens the store again; the calls  *)
(* the previous process was serving are gone.                                *)
RecoverInterrupted ==
  /\ jobs' = [id \in Ids |->
                IF Status(id) = "running"
                  THEN [jobs[id] EXCEPT !.status = "interrupted", !.completed = now,
                                        !.result = 1]
                  ELSE jobs[id]]
  /\ editing' = {}
  /\ UNCHANGED now

-----------------------------------------------------------------------------
(* prune(): expired rows first, then, newest first, whatever lies beyond the *)
(* count or the byte bound.  Favorites are exempt and not counted.           *)
Newer(a, b) == \/ jobs[a].created > jobs[b].created
               \/ jobs[a].created = jobs[b].created /\ a > b
Ordinary    == {id \in With(Terminal) : ~jobs[id].favorite}
Cutoff      == IF now > RetentionSecs THEN now - RetentionSecs ELSE 0
Expired     == {id \in Ordinary : jobs[id].completed <= Cutoff}
UpTo(id, S) == {o \in S : o = id \/ Newer(o, id)}
Excess(S) ==
  {id \in S : \/ Cardinality(UpTo(id, S)) > MaxRetained
              \/ MapThenSumSet(StoredBytes, UpTo(id, S)) > MaxRetainedBytes}

(* Mutant: the oldest rows are counted first.                                *)
ExcessOldest(S) ==
  {id \in S : Cardinality({o \in S : o = id \/ Newer(id, o)}) > MaxRetained}
DoomedOldest == Expired \cup ExcessOldest(Ordinary \ Expired)

Doomed == Expired \cup Excess(Ordinary \ Expired)

Prune ==
  /\ Doomed # {}
  /\ jobs' = [id \in Ids |-> IF id \in Doomed THEN NoJob("pruned") ELSE jobs[id]]
  /\ UNCHANGED <<now, editing>>

-----------------------------------------------------------------------------
(* update_history(): a read and a check, then an UPDATE by identity.         *)

EditBegin(scope, e) ==
  /\ Cardinality(editing) < MaxEdits
  /\ e.id \in Owned(scope)
  /\ e.change.hidden # "keep" => Status(e.id) \in Terminal
  /\ editing' = editing \cup {e}
  /\ UNCHANGED <<jobs, now>>

Set(old, change) == IF change = "keep" THEN old ELSE change = "set"

EditApply(e) ==
  /\ e \in editing
  /\ editing' = editing \ {e}
  /\ jobs' = IF e.id \in Present
               THEN [jobs EXCEPT ![e.id].favorite = Set(@, e.change.favorite),
                                 ![e.id].hidden = Set(@, e.change.hidden)]
               ELSE jobs
  /\ UNCHANGED now

Tick == now < MaxTime /\ now' = now + 1 /\ UNCHANGED <<jobs, editing>>

-----------------------------------------------------------------------------
Next ==
  \/ \E id \in Ids, scope \in Scopes, key \in Keys \cup {NoKey}, kind \in Kinds :
       Create(id, scope, key, kind)
  \/ \E id \in Ids : Claim(id)
  \/ \E id \in Ids, size \in ResultSizes : Succeed(id, size)
  \/ \E id \in Ids, verdict \in Terminal, size \in ResultSizes : Fail(id, verdict, size)
  \/ \E scope \in Scopes, id \in Ids : RequestCancel(scope, id)
  \/ \E scope \in Scopes, e \in Edit : EditBegin(scope, e)
  \/ \E e \in Edit : EditApply(e)
  \/ RecoverInterrupted
  \/ Prune
  \/ Tick

Spec == Init /\ [][Next]_vars

-----------------------------------------------------------------------------
(* create() admits within both of its bounds, and nothing that happens to an *)
(* admitted job afterwards, neither its result nor its error nor a recovery, *)
(* can exceed what was reserved: "Maximum logical bytes admitted across      *)
(* every durable row" (JobManagerDiagnostics), max_pending.                  *)
AdmissionBounds ==
  /\ LogicalBytes <= MaxDatabaseBytes
  /\ Cardinality(With({"queued"})) <= MaxPending

(* Submissions of one scope under one Idempotency-Key converge on one row    *)
(* for as long as it is retained, whatever became of it.                     *)
SubmissionsConverge ==
  \A a, b \in Present :
    /\ jobs[a].key # NoKey /\ jobs[a].key = jobs[b].key
    /\ jobs[a].scope = jobs[b].scope
    => a = b

(* create() with everything that happens to its rows later: the bounds it    *)
(* admits under hold for good, and a repeated submission meets its first row.*)
Admissions == TypeOK /\ AdmissionBounds /\ SubmissionsConverge

(* Retention drops the oldest first: a row that had not expired goes only    *)
(* when everything ordinary that is older goes too, and a job the user       *)
(* marked never goes.                                                        *)
RetentionKeepsNewest ==
  [][/\ \A id \in Present : jobs[id].favorite => Status(id)' # "pruned"
     /\ \A a, b \in Ordinary :
          /\ Status(a)' = "pruned" /\ a \notin Expired
          /\ Newer(a, b)
          => Status(b)' = "pruned"]_vars

(* "only terminal jobs can be deleted from history": the check is made on a  *)
(* row read earlier, and still holds when the UPDATE runs.                   *)
HiddenOnlyTerminal ==
  \A id \in Ids : jobs[id].hidden => Status(id) \in Terminal

(* The store implements the table the job manager was checked against.       *)
Table == INSTANCE JobTable WITH
  rows <- [id \in Ids |->
             [status |-> jobs[id].status, cancel |-> jobs[id].cancel,
              key |-> IF jobs[id].key = NoKey THEN NoKey
                      ELSE <<jobs[id].scope, jobs[id].key>>]],
  Keys <- Scopes \X Keys
ImplementsTable == Table!TableSpec
=============================================================================
