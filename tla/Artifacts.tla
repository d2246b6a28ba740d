------------------------------ MODULE Artifacts ------------------------------
(***************************************************************************)
(* The artifact store, crates/artifacts/src/store.rs, under the requests   *)
(* that publish into it, crates/runtime/src/materialize.rs, and the        *)
(* cleanup and repair commands of the CLI, which are processes of their    *)
(* own.  Every step is one change of the file system: between any two a    *)
(* process may die or another one go on.                                   *)
(*                                                                         *)
(* An image stands for its bytes and for its id, which grows with time     *)
(* (UUIDv7): disk[path] = id says that a file has the bytes published      *)
(* under id, whose checksum is in the ownership record of id.              *)
(***************************************************************************)
EXTENDS Naturals, FiniteSets, SequencesExt

CONSTANTS
  Requests,   \* requests that deliver artifacts
  Wants,      \* what each may ask for
  MaxImages,  \* bound: images ever published
  Filenames,  \* explicit output file names
  MaxScan,    \* max_scan_entries
  MaxFaults,  \* bound: crashes, failed file operations, edits by the user
  None, User  \* no file; other bytes than were published

Images == 1..MaxImages
Paths  == (Images \cup Filenames) \X Images
Want   == [outputs : Nat \ {0}, filename : Filenames \cup {None},
           collision : {"error", "suffix"}, sidecar : BOOLEAN]

(* An exact file name requires one output.                                   *)
ASSUME ArtifactAssumption ==
  /\ Wants \subseteq [Requests -> Want]
  /\ \A w \in Wants, r \in Requests : w[r].filename # None => w[r].outputs = 1
  /\ MaxImages \in Nat \ {0} /\ MaxFaults \in Nat /\ MaxScan \in Nat \ {0}

(* None and User are values of their own.                                    *)
ASSUME DistinctValues ==
  /\ None \notin Images \cup Filenames \cup Paths \cup [path : Paths, sidecar : BOOLEAN]
  /\ None \notin {"own", "sidecar", "file", "record"}
  /\ User \notin Images /\ User # None /\ User # "own"

VARIABLES
  disk,     \* the files below the root
  sidecar,  \* the metadata files, one per image
  record,   \* the ownership records
  request,  \* the task of each request, in materialize() and attach_metadata()
  keeper,   \* the maintenance command under way
  next,     \* the next id
  crossed,  \* history: images a cleanup was under way for while metadata was attached
  faults    \* the faults so far

vars == <<disk, sidecar, record, request, keeper, next, crossed, faults>>

Record  == [path : Paths, sidecar : BOOLEAN]
Found   == [id : Images, record : Record]
Working == {"projecting", "placed", "attaching", "checked", "persisted"}
NoTask(w) == [want |-> w, pc |-> "idle", ids |-> <<>>, at |-> 1, path |-> None]
NoKeeper  == [pc |-> "off", old |-> 0, max |-> None, scanned |-> {}, found |-> {}, stage |-> None]

TypeOK ==
  /\ disk \in [Paths -> Images \cup {None, User}]
  /\ sidecar \in [Images -> {None, "own", User}]
  /\ record \in [Images -> Record \cup {None}]
  /\ \A r \in Requests :
       /\ request[r].want \in Want /\ request[r].path \in Paths \cup {None}
       /\ request[r].pc \in Working \cup {"idle", "done", "failed", "dead"}
       /\ request[r].ids \in Seq(Images) /\ request[r].at \in 1..MaxImages
       /\ request[r].path # None <=> request[r].pc \in {"placed", "checked", "persisted"}
  /\ keeper.pc \in {"off", "scanning", "removing", "repairing"}
  /\ keeper.scanned \subseteq Images /\ keeper.found \subseteq Found
  /\ keeper.stage \in {None, "sidecar", "file", "record"}
  /\ keeper.stage # None => keeper.pc = "removing" /\ keeper.found # {}
  /\ next \in 1..(MaxImages + 1) /\ crossed \subseteq Images /\ faults \in 0..MaxFaults

Init ==
  /\ disk = [p \in Paths |-> None]
  /\ sidecar = [i \in Images |-> None]
  /\ record = [i \in Images |-> None]
  /\ \E w \in Wants : request = [r \in Requests |-> NoTask(w[r])]
  /\ keeper = NoKeeper /\ next = 1 /\ crossed = {} /\ faults = 0

Fault      == faults < MaxFaults /\ faults' = faults + 1
Files      == <<disk, sidecar, record>>
Set(r, task) == request' = [request EXCEPT ![r] = task]
Fails(r)   == [request[r] EXCEPT !.pc = "failed"]

-----------------------------------------------------------------------------
(* verify_artifact(), sidecar_state(), verify_candidate(), for a record as   *)
(* it was read.                                                              *)
Intact(i, rec) == disk[rec.path] = i
SidecarState(i, rec) == IF ~rec.sidecar THEN "none"
                        ELSE IF sidecar[i] = None THEN "missing"
                        ELSE IF sidecar[i] = "own" THEN "valid" ELSE "invalid"
Verified(i, rec) == Intact(i, rec) /\ SidecarState(i, rec) \in {"none", "valid"}

(* validate_output_set(), verify() and the response budget are passed, or    *)
(* the request fails with nothing published.  Repair is run while the bridge *)
(* is stopped (docs/cli.md).                                                 *)
Materialize(r) ==
  /\ request[r].pc = "idle" /\ keeper.pc # "repairing"
  /\ \E pc \in {"projecting", "failed"} : Set(r, [request[r] EXCEPT !.pc = pc])
  /\ UNCHANGED <<Files, keeper, next, crossed, faults>>

(* Mutant: a name that is taken is overwritten.                              *)
FreeOrTaken(w, id) ==
  IF w.filename = None THEN {<<id, 1>>} ELSE {<<w.filename, 1>>}

(* publish_noclobber(): the free paths among the names that are tried, of    *)
(* which the first is taken.                                                 *)
FreePath(w, id) ==
  LET tried == IF w.filename = None THEN {<<id, 1>>}
               ELSE IF w.collision = "error" THEN {<<w.filename, 1>>}
               ELSE {w.filename} \X Images
      free  == {p \in tried : disk[p] = None}
  IN  {p \in free : \A q \in free : p[2] <= q[2]}

Place(r) ==
  LET t == request[r] IN
  /\ t.pc = "projecting" /\ next \in Images
  /\ next' = next + 1
  /\ \/ \E p \in FreePath(t.want, next) :
          /\ disk' = [disk EXCEPT ![p] = next]
          /\ Set(r, [t EXCEPT !.pc = "placed", !.ids = Append(@, next), !.path = p])
          /\ UNCHANGED faults
     \/ FreePath(t.want, next) = {} /\ Set(r, Fails(r)) /\ UNCHANGED <<disk, faults>>
     \/ Fault /\ Set(r, Fails(r)) /\ UNCHANGED disk
  /\ UNCHANGED <<sidecar, record, keeper, crossed>>

(* After its last output a request attaches the metadata, if it wants any.   *)
Owned(t) ==
  IF Len(t.ids) < t.want.outputs THEN [t EXCEPT !.pc = "projecting", !.path = None]
  ELSE [t EXCEPT !.pc = IF t.want.sidecar THEN "attaching" ELSE "done", !.path = None]

(* Mutant: a file whose record could not be published stays.                 *)
OwnNoUndo(r) ==
  LET t == request[r] IN
  /\ t.pc = "placed"
  /\ \/ /\ record' = [record EXCEPT ![Last(t.ids)] = [path |-> t.path, sidecar |-> FALSE]]
        /\ Set(r, Owned(t)) /\ UNCHANGED <<disk, faults>>
     \/ /\ Fault /\ Set(r, [Fails(r) EXCEPT !.path = None])
        /\ UNCHANGED <<disk, record>>
  /\ UNCHANGED <<sidecar, keeper, next, crossed>>

(* publish_ownership(), whose record may be there although it failed: the    *)
(* file is taken back.                                                       *)
Own(r) ==
  LET t  == request[r]
      id == Last(t.ids)
      published == [record EXCEPT ![id] = [path |-> t.path, sidecar |-> FALSE]]
  IN
  /\ t.pc = "placed"
  /\ \/ /\ record' = published /\ Set(r, Owned(t))
        /\ UNCHANGED <<disk, faults>>
     \/ /\ Fault /\ Set(r, [Fails(r) EXCEPT !.path = None])
        /\ disk' = [disk EXCEPT ![t.path] = None]
        /\ record' \in {record, published}
  /\ UNCHANGED <<sidecar, keeper, next, crossed>>

(* attach_metadata(), from reading the record to replacing it.               *)
Attaching(r) == request[r].ids[request[r].at]
Cross(id)    == crossed' = IF keeper.pc = "off" THEN crossed ELSE crossed \cup {id}

CheckOwner(r) ==
  LET t == request[r]  id == Attaching(r) IN
  /\ t.pc = "attaching"
  /\ IF record[id] # None /\ ~record[id].sidecar /\ Verified(id, record[id])
     THEN Set(r, [t EXCEPT !.pc = "checked", !.path = record[id].path])
     ELSE Set(r, Fails(r))
  /\ Cross(id)
  /\ UNCHANGED <<Files, keeper, next, faults>>

(* A sidecar whose directory cannot be synchronised is left behind.          *)
PersistSidecar(r) ==
  LET id == Attaching(r) IN
  /\ request[r].pc = "checked"
  /\ \/ /\ sidecar[id] = None
        /\ sidecar' = [sidecar EXCEPT ![id] = "own"]
        /\ Set(r, [request[r] EXCEPT !.pc = "persisted"]) /\ UNCHANGED faults
     \/ /\ sidecar[id] # None /\ Set(r, [Fails(r) EXCEPT !.path = None])
        /\ UNCHANGED <<sidecar, faults>>
     \/ /\ Fault /\ Set(r, [Fails(r) EXCEPT !.path = None])
        /\ \/ UNCHANGED sidecar
           \/ sidecar[id] = None /\ sidecar' = [sidecar EXCEPT ![id] = "own"]
  /\ Cross(id)
  /\ UNCHANGED <<disk, record, keeper, next>>

Attached(t) == IF t.at < Len(t.ids) THEN [t EXCEPT !.pc = "attaching", !.at = @ + 1, !.path = None]
               ELSE [t EXCEPT !.pc = "done", !.path = None]

(* replace_ownership(), which writes the record whether it is there or not;  *)
(* if it fails the sidecar is taken back.                                    *)
ReplaceRecord(r) ==
  LET t  == request[r]
      id == Attaching(r)
      replaced == [record EXCEPT ![id] = [path |-> t.path, sidecar |-> TRUE]]
  IN
  /\ t.pc = "persisted"
  /\ \/ record' = replaced /\ Set(r, Attached(t)) /\ UNCHANGED <<sidecar, faults>>
     \/ /\ Fault /\ Set(r, [Fails(r) EXCEPT !.path = None])
        /\ sidecar' = [sidecar EXCEPT ![id] = None]
        /\ record' \in {record, replaced}
  /\ Cross(id)
  /\ UNCHANGED <<disk, keeper, next>>

BridgeDies ==
  /\ \E r \in Requests : request[r].pc \in Working
  /\ Fault
  /\ request' = [r \in Requests |-> IF request[r].pc \in Working
                                    THEN [request[r] EXCEPT !.pc = "dead", !.path = None]
                                    ELSE request[r]]
  /\ UNCHANGED <<Files, keeper, next, crossed>>

-----------------------------------------------------------------------------
(* cleanup()                                                                 *)
CleanupBegin(old, max) ==
  /\ keeper.pc = "off"
  /\ keeper' = [NoKeeper EXCEPT !.pc = "scanning", !.old = old, !.max = max]
  /\ crossed' = crossed \cup {Attaching(r) : r \in {q \in Requests :
                                        request[q].pc \in {"checked", "persisted"}}}
  /\ UNCHANGED <<Files, request, next, faults>>

Recorded == {i \in Images : record[i] # None}

ScanOne(i) ==
  /\ keeper.pc = "scanning" /\ i \in Recorded \ keeper.scanned
  /\ Cardinality(keeper.scanned) < MaxScan
  /\ keeper' = [keeper EXCEPT !.scanned = @ \cup {i},
                  !.found = IF Verified(i, record[i]) THEN @ \cup {[id |-> i, record |-> record[i]]}
                            ELSE @]
  /\ UNCHANGED <<Files, request, next, crossed, faults>>

(* What is expired, or beyond the newest max_artifacts.                      *)
Doomed(k) ==
  {c \in k.found : \/ c.id <= k.old
                   \/ k.max # None /\ Cardinality({d \in k.found : d.id > c.id}) >= k.max}

ScanEnd ==
  /\ keeper.pc = "scanning"
  /\ Recorded \subseteq keeper.scanned \/ Cardinality(keeper.scanned) = MaxScan
  /\ keeper' = [keeper EXCEPT !.pc = "removing", !.found = Doomed(keeper)]
  /\ UNCHANGED <<Files, request, next, crossed, faults>>

(* The candidate remove_verified() is at: the newest, in the order of the    *)
(* sort.                                                                     *)
Candidate == CHOOSE c \in keeper.found : \A d \in keeper.found : d.id <= c.id
Skip      == [keeper EXCEPT !.found = @ \ {Candidate}, !.stage = None]

Verify ==
  /\ keeper.pc = "removing" /\ keeper.stage = None /\ keeper.found # {}
  /\ keeper' = IF Verified(Candidate.id, Candidate.record)
               THEN [keeper EXCEPT !.stage = "sidecar"] ELSE Skip
  /\ UNCHANGED <<Files, request, next, crossed, faults>>

(* remove_file() of each file in turn; one that fails ends it.               *)
RemoveSidecar ==
  /\ keeper.stage = "sidecar"
  /\ IF ~Candidate.record.sidecar
     THEN keeper' = [keeper EXCEPT !.stage = "file"] /\ UNCHANGED sidecar
     ELSE IF sidecar[Candidate.id] = None THEN keeper' = Skip /\ UNCHANGED sidecar
     ELSE /\ keeper' = [keeper EXCEPT !.stage = "file"]
          /\ sidecar' = [sidecar EXCEPT ![Candidate.id] = None]
  /\ UNCHANGED <<disk, record, request, next, crossed, faults>>

RemoveFile ==
  /\ keeper.stage = "file"
  /\ IF disk[Candidate.record.path] = None THEN keeper' = Skip /\ UNCHANGED disk
     ELSE /\ keeper' = [keeper EXCEPT !.stage = "record"]
          /\ disk' = [disk EXCEPT ![Candidate.record.path] = None]
  /\ UNCHANGED <<sidecar, record, request, next, crossed, faults>>

RemoveRecord ==
  /\ keeper.stage = "record"
  /\ keeper' = Skip
  /\ record' = [record EXCEPT ![Candidate.id] = None]
  /\ UNCHANGED <<disk, sidecar, request, next, crossed, faults>>

CleanupEnd ==
  /\ keeper.pc = "removing" /\ keeper.found = {}
  /\ keeper' = NoKeeper
  /\ UNCHANGED <<Files, request, next, crossed, faults>>

-----------------------------------------------------------------------------
(* repair_orphans() in apply mode, with the bridge stopped.                  *)
Stopped == \A r \in Requests : request[r].pc \notin Working

RepairBegin ==
  /\ keeper.pc = "off" /\ Stopped
  /\ keeper' = [NoKeeper EXCEPT !.pc = "repairing"]
  /\ UNCHANGED <<Files, request, next, crossed, faults>>

(* Mutant: a record whose file and sidecar are both gone is left alone.      *)
RepairOneNarrow(i) ==
  /\ keeper.pc = "repairing" /\ i \in Recorded \ keeper.scanned
  /\ Cardinality(keeper.scanned) < MaxScan
  /\ keeper' = [keeper EXCEPT !.scanned = @ \cup {i}]
  /\ LET rec == record[i] IN
       IF Intact(i, rec) /\ SidecarState(i, rec) = "missing"
       THEN /\ record' = [record EXCEPT ![i].sidecar = FALSE]
            /\ UNCHANGED <<disk, sidecar>>
       ELSE IF disk[rec.path] = None /\ SidecarState(i, rec) \in {"none", "valid"}
       THEN /\ record' = [record EXCEPT ![i] = None]
            /\ sidecar' = [sidecar EXCEPT ![i] = IF rec.sidecar THEN None ELSE @]
            /\ UNCHANGED disk
       ELSE UNCHANGED Files
  /\ UNCHANGED <<request, next, crossed, faults>>

(* The process may die once the sidecar is removed.                          *)
RepairOne(i) ==
  LET rec     == record[i]
      cleared == [sidecar EXCEPT ![i] = IF rec.sidecar THEN None ELSE @]
  IN
  /\ keeper.pc = "repairing" /\ i \in Recorded \ keeper.scanned
  /\ Cardinality(keeper.scanned) < MaxScan
  /\ \/ /\ Intact(i, rec) /\ SidecarState(i, rec) = "missing"
        /\ record' = [record EXCEPT ![i].sidecar = FALSE]
        /\ keeper' = [keeper EXCEPT !.scanned = @ \cup {i}]
        /\ UNCHANGED <<disk, sidecar, faults>>
     \/ /\ disk[rec.path] = None /\ SidecarState(i, rec) # "invalid"
        /\ sidecar' = cleared
        /\ \/ record' = [record EXCEPT ![i] = None] /\ UNCHANGED faults
              /\ keeper' = [keeper EXCEPT !.scanned = @ \cup {i}]
           \/ Fault /\ keeper' = NoKeeper /\ UNCHANGED record
        /\ UNCHANGED disk
     \/ /\ ~(Intact(i, rec) /\ SidecarState(i, rec) = "missing")
        /\ ~(disk[rec.path] = None /\ SidecarState(i, rec) # "invalid")
        /\ keeper' = [keeper EXCEPT !.scanned = @ \cup {i}]
        /\ UNCHANGED <<Files, faults>>
  /\ UNCHANGED <<request, next, crossed>>

RepairEnd ==
  /\ keeper.pc = "repairing"
  /\ Recorded \subseteq keeper.scanned \/ Cardinality(keeper.scanned) = MaxScan
  /\ keeper' = NoKeeper
  /\ UNCHANGED <<Files, request, next, crossed, faults>>

KeeperDies ==
  /\ keeper.pc # "off" /\ Fault
  /\ keeper' = NoKeeper
  /\ UNCHANGED <<Files, request, next, crossed>>

(* The user edits, moves or adds files; not between the verification and the *)
(* removal of one, which the file system does not make one step, nor during  *)
(* a repair.                                                                 *)
UserEdits ==
  /\ keeper.stage = None /\ keeper.pc # "repairing" /\ Fault
  /\ \/ /\ \E p \in Paths, new \in {None, User} :
             /\ p[2] = 1 /\ disk[p] # new /\ (disk[p] = None => p[1] \in Filenames)
             /\ disk' = [disk EXCEPT ![p] = new]
        /\ UNCHANGED sidecar
     \/ /\ \E i \in Images, new \in {None, User} :
             sidecar[i] \notin {None, new} /\ sidecar' = [sidecar EXCEPT ![i] = new]
        /\ UNCHANGED disk
  /\ UNCHANGED <<record, request, keeper, next, crossed>>

-----------------------------------------------------------------------------
Next ==
  \/ \E r \in Requests : \/ Materialize(r) \/ Place(r) \/ Own(r)
                         \/ CheckOwner(r) \/ PersistSidecar(r) \/ ReplaceRecord(r)
  \/ BridgeDies
  \/ \E old \in 0..MaxImages, max \in {None, 1} : CleanupBegin(old, max)
  \/ \E i \in Images : ScanOne(i) \/ RepairOne(i)
  \/ ScanEnd \/ Verify \/ RemoveSidecar \/ RemoveFile \/ RemoveRecord \/ CleanupEnd
  \/ RepairBegin \/ RepairEnd \/ KeeperDies
  \/ UserEdits

Spec == Init /\ [][Next]_vars

-----------------------------------------------------------------------------
(* store.rs, cleanup(): "Deletes only verified artifacts with bridge-created *)
(* ownership records", publish(): "without overwriting a file": but for the  *)
(* user, a file changes only where there was none.  It is removed by the     *)
(* request that placed it and fails, which does not look at it again; or     *)
(* with bytes that were published, under a record that names it; or, if the  *)
(* bridge died before it wrote the record, at a name that became free and    *)
(* was taken again after a cleanup verified what it had found there.         *)
FilesAreSafe ==
  [][\A p \in Paths : disk[p] # None /\ disk'[p] # disk[p] /\ ~UserEdits
       => /\ disk'[p] = None
          /\ \/ \E r \in Requests : request[r].pc = "placed" /\ request[r].path = p
             \/ \E i \in Images : disk[p] = i /\ record[i] # None /\ record[i].path = p
             \/ /\ keeper.stage = "file" /\ p = Candidate.record.path /\ disk[p] # Candidate.id
                /\ \E r \in Requests : /\ request[r].pc = "dead" /\ request[r].ids # <<>>
                                      /\ Last(request[r].ids) = disk[p]]_vars

(* RetentionPolicy, "keeping newest valid records": cleanup removes an image *)
(* it has verified and that is not expired only where max_artifacts newer    *)
(* ones were there, also if it does not see every record or requests publish *)
(* meanwhile.  Whose image goes depends on the file system: a request whose  *)
(* file the user deleted may fail, and remove the name that another one has  *)
(* taken, between verification and removal; what a third places there goes.  *)
NewestSurvive ==
  [][\A p \in Paths : RemoveFile /\ disk[p] = Candidate.id /\ disk'[p] = None
       => \/ disk[p] <= keeper.old
          \/ /\ keeper.max # None
             /\ Cardinality({i \in keeper.scanned : i > disk[p]}) >= keeper.max]_vars

(* What must survive does: the user's files and the newest images.           *)
FilesSurvive == FilesAreSafe /\ NewestSurvive

(* Only the death of the process between publish()'s two steps leaves an     *)
(* image no record names, which neither cleanup nor repair would ever find.  *)
(* Without faults, requests and cleanups leave no sidecar or record without  *)
(* the others; images whose metadata was attached while a cleanup was under  *)
(* way are the exception.                                                    *)
NothingLeaks ==
  /\ \A p \in Paths : disk[p] \in Images
       => \/ record[disk[p]] # None /\ record[disk[p]].path = p
          \/ \E r \in Requests : /\ request[r].pc \in {"placed", "dead"}
                               /\ request[r].ids # <<>> /\ Last(request[r].ids) = disk[p]
  /\ faults = 0 /\ keeper.pc = "off" /\ Stopped
       => \A i \in Images \ crossed :
            /\ sidecar[i] # None => record[i] # None /\ record[i].sidecar
            /\ record[i] # None => Verified(i, record[i])

(* Every file of the store is accounted for, in each of its states.          *)
Accounted == TypeOK /\ NothingLeaks

(* repair_orphans(): whatever was interrupted before, once a pass that saw   *)
(* every record is over each is sound, or names what somebody changed.       *)
RepairHeals ==
  [][RepairEnd /\ Recorded \subseteq keeper.scanned
       => \A i \in Recorded : \/ Verified(i, record[i])
                              \/ disk[record[i].path] \notin {None, i}
                              \/ sidecar[i] = User]_vars
=============================================================================
