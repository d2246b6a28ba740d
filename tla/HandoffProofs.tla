--------------------------- MODULE HandoffProofs ---------------------------
(***************************************************************************)
(* Proofs about Handoff: what its three files and its lock promise, for    *)
(* any number of requests, updates and faults.                             *)
(***************************************************************************)
EXTENDS Handoff, FiniteSetTheorems, TLAPS

(***************************************************************************)
(* The inductive invariant.  A process that is past the lock holds it; a   *)
(* probe or a health check has only ever seen a good version answer.  From *)
(* the stop of a slot to the last write the gateway holds, so nothing      *)
(* relies on the slots while they change; and what is about to be recorded *)
(* is what was waited for.                                                 *)
(***************************************************************************)
HoldsLock       == \A s \in Slots : slot[s].pc # "down" => lock = s
HealthyIsGood   == \A s \in Slots : slot[s].ready \/ slot[s].health => slot[s].ver \in good
CutoverIsHeld   == updater.pc \in Active \ {"pin", "pull", "hold"} => coord = "hold"
StartedIsWanted == updater.pc \in {"wait", "slot", "commit"} => slot[Starting].wanted
NamedWasHealthy == updater.pc \in {"slot", "commit"} => slot[Starting].ver \in good
SlotIsRecorded  == updater.pc = "commit" => slotFile = Starting

IInv ==
  /\ TypeOK /\ HoldsLock /\ HealthyIsGood
  /\ CutoverIsHeld /\ StartedIsWanted /\ NamedWasHealthy /\ SlotIsRecorded
  /\ RecordsAgree /\ NamedIsVerified

USE HandoffAssumption

-----------------------------------------------------------------------------
LEMMA OtherSlot ==
  ASSUME NEW s \in Slots
  PROVE  Other(s) \in Slots /\ Other(s) # s /\ \A t \in Slots : t = s \/ t = Other(s)
  <1>1. \E t \in Slots : t # s
        BY DEF Slots
  <1>2. QED
        BY <1>1 DEF Other, Slots

LEMMA StartingSlot ==
  ASSUME TypeOK
  PROVE  Starting \in Slots /\ Stopping \in Slots /\ Starting # Stopping
  <1>1. updater.cur \in Slots
        BY DEF TypeOK
  <1>2. Tgt \in Slots
        BY <1>1, OtherSlot DEF Tgt
  <1>3. Starting \in Slots
        BY <1>1, <1>2 DEF Starting
  <1>4. QED
        BY <1>3, OtherSlot DEF Stopping

LEMMA InitInv == Init => IInv
  <1>1. SUFFICES ASSUME Init PROVE IInv
        OBVIOUS
  <1>2. TypeOK
        BY <1>1 DEF Init, TypeOK, Slots, Versions, Container, Idle, Active, Waiting
  <1>3. QED
        BY <1>1, <1>2 DEF Init, IInv, HoldsLock, HealthyIsGood, CutoverIsHeld, StartedIsWanted,
              NamedWasHealthy, SlotIsRecorded, RecordsAgree, NamedIsVerified, Slots, Container,
              Idle, Active

-----------------------------------------------------------------------------
(* A step of a request changes nothing that the rest of the invariant is     *)
(* about.                                                                    *)
LEMMA RequestStep ==
  ASSUME IInv, TypeOK', UNCHANGED <<Files, slot, lock, updater, good>>
  PROVE  IInv'
  BY DEF IInv, Files, HoldsLock, HealthyIsGood, CutoverIsHeld, StartedIsWanted, NamedWasHealthy,
         SlotIsRecorded, RecordsAgree, NamedIsVerified, Starting, Tgt

Proxied == [pc : Waiting \cup {"new", "answered"}, at : Slots \cup {None},
            answer : {None, "ok", "refused", "lost"}]

LEMMA RequestTypes ==
  ASSUME TypeOK
  PROVE  request \in [Requests -> Proxied] /\ \A r \in Requests : request[r] \in Proxied
  BY DEF TypeOK, Proxied

LEMMA RequestType ==
  ASSUME TypeOK, NEW r \in Requests, NEW next \in Proxied,
         request' = [request EXCEPT ![r] = next],
         UNCHANGED <<Files, slot, lock, updater, good>>, faults' \in 0..MaxFaults
  PROVE  TypeOK'
  <1>1. request' \in [Requests -> Proxied]
        BY RequestTypes
  <1>2. QED
        BY <1>1 DEF TypeOK, Files, Proxied

LEMMA EndedType ==
  ASSUME NEW q \in Proxied, NEW answer \in {"ok", "refused", "lost"}
  PROVE  [q EXCEPT !.pc = "answered", !.answer = answer] \in Proxied
  BY DEF Proxied

LEMMA MovedType ==
  ASSUME NEW q \in Proxied, NEW pc \in Waiting
  PROVE  /\ [q EXCEPT !.pc = pc] \in Proxied
         /\ \A at \in Slots \cup {None} : [q EXCEPT !.pc = pc, !.at = at] \in Proxied
  BY DEF Proxied

LEMMA EndsType ==
  ASSUME TypeOK, NEW r \in Requests, NEW answer \in {"ok", "refused", "lost"}
  PROVE  Ends(r, answer) \in Proxied
  BY RequestTypes, EndedType DEF Ends

LEMMA FaultType ==
  ASSUME TypeOK
  PROVE  /\ Fault => faults' \in 0..MaxFaults
         /\ UNCHANGED faults => faults' \in 0..MaxFaults
  BY DEF TypeOK, Fault

LEMMA RequestsKeepInv ==
  ASSUME IInv, NEW r \in Requests, Arrive(r) \/ ProxyStep(r) \/ ForwardTimeout(r)
  PROVE  IInv'
  <1>0. TypeOK /\ request \in [Requests -> Proxied] /\ request[r] \in Proxied
        BY RequestTypes DEF IInv
  <1>t. \A pc \in Waiting : /\ [request[r] EXCEPT !.pc = pc] \in Proxied
                            /\ \A at \in Slots \cup {None} : [request[r] EXCEPT !.pc = pc, !.at = at] \in Proxied
        BY <1>0, MovedType
  <1>1. CASE Arrive(r)
        <2>1. [request[r] EXCEPT !.pc = "held"] \in Proxied
              BY <1>t DEF Waiting
        <2>2. request' = [request EXCEPT ![r] = [request[r] EXCEPT !.pc = "held"]]
              BY <1>1, <1>0 DEF Arrive
        <2>3. QED
              BY <1>0, <1>1, <2>1, <2>2, FaultType, RequestType, RequestStep DEF Arrive
  <1>2. CASE ReadSlot(r)
        <2> DEFINE next == [request[r] EXCEPT !.pc = "probing", !.at = coord]
        <2>1. next \in Proxied
              BY <1>t, <1>2 DEF Waiting, ReadSlot
        <2>2. request' = [request EXCEPT ![r] = next]
              BY <1>2, <1>0 DEF ReadSlot
        <2>3. QED
              BY <1>0, <1>2, <2>1, <2>2, FaultType, RequestType, RequestStep DEF ReadSlot
  <1>3. CASE Probe(r)
        <2> DEFINE next == IF slot[request[r].at].pc = "serving" /\ slot[request[r].at].ready
                           THEN [request[r] EXCEPT !.pc = "chosen"]
                           ELSE [request[r] EXCEPT !.pc = "held", !.at = None]
        <2>1. next \in Proxied
              BY <1>t DEF Waiting
        <2>2. request' = [request EXCEPT ![r] = next]
              BY <1>3, <1>0 DEF Probe
        <2> HIDE DEF next
        <2>3. QED
              BY <1>0, <1>3, <2>1, <2>2, FaultType, RequestType, RequestStep DEF Probe
  <1>4. CASE Forward(r)
        <2> DEFINE next == IF slot[request[r].at].pc = "serving"
                           THEN [request[r] EXCEPT !.pc = "running"] ELSE Ends(r, "refused")
        <2>1. next \in Proxied
              BY <1>0, <1>t, EndsType DEF Waiting
        <2>2. request' = [request EXCEPT ![r] = next]
              BY <1>4, <1>0 DEF Forward
        <2> HIDE DEF next
        <2>3. QED
              BY <1>0, <1>4, <2>1, <2>2, FaultType, RequestType, RequestStep DEF Forward
  <1>5. CASE Respond(r) \/ HoldTimeout(r) \/ ForwardTimeout(r)
        <2>1. \E answer \in {"ok", "refused", "lost"} :
                request' = [request EXCEPT ![r] = Ends(r, answer)]
              BY <1>5 DEF Respond, HoldTimeout, ForwardTimeout
        <2>2. UNCHANGED <<Files, slot, lock, updater, good>> /\ faults' \in 0..MaxFaults
              BY <1>0, <1>5, FaultType DEF Respond, HoldTimeout, ForwardTimeout
        <2>3. QED
              BY <1>0, <2>1, <2>2, EndsType, RequestType, RequestStep
  <1>6. QED
        BY <1>1, <1>2, <1>3, <1>4, <1>5 DEF ProxyStep

-----------------------------------------------------------------------------
(* The slots: which slot may be past the lock, and what was seen of it; that *)
(* one is wanted, and its version, is not theirs to change.                  *)
LEMMA SlotFrame ==
  ASSUME IInv, TypeOK', HoldsLock', HealthyIsGood', UNCHANGED <<Files, updater, good>>,
         \A s \in Slots : slot'[s].wanted = slot[s].wanted /\ slot'[s].ver = slot[s].ver
  PROVE  IInv'
  <1>1. Starting \in Slots /\ Starting' = Starting
        BY StartingSlot DEF IInv, Starting, Tgt
  <1>2. QED
        BY <1>1 DEF IInv, Files, CutoverIsHeld, StartedIsWanted, NamedWasHealthy,
           SlotIsRecorded, RecordsAgree, NamedIsVerified

Process == [wanted : BOOLEAN, pc : {"down", "boot", "serving", "draining"},
            ver : Versions, ready : BOOLEAN, health : BOOLEAN]

LEMMA SlotTypes ==
  ASSUME TypeOK
  PROVE  slot \in [Slots -> Process] /\ \A s \in Slots : slot[s] \in Process
  BY DEF TypeOK, Process

LEMMA ProcessType ==
  ASSUME NEW p \in Process
  PROVE  /\ \A pc \in {"down", "boot", "serving", "draining"} : [p EXCEPT !.pc = pc] \in Process
         /\ \A x \in BOOLEAN : [p EXCEPT !.ready = x] \in Process
         /\ \A x \in BOOLEAN : [p EXCEPT !.health = x] \in Process
         /\ [p EXCEPT !.pc = "down", !.ready = FALSE] \in Process
  BY DEF Process

LEMMA SlotType ==
  ASSUME slot \in [Slots -> Process], NEW s \in Slots, NEW p \in Process,
         slot' = [slot EXCEPT ![s] = p]
  PROVE  slot' \in [Slots -> Process]
  OBVIOUS

LEMMA SlotsKeepInv ==
  ASSUME IInv, NEW s \in Slots, SlotStep(s) \/ Unready(s)
  PROVE  IInv'
  <1>0. TypeOK /\ HoldsLock /\ HealthyIsGood
        BY DEF IInv
  <1>1. /\ UNCHANGED <<Files, updater, request, good>> /\ faults' \in 0..MaxFaults
        /\ \A t \in Slots : slot'[t].wanted = slot[t].wanted /\ slot'[t].ver = slot[t].ver
        <2>1. UNCHANGED <<Files, updater, request, good>> /\ faults' \in 0..MaxFaults
              BY <1>0, FaultType DEF SlotStep, Unready, Boot, Listen, Refresh, HealthCheck, Drained
        <2>2. slot \in [Slots -> Process]
              BY <1>0, SlotTypes
        <2>3. \A t \in Slots : slot'[t].wanted = slot[t].wanted /\ slot'[t].ver = slot[t].ver
              <3>1. CASE Boot(s) \/ Listen(s)
                    BY <2>2, <3>1 DEF Process, Boot, Listen
              <3>2. CASE Refresh(s) \/ Unready(s)
                    BY <2>2, <3>2 DEF Process, Refresh, Unready
              <3>3. CASE HealthCheck(s) \/ Drained(s)
                    BY <2>2, <3>3 DEF Process, HealthCheck, Drained
              <3>4. QED
                    BY <3>1, <3>2, <3>3 DEF SlotStep
        <2>4. QED
              BY <2>1, <2>3
  <1>2. TypeOK'
        <2>1. /\ slot \in [Slots -> Process] /\ slot[s] \in Process
              /\ lock \in Slots \cup {None}
              BY <1>0, SlotTypes DEF TypeOK
        <2>2. slot' \in [Slots -> Process] /\ lock' \in Slots \cup {None}
              <3>1. CASE Boot(s) \/ Listen(s)
                    <4>1. \E pc \in {"boot", "serving"} : slot' = [slot EXCEPT ![s] = [slot[s] EXCEPT !.pc = pc]]
                          BY <2>1, <3>1 DEF Boot, Listen
                    <4>2. QED
                          <5>1. PICK pc \in {"boot", "serving"} : slot' = [slot EXCEPT ![s] = [slot[s] EXCEPT !.pc = pc]]
                                BY <4>1
                          <5>2. [slot[s] EXCEPT !.pc = pc] \in Process
                                BY <2>1, ProcessType
                          <5>3. QED
                                BY <2>1, <3>1, <5>1, <5>2, SlotType DEF Boot, Listen
              <3>2. CASE Refresh(s) \/ Unready(s)
                    <4>1. \E x \in BOOLEAN : slot' = [slot EXCEPT ![s] = [slot[s] EXCEPT !.ready = x]]
                          <5>1. CASE Refresh(s)
                                BY <2>1, <5>1 DEF Refresh, Process
                          <5>2. CASE Unready(s)
                                <6>1. slot' = [slot EXCEPT ![s] = [slot[s] EXCEPT !.ready = FALSE]]
                                      BY <2>1, <5>2 DEF Unready
                                <6>2. QED
                                      BY <6>1
                          <5>3. QED
                                BY <3>2, <5>1, <5>2
                    <4>2. QED
                          <5>1. lock' = lock
                                BY <3>2 DEF Refresh, Unready
                          <5>2. QED
                                BY <2>1, <4>1, <5>1, ProcessType, SlotType
              <3>3. CASE HealthCheck(s)
                    <4>1. \E x \in BOOLEAN : slot' = [slot EXCEPT ![s] = [slot[s] EXCEPT !.health = x]]
                          BY <2>1, <3>3 DEF HealthCheck, Process
                    <4>2. QED
                          BY <2>1, <3>3, <4>1, ProcessType, SlotType DEF HealthCheck
              <3>4. CASE Drained(s)
                    <4>1. slot' = [slot EXCEPT ![s] = [slot[s] EXCEPT !.pc = "down", !.ready = FALSE]]
                          BY <2>1, <3>4 DEF Drained
                    <4>2. QED
                          BY <2>1, <3>4, <4>1, ProcessType, SlotType DEF Drained
              <3>5. QED
                    BY <3>1, <3>2, <3>3, <3>4 DEF SlotStep
        <2>3. QED
              BY <1>0, <1>1, <2>2 DEF TypeOK, Files, Process
  <1>3. HoldsLock'
        <2>1. slot \in [Slots -> Process]
              BY <1>0, SlotTypes
        <2>2. CASE Boot(s) \/ Listen(s)
              BY <1>0, <2>1, <2>2 DEF Process, HoldsLock, Boot, Listen
        <2>3. CASE Refresh(s) \/ Unready(s) \/ HealthCheck(s)
              BY <1>0, <2>1, <2>3 DEF Process, HoldsLock, Refresh, Unready, HealthCheck
        <2>4. CASE Drained(s)
              BY <1>0, <2>1, <2>4 DEF Process, HoldsLock, Drained
        <2>5. QED
              BY <2>2, <2>3, <2>4 DEF SlotStep
  <1>4. HealthyIsGood'
        <2>1. slot \in [Slots -> Process]
              BY <1>0, SlotTypes
        <2>2. CASE Boot(s) \/ Listen(s)
              BY <1>0, <2>1, <2>2 DEF Process, HealthyIsGood, Boot, Listen
        <2>3. CASE Refresh(s) \/ Unready(s) \/ HealthCheck(s)
              BY <1>0, <2>1, <2>3 DEF Process, HealthyIsGood, Refresh, Unready, HealthCheck
        <2>4. CASE Drained(s)
              BY <1>0, <2>1, <2>4 DEF Process, HealthyIsGood, Drained
        <2>5. QED
              BY <2>2, <2>3, <2>4 DEF SlotStep
  <1>5. QED
        BY <1>1, <1>2, <1>3, <1>4, SlotFrame

LEMMA CrashKeepsInv ==
  ASSUME IInv, NEW s \in Slots, Crash(s)
  PROVE  IInv'
  <1>0. TypeOK /\ HoldsLock /\ HealthyIsGood
        BY DEF IInv
  <1>1. /\ UNCHANGED <<Files, updater, good>> /\ faults' \in 0..MaxFaults
        /\ \A t \in Slots : slot'[t].wanted = slot[t].wanted /\ slot'[t].ver = slot[t].ver
        BY <1>0, FaultType, SlotTypes DEF Process, Crash
  <1>2. \A r \in Requests : Ends(r, "lost") \in Proxied
        BY <1>0, EndsType
  <1>3. TypeOK'
        <2>1. slot' \in [Slots -> Process] /\ lock' = None
              <3>1. slot \in [Slots -> Process] /\ slot[s] \in Process
                    BY <1>0, SlotTypes
              <3>2. slot' = [slot EXCEPT ![s] = [slot[s] EXCEPT !.pc = "down", !.ready = FALSE]]
                    BY <3>1 DEF Crash
              <3>3. QED
                    BY <3>1, <3>2, ProcessType, SlotType DEF Crash
        <2>2. request' \in [Requests -> Proxied]
              BY <1>0, <1>2, RequestTypes DEF Crash
        <2>3. QED
              BY <1>0, <1>1, <2>1, <2>2 DEF TypeOK, Files, Process, Proxied
  <1>4. HoldsLock' /\ HealthyIsGood'
        BY <1>0, SlotTypes DEF Process, HoldsLock, HealthyIsGood, Crash
  <1>5. QED
        BY <1>1, <1>3, <1>4, SlotFrame

-----------------------------------------------------------------------------
(* The updater.                                                              *)
Run == [pc : Active \cup {"idle", "ok", "failed", "rolledback", "broken", "dead"},
        dir : {"out", "back"}, cur : Slots, orig : [Slots -> Versions], n : 0..MaxUpdates]

LEMMA UpdaterType ==
  ASSUME TypeOK
  PROVE  /\ updater \in Run
         /\ \A pc \in Active \cup {"ok", "failed", "rolledback", "dead"} : Goto(pc) => updater' \in Run
         /\ Fails => updater' \in Run
  <1>1. updater \in Run
        BY DEF TypeOK, Run
  <1>2. \A pc \in Active \cup {"ok", "failed", "rolledback", "broken", "dead"} :
          [updater EXCEPT !.pc = pc] \in Run
        BY <1>1 DEF Run
  <1>3. \A pc \in Active \cup {"ok", "failed", "rolledback", "dead"} : Goto(pc) => updater' \in Run
        BY <1>2 DEF Goto
  <1>4. Fails => updater' \in Run
        <2>1. [updater EXCEPT !.dir = "back", !.pc = "stop"] \in Run
              BY <1>1 DEF Run, Active
        <2>2. [updater EXCEPT !.pc = "broken"] \in Run
              BY <1>2
        <2>3. QED
              BY <2>1, <2>2 DEF Fails
  <1>5. QED
        BY <1>1, <1>3, <1>4

(* Up to the stop of the old slot only the environment file changes.          *)
LEMMA PreparationKeepsInv ==
  ASSUME IInv, Begin \/ Pin \/ Pull \/ Hold
  PROVE  IInv'
  <1>0. TypeOK /\ updater \in Run
        BY UpdaterType DEF IInv
  <1>1. /\ UNCHANGED <<slotFile, slot, lock, request, good>> /\ faults' \in 0..MaxFaults
        /\ coord' \in {coord, "hold"}
        BY <1>0, FaultType DEF Files, Begin, Pin, Pull, Hold
  <1>2. updater.n + 1 \in Versions
        BY <1>0 DEF Versions, Run
  <1>3. env' \in [Slots -> Versions]
        <2>1. env \in [Slots -> Versions] /\ updater.orig \in [Slots -> Versions]
              BY <1>0 DEF TypeOK, Run
        <2>2. env' \in {env, updater.orig, [env EXCEPT ![Tgt] = updater.n + 1]}
              BY DEF Files, Begin, Pin, Pull, Hold
        <2>3. QED
              BY <1>2, <2>1, <2>2
  <1>4. updater' \in Run
        <2>1. CASE Begin
              BY <1>0, <2>1 DEF TypeOK, Begin, Run, Active, Slots
        <2>2. CASE ~Begin
              BY <1>0, <2>2, UpdaterType DEF Pin, Pull, Hold, Active
        <2>3. QED
              BY <2>1, <2>2
  <1>5. /\ updater'.pc \in {"pin", "pull", "hold", "stop", "failed"}
        /\ updater'.pc = "stop" => coord' = "hold"
        BY <1>0 DEF Begin, Pin, Pull, Hold, Goto, Run
  <1>6. TypeOK'
        BY <1>0, <1>1, <1>3, <1>4 DEF TypeOK, Run
  <1>7. QED
        BY <1>1, <1>5, <1>6 DEF IInv, HoldsLock, HealthyIsGood, CutoverIsHeld, StartedIsWanted,
           NamedWasHealthy, SlotIsRecorded, RecordsAgree, NamedIsVerified, Slots, Active

-----------------------------------------------------------------------------
(* From the stop on.  While the gateway holds, the records may say anything. *)
LEMMA HoldFrame ==
  ASSUME TypeOK', coord' = "hold", HoldsLock', HealthyIsGood',
         StartedIsWanted', NamedWasHealthy', SlotIsRecorded'
  PROVE  IInv'
  BY DEF IInv, CutoverIsHeld, RecordsAgree, NamedIsVerified, Slots

(* Where no slot changes.                                                    *)
LEMMA UpdaterFrame ==
  ASSUME IInv, updater.pc \in Active \ {"pin", "pull", "hold"},
         UNCHANGED <<coord, slot, lock, request, good>>,
         updater' \in Run, env' \in [Slots -> Versions], slotFile' \in Slots \cup {None},
         faults' \in 0..MaxFaults,
         StartedIsWanted', NamedWasHealthy', SlotIsRecorded'
  PROVE  IInv'
  <1>1. TypeOK'
        BY DEF IInv, TypeOK, Run
  <1>2. HoldsLock' /\ HealthyIsGood' /\ coord' = "hold"
        BY DEF IInv, HoldsLock, HealthyIsGood, CutoverIsHeld
  <1>3. QED
        BY <1>1, <1>2, HoldFrame

(* Where no slot is about to be recorded.                                    *)
LEMMA NotVerified ==
  ASSUME updater'.pc \notin {"wait", "slot", "commit"}
  PROVE  StartedIsWanted' /\ NamedWasHealthy' /\ SlotIsRecorded'
  BY DEF StartedIsWanted, NamedWasHealthy, SlotIsRecorded

LEMMA NextPc ==
  ASSUME TypeOK
  PROVE  /\ \A pc \in {"stopping", "restore", "up", "wait", "slot", "commit", "ok", "rolledback", "dead"} :
              Goto(pc) => updater'.pc = pc /\ Starting' = Starting
         /\ Fails => updater'.pc \in {"stop", "broken"}
  <1>1. updater \in Run
        BY UpdaterType
  <1>2. QED
        BY <1>1 DEF Run, Goto, Fails, Starting, Tgt

LEMMA StopType ==
  ASSUME NEW p \in Process
  PROVE  /\ Stopped(p) \in Process
         /\ Stopped(p).pc # "down" <=> p.pc # "down"
         /\ Stopped(p).ver = p.ver /\ Stopped(p).ready = p.ready /\ Stopped(p).health = p.health
  BY DEF Process, Stopped

(* A stop takes nothing from the lock, and shows nothing of the version.     *)
LEMMA StoppingSlot ==
  ASSUME IInv, NEW s \in Slots, slot' = [slot EXCEPT ![s] = Stopped(slot[s])],
         UNCHANGED <<lock, good>>
  PROVE  slot' \in [Slots -> Process] /\ HoldsLock' /\ HealthyIsGood'
  <1>1. slot \in [Slots -> Process] /\ slot[s] \in Process
        BY DEF IInv, TypeOK, Process
  <1>2. QED
        BY <1>1, StopType, SlotType DEF IInv, HoldsLock, HealthyIsGood

LEMMA StopKeepsInv ==
  ASSUME IInv, Stop
  PROVE  IInv'
  <1>0. TypeOK /\ updater \in Run /\ Stopping \in Slots
        BY UpdaterType, StartingSlot DEF IInv
  <1>1. updater' \in Run /\ updater'.pc \in {"stopping", "stop", "restore", "broken"}
        <2>1. Goto("stopping") \/ Goto("restore") \/ Fails
              BY DEF Stop
        <2>2. QED
              BY <1>0, <2>1, UpdaterType, NextPc DEF Active
  <1>2. UNCHANGED <<Files, lock, request, good>> /\ faults' \in 0..MaxFaults
        BY <1>0, FaultType DEF Stop
  <1>3. slot' \in [Slots -> Process] /\ HoldsLock' /\ HealthyIsGood'
        <2>1. CASE UNCHANGED slot
              BY <1>2, <2>1 DEF IInv, TypeOK, Process, HoldsLock, HealthyIsGood
        <2>2. CASE slot' = [slot EXCEPT ![Stopping] = Stopped(slot[Stopping])]
              BY <1>0, <1>2, <2>2, StoppingSlot
        <2>3. QED
              BY <2>1, <2>2 DEF Stop
  <1>4. TypeOK'
        BY <1>0, <1>1, <1>2, <1>3 DEF TypeOK, Files, Process, Run
  <1>5. coord' = "hold"
        BY <1>2 DEF IInv, CutoverIsHeld, Files, Stop, Active
  <1>6. QED
        BY <1>1, <1>3, <1>4, <1>5, HoldFrame, NotVerified

LEMMA AwaitRestoreKeepInv ==
  ASSUME IInv, AwaitStop \/ Restore
  PROVE  IInv'
  <1>0. TypeOK /\ updater \in Run /\ updater.pc \in {"stopping", "restore"}
        BY UpdaterType DEF IInv, AwaitStop, Restore
  <1>1. Goto("up") \/ Goto("restore")
        BY DEF AwaitStop, Restore
  <1>2. updater' \in Run /\ updater'.pc \in {"up", "restore"}
        BY <1>0, <1>1, UpdaterType, NextPc DEF Active
  <1>3. UNCHANGED <<coord, slotFile, slot, lock, request, good>> /\ faults' \in 0..MaxFaults
        BY <1>0, FaultType DEF Files, AwaitStop, Restore
  <1>4. env' \in [Slots -> Versions] /\ slotFile' \in Slots \cup {None}
        <2>1. env' \in {env, updater.orig}
              BY DEF Files, AwaitStop, Restore
        <2>2. QED
              BY <1>0, <1>3, <2>1 DEF TypeOK, Run
  <1>5. QED
        BY <1>0, <1>2, <1>3, <1>4, NotVerified, UpdaterFrame DEF Active

LEMMA NewContainer ==
  ASSUME NEW v \in Versions, NEW p, p = [Container(v) EXCEPT !.wanted = TRUE]
  PROVE  p \in Process /\ p.wanted /\ p.pc = "down" /\ ~p.ready /\ ~p.health
  BY DEF Container, Process

(* A container that is created anew was down, and nothing was seen of it.    *)
LEMMA UpKeepsInv ==
  ASSUME IInv, Up
  PROVE  IInv'
  <1>0. /\ TypeOK /\ updater \in Run /\ Starting \in Slots /\ updater.pc = "up"
        /\ slot \in [Slots -> Process] /\ env[Starting] \in Versions
        BY UpdaterType, StartingSlot DEF IInv, TypeOK, Process, Up
  <1>1. UNCHANGED <<Files, lock, request, good>> /\ faults' \in 0..MaxFaults
        BY <1>0, FaultType DEF Up
  <1>2. updater' \in Run
        <2>1. Goto("wait") \/ Fails \/ UNCHANGED updater
              BY DEF Up
        <2>2. QED
              BY <1>0, <2>1, UpdaterType DEF Active
  <1>3. /\ slot' \in [Slots -> Process] /\ HoldsLock' /\ HealthyIsGood'
        /\ StartedIsWanted' /\ NamedWasHealthy' /\ SlotIsRecorded'
        <2>1. CASE slot[Starting].wanted /\ Goto("wait") /\ UNCHANGED slot
              <3>1. updater'.pc = "wait" /\ Starting' = Starting
                    BY <1>0, <2>1, NextPc
              <3>2. QED
                    BY <1>0, <1>1, <2>1, <3>1 DEF IInv, HoldsLock, HealthyIsGood, StartedIsWanted,
                       NamedWasHealthy, SlotIsRecorded
        <2>2. CASE slot' = [slot EXCEPT ![Starting] = Stopped(slot[Starting])] /\ UNCHANGED updater
              BY <1>0, <1>1, <2>2, StoppingSlot, NotVerified
        <2>3. CASE /\ slot[Starting].pc = "down" /\ Goto("wait")
                   /\ slot' = [slot EXCEPT ![Starting] =
                                 [Container(env[Starting]) EXCEPT !.wanted = TRUE]]
              <3>1. updater'.pc = "wait" /\ Starting' = Starting
                    BY <1>0, <2>3, NextPc
              <3>2. /\ slot'[Starting] = [Container(env[Starting]) EXCEPT !.wanted = TRUE]
                    /\ \A s \in Slots \ {Starting} : slot'[s] = slot[s]
                    /\ DOMAIN slot' = Slots
                    BY <1>0, <2>3
              <3>3. /\ slot'[Starting] \in Process /\ slot'[Starting].wanted
                    /\ slot'[Starting].pc = "down"
                    /\ ~slot'[Starting].ready /\ ~slot'[Starting].health
                    BY <1>0, <3>2, NewContainer
              <3>4. slot' \in [Slots -> Process]
                    BY <1>0, <2>3, <3>2, <3>3
              <3>5. QED
                    BY <1>0, <1>1, <3>1, <3>2, <3>3, <3>4 DEF IInv, HoldsLock, HealthyIsGood,
                       StartedIsWanted, NamedWasHealthy, SlotIsRecorded
        <2>4. CASE Fails /\ UNCHANGED slot
              <3>1. updater'.pc \notin {"wait", "slot", "commit"}
                    BY <1>0, <2>4, NextPc
              <3>2. QED
                    BY <1>0, <1>1, <2>4, <3>1, NotVerified DEF IInv, HoldsLock, HealthyIsGood
        <2>5. QED
              BY <1>0, <2>1, <2>2, <2>3, <2>4 DEF Up
  <1>4. TypeOK'
        BY <1>0, <1>1, <1>2, <1>3 DEF TypeOK, Files, Process, Run
  <1>5. coord' = "hold"
        BY <1>0, <1>1 DEF IInv, CutoverIsHeld, Files, Active
  <1>6. QED
        BY <1>3, <1>4, <1>5, HoldFrame

(* What was waited for is what is recorded.                                  *)
LEMMA WaitSlotKeepInv ==
  ASSUME IInv, Wait \/ WriteSlot
  PROVE  IInv'
  <1>0. /\ TypeOK /\ updater \in Run /\ Starting \in Slots /\ updater.pc \in {"wait", "slot"}
        /\ StartedIsWanted /\ NamedWasHealthy /\ HealthyIsGood
        BY UpdaterType, StartingSlot DEF IInv, Wait, WriteSlot
  <1>1. /\ UNCHANGED <<coord, env, slot, lock, request, good>> /\ faults' \in 0..MaxFaults
        /\ slotFile' \in Slots \cup {None}
        BY <1>0, FaultType DEF TypeOK, Files, Wait, WriteSlot
  <1>2. updater' \in Run
        BY <1>0, UpdaterType DEF Wait, WriteSlot, Active
  <1>3. StartedIsWanted' /\ NamedWasHealthy' /\ SlotIsRecorded'
        <2>1. CASE Fails
              BY <1>0, <2>1, NextPc, NotVerified
        <2>2. CASE Wait /\ Goto("slot") /\ slot[Starting].health
              <3>1. updater'.pc = "slot" /\ Starting' = Starting /\ updater.pc = "wait"
                    BY <1>0, <2>2, NextPc DEF Wait
              <3>2. QED
                    BY <1>0, <1>1, <2>2, <3>1 DEF HealthyIsGood, StartedIsWanted, NamedWasHealthy,
                       SlotIsRecorded
        <2>3. CASE WriteSlot /\ Goto("commit") /\ slotFile' = Starting
              <3>1. updater'.pc = "commit" /\ Starting' = Starting /\ updater.pc = "slot"
                    BY <1>0, <2>3, NextPc DEF WriteSlot
              <3>2. QED
                    BY <1>0, <1>1, <2>3, <3>1 DEF StartedIsWanted, NamedWasHealthy, SlotIsRecorded
        <2>4. QED
              BY <2>1, <2>2, <2>3 DEF Wait, WriteSlot
  <1>4. env' \in [Slots -> Versions]
        BY <1>0, <1>1 DEF TypeOK
  <1>5. QED
        BY <1>0, <1>1, <1>2, <1>3, <1>4, UpdaterFrame DEF Active

LEMMA WriteCoordKeepsInv ==
  ASSUME IInv, WriteCoord
  PROVE  IInv'
  <1>0. /\ TypeOK /\ updater \in Run /\ Starting \in Slots /\ updater.pc = "commit"
        /\ slot[Starting].wanted /\ slot[Starting].ver \in good /\ slotFile = Starting
        BY UpdaterType, StartingSlot
           DEF IInv, WriteCoord, StartedIsWanted, NamedWasHealthy, SlotIsRecorded
  <1>1. UNCHANGED <<slotFile, env, slot, lock, request, good>> /\ faults' \in 0..MaxFaults
        BY <1>0, FaultType DEF WriteCoord
  <1>2. updater' \in Run /\ updater'.pc \notin {"wait", "slot", "commit"}
        <2>1. Goto("ok") \/ Goto("rolledback") \/ Fails
              BY DEF WriteCoord
        <2>2. QED
              BY <1>0, <2>1, UpdaterType, NextPc DEF Active
  <1>3. CASE coord' = Starting /\ (Goto("ok") \/ Goto("rolledback"))
        <2>1. updater'.pc \in {"ok", "rolledback"}
              BY <1>0, <1>3, NextPc
        <2>2. TypeOK'
              BY <1>0, <1>1, <1>2, <1>3 DEF TypeOK, Run
        <2>3. HoldsLock' /\ HealthyIsGood' /\ CutoverIsHeld'
              BY <1>1, <2>1 DEF IInv, HoldsLock, HealthyIsGood, CutoverIsHeld, Active
        <2>4. RecordsAgree' /\ NamedIsVerified'
              BY <1>0, <1>1, <1>3 DEF RecordsAgree, NamedIsVerified
        <2>5. QED
              BY <1>2, <2>2, <2>3, <2>4, NotVerified DEF IInv
  <1>4. CASE UNCHANGED coord
        BY <1>0, <1>1, <1>2, <1>4, NotVerified, UpdaterFrame DEF TypeOK, Active
  <1>5. QED
        BY <1>3, <1>4 DEF WriteCoord

LEMMA DeathKeepsInv ==
  ASSUME IInv, UpdaterDies
  PROVE  IInv'
  <1>1. TypeOK /\ updater' \in Run /\ updater'.pc = "dead" /\ faults' \in 0..MaxFaults
        BY UpdaterType, NextPc, FaultType DEF IInv, UpdaterDies
  <1>2. TypeOK'
        BY <1>1 DEF TypeOK, Run, Files, UpdaterDies
  <1>3. QED
        BY <1>1, <1>2, NotVerified DEF IInv, HoldsLock, HealthyIsGood, CutoverIsHeld,
           RecordsAgree, NamedIsVerified, Files, UpdaterDies, Active

-----------------------------------------------------------------------------
(* The invariant is inductive.                                               *)
LEMMA StepInv ==
  ASSUME IInv, [Next]_vars
  PROVE  IInv'
  <1>1. CASE UNCHANGED vars
        BY <1>1 DEF vars, IInv, TypeOK, HoldsLock, HealthyIsGood, CutoverIsHeld, StartedIsWanted,
           NamedWasHealthy, SlotIsRecorded, RecordsAgree, NamedIsVerified, Starting, Tgt
  <1>2. CASE Update \/ UpdaterDies
        BY <1>2, PreparationKeepsInv, StopKeepsInv, AwaitRestoreKeepInv, UpKeepsInv,
           WaitSlotKeepInv, WriteCoordKeepsInv, DeathKeepsInv DEF Update
  <1>3. CASE \E s \in Slots : SlotStep(s) \/ Crash(s) \/ Unready(s)
        BY <1>3, SlotsKeepInv, CrashKeepsInv
  <1>4. CASE \E r \in Requests : Arrive(r) \/ ProxyStep(r) \/ ForwardTimeout(r)
        BY <1>4, RequestsKeepInv
  <1>5. QED
        BY <1>1, <1>2, <1>3, <1>4 DEF Next

(* docker_handoff(), proxy(), acquire_activation_lock(): every command, write *)
(* and fault of a handoff keeps the invariant.                               *)
THEOREM Invariance == Spec => []IInv
  <1>1. QED
        BY InitInv, StepInv, PTL DEF Spec

(* acquire_activation_lock(): at most one slot runs a bridge that is past    *)
(* the lock, whatever stops, crashes and is started again.                   *)
THEOREM OneSlotActive == Spec => []OneActive
  <1>1. IInv => OneActive
        <2>1. SUFFICES ASSUME IInv PROVE OneActive
              OBVIOUS
        <2> DEFINE up == {s \in Slots : slot[s].pc # "down"}
        <2>2. \A s, t \in up : s = t
              BY <2>1 DEF IInv, HoldsLock
        <2>3. OneActive <=> Cardinality(up) <= 1
              BY DEF OneActive
        <2> HIDE DEF up
        <2>4. CASE up = {}
              BY <2>3, <2>4, FS_EmptySet
        <2>5. CASE \E s \in up : up = {s}
              <3>1. \A x : Cardinality({x}) = 1
                    BY FS_Singleton, Zenon
              <3>2. PICK s \in up : up = {s}
                    BY <2>5
              <3>3. Cardinality(up) = 1
                    BY <3>1, <3>2, Zenon
              <3>4. QED
                    BY <2>3, <3>3
        <2>6. QED
              BY <2>2, <2>4, <2>5
  <1>2. QED
        BY <1>1, Invariance, PTL

(* docker_handoff() and rollback_handoff(): whatever step fails, and         *)
(* whenever the updater dies, a gateway that lets requests through names     *)
(* the slot the next update starts from, one that docker keeps running, with *)
(* a version that has been ready.                                            *)
THEOREM RecordsTellTheTruth == Spec => []RecordsSound
  <1>1. IInv => RecordsSound
        BY DEF IInv, RecordsSound
  <1>2. QED
        BY <1>1, Invariance, PTL
=============================================================================
