------------------------------- MODULE Handoff -------------------------------
(***************************************************************************)
(* The active/passive update, crates/cli/src/update/install.rs, and the    *)
(* gateway that holds requests meanwhile, crates/cli/src/gateway.rs, over  *)
(* two slots (compose.handoff.yaml) that contend for the activation lock   *)
(* of serve_command(), crates/cli/src/commands.rs.  The updater, the       *)
(* gateway and the slots share no memory: only three files, and what       *)
(* docker compose says.                                                    *)
(***************************************************************************)
EXTENDS Naturals, FiniteSets

CONSTANTS
  Requests,    \* requests at the gateway
  MaxUpdates,  \* bound: runs of the updater; the n-th installs version n + 1
  MaxFaults,   \* bound: failed commands and writes, deaths, deadlines that pass
  None

Slots    == {"blue", "green"}
Versions == 1..(MaxUpdates + 1)
Other(s) == CHOOSE t \in Slots : t # s

ASSUME HandoffAssumption == MaxUpdates \in Nat /\ MaxFaults \in Nat /\ None \notin Slots

VARIABLES
  coord,     \* the coordination file, which the gateway reads
  slotFile,  \* the slot file, which the next update reads
  env,       \* the image pins of the environment file
  slot,      \* the containers, and the processes in them
  lock,      \* the slot that holds the activation lock
  updater,   \* the run of docker_handoff() under way
  request,   \* the proxy() call of each request
  good,      \* versions whose provider becomes ready
  faults     \* the faults so far

vars == <<coord, slotFile, env, slot, lock, updater, request, good, faults>>

Container(ver) == [wanted |-> FALSE, pc |-> "down", ver |-> ver, ready |-> FALSE, health |-> FALSE]
Idle == [pc |-> "idle", dir |-> "out", cur |-> "blue", orig |-> [s \in Slots |-> 1], n |-> 0]
Tgt  == Other(updater.cur)

Active  == {"pin", "pull", "hold", "stop", "stopping", "restore", "up", "wait", "slot", "commit"}
Waiting == {"held", "probing", "chosen", "running"}

TypeOK ==
  /\ coord \in Slots \cup {"hold"} /\ slotFile \in Slots \cup {None}
  /\ env \in [Slots -> Versions]
  /\ slot \in [Slots -> [wanted : BOOLEAN, pc : {"down", "boot", "serving", "draining"},
                         ver : Versions, ready : BOOLEAN, health : BOOLEAN]]
  /\ lock \in Slots \cup {None}
  /\ updater \in [pc : Active \cup {"idle", "ok", "failed", "rolledback", "broken", "dead"},
                  dir : {"out", "back"}, cur : Slots, orig : [Slots -> Versions], n : 0..MaxUpdates]
  /\ request \in [Requests -> [pc : Waiting \cup {"new", "answered"}, at : Slots \cup {None},
                               answer : {None, "ok", "refused", "lost"}]]
  /\ good \subseteq Versions /\ faults \in 0..MaxFaults

(* The start of docs/deployment.md: blue is up, there is no slot file.       *)
Init ==
  /\ coord = "blue" /\ slotFile = None /\ env = [s \in Slots |-> 1]
  /\ slot = [s \in Slots |-> IF s = "blue"
               THEN [wanted |-> TRUE, pc |-> "serving", ver |-> 1, ready |-> TRUE, health |-> TRUE]
               ELSE Container(1)]
  /\ lock = "blue" /\ updater = Idle
  /\ request = [r \in Requests |-> [pc |-> "new", at |-> None, answer |-> None]]
  /\ good \in {g \in SUBSET Versions : 1 \in g}
  /\ faults = 0

Fault == faults < MaxFaults /\ faults' = faults + 1
Files == <<coord, slotFile, env>>

-----------------------------------------------------------------------------
(* Mutant: no lock.                                                          *)
BootUnlocked(s) ==
  /\ slot[s].wanted /\ slot[s].pc = "down"
  /\ lock' = s
  /\ slot' = [slot EXCEPT ![s].pc = "boot"]
  /\ UNCHANGED <<Files, updater, request, good, faults>>

(* serve_command() in a slot: the lock before anything else; a process that  *)
(* does not get it exits, and docker starts it again.                        *)
Boot(s) ==
  /\ slot[s].wanted /\ slot[s].pc = "down" /\ lock = None
  /\ lock' = s
  /\ slot' = [slot EXCEPT ![s].pc = "boot"]
  /\ UNCHANGED <<Files, updater, request, good, faults>>

Listen(s) ==
  /\ slot[s].pc = "boot"
  /\ slot' = [slot EXCEPT ![s].pc = "serving"]
  /\ UNCHANGED <<Files, lock, updater, request, good, faults>>

(* refresh_loop(), and the health check of the container that asks for it.   *)
Refresh(s) ==
  /\ slot[s].pc = "serving" /\ slot[s].ready # (slot[s].ver \in good)
  /\ slot' = [slot EXCEPT ![s].ready = ~@]
  /\ UNCHANGED <<Files, lock, updater, request, good, faults>>

HealthCheck(s) ==
  LET seen == slot[s].pc = "serving" /\ slot[s].ready IN
  /\ slot[s].health # seen
  /\ slot' = [slot EXCEPT ![s].health = seen]
  /\ UNCHANGED <<Files, lock, updater, request, good, faults>>

Running(s) == {r \in Requests : request[r].pc = "running" /\ request[r].at = s}
Ends(r, answer) == [request[r] EXCEPT !.pc = "answered", !.answer = answer]

(* serve() drains what was accepted, then the process is gone and its lock   *)
(* with it.                                                                  *)
Drained(s) ==
  /\ slot[s].pc = "draining" /\ Running(s) = {}
  /\ slot' = [slot EXCEPT ![s].pc = "down", ![s].ready = FALSE]
  /\ lock' = None
  /\ UNCHANGED <<Files, updater, request, good, faults>>

(* It crashes, or its grace period is over.                                  *)
Crash(s) ==
  /\ slot[s].pc # "down" /\ Fault
  /\ slot' = [slot EXCEPT ![s].pc = "down", ![s].ready = FALSE]
  /\ lock' = None
  /\ request' = [r \in Requests |-> IF r \in Running(s) THEN Ends(r, "lost") ELSE request[r]]
  /\ UNCHANGED <<Files, updater, good>>

(* The provider of a good version fails a probe; Refresh heals it.           *)
Unready(s) ==
  /\ slot[s].ready /\ Fault
  /\ slot' = [slot EXCEPT ![s].ready = FALSE]
  /\ UNCHANGED <<Files, lock, updater, request, good>>

-----------------------------------------------------------------------------
(* proxy(): selected_ready_backend() reads the file, then asks the slot it   *)
(* names; forward() sends the request.                                       *)
Arrive(r) ==
  /\ request[r].pc = "new"
  /\ request' = [request EXCEPT ![r].pc = "held"]
  /\ UNCHANGED <<Files, slot, lock, updater, good, faults>>

ReadSlot(r) ==
  /\ request[r].pc = "held" /\ coord \in Slots
  /\ request' = [request EXCEPT ![r].pc = "probing", ![r].at = coord]
  /\ UNCHANGED <<Files, slot, lock, updater, good, faults>>

Probe(r) ==
  LET s == slot[request[r].at] IN
  /\ request[r].pc = "probing"
  /\ request' = [request EXCEPT ![r] = IF s.pc = "serving" /\ s.ready
                                       THEN [@ EXCEPT !.pc = "chosen"]
                                       ELSE [@ EXCEPT !.pc = "held", !.at = None]]
  /\ UNCHANGED <<Files, slot, lock, updater, good, faults>>

Forward(r) ==
  /\ request[r].pc = "chosen"
  /\ request' = [request EXCEPT ![r] = IF slot[@.at].pc = "serving" THEN [@ EXCEPT !.pc = "running"]
                                       ELSE Ends(r, "refused")]
  /\ UNCHANGED <<Files, slot, lock, updater, good, faults>>

Respond(r) ==
  /\ request[r].pc = "running"
  /\ request' = [request EXCEPT ![r] = Ends(r, "ok")]
  /\ UNCHANGED <<Files, slot, lock, updater, good, faults>>

ForwardTimeout(r) ==
  /\ request[r].pc = "running" /\ Fault
  /\ request' = [request EXCEPT ![r] = Ends(r, "lost")]
  /\ UNCHANGED <<Files, slot, lock, updater, good>>

(* The hold timeout is longer than a drain and a readiness check             *)
(* (docs/deployment.md): it passes when the updater has died or could not    *)
(* roll back, also if the next one fails before its own cutover, or when a   *)
(* rollback has left the candidate running, which may take the lock.         *)
Stray == \A s \in Slots : slot[s].wanted
Stuck == Stray \/ (coord = "hold" /\ updater.pc \in {"broken", "dead", "failed"})

HoldTimeout(r) ==
  /\ request[r].pc = "held" /\ Stuck
  /\ request' = [request EXCEPT ![r] = Ends(r, "refused")]
  /\ UNCHANGED <<Files, slot, lock, updater, good, faults>>

-----------------------------------------------------------------------------
(* docker() and docker_handoff(), step by step.                              *)
Goto(pc)  == updater' = [updater EXCEPT !.pc = pc]
Starting  == IF updater.dir = "out" THEN Tgt ELSE updater.cur  \* the slot to bring up
Stopping  == Other(Starting)

(* A step of the cutover fails: rollback_handoff().  A step of the rollback  *)
(* fails: "previous slot rollback failed".                                   *)
Fails == updater' = IF updater.dir = "out" THEN [updater EXCEPT !.dir = "back", !.pc = "stop"]
                    ELSE [updater EXCEPT !.pc = "broken"]

Begin ==
  /\ updater.pc \notin Active /\ updater.n < MaxUpdates
  /\ updater' = [pc |-> "pin", dir |-> "out", orig |-> env, n |-> updater.n + 1,
                 cur |-> IF slotFile = None THEN "blue" ELSE slotFile]
  /\ UNCHANGED <<Files, slot, lock, request, good, faults>>

Pin ==
  /\ updater.pc = "pin"
  /\ \/ env' = [env EXCEPT ![Tgt] = updater.n + 1] /\ Goto("pull") /\ UNCHANGED faults
     \/ Fault /\ Goto("failed") /\ UNCHANGED env
  /\ UNCHANGED <<coord, slotFile, slot, lock, request, good>>

Pull ==
  /\ updater.pc = "pull"
  /\ \/ Goto("hold") /\ UNCHANGED <<env, faults>>
     \/ Fault /\ env' = updater.orig /\ Goto("failed")
  /\ UNCHANGED <<coord, slotFile, slot, lock, request, good>>

Hold ==
  /\ updater.pc = "hold"
  /\ \/ coord' = "hold" /\ Goto("stop") /\ UNCHANGED <<env, faults>>
     \/ Fault /\ env' = updater.orig /\ Goto("failed") /\ UNCHANGED coord
  /\ UNCHANGED <<slotFile, slot, lock, request, good>>

(* docker compose stop: no restart any more, and SIGTERM.                    *)
Stopped(s) == [s EXCEPT !.wanted = FALSE,
                        !.pc = IF s.pc \in {"boot", "serving"} THEN "draining" ELSE s.pc]

(* The rollback ignores that the command fails.                              *)
Stop ==
  /\ updater.pc = "stop"
  /\ \/ slot' = [slot EXCEPT ![Stopping] = Stopped(@)] /\ Goto("stopping") /\ UNCHANGED faults
     \/ /\ Fault
        /\ IF updater.dir = "out" THEN Fails ELSE Goto("restore")
        /\ \/ UNCHANGED slot
           \/ slot' = [slot EXCEPT ![Stopping] = Stopped(@)]
  /\ UNCHANGED <<Files, lock, request, good>>

AwaitStop ==
  /\ updater.pc = "stopping" /\ slot[Stopping].pc = "down"
  /\ Goto(IF updater.dir = "out" THEN "up" ELSE "restore")
  /\ UNCHANGED <<Files, slot, lock, request, good, faults>>

(* restore_file(), whose failure is ignored.                                 *)
Restore ==
  /\ updater.pc = "restore"
  /\ Goto("up")
  /\ \/ env' = updater.orig /\ UNCHANGED faults
     \/ Fault /\ UNCHANGED env
  /\ UNCHANGED <<coord, slotFile, slot, lock, request, good>>

(* docker compose up: a container that runs the pinned image is left alone,  *)
(* another is stopped and created anew.                                      *)
Up ==
  LET s == slot[Starting] IN
  /\ updater.pc = "up"
  /\ \/ /\ s.wanted /\ s.ver = env[Starting]
        /\ Goto("wait") /\ UNCHANGED <<slot, faults>>
     \/ /\ s.wanted /\ s.ver # env[Starting] /\ s.pc # "down"
        /\ slot' = [slot EXCEPT ![Starting] = Stopped(@)]
        /\ UNCHANGED <<updater, faults>>
     \/ /\ ~(s.wanted /\ s.ver = env[Starting]) /\ s.pc = "down"
        /\ slot' = [slot EXCEPT ![Starting] = [Container(env[Starting]) EXCEPT !.wanted = TRUE]]
        /\ Goto("wait") /\ UNCHANGED faults
     \/ Fault /\ Fails /\ UNCHANGED slot
  /\ UNCHANGED <<Files, lock, request, good>>

(* wait_healthy(): the readiness timeout passes, by accident or because the  *)
(* version is no good or never gets the lock.                                *)
Wait ==
  /\ updater.pc = "wait"
  /\ \/ slot[Starting].health /\ Goto("slot") /\ UNCHANGED faults
     \/ /\ ~slot[Starting].health /\ Fails
        /\ \/ slot[Starting].ver \notin good \/ slot[Stopping].wanted
        /\ UNCHANGED faults
     \/ ~slot[Starting].health /\ Fault /\ Fails
  /\ UNCHANGED <<Files, slot, lock, request, good>>

(* Mutant: the gateway is let go before the slot is recorded.                *)
WriteCoordFirst ==
  /\ updater.pc = "slot"
  /\ \/ coord' = Starting /\ Goto("commit") /\ UNCHANGED faults
     \/ Fault /\ Fails /\ UNCHANGED coord
  /\ UNCHANGED <<env, slotFile, slot, lock, request, good>>

WriteSlot ==
  /\ updater.pc = "slot"
  /\ \/ slotFile' = Starting /\ Goto("commit") /\ UNCHANGED faults
     \/ Fault /\ Fails /\ UNCHANGED slotFile
  /\ UNCHANGED <<coord, env, slot, lock, request, good>>

(* Mutant: a rollback forgets the gateway.                                   *)
WriteCoordOut ==
  /\ updater.pc = "commit"
  /\ coord' = IF updater.dir = "out" THEN Starting ELSE coord
  /\ Goto(IF updater.dir = "out" THEN "ok" ELSE "rolledback")
  /\ UNCHANGED <<slotFile, env, slot, lock, request, good, faults>>

WriteCoord ==
  /\ updater.pc = "commit"
  /\ \/ /\ coord' = Starting /\ UNCHANGED faults
        /\ Goto(IF updater.dir = "out" THEN "ok" ELSE "rolledback")
     \/ Fault /\ Fails /\ UNCHANGED coord
  /\ UNCHANGED <<slotFile, env, slot, lock, request, good>>

UpdaterDies ==
  /\ updater.pc \in Active /\ Fault
  /\ Goto("dead")
  /\ UNCHANGED <<Files, slot, lock, request, good>>

-----------------------------------------------------------------------------
Update == Begin \/ Pin \/ Pull \/ Hold \/ Stop \/ AwaitStop \/ Restore \/ Up \/ Wait
          \/ WriteSlot \/ WriteCoord

SlotStep(s)  == Boot(s) \/ Listen(s) \/ Refresh(s) \/ HealthCheck(s) \/ Drained(s)
ProxyStep(r) == ReadSlot(r) \/ Probe(r) \/ Forward(r) \/ Respond(r) \/ HoldTimeout(r)

Next ==
  \/ Update \/ UpdaterDies
  \/ \E s \in Slots : SlotStep(s) \/ Crash(s) \/ Unready(s)
  \/ \E r \in Requests : Arrive(r) \/ ProxyStep(r) \/ ForwardTimeout(r)

Spec == Init /\ [][Next]_vars

(* Docker starts what it should run, the slots and the health checks run,    *)
(* the updater goes on unless it dies, and the gateway polls; each round of  *)
(* the poll looks at the hold timeout.                                       *)
FairSpec ==
  /\ Spec
  /\ WF_vars(Update)
  /\ \A s \in Slots : /\ WF_vars(Boot(s)) /\ WF_vars(Listen(s)) /\ WF_vars(Refresh(s))
                      /\ WF_vars(HealthCheck(s)) /\ WF_vars(Drained(s))
  /\ \A r \in Requests : WF_vars(ProxyStep(r)) /\ SF_vars(HoldTimeout(r))

-----------------------------------------------------------------------------
(* commands.rs, acquire_activation_lock(), "another OAuth-active bridge slot *)
(* holds the activation lock": also when a stop failed unnoticed, one slot   *)
(* at a time has a process that went past the lock.                          *)
OneActive == Cardinality({s \in Slots : slot[s].pc # "down"}) <= 1

(* docker_handoff(), "Persistent host file recording the last verified       *)
(* active slot": when the gateway lets requests through, the next update     *)
(* will take the same slot for the one to stop, also if the last one died.   *)
RecordsAgree == coord \in Slots => coord = (IF slotFile = None THEN "blue" ELSE slotFile)

(* A slot the gateway is told to use is one docker keeps running, with a     *)
(* version whose provider has become ready.                                  *)
NamedIsVerified == coord \in Slots => slot[coord].wanted /\ slot[coord].ver \in good

(* The files of the handoff tell the truth: to the updater that resumes, and *)
(* to the gateway that forwards by them.                                     *)
RecordsSound == TypeOK /\ RecordsAgree /\ NamedIsVerified

(* docs/deployment.md, "The bounded hold": whatever happens to the handoff   *)
(* every request is answered, and the hold is over without its timeout       *)
(* unless an updater died, or could not roll back, or left both slots up.    *)
EveryRequestEnds == \A r \in Requests : request[r].pc = "held" ~> request[r].pc = "answered"

(* docs/deployment.md, "Active/passive zero-error handoff": a planned        *)
(* handoff answers no request with an error of its own.                      *)
ZeroErrorHandoff == faults = 0 => \A r \in Requests : request[r].answer \in {None, "ok"}
=============================================================================
