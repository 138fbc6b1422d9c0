----------------------------- MODULE VmControl -----------------------------
(***************************************************************************)
(* pkg/server/server.go: what the handlers do to a VM that createVM made.  *)
(* boot (the tail of StartVM), PauseVM, ResumeVM and DestroyVM take        *)
(* vm.lock; StopVM and SnapshotVM do not.  Any number of requests run at   *)
(* once.  createVM and the VM's resources are in StartVM.                  *)
(*                                                                         *)
(* A call to the VMM is a message: it is in flight until the VMM handles   *)
(* it, and its caller may give up before or after that (the 30s of         *)
(* unixSocketClient, a request context that is done, a dead VMM).  A call  *)
(* that was given up may still be handled later.                           *)
(*                                                                         *)
(* destroyVM locks vm.lock and then calls vm.destroy, which locks it again *)
(* (server.go:1417, 1183).  sync.RWMutex is not reentrant, so "relock" has *)
(* no action: what follows those two lines never runs.                     *)
(***************************************************************************)
EXTENDS Naturals, FiniteSets

CONSTANTS Ops,          \* requests
          VMs,          \* registry keys "namespace.vmName"
          SnapshotIds,
          Assignments,  \* which jobs the requests may have, together
          None

Kinds == {"start", "pause", "resume", "destroy", "stop", "snapshot"}

Jobs == [kind : Kinds, vm : VMs, id : SnapshotIds]

ASSUME AssignmentsAssumption ==
  /\ Assignments \subseteq [Ops -> Jobs]
  /\ \A f \in Assignments : \A o, q \in Ops :
       f[o].kind = "start" /\ f[q].kind = "start" /\ f[o].vm = f[q].vm
         => o = q

(* What the disk or the memory of a VM holds at one moment, and what a     *)
(* snapshot directory holds: of each file, what was written if it was.     *)
Moments == [vm : VMs, at : Nat]

Dirs == [disk : Moments \cup {None}, cid : VMs \cup {None},
         mem : Moments \cup {None}]

ASSUME NoneAssumption == None \notin Ops \cup Moments \cup Dirs

VARIABLES
  job,         \* what each request asks for; never changes
  pc, outcome, \* where a request is; how its work ended
  registered,  \* the keys of s.vms
  lock,        \* who holds vm.lock, or None
  status,      \* vm.status, which ListVM shows
  vmm,         \* the state the VMM is really in
  tick,        \* how often the guest began or ceased to run
  inFlight,    \* <<o, call>>: calls the VMM has not handled
  answer,      \* the answer to o's call, or "none"
  snaps        \* the snapshot directories

control == <<job, registered, lock, status>>
machine == <<vmm, tick, snaps>>
vars == <<control, pc, outcome, machine, inFlight, answer>>

vmOf(o) == job[o].vm
idOf(o) == job[o].id

(* Each call a request can wait for, and what it asks of the VMM. *)
Request == [boot |-> "boot", undo |-> "shutdown", pause |-> "pause",
            resume |-> "resume", stop |-> "shutdown", snapPause |-> "pause",
            snapSave |-> "snapshot", snapResume |-> "resume"]

Calls == DOMAIN Request

(* The VMM states in which a request is legal, and where it leads. *)
From == [boot |-> {"created"}, pause |-> {"running"}, resume |-> {"paused"},
         shutdown |-> {"running", "paused"}, snapshot |-> {"paused"}]

To == [boot |-> "running", pause |-> "paused", resume |-> "running",
       shutdown |-> "created", snapshot |-> "paused"]

(* What the disk or the memory of v holds now: it changes as the guest     *)
(* runs, so it is known only between two ticks.                            *)
Contents(v) == [vm |-> v, at |-> tick[v]]

EmptyDir == [disk |-> None, cid |-> None, mem |-> None]

Init ==
  /\ job \in Assignments
  /\ pc = [o \in Ops |-> "start"]
  /\ outcome = [o \in Ops |-> "none"]
  /\ registered = {}
  /\ lock = [v \in VMs |-> None]
  /\ status = [v \in VMs |-> "CREATED"]
  /\ vmm = [v \in VMs |-> "created"]
  /\ tick = [v \in VMs |-> 0]
  /\ inFlight = {}
  /\ answer = [o \in Ops |-> "none"]
  /\ snaps = [s \in SnapshotIds |-> None]

-----------------------------------------------------------------------------
Goto(o, to) == pc' = [pc EXCEPT ![o] = to]

Ends(o, how) == Goto(o, "done") /\ outcome' = [outcome EXCEPT ![o] = how]

Unlock(o) == lock' = [lock EXCEPT ![vmOf(o)] = None]

SetStatus(o, s) == status' = [status EXCEPT ![vmOf(o)] = s]

(* o sends a call, besides those that are already left. *)
SendAmong(left, o, call) ==
  /\ Goto(o, call)
  /\ inFlight' = left \cup {<<o, call>>}
  /\ answer' = [answer EXCEPT ![o] = "none"]

Send(o, call) == SendAmong(inFlight, o, call)

Succeeded(o) == answer[o] = "ok"

(* The call returned an error: a bad status, or no answer; then it may     *)
(* have been dropped, or be among the calls left for the VMM.              *)
Failed(o, how, left) ==
  \/ /\ how = "refused" /\ answer[o] = "refused"
     /\ left = inFlight
  \/ /\ how = "noAnswer"
     /\ left \in {inFlight, inFlight \ {<<o, pc[o]>>}}

Hows == {"refused", "noAnswer"}

-----------------------------------------------------------------------------
(* Mutant: the registry is keyed by something else than the VM's name. *)
RegisterOther(o) ==
  /\ pc[o] = "start" /\ job[o].kind = "start"
  /\ registered' = registered \cup {<<vmOf(o)>>}
  /\ SetStatus(o, "RUNNING")
  /\ Goto(o, "acquire")
  /\ UNCHANGED <<job, lock, outcome, machine, inFlight, answer>>

(* createVM puts the VM into s.vms as RUNNING; StartVM goes on to boot it. *)
Register(o) ==
  /\ pc[o] = "start" /\ job[o].kind = "start"
  /\ registered' = registered \cup {vmOf(o)}
  /\ SetStatus(o, "RUNNING")
  /\ Goto(o, "acquire")
  /\ UNCHANGED <<job, lock, outcome, machine, inFlight, answer>>

(* getVMAtomic, which every other handler begins with *)
NotFound(o) ==
  /\ pc[o] = "start" /\ job[o].kind # "start"
  /\ vmOf(o) \notin registered
  /\ Ends(o, "notFound")
  /\ UNCHANGED <<control, machine, inFlight, answer>>

Found(o, kinds) ==
  /\ pc[o] = "start" /\ job[o].kind \in kinds
  /\ vmOf(o) \in registered
  /\ UNCHANGED <<control, outcome, machine>>

FindToLock(o) ==
  /\ Found(o, {"pause", "resume", "destroy"})
  /\ Goto(o, "acquire")
  /\ UNCHANGED <<inFlight, answer>>

FindToStop(o) == Found(o, {"stop"}) /\ Send(o, "stop")

FindToSnapshot(o) ==
  /\ Found(o, {"snapshot"})
  /\ Goto(o, "stat")
  /\ UNCHANGED <<inFlight, answer>>

-----------------------------------------------------------------------------
(* vm.boot, vm.pause, vm.resume and destroyVM *)
LockedCall == [start |-> "boot", pause |-> "pause", resume |-> "resume"]

StatusAfter == [boot |-> "RUNNING", pause |-> "PAUSED", resume |-> "RUNNING"]

(* Mutant: the lock is not waited for. *)
AcquireAnyway(o) ==
  /\ pc[o] = "acquire"
  /\ lock' = [lock EXCEPT ![vmOf(o)] = o]
  /\ IF job[o].kind = "destroy"
       THEN Goto(o, "relock") /\ UNCHANGED <<inFlight, answer>>
       ELSE Send(o, LockedCall[job[o].kind])
  /\ UNCHANGED <<job, registered, status, outcome, machine>>

Acquire(o) ==
  /\ pc[o] = "acquire"
  /\ lock[vmOf(o)] = None
  /\ lock' = [lock EXCEPT ![vmOf(o)] = o]
  /\ IF job[o].kind = "destroy"
       THEN Goto(o, "relock") /\ UNCHANGED <<inFlight, answer>>
       ELSE Send(o, LockedCall[job[o].kind])
  /\ UNCHANGED <<job, registered, status, outcome, machine>>

LockedCallSucceeds(o) ==
  /\ pc[o] \in {"boot", "pause", "resume"} /\ Succeeded(o)
  /\ SetStatus(o, StatusAfter[pc[o]])
  /\ Unlock(o)
  /\ Ends(o, "ok")
  /\ UNCHANGED <<job, registered, machine, inFlight, answer>>

(* Mutant: no unlock on the way out of an error. *)
LockedCallFailsLocked(o) ==
  /\ pc[o] \in {"pause", "resume"}
  /\ \E how \in Hows : Failed(o, how, inFlight') /\ Ends(o, how)
  /\ UNCHANGED <<control, machine, answer>>

LockedCallFails(o) ==
  /\ pc[o] \in {"pause", "resume"}
  /\ \E how \in Hows : Failed(o, how, inFlight') /\ Ends(o, how)
  /\ Unlock(o)
  /\ UNCHANGED <<job, registered, status, machine, answer>>

(* vm.boot fails and unlocks; StartVM's clean-up then shuts the VM down. *)
BootFails(o) ==
  /\ pc[o] = "boot"
  /\ \E how \in Hows, left \in SUBSET inFlight :
       /\ Failed(o, how, left)
       /\ outcome' = [outcome EXCEPT ![o] = how]
       /\ SendAmong(left, o, "undo")
  /\ Unlock(o)
  /\ UNCHANGED <<job, registered, status, machine>>

UndoEnds(o) ==
  /\ pc[o] = "undo"
  /\ \/ Succeeded(o) /\ UNCHANGED inFlight
     \/ \E how \in Hows : Failed(o, how, inFlight')
  /\ Goto(o, "done")
  /\ UNCHANGED <<control, outcome, machine, answer>>

-----------------------------------------------------------------------------
(* StopVM writes vm.status without the lock. *)
StopSucceeds(o) ==
  /\ pc[o] = "stop" /\ Succeeded(o)
  /\ SetStatus(o, "STOPPED")
  /\ Ends(o, "ok")
  /\ UNCHANGED <<job, registered, lock, machine, inFlight, answer>>

StopFails(o) ==
  /\ pc[o] = "stop"
  /\ \E how \in Hows : Failed(o, how, inFlight') /\ Ends(o, how)
  /\ UNCHANGED <<control, machine, answer>>

-----------------------------------------------------------------------------
(* SnapshotVM, without the lock from beginning to end *)
Stat(o) ==
  /\ pc[o] = "stat"
  /\ IF snaps[idOf(o)] = None
       THEN Goto(o, "mkdir") /\ UNCHANGED outcome
       ELSE Ends(o, "exists")
  /\ UNCHANGED <<control, machine, inFlight, answer>>

(* os.MkdirAll also succeeds if the directory exists by now. *)
MkdirAll(o) ==
  /\ pc[o] = "mkdir"
  /\ snaps' = IF snaps[idOf(o)] = None
                THEN [snaps EXCEPT ![idOf(o)] = EmptyDir] ELSE snaps
  /\ Send(o, "snapPause")
  /\ UNCHANGED <<control, outcome, vmm, tick>>

MkdirAllFails(o) ==
  /\ pc[o] = "mkdir"
  /\ Ends(o, "ioError")
  /\ UNCHANGED <<control, machine, inFlight, answer>>

SnapPauseSucceeds(o) ==
  /\ pc[o] = "snapPause" /\ Succeeded(o)
  /\ SetStatus(o, "PAUSED")
  /\ Goto(o, "copy")
  /\ UNCHANGED <<job, registered, lock, outcome, machine, inFlight, answer>>

(* Mutant: the error of the pause is ignored. *)
SnapPauseIgnored(o) ==
  /\ pc[o] = "snapPause"
  /\ \E how \in Hows : Failed(o, how, inFlight')
  /\ Goto(o, "copy")
  /\ UNCHANGED <<control, outcome, machine, answer>>

(* The resume is deferred only after the pause: here nothing resumes. *)
SnapPauseFails(o) ==
  /\ pc[o] = "snapPause"
  /\ \E how \in Hows :
       /\ Failed(o, how, inFlight')
       /\ outcome' = [outcome EXCEPT ![o] = how]
  /\ Goto(o, "rmSnap")
  /\ UNCHANGED <<control, machine, answer>>

CopyDisk(o) ==
  /\ pc[o] = "copy"
  /\ snaps[idOf(o)] # None
  /\ snaps' = [snaps EXCEPT ![idOf(o)].disk = Contents(vmOf(o))]
  /\ Goto(o, "writeCID")
  /\ UNCHANGED <<control, outcome, vmm, tick, inFlight, answer>>

WriteCID(o) ==
  /\ pc[o] = "writeCID"
  /\ snaps[idOf(o)] # None
  /\ snaps' = [snaps EXCEPT ![idOf(o)].cid = vmOf(o)]
  /\ Send(o, "snapSave")
  /\ UNCHANGED <<control, outcome, vmm, tick>>

(* No space, or the directory is gone: the deferred resume comes next. *)
FileFails(o) ==
  /\ pc[o] \in {"copy", "writeCID"}
  /\ outcome' = [outcome EXCEPT ![o] = "ioError"]
  /\ Send(o, "snapResume")
  /\ UNCHANGED <<control, machine>>

SnapSaveSucceeds(o) ==
  /\ pc[o] = "snapSave" /\ Succeeded(o)
  /\ outcome' = [outcome EXCEPT ![o] = "ok"]
  /\ Send(o, "snapResume")
  /\ UNCHANGED <<control, machine>>

SnapSaveFails(o) ==
  /\ pc[o] = "snapSave"
  /\ \E how \in Hows, left \in SUBSET inFlight :
       /\ Failed(o, how, left)
       /\ outcome' = [outcome EXCEPT ![o] = how]
       /\ SendAmong(left, o, "snapResume")
  /\ UNCHANGED <<control, machine>>

(* Mutant: the clean-up is always disarmed. *)
AfterResumeReleased(o) == Goto(o, "done")

(* Deferred calls run last first: the resume, then the clean-up, which     *)
(* cleanup.Release disarmed if the snapshot was taken.                     *)
AfterResume(o) == Goto(o, IF outcome[o] = "ok" THEN "done" ELSE "rmSnap")

SnapResumeSucceeds(o) ==
  /\ pc[o] = "snapResume" /\ Succeeded(o)
  /\ SetStatus(o, "RUNNING")
  /\ AfterResume(o)
  /\ UNCHANGED <<job, registered, lock, outcome, machine, inFlight, answer>>

SnapResumeFails(o) ==
  /\ pc[o] = "snapResume"
  /\ \E how \in Hows : Failed(o, how, inFlight')
  /\ AfterResume(o)
  /\ UNCHANGED <<control, outcome, machine, answer>>

RemoveSnapshot(o) ==
  /\ pc[o] = "rmSnap"
  /\ snaps' = [snaps EXCEPT ![idOf(o)] = None]
  /\ Goto(o, "done")
  /\ UNCHANGED <<control, outcome, vmm, tick, inFlight, answer>>

(* os.RemoveAll fails: its error is logged, and the directory stays.  What *)
(* is left in it no handler of this module reads: it stands here as empty. *)
RemoveSnapshotFails(o) ==
  /\ pc[o] = "rmSnap"
  /\ snaps[idOf(o)] # None
  /\ snaps' = [snaps EXCEPT ![idOf(o)] = EmptyDir]
  /\ Ends(o, "unremoved")
  /\ UNCHANGED <<control, vmm, tick, inFlight, answer>>

-----------------------------------------------------------------------------
(* The VMM handles a call; its answer is lost if nobody waits for it. *)
Handled(o, call, with) ==
  /\ <<o, call>> \in inFlight
  /\ vmm[vmOf(o)] # "dead"
  /\ inFlight' = inFlight \ {<<o, call>>}
  /\ answer' = IF pc[o] = call THEN [answer EXCEPT ![o] = with] ELSE answer
  /\ UNCHANGED <<control, pc, outcome>>

Accept(o, call) ==
  LET v == vmOf(o)
      req == Request[call]
      runs(s) == s = "running"
  IN /\ Handled(o, call, "ok")
     /\ vmm[v] \in From[req]
     /\ vmm' = [vmm EXCEPT ![v] = To[req]]
     /\ tick' = IF runs(vmm[v]) = runs(To[req]) THEN tick
                ELSE [tick EXCEPT ![v] = @ + 1]
     /\ IF req = "snapshot"
          THEN /\ snaps[idOf(o)] # None
               /\ snaps' = [snaps EXCEPT ![idOf(o)].mem = Contents(v)]
          ELSE UNCHANGED snaps

(* Not legal in this state, or booting or writing the snapshot fails. *)
Refuse(o, call) ==
  /\ Handled(o, call, "refused")
  /\ \/ vmm[vmOf(o)] \notin From[Request[call]]
     \/ Request[call] \in {"boot", "snapshot"}
  /\ UNCHANGED machine

VMMExits(v) ==
  /\ vmm[v] # "dead"
  /\ vmm' = [vmm EXCEPT ![v] = "dead"]
  /\ inFlight' = {c \in inFlight : vmOf(c[1]) # v}
  /\ UNCHANGED <<control, pc, outcome, tick, snaps, answer>>

-----------------------------------------------------------------------------
Arrive(o) ==
  \/ Register(o) \/ NotFound(o)
  \/ FindToLock(o) \/ FindToStop(o) \/ FindToSnapshot(o)

Work(o) ==
  \/ Acquire(o) \/ LockedCallSucceeds(o) \/ LockedCallFails(o)
  \/ BootFails(o) \/ UndoEnds(o)
  \/ StopSucceeds(o) \/ StopFails(o)
  \/ Stat(o) \/ MkdirAll(o) \/ MkdirAllFails(o)
  \/ SnapPauseSucceeds(o) \/ SnapPauseFails(o)
  \/ CopyDisk(o) \/ WriteCID(o) \/ FileFails(o)
  \/ SnapSaveSucceeds(o) \/ SnapSaveFails(o)
  \/ SnapResumeSucceeds(o) \/ SnapResumeFails(o)
  \/ RemoveSnapshot(o) \/ RemoveSnapshotFails(o)

Next ==
  \/ \E o \in Ops : Arrive(o) \/ Work(o)
  \/ \E o \in Ops, call \in Calls : Accept(o, call) \/ Refuse(o, call)
  \/ \E v \in VMs : VMMExits(v)

Spec == Init /\ [][Next]_vars

(* A handler that was called runs: each of its calls returns, at the       *)
(* latest by its timeout.  The VMM need not handle anything.               *)
Fairness == \A o \in Ops : WF_vars(Work(o))

FairSpec == Spec /\ Fairness

-----------------------------------------------------------------------------
(* Properties *)
TypeOK ==
  /\ job \in [Ops -> Jobs]
  /\ pc \in [Ops -> Calls \cup {"start", "acquire", "relock", "stat", "mkdir",
                                "copy", "writeCID", "rmSnap", "done"}]
  /\ outcome \in [Ops -> Hows \cup {"none", "ok", "notFound", "exists",
                                    "ioError", "unremoved"}]
  /\ registered \subseteq VMs
  /\ lock \in [VMs -> Ops \cup {None}]
  /\ status \in [VMs -> {"CREATED", "RUNNING", "PAUSED", "STOPPED"}]
  /\ vmm \in [VMs -> {"created", "running", "paused", "dead"}]
  /\ tick \in [VMs -> Nat]
  /\ inFlight \subseteq Ops \X Calls
  /\ answer \in [Ops -> {"none", "ok", "refused"}]
  /\ snaps \in [SnapshotIds -> Dirs \cup {None}]

On(v) == {o \in Ops : vmOf(o) = v /\ pc[o] # "start"}

(* If only boot, pause and resume were called, however they interleaved,   *)
(* and each was answered, then vm.status is the state the VMM is in        *)
(* (server.go:1115-1150, 1239-1254: the lock spans the call and the write).*)
StatusTruthful ==
  \A v \in registered :
    /\ vmm[v] # "dead"
    /\ \A o \in On(v) : /\ job[o].kind \in DOMAIN LockedCall
                        /\ pc[o] = "done"
                        /\ outcome[o] \in IF job[o].kind = "start"
                                            THEN {"ok"} ELSE {"ok", "refused"}
    => /\ status[v] = "RUNNING" <=> vmm[v] = "running"
       /\ status[v] = "PAUSED" <=> vmm[v] = "paused"

NoResumeOf(v) == \A o \in On(v) : job[o].kind # "resume"

OnlyUser(o) ==
  \A q \in Ops \ {o} : job[q].kind = "snapshot" => idOf(q) # idOf(o)

Whole(o) ==
  LET dir == snaps[idOf(o)] IN
  /\ dir # None
  /\ dir.cid = vmOf(o)
  /\ dir.disk # None /\ dir.disk.vm = vmOf(o)
  /\ dir.mem # None /\ dir.mem.vm = vmOf(o)

(* A snapshot whose id nobody else uses is there as a whole if SnapshotVM  *)
(* succeeded, and leaves nothing if it failed, at any step and even if the *)
(* VMM writes it after the handler gave up, unless os.RemoveAll could not  *)
(* remove it (server.go:1569-1577, 1655).                                  *)
SnapshotAllOrNothing ==
  \A o \in Ops :
    /\ job[o].kind = "snapshot" /\ pc[o] = "done" /\ OnlyUser(o)
    /\ outcome[o] # "unremoved"
    => IF outcome[o] = "ok" THEN Whole(o) ELSE snaps[idOf(o)] = None

(* Its disk and its memory are of one moment: the guest did not run from   *)
(* the copy of the disk to the VMM's snapshot (server.go:1579-1638), even  *)
(* beside another SnapshotVM or a PauseVM, none of which SnapshotVM locks  *)
(* out.  A ResumeVM and a PauseVM in between do let it run.                *)
SnapshotOfOneMoment ==
  \A o \in Ops :
    /\ job[o].kind = "snapshot" /\ pc[o] = "done" /\ outcome[o] = "ok"
    /\ OnlyUser(o) /\ NoResumeOf(vmOf(o))
    => snaps[idOf(o)].disk = snaps[idOf(o)].mem

Grabbed(v) == lock[v] # None /\ job[lock[v]].kind = "destroy"

(* A request ends, whatever the others and the VMM do, unless a DestroyVM  *)
(* has the VM: no other handler keeps a lock it waits for.                 *)
OpsEnd == \A o \in Ops : pc[o] # "start" ~> pc[o] = "done" \/ Grabbed(vmOf(o))

-----------------------------------------------------------------------------
(* What the repository says and the code does not do *)

(* server-api.yaml:176, "Successfully destroyed VM": DestroyVM answers. *)
DestroyReturns ==
  \A o \in Ops : job[o].kind = "destroy" /\ pc[o] # "start" ~> pc[o] = "done"
=============================================================================
