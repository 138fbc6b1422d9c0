-------------------------- MODULE VmControlProofs --------------------------
(***************************************************************************)
(* For any number of requests, VMs and snapshots: vm.status is true of the *)
(* VMM when only boot, pause and resume were called and all were answered, *)
(* and a snapshot is whole and of one moment, or is not there.             *)
(*                                                                         *)
(* Four invariants, each built on the one before.  Core: where a request   *)
(* of each kind can be, which of its calls can be in flight, and that the  *)
(* lock of a VM is held by the request that waits for its boot, pause or   *)
(* resume.  Truth: what the VMM did since the lock was taken is what the   *)
(* holder was answered.  Contents: what a snapshot directory holds, by     *)
(* where its SnapshotVM is.  Stillness: only one request at a time can     *)
(* still make the guest of a VM run.                                       *)
(***************************************************************************)
EXTENDS VmControl, TLAPS

Locking == {"boot", "pause", "resume", "relock"}

CallsOf == [start |-> {"boot", "undo"}, pause |-> {"pause"},
            resume |-> {"resume"}, destroy |-> {}, stop |-> {"stop"},
            snapshot |-> {"snapPause", "snapSave", "snapResume"}]

PlacesOf == [start |-> {"acquire"}, pause |-> {"acquire"},
             resume |-> {"acquire"}, destroy |-> {"acquire", "relock"},
             stop |-> {},
             snapshot |-> {"stat", "mkdir", "copy", "writeCID", "rmSnap"}]

(* Where a request can be while a call of it is in flight. *)
After == [boot |-> {"boot", "undo", "done"}, undo |-> {"undo", "done"},
          pause |-> {"pause", "done"}, resume |-> {"resume", "done"},
          stop |-> {"stop", "done"},
          snapPause |-> {"snapPause", "copy", "writeCID", "snapSave",
                         "snapResume", "rmSnap", "done"},
          snapSave |-> {"snapSave", "snapResume", "rmSnap", "done"},
          snapResume |-> {"snapResume", "rmSnap", "done"}]

(* Where a request is while nothing has been decided about its outcome. *)
Undecided == {"start", "acquire", "boot", "pause", "resume", "stop", "stat",
              "mkdir", "snapPause", "copy", "writeCID", "snapSave"}

InPlace ==
  \A o \in Ops : pc[o] \in {"start", "done"} \cup PlacesOf[job[o].kind]
                             \cup CallsOf[job[o].kind]

InFlightOK ==
  \A o \in Ops, call \in Calls : <<o, call>> \in inFlight =>
    /\ call \in CallsOf[job[o].kind] /\ pc[o] \in After[call]
    /\ vmOf(o) \in registered
    /\ pc[o] = call => answer[o] = "none"

LocksOK ==
  /\ \A v \in VMs : lock[v] # None =>
       vmOf(lock[v]) = v /\ pc[lock[v]] \in Locking
  /\ \A o \in Ops : pc[o] \in Locking => lock[vmOf(o)] = o

Core ==
  /\ TypeOK /\ job \in Assignments
  /\ InPlace /\ InFlightOK /\ LocksOK
  /\ \A v \in VMs : v \notin registered => vmm[v] \in {"created", "dead"}
  /\ \A v \in registered : \E o \in Ops :
       job[o].kind = "start" /\ vmOf(o) = v /\ pc[o] # "start"
  /\ \A o \in Ops : pc[o] \notin {"start", "done"} => vmOf(o) \in registered
  /\ \A o \in Ops : pc[o] \in Undecided => outcome[o] = "none"

-----------------------------------------------------------------------------
Unanswered(o) ==
  outcome[o] \notin IF job[o].kind = "start" THEN {"none", "ok"}
                                             ELSE {"none", "ok", "refused"}

(* v had nothing but boot, pause and resume, none of them unanswered. *)
Good(v) ==
  /\ vmm[v] # "dead"
  /\ \A o \in On(v) : job[o].kind \in DOMAIN LockedCall /\ ~Unanswered(o)

(* The boot of v has not been done. *)
Unbooted(v) ==
  \E o \in Ops : /\ job[o].kind = "start" /\ vmOf(o) = v
                 /\ pc[o] = "acquire" \/ (pc[o] = "boot" /\ answer[o] # "ok")

(* The holder of the lock has its answer and has not written vm.status. *)
Pending(v) == lock[v] # None /\ answer[lock[v]] = "ok"

TruthOf(v) ==
  IF Unbooted(v) THEN ~Pending(v) /\ status[v] = "RUNNING" /\ vmm[v] = "created"
  ELSE IF Pending(v) THEN vmm[v] = To[Request[pc[lock[v]]]]
  ELSE \/ status[v] = "RUNNING" /\ vmm[v] = "running"
       \/ status[v] = "PAUSED" /\ vmm[v] = "paused"

Truth == \A v \in registered : Good(v) => TruthOf(v)

(* A call that its request no longer waits for was not answered. *)
LateCalls ==
  \A o \in Ops, call \in {"boot", "undo", "pause", "resume"} :
    /\ <<o, call>> \in inFlight \/ pc[o] = "undo"
    /\ pc[o] # call \/ call = "undo"
    => Unanswered(o)

-----------------------------------------------------------------------------
Before(o) == pc[o] \in {"start", "stat", "mkdir"}

Gone(o) == pc[o] = "done" /\ outcome[o] \notin {"ok", "unremoved"}

DiskOf(o) == LET disk == snaps[idOf(o)].disk IN disk # None /\ disk.vm = vmOf(o)
MemOf(o) == LET mem == snaps[idOf(o)].mem IN mem # None /\ mem.vm = vmOf(o)

ContentsOf(o) ==
  /\ snaps[idOf(o)] = None <=> Before(o) \/ Gone(o)
  /\ pc[o] \in {"writeCID", "snapSave"} \/ outcome[o] = "ok" => DiskOf(o)
  /\ pc[o] = "snapSave" \/ outcome[o] = "ok" => snaps[idOf(o)].cid = vmOf(o)
  /\ (pc[o] = "snapSave" /\ answer[o] = "ok") \/ outcome[o] = "ok" => MemOf(o)
  /\ outcome[o] = "ok" => pc[o] \in {"snapResume", "done"}
  /\ outcome[o] = "unremoved" => pc[o] = "done"

ContentsOK ==
  \A o \in Ops : job[o].kind = "snapshot" /\ OnlyUser(o) => ContentsOf(o)

-----------------------------------------------------------------------------
(* o can still make the guest run: its pause was done, its resume was not. *)
MayResume(o) ==
  /\ job[o].kind = "snapshot"
  /\ \/ pc[o] = "snapPause" /\ answer[o] = "ok"
     \/ pc[o] \in {"copy", "writeCID", "snapSave"}
     \/ <<o, "snapResume">> \in inFlight

MayBoot(o) ==
  /\ job[o].kind = "start"
  /\ pc[o] \in {"start", "acquire"} \/ <<o, "boot">> \in inFlight

Stillness ==
  \A v \in VMs : NoResumeOf(v) =>
    /\ \A o, q \in Ops : /\ MayResume(o) \/ MayBoot(o)
                         /\ MayResume(q) \/ MayBoot(q)
                         /\ vmOf(o) = v /\ vmOf(q) = v
                         => o = q
    /\ vmm[v] = "running" =>
         \A o \in Ops : vmOf(o) = v => ~MayResume(o) /\ ~MayBoot(o)

MomentOf(o) ==
  /\ pc[o] \in {"writeCID", "snapSave"} =>
       snaps[idOf(o)].disk = Contents(vmOf(o))
  /\ (pc[o] = "snapSave" /\ answer[o] = "ok") \/ outcome[o] = "ok" =>
       /\ snaps[idOf(o)].disk = snaps[idOf(o)].mem
       /\ <<o, "snapSave">> \notin inFlight

SameMoment ==
  \A o \in Ops : job[o].kind = "snapshot" /\ OnlyUser(o) /\ NoResumeOf(vmOf(o))
                => MomentOf(o)

-----------------------------------------------------------------------------
(* What the steps of a request have in common: o goes on to a place of its *)
(* kind, sends at most the call it then waits for, and takes or gives back *)
(* no lock but that of its VM.                                             *)
Moved(o) ==
  /\ job' = job /\ vmm' = vmm /\ tick' = tick
  /\ \A s \in SnapshotIds :
       snaps'[s] = snaps[s] \/ (job[o].kind = "snapshot" /\ s = idOf(o))
  /\ pc[o] # "done" /\ pc'[o] # "start"
  /\ pc'[o] \in Undecided => pc[o] \in Undecided /\ outcome'[o] = outcome[o]
  /\ \A v \in VMs \ {vmOf(o)} : status'[v] = status[v]
  /\ pc' = [pc EXCEPT ![o] = pc'[o]] /\ pc'[o] # pc[o]
  /\ outcome' = [outcome EXCEPT ![o] = outcome'[o]]
  /\ answer' = [answer EXCEPT ![o] = answer'[o]]
  /\ pc'[o] \in {"done"} \cup PlacesOf[job[o].kind] \cup CallsOf[job[o].kind]
  /\ \A call \in Calls : pc[o] \in After[call] => pc'[o] \in After[call]
  /\ \A call \in Calls : pc'[o] = call => call \in CallsOf[job[o].kind]
                                          /\ answer'[o] = "none"

Listed(o) ==
  \/ registered' = registered
     /\ (pc[o] = "start" /\ pc'[o] # "done" => vmOf(o) \in registered)
  \/ registered' = registered \cup {vmOf(o)} /\ job[o].kind = "start"

Sent(o) ==
  \A q \in Ops, call \in Calls :
    <<q, call>> \in inFlight' =>
      <<q, call>> \in inFlight \/ (q = o /\ call = pc'[o])

LockMoved(o) ==
  \/ lock' = lock /\ pc[o] \notin Locking /\ pc'[o] \notin Locking
  \/ /\ lock[vmOf(o)] = None /\ lock' = [lock EXCEPT ![vmOf(o)] = o]
     /\ pc'[o] \in Locking
  \/ /\ pc[o] \in Locking /\ lock' = [lock EXCEPT ![vmOf(o)] = None]
     /\ pc'[o] \notin Locking

(* Each action is such a step, and keeps the types. *)
LEMMA OpMoves ==
  ASSUME Core, NEW o \in Ops, Arrive(o) \/ Work(o)
  PROVE  TypeOK' /\ Moved(o) /\ Listed(o) /\ Sent(o) /\ LockMoved(o)
<1>0. /\ o \in Ops /\ job \in [Ops -> Jobs] /\ vmOf(o) \in VMs
      /\ idOf(o) \in SnapshotIds /\ job[o].kind \in Kinds
  BY DEF Core, TypeOK, Jobs, vmOf, idOf
<1>a. pc[o] \in {"start", "done"} \cup PlacesOf[job[o].kind]
                                \cup CallsOf[job[o].kind]
  BY DEF Core, InPlace
<1> USE NoneAssumption, <1>0, <1>a
    DEF Core, TypeOK, Moved, Listed, Sent, LockMoved, Goto, Ends, SetStatus,
        Unlock, Hows, Calls, Request, CallsOf, PlacesOf, After, Locking,
        Undecided, control, machine, Kinds, LockedCall, StatusAfter
<1>1. CASE Register(o)
  BY <1>1 DEF Register
<1>2. CASE NotFound(o)
  BY <1>2 DEF NotFound
<1>3. CASE FindToLock(o)
  BY <1>3 DEF FindToLock, Found
<1>4. CASE FindToStop(o)
  BY <1>4 DEF FindToStop, Found, Send, SendAmong
<1>5. CASE FindToSnapshot(o)
  BY <1>5 DEF FindToSnapshot, Found
<1>6. CASE Acquire(o)
  <2>1. TypeOK' /\ Listed(o)
    BY <1>6, SMTT(40) DEF Acquire, Send, SendAmong
  <2>2. Moved(o)
    BY <1>6 DEF Acquire, Send, SendAmong
  <2>3. Sent(o) /\ LockMoved(o)
    BY <1>6 DEF Acquire, Send, SendAmong
  <2> QED BY <2>1, <2>2, <2>3
<1>7. CASE LockedCallSucceeds(o)
  <2>1. TypeOK'
    <3>1. /\ StatusAfter[pc[o]] \in {"RUNNING", "PAUSED"}
          /\ status' = [status EXCEPT ![vmOf(o)] = StatusAfter[pc[o]]]
          /\ lock' = [lock EXCEPT ![vmOf(o)] = None]
          /\ pc' = [pc EXCEPT ![o] = "done"]
          /\ outcome' = [outcome EXCEPT ![o] = "ok"]
          /\ UNCHANGED <<job, registered, machine, inFlight, answer>>
      BY <1>7 DEF LockedCallSucceeds
    <3>2. /\ status' \in [VMs -> {"CREATED", "RUNNING", "PAUSED", "STOPPED"}]
          /\ lock' \in [VMs -> Ops \cup {None}]
      BY <3>1
    <3> QED BY <3>1, <3>2
  <2>2. Moved(o)
    BY <1>7 DEF LockedCallSucceeds, Succeeded
  <2>3. Listed(o) /\ Sent(o) /\ LockMoved(o)
    BY <1>7 DEF LockedCallSucceeds, Succeeded
  <2> QED BY <2>1, <2>2, <2>3
<1>8. CASE LockedCallFails(o)
  <2>1. TypeOK' /\ Listed(o)
    BY <1>8 DEF LockedCallFails, Failed
  <2>2. Moved(o)
    BY <1>8 DEF LockedCallFails, Failed
  <2>3. Sent(o) /\ LockMoved(o)
    BY <1>8 DEF LockedCallFails, Failed
  <2> QED BY <2>1, <2>2, <2>3
<1>9. CASE BootFails(o)
  <2>1. TypeOK' /\ Listed(o)
    BY <1>9, SMTT(40) DEF BootFails, Failed, SendAmong
  <2>2. Moved(o)
    BY <1>9, SMTT(20) DEF BootFails, Failed, SendAmong
  <2>3. Sent(o) /\ LockMoved(o)
    BY <1>9 DEF BootFails, Failed, SendAmong
  <2> QED BY <2>1, <2>2, <2>3
<1>10. CASE UndoEnds(o)
  BY <1>10 DEF UndoEnds, Failed, Succeeded
<1>11. CASE StopSucceeds(o)
  BY <1>11 DEF StopSucceeds, Succeeded
<1>12. CASE StopFails(o)
  BY <1>12 DEF StopFails, Failed
<1>13. CASE Stat(o)
  BY <1>13 DEF Stat
<1>14. CASE MkdirAll(o)
  <2>1. EmptyDir \in Dirs
    BY DEF EmptyDir, Dirs
  <2>2. snaps' \in [SnapshotIds -> Dirs \cup {None}]
    BY <1>14, <2>1 DEF MkdirAll
  <2> QED BY <1>14, <2>2 DEF MkdirAll, Send, SendAmong
<1>15. CASE MkdirAllFails(o)
  BY <1>15 DEF MkdirAllFails
<1>16. CASE SnapPauseSucceeds(o)
  BY <1>16 DEF SnapPauseSucceeds, Succeeded
<1>17. CASE SnapPauseFails(o)
  BY <1>17 DEF SnapPauseFails, Failed
<1>18. CASE CopyDisk(o)
  <2>1. [snaps[idOf(o)] EXCEPT !.disk = Contents(vmOf(o))] \in Dirs
    <3>1. Contents(vmOf(o)) \in Moments
      BY DEF Contents, Moments
    <3>2. snaps[idOf(o)] \in Dirs
      BY <1>18 DEF CopyDisk
    <3> QED BY <3>1, <3>2 DEF Dirs
  <2>2. snaps' \in [SnapshotIds -> Dirs \cup {None}]
    BY <1>18, <2>1 DEF CopyDisk
  <2> QED BY <1>18, <2>2 DEF CopyDisk
<1>19. CASE WriteCID(o)
  <2>1. [snaps[idOf(o)] EXCEPT !.cid = vmOf(o)] \in Dirs
    BY <1>19 DEF WriteCID, Dirs
  <2>2. snaps' \in [SnapshotIds -> Dirs \cup {None}]
    BY <1>19, <2>1 DEF WriteCID
  <2> QED BY <1>19, <2>2 DEF WriteCID, Send, SendAmong
<1>20. CASE FileFails(o)
  BY <1>20 DEF FileFails, Send, SendAmong
<1>21. CASE SnapSaveSucceeds(o)
  BY <1>21 DEF SnapSaveSucceeds, Succeeded, Send, SendAmong
<1>22. CASE SnapSaveFails(o)
  BY <1>22 DEF SnapSaveFails, Failed, SendAmong
<1>23. CASE SnapResumeSucceeds(o)
  BY <1>23 DEF SnapResumeSucceeds, Succeeded, AfterResume
<1>24. CASE SnapResumeFails(o)
  BY <1>24 DEF SnapResumeFails, Failed, AfterResume
<1>25. CASE RemoveSnapshot(o)
  BY <1>25 DEF RemoveSnapshot
<1>26. CASE RemoveSnapshotFails(o)
  <2>1. EmptyDir \in Dirs
    BY DEF EmptyDir, Dirs
  <2> QED BY <1>26, <2>1 DEF RemoveSnapshotFails, Ends
<1> QED
  BY <1>1, <1>2, <1>3, <1>4, <1>5, <1>6, <1>7, <1>8, <1>9, <1>10,
     <1>11, <1>12, <1>13, <1>14, <1>15, <1>16, <1>17, <1>18, <1>19,
     <1>20, <1>21, <1>22, <1>23, <1>24, <1>25, <1>26 DEF Arrive, Work

(* The rest of Core follows from that. *)
LEMMA OpKeepsCore ==
  ASSUME Core, NEW o \in Ops, Arrive(o) \/ Work(o)
  PROVE  Core'
<1>1. TypeOK' /\ Moved(o) /\ Listed(o) /\ Sent(o) /\ LockMoved(o)
  BY OpMoves
<1>2. InPlace'
  BY <1>1 DEF Core, TypeOK, InPlace, Moved
<1>3. InFlightOK'
  <2>1. \A q \in Ops, call \in Calls : <<q, call>> \in inFlight' =>
          /\ call \in CallsOf[job[q].kind] /\ pc'[q] \in After[call]
          /\ vmOf(q) \in registered'
          /\ pc'[q] = call => answer'[q] = "none"
    BY <1>1 DEF Core, TypeOK, InFlightOK, Moved, Listed, Sent, After, Calls,
                Request
  <2> QED BY <1>1, <2>1 DEF InFlightOK, Moved, vmOf
<1>4. LocksOK'
  <2>0. /\ lock \in [VMs -> Ops \cup {None}] /\ LocksOK
        /\ \A q \in Ops : vmOf(q) \in VMs
        /\ pc \in [Ops -> Calls \cup {"start", "acquire", "relock", "stat",
                    "mkdir", "copy", "writeCID", "rmSnap", "done"}]
        /\ pc' = [pc EXCEPT ![o] = pc'[o]] /\ LockMoved(o)
    BY <1>1 DEF Core, TypeOK, Moved, vmOf, Jobs
  <2>1. \A v \in VMs : lock'[v] # None =>
          vmOf(lock'[v]) = v /\ pc'[lock'[v]] \in Locking
    BY <2>0, NoneAssumption DEF LocksOK, LockMoved
  <2>2. \A q \in Ops : pc'[q] \in Locking => lock'[vmOf(q)] = q
    BY <2>0, NoneAssumption DEF LocksOK, LockMoved
  <2> QED BY <1>1, <2>1, <2>2 DEF LocksOK, Moved, vmOf
<1>5. \A q \in Ops : pc'[q] \notin {"start", "done"} => vmOf(q) \in registered'
  BY <1>1 DEF Core, TypeOK, Moved, Listed
<1>6. \A q \in Ops : pc'[q] \in Undecided => outcome'[q] = "none"
  BY <1>1 DEF Core, TypeOK, Moved
<1>7. ASSUME NEW v \in registered'
      PROVE  \E q \in Ops : job[q].kind = "start" /\ vmOf(q) = v /\ pc'[q] # "start"
  <2>1. CASE v \in registered
    BY <1>1, <2>1 DEF Core, TypeOK, Moved
  <2>2. CASE v \notin registered
    BY <1>1, <1>7, <2>2 DEF Moved, Listed
  <2> QED BY <2>1, <2>2
<1> QED BY <1>1, <1>2, <1>3, <1>4, <1>5, <1>6, <1>7 DEF Core, vmOf, Moved, Listed

(* The VMM's own steps move no request. *)
LEMMA VMMKeepsCore ==
  ASSUME Core,
         \/ \E o \in Ops, call \in Calls : Accept(o, call) \/ Refuse(o, call)
         \/ \E v \in VMs : VMMExits(v)
  PROVE  Core'
<1>1. ASSUME NEW o \in Ops, NEW call \in Calls,
             Accept(o, call) \/ Refuse(o, call)
      PROVE  Core'
  <2>0. /\ vmOf(o) \in VMs /\ idOf(o) \in SnapshotIds
        /\ <<o, call>> \in inFlight /\ vmOf(o) \in registered
    BY <1>1 DEF Core, TypeOK, InFlightOK, Jobs, vmOf, idOf, Accept, Refuse,
                Handled
  <2>1. PICK with \in {"ok", "refused"} : Handled(o, call, with)
    BY <1>1 DEF Accept, Refuse
  <2>2. vmm' \in [VMs -> {"created", "running", "paused", "dead"}]
        /\ tick' \in [VMs -> Nat] /\ snaps' \in [SnapshotIds -> Dirs \cup {None}]
        /\ \A v \in VMs : v \notin registered => vmm'[v] = vmm[v]
    <3>1. CASE Refuse(o, call)
      BY <3>1 DEF Core, TypeOK, Refuse, machine
    <3>2. CASE Accept(o, call)
      <4>1. vmm' \in [VMs -> {"created", "running", "paused", "dead"}]
            /\ \A v \in VMs : v \notin registered => vmm'[v] = vmm[v]
        BY <2>0, <3>2 DEF Core, TypeOK, Accept, To, Request, Calls
      <4>2. tick' \in [VMs -> Nat]
        BY <2>0, <3>2 DEF Core, TypeOK, Accept
      <4>3. snaps' \in [SnapshotIds -> Dirs \cup {None}]
        <5>1. CASE UNCHANGED snaps
          BY <5>1 DEF Core, TypeOK
        <5>2. CASE /\ snaps[idOf(o)] # None
                   /\ snaps' = [snaps EXCEPT ![idOf(o)].mem = Contents(vmOf(o))]
          <6>1. [snaps[idOf(o)] EXCEPT !.mem = Contents(vmOf(o))] \in Dirs
            BY <2>0, <5>2 DEF Core, TypeOK, Contents, Dirs, Moments
          <6> QED BY <2>0, <5>2, <6>1 DEF Core, TypeOK
        <5> QED BY <3>2, <5>1, <5>2 DEF Accept
      <4> QED BY <4>1, <4>2, <4>3
    <3> QED BY <1>1, <3>1, <3>2
  <2>3. TypeOK'
    BY <2>1, <2>2 DEF Core, TypeOK, Handled, control
  <2>4. InFlightOK'
    BY <2>1 DEF Core, TypeOK, InFlightOK, Handled, control, vmOf
  <2> QED
    BY <2>1, <2>2, <2>3, <2>4 DEF Core, InPlace, LocksOK, Handled, control, vmOf
<1>2. ASSUME NEW v \in VMs, VMMExits(v)
      PROVE  Core'
  <2>1. TypeOK'
    BY <1>2 DEF Core, TypeOK, VMMExits, control
  <2>2. InFlightOK'
    BY <1>2 DEF Core, TypeOK, InFlightOK, VMMExits, control, vmOf
  <2> QED
    BY <1>2, <2>1, <2>2 DEF Core, TypeOK, InPlace, LocksOK, VMMExits, control,
                            vmOf
<1> QED BY <1>1, <1>2

LEMMA InitCore == Init => Core
BY NoneAssumption, AssignmentsAssumption
   DEF Init, Core, TypeOK, InPlace, InFlightOK, LocksOK, Locking, PlacesOf,
       CallsOf

LEMMA NextKeepsCore == Core /\ [Next]_vars => Core'
<1>1. ASSUME Core, UNCHANGED vars PROVE Core'
  BY <1>1 DEF Core, TypeOK, InPlace, InFlightOK, LocksOK, vmOf, vars, control,
              machine
<1> QED BY <1>1, OpKeepsCore, VMMKeepsCore DEF Next

-----------------------------------------------------------------------------
(* The locked requests and what they are answered *)

(* Giving up on a call is told from its answer by the outcome. *)
LEMMA OpKeepsLateCalls ==
  ASSUME Core, LateCalls, NEW o \in Ops, Arrive(o) \/ Work(o)
  PROVE  LateCalls'
<1>1. Moved(o) /\ Sent(o)
  BY OpMoves
<1>2. ASSUME NEW call \in {"boot", "undo", "pause", "resume"},
             <<o, call>> \in inFlight' \/ pc'[o] = "undo",
             pc'[o] # call \/ call = "undo"
      PROVE  Unanswered(o)'
  <2>1. /\ call \in Calls
        /\ job[o].kind \in {"start", "pause", "resume"}
        /\ pc'[o] \in {"done", "acquire", "boot", "pause", "resume", "undo"}
        /\ pc[o] \in {"start", "acquire", "boot", "pause", "resume", "undo"}
        /\ <<o, call>> \in inFlight => pc[o] \in After[call]
    <3>1. /\ call \in Calls /\ job[o].kind \in Kinds /\ InPlace
          /\ InFlightOK
      BY DEF Core, TypeOK, Jobs, Calls, Request
    <3>2. job[o].kind \in {"start", "pause", "resume"}
      BY <1>1, <1>2, <3>1 DEF InFlightOK, Moved, Sent, PlacesOf, CallsOf, Kinds,
                              Calls, Request
    <3> QED
      BY <1>1, <1>2, <3>1, <3>2 DEF InPlace, InFlightOK, Moved, PlacesOf, CallsOf
  <2>2. CASE LockedCallFails(o)
    BY <1>1, <1>2, <2>1, <2>2
       DEF Core, TypeOK, InFlightOK, InPlace, CallsOf, PlacesOf, Unanswered,
           LockedCallFails, Failed, Ends, Goto, After, Moved, LateCalls
  <2>3. CASE BootFails(o)
    BY <1>1, <1>2, <2>1, <2>3
       DEF Core, TypeOK, InPlace, CallsOf, PlacesOf, Unanswered, BootFails,
           Failed, SendAmong, Goto, Hows, Moved
  <2>4. CASE LockedCallSucceeds(o)
    BY <1>1, <1>2, <2>1, <2>4
       DEF Core, TypeOK, InFlightOK, InPlace, CallsOf, PlacesOf, Unanswered,
           LockedCallSucceeds, Succeeded, Ends, Goto, After, Moved, LateCalls
  <2>5. CASE UndoEnds(o)
    BY <1>1, <1>2, <2>1, <2>5
       DEF Core, TypeOK, InPlace, CallsOf, PlacesOf, Unanswered, UndoEnds,
           Moved, LateCalls
  <2>6. CASE /\ pc[o] \in {"start", "acquire"} /\ pc'[o] # "undo"
    BY <1>1, <1>2, <2>1, <2>6 DEF After, Sent, Calls, Request
  <2> QED
    BY <1>1, <2>1, <2>2, <2>3, <2>4, <2>5, <2>6
       DEF Arrive, Work, Register, NotFound, FindToLock, FindToStop, Found,
           FindToSnapshot, Acquire, StopSucceeds, StopFails, Stat, MkdirAll,
           MkdirAllFails, SnapPauseSucceeds, SnapPauseFails, CopyDisk,
           WriteCID, FileFails, SnapSaveSucceeds, SnapSaveFails, Goto, Ends,
           SnapResumeSucceeds, SnapResumeFails, RemoveSnapshot, RemoveSnapshotFails, Send,
           SendAmong, LockedCall, Core, TypeOK
<1>3. ASSUME NEW q \in Ops, q # o, NEW call \in {"boot", "undo", "pause", "resume"},
             <<q, call>> \in inFlight' \/ pc'[q] = "undo",
             pc'[q] # call \/ call = "undo"
      PROVE  Unanswered(q)'
  <2>1. call \in Calls
    BY DEF Calls, Request
  <2> QED
    <3>1. pc'[q] = pc[q] /\ outcome'[q] = outcome[q] /\ job' = job
      BY <1>1, <1>3 DEF Core, TypeOK, Moved
    <3>2. <<q, call>> \in inFlight \/ pc[q] = "undo"
      BY <1>1, <1>3, <2>1, <3>1 DEF Sent
    <3> QED BY <1>3, <3>1, <3>2 DEF LateCalls, Unanswered
<1> QED BY <1>2, <1>3 DEF LateCalls

(* What was unanswered stays so: a VM that is good was good before. *)
LEMMA GoodBefore ==
  ASSUME Core, NEW o \in Ops, Arrive(o) \/ Work(o), NEW v \in VMs, Good(v)'
  PROVE  Good(v)
<1>1. Moved(o)
  BY OpMoves
<1>2. ASSUME NEW q \in On(v)
      PROVE  job[q].kind \in DOMAIN LockedCall /\ ~Unanswered(q)
  <2>1. /\ q \in On(v)' /\ job[q].kind \in DOMAIN LockedCall
        /\ ~Unanswered(q)'
    <3>1. q \in Ops /\ vmOf(q) = v /\ pc'[q] # "start"
      BY <1>1, <1>2 DEF On, Moved, Core, TypeOK
    <3>2. q \in On(v)'
      BY <1>1, <3>1 DEF On, Moved, vmOf
    <3> QED BY <1>1, <3>2 DEF Good, Moved
  <2>2. CASE q # o
    BY <1>1, <2>1, <2>2 DEF Unanswered, Moved, Core, TypeOK, On
  <2>3. CASE q = o
    <3>1. /\ job[o].kind \in {"start", "pause", "resume"} /\ pc[o] # "start"
          /\ pc[o] \in {"acquire", "boot", "pause", "resume", "undo", "done"}
          /\ outcome \in [Ops -> Hows \cup {"none", "ok", "notFound", "exists",
                                            "ioError", "unremoved"}]
      BY <1>2, <2>1, <2>3 DEF LockedCall, On, Core, InPlace, PlacesOf, CallsOf,
                              TypeOK
    <3>2. outcome'[o] = outcome[o] \/ pc[o] \in {"boot", "pause", "resume"}
      BY <3>1
         DEF Arrive, Work, Register, NotFound, FindToLock, FindToStop, Found,
             FindToSnapshot, Acquire, UndoEnds, StopSucceeds, StopFails, Stat,
             MkdirAll, MkdirAllFails, SnapPauseSucceeds, SnapPauseFails,
             CopyDisk, WriteCID, FileFails, SnapSaveSucceeds, SnapSaveFails,
             SnapResumeSucceeds, SnapResumeFails, RemoveSnapshot, RemoveSnapshotFails,
             LockedCallSucceeds, LockedCallFails, BootFails, Goto
    <3>3. pc[o] \in {"boot", "pause", "resume"} => outcome[o] = "none"
      BY DEF Core, Undecided
    <3> QED BY <1>1, <2>1, <2>3, <3>1, <3>2, <3>3 DEF Unanswered, Moved
  <2> QED BY <2>2, <2>3
<1> QED BY <1>1, <1>2 DEF Good, Moved

(* The steps that leave v good are those of boot, pause and resume that    *)
(* end with an answer.                                                     *)
LEMMA GoodSteps ==
  ASSUME Core, LateCalls, NEW o \in Ops, Arrive(o) \/ Work(o), Good(vmOf(o))'
  PROVE  /\ job[o].kind \in {"start", "pause", "resume"}
         /\ \/ Register(o) \/ FindToLock(o) \/ Acquire(o)
            \/ LockedCallSucceeds(o)
            \/ LockedCallFails(o) /\ answer[o] = "refused"
<1>1. Moved(o) /\ LateCalls'
  BY OpMoves, OpKeepsLateCalls
<1>2. o \in On(vmOf(o))'
  BY <1>1 DEF On, Moved, vmOf, Core, TypeOK
<1>3. job[o].kind \in {"start", "pause", "resume"} /\ ~Unanswered(o)'
  BY <1>1, <1>2 DEF Good, Moved, LockedCall
<1>4. pc[o] \in {"start", "acquire", "boot", "pause", "resume", "undo"}
      /\ (pc[o] = "boot" => job[o].kind = "start")
      /\ (pc[o] \in {"pause", "resume"} => job[o].kind # "start")
      /\ outcome \in [Ops -> Hows \cup {"none", "ok", "notFound", "exists",
                                        "ioError", "unremoved"}]
  BY <1>1, <1>3 DEF Core, TypeOK, InPlace, PlacesOf, CallsOf, Moved
<1>5. ~UndoEnds(o)
  <2>1. pc[o] = "undo" => Unanswered(o)
    BY DEF LateCalls
  <2> QED BY <1>1, <1>3, <2>1 DEF UndoEnds, Unanswered, Moved
<1>6. ~BootFails(o)
  BY <1>1, <1>3, <1>4 DEF BootFails, Unanswered, Hows, Moved
<1>7. ~NotFound(o)
  BY <1>1, <1>3, <1>4 DEF NotFound, Ends, Unanswered, Moved
<1>8. LockedCallFails(o) => answer[o] = "refused"
  BY <1>1, <1>3, <1>4 DEF LockedCallFails, Failed, Ends, Unanswered, Moved
<1> QED
  BY <1>3, <1>4, <1>5, <1>6, <1>7, <1>8
     DEF Arrive, Work, FindToStop, Found, FindToSnapshot, StopSucceeds,
         StopFails, Stat, MkdirAll, MkdirAllFails, SnapPauseSucceeds,
         SnapPauseFails, CopyDisk, WriteCID, FileFails, SnapSaveSucceeds,
         SnapSaveFails, SnapResumeSucceeds, SnapResumeFails, RemoveSnapshot, RemoveSnapshotFails,
         Goto

(* What the steps of o mean for the VMs of others: nothing. *)
LEMMA OtherVMsTruth ==
  ASSUME Core, Truth, NEW o \in Ops, Moved(o), Listed(o), LockMoved(o),
         NEW v \in registered', v # vmOf(o), Good(v)
  PROVE  TruthOf(v)'
<1>1. v \in registered /\ v \in VMs
  BY DEF Listed, Core, TypeOK
<1>2. TruthOf(v)
  BY <1>1 DEF Truth
<1>3. lock'[v] = lock[v] /\ status'[v] = status[v] /\ vmm' = vmm
  BY <1>1 DEF LockMoved, Moved, Core, TypeOK
<1>4. Unbooted(v)' <=> Unbooted(v)
  BY DEF Unbooted, Moved, vmOf, Core, TypeOK
<1>5. lock[v] # None => lock[v] \in Ops /\ lock[v] # o
  BY <1>1 DEF Core, TypeOK, LocksOK
<1>6. Pending(v)' <=> Pending(v)
  BY <1>3, <1>5 DEF Pending, Moved, Core, TypeOK
<1>7. lock[v] # None => pc'[lock[v]] = pc[lock[v]]
  BY <1>5 DEF Moved, Core, TypeOK
<1> QED BY <1>2, <1>3, <1>4, <1>6, <1>7 DEF TruthOf, Pending

(* A step of a request keeps the truth. *)
LEMMA OpKeepsTruth ==
  ASSUME Core, LateCalls, Truth, NEW o \in Ops, Arrive(o) \/ Work(o)
  PROVE  Truth'
<1>1. Moved(o) /\ Listed(o) /\ LockMoved(o) /\ Core'
  BY OpMoves, OpKeepsCore
<1>2. ASSUME NEW v \in VMs, v = vmOf(o), v \in registered', Good(v)'
      PROVE  TruthOf(v)'
  <2>0. v \in VMs /\ v = vmOf(o) /\ Good(v) /\ job \in [Ops -> Jobs]
    BY <1>2, GoodBefore DEF Core, TypeOK
  <2>1. /\ job[o].kind \in {"start", "pause", "resume"}
        /\ \/ Register(o) \/ FindToLock(o) \/ Acquire(o)
           \/ LockedCallSucceeds(o)
           \/ LockedCallFails(o) /\ answer[o] = "refused"
    <3>1. Good(vmOf(o))'
      BY <1>1, <1>2 DEF Moved, vmOf
    <3> QED BY <3>1, GoodSteps
  <2>2. \A q \in Ops : job[q].kind = "start" /\ vmOf(q) = v /\ job[o].kind = "start"
                         => q = o
    BY <1>2, AssignmentsAssumption DEF Core, vmOf
  <2>3. CASE Register(o)
    <3>1. /\ pc[o] = "start" /\ job[o].kind = "start" /\ pc'[o] = "acquire"
          /\ status'[v] = "RUNNING" /\ lock' = lock
      BY <2>0, <2>3 DEF Register, Goto, SetStatus, Core, TypeOK
    <3>2. v \notin registered
      BY <2>0, <2>2, <3>1 DEF Core
    <3>3. lock[v] = None
      BY <2>0, <3>2 DEF Core, TypeOK, LocksOK, Locking
    <3>4. vmm'[v] = "created"
      BY <1>1, <1>2, <2>0, <3>2 DEF Good, Core, Moved
    <3>5. Unbooted(v)'
      BY <1>1, <2>0, <3>1 DEF Unbooted, Moved, vmOf
    <3> QED BY <3>1, <3>3, <3>4, <3>5 DEF TruthOf, Pending
  <2>4. CASE FindToLock(o)
    <3>1. v \in registered
      BY <2>0, <2>4 DEF FindToLock, Found
    <3>2. TruthOf(v)
      BY <2>0, <3>1 DEF Truth
    <3>3. /\ pc[o] = "start" /\ pc' = [pc EXCEPT ![o] = "acquire"]
          /\ job[o].kind # "start"
          /\ UNCHANGED <<lock, status, vmm, answer, job>>
      BY <2>4 DEF FindToLock, Found, Goto, control, machine
    <3>4. Unbooted(v)' <=> Unbooted(v)
      BY <3>3 DEF Unbooted, vmOf, Core, TypeOK
    <3>5. lock[v] # None => pc'[lock[v]] = pc[lock[v]]
      BY <2>0, <3>3 DEF Core, TypeOK, LocksOK, Locking
    <3> QED BY <3>2, <3>3, <3>4, <3>5 DEF TruthOf, Pending
  <2>5. CASE Acquire(o)
    <3>1. v \in registered /\ TruthOf(v)
      BY <2>0, <2>5 DEF Truth, Core, Acquire
    <3>2. /\ pc[o] = "acquire" /\ lock[v] = None /\ lock'[v] = o
          /\ pc' = [pc EXCEPT ![o] = pc'[o]] /\ answer' = [answer EXCEPT ![o] = "none"]
          /\ pc'[o] = LockedCall[job[o].kind]
          /\ UNCHANGED <<status, vmm, job>>
      BY <1>1, <2>0, <2>1, <2>5
         DEF Acquire, Send, SendAmong, Goto, machine, Core, TypeOK
    <3>3. Unbooted(v)' <=> Unbooted(v)
      BY <2>1, <2>2, <3>2 DEF Unbooted, vmOf, Core, TypeOK, LockedCall
    <3>4. ~Pending(v) /\ ~Pending(v)'
      BY <3>2 DEF Pending, Core, TypeOK
    <3> QED BY <3>1, <3>2, <3>3, <3>4 DEF TruthOf
  <2>6. CASE LockedCallSucceeds(o)
    <3>1. /\ pc[o] \in {"boot", "pause", "resume"} /\ answer[o] = "ok"
          /\ lock'[v] = None /\ status'[v] = StatusAfter[pc[o]]
          /\ pc' = [pc EXCEPT ![o] = "done"]
          /\ UNCHANGED <<vmm, job, answer>>
      BY <2>0, <2>6 DEF LockedCallSucceeds, Succeeded, SetStatus, Unlock, Ends,
                        Goto, machine, Core, TypeOK
    <3>2. lock[v] = o /\ v \in registered
      BY <2>0, <3>1 DEF Core, TypeOK, LocksOK, Locking
    <3>3. Pending(v) /\ TruthOf(v)
      BY <2>0, <3>1, <3>2, NoneAssumption DEF Pending, Truth
    <3>4. ~Unbooted(v) /\ vmm[v] = To[Request[pc[o]]]
      BY <3>2, <3>3 DEF TruthOf
    <3>5. ~Unbooted(v)'
      BY <3>1, <3>4 DEF Unbooted, vmOf, Core, TypeOK
    <3>6. ~Pending(v)'
      BY <3>1 DEF Pending
    <3> QED
      BY <3>1, <3>4, <3>5, <3>6 DEF TruthOf, StatusAfter, To, Request
  <2>7. CASE LockedCallFails(o) /\ answer[o] = "refused"
    <3>1. /\ pc[o] \in {"pause", "resume"}
          /\ lock'[v] = None /\ pc' = [pc EXCEPT ![o] = "done"]
          /\ UNCHANGED <<vmm, job, answer, status>>
      BY <2>0, <2>7 DEF LockedCallFails, Unlock, Ends, Goto, machine, Core, TypeOK
    <3>2. lock[v] = o /\ v \in registered
      BY <2>0, <3>1 DEF Core, TypeOK, LocksOK, Locking
    <3>3. ~Pending(v) /\ TruthOf(v)
      BY <2>0, <2>7, <3>2 DEF Pending, Truth
    <3>4. Unbooted(v)' <=> Unbooted(v)
      BY <3>1 DEF Unbooted, vmOf, Core, TypeOK
    <3>5. ~Pending(v)'
      BY <3>1 DEF Pending
    <3> QED BY <3>1, <3>3, <3>4, <3>5 DEF TruthOf
  <2> QED BY <2>1, <2>3, <2>4, <2>5, <2>6, <2>7
<1>3. ASSUME NEW w \in registered', Good(w)' PROVE TruthOf(w)'
  <2>1. w \in VMs
    BY <1>1 DEF Core, TypeOK
  <2>2. CASE w = vmOf(o)
    BY <1>2, <1>3, <2>1, <2>2
  <2>3. CASE w # vmOf(o)
    BY <1>1, <1>3, <2>1, <2>3, GoodBefore, OtherVMsTruth
  <2> QED BY <2>2, <2>3
<1> QED BY <1>3 DEF Truth

(* A call the VMM handles on a good VM is the one the lock is held for. *)
LEMMA VMMKeepsTruth ==
  ASSUME Core, LateCalls, Truth,
         \/ \E o \in Ops, call \in Calls : Accept(o, call) \/ Refuse(o, call)
         \/ \E v \in VMs : VMMExits(v)
  PROVE  Truth' /\ LateCalls'
<1>1. ASSUME NEW o \in Ops, NEW call \in Calls,
             Accept(o, call) \/ Refuse(o, call)
      PROVE  Truth' /\ LateCalls'
  <2>0. /\ <<o, call>> \in inFlight /\ vmm[vmOf(o)] # "dead"
        /\ inFlight' = inFlight \ {<<o, call>>}
        /\ UNCHANGED <<job, registered, lock, status, pc, outcome>>
        /\ vmOf(o) \in VMs
        /\ \A v \in VMs \ {vmOf(o)} : vmm'[v] = vmm[v]
    BY <1>1 DEF Accept, Refuse, Handled, control, machine, Core, TypeOK, Jobs,
                vmOf
  <2>1. LateCalls'
    BY <2>0 DEF LateCalls, Unanswered
  <2>2. \A v \in VMs : Good(v)' => Good(v)
    BY <1>1, <2>0 DEF Good, On, vmOf, Unanswered, Accept, Refuse, machine
  <2>3. ASSUME NEW v \in VMs, v # vmOf(o), v \in registered, Good(v)'
        PROVE  TruthOf(v)'
    <3>1. TruthOf(v)
      BY <2>2, <2>3 DEF Truth
    <3>2. \A q \in Ops : vmOf(q) = v => answer'[q] = answer[q]
      BY <1>1, <2>3 DEF Accept, Refuse, Handled, Core, TypeOK
    <3>3. Unbooted(v)' <=> Unbooted(v)
      BY <2>0, <3>2 DEF Unbooted, vmOf
    <3>4. Pending(v)' <=> Pending(v)
      BY <2>0, <3>2 DEF Pending, Core, TypeOK, LocksOK
    <3> QED BY <2>0, <2>3, <3>1, <3>3, <3>4 DEF TruthOf
  <2>4. ASSUME NEW v \in VMs, v = vmOf(o), v \in registered, Good(v)'
        PROVE  TruthOf(v)'
    <3>1. TruthOf(v) /\ Good(v)
      BY <2>2, <2>4 DEF Truth
    <3>2. /\ call \in CallsOf[job[o].kind] /\ pc[o] \in After[call]
          /\ pc[o] = call => answer[o] = "none"
      BY <2>0 DEF Core, InFlightOK
    <3>3. pc[o] # "start"
      BY <3>2 DEF After, Calls, Request
    <3>4. job[o].kind \in {"start", "pause", "resume"} /\ ~Unanswered(o)
      BY <2>4, <3>1, <3>3 DEF Good, On, LockedCall
    <3>5. /\ call \in {"boot", "pause", "resume"} /\ pc[o] = call
          /\ call = "boot" <=> job[o].kind = "start"
      <4>1. /\ call \in {"boot", "undo", "pause", "resume"}
            /\ call \in {"boot", "undo"} <=> job[o].kind = "start"
        BY <3>2, <3>4 DEF CallsOf
      <4>2. call # "undo" /\ pc[o] = call
        BY <2>0, <3>4, <4>1 DEF LateCalls
      <4> QED BY <4>1, <4>2
    <3>6. lock[v] = o /\ answer[o] = "none" /\ ~Pending(v) /\ o # None
      BY <2>4, <3>2, <3>5, NoneAssumption DEF Core, LocksOK, Locking, Pending
    <3>7. \A q \in Ops : job[q].kind = "start" /\ vmOf(q) = v /\ call = "boot"
                           => q = o
      BY <2>4, <3>5, AssignmentsAssumption DEF Core, vmOf
    <3>8. CASE Accept(o, call)
      <4>1. /\ vmm'[v] = To[Request[call]] /\ vmm[v] \in From[Request[call]]
            /\ answer' = [answer EXCEPT ![o] = "ok"]
        BY <2>4, <3>5, <3>8 DEF Accept, Handled, Core, TypeOK
      <4>2. ~Unbooted(v)'
        <5>1. CASE call = "boot"
          BY <2>0, <3>5, <3>7, <4>1, <5>1 DEF Unbooted, vmOf, Core, TypeOK
        <5>2. CASE call # "boot"
          <6>1. vmm[v] # "created"
            BY <3>5, <4>1, <5>2 DEF From, Request
          <6>2. ~Unbooted(v)
            BY <3>1, <6>1 DEF TruthOf
          <6> QED BY <2>0, <3>5, <4>1, <5>2, <6>2 DEF Unbooted, vmOf, Core, TypeOK
        <5> QED BY <5>1, <5>2
      <4>3. Pending(v)'
        BY <2>0, <3>6, <4>1 DEF Pending, Core, TypeOK
      <4> QED BY <2>0, <3>5, <3>6, <4>1, <4>2, <4>3 DEF TruthOf
    <3>9. CASE Refuse(o, call)
      <4>1. vmm' = vmm /\ answer' = [answer EXCEPT ![o] = "refused"]
        BY <3>5, <3>9 DEF Refuse, Handled, machine
      <4>2. Unbooted(v)' <=> Unbooted(v)
        BY <2>0, <3>5, <3>6, <4>1 DEF Unbooted, vmOf, Core, TypeOK
      <4>3. ~Pending(v)'
        BY <2>0, <3>6, <4>1 DEF Pending, Core, TypeOK
      <4> QED BY <2>0, <3>1, <3>6, <4>1, <4>2, <4>3 DEF TruthOf
    <3> QED BY <1>1, <3>8, <3>9
  <2> QED BY <2>0, <2>1, <2>3, <2>4 DEF Truth, Core, TypeOK
<1>2. ASSUME NEW v \in VMs, VMMExits(v)
      PROVE  Truth' /\ LateCalls'
  <2>1. /\ inFlight' \subseteq inFlight /\ vmm' = [vmm EXCEPT ![v] = "dead"]
        /\ UNCHANGED <<job, registered, lock, status, pc, outcome, answer>>
    BY <1>2 DEF VMMExits, control
  <2>2. LateCalls'
    BY <2>1 DEF LateCalls, Unanswered
  <2>3. ASSUME NEW w \in registered, Good(w)'
        PROVE  TruthOf(w)'
    <3>1. w # v /\ vmm'[w] = vmm[w] /\ Good(w)
      BY <2>1, <2>3 DEF Good, On, vmOf, Unanswered, Core, TypeOK
    <3> QED BY <2>1, <3>1 DEF Truth, TruthOf, Unbooted, Pending, vmOf
  <2> QED BY <2>1, <2>2, <2>3 DEF Truth
<1> QED BY <1>1, <1>2

CoreInv == Core /\ LateCalls /\ Truth

LEMMA NextKeepsTruth == CoreInv /\ [Next]_vars => CoreInv'
<1> SUFFICES ASSUME CoreInv, [Next]_vars PROVE CoreInv'
  OBVIOUS
<1>1. CASE Next
  BY <1>1, NextKeepsCore, OpKeepsLateCalls, OpKeepsTruth, VMMKeepsTruth
     DEF Next, CoreInv
<1>2. CASE UNCHANGED vars
  <2>1. LateCalls'
    BY <1>2 DEF CoreInv, LateCalls, Unanswered, vars, control
  <2>2. Truth'
    BY <1>2 DEF CoreInv, Truth, TruthOf, Good, On, Unanswered, Unbooted,
                Pending, vmOf, vars, control, machine
  <2> QED BY <2>1, <2>2, NextKeepsCore DEF CoreInv
<1> QED BY <1>1, <1>2

THEOREM CoreAlways == Spec => []CoreInv
<1>1. Init => CoreInv
  BY InitCore DEF Init, CoreInv, LateCalls, Truth
<1> QED BY <1>1, NextKeepsTruth, PTL DEF Spec

(* Every reachable state is a state of the right shape. *)
THEOREM TypeCorrect == Spec => []TypeOK
BY CoreAlways, PTL DEF CoreInv, Core

(* vm.status is the state of the VMM whenever only boot, pause and resume  *)
(* were called and all were answered, whatever their interleaving.         *)
THEOREM StatusAlwaysTruthful == Spec => []StatusTruthful
<1>1. CoreInv => StatusTruthful
  <2> SUFFICES ASSUME CoreInv, NEW v \in registered, vmm[v] # "dead",
                      \A o \in On(v) :
                        /\ job[o].kind \in DOMAIN LockedCall
                        /\ pc[o] = "done"
                        /\ outcome[o] \in IF job[o].kind = "start"
                                            THEN {"ok"} ELSE {"ok", "refused"}
               PROVE  /\ status[v] = "RUNNING" <=> vmm[v] = "running"
                      /\ status[v] = "PAUSED" <=> vmm[v] = "paused"
    BY DEF StatusTruthful
  <2>1. Good(v) /\ v \in VMs
    BY DEF Good, Unanswered, CoreInv, Core, TypeOK
  <2>2. ~Unbooted(v)
    BY DEF Unbooted, On
  <2>3. ~Pending(v)
    <3>1. lock[v] # None => lock[v] \in On(v) /\ pc[lock[v]] # "done"
      BY <2>1 DEF CoreInv, Core, TypeOK, LocksOK, On, Locking
    <3> QED BY <3>1 DEF Pending
  <2> QED BY <2>1, <2>2, <2>3 DEF CoreInv, Truth, TruthOf
<1> QED BY <1>1, CoreAlways, PTL

-----------------------------------------------------------------------------
(* Snapshots *)

(* The steps of a SnapshotVM. *)
LEMMA SnapshotSteps ==
  ASSUME Core, NEW o \in Ops, Arrive(o) \/ Work(o), job[o].kind = "snapshot"
  PROVE  \/ NotFound(o) \/ FindToSnapshot(o) \/ Stat(o)
         \/ MkdirAll(o) \/ MkdirAllFails(o)
         \/ SnapPauseSucceeds(o) \/ SnapPauseFails(o)
         \/ CopyDisk(o) \/ WriteCID(o) \/ FileFails(o)
         \/ SnapSaveSucceeds(o) \/ SnapSaveFails(o)
         \/ SnapResumeSucceeds(o) \/ SnapResumeFails(o)
         \/ RemoveSnapshot(o) \/ RemoveSnapshotFails(o)
BY DEF Core, InPlace, PlacesOf, CallsOf, Arrive, Work, Register, FindToLock,
       FindToStop, Found, Acquire, LockedCallSucceeds, LockedCallFails,
       BootFails, UndoEnds, StopSucceeds, StopFails

(* Each of them leaves in its directory what its new place says. *)
LEMMA OwnContents ==
  ASSUME Core, NEW o \in Ops, Arrive(o) \/ Work(o),
         job[o].kind = "snapshot", ContentsOf(o)
  PROVE  ContentsOf(o)'
<1>0. /\ idOf(o) \in SnapshotIds /\ vmOf(o) \in VMs
      /\ pc[o] \in Undecided => outcome[o] = "none"
      /\ pc[o] \in {"start", "done"} \cup PlacesOf["snapshot"] \cup CallsOf["snapshot"]
      /\ TypeOK /\ Moved(o)
      /\ idOf(o)' = idOf(o) /\ vmOf(o)' = vmOf(o)
  BY OpMoves DEF Core, TypeOK, Jobs, idOf, vmOf, InPlace, Moved
<1> USE NoneAssumption, <1>0
    DEF TypeOK, ContentsOf, Before, Gone, DiskOf, MemOf, Goto, Ends, Undecided,
        PlacesOf, CallsOf, Hows, Send, SendAmong, Succeeded, machine, control
<1>1. CASE NotFound(o)
  BY <1>1 DEF NotFound
<1>2. CASE FindToSnapshot(o)
  BY <1>2 DEF FindToSnapshot, Found
<1>3. CASE Stat(o)
  BY <1>3 DEF Stat
<1>4. CASE MkdirAll(o)
  BY <1>4 DEF MkdirAll, EmptyDir, Dirs
<1>5. CASE MkdirAllFails(o)
  BY <1>5 DEF MkdirAllFails
<1>6. CASE SnapPauseSucceeds(o)
  BY <1>6 DEF SnapPauseSucceeds
<1>7. CASE SnapPauseFails(o)
  BY <1>7 DEF SnapPauseFails
<1>8. CASE CopyDisk(o)
  BY <1>8 DEF CopyDisk, Contents, Moments, Dirs
<1>9. CASE WriteCID(o)
  BY <1>9 DEF WriteCID, Dirs
<1>10. CASE FileFails(o)
  BY <1>10 DEF FileFails
<1>11. CASE SnapSaveSucceeds(o)
  BY <1>11 DEF SnapSaveSucceeds
<1>12. CASE SnapSaveFails(o)
  BY <1>12 DEF SnapSaveFails
<1>13. CASE SnapResumeSucceeds(o)
  BY <1>13 DEF SnapResumeSucceeds, AfterResume
<1>14. CASE SnapResumeFails(o)
  BY <1>14 DEF SnapResumeFails, AfterResume
<1>15. CASE RemoveSnapshot(o)
  BY <1>15 DEF RemoveSnapshot
<1>16. CASE RemoveSnapshotFails(o)
  <2>1. EmptyDir # None
    BY DEF EmptyDir, Dirs
  <2>2. snaps'[idOf(o)] # None /\ pc'[o] = "done" /\ outcome'[o] = "unremoved"
    BY <1>16, <2>1 DEF RemoveSnapshotFails
  <2>3. ~Gone(o)' /\ ~Before(o)'
    BY <2>2
  <2> QED BY <2>2, <2>3
<1> QED
  BY <1>1, <1>2, <1>3, <1>4, <1>5, <1>6, <1>7, <1>8, <1>9, <1>10,
     <1>11, <1>12, <1>13, <1>14, <1>15, <1>16, SnapshotSteps

(* The steps of the others leave it alone if nobody else uses its id. *)
LEMMA OpKeepsContents ==
  ASSUME Core, ContentsOK, NEW o \in Ops, Arrive(o) \/ Work(o)
  PROVE  ContentsOK'
<1>1. Moved(o) /\ TypeOK
  BY OpMoves DEF Core
<1>2. ASSUME NEW q \in Ops, job[q].kind = "snapshot", OnlyUser(q)
      PROVE  ContentsOf(q)'
  <2>1. ContentsOf(q)
    BY <1>2 DEF ContentsOK
  <2>2. CASE q = o
    BY <1>2, <2>1, <2>2, OwnContents
  <2>3. CASE q # o
    <3>1. idOf(q) \in SnapshotIds /\ (job[o].kind = "snapshot" => idOf(q) # idOf(o))
      BY <1>1, <1>2, <2>3 DEF OnlyUser, TypeOK, Jobs, idOf
    <3>2. /\ pc'[q] = pc[q] /\ outcome'[q] = outcome[q] /\ answer'[q] = answer[q]
          /\ snaps'[idOf(q)] = snaps[idOf(q)] /\ job' = job
      BY <1>1, <2>3, <3>1 DEF TypeOK, Moved
    <3> QED BY <2>1, <3>2 DEF ContentsOf, Before, Gone, DiskOf, MemOf, idOf, vmOf
  <2> QED BY <2>2, <2>3
<1> QED BY <1>1, <1>2 DEF ContentsOK, Moved, OnlyUser, idOf

(* What the VMM does to the snapshot of q, if only q has that id. *)
LEMMA VMMKeepsContents ==
  ASSUME Core, ContentsOK,
         \/ \E o \in Ops, call \in Calls : Accept(o, call) \/ Refuse(o, call)
         \/ \E v \in VMs : VMMExits(v)
  PROVE  ContentsOK'
<1>1. ASSUME NEW o \in Ops, NEW call \in Calls,
             Accept(o, call) \/ Refuse(o, call),
             NEW q \in Ops, job[q].kind = "snapshot", OnlyUser(q)
      PROVE  ContentsOf(q)'
  <2>1. /\ ContentsOf(q) /\ TypeOK /\ idOf(q) \in SnapshotIds
        /\ idOf(o) \in SnapshotIds /\ vmOf(o) \in VMs
        /\ <<o, call>> \in inFlight => call \in CallsOf[job[o].kind]
        /\ job[o].kind \in Kinds
    BY <1>1 DEF ContentsOK, Core, TypeOK, Jobs, idOf, vmOf, InFlightOK
  <2>2. /\ UNCHANGED <<pc, outcome, job>> /\ <<o, call>> \in inFlight
        /\ answer'[q] = answer[q] \/ (q = o /\ pc[q] = call)
    BY <1>1, <2>1 DEF Accept, Refuse, Handled, control, TypeOK
  <2>3. CASE snaps'[idOf(q)] = snaps[idOf(q)] /\ answer'[q] = answer[q]
    BY <2>1, <2>2, <2>3 DEF ContentsOf, Before, Gone, DiskOf, MemOf, idOf, vmOf
  <2>4. CASE Refuse(o, call)
    <3>1. snaps' = snaps /\ answer'[q] \in {answer[q], "refused"}
      BY <2>1, <2>4 DEF Refuse, Handled, machine, TypeOK
    <3> QED
      BY <2>1, <2>2, <3>1 DEF ContentsOf, Before, Gone, DiskOf, MemOf, idOf, vmOf
  <2>5. CASE Accept(o, call) /\ call # "snapSave"
    <3>1. snaps' = snaps
      BY <2>5 DEF Accept, Request, Calls
    <3> QED
      BY <2>1, <2>2, <2>5, <3>1
         DEF ContentsOf, Before, Gone, DiskOf, MemOf, idOf, vmOf
  <2>6. CASE Accept(o, call) /\ call = "snapSave"
    <3>1. job[o].kind = "snapshot"
      BY <2>1, <2>2, <2>6 DEF CallsOf, Kinds
    <3>2. /\ snaps[idOf(o)] # None
          /\ snaps' = [snaps EXCEPT ![idOf(o)].mem = Contents(vmOf(o))]
      BY <2>6 DEF Accept, Request
    <3>3. CASE q # o
      <4>1. snaps'[idOf(q)] = snaps[idOf(q)] /\ answer'[q] = answer[q]
        BY <1>1, <2>1, <2>2, <3>1, <3>2, <3>3 DEF OnlyUser, TypeOK
      <4> QED BY <2>3, <4>1
    <3>4. CASE q = o
      <4>1. /\ snaps[idOf(q)] \in Dirs /\ snaps'[idOf(q)] \in Dirs
            /\ snaps'[idOf(q)].disk = snaps[idOf(q)].disk
            /\ snaps'[idOf(q)].cid = snaps[idOf(q)].cid
            /\ snaps'[idOf(q)].mem = Contents(vmOf(q))
        BY <2>1, <3>2, <3>4 DEF TypeOK, Dirs, Contents, Moments
      <4>2. Contents(vmOf(q)) # None /\ Contents(vmOf(q)).vm = vmOf(q)
        BY <2>1, <3>4, NoneAssumption DEF Contents, Moments, TypeOK
      <4> QED
        BY <2>1, <2>2, <3>2, <3>4, <4>1, <4>2, NoneAssumption
           DEF ContentsOf, Before, Gone, DiskOf, MemOf, idOf, vmOf
    <3> QED BY <3>3, <3>4
  <2> QED BY <1>1, <2>4, <2>5, <2>6
<1>2. ASSUME NEW v \in VMs, VMMExits(v)
      PROVE  ContentsOK'
  BY <1>2 DEF VMMExits, control, ContentsOK, ContentsOf, Before, Gone, DiskOf,
              MemOf, idOf, vmOf, OnlyUser
<1>3. ASSUME NEW o \in Ops, NEW call \in Calls,
             Accept(o, call) \/ Refuse(o, call)
      PROVE  ContentsOK'
  <2>1. job' = job
    BY <1>3 DEF Accept, Refuse, Handled, control
  <2> QED BY <1>1, <1>3, <2>1 DEF ContentsOK, OnlyUser, idOf
<1> QED BY <1>2, <1>3

-----------------------------------------------------------------------------
(* A handler's step gives nobody a new way to make a guest run. *)
LEMMA OpKeepsStillness ==
  ASSUME Core, Stillness, NEW o \in Ops, Arrive(o) \/ Work(o)
  PROVE  Stillness'
<1>1. Moved(o) /\ Sent(o) /\ TypeOK
  BY OpMoves DEF Core
<1>2. \A q \in Ops : MayBoot(q)' => MayBoot(q)
  <2>1. ASSUME NEW q \in Ops, q # o, MayBoot(q)' PROVE MayBoot(q)
    BY <1>1, <2>1 DEF MayBoot, Moved, Sent, TypeOK, Calls, Request
  <2>2. ASSUME MayBoot(o)' PROVE MayBoot(o)
    <3>1. CASE pc[o] \in {"start", "acquire"}
      BY <1>1, <2>2, <3>1 DEF MayBoot, Moved
    <3>2. CASE pc[o] \notin {"start", "acquire"}
      <4>1. pc'[o] \notin {"start", "acquire", "boot"}
        BY <1>1, <2>2, <3>2
           DEF Core, InPlace, MayBoot, Moved, PlacesOf, CallsOf, After, Calls,
               Request
      <4> QED BY <1>1, <2>2, <4>1 DEF MayBoot, Moved, Sent, Calls, Request
    <3> QED BY <3>1, <3>2
  <2> QED BY <2>1, <2>2
<1>3. \A q \in Ops : MayResume(q)' => MayResume(q)
  <2>1. ASSUME NEW q \in Ops, q # o, MayResume(q)' PROVE MayResume(q)
    BY <1>1, <2>1 DEF MayResume, Moved, Sent, TypeOK, Calls, Request
  <2>2. ASSUME MayResume(o)' PROVE MayResume(o)
    <3>1. job[o].kind = "snapshot"
      BY <1>1, <2>2 DEF MayResume, Moved
    <3>2. ASSUME NotFound(o) \/ FindToSnapshot(o) \/ Stat(o) \/ MkdirAllFails(o)
                   \/ RemoveSnapshot(o) \/ RemoveSnapshotFails(o)
          PROVE  MayResume(o)
      BY <1>1, <2>2, <3>1, <3>2
         DEF MayResume, TypeOK, Goto, Ends, NotFound, FindToSnapshot, Found, Stat,
             MkdirAllFails, RemoveSnapshot, RemoveSnapshotFails
    <3>3. ASSUME MkdirAll(o) PROVE MayResume(o)
      BY <1>1, <2>2, <3>1, <3>3
         DEF MayResume, TypeOK, Goto, MkdirAll, Send, SendAmong
    <3>4. ASSUME SnapPauseSucceeds(o) PROVE MayResume(o)
      BY <3>1, <3>4 DEF MayResume, SnapPauseSucceeds, Succeeded
    <3>5. ASSUME SnapPauseFails(o) \/ SnapResumeSucceeds(o) \/ SnapResumeFails(o)
          PROVE  MayResume(o)
      BY <1>1, <2>2, <3>1, <3>5
         DEF MayResume, TypeOK, Goto, Failed, AfterResume, SnapPauseFails,
             SnapResumeSucceeds, SnapResumeFails
    <3>6. ASSUME CopyDisk(o) \/ WriteCID(o) \/ FileFails(o) \/ SnapSaveSucceeds(o)
                   \/ SnapSaveFails(o)
          PROVE  MayResume(o)
      BY <3>1, <3>6
         DEF MayResume, CopyDisk, WriteCID, FileFails, SnapSaveSucceeds,
             SnapSaveFails
    <3> QED BY <3>1, <3>2, <3>3, <3>4, <3>5, <3>6, SnapshotSteps
  <2> QED BY <2>1, <2>2
<1>4. \A v \in VMs : NoResumeOf(v)' => NoResumeOf(v)
  BY <1>1 DEF NoResumeOf, On, vmOf, Moved, TypeOK
<1> QED BY <1>1, <1>2, <1>3, <1>4 DEF Stillness, Moved, vmOf

(* A VMM that runs a guest has no way left that can make it run again, and *)
(* the one there is goes when it is taken.                                 *)
LEMMA VMMKeepsStillness ==
  ASSUME Core, Stillness,
         \/ \E o \in Ops, call \in Calls : Accept(o, call) \/ Refuse(o, call)
         \/ \E v \in VMs : VMMExits(v)
  PROVE  Stillness'
<1>1. ASSUME NEW o \in Ops, NEW call \in Calls, Refuse(o, call)
      PROVE  Stillness'
  <2>1. /\ UNCHANGED <<job, pc, vmm>> /\ inFlight' \subseteq inFlight
        /\ \A q \in Ops : answer'[q] \in {answer[q], "refused"}
    BY <1>1 DEF Refuse, Handled, machine, control, Core, TypeOK
  <2>2. \A q \in Ops : /\ MayBoot(q)' => MayBoot(q)
                       /\ MayResume(q)' => MayResume(q)
    BY <2>1 DEF MayBoot, MayResume
  <2> QED BY <2>1, <2>2 DEF Stillness, NoResumeOf, On, vmOf
<1>2. ASSUME NEW o \in Ops, NEW call \in Calls, Accept(o, call)
      PROVE  Stillness'
  <2>0. /\ <<o, call>> \in inFlight /\ call \in CallsOf[job[o].kind]
        /\ pc[o] \in After[call] /\ job[o].kind \in Kinds
        /\ UNCHANGED <<job, pc>> /\ inFlight' = inFlight \ {<<o, call>>}
        /\ answer' = IF pc[o] = call THEN [answer EXCEPT ![o] = "ok"] ELSE answer
        /\ vmm[vmOf(o)] \in From[Request[call]]
        /\ vmm' = [vmm EXCEPT ![vmOf(o)] = To[Request[call]]]
        /\ \A q \in Ops : vmOf(q) \in VMs
        /\ vmm \in [VMs -> {"created", "running", "paused", "dead"}]
        /\ answer \in [Ops -> {"none", "ok", "refused"}]
    BY <1>2 DEF Accept, Handled, control, Core, TypeOK, InFlightOK, Jobs, vmOf
  <2>1. \A q \in Ops : /\ MayBoot(q)' => MayBoot(q)
                       /\ MayResume(q)' => MayResume(q) \/ (q = o /\ call = "snapPause")
    BY <2>0 DEF MayBoot, MayResume
  <2>2. /\ call = "boot" => MayBoot(o) /\ ~MayBoot(o)' /\ ~MayResume(o)'
        /\ call = "snapResume" => MayResume(o) /\ ~MayBoot(o)' /\ ~MayResume(o)'
        /\ call = "resume" => o \in On(vmOf(o)) /\ job[o].kind = "resume"
    BY <2>0 DEF MayBoot, MayResume, On, CallsOf, After, Kinds, Calls, Request
  <2>3. /\ call \notin {"boot", "resume", "snapResume"} => To[Request[call]] # "running"
        /\ call = "snapPause" => vmm[vmOf(o)] = "running"
    BY <2>0 DEF To, From, Calls, Request
  <2>4. ASSUME NEW v \in VMs, NoResumeOf(v)'
        PROVE  /\ \A p, q \in Ops : /\ MayResume(p)' \/ MayBoot(p)'
                                    /\ MayResume(q)' \/ MayBoot(q)'
                                    /\ vmOf(p) = v /\ vmOf(q) = v
                                    => p = q
               /\ vmm'[v] = "running" =>
                    \A p \in Ops : vmOf(p) = v => ~MayResume(p)' /\ ~MayBoot(p)'
    <3>1. NoResumeOf(v)
      BY <2>0, <2>4 DEF NoResumeOf, On, vmOf
    <3>2. /\ \A p, q \in Ops : /\ MayResume(p) \/ MayBoot(p)
                               /\ MayResume(q) \/ MayBoot(q)
                               /\ vmOf(p) = v /\ vmOf(q) = v
                               => p = q
          /\ vmm[v] = "running" =>
               \A p \in Ops : vmOf(p) = v => ~MayResume(p) /\ ~MayBoot(p)
      BY <3>1 DEF Stillness
    <3>3. CASE v # vmOf(o)
      BY <2>0, <2>1, <3>2, <3>3
    <3>4. CASE v = vmOf(o)
      <4>1. call # "resume"
        BY <2>2, <3>1, <3>4 DEF NoResumeOf
      <4>2. CASE call \in {"boot", "snapResume"}
        BY <2>1, <2>2, <3>2, <3>4, <4>2
      <4>3. CASE call \notin {"boot", "snapResume"}
        <5>1. vmm'[v] # "running"
          BY <2>0, <2>3, <3>4, <4>1, <4>3
        <5> QED BY <2>1, <2>3, <3>2, <3>4, <5>1
      <4> QED BY <4>2, <4>3
    <3> QED BY <3>3, <3>4
  <2> QED BY <2>0, <2>4 DEF Stillness, vmOf
<1>3. ASSUME NEW w \in VMs, VMMExits(w)
      PROVE  Stillness'
  <2>1. /\ UNCHANGED <<job, pc, answer>> /\ inFlight' \subseteq inFlight
        /\ \A v \in VMs : vmm'[v] = "running" => vmm[v] = "running"
    BY <1>3 DEF VMMExits, control, Core, TypeOK
  <2>2. \A q \in Ops : /\ MayBoot(q)' => MayBoot(q)
                       /\ MayResume(q)' => MayResume(q)
    BY <2>1 DEF MayBoot, MayResume
  <2> QED BY <2>1, <2>2 DEF Stillness, NoResumeOf, On, vmOf
<1> QED BY <1>1, <1>2, <1>3

(* The steps of a SnapshotVM itself. *)
LEMMA OwnMoment ==
  ASSUME Core, NEW o \in Ops, Arrive(o) \/ Work(o),
         job[o].kind = "snapshot", ContentsOf(o), MomentOf(o)
  PROVE  MomentOf(o)'
<1>0. /\ idOf(o) \in SnapshotIds /\ vmOf(o) \in VMs
      /\ pc[o] \in Undecided => outcome[o] = "none"
      /\ TypeOK
      /\ idOf(o)' = idOf(o) /\ vmOf(o)' = vmOf(o)
      /\ outcome[o] = "ok" => pc[o] \in {"snapResume", "done"}
      /\ Contents(vmOf(o))' = Contents(vmOf(o))
  BY OpMoves DEF Core, idOf, vmOf, Moved, ContentsOf, TypeOK, Jobs, Contents
<1> USE <1>0
    DEF TypeOK, MomentOf, Goto, Ends, Undecided, Hows, Send, SendAmong,
        Succeeded, machine, control
<1>1. CASE NotFound(o) \/ FindToSnapshot(o) \/ Stat(o) \/ MkdirAllFails(o)
  BY <1>1 DEF NotFound, FindToSnapshot, Found, Stat, MkdirAllFails
<1>2. CASE MkdirAll(o)
  BY <1>2 DEF MkdirAll
<1>3. CASE SnapPauseSucceeds(o) \/ SnapPauseFails(o)
  BY <1>3 DEF SnapPauseSucceeds, SnapPauseFails
<1>4. CASE CopyDisk(o)
  BY <1>4, NoneAssumption DEF CopyDisk, Dirs
<1>5. CASE WriteCID(o)
  BY <1>5, NoneAssumption DEF WriteCID, Dirs
<1>6. CASE FileFails(o)
  BY <1>6 DEF FileFails
<1>7. CASE SnapSaveSucceeds(o)
  BY <1>7 DEF SnapSaveSucceeds
<1>8. CASE SnapSaveFails(o)
  BY <1>8 DEF SnapSaveFails
<1>9. CASE SnapResumeSucceeds(o)
  BY <1>9 DEF SnapResumeSucceeds, AfterResume
<1>10. CASE SnapResumeFails(o)
  BY <1>10 DEF SnapResumeFails, AfterResume, Failed
<1>11. CASE RemoveSnapshot(o)
  BY <1>11 DEF RemoveSnapshot
<1>12. CASE RemoveSnapshotFails(o)
  BY <1>12 DEF RemoveSnapshotFails
<1> QED
  BY <1>1, <1>2, <1>3, <1>4, <1>5, <1>6, <1>7, <1>8, <1>9, <1>10, <1>11,
     <1>12, SnapshotSteps

LEMMA OpKeepsMoment ==
  ASSUME Core, ContentsOK, SameMoment, NEW o \in Ops, Arrive(o) \/ Work(o)
  PROVE  SameMoment'
<1>1. Moved(o) /\ Sent(o) /\ TypeOK
  BY OpMoves DEF Core
<1>2. ASSUME NEW q \in Ops, job[q].kind = "snapshot", OnlyUser(q),
             NoResumeOf(vmOf(q))'
      PROVE  MomentOf(q)'
  <2>0. NoResumeOf(vmOf(q))
    BY <1>1, <1>2 DEF NoResumeOf, On, vmOf, Moved, TypeOK
  <2>1. ContentsOf(q) /\ MomentOf(q)
    BY <1>2, <2>0 DEF ContentsOK, SameMoment
  <2>2. CASE q = o
    BY <1>2, <2>1, <2>2, OwnMoment
  <2>3. CASE q # o
    <3>1. idOf(q) \in SnapshotIds /\ (job[o].kind = "snapshot" => idOf(q) # idOf(o))
      BY <1>1, <1>2, <2>3 DEF OnlyUser, TypeOK, Jobs, idOf
    <3>2. /\ pc'[q] = pc[q] /\ outcome'[q] = outcome[q] /\ answer'[q] = answer[q]
          /\ snaps'[idOf(q)] = snaps[idOf(q)] /\ job' = job /\ tick' = tick
          /\ <<q, "snapSave">> \in inFlight' => <<q, "snapSave">> \in inFlight
      BY <1>1, <2>3, <3>1 DEF TypeOK, Moved, Sent, Calls, Request
    <3> QED BY <2>1, <3>2 DEF MomentOf, Contents, idOf, vmOf
  <2> QED BY <2>2, <2>3
<1> QED BY <1>1, <1>2 DEF SameMoment, Moved, OnlyUser, idOf, vmOf

(* Between the copy of the disk and the VMM's snapshot no guest starts. *)
LEMMA VMMKeepsMoment ==
  ASSUME Core, ContentsOK, Stillness, SameMoment,
         \/ \E o \in Ops, call \in Calls : Accept(o, call) \/ Refuse(o, call)
         \/ \E v \in VMs : VMMExits(v)
  PROVE  SameMoment'
<1>1. ASSUME NEW o \in Ops, NEW call \in Calls, Refuse(o, call)
      PROVE  SameMoment'
  <2>1. /\ UNCHANGED <<job, pc, outcome, tick, snaps>> /\ inFlight' \subseteq inFlight
        /\ \A q \in Ops : answer'[q] \in {answer[q], "refused"}
    BY <1>1 DEF Refuse, Handled, machine, control, Core, TypeOK
  <2> QED
    BY <2>1 DEF SameMoment, MomentOf, Contents, OnlyUser, NoResumeOf, On, vmOf, idOf
<1>2. ASSUME NEW w \in VMs, VMMExits(w)
      PROVE  SameMoment'
  <2>1. /\ UNCHANGED <<job, pc, outcome, tick, snaps, answer>>
        /\ inFlight' \subseteq inFlight
    BY <1>2 DEF VMMExits, control
  <2> QED
    BY <2>1 DEF SameMoment, MomentOf, Contents, OnlyUser, NoResumeOf, On, vmOf, idOf
<1>3. ASSUME NEW o \in Ops, NEW call \in Calls, Accept(o, call),
             NEW q \in Ops, job[q].kind = "snapshot", OnlyUser(q),
             NoResumeOf(vmOf(q))
      PROVE  MomentOf(q)'
  <2>a. /\ \A p \in Ops : vmOf(p) \in VMs /\ idOf(p) \in SnapshotIds
                                            /\ job[p].kind \in Kinds
        /\ answer \in [Ops -> {"none", "ok", "refused"}] /\ InFlightOK
    BY DEF Core, TypeOK, Jobs, vmOf, idOf
  <2>0. /\ <<o, call>> \in inFlight /\ call \in CallsOf[job[o].kind]
        /\ pc[o] \in After[call] /\ job[o].kind \in Kinds
        /\ UNCHANGED <<job, pc, outcome>> /\ inFlight' = inFlight \ {<<o, call>>}
        /\ answer' = IF pc[o] = call THEN [answer EXCEPT ![o] = "ok"] ELSE answer
        /\ vmm[vmOf(o)] \in From[Request[call]]
        /\ vmOf(o) \in VMs /\ vmOf(q) \in VMs
        /\ idOf(o) \in SnapshotIds /\ idOf(q) \in SnapshotIds
        /\ answer \in [Ops -> {"none", "ok", "refused"}]
    BY <1>3, <2>a DEF Accept, Handled, control, InFlightOK
  <2>1. MomentOf(q) /\ ContentsOf(q)
    BY <1>3 DEF SameMoment, ContentsOK
  <2>2. /\ snaps' # snaps => call = "snapSave" /\ job[o].kind = "snapshot"
        /\ call = "snapSave" =>
             /\ snaps[idOf(o)] # None
             /\ snaps' = [snaps EXCEPT ![idOf(o)].mem = Contents(vmOf(o))]
    BY <1>3, <2>0 DEF Accept, Request, Calls, CallsOf, Kinds
  <2>3. /\ snaps \in [SnapshotIds -> Dirs \cup {None}]
        /\ tick \in [VMs -> Nat]
    BY DEF Core, TypeOK
  <2>4. ASSUME pc[q] \in {"writeCID", "snapSave"}
        PROVE  tick'[vmOf(q)] = tick[vmOf(q)]
    <3>1. MayResume(q) /\ vmm[vmOf(q)] # "running"
      BY <1>3, <2>0, <2>4 DEF MayResume, Stillness
    <3>2. CASE vmOf(o) # vmOf(q)
      BY <1>3, <2>0, <2>3, <3>2 DEF Accept
    <3>3. CASE vmOf(o) = vmOf(q)
      <4>1. call # "resume"
        BY <1>3, <2>0, <3>3 DEF NoResumeOf, On, After, CallsOf, Kinds
      <4>2. MayResume(o) \/ MayBoot(o) => o = q
        BY <1>3, <2>0, <3>1, <3>3 DEF Stillness
      <4>3. call # "boot"
        BY <1>3, <2>0, <4>2 DEF MayBoot, CallsOf, Kinds
      <4>4. call # "snapResume"
        BY <1>3, <2>0, <2>4, <4>2 DEF MayResume, CallsOf, Kinds, After
      <4>5. To[Request[call]] # "running"
        BY <4>1, <4>3, <4>4 DEF To, Request, Calls
      <4> QED BY <1>3, <3>1, <3>3, <4>5 DEF Accept
    <3> QED BY <3>2, <3>3
  <2>5. CASE o = q /\ call = "snapSave"
    <3>1. /\ snaps[idOf(q)] \in Dirs /\ snaps'[idOf(q)].disk = snaps[idOf(q)].disk
          /\ snaps'[idOf(q)].mem = Contents(vmOf(q))
      BY <2>0, <2>2, <2>3, <2>5 DEF Dirs
    <3>2. outcome[q] # "ok"
      BY <2>0, <2>1, <2>5 DEF MomentOf
    <3>3. pc[q] = "snapSave" => /\ snaps'[idOf(q)].disk = Contents(vmOf(q))
                                /\ tick'[vmOf(q)] = tick[vmOf(q)]
      BY <2>1, <2>4, <3>1 DEF MomentOf
    <3>4. pc[q] # "writeCID"
      BY <2>0, <2>5 DEF After
    <3> QED BY <2>0, <2>5, <3>1, <3>2, <3>3, <3>4
            DEF MomentOf, Contents, idOf, vmOf
  <2>6. CASE ~(o = q /\ call = "snapSave")
    <3>1. /\ snaps'[idOf(q)].disk = snaps[idOf(q)].disk
          /\ snaps'[idOf(q)].mem = snaps[idOf(q)].mem
      BY <1>3, <2>0, <2>2, <2>3, <2>6 DEF OnlyUser
    <3>2. pc[q] = "snapSave" => answer'[q] = answer[q]
      BY <2>0, <2>6
    <3> QED BY <2>0, <2>1, <2>4, <3>1, <3>2 DEF MomentOf, Contents, idOf, vmOf
  <2> QED BY <2>5, <2>6
<1>4. ASSUME NEW o \in Ops, NEW call \in Calls, Accept(o, call)
      PROVE  SameMoment'
  <2>1. UNCHANGED <<job, pc>>
    BY <1>4 DEF Accept, Handled, control
  <2> QED
    BY <1>3, <1>4, <2>1 DEF SameMoment, OnlyUser, NoResumeOf, On, vmOf, idOf
<1> QED BY <1>1, <1>2, <1>4

SnapshotInv == CoreInv /\ ContentsOK /\ Stillness /\ SameMoment

(* What the two properties of snapshots follow from. *)
LEMMA SnapshotInvAlways == Spec => []SnapshotInv
<1>1. Init => SnapshotInv
  <2>1. Init => CoreInv
    BY InitCore DEF Init, CoreInv, LateCalls, Truth
  <2>2. Init => ContentsOK
    BY AssignmentsAssumption
       DEF Init, ContentsOK, ContentsOf, Before, Gone, idOf, Jobs
  <2>3. Init => Stillness
    BY AssignmentsAssumption
       DEF Init, Stillness, MayResume, MayBoot, vmOf, Jobs
  <2>4. Init => SameMoment
    BY DEF Init, SameMoment, MomentOf
  <2> QED BY <2>1, <2>2, <2>3, <2>4 DEF SnapshotInv
<1>2. SnapshotInv /\ [Next]_vars => SnapshotInv'
  <2> SUFFICES ASSUME SnapshotInv, [Next]_vars PROVE SnapshotInv'
    OBVIOUS
  <2>1. CoreInv'
    BY NextKeepsTruth DEF SnapshotInv
  <2>2. CASE Next
    BY <2>1, <2>2, OpKeepsContents, VMMKeepsContents, OpKeepsStillness,
       VMMKeepsStillness, OpKeepsMoment, VMMKeepsMoment
       DEF Next, SnapshotInv, CoreInv
  <2>3. CASE UNCHANGED vars
    <3>1. UNCHANGED <<job, pc, outcome, vmm, tick, inFlight, answer, snaps>>
      BY <2>3 DEF vars, control, machine
    <3>2. ContentsOK'
      BY <3>1 DEF SnapshotInv, ContentsOK, ContentsOf, Before, Gone, DiskOf, MemOf,
                  idOf, vmOf, OnlyUser
    <3>3. Stillness'
      BY <3>1 DEF SnapshotInv, Stillness, NoResumeOf, On, MayResume, MayBoot, vmOf
    <3>4. SameMoment'
      BY <3>1 DEF SnapshotInv, SameMoment, MomentOf, Contents, OnlyUser,
                  NoResumeOf, On, idOf, vmOf
    <3> QED BY <2>1, <3>2, <3>3, <3>4 DEF SnapshotInv
  <2> QED BY <2>2, <2>3
<1> QED BY <1>1, <1>2, PTL DEF Spec

(* A snapshot whose id nobody else uses is whole if SnapshotVM succeeded,  *)
(* and is not there if it failed, whatever the VMM still does.             *)
THEOREM SnapshotsAllOrNothing == Spec => []SnapshotAllOrNothing
<1>1. SnapshotInv => SnapshotAllOrNothing
  BY DEF SnapshotInv, ContentsOK, ContentsOf, SnapshotAllOrNothing, Whole, DiskOf,
         MemOf, Before, Gone
<1> QED BY <1>1, SnapshotInvAlways, PTL

(* Its disk and memory are of one moment, whatever other handlers          *)
(* SnapshotVM, which takes no lock, runs beside, as long as none resumes.  *)
THEOREM SnapshotsOfOneMoment == Spec => []SnapshotOfOneMoment
<1>1. SnapshotInv => SnapshotOfOneMoment
  BY DEF SnapshotInv, SameMoment, MomentOf, SnapshotOfOneMoment
<1> QED BY <1>1, SnapshotInvAlways, PTL

-----------------------------------------------------------------------------
(* What a DestroyVM can do: not find its VM, or go on to take the lock     *)
(* twice.  From there it has no step.                                      *)
LEMMA DestroySteps ==
  ASSUME Core, NEW o \in Ops, Arrive(o) \/ Work(o), job[o].kind = "destroy"
  PROVE  /\ pc[o] \in {"start", "acquire"}
         /\ pc'[o] = "done" => outcome'[o] = "notFound"
<1>0. pc[o] \in {"start", "acquire", "relock", "done"}
  BY DEF Core, InPlace, PlacesOf, CallsOf
<1>1. pc[o] \in {"start", "acquire"}
  BY <1>0 DEF Arrive, Work, Goto, Register, NotFound, FindToLock, FindToStop,
     FindToSnapshot, Found, Acquire, LockedCallSucceeds, LockedCallFails, BootFails,
     UndoEnds, StopSucceeds, StopFails, Stat, MkdirAll, MkdirAllFails,
     SnapPauseSucceeds, SnapPauseFails, CopyDisk, WriteCID, FileFails,
     SnapSaveSucceeds, SnapSaveFails, SnapResumeSucceeds, SnapResumeFails,
     RemoveSnapshot, RemoveSnapshotFails
<1>2. pc \in [Ops -> Calls \cup {"start", "acquire", "relock", "stat", "mkdir",
                                "copy", "writeCID", "rmSnap", "done"}]
      /\ outcome \in [Ops -> Hows \cup {"none", "ok", "notFound", "exists",
                                        "ioError", "unremoved"}]
  BY DEF Core, TypeOK
<1>3. NotFound(o) \/ FindToLock(o) \/ Acquire(o)
  BY <1>1 DEF Arrive, Work, Register, FindToStop, FindToSnapshot, Found,
     LockedCallSucceeds, LockedCallFails, BootFails, UndoEnds, StopSucceeds,
     StopFails, Stat, MkdirAll, MkdirAllFails, SnapPauseSucceeds, SnapPauseFails,
     CopyDisk, WriteCID, FileFails, SnapSaveSucceeds, SnapSaveFails,
     SnapResumeSucceeds, SnapResumeFails, RemoveSnapshot, RemoveSnapshotFails
<1> QED BY <1>1, <1>2, <1>3 DEF NotFound, FindToLock, Acquire, Ends, Goto

OnlyMissesAnswer ==
  \A o \in Ops : job[o].kind = "destroy" /\ pc[o] = "done" => outcome[o] = "notFound"

(* A DestroyVM that is over did not find its VM, and a VM's lock that a    *)
(* DestroyVM took is never given to anybody again: destroyVM and           *)
(* vm.destroy take the same lock (server.go:1417, 1183).  Registry and     *)
(* Restore rely on it where a goroutine that destroys a VM is caught.      *)
THEOREM DestroysNeverReturn ==
  Spec => /\ []OnlyMissesAnswer
          /\ [][\A v \in VMs : Grabbed(v) => lock'[v] = lock[v]]_vars
<1>1. Init => OnlyMissesAnswer
  BY DEF Init, OnlyMissesAnswer
<1>2. ASSUME Core, NEW o \in Ops, Arrive(o) \/ Work(o)
      PROVE  /\ OnlyMissesAnswer => OnlyMissesAnswer'
             /\ \A v \in VMs : Grabbed(v) => lock'[v] = lock[v]
  <2>1. Moved(o) /\ LockMoved(o) /\ Core'
    BY <1>2, OpMoves, OpKeepsCore
  <2>2. /\ job' = job
        /\ \A q \in Ops : q # o => pc'[q] = pc[q] /\ outcome'[q] = outcome[q]
    BY <1>2, <2>1 DEF Moved, Core, TypeOK
  <2>3. OnlyMissesAnswer => OnlyMissesAnswer'
    BY <1>2, <2>2, DestroySteps DEF OnlyMissesAnswer
  <2>4. ASSUME NEW v \in VMs, Grabbed(v) PROVE lock'[v] = lock[v]
    <3>1. /\ lock \in [VMs -> Ops \cup {None}] /\ lock[v] # None
          /\ lock[v] \in Ops /\ vmOf(lock[v]) = v /\ job[lock[v]].kind = "destroy"
      BY <1>2, <2>4 DEF Grabbed, Core, TypeOK, LocksOK
    <3>2. CASE vmOf(o) # v
      BY <2>1, <3>1, <3>2 DEF LockMoved
    <3>3. CASE vmOf(o) = v
      <4>1. pc[o] \notin Locking
        <5>1. pc[o] \in Locking => lock[v] = o
          BY <1>2, <3>3 DEF Core, LocksOK
        <5> QED BY <1>2, <3>1, <5>1, DestroySteps DEF Locking
      <4> QED BY <2>1, <3>1, <3>3, <4>1 DEF LockMoved
    <3> QED BY <3>2, <3>3
  <2> QED BY <2>3, <2>4
<1>3. ASSUME CoreInv, [Next]_vars
      PROVE  /\ OnlyMissesAnswer => OnlyMissesAnswer'
             /\ \A v \in VMs : Grabbed(v) => lock'[v] = lock[v]
  <2>1. CASE \/ \E o \in Ops, call \in Calls : Accept(o, call) \/ Refuse(o, call)
             \/ \E v \in VMs : VMMExits(v)
             \/ UNCHANGED vars
    <3>1. UNCHANGED <<job, pc, outcome, lock>>
      BY <2>1 DEF Accept, Refuse, Handled, VMMExits, control, vars
    <3> QED BY <3>1 DEF OnlyMissesAnswer
  <2> QED BY <1>2, <1>3, <2>1 DEF Next, CoreInv
<1>4. CoreInv /\ OnlyMissesAnswer /\ [Next]_vars => OnlyMissesAnswer'
  BY <1>3
<1>5. CoreInv /\ [Next]_vars => [\A v \in VMs : Grabbed(v) => lock'[v] = lock[v]]_vars
  BY <1>3
<1> QED BY <1>1, <1>4, <1>5, CoreAlways, PTL DEF Spec
=============================================================================
