------------------------------ MODULE Restore ------------------------------
(***************************************************************************)
(* pkg/server/server.go: StartVM with a snapshot id, i.e. restoreVM, among *)
(* other StartVM requests.  A restore claims the tap number, the address   *)
(* and the CID that its snapshot recorded, where module StartVM takes any  *)
(* free ones, and calls createVM with forRestore, which skips the network, *)
(* the CID, the disk and the VmConfig.                                     *)
(*                                                                         *)
(* The snapshots are those of an earlier run of the daemon, put where      *)
(* restoreVM looks for them (server.go:1671).  A restore fails in one of   *)
(* two ways.  Until createVM has registered the VM it returns the error.   *)
(* After that its clean-up calls destroyVM, which finds the VM and locks   *)
(* its lock twice (module VmControl): the request is "stuck" for good.     *)
(***************************************************************************)
EXTENDS StartVM

CONSTANTS Restores,                    \* the requests with a snapshot id
          SnapTap, SnapIP, SnapCID     \* what the snapshot of each recorded

ASSUME RestoresAssumption == Restores \subseteq Requests

ASSUME SnapshotsAssumption ==
  /\ SnapTap \in [Restores -> TapIDs]
  /\ SnapIP \in [Restores -> IPs]
  /\ SnapCID \in [Restores -> CIDs]

Starts == Requests \ Restores

-----------------------------------------------------------------------------
(* restoreVM up to createVM *)

(* No such snapshot, a configuration or a tap name that cannot be parsed,  *)
(* or an address that is not of this subnet.                               *)
SnapshotRefused(r) ==
  /\ Goto(r, "start", "failed")
  /\ UNCHANGED <<allocators, locals, vms, files, vmms>>

(* ClaimIP also succeeds if the address is in use. *)
ClaimIP(r) ==
  /\ Goto(r, "start", "claimTap")
  /\ freeIPs' = freeIPs \ {SnapIP[r]}
  /\ ip' = [ip EXCEPT ![r] = SnapIP[r]]
  /\ UNCHANGED <<freeTaps, freeCIDs, freePorts, tap, cid, hostPort, ports,
                 vms, files, vmms>>

(* Mutant of ClaimTap: like ClaimIP, it takes a number that is in use. *)
ClaimAnyTap(r) ==
  /\ Goto(r, "claimTap", "mkdir")
  /\ freeTaps' = freeTaps \ {SnapTap[r]}
  /\ tap' = [tap EXCEPT ![r] = SnapTap[r]]
  /\ UNCHANGED <<freeIPs, freeCIDs, freePorts, ip, cid, hostPort, ports,
                 vms, files, vmms>>

(* CreateTapDevice(&id) *)
ClaimTap(r) ==
  /\ Goto(r, "claimTap", "mkdir")
  /\ SnapTap[r] \in freeTaps
  /\ freeTaps' = freeTaps \ {SnapTap[r]}
  /\ tap' = [tap EXCEPT ![r] = SnapTap[r]]
  /\ UNCHANGED <<freeIPs, freeCIDs, freePorts, ip, cid, hostPort, ports,
                 vms, files, vmms>>

(* Mutant of ClaimTapFails: it gives the address back. *)
ClaimTapFailsFreeingIP(r) ==
  /\ Goto(r, "claimTap", "failed")
  /\ freeIPs' = freeIPs \cup {ip[r]}
  /\ ip' = [ip EXCEPT ![r] = None]
  /\ UNCHANGED <<freeTaps, freeCIDs, freePorts, tap, cid, hostPort, ports,
                 vms, files, vmms>>

(* The number is in use, or an `ip` command failed and it was freed.  No   *)
(* clean-up gives the address back.                                        *)
ClaimTapFails(r) ==
  /\ Goto(r, "claimTap", "failed")
  /\ UNCHANGED <<allocators, locals, vms, files, vmms>>

-----------------------------------------------------------------------------
(* createVM with forRestore: CreateLog, SpawnVMM and the clean-ups are     *)
(* those of StartVM.  If it fails, restoreVM leaves the tap device: the    *)
(* clean-up at server.go:1714 only logs a TODO.                            *)
RestoreStateDir(r) ==
  /\ Goto(r, "mkdir", "log")
  /\ dir' = dir \cup {Target[r]}
  /\ UNCHANGED <<allocators, locals, vms, sock, disk, vmms>>

RestoreStateDirFails(r) ==
  /\ Goto(r, "mkdir", "failed")
  /\ UNCHANGED <<allocators, locals, vms, files, vmms>>

RestoreServerUp(r) ==
  /\ Goto(r, "wait", "register")
  /\ \E p \in Requests : Serving(Target[r], p)
  /\ UNCHANGED <<allocators, locals, vms, files, vmms>>

RegisterRestored(r) ==
  /\ Goto(r, "register", "copy")
  /\ vms' = [vms EXCEPT ![Target[r]] = r]
  /\ UNCHANGED <<allocators, locals, files, vmms>>

-----------------------------------------------------------------------------
(* restoreVM after createVM *)
CopyDisk(r) ==
  /\ Goto(r, "copy", "ports")
  /\ Target[r] \in dir
  /\ disk' = [disk EXCEPT ![Target[r]] = r]
  /\ UNCHANGED <<allocators, locals, vms, dir, sock, vmms>>

(* Mutant of CopyDiskFails: the clean-up that destroys the VM is missing. *)
CopyDiskFailsAtOnce(r) ==
  /\ Goto(r, "copy", "failed")
  /\ UNCHANGED <<allocators, locals, vms, files, vmms>>

CopyDiskFails(r) ==
  /\ Goto(r, "copy", "destroy")
  /\ UNCHANGED <<allocators, locals, vms, files, vmms>>

(* setupPortForwardsToVM is StartVM's AllocatePort and AddRule; only what  *)
(* follows an error differs.                                               *)
ForwardFails(r) ==
  /\ \/ /\ Goto(r, "ports", "destroy")
        /\ Cardinality(ports[r]) < NumForwards
        /\ freePorts = {}
        /\ UNCHANGED <<freePorts, hostPort>>
     \/ /\ Goto(r, "iptables", "destroy")
        /\ freePorts' = freePorts \cup {hostPort[r]}
        /\ hostPort' = [hostPort EXCEPT ![r] = None]
  /\ UNCHANGED <<freeTaps, freeIPs, freeCIDs, tap, ip, cid, ports,
                 vms, files, vmms>>

ForwardsSetUp(r) ==
  /\ Goto(r, "ports", "claimCID")
  /\ Cardinality(ports[r]) = NumForwards
  /\ UNCHANGED <<allocators, locals, vms, files, vmms>>

ClaimCID(r) ==
  /\ Goto(r, "claimCID", "restore")
  /\ SnapCID[r] \in freeCIDs
  /\ freeCIDs' = freeCIDs \ {SnapCID[r]}
  /\ cid' = [cid EXCEPT ![r] = SnapCID[r]]
  /\ UNCHANGED <<freeTaps, freeIPs, freePorts, tap, ip, hostPort, ports,
                 vms, files, vmms>>

(* Mutant of ClaimCIDFails: its clean-up is registered before the claim. *)
ClaimCIDFailsLate(r) ==
  /\ Goto(r, "claimCID", "giveCID")
  /\ UNCHANGED <<allocators, locals, vms, files, vmms>>

(* The CID is in use, or its file cannot be read. *)
ClaimCIDFails(r) ==
  /\ Goto(r, "claimCID", "destroy")
  /\ UNCHANGED <<allocators, locals, vms, files, vmms>>

(* PUT vm.restore: a VMM without a VM takes the one of the snapshot, whose *)
(* guest is paused.                                                        *)
TakeSnapshot(r) ==
  \E p \in Requests :
    /\ Serving(Target[r], p)
    /\ proc[p] = "up"
    /\ proc' = [proc EXCEPT ![p] = "paused"]
    /\ guest' = [guest EXCEPT ![p] = r]

restore(r) ==
  /\ Goto(r, "restore", "resume")
  /\ TakeSnapshot(r)
  /\ UNCHANGED <<allocators, locals, vms, files>>

(* An error status, or no answer: the VMM may have restored all the same. *)
restoreFails(r) ==
  /\ Goto(r, "restore", "giveCID")
  /\ TakeSnapshot(r) \/ UNCHANGED vmms
  /\ UNCHANGED <<allocators, locals, vms, files>>

ResumeTakes(r) ==
  \E p \in Requests :
    /\ Serving(Target[r], p)
    /\ proc[p] = "paused"
    /\ proc' = [proc EXCEPT ![p] = "running"]

resume(r) ==
  /\ Goto(r, "resume", "ready")
  /\ ResumeTakes(r)
  /\ UNCHANGED <<allocators, locals, vms, files, guest>>

(* Mutant of resumeFails: the clean-up of the CID is missing. *)
resumeFailsKeepingCID(r) ==
  /\ Goto(r, "resume", "destroy")
  /\ ResumeTakes(r) \/ UNCHANGED proc
  /\ UNCHANGED <<allocators, locals, vms, files, guest>>

resumeFails(r) ==
  /\ Goto(r, "resume", "giveCID")
  /\ ResumeTakes(r) \/ UNCHANGED proc
  /\ UNCHANGED <<allocators, locals, vms, files, guest>>

-----------------------------------------------------------------------------
(* restoreVM's clean-ups, latest first: the CID, the rules, the VM.  The   *)
(* tap device, which would be the last, is not reached.                    *)
GiveCIDBack(r) ==
  /\ Goto(r, "giveCID", "destroy")
  /\ freeCIDs' = freeCIDs \cup {cid[r]}
  /\ cid' = [cid EXCEPT ![r] = None]
  /\ UNCHANGED <<freeTaps, freeIPs, freePorts, tap, ip, hostPort, ports,
                 vms, files, vmms>>

DestroyVM(r) ==
  /\ Goto(r, "destroy", "stuck")
  /\ vms[Target[r]] # None
  /\ UNCHANGED <<allocators, locals, vms, files, vmms>>

-----------------------------------------------------------------------------
RestoreStep(r) ==
  \/ SnapshotRefused(r) \/ ClaimIP(r) \/ ClaimTap(r) \/ ClaimTapFails(r)
  \/ RestoreStateDir(r) \/ RestoreStateDirFails(r)
  \/ CreateLog(r) \/ SpawnVMM(r) \/ CreateLogOrSpawnFails(r)
  \/ RestoreServerUp(r) \/ WaitForServerFails(r)
  \/ ReapVMM(r) \/ RemoveStateDir(r)
  \/ RegisterRestored(r) \/ CopyDisk(r) \/ CopyDiskFails(r)
  \/ AllocatePort(r) \/ AddRule(r) \/ ForwardFails(r) \/ ForwardsSetUp(r)
  \/ ClaimCID(r) \/ ClaimCIDFails(r)
  \/ restore(r) \/ restoreFails(r) \/ resume(r) \/ resumeFails(r)
  \/ GiveCIDBack(r) \/ DestroyVM(r)
  \/ VMMListens(r) \/ VMMExits(r)

RestoreNext ==
  \/ \E r \in Starts : Step(r)
  \/ \E r \in Restores : RestoreStep(r)

RestoreSpec == Init /\ [][RestoreNext]_vars

-----------------------------------------------------------------------------
(* Properties *)
RestorePCs == {"claimTap", "mkdir", "copy", "claimCID", "restore", "resume",
               "giveCID", "destroy", "stuck"}

RestoreTypeOK ==
  /\ pc \in [Requests -> Forward \cup Backward \cup Final \cup RestorePCs]
  /\ freeTaps \subseteq TapIDs /\ freeIPs \subseteq IPs
  /\ freeCIDs \subseteq CIDs /\ freePorts \subseteq Ports
  /\ tap \in [Requests -> TapIDs \cup {None}]
  /\ ip \in [Requests -> IPs \cup {None}]
  /\ cid \in [Requests -> CIDs \cup {None}]
  /\ hostPort \in [Requests -> Ports \cup {None}]
  /\ ports \in [Requests -> SUBSET Ports]
  /\ vms \in [Names -> Requests \cup {None}]
  /\ dir \subseteq Names
  /\ sock \in [Names -> Requests \cup {None}]
  /\ disk \in [Names -> Requests \cup {None}]
  /\ proc \in [Requests -> VMMStates]
  /\ guest \in [Requests -> Requests \cup {None}]

(* Two restores of one snapshot, or a restore and a start that was given   *)
(* the same identifiers, never both have a tap device, a CID or a host     *)
(* port, and none of those is in an allocator while a request has it       *)
(* (server.go:1704-1774 among 967-1015).                                   *)
ClaimsExclusive ==
  /\ Apart(freeTaps, Held(tap))
  /\ Apart(freeCIDs, Held(cid))
  /\ Apart(freePorts, HeldPorts)

(* A restore may be given the address of another VM, but it never takes    *)
(* that address away from a VM that was started: the address is not free,  *)
(* and no other start gets it (server.go:1704-1715: no clean-up frees what *)
(* ClaimIP did not take).                                                  *)
StartsKeepTheirAddress ==
  Apart(freeIPs, [r \in Requests |-> IF r \in Starts THEN Held(ip)[r] ELSE {}])

(* A failed restore gives its CID back, also when destroyVM then hangs, so *)
(* no CID is lost (server.go:1770-1774).                                   *)
CIDsReturned ==
  /\ Accounted(CIDs, freeCIDs, Held(cid))
  /\ \A r \in Requests : pc[r] \in {"failed", "stuck"} => cid[r] = None

(* A restore or start that answers with an error and is not a failed boot  *)
(* left no VM of its own: neither a registered one nor a VMM               *)
(* (server.go:1717-1725).                                                  *)
FailedLeavesNoVM ==
  \A r \in Requests : pc[r] = "failed" =>
    /\ \A n \in Names : vms[n] # r
    /\ proc[r] \in {"none", "dead"}
=============================================================================
