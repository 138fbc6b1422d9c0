------------------------------ MODULE StartVM ------------------------------
(***************************************************************************)
(* pkg/server/server.go: StartVM of a VM that is not restored, i.e.        *)
(* createVM followed by boot, for any number of concurrent HTTP requests.  *)
(* Each request runs on its own goroutine and takes no lock across         *)
(* createVM, so the requests interleave between any two steps.             *)
(*                                                                         *)
(* A failed step of createVM runs the clean-ups registered so far, latest  *)
(* first (gvisor's cleanup.Clean); the pc values "rmDisk" ... "rmDir" are  *)
(* that stack.  The four allocators appear as their IdPool abstraction: a  *)
(* set of free identifiers.  DNAT rules are not state of this module.      *)
(*                                                                         *)
(* The lookup at server.go:1319 uses the bare vmName while the registry is *)
(* keyed by "namespace.vmName", so for names without a dot it finds        *)
(* nothing and every StartVM creates a VM.                                 *)
(***************************************************************************)
EXTENDS Naturals, FiniteSets

CONSTANTS Requests,     \* StartVM requests
          Names,        \* (namespace, vmName): registry key and state dir
          Target,       \* Target[r]: the VM that r asks to start
          TapIDs, IPs, CIDs, Ports,  \* what the allocators own
          NumForwards,  \* guest ports to forward (config.PortForwards)
          None

ASSUME TargetAssumption == Target \in [Requests -> Names]

ASSUME ForwardsAssumption == NumForwards \in Nat

ASSUME NoneAssumption ==
  None \notin Requests \cup TapIDs \cup IPs \cup CIDs \cup Ports

VARIABLES
  pc,                                        \* where r is
  freeTaps, freeIPs, freeCIDs, freePorts,    \* the allocators
  tap, ip, cid,                              \* what r was given, or None
  hostPort,                                  \* the port being forwarded
  ports,                                     \* the host ports forwarded
  vms,                                       \* s.vms: whose vm object
  dir,                                       \* state directories that exist
  sock,                                      \* whose VMM bound the API socket
  disk,                                      \* who formatted the disk file
  proc,                                      \* the VMM process r spawned
  guest                                      \* whose VmConfig that VMM has

allocators == <<freeTaps, freeIPs, freeCIDs, freePorts>>
locals == <<tap, ip, cid, hostPort, ports>>
files == <<dir, sock, disk>>
vmms == <<proc, guest>>
vars == <<pc, allocators, locals, vms, files, vmms>>

Init ==
  /\ pc = [r \in Requests |-> "start"]
  /\ freeTaps = TapIDs /\ freeIPs = IPs
  /\ freeCIDs = CIDs /\ freePorts = Ports
  /\ tap = [r \in Requests |-> None]
  /\ ip = [r \in Requests |-> None]
  /\ cid = [r \in Requests |-> None]
  /\ hostPort = [r \in Requests |-> None]
  /\ ports = [r \in Requests |-> {}]
  /\ vms = [n \in Names |-> None]
  /\ dir = {}
  /\ sock = [n \in Names |-> None]
  /\ disk = [n \in Names |-> None]
  /\ proc = [r \in Requests |-> "none"]
  /\ guest = [r \in Requests |-> None]

Goto(r, from, to) ==
  /\ pc[r] = from
  /\ pc' = [pc EXCEPT ![r] = to]

(* The VMM p answers API calls made to the socket path of n. *)
Serving(n, p) ==
  /\ p \in Requests
  /\ sock[n] = p
  /\ proc[p] \in {"up", "created", "running", "paused"}

-----------------------------------------------------------------------------
(* createVM, on the way forward *)
MakeStateDir(r) ==
  /\ Goto(r, "start", "log")
  /\ dir' = dir \cup {Target[r]}
  /\ UNCHANGED <<allocators, locals, vms, sock, disk, vmms>>

MakeStateDirFails(r) ==
  /\ Goto(r, "start", "failed")
  /\ UNCHANGED <<allocators, locals, vms, files, vmms>>

CreateLog(r) ==
  /\ Goto(r, "log", "spawn")
  /\ Target[r] \in dir
  /\ UNCHANGED <<allocators, locals, vms, files, vmms>>

SpawnVMM(r) ==
  /\ Goto(r, "spawn", "wait")
  /\ proc' = [proc EXCEPT ![r] = "starting"]
  /\ UNCHANGED <<allocators, locals, vms, files, guest>>

(* os.Create or cmd.Start returns an error. *)
CreateLogOrSpawnFails(r) ==
  /\ Goto(r, "log", "rmDir") \/ Goto(r, "spawn", "rmDir")
  /\ UNCHANGED <<allocators, locals, vms, files, vmms>>

(* The ping goes to the socket path: any VMM bound to it may answer. *)
WaitForServer(r) ==
  /\ Goto(r, "wait", "tap")
  /\ \E p \in Requests : Serving(Target[r], p)
  /\ UNCHANGED <<allocators, locals, vms, files, vmms>>

(* Mutant of WaitForServerFails: no timeout. *)
WaitForServerForever(r) == FALSE /\ pc[r] = "wait" /\ UNCHANGED vars

(* No answer within 10s, or the client went away (ctx is done). *)
WaitForServerFails(r) ==
  /\ Goto(r, "wait", "reap")
  /\ UNCHANGED <<allocators, locals, vms, files, vmms>>

CreateTapDevice(r) ==
  /\ Goto(r, "tap", "ip")
  /\ \E t \in freeTaps :
       /\ freeTaps' = freeTaps \ {t}
       /\ tap' = [tap EXCEPT ![r] = t]
  /\ UNCHANGED <<freeIPs, freeCIDs, freePorts, ip, cid, hostPort, ports,
                 vms, files, vmms>>

(* Mutant: the clean-up is registered before the device is there. *)
CreateTapDeviceFailsLate(r) ==
  /\ Goto(r, "tap", "delTap")
  /\ UNCHANGED <<allocators, locals, vms, files, vmms>>

(* Out of numbers, or an `ip` command failed and the number was freed. *)
CreateTapDeviceFails(r) ==
  /\ Goto(r, "tap", "kill")
  /\ UNCHANGED <<allocators, locals, vms, files, vmms>>

(* Mutant: the address stays in the allocator. *)
PeekIP(r) ==
  /\ Goto(r, "ip", "ports")
  /\ \E i \in freeIPs : ip' = [ip EXCEPT ![r] = i]
  /\ UNCHANGED <<allocators, tap, cid, hostPort, ports, vms, files, vmms>>

AllocateIP(r) ==
  /\ Goto(r, "ip", "ports")
  /\ \E i \in freeIPs :
       /\ freeIPs' = freeIPs \ {i}
       /\ ip' = [ip EXCEPT ![r] = i]
  /\ UNCHANGED <<freeTaps, freeCIDs, freePorts, tap, cid, hostPort, ports,
                 vms, files, vmms>>

AllocateIPFails(r) ==
  /\ Goto(r, "ip", "delTap")
  /\ freeIPs = {}
  /\ UNCHANGED <<allocators, locals, vms, files, vmms>>

(* setupSinglePortForward, once for each guest port: take a host port, add *)
(* its DNAT rule, and give the port back only if iptables failed.          *)
AllocatePort(r) ==
  /\ Goto(r, "ports", "iptables")
  /\ Cardinality(ports[r]) < NumForwards
  /\ \E p \in freePorts :
       /\ freePorts' = freePorts \ {p}
       /\ hostPort' = [hostPort EXCEPT ![r] = p]
  /\ UNCHANGED <<freeTaps, freeIPs, freeCIDs, tap, ip, cid, ports,
                 vms, files, vmms>>

AllocatePortFails(r) ==
  /\ Goto(r, "ports", "freeIP")
  /\ Cardinality(ports[r]) < NumForwards
  /\ freePorts = {}
  /\ UNCHANGED <<allocators, locals, vms, files, vmms>>

AddRule(r) ==
  /\ Goto(r, "iptables", "ports")
  /\ ports' = [ports EXCEPT ![r] = @ \cup {hostPort[r]}]
  /\ hostPort' = [hostPort EXCEPT ![r] = None]
  /\ UNCHANGED <<allocators, tap, ip, cid, vms, files, vmms>>

(* The ports forwarded before stay out of the allocator: createVM deletes  *)
(* their rules, and nothing frees the ports.                               *)
AddRuleFails(r) ==
  /\ Goto(r, "iptables", "freeIP")
  /\ freePorts' = freePorts \cup {hostPort[r]}
  /\ hostPort' = [hostPort EXCEPT ![r] = None]
  /\ UNCHANGED <<freeTaps, freeIPs, freeCIDs, tap, ip, cid, ports,
                 vms, files, vmms>>

PortForwardsDone(r) ==
  /\ Goto(r, "ports", "cid")
  /\ Cardinality(ports[r]) = NumForwards
  /\ UNCHANGED <<allocators, locals, vms, files, vmms>>

(* Mutant: the CID stays in the allocator. *)
PeekCID(r) ==
  /\ Goto(r, "cid", "disk")
  /\ \E c \in freeCIDs : cid' = [cid EXCEPT ![r] = c]
  /\ UNCHANGED <<allocators, tap, ip, hostPort, ports, vms, files, vmms>>

AllocateCID(r) ==
  /\ Goto(r, "cid", "disk")
  /\ \E c \in freeCIDs :
       /\ freeCIDs' = freeCIDs \ {c}
       /\ cid' = [cid EXCEPT ![r] = c]
  /\ UNCHANGED <<freeTaps, freeIPs, freePorts, tap, ip, hostPort, ports,
                 vms, files, vmms>>

(* Mutant: the clean-up that frees the address is missing. *)
AllocateCIDFailsKeepingIP(r) ==
  /\ Goto(r, "cid", "delTap")
  /\ freeCIDs = {}
  /\ UNCHANGED <<allocators, locals, vms, files, vmms>>

AllocateCIDFails(r) ==
  /\ Goto(r, "cid", "freeIP")
  /\ freeCIDs = {}
  /\ UNCHANGED <<allocators, locals, vms, files, vmms>>

(* truncate and mkfs.ext4 on the path, whoever uses that file. *)
CreateStatefulDisk(r) ==
  /\ Goto(r, "disk", "create")
  /\ Target[r] \in dir
  /\ disk' = [disk EXCEPT ![Target[r]] = r]
  /\ UNCHANGED <<allocators, locals, vms, dir, sock, vmms>>

CreateStatefulDiskFails(r) ==
  /\ Goto(r, "disk", "freeCID")
  /\ UNCHANGED <<allocators, locals, vms, files, vmms>>

(* The VMM behind the socket takes r's configuration if it has none yet. *)
TakeConfig(r) ==
  \E p \in Requests :
    /\ Serving(Target[r], p)
    /\ proc[p] = "up"
    /\ proc' = [proc EXCEPT ![p] = "created"]
    /\ guest' = [guest EXCEPT ![p] = r]

ApiCreateVM(r) ==
  /\ Goto(r, "create", "register")
  /\ TakeConfig(r)
  /\ UNCHANGED <<allocators, locals, vms, files>>

(* No memory to give, an error status, or no answer within the client's    *)
(* 30s; in the last case the VMM may have created the VM all the same.     *)
ApiCreateVMFails(r) ==
  /\ Goto(r, "create", "rmDisk")
  /\ TakeConfig(r) \/ UNCHANGED vmms
  /\ UNCHANGED <<allocators, locals, vms, files>>

Register(r) ==
  /\ Goto(r, "register", "boot")
  /\ vms' = [vms EXCEPT ![Target[r]] = r]
  /\ UNCHANGED <<allocators, locals, files, vmms>>

-----------------------------------------------------------------------------
(* StartVM after createVM: boot, and ShutdownVM if boot returned an error. *)
(* The VM stays registered, with its resources, in both cases.             *)
BootTakes(r) ==
  \E p \in Requests :
    /\ Serving(Target[r], p)
    /\ proc[p] = "created"
    /\ proc' = [proc EXCEPT ![p] = "running"]

Boot(r) ==
  /\ Goto(r, "boot", "ready")
  /\ BootTakes(r)
  /\ UNCHANGED <<allocators, locals, vms, files, guest>>

(* Mutant: createVM forgot cleanup.Release, so its clean-ups run. *)
BootFailsAndCleans(r) ==
  /\ Goto(r, "boot", "rmDisk")
  /\ UNCHANGED <<allocators, locals, vms, files, vmms>>

BootFails(r) ==
  /\ Goto(r, "boot", "shutdown")
  /\ BootTakes(r) \/ UNCHANGED proc
  /\ UNCHANGED <<allocators, locals, vms, files, guest>>

(* Mutant: the resources are freed whether or not the guest shut down. *)
ShutdownVMAndClean(r) ==
  /\ Goto(r, "shutdown", "rmDisk")
  /\ UNCHANGED <<allocators, locals, vms, files, vmms>>

ShutdownVM(r) ==
  /\ Goto(r, "shutdown", "bootFailed")
  /\ \/ \E p \in Requests :
          /\ Serving(Target[r], p)
          /\ proc[p] = "running"
          /\ proc' = [proc EXCEPT ![p] = "created"]
     \/ UNCHANGED proc
  /\ UNCHANGED <<allocators, locals, vms, files, guest>>

-----------------------------------------------------------------------------
(* createVM's clean-ups, latest first *)
RemoveDisk(r) ==
  /\ Goto(r, "rmDisk", "freeCID")
  /\ disk' = [disk EXCEPT ![Target[r]] = None]
  /\ UNCHANGED <<allocators, locals, vms, dir, sock, vmms>>

FreeCID(r) ==
  /\ Goto(r, "freeCID", "freeIP")
  /\ freeCIDs' = freeCIDs \cup {cid[r]}
  /\ cid' = [cid EXCEPT ![r] = None]
  /\ UNCHANGED <<freeTaps, freeIPs, freePorts, tap, ip, hostPort, ports,
                 vms, files, vmms>>

(* Mutant: the clean-up also frees the forwarded host ports. *)
FreeIPAndPorts(r) ==
  /\ Goto(r, "freeIP", "delTap")
  /\ freeIPs' = freeIPs \cup {ip[r]}
  /\ ip' = [ip EXCEPT ![r] = None]
  /\ freePorts' = freePorts \cup ports[r]
  /\ UNCHANGED <<freeTaps, freeCIDs, tap, cid, hostPort, ports,
                 vms, files, vmms>>

FreeIP(r) ==
  /\ Goto(r, "freeIP", "delTap")
  /\ freeIPs' = freeIPs \cup {ip[r]}
  /\ ip' = [ip EXCEPT ![r] = None]
  /\ UNCHANGED <<freeTaps, freeCIDs, freePorts, tap, cid, hostPort, ports,
                 vms, files, vmms>>

DestroyTapDevice(r) ==
  /\ Goto(r, "delTap", "kill")
  /\ freeTaps' = freeTaps \cup {tap[r]}
  /\ tap' = [tap EXCEPT ![r] = None]
  /\ UNCHANGED <<freeIPs, freeCIDs, freePorts, ip, cid, hostPort, ports,
                 vms, files, vmms>>

(* An `ip` command failed: the number is never freed. *)
DestroyTapDeviceFails(r) ==
  /\ Goto(r, "delTap", "kill")
  /\ UNCHANGED <<allocators, locals, vms, files, vmms>>

KillVMM(r) ==
  /\ Goto(r, "kill", "reap")
  /\ proc' = [proc EXCEPT ![r] = "dead"]
  /\ UNCHANGED <<allocators, locals, vms, files, guest>>

(* reapProcess kills the process if it does not exit by itself. *)
ReapVMM(r) ==
  /\ Goto(r, "reap", "rmDir")
  /\ proc' = [proc EXCEPT ![r] = "dead"]
  /\ UNCHANGED <<allocators, locals, vms, files, guest>>

RemoveStateDir(r) ==
  /\ Goto(r, "rmDir", "failed")
  /\ dir' = dir \ {Target[r]}
  /\ sock' = [sock EXCEPT ![Target[r]] = None]
  /\ disk' = [disk EXCEPT ![Target[r]] = None]
  /\ UNCHANGED <<allocators, locals, vms, vmms>>

-----------------------------------------------------------------------------
(* The VMM process: it binds its socket unless the path exists, and may    *)
(* exit at any time (as it does when the path exists).                     *)
VMMListens(r) ==
  /\ proc[r] = "starting"
  /\ Target[r] \in dir
  /\ sock[Target[r]] = None
  /\ sock' = [sock EXCEPT ![Target[r]] = r]
  /\ proc' = [proc EXCEPT ![r] = "up"]
  /\ UNCHANGED <<pc, allocators, locals, vms, dir, disk, guest>>

VMMExits(r) ==
  /\ proc[r] \in {"starting", "up", "created", "running", "paused"}
  /\ proc' = [proc EXCEPT ![r] = "dead"]
  /\ UNCHANGED <<pc, allocators, locals, vms, files, guest>>

-----------------------------------------------------------------------------
Provision(r) ==
  \/ CreateLog(r) \/ SpawnVMM(r) \/ CreateLogOrSpawnFails(r)
  \/ WaitForServer(r) \/ WaitForServerFails(r)
  \/ CreateTapDevice(r) \/ CreateTapDeviceFails(r)
  \/ AllocateIP(r) \/ AllocateIPFails(r)
  \/ AllocatePort(r) \/ AllocatePortFails(r)
  \/ AddRule(r) \/ AddRuleFails(r) \/ PortForwardsDone(r)
  \/ AllocateCID(r) \/ AllocateCIDFails(r)
  \/ CreateStatefulDisk(r) \/ CreateStatefulDiskFails(r)
  \/ ApiCreateVM(r) \/ ApiCreateVMFails(r)
  \/ Register(r)
  \/ Boot(r) \/ BootFails(r) \/ ShutdownVM(r)

Undo(r) ==
  \/ RemoveDisk(r) \/ FreeCID(r) \/ FreeIP(r)
  \/ DestroyTapDevice(r) \/ DestroyTapDeviceFails(r)
  \/ KillVMM(r) \/ ReapVMM(r) \/ RemoveStateDir(r)

Step(r) ==
  \/ MakeStateDir(r) \/ MakeStateDirFails(r)
  \/ Provision(r) \/ Undo(r)
  \/ VMMListens(r) \/ VMMExits(r)

Next == \E r \in Requests : Step(r)

Spec == Init /\ [][Next]_vars

(* The goroutine of a request that was received runs.  Requests need not   *)
(* arrive, and a VMM need neither come up nor exit.                        *)
Fairness == \A r \in Requests : WF_vars(Provision(r) \/ Undo(r))

FairSpec == Spec /\ Fairness

-----------------------------------------------------------------------------
(* Properties *)
Final == {"ready", "bootFailed", "failed"}

Forward == {"start", "log", "spawn", "wait", "tap", "ip", "ports", "iptables",
            "cid", "disk", "create", "register", "boot", "shutdown"}

Backward == {"rmDisk", "freeCID", "freeIP", "delTap", "kill", "reap", "rmDir"}

(* Where createVM has passed Register. *)
Registered == {"boot", "shutdown", "ready", "bootFailed"}

(* "paused" is only reached by a restore: see module Restore. *)
VMMStates == {"none", "starting", "up", "created", "running", "paused", "dead"}

TypeOK ==
  /\ pc \in [Requests -> Forward \cup Backward \cup Final]
  /\ freeTaps \subseteq TapIDs /\ freeIPs \subseteq IPs
  /\ freeCIDs \subseteq CIDs /\ freePorts \subseteq Ports
  /\ tap \in [Requests -> TapIDs \cup {None}]
  /\ ip \in [Requests -> IPs \cup {None}]
  /\ cid \in [Requests -> CIDs \cup {None}]
  /\ hostPort \in [Requests -> Ports \cup {None}]
  /\ ports \in [Requests -> SUBSET Ports]
  /\ vms \in [Names -> Requests \cup {None}]
  /\ dir \subseteq Names
  /\ sock \in [Names -> Requests \cup {None}]
  /\ disk \in [Names -> Requests \cup {None}]
  /\ proc \in [Requests -> VMMStates]
  /\ guest \in [Requests -> Requests \cup {None}]

(* The identifiers each request took and did not give back. *)
Held(has) == [r \in Requests |-> {has[r]} \ {None}]
HeldPorts == [r \in Requests |-> ports[r] \cup ({hostPort[r]} \ {None})]

(* An identifier has one user: it is free, or one request has it.          *)
Apart(free, held) ==
  /\ \A r \in Requests : held[r] \cap free = {}
  /\ \A r, q \in Requests : r # q => held[r] \cap held[q] = {}

Accounted(Ids, free, held) ==
  \A i \in Ids : i \in free \/ \E r \in Requests : i \in held[r]

(* No two VMs, finished or under construction, share a tap device, an      *)
(* address, a CID or a host port, and nothing in use is in an allocator    *)
(* (server.go:967-1015 and its clean-ups, in any interleaving).            *)
NothingShared ==
  /\ Apart(freeTaps, Held(tap))
  /\ Apart(freeIPs, Held(ip))
  /\ Apart(freeCIDs, Held(cid))
  /\ Apart(freePorts, HeldPorts)

(* No address or CID is lost: what is not free belongs to a request that   *)
(* is still running or to a VM that was registered.  A failed StartVM gave *)
(* both back, and its own VMM is gone (server.go:903-1025).                *)
NothingLost ==
  /\ Accounted(IPs, freeIPs, Held(ip))
  /\ Accounted(CIDs, freeCIDs, Held(cid))
  /\ \A r \in Requests : pc[r] = "failed" =>
       ip[r] = None /\ cid[r] = None /\ proc[r] \in {"none", "dead"}

(* Every registered VM has everything its vm object was built from, even   *)
(* after its boot failed (server.go:1088-1109).                            *)
RegisteredOwnsResources ==
  \A n \in Names : vms[n] # None =>
    LET r == vms[n] IN
    /\ pc[r] \in Registered /\ Target[r] = n
    /\ tap[r] # None /\ ip[r] # None /\ cid[r] # None
    /\ Cardinality(ports[r]) = NumForwards

(* A guest that executes uses the tap, address, CID, forwarded ports and   *)
(* disk of the request whose VMM it runs in, and they are still that       *)
(* request's: no clean-up runs under a guest (server.go:1055-1085, 1358).  *)
RunningGuestOwnsResources ==
  \A p \in Requests : proc[p] = "running" =>
    /\ guest[p] = p
    /\ tap[p] # None /\ ip[p] # None /\ cid[p] # None
    /\ Cardinality(ports[p]) = NumForwards
    /\ disk[Target[p]] = p
    /\ Target[p] \in dir

(* A host port that was forwarded once is never handed out again, so a     *)
(* DNAT rule that outlives its VM cannot shadow the rule of a later VM     *)
(* (server.go:230-285: FreePort only after a failed iptables -A).          *)
HostPortsNeverReused ==
  [][\A r \in Requests : /\ ports[r] \subseteq ports'[r]
                         /\ ports[r] \cap freePorts' = {}]_vars

(* A request that was received ends, however its VMM behaves.              *)
RequestsEnd == \A r \in Requests : pc[r] # "start" ~> pc[r] \in Final

(* README.md:283, "Every VM started is managed by this server": a StartVM  *)
(* that succeeded and whose VMM still runs is in the registry.             *)
EveryVMManaged ==
  \A r \in Requests :
    pc[r] = "ready" /\ proc[r] = "running" => vms[Target[r]] = r

-----------------------------------------------------------------------------
(* The four allocators as pools whose clients are the requests. *)
TapPool == INSTANCE IdPool WITH Ids <- TapIDs, Clients <- Requests,
                                held <- Held(tap)
IPPool == INSTANCE IdPool WITH Ids <- IPs, Clients <- Requests,
                               held <- Held(ip)
CIDPool == INSTANCE IdPool WITH Ids <- CIDs, Clients <- Requests,
                                held <- Held(cid)
PortPool == INSTANCE IdPool WITH Ids <- Ports, Clients <- Requests,
                                 held <- HeldPorts

(* StartVM uses each allocator as IdPool allows: it is granted only what   *)
(* nobody holds, and gives back only what it holds.                        *)
UsesPools == TapPool!Spec /\ IPPool!Spec /\ CIDPool!Spec /\ PortPool!Spec
=============================================================================
