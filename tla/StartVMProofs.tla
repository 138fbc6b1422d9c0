--------------------------- MODULE StartVMProofs ---------------------------
(***************************************************************************)
(* For any number of requests, any pools and any targets, equal ones       *)
(* included: StartVM shares no identifier between two VMs, loses no        *)
(* address and no CID, and uses each allocator as IdPool allows.           *)
(*                                                                         *)
(* The argument: what a request holds is fixed by its pc (Phases), so a    *)
(* step either leaves a pool alone, takes one free identifier for a        *)
(* request, or gives back one that the request holds (Move).  A Move keeps *)
(* the identifiers apart and accounted for (MoveKeepsApart,                *)
(* MoveKeepsAccounted), whatever the pool is.                              *)
(***************************************************************************)
EXTENDS StartVM, TLAPS

(* Before CreateTapDevice, and from it to DestroyTapDevice. *)
BeforeTap == {"start", "log", "spawn", "wait", "tap"}
WithTap == {"ip", "ports", "iptables", "cid", "disk", "create", "register",
            "rmDisk", "freeCID", "freeIP", "delTap"} \cup Registered
WithIP == WithTap \ {"ip", "delTap"}
WithCID == {"disk", "create", "register", "rmDisk", "freeCID"} \cup Registered
WithPorts == {"cid", "disk", "create", "register"} \cup Registered

(* What a request holds and what its VMM is, by where the request is. *)
Phase(r) ==
  /\ pc[r] \in BeforeTap => tap[r] = None
  /\ pc[r] \in WithTap => tap[r] # None
  /\ ip[r] # None <=> pc[r] \in WithIP
  /\ cid[r] # None <=> pc[r] \in WithCID
  /\ hostPort[r] # None <=> pc[r] = "iptables"
  /\ hostPort[r] \notin ports[r]
  /\ pc[r] \in WithPorts => Cardinality(ports[r]) = NumForwards
  /\ pc[r] \in {"start", "log", "spawn"} => proc[r] = "none"
  /\ pc[r] \in {"rmDir", "failed"} => proc[r] \in {"none", "dead"}

Phases == \A r \in Requests : Phase(r)

(* TypeOK but for where the requests are. *)
Shape ==
  /\ freeTaps \subseteq TapIDs /\ freeIPs \subseteq IPs
  /\ freeCIDs \subseteq CIDs /\ freePorts \subseteq Ports
  /\ tap \in [Requests -> TapIDs \cup {None}]
  /\ ip \in [Requests -> IPs \cup {None}]
  /\ cid \in [Requests -> CIDs \cup {None}]
  /\ hostPort \in [Requests -> Ports \cup {None}]
  /\ ports \in [Requests -> SUBSET Ports]
  /\ vms \in [Names -> Requests \cup {None}]
  /\ dir \subseteq Names
  /\ sock \in [Names -> Requests \cup {None}]
  /\ disk \in [Names -> Requests \cup {None}]
  /\ proc \in [Requests -> VMMStates]
  /\ guest \in [Requests -> Requests \cup {None}]

StartPCs == Forward \cup Backward \cup Final

RegistryOK ==
  \A n \in Names : vms[n] # None =>
    pc[vms[n]] \in Registered /\ Target[vms[n]] = n

AllAccounted ==
  /\ Accounted(TapIDs, freeTaps, Held(tap))
  /\ Accounted(IPs, freeIPs, Held(ip))
  /\ Accounted(CIDs, freeCIDs, Held(cid))
  /\ Accounted(Ports, freePorts, HeldPorts)

Inv == TypeOK /\ Phases /\ RegistryOK /\ NothingShared /\ AllAccounted

-----------------------------------------------------------------------------
(* A step of one pool: from (free, held) to (free2, held2). *)
Take(r, i, free, held, free2, held2) ==
  /\ i \in free
  /\ free2 = free \ {i}
  /\ held2 = [held EXCEPT ![r] = @ \cup {i}]

Give(r, i, free, held, free2, held2) ==
  /\ i \in held[r]
  /\ free2 = free \cup {i}
  /\ held2 = [held EXCEPT ![r] = @ \ {i}]

Move(Ids, free, held, free2, held2) ==
  \/ free2 = free /\ held2 = held
  \/ \E r \in Requests, i \in Ids :
       \/ Take(r, i, free, held, free2, held2)
       \/ Give(r, i, free, held, free2, held2)

(* A move of a pool keeps its identifiers apart ... *)
LEMMA MoveKeepsApart ==
  ASSUME NEW Ids, NEW free, NEW held, NEW free2, NEW held2,
         held \in [Requests -> SUBSET Ids], Apart(free, held),
         Move(Ids, free, held, free2, held2)
  PROVE  Apart(free2, held2)
<1>1. CASE free2 = free /\ held2 = held
  BY <1>1
<1>2. ASSUME NEW r \in Requests, NEW i \in Ids,
             Take(r, i, free, held, free2, held2)
      PROVE  Apart(free2, held2)
  BY <1>2 DEF Take, Apart
<1>3. ASSUME NEW r \in Requests, NEW i \in Ids,
             Give(r, i, free, held, free2, held2)
      PROVE  Apart(free2, held2)
  BY <1>3 DEF Give, Apart
<1> QED BY <1>1, <1>2, <1>3 DEF Move

(* ... and accounted for. *)
LEMMA MoveKeepsAccounted ==
  ASSUME NEW Ids, NEW free, NEW held, NEW free2, NEW held2,
         held \in [Requests -> SUBSET Ids], Accounted(Ids, free, held),
         Move(Ids, free, held, free2, held2)
  PROVE  Accounted(Ids, free2, held2)
<1>1. CASE free2 = free /\ held2 = held
  BY <1>1
<1>2. ASSUME NEW r \in Requests, NEW i \in Ids, NEW j \in Ids,
             \/ Take(r, i, free, held, free2, held2)
             \/ Give(r, i, free, held, free2, held2)
      PROVE  j \in free2 \/ \E q \in Requests : j \in held2[q]
  <2>1. CASE j = i
    BY <1>2, <2>1 DEF Take, Give
  <2>2. CASE j # i
    BY <1>2, <2>2 DEF Take, Give, Accounted
  <2> QED BY <2>1, <2>2
<1> QED BY <1>1, <1>2 DEF Move, Accounted

-----------------------------------------------------------------------------
(* The steps of StartVM that touch a pool, pool by pool. *)
LEMMA PoolSteps ==
  ASSUME NEW r \in Requests, Provision(r) \/ Undo(r)
  PROVE  /\ \/ CreateTapDevice(r) \/ DestroyTapDevice(r)
            \/ UNCHANGED <<freeTaps, tap>>
         /\ \/ AllocateIP(r) \/ FreeIP(r)
            \/ UNCHANGED <<freeIPs, ip>>
         /\ \/ AllocateCID(r) \/ FreeCID(r)
            \/ UNCHANGED <<freeCIDs, cid>>
         /\ \/ AllocatePort(r) \/ AddRule(r) \/ AddRuleFails(r)
            \/ UNCHANGED <<freePorts, hostPort, ports>>
<1> USE DEF Provision, Undo, allocators, locals, CreateLog, SpawnVMM,
      CreateLogOrSpawnFails, WaitForServer, WaitForServerFails,
      CreateTapDeviceFails, AllocateIPFails, AllocatePortFails,
      PortForwardsDone, AllocateCIDFails, CreateStatefulDisk,
      CreateStatefulDiskFails, ApiCreateVM, ApiCreateVMFails, Register,
      Boot, BootFails, ShutdownVM, RemoveDisk, DestroyTapDeviceFails,
      KillVMM, ReapVMM, RemoveStateDir
<1>1. \/ CreateTapDevice(r) \/ DestroyTapDevice(r)
      \/ UNCHANGED <<freeTaps, tap>>
  BY DEF AllocateIP, FreeIP, AllocateCID, FreeCID, AllocatePort, AddRule,
         AddRuleFails
<1>2. \/ AllocateIP(r) \/ FreeIP(r)
      \/ UNCHANGED <<freeIPs, ip>>
  BY DEF CreateTapDevice, DestroyTapDevice, AllocateCID, FreeCID,
         AllocatePort, AddRule, AddRuleFails
<1>3. \/ AllocateCID(r) \/ FreeCID(r)
      \/ UNCHANGED <<freeCIDs, cid>>
  BY DEF CreateTapDevice, DestroyTapDevice, AllocateIP, FreeIP,
         AllocatePort, AddRule, AddRuleFails
<1>4. \/ AllocatePort(r) \/ AddRule(r) \/ AddRuleFails(r)
      \/ UNCHANGED <<freePorts, hostPort, ports>>
  BY DEF CreateTapDevice, DestroyTapDevice, AllocateIP, FreeIP,
         AllocateCID, FreeCID
<1> QED BY <1>1, <1>2, <1>3, <1>4

(* The steps outside Provision and Undo touch nothing the pools see. *)
LEMMA OtherSteps ==
  ASSUME NEW r \in Requests,
         \/ MakeStateDir(r) \/ MakeStateDirFails(r)
         \/ VMMListens(r) \/ VMMExits(r)
  PROVE  UNCHANGED <<allocators, locals, vms>>
BY DEF MakeStateDir, MakeStateDirFails, VMMListens, VMMExits

(* Taking an identifier for a request that holds none, and giving back     *)
(* what a request holds, are moves.                                        *)
LEMMA HeldType ==
  ASSUME NEW Ids, NEW has \in [Requests -> Ids \cup {None}]
  PROVE  Held(has) \in [Requests -> SUBSET Ids]
BY DEF Held

(* Taking one free identifier is a move. *)
LEMMA TakeMoves ==
  ASSUME NEW Ids, None \notin Ids, NEW r \in Requests,
         NEW has \in [Requests -> Ids \cup {None}],
         NEW free, NEW free2, NEW has2, NEW i \in free, i \in Ids,
         has[r] = None, free2 = free \ {i}, has2 = [has EXCEPT ![r] = i]
  PROVE  Move(Ids, free, Held(has), free2, Held(has2))
<1>1. Held(has2) = [Held(has) EXCEPT ![r] = @ \cup {i}]
  BY DEF Held
<1> QED BY <1>1 DEF Move, Take

(* Giving back the identifier one holds is a move. *)
LEMMA GiveMoves ==
  ASSUME NEW Ids, None \notin Ids, NEW r \in Requests,
         NEW has \in [Requests -> Ids \cup {None}],
         NEW free, NEW free2, NEW has2,
         has[r] # None, free2 = free \cup {has[r]},
         has2 = [has EXCEPT ![r] = None]
  PROVE  Move(Ids, free, Held(has), free2, Held(has2))
<1>1. Held(has2) = [Held(has) EXCEPT ![r] = @ \ {has[r]}]
  BY DEF Held
<1>2. has[r] \in Ids /\ has[r] \in Held(has)[r]
  BY DEF Held
<1> QED BY <1>1, <1>2 DEF Move, Give

(* The steps of a request that touch a pool are moves of it. *)
LEMMA TapMoves ==
  ASSUME Shape, NEW r \in Requests, Phase(r),
         CreateTapDevice(r) \/ DestroyTapDevice(r)
  PROVE  Move(TapIDs, freeTaps, Held(tap), freeTaps', Held(tap)')
<1> USE NoneAssumption
<1>1. CASE CreateTapDevice(r)
  <2>1. PICK t \in freeTaps : /\ freeTaps' = freeTaps \ {t}
                              /\ tap' = [tap EXCEPT ![r] = t]
    BY <1>1 DEF CreateTapDevice
  <2>2. tap[r] = None /\ t \in TapIDs
    BY <1>1 DEF CreateTapDevice, Goto, Phase, BeforeTap, Shape
  <2>3. Move(TapIDs, freeTaps, Held(tap), freeTaps', Held(tap'))
    BY <2>1, <2>2, TakeMoves DEF Shape
  <2> QED BY <2>3 DEF Held
<1>2. CASE DestroyTapDevice(r)
  <2>1. /\ freeTaps' = freeTaps \cup {tap[r]}
        /\ tap' = [tap EXCEPT ![r] = None]
        /\ tap[r] # None
    BY <1>2 DEF DestroyTapDevice, Goto, Phase, WithTap
  <2>2. Move(TapIDs, freeTaps, Held(tap), freeTaps', Held(tap'))
    BY <2>1, GiveMoves DEF Shape
  <2> QED BY <2>2 DEF Held
<1> QED BY <1>1, <1>2

(* The same of addresses, *)
LEMMA IPMoves ==
  ASSUME Shape, NEW r \in Requests, Phase(r),
         AllocateIP(r) \/ FreeIP(r)
  PROVE  Move(IPs, freeIPs, Held(ip), freeIPs', Held(ip)')
<1> USE NoneAssumption
<1>1. CASE AllocateIP(r)
  <2>1. PICK i \in freeIPs : /\ freeIPs' = freeIPs \ {i}
                             /\ ip' = [ip EXCEPT ![r] = i]
    BY <1>1 DEF AllocateIP
  <2>2. ip[r] = None /\ i \in IPs
    BY <1>1 DEF AllocateIP, Goto, Phase, WithIP, Shape
  <2>3. Move(IPs, freeIPs, Held(ip), freeIPs', Held(ip'))
    BY <2>1, <2>2, TakeMoves DEF Shape
  <2> QED BY <2>3 DEF Held
<1>2. CASE FreeIP(r)
  <2>1. /\ freeIPs' = freeIPs \cup {ip[r]}
        /\ ip' = [ip EXCEPT ![r] = None]
        /\ ip[r] # None
    BY <1>2 DEF FreeIP, Goto, Phase, WithIP, WithTap
  <2>2. Move(IPs, freeIPs, Held(ip), freeIPs', Held(ip'))
    BY <2>1, GiveMoves DEF Shape
  <2> QED BY <2>2 DEF Held
<1> QED BY <1>1, <1>2

(* of CIDs, *)
LEMMA CIDMoves ==
  ASSUME Shape, NEW r \in Requests, Phase(r),
         AllocateCID(r) \/ FreeCID(r)
  PROVE  Move(CIDs, freeCIDs, Held(cid), freeCIDs', Held(cid)')
<1> USE NoneAssumption
<1>1. CASE AllocateCID(r)
  <2>1. PICK c \in freeCIDs : /\ freeCIDs' = freeCIDs \ {c}
                              /\ cid' = [cid EXCEPT ![r] = c]
    BY <1>1 DEF AllocateCID
  <2>2. cid[r] = None /\ c \in CIDs
    BY <1>1 DEF AllocateCID, Goto, Phase, WithCID, Registered, Shape
  <2>3. Move(CIDs, freeCIDs, Held(cid), freeCIDs', Held(cid'))
    BY <2>1, <2>2, TakeMoves DEF Shape
  <2> QED BY <2>3 DEF Held
<1>2. CASE FreeCID(r)
  <2>1. /\ freeCIDs' = freeCIDs \cup {cid[r]}
        /\ cid' = [cid EXCEPT ![r] = None]
        /\ cid[r] # None
    BY <1>2 DEF FreeCID, Goto, Phase, WithCID
  <2>2. Move(CIDs, freeCIDs, Held(cid), freeCIDs', Held(cid'))
    BY <2>1, GiveMoves DEF Shape
  <2> QED BY <2>2 DEF Held
<1> QED BY <1>1, <1>2

(* The port of a forward that was not set up goes back. *)
LEMMA ForwardUndone ==
  ASSUME Shape, NEW r \in Requests,
         hostPort[r] # None, hostPort[r] \notin ports[r],
         freePorts' = freePorts \cup {hostPort[r]},
         hostPort' = [hostPort EXCEPT ![r] = None], ports' = ports
  PROVE  Move(Ports, freePorts, HeldPorts, freePorts', HeldPorts')
<1> USE NoneAssumption DEF Shape
<1>1. hostPort[r] \in Ports
  OBVIOUS
<1>2. HeldPorts' = [HeldPorts EXCEPT ![r] = @ \ {hostPort[r]}]
  <2>1. \A q \in Requests :
          ports'[q] \cup ({hostPort'[q]} \ {None})
            = IF q = r
              THEN (ports[q] \cup ({hostPort[q]} \ {None})) \ {hostPort[r]}
              ELSE ports[q] \cup ({hostPort[q]} \ {None})
    OBVIOUS
  <2> QED BY <2>1 DEF HeldPorts
<1>3. hostPort[r] \in HeldPorts[r]
  BY <1>1 DEF HeldPorts
<1>4. Give(r, hostPort[r], freePorts, HeldPorts, freePorts', HeldPorts')
  BY <1>2, <1>3 DEF Give
<1> QED BY <1>1, <1>4 DEF Move

(* The port being forwarded counts as held, so AddRule moves nothing. *)
LEMMA PortMoves ==
  ASSUME Shape, NEW r \in Requests,
         hostPort[r] # None <=> pc[r] = "iptables", hostPort[r] \notin ports[r],
         AllocatePort(r) \/ AddRule(r) \/ AddRuleFails(r)
  PROVE  Move(Ports, freePorts, HeldPorts, freePorts', HeldPorts')
<1> USE NoneAssumption DEF Shape
<1> HeldPorts \in [Requests -> SUBSET Ports]
  BY DEF HeldPorts
<1>1. CASE AllocatePort(r)
  <2>1. PICK p \in freePorts :
          /\ freePorts' = freePorts \ {p}
          /\ hostPort' = [hostPort EXCEPT ![r] = p]
          /\ ports' = ports
          /\ hostPort[r] = None
          /\ p \in Ports
    BY <1>1 DEF AllocatePort, Goto
  <2>2. HeldPorts' = [HeldPorts EXCEPT ![r] = @ \cup {p}]
    <3>1. \A q \in Requests :
            ports'[q] \cup ({hostPort'[q]} \ {None})
              = IF q = r THEN (ports[q] \cup ({hostPort[q]} \ {None})) \cup {p}
                ELSE ports[q] \cup ({hostPort[q]} \ {None})
      BY <2>1
    <3> QED BY <3>1 DEF HeldPorts
  <2>3. Take(r, p, freePorts, HeldPorts, freePorts', HeldPorts')
    BY <2>1, <2>2 DEF Take
  <2> QED BY <2>1, <2>3 DEF Move
<1>2. CASE AddRule(r)
  <2>1. HeldPorts' = HeldPorts
    BY <1>2 DEF AddRule, Goto, HeldPorts
  <2>2. freePorts' = freePorts
    BY <1>2 DEF AddRule, allocators
  <2> QED BY <2>1, <2>2 DEF Move
<1>3. CASE AddRuleFails(r)
  BY <1>3, ForwardUndone DEF AddRuleFails, Goto
<1> QED BY <1>1, <1>2, <1>3

(* Every step moves each of the four pools. *)
LEMMA NextMoves ==
  ASSUME Inv, [Next]_vars
  PROVE  /\ Move(TapIDs, freeTaps, Held(tap), freeTaps', Held(tap)')
         /\ Move(IPs, freeIPs, Held(ip), freeIPs', Held(ip)')
         /\ Move(CIDs, freeCIDs, Held(cid), freeCIDs', Held(cid)')
         /\ Move(Ports, freePorts, HeldPorts, freePorts', HeldPorts')
<1> USE NoneAssumption DEF Inv
<1>0. /\ freeTaps' = freeTaps /\ tap' = tap =>
           Move(TapIDs, freeTaps, Held(tap), freeTaps', Held(tap)')
      /\ freeIPs' = freeIPs /\ ip' = ip =>
           Move(IPs, freeIPs, Held(ip), freeIPs', Held(ip)')
      /\ freeCIDs' = freeCIDs /\ cid' = cid =>
           Move(CIDs, freeCIDs, Held(cid), freeCIDs', Held(cid)')
      /\ freePorts' = freePorts /\ hostPort' = hostPort /\ ports' = ports =>
           Move(Ports, freePorts, HeldPorts, freePorts', HeldPorts')
  BY DEF Move, Held, HeldPorts
<1>1. CASE \E r \in Requests : Provision(r) \/ Undo(r)
  <2>1. Shape /\ \A r \in Requests : Phase(r)
    BY DEF TypeOK, Shape, Phases
  <2>2. \A r \in Requests :
          /\ hostPort[r] # None <=> pc[r] = "iptables"
          /\ hostPort[r] \notin ports[r]
    BY <2>1 DEF Phase
  <2> QED
    BY <1>0, <1>1, <2>1, <2>2, PoolSteps, TapMoves, IPMoves, CIDMoves, PortMoves
<1>2. CASE \E r \in Requests : \/ MakeStateDir(r) \/ MakeStateDirFails(r)
                               \/ VMMListens(r) \/ VMMExits(r)
  BY <1>0, <1>2, OtherSteps DEF allocators, locals
<1>3. CASE UNCHANGED vars
  BY <1>0, <1>3 DEF vars, allocators, locals
<1> QED BY <1>1, <1>2, <1>3 DEF Next, Step

-----------------------------------------------------------------------------
(* Initially nothing is taken and no request has begun. *)
LEMMA InitInv == Init => Inv
<1> SUFFICES ASSUME Init PROVE Inv
  OBVIOUS
<1> USE NoneAssumption DEF Init
<1>1. TypeOK
  BY DEF TypeOK, Forward, VMMStates
<1>2. Phases /\ RegistryOK
  BY DEF Phases, Phase, RegistryOK, BeforeTap, WithTap, WithIP, WithCID, WithPorts,
         Registered
<1>3. NothingShared
  BY DEF NothingShared, Apart, Held, HeldPorts
<1>4. AllAccounted
  BY DEF AllAccounted, Accounted
<1> QED BY <1>1, <1>2, <1>3, <1>4 DEF Inv

(* What a step of r leaves to the other requests: all they hold, and a     *)
(* VMM that does not run stays as it is.                                   *)
Spares(r) ==
  \A q \in Requests \ {r} :
    /\ pc'[q] = pc[q]
    /\ tap'[q] = tap[q] /\ ip'[q] = ip[q] /\ cid'[q] = cid[q]
    /\ hostPort'[q] = hostPort[q] /\ ports'[q] = ports[q]
    /\ proc[q] \in {"none", "dead"} => proc'[q] = proc[q]

(* A step keeps the types, leaves r holding what its new pc says and the   *)
(* others holding what they had, and registers no VM but at "register".    *)
(* PCs is any set of places: those of StartVM, or more.                    *)
LEMMA StepKeepsPhase ==
  ASSUME Shape, NEW PCs, pc \in [Requests -> PCs],
         NEW r \in Requests, pc[r] \in StartPCs, Phase(r),
         freePorts \cap ports[r] = {}, Step(r)
  PROVE  /\ Shape' /\ Phase(r)' /\ Spares(r)
         /\ pc'[r] \in StartPCs /\ pc' = [pc EXCEPT ![r] = pc'[r]]
         /\ pc[r] \in Registered => pc'[r] \in Registered
         /\ \/ vms' = vms
            \/ /\ vms' = [vms EXCEPT ![Target[r]] = r]
               /\ pc'[r] \in Registered
<1> USE NoneAssumption, TargetAssumption
    DEF Shape, Phase, Spares, Goto, StartPCs, Forward, Backward, Final,
        Registered, VMMStates, BeforeTap, WithTap, WithIP, WithCID,
        WithPorts, vars, allocators, locals, files, vmms
<1>1. CASE MakeStateDir(r)
  BY <1>1 DEF MakeStateDir
<1>2. CASE MakeStateDirFails(r)
  BY <1>2 DEF MakeStateDirFails
<1>3. CASE CreateLog(r)
  BY <1>3 DEF CreateLog
<1>4. CASE SpawnVMM(r)
  BY <1>4 DEF SpawnVMM
<1>5. CASE CreateLogOrSpawnFails(r)
  BY <1>5 DEF CreateLogOrSpawnFails
<1>6. CASE WaitForServer(r)
  BY <1>6 DEF WaitForServer
<1>7. CASE WaitForServerFails(r)
  BY <1>7 DEF WaitForServerFails
<1>8. CASE CreateTapDevice(r)
  BY <1>8 DEF CreateTapDevice
<1>9. CASE CreateTapDeviceFails(r)
  BY <1>9 DEF CreateTapDeviceFails
<1>10. CASE AllocateIP(r)
  BY <1>10 DEF AllocateIP
<1>11. CASE AllocateIPFails(r)
  BY <1>11 DEF AllocateIPFails
<1>12. CASE AllocatePort(r)
  BY <1>12 DEF AllocatePort
<1>13. CASE AllocatePortFails(r)
  BY <1>13 DEF AllocatePortFails
<1>14. CASE AddRule(r)
  BY <1>14 DEF AddRule
<1>15. CASE AddRuleFails(r)
  BY <1>15 DEF AddRuleFails
<1>16. CASE PortForwardsDone(r)
  BY <1>16 DEF PortForwardsDone
<1>17. CASE AllocateCID(r)
  BY <1>17 DEF AllocateCID
<1>18. CASE AllocateCIDFails(r)
  BY <1>18 DEF AllocateCIDFails
<1>19. CASE CreateStatefulDisk(r)
  BY <1>19 DEF CreateStatefulDisk
<1>20. CASE CreateStatefulDiskFails(r)
  BY <1>20 DEF CreateStatefulDiskFails
<1>21. CASE ApiCreateVM(r)
  BY <1>21 DEF ApiCreateVM, TakeConfig, Serving
<1>22. CASE ApiCreateVMFails(r)
  BY <1>22 DEF ApiCreateVMFails, TakeConfig, Serving
<1>23. CASE Register(r)
  BY <1>23 DEF Register
<1>24. CASE Boot(r)
  BY <1>24 DEF Boot, BootTakes, Serving
<1>25. CASE BootFails(r)
  BY <1>25 DEF BootFails, BootTakes, Serving
<1>26. CASE ShutdownVM(r)
  BY <1>26 DEF ShutdownVM, Serving
<1>27. CASE RemoveDisk(r)
  BY <1>27 DEF RemoveDisk
<1>28. CASE FreeCID(r)
  BY <1>28 DEF FreeCID
<1>29. CASE FreeIP(r)
  BY <1>29 DEF FreeIP
<1>30. CASE DestroyTapDevice(r)
  BY <1>30 DEF DestroyTapDevice
<1>31. CASE DestroyTapDeviceFails(r)
  BY <1>31 DEF DestroyTapDeviceFails
<1>32. CASE KillVMM(r)
  BY <1>32 DEF KillVMM
<1>33. CASE ReapVMM(r)
  BY <1>33 DEF ReapVMM
<1>34. CASE RemoveStateDir(r)
  BY <1>34 DEF RemoveStateDir
<1>35. CASE VMMListens(r)
  BY <1>35 DEF VMMListens
<1>36. CASE VMMExits(r)
  BY <1>36 DEF VMMExits
<1> QED
  BY <1>1, <1>2, <1>3, <1>4, <1>5, <1>6, <1>7, <1>8, <1>9, <1>10, <1>11,
     <1>12, <1>13, <1>14, <1>15, <1>16, <1>17, <1>18, <1>19, <1>20, <1>21,
     <1>22, <1>23, <1>24, <1>25, <1>26, <1>27, <1>28, <1>29, <1>30, <1>31,
     <1>32, <1>33, <1>34, <1>35, <1>36 DEF Step, Provision, Undo

(* Both halves of the invariant survive every step. *)
LEMMA NextKeepsInv == Inv /\ [Next]_vars => Inv'
<1> SUFFICES ASSUME Inv, [Next]_vars PROVE Inv'
  OBVIOUS
<1>1. TypeOK' /\ Phases' /\ RegistryOK'
  <2>1. ASSUME NEW r \in Requests, Step(r)
        PROVE  TypeOK' /\ Phases' /\ RegistryOK'
    <3>1. /\ Shape /\ pc \in [Requests -> StartPCs] /\ Phase(r)
          /\ pc[r] \in StartPCs /\ freePorts \cap ports[r] = {}
      BY DEF Inv, TypeOK, Shape, StartPCs, Phases, NothingShared, Apart,
             HeldPorts
    <3>2. /\ Shape' /\ Phase(r)' /\ Spares(r)
          /\ pc'[r] \in StartPCs /\ pc' = [pc EXCEPT ![r] = pc'[r]]
          /\ pc[r] \in Registered => pc'[r] \in Registered
          /\ \/ vms' = vms
             \/ /\ vms' = [vms EXCEPT ![Target[r]] = r]
                /\ pc'[r] \in Registered
      BY <2>1, <3>1, StepKeepsPhase
    <3>3. TypeOK'
      BY <3>1, <3>2 DEF TypeOK, Shape, StartPCs
    <3>4. ASSUME NEW q \in Requests, q # r PROVE Phase(q)'
      BY <3>2, <3>4 DEF Inv, Phases, Phase, Spares
    <3>5. RegistryOK'
      BY <3>1, <3>2, TargetAssumption, NoneAssumption
         DEF Inv, RegistryOK, Shape, Spares
    <3> QED BY <3>2, <3>3, <3>4, <3>5 DEF Phases
  <2>2. CASE UNCHANGED vars
    BY <2>2 DEF Inv, TypeOK, Phases, Phase, RegistryOK, vars, allocators,
                locals, files, vmms
  <2> QED BY <2>1, <2>2 DEF Next
<1>2. /\ Apart(freeTaps', Held(tap)')
      /\ Accounted(TapIDs, freeTaps', Held(tap)')
  BY NextMoves, MoveKeepsApart, MoveKeepsAccounted, HeldType
     DEF Inv, TypeOK, NothingShared, AllAccounted
<1>3. Apart(freeIPs', Held(ip)') /\ Accounted(IPs, freeIPs', Held(ip)')
  BY NextMoves, MoveKeepsApart, MoveKeepsAccounted, HeldType
     DEF Inv, TypeOK, NothingShared, AllAccounted
<1>4. /\ Apart(freeCIDs', Held(cid)')
      /\ Accounted(CIDs, freeCIDs', Held(cid)')
  BY NextMoves, MoveKeepsApart, MoveKeepsAccounted, HeldType
     DEF Inv, TypeOK, NothingShared, AllAccounted
<1>5. Apart(freePorts', HeldPorts') /\ Accounted(Ports, freePorts', HeldPorts')
  <2>1. HeldPorts \in [Requests -> SUBSET Ports]
    BY DEF HeldPorts, Inv, TypeOK
  <2> QED BY <2>1, NextMoves, MoveKeepsApart, MoveKeepsAccounted
        DEF Inv, NothingShared, AllAccounted
<1>6. NothingShared' /\ AllAccounted'
  BY <1>2, <1>3, <1>4, <1>5 DEF NothingShared, AllAccounted, Apart, Accounted
<1> QED BY <1>1, <1>6 DEF Inv

(* The inductive invariant holds in every state. *)
THEOREM InvAlways == Spec => []Inv
BY InitInv, NextKeepsInv, PTL DEF Spec

(* Every reachable state is a state of the right shape. *)
THEOREM TypeCorrect == Spec => []TypeOK
BY InvAlways, PTL DEF Inv

(* No interleaving of StartVM requests, failures and clean-ups lets two    *)
(* VMs share a tap device, an address, a CID or a host port.               *)
THEOREM NeverShared == Spec => []NothingShared
BY InvAlways, PTL DEF Inv

(* No address and no CID is lost, and a failed StartVM keeps neither.      *)
THEOREM NeverLost == Spec => []NothingLost
<1>1. Inv => NothingLost
  BY DEF Inv, Phases, Phase, AllAccounted, NothingLost, WithIP, WithTap, WithCID,
         Registered
<1> QED BY <1>1, InvAlways, PTL

(* A registered VM still has all that its vm object was built from.        *)
THEOREM RegisteredOwns == Spec => []RegisteredOwnsResources
<1>1. Inv => RegisteredOwnsResources
  BY DEF Inv, Phases, Phase, RegistryOK, RegisteredOwnsResources, WithTap, WithIP,
         WithCID, WithPorts, Registered, TypeOK
<1> QED BY <1>1, InvAlways, PTL


(* A host port that carried a forward is never free again. *)
THEOREM PortsNeverReused == Spec => HostPortsNeverReused
<1>1. Inv /\ Inv' /\ [Next]_vars =>
        [\A r \in Requests : /\ ports[r] \subseteq ports'[r]
                             /\ ports[r] \cap freePorts' = {}]_vars
  <2> SUFFICES ASSUME Inv, Inv', Next, NEW r \in Requests
               PROVE  ports[r] \subseteq ports'[r] /\ ports[r] \cap freePorts' = {}
    OBVIOUS
  <2>1. ports[r] \subseteq ports'[r]
    <3>1. \A q \in Requests : AllocatePort(q) \/ AddRule(q) \/ AddRuleFails(q)
                                => ports[r] \subseteq ports'[r]
      BY DEF Inv, TypeOK, AllocatePort, AddRule, AddRuleFails
    <3> QED BY <3>1, PoolSteps, OtherSteps DEF Next, Step, locals
  <2>2. ports'[r] \cap freePorts' = {}
    BY DEF Inv, NothingShared, Apart, HeldPorts
  <2> QED BY <2>1, <2>2
<1> QED BY <1>1, InvAlways, PTL DEF Spec, HostPortsNeverReused

-----------------------------------------------------------------------------
(* A move of the tap numbers is a step of their pool; ... *)
LEMMA TapPoolStep ==
  ASSUME Held(tap) \in [Requests -> SUBSET TapIDs], Apart(freeTaps, Held(tap)),
         Move(TapIDs, freeTaps, Held(tap), freeTaps', Held(tap)')
  PROVE  [TapPool!Next]_(Held(tap))
<1>1. \/ Held(tap)' = Held(tap)
      \/ \E r \in Requests, i \in TapIDs :
           \/ /\ \A q \in Requests : i \notin Held(tap)[q]
              /\ Held(tap)' = [Held(tap) EXCEPT ![r] = @ \cup {i}]
           \/ /\ i \in Held(tap)[r]
              /\ Held(tap)' = [Held(tap) EXCEPT ![r] = @ \ {i}]
  BY DEF Move, Take, Give, Apart
<1> QED BY <1>1 DEF TapPool!Next, TapPool!Grant, TapPool!Release, TapPool!Unheld

(* ... so is one of the addresses, ... *)
LEMMA IPPoolStep ==
  ASSUME Held(ip) \in [Requests -> SUBSET IPs], Apart(freeIPs, Held(ip)),
         Move(IPs, freeIPs, Held(ip), freeIPs', Held(ip)')
  PROVE  [IPPool!Next]_(Held(ip))
<1>1. \/ Held(ip)' = Held(ip)
      \/ \E r \in Requests, i \in IPs :
           \/ /\ \A q \in Requests : i \notin Held(ip)[q]
              /\ Held(ip)' = [Held(ip) EXCEPT ![r] = @ \cup {i}]
           \/ /\ i \in Held(ip)[r]
              /\ Held(ip)' = [Held(ip) EXCEPT ![r] = @ \ {i}]
  BY DEF Move, Take, Give, Apart
<1> QED BY <1>1 DEF IPPool!Next, IPPool!Grant, IPPool!Release, IPPool!Unheld

(* ... of the CIDs, ... *)
LEMMA CIDPoolStep ==
  ASSUME Held(cid) \in [Requests -> SUBSET CIDs], Apart(freeCIDs, Held(cid)),
         Move(CIDs, freeCIDs, Held(cid), freeCIDs', Held(cid)')
  PROVE  [CIDPool!Next]_(Held(cid))
<1>1. \/ Held(cid)' = Held(cid)
      \/ \E r \in Requests, i \in CIDs :
           \/ /\ \A q \in Requests : i \notin Held(cid)[q]
              /\ Held(cid)' = [Held(cid) EXCEPT ![r] = @ \cup {i}]
           \/ /\ i \in Held(cid)[r]
              /\ Held(cid)' = [Held(cid) EXCEPT ![r] = @ \ {i}]
  BY DEF Move, Take, Give, Apart
<1> QED BY <1>1 DEF CIDPool!Next, CIDPool!Grant, CIDPool!Release, CIDPool!Unheld

(* ... and of the host ports. *)
LEMMA PortPoolStep ==
  ASSUME HeldPorts \in [Requests -> SUBSET Ports], Apart(freePorts, HeldPorts),
         Move(Ports, freePorts, HeldPorts, freePorts', HeldPorts')
  PROVE  [PortPool!Next]_(HeldPorts)
<1>1. \/ HeldPorts' = HeldPorts
      \/ \E r \in Requests, i \in Ports :
           \/ /\ \A q \in Requests : i \notin HeldPorts[q]
              /\ HeldPorts' = [HeldPorts EXCEPT ![r] = @ \cup {i}]
           \/ /\ i \in HeldPorts[r]
              /\ HeldPorts' = [HeldPorts EXCEPT ![r] = @ \ {i}]
  BY DEF Move, Take, Give, Apart
<1> QED BY <1>1 DEF PortPool!Next, PortPool!Grant, PortPool!Release, PortPool!Unheld

(* StartVM is a client each allocator can trust: it implements IdPool for  *)
(* tap numbers, addresses, CIDs and host ports.                            *)
THEOREM UsesAllocators == Spec => UsesPools
<1>1. Init => TapPool!Init /\ IPPool!Init /\ CIDPool!Init /\ PortPool!Init
  BY DEF Init, TapPool!Init, IPPool!Init, CIDPool!Init, PortPool!Init,
         Held, HeldPorts
<1>2. Inv /\ [Next]_vars => /\ [TapPool!Next]_(Held(tap))
                           /\ [IPPool!Next]_(Held(ip))
                           /\ [CIDPool!Next]_(Held(cid))
                           /\ [PortPool!Next]_(HeldPorts)
  <2> SUFFICES ASSUME Inv, [Next]_vars
               PROVE  /\ [TapPool!Next]_(Held(tap))
                      /\ [IPPool!Next]_(Held(ip))
                      /\ [CIDPool!Next]_(Held(cid))
                      /\ [PortPool!Next]_(HeldPorts)
    OBVIOUS
  <2>1. [TapPool!Next]_(Held(tap))
    BY HeldType, NextMoves, TapPoolStep DEF Inv, TypeOK, NothingShared
  <2>2. [IPPool!Next]_(Held(ip))
    BY HeldType, NextMoves, IPPoolStep DEF Inv, TypeOK, NothingShared
  <2>3. [CIDPool!Next]_(Held(cid))
    BY HeldType, NextMoves, CIDPoolStep DEF Inv, TypeOK, NothingShared
  <2>4. [PortPool!Next]_(HeldPorts)
    <3>1. HeldPorts \in [Requests -> SUBSET Ports]
      BY DEF Inv, TypeOK, HeldPorts
    <3> QED BY <3>1, NextMoves, PortPoolStep DEF Inv, NothingShared
  <2> QED BY <2>1, <2>2, <2>3, <2>4
<1> QED
  BY <1>1, <1>2, InvAlways, PTL
     DEF Spec, UsesPools, TapPool!Spec, IPPool!Spec, CIDPool!Spec, PortPool!Spec

-----------------------------------------------------------------------------
(* If no two requests ask for the same VM, no request meets the socket,    *)
(* the directory or the disk of another: what is at a path is its own.     *)
DistinctTargets == \A r, q \in Requests : Target[r] = Target[q] => r = q

Files ==
  /\ \A r \in Requests :
       /\ pc[r] \notin {"start", "failed"} => Target[r] \in dir
       /\ pc[r] \in {"create", "register"} \cup Registered
            => disk[Target[r]] = r
       /\ proc[r] = "running" => pc[r] \in Registered
       /\ proc[r] \in {"created", "running"} => guest[r] = r
  /\ \A n \in Names : sock[n] # None => Target[sock[n]] = n

(* Every step leaves each request its own files, and each VMM the guest of *)
(* the request that spawned it.                                            *)
LEMMA StepKeepsFiles ==
  ASSUME DistinctTargets, Shape, Files, pc \in [Requests -> StartPCs],
         NEW r \in Requests, Phase(r), Step(r)
  PROVE  Files'
<1> USE NoneAssumption, TargetAssumption
    DEF DistinctTargets, Shape, Files, Goto, Registered, VMMStates,
        vars, allocators, locals, files, vmms
<1>1. CASE MakeStateDir(r)
  BY <1>1 DEF MakeStateDir
<1>2. CASE MakeStateDirFails(r)
  BY <1>2 DEF MakeStateDirFails
<1>3. CASE CreateLog(r)
  BY <1>3 DEF CreateLog
<1>4. CASE SpawnVMM(r)
  BY <1>4 DEF SpawnVMM
<1>5. CASE CreateLogOrSpawnFails(r)
  BY <1>5 DEF CreateLogOrSpawnFails
<1>6. CASE WaitForServer(r)
  BY <1>6 DEF WaitForServer
<1>7. CASE WaitForServerFails(r)
  BY <1>7 DEF WaitForServerFails
<1>8. CASE CreateTapDevice(r)
  BY <1>8 DEF CreateTapDevice
<1>9. CASE CreateTapDeviceFails(r)
  BY <1>9 DEF CreateTapDeviceFails
<1>10. CASE AllocateIP(r)
  BY <1>10 DEF AllocateIP
<1>11. CASE AllocateIPFails(r)
  BY <1>11 DEF AllocateIPFails
<1>12. CASE AllocatePort(r)
  BY <1>12 DEF AllocatePort
<1>13. CASE AllocatePortFails(r)
  BY <1>13 DEF AllocatePortFails
<1>14. CASE AddRule(r)
  BY <1>14 DEF AddRule
<1>15. CASE AddRuleFails(r)
  BY <1>15 DEF AddRuleFails
<1>16. CASE PortForwardsDone(r)
  BY <1>16 DEF PortForwardsDone
<1>17. CASE AllocateCID(r)
  BY <1>17 DEF AllocateCID
<1>18. CASE AllocateCIDFails(r)
  BY <1>18 DEF AllocateCIDFails
<1>19. CASE CreateStatefulDisk(r)
  BY <1>19 DEF CreateStatefulDisk
<1>20. CASE CreateStatefulDiskFails(r)
  BY <1>20 DEF CreateStatefulDiskFails
<1>21. CASE ApiCreateVM(r)
  BY <1>21 DEF ApiCreateVM, TakeConfig, Serving
<1>22. CASE ApiCreateVMFails(r)
  BY <1>22 DEF ApiCreateVMFails, TakeConfig, Serving
<1>23. CASE Register(r)
  BY <1>23 DEF Register
<1>24. CASE Boot(r)
  BY <1>24 DEF Boot, BootTakes, Serving
<1>25. CASE BootFails(r)
  BY <1>25 DEF BootFails, BootTakes, Serving
<1>26. CASE ShutdownVM(r)
  BY <1>26 DEF ShutdownVM, Serving
<1>27. CASE RemoveDisk(r)
  BY <1>27 DEF RemoveDisk
<1>28. CASE FreeCID(r)
  BY <1>28 DEF FreeCID
<1>29. CASE FreeIP(r)
  BY <1>29 DEF FreeIP
<1>30. CASE DestroyTapDevice(r)
  BY <1>30 DEF DestroyTapDevice
<1>31. CASE DestroyTapDeviceFails(r)
  BY <1>31 DEF DestroyTapDeviceFails
<1>32. CASE KillVMM(r)
  BY <1>32 DEF KillVMM
<1>33. CASE ReapVMM(r)
  BY <1>33 DEF ReapVMM
<1>34. CASE RemoveStateDir(r)
  BY <1>34 DEF RemoveStateDir
<1>35. CASE VMMListens(r)
  BY <1>35 DEF VMMListens
<1>36. CASE VMMExits(r)
  BY <1>36 DEF VMMExits
<1> QED
  BY <1>1, <1>2, <1>3, <1>4, <1>5, <1>6, <1>7, <1>8, <1>9, <1>10,
     <1>11, <1>12, <1>13, <1>14, <1>15, <1>16, <1>17, <1>18, <1>19,
     <1>20, <1>21, <1>22, <1>23, <1>24, <1>25, <1>26, <1>27, <1>28,
     <1>29, <1>30, <1>31, <1>32, <1>33, <1>34, <1>35, <1>36 DEF Step, Provision, Undo

(* A guest that runs uses the tap, address, CID, forwarded ports and disk  *)
(* of the request whose VMM it runs in, and they are still that request's, *)
(* if no two requests ask for the same VM.                                 *)
THEOREM RunningGuestsOwn ==
  ASSUME DistinctTargets
  PROVE  Spec => []RunningGuestOwnsResources
<1>1. Init => Files
  BY NoneAssumption DEF Init, Files, Registered
<1>2. Inv /\ Files /\ [Next]_vars => Files'
  <2> SUFFICES ASSUME Inv, Files, [Next]_vars PROVE Files'
    OBVIOUS
  <2>1. CASE Next
    <3>1. /\ Shape /\ pc \in [Requests -> StartPCs]
          /\ \A r \in Requests : Phase(r)
      BY DEF Inv, TypeOK, Shape, StartPCs, Phases
    <3> QED BY <2>1, <3>1, StepKeepsFiles DEF Next
  <2>2. CASE UNCHANGED vars
    BY <2>2 DEF Files, vars, files, vmms
  <2> QED BY <2>1, <2>2
<1>3. Inv /\ Files => RunningGuestOwnsResources
  BY DEF Inv, Phases, Phase, Files, RunningGuestOwnsResources, Registered,
         WithTap, WithIP, WithCID, WithPorts
<1> QED BY <1>1, <1>2, <1>3, InvAlways, PTL DEF Spec

(* Only Register writes to the registry, and a request gets to boot its VM *)
(* by it alone.                                                            *)
LEMMA OnlyRegisterWrites ==
  ASSUME Shape, pc \in [Requests -> StartPCs],
         NEW r \in Requests, Phase(r), Step(r)
  PROVE  /\ \A q \in Requests : q # r => pc'[q] = pc[q]
         /\ \/ vms' = vms /\ (pc'[r] \in Registered => pc[r] \in Registered)
            \/ vms' = [vms EXCEPT ![Target[r]] = r]
<1> USE DEF Goto, Registered, Shape, vars, allocators, locals, files, vmms
<1>1. CASE Provision(r)
  BY <1>1 DEF Provision, CreateLog, SpawnVMM, CreateLogOrSpawnFails, WaitForServer,
     WaitForServerFails, CreateTapDevice, CreateTapDeviceFails, AllocateIP,
     AllocateIPFails, AllocatePort, AllocatePortFails, AddRule, AddRuleFails,
     PortForwardsDone, AllocateCID, AllocateCIDFails, CreateStatefulDisk,
     CreateStatefulDiskFails, ApiCreateVM, ApiCreateVMFails, Register, Boot,
     BootFails, ShutdownVM
<1>2. CASE ~Provision(r)
  BY <1>2 DEF Step, Undo, MakeStateDir, MakeStateDirFails, RemoveDisk, FreeCID, FreeIP,
     DestroyTapDevice, DestroyTapDeviceFails, KillVMM, ReapVMM, RemoveStateDir,
     VMMListens, VMMExits
<1> QED BY <1>1, <1>2

(* README.md:283 holds as long as no two requests ask for the same VM: a   *)
(* VM that was started is the one in the registry under its name.  (With   *)
(* two such requests it does not, run start_orphan.)                       *)
THEOREM DistinctVMsAreManaged ==
  ASSUME DistinctTargets
  PROVE  Spec => []EveryVMManaged
<1> DEFINE Managed == \A r \in Requests : pc[r] \in Registered => vms[Target[r]] = r
<1>1. Init => Managed
  BY DEF Init, Registered
<1>2. Inv /\ Managed /\ [Next]_vars => Managed'
  <2> SUFFICES ASSUME Inv, Managed, [Next]_vars PROVE Managed'
    OBVIOUS
  <2>1. ASSUME NEW r \in Requests, Step(r) PROVE Managed'
    <3>1. /\ Shape /\ pc \in [Requests -> StartPCs] /\ Phase(r)
          /\ vms \in [Names -> Requests \cup {None}]
      BY DEF Inv, TypeOK, Shape, StartPCs, Phases
    <3> QED BY <2>1, <3>1, OnlyRegisterWrites, TargetAssumption DEF DistinctTargets
  <2>2. CASE UNCHANGED vars
    BY <2>2 DEF vars
  <2> QED BY <2>1, <2>2 DEF Next
<1>3. Managed => EveryVMManaged
  BY DEF EveryVMManaged, Registered
<1> QED BY <1>1, <1>2, <1>3, InvAlways, PTL DEF Spec
=============================================================================
