--------------------------- MODULE RestoreProofs ---------------------------
(***************************************************************************)
(* For any number of starts and restores, and whatever the snapshots       *)
(* recorded: tap devices, CIDs and host ports have one user, a restore     *)
(* never takes an address away from a VM that was started, and a request   *)
(* that failed left neither a CID nor a VM behind.                         *)
(*                                                                         *)
(* The argument is that of StartVMProofs: a start keeps its Phase, a       *)
(* restore has phases of its own, and every step is a Move of the pools of *)
(* tap numbers, CIDs and ports.  The addresses are not such a pool, since  *)
(* ClaimIP takes one that may be in use: there only the starts count, and  *)
(* what a restore does makes fewer addresses free (Shrink).                *)
(***************************************************************************)
EXTENDS Restore, StartVMProofs

(* Where a restore is before it registers its VM, or has failed to, ... *)
NotRestored == {"start", "claimTap", "mkdir", "log", "spawn", "wait",
                "register", "reap", "rmDir", "failed"}

(* ... and where it is once the VM is in the registry. *)
Restored == {"copy", "ports", "iptables", "claimCID", "restore", "resume",
             "ready", "giveCID", "destroy", "stuck"}

(* What a restore holds and what its VMM is, by where the restore is. *)
RestorePhase(r) ==
  /\ pc[r] \in NotRestored \cup Restored
  /\ pc[r] \in {"start", "claimTap"} => tap[r] = None
  /\ cid[r] # None <=> pc[r] \in {"restore", "resume", "ready", "giveCID"}
  /\ hostPort[r] # None <=> pc[r] = "iptables"
  /\ hostPort[r] \notin ports[r]
  /\ pc[r] \in {"start", "claimTap", "mkdir", "log", "spawn"}
       => proc[r] = "none"
  /\ pc[r] \in {"rmDir", "failed"} => proc[r] \in {"none", "dead"}

StartPhase(r) == pc[r] \in StartPCs /\ Phase(r)

RestoredPCs(r) == IF r \in Restores THEN Restored ELSE Registered

RestorePhases ==
  /\ \A r \in Starts : StartPhase(r)
  /\ \A r \in Restores : RestorePhase(r)

RestoreRegistryOK ==
  \A n \in Names : vms[n] # None =>
    pc[vms[n]] \in RestoredPCs(vms[n]) /\ Target[vms[n]] = n

(* A tap number, a CID or a port is free, or held by the request that took *)
(* it.  (DestroyTapDevice may fail; then its request holds it for good.)   *)
ClaimsAccounted ==
  /\ Accounted(TapIDs, freeTaps, Held(tap))
  /\ Accounted(CIDs, freeCIDs, Held(cid))
  /\ Accounted(Ports, freePorts, HeldPorts)

RestoreInv ==
  /\ RestoreTypeOK /\ RestorePhases /\ RestoreRegistryOK
  /\ ClaimsExclusive /\ ClaimsAccounted /\ StartsKeepTheirAddress
-----------------------------------------------------------------------------
(* The steps of a restore that touch a pool, pool by pool. *)
LEMMA RestorePoolSteps ==
  ASSUME NEW r \in Restores, RestoreStep(r)
  PROVE  /\ ClaimTap(r) \/ UNCHANGED <<freeTaps, tap>>
         /\ ClaimIP(r) \/ UNCHANGED <<freeIPs, ip>>
         /\ ClaimCID(r) \/ GiveCIDBack(r) \/ UNCHANGED <<freeCIDs, cid>>
         /\ \/ AllocatePort(r) \/ AddRule(r) \/ ForwardFails(r)
            \/ UNCHANGED <<freePorts, hostPort, ports>>
<1> USE DEF RestoreStep, allocators, locals, SnapshotRefused, ClaimTapFails,
      RestoreStateDir, RestoreStateDirFails, CreateLog, SpawnVMM,
      CreateLogOrSpawnFails, RestoreServerUp, WaitForServerFails, ReapVMM,
      RemoveStateDir, RegisterRestored, CopyDisk, CopyDiskFails,
      ForwardsSetUp, ClaimCIDFails, restore, restoreFails, resume,
      resumeFails, DestroyVM, VMMListens, VMMExits
<1>1. ClaimTap(r) \/ UNCHANGED <<freeTaps, tap>>
  BY DEF ClaimIP, ClaimCID, GiveCIDBack, AllocatePort, AddRule, ForwardFails
<1>2. ClaimIP(r) \/ UNCHANGED <<freeIPs, ip>>
  BY DEF ClaimTap, ClaimCID, GiveCIDBack, AllocatePort, AddRule, ForwardFails
<1>3. ClaimCID(r) \/ GiveCIDBack(r) \/ UNCHANGED <<freeCIDs, cid>>
  BY DEF ClaimTap, ClaimIP, AllocatePort, AddRule, ForwardFails
<1>4. \/ AllocatePort(r) \/ AddRule(r) \/ ForwardFails(r)
      \/ UNCHANGED <<freePorts, hostPort, ports>>
  BY DEF ClaimTap, ClaimIP, ClaimCID, GiveCIDBack
<1> QED BY <1>1, <1>2, <1>3, <1>4

RestorePlaces == StartPCs \cup RestorePCs

(* What StepKeepsPhase says of a start, for a restore: every action of it. *)
LEMMA RestoreStepKeepsPhase ==
  ASSUME Shape, pc \in [Requests -> RestorePlaces],
         NEW r \in Restores, RestorePhase(r),
         freePorts \cap ports[r] = {}, RestoreStep(r)
  PROVE  /\ Shape' /\ RestorePhase(r)' /\ Spares(r)
         /\ pc' = [pc EXCEPT ![r] = pc'[r]]
         /\ pc[r] \in Restored => pc'[r] \in Restored
         /\ \/ vms' = vms
            \/ /\ vms' = [vms EXCEPT ![Target[r]] = r]
               /\ pc'[r] \in Restored
<1> r \in Requests
  BY RestoresAssumption
<1> USE NoneAssumption, TargetAssumption, SnapshotsAssumption
    DEF Shape, RestorePhase, Spares, Goto, RestorePlaces, RestorePCs,
        StartPCs, Forward, Backward, Final, NotRestored, Restored,
        VMMStates, vars, allocators, locals, files, vmms
<1>1. CASE SnapshotRefused(r)
  BY <1>1 DEF SnapshotRefused
<1>2. CASE ClaimIP(r)
  BY <1>2 DEF ClaimIP
<1>3. CASE ClaimTap(r)
  BY <1>3 DEF ClaimTap
<1>4. CASE ClaimTapFails(r)
  BY <1>4 DEF ClaimTapFails
<1>5. CASE RestoreStateDir(r)
  BY <1>5 DEF RestoreStateDir
<1>6. CASE RestoreStateDirFails(r)
  BY <1>6 DEF RestoreStateDirFails
<1>7. CASE CreateLog(r)
  BY <1>7 DEF CreateLog
<1>8. CASE SpawnVMM(r)
  BY <1>8 DEF SpawnVMM
<1>9. CASE CreateLogOrSpawnFails(r)
  BY <1>9 DEF CreateLogOrSpawnFails
<1>10. CASE RestoreServerUp(r)
  BY <1>10 DEF RestoreServerUp
<1>11. CASE WaitForServerFails(r)
  BY <1>11 DEF WaitForServerFails
<1>12. CASE ReapVMM(r)
  BY <1>12 DEF ReapVMM
<1>13. CASE RemoveStateDir(r)
  BY <1>13 DEF RemoveStateDir
<1>14. CASE RegisterRestored(r)
  BY <1>14 DEF RegisterRestored
<1>15. CASE CopyDisk(r)
  BY <1>15 DEF CopyDisk
<1>16. CASE CopyDiskFails(r)
  BY <1>16 DEF CopyDiskFails
<1>17. CASE AllocatePort(r)
  BY <1>17 DEF AllocatePort
<1>18. CASE AddRule(r)
  BY <1>18 DEF AddRule
<1>19. CASE ForwardFails(r)
  BY <1>19 DEF ForwardFails
<1>20. CASE ForwardsSetUp(r)
  BY <1>20 DEF ForwardsSetUp
<1>21. CASE ClaimCID(r)
  BY <1>21 DEF ClaimCID
<1>22. CASE ClaimCIDFails(r)
  BY <1>22 DEF ClaimCIDFails
<1>23. CASE restore(r)
  BY <1>23 DEF restore, TakeSnapshot, Serving
<1>24. CASE restoreFails(r)
  BY <1>24 DEF restoreFails, TakeSnapshot, Serving
<1>25. CASE resume(r)
  BY <1>25 DEF resume, ResumeTakes, Serving
<1>26. CASE resumeFails(r)
  BY <1>26 DEF resumeFails, ResumeTakes, Serving
<1>27. CASE GiveCIDBack(r)
  BY <1>27 DEF GiveCIDBack
<1>28. CASE DestroyVM(r)
  BY <1>28 DEF DestroyVM
<1>29. CASE VMMListens(r)
  BY <1>29 DEF VMMListens
<1>30. CASE VMMExits(r)
  BY <1>30 DEF VMMExits
<1> QED
  BY <1>1, <1>2, <1>3, <1>4, <1>5, <1>6, <1>7, <1>8, <1>9, <1>10,
     <1>11, <1>12, <1>13, <1>14, <1>15, <1>16, <1>17, <1>18, <1>19,
     <1>20, <1>21, <1>22, <1>23, <1>24, <1>25, <1>26, <1>27, <1>28,
     <1>29, <1>30 DEF RestoreStep

-----------------------------------------------------------------------------
(* The addresses that the starts hold. *)
StartIPs == [r \in Requests |-> IF r \in Starts THEN Held(ip)[r] ELSE {}]

(* Fewer free identifiers, and nobody holds more. *)
Shrink(free, held, free2, held2) == free2 \subseteq free /\ held2 = held

(* Every step moves the tap numbers, the CIDs and the ports; a start moves *)
(* the addresses of the starts, and a restore makes fewer of them free.    *)
LEMMA RestoreNextMoves ==
  ASSUME RestoreInv, [RestoreNext]_vars
  PROVE  /\ Move(TapIDs, freeTaps, Held(tap), freeTaps', Held(tap)')
         /\ Move(CIDs, freeCIDs, Held(cid), freeCIDs', Held(cid)')
         /\ Move(Ports, freePorts, HeldPorts, freePorts', HeldPorts')
         /\ \/ Move(IPs, freeIPs, StartIPs, freeIPs', StartIPs')
            \/ Shrink(freeIPs, StartIPs, freeIPs', StartIPs')
<1> USE NoneAssumption, RestoresAssumption DEF RestoreInv
<1> Shape
  BY DEF RestoreTypeOK, Shape
<1>0. /\ freeTaps' = freeTaps /\ tap' = tap =>
           Move(TapIDs, freeTaps, Held(tap), freeTaps', Held(tap)')
      /\ freeIPs' = freeIPs /\ ip' = ip =>
           Move(IPs, freeIPs, StartIPs, freeIPs', StartIPs')
      /\ freeCIDs' = freeCIDs /\ cid' = cid =>
           Move(CIDs, freeCIDs, Held(cid), freeCIDs', Held(cid)')
      /\ freePorts' = freePorts /\ hostPort' = hostPort /\ ports' = ports =>
           Move(Ports, freePorts, HeldPorts, freePorts', HeldPorts')
  BY DEF Move, Held, HeldPorts, StartIPs
<1>1. ASSUME NEW r \in Starts, Provision(r) \/ Undo(r)
      PROVE  /\ Move(TapIDs, freeTaps, Held(tap), freeTaps', Held(tap)')
             /\ Move(CIDs, freeCIDs, Held(cid), freeCIDs', Held(cid)')
             /\ Move(Ports, freePorts, HeldPorts, freePorts', HeldPorts')
             /\ Move(IPs, freeIPs, StartIPs, freeIPs', StartIPs')
  <2>0. r \in Requests /\ Phase(r)
    BY DEF Starts, RestorePhases, StartPhase
  <2>1. Move(TapIDs, freeTaps, Held(tap), freeTaps', Held(tap)')
    BY <2>0, <1>0, <1>1, PoolSteps, TapMoves
  <2>2. Move(CIDs, freeCIDs, Held(cid), freeCIDs', Held(cid)')
    BY <2>0, <1>0, <1>1, PoolSteps, CIDMoves
  <2>3. Move(Ports, freePorts, HeldPorts, freePorts', HeldPorts')
    BY <2>0, <1>0, <1>1, PoolSteps, PortMoves DEF Phase
  <2>4. CASE UNCHANGED <<freeIPs, ip>>
    BY <1>0, <2>1, <2>2, <2>3, <2>4
  <2>5. CASE AllocateIP(r)
    <3>1. PICK i \in freeIPs : /\ freeIPs' = freeIPs \ {i}
                               /\ ip' = [ip EXCEPT ![r] = i]
      BY <2>5 DEF AllocateIP
    <3>2. ip[r] = None /\ i \in IPs
      BY <2>0, <2>5 DEF AllocateIP, Goto, Phase, WithIP, WithTap, Shape,
                        Registered
    <3>3. StartIPs' = [StartIPs EXCEPT ![r] = @ \cup {i}]
      <4>1. \A q \in Requests :
              StartIPs'[q] = IF q = r THEN StartIPs[q] \cup {i} ELSE StartIPs[q]
        <5>1. \A q \in Requests : ip'[q] = IF q = r THEN i ELSE ip[q]
          BY <2>0, <3>1 DEF Shape
        <5>2. i # None
          BY <3>2
        <5> QED BY <2>0, <3>2, <5>1, <5>2 DEF StartIPs, Held
      <4> QED BY <4>1 DEF StartIPs
    <3>4. Take(r, i, freeIPs, StartIPs, freeIPs', StartIPs')
      BY <3>1, <3>3 DEF Take
    <3> QED BY <2>0, <2>1, <2>2, <2>3, <3>2, <3>4 DEF Move
  <2>6. CASE FreeIP(r)
    <3>1. /\ freeIPs' = freeIPs \cup {ip[r]}
          /\ ip' = [ip EXCEPT ![r] = None]
          /\ ip[r] \in IPs
      BY <2>0, <2>6 DEF FreeIP, Goto, Phase, WithIP, WithTap, Shape
    <3>2. /\ StartIPs' = [StartIPs EXCEPT ![r] = @ \ {ip[r]}]
          /\ ip[r] \in StartIPs[r]
      <4>1. \A q \in Requests :
              StartIPs'[q] = IF q = r THEN StartIPs[q] \ {ip[r]}
                             ELSE StartIPs[q]
        BY <2>0, <3>1 DEF StartIPs, Held, Shape
      <4>2. ip[r] \in StartIPs[r]
        BY <2>0, <3>1 DEF StartIPs, Held
      <4> QED BY <4>1, <4>2 DEF StartIPs
    <3>3. Give(r, ip[r], freeIPs, StartIPs, freeIPs', StartIPs')
      BY <3>1, <3>2 DEF Give
    <3> QED BY <2>0, <2>1, <2>2, <2>3, <3>1, <3>3 DEF Move
  <2> QED BY <2>0, <2>4, <2>5, <2>6, <1>1, PoolSteps
<1>2. ASSUME NEW r \in Restores, RestoreStep(r)
      PROVE  /\ Move(TapIDs, freeTaps, Held(tap), freeTaps', Held(tap)')
             /\ Move(CIDs, freeCIDs, Held(cid), freeCIDs', Held(cid)')
             /\ Move(Ports, freePorts, HeldPorts, freePorts', HeldPorts')
             /\ Shrink(freeIPs, StartIPs, freeIPs', StartIPs')
  <2>0. r \in Requests /\ RestorePhase(r)
    BY DEF RestorePhases
  <2>1. ASSUME ClaimTap(r)
        PROVE  Move(TapIDs, freeTaps, Held(tap), freeTaps', Held(tap)')
    <3>1. /\ SnapTap[r] \in freeTaps /\ SnapTap[r] \in TapIDs
          /\ tap[r] = None
          /\ freeTaps' = freeTaps \ {SnapTap[r]}
          /\ tap' = [tap EXCEPT ![r] = SnapTap[r]]
      BY <2>0, <2>1, SnapshotsAssumption DEF ClaimTap, Goto, RestorePhase
    <3>2. Move(TapIDs, freeTaps, Held(tap), freeTaps', Held(tap'))
      BY <2>0, <3>1, TakeMoves DEF Shape
    <3> QED BY <3>2 DEF Held
  <2>2. ASSUME ClaimCID(r)
        PROVE  Move(CIDs, freeCIDs, Held(cid), freeCIDs', Held(cid)')
    <3>1. /\ SnapCID[r] \in freeCIDs /\ SnapCID[r] \in CIDs
          /\ cid[r] = None
          /\ freeCIDs' = freeCIDs \ {SnapCID[r]}
          /\ cid' = [cid EXCEPT ![r] = SnapCID[r]]
      BY <2>0, <2>2, SnapshotsAssumption DEF ClaimCID, Goto, RestorePhase
    <3>2. Move(CIDs, freeCIDs, Held(cid), freeCIDs', Held(cid'))
      BY <2>0, <3>1, TakeMoves DEF Shape
    <3> QED BY <3>2 DEF Held
  <2>3. ASSUME GiveCIDBack(r)
        PROVE  Move(CIDs, freeCIDs, Held(cid), freeCIDs', Held(cid)')
    <3>1. /\ freeCIDs' = freeCIDs \cup {cid[r]}
          /\ cid' = [cid EXCEPT ![r] = None]
          /\ cid[r] # None
      BY <2>0, <2>3 DEF GiveCIDBack, Goto, RestorePhase
    <3>2. Move(CIDs, freeCIDs, Held(cid), freeCIDs', Held(cid'))
      BY <2>0, <3>1, GiveMoves DEF Shape
    <3> QED BY <3>2 DEF Held
  <2>4. ASSUME ForwardFails(r)
        PROVE  Move(Ports, freePorts, HeldPorts, freePorts', HeldPorts')
    <3>1. ports' = ports
      BY <2>4 DEF ForwardFails
    <3>2. CASE UNCHANGED <<freePorts, hostPort>>
      BY <1>0, <3>1, <3>2
    <3>3. CASE /\ pc[r] = "iptables"
               /\ freePorts' = freePorts \cup {hostPort[r]}
               /\ hostPort' = [hostPort EXCEPT ![r] = None]
      BY <2>0, <3>1, <3>3, ForwardUndone DEF RestorePhase
    <3> QED BY <2>4, <3>2, <3>3 DEF ForwardFails, Goto
  <2>5. Shrink(freeIPs, StartIPs, freeIPs', StartIPs')
    <3>1. CASE ClaimIP(r)
      <4>1. freeIPs' \subseteq freeIPs /\ ip' = [ip EXCEPT ![r] = SnapIP[r]]
        BY <3>1 DEF ClaimIP
      <4>2. \A q \in Starts : ip'[q] = ip[q]
        BY <2>0, <4>1 DEF Starts, Shape
      <4> QED BY <4>1, <4>2 DEF Shrink, StartIPs, Held
    <3>2. CASE UNCHANGED <<freeIPs, ip>>
      BY <3>2 DEF Shrink, StartIPs, Held
    <3> QED BY <3>1, <3>2, <1>2, RestorePoolSteps
  <2>6. Move(TapIDs, freeTaps, Held(tap), freeTaps', Held(tap)')
    BY <1>0, <1>2, <2>1, RestorePoolSteps
  <2>7. Move(CIDs, freeCIDs, Held(cid), freeCIDs', Held(cid)')
    BY <1>0, <1>2, <2>2, <2>3, RestorePoolSteps
  <2>8. Move(Ports, freePorts, HeldPorts, freePorts', HeldPorts')
    BY <1>0, <1>2, <2>0, <2>4, RestorePoolSteps, PortMoves DEF RestorePhase
  <2> QED BY <2>5, <2>6, <2>7, <2>8
<1>3. CASE \E r \in Starts : \/ MakeStateDir(r) \/ MakeStateDirFails(r)
                             \/ VMMListens(r) \/ VMMExits(r)
  BY <1>0, <1>3, OtherSteps DEF allocators, locals, Starts
<1>4. CASE UNCHANGED vars
  BY <1>0, <1>4 DEF vars, allocators, locals
<1> QED BY <1>1, <1>2, <1>3, <1>4 DEF RestoreNext, Step

-----------------------------------------------------------------------------
(* Nothing is taken in the beginning. *)
LEMMA RestoreInitInv == Init => RestoreInv
<1> SUFFICES ASSUME Init PROVE RestoreInv
  OBVIOUS
<1> USE NoneAssumption DEF Init
<1>1. RestoreTypeOK
  BY DEF RestoreTypeOK, Forward, VMMStates
<1>2. RestorePhases /\ RestoreRegistryOK
  BY RestoresAssumption
     DEF RestorePhases, StartPhase, StartPCs, Forward, Phase, RestorePhase,
         RestoreRegistryOK, NotRestored, Restored, BeforeTap, WithTap, WithIP,
         WithCID, WithPorts, Registered, Starts
<1>3. ClaimsExclusive /\ StartsKeepTheirAddress
  BY DEF ClaimsExclusive, StartsKeepTheirAddress, Apart, Held, HeldPorts
<1>4. ClaimsAccounted
  BY DEF ClaimsAccounted, Accounted
<1> QED BY <1>1, <1>2, <1>3, <1>4 DEF RestoreInv

(* A step changes the phase of one request, and keeps the registry to      *)
(* requests that have registered their VM.                                 *)
LEMMA RestoreNextKeepsPhases ==
  ASSUME RestoreInv, [RestoreNext]_vars
  PROVE  RestoreTypeOK' /\ RestorePhases' /\ RestoreRegistryOK'
<1> USE NoneAssumption, TargetAssumption, RestoresAssumption
<1>0. /\ Shape /\ pc \in [Requests -> RestorePlaces]
      /\ \A r \in Requests : freePorts \cap ports[r] = {}
      /\ RestorePhases /\ RestoreRegistryOK
  BY DEF RestoreInv, RestoreTypeOK, Shape, RestorePlaces, StartPCs,
         ClaimsExclusive, Apart, HeldPorts
<1>1. ASSUME NEW r \in Requests,
             IF r \in Starts THEN Step(r) ELSE RestoreStep(r)
      PROVE  RestoreTypeOK' /\ RestorePhases' /\ RestoreRegistryOK'
  <2>1. /\ Shape' /\ Spares(r)
        /\ IF r \in Starts THEN StartPhase(r)' ELSE RestorePhase(r)'
        /\ pc' = [pc EXCEPT ![r] = pc'[r]]
        /\ pc[r] \in RestoredPCs(r) => pc'[r] \in RestoredPCs(r)
        /\ \/ vms' = vms
           \/ /\ vms' = [vms EXCEPT ![Target[r]] = r]
              /\ pc'[r] \in RestoredPCs(r)
    <3>1. CASE r \in Starts
      BY <1>0, <1>1, <3>1, StepKeepsPhase
         DEF Starts, RestorePhases, StartPhase, RestoredPCs
    <3>2. CASE r \in Restores
      BY <1>0, <1>1, <3>2, RestoreStepKeepsPhase
         DEF Starts, RestorePhases, RestoredPCs
    <3> QED BY <3>1, <3>2 DEF Starts
  <2>2. pc'[r] \in RestorePlaces
    BY <2>1 DEF Starts, StartPhase, RestorePhase, RestorePlaces, StartPCs,
                Forward, Backward, Final, RestorePCs, NotRestored, Restored
  <2>3. RestoreTypeOK'
    BY <1>0, <2>1, <2>2 DEF RestoreTypeOK, Shape, RestorePlaces, StartPCs
  <2>4. ASSUME NEW q \in Starts, q # r PROVE StartPhase(q)'
    BY <1>0, <2>1, <2>4 DEF Starts, RestorePhases, StartPhase, Phase, Spares
  <2>5. ASSUME NEW q \in Restores, q # r PROVE RestorePhase(q)'
    BY <1>0, <2>1, <2>5 DEF RestorePhases, RestorePhase, Spares
  <2>6. ASSUME NEW n \in Names, vms'[n] # None
        PROVE  pc'[vms'[n]] \in RestoredPCs(vms'[n]) /\ Target[vms'[n]] = n
    <3>1. CASE vms'[n] = vms[n]
      <4>1. vms[n] \in Requests /\ pc[vms[n]] \in RestoredPCs(vms[n])
        BY <1>0, <2>6, <3>1 DEF RestoreRegistryOK, Shape
      <4> QED
        BY <1>0, <2>1, <2>6, <3>1, <4>1 DEF RestoreRegistryOK, Spares
    <3>2. CASE vms'[n] # vms[n]
      BY <1>0, <2>1, <3>2 DEF Shape
    <3> QED BY <3>1, <3>2
  <2>7. RestorePhases'
    BY <2>1, <2>4, <2>5 DEF RestorePhases, Starts
  <2>8. RestoreRegistryOK'
    BY <2>6 DEF RestoreRegistryOK, RestoredPCs
  <2> QED BY <2>3, <2>7, <2>8
<1>2. CASE UNCHANGED vars
  BY <1>0, <1>2
     DEF RestoreInv, RestoreTypeOK, RestorePhases, StartPhase, Phase,
         RestorePhase, RestoreRegistryOK, RestoredPCs, vars, allocators,
         locals, files, vmms
<1> QED BY <1>1, <1>2 DEF RestoreNext, Starts

(* What the requests hold is of the pools. *)
LEMMA RestoreHeldTypes ==
  ASSUME RestoreTypeOK
  PROVE  /\ Held(tap) \in [Requests -> SUBSET TapIDs]
         /\ Held(cid) \in [Requests -> SUBSET CIDs]
         /\ HeldPorts \in [Requests -> SUBSET Ports]
         /\ StartIPs \in [Requests -> SUBSET IPs]
BY DEF RestoreTypeOK, Held, HeldPorts, StartIPs

(* The whole invariant survives every step. *)
LEMMA RestoreNextKeepsInv ==
  RestoreInv /\ [RestoreNext]_vars => RestoreInv'
<1> SUFFICES ASSUME RestoreInv, [RestoreNext]_vars PROVE RestoreInv'
  OBVIOUS
<1>1. ClaimsExclusive' /\ ClaimsAccounted'
  <2>1. /\ Apart(freeTaps', Held(tap)')
        /\ Accounted(TapIDs, freeTaps', Held(tap)')
    BY RestoreHeldTypes, RestoreNextMoves, MoveKeepsApart, MoveKeepsAccounted
       DEF RestoreInv, ClaimsExclusive, ClaimsAccounted
  <2>2. Apart(freeCIDs', Held(cid)') /\ Accounted(CIDs, freeCIDs', Held(cid)')
    BY RestoreHeldTypes, RestoreNextMoves, MoveKeepsApart, MoveKeepsAccounted
       DEF RestoreInv, ClaimsExclusive, ClaimsAccounted
  <2>3. /\ Apart(freePorts', HeldPorts')
        /\ Accounted(Ports, freePorts', HeldPorts')
    BY RestoreHeldTypes, RestoreNextMoves, MoveKeepsApart, MoveKeepsAccounted
       DEF RestoreInv, ClaimsExclusive, ClaimsAccounted
  <2> QED
    BY <2>1, <2>2, <2>3 DEF ClaimsExclusive, ClaimsAccounted, Apart, Accounted
<1>2. StartsKeepTheirAddress'
  <2>1. Apart(freeIPs, StartIPs)
    BY DEF RestoreInv, StartsKeepTheirAddress, StartIPs
  <2>2. Apart(freeIPs', StartIPs')
    <3>1. CASE Shrink(freeIPs, StartIPs, freeIPs', StartIPs')
      BY <2>1, <3>1 DEF Shrink, Apart
    <3>2. CASE Move(IPs, freeIPs, StartIPs, freeIPs', StartIPs')
      BY RestoreHeldTypes, <2>1, <3>2, MoveKeepsApart DEF RestoreInv
    <3> QED BY <3>1, <3>2, RestoreNextMoves
  <2> QED BY <2>2 DEF StartsKeepTheirAddress, StartIPs, Apart
<1> QED BY <1>1, <1>2, RestoreNextKeepsPhases DEF RestoreInv

(* The inductive invariant holds in every state. *)
THEOREM RestoreInvAlways == RestoreSpec => []RestoreInv
BY RestoreInitInv, RestoreNextKeepsInv, PTL DEF RestoreSpec

(* Every reachable state is a state of the right shape. *)
THEOREM RestoreTypeCorrect == RestoreSpec => []RestoreTypeOK
BY RestoreInvAlways, PTL DEF RestoreInv

(* No interleaving of starts and restores, of the same snapshot or of      *)
(* others, gives two requests one tap device, CID or host port.            *)
THEOREM ClaimsNeverShared == RestoreSpec => []ClaimsExclusive
BY RestoreInvAlways, PTL DEF RestoreInv

(* A restore never takes away the address of a VM that was started.        *)
THEOREM AddressesKept == RestoreSpec => []StartsKeepTheirAddress
BY RestoreInvAlways, PTL DEF RestoreInv

(* No CID is lost, and a restore that failed or hangs holds none.          *)
THEOREM CIDsNeverLost == RestoreSpec => []CIDsReturned
<1>1. RestoreInv => CIDsReturned
  BY DEF RestoreInv, RestorePhases, StartPhase, Phase, RestorePhase, Starts,
         ClaimsAccounted, CIDsReturned, WithCID, Registered, StartPCs,
         Forward, Backward, Final
<1> QED BY <1>1, RestoreInvAlways, PTL

(* A request that answered with an error of createVM left no VM: none of   *)
(* its own is registered, and its VMM is dead or was never started.        *)
THEOREM FailuresLeaveNoVM == RestoreSpec => []FailedLeavesNoVM
<1>1. RestoreInv => FailedLeavesNoVM
  BY NoneAssumption
     DEF RestoreInv, RestorePhases, StartPhase, Phase, RestorePhase, Starts,
         RestoreRegistryOK, RestoredPCs, FailedLeavesNoVM, Registered,
         Restored, RestoreTypeOK
<1> QED BY <1>1, RestoreInvAlways, PTL

(* Restores and starts together are still clients that three of the        *)
(* allocators can trust: they implement IdPool for tap numbers, CIDs and   *)
(* host ports.  (Not for addresses: ClaimIP takes one that is in use.)     *)
THEOREM RestoreUsesAllocators ==
  RestoreSpec => TapPool!Spec /\ CIDPool!Spec /\ PortPool!Spec
<1>1. Init => TapPool!Init /\ CIDPool!Init /\ PortPool!Init
  BY DEF Init, TapPool!Init, CIDPool!Init, PortPool!Init, Held, HeldPorts
<1>2. RestoreInv /\ [RestoreNext]_vars => /\ [TapPool!Next]_(Held(tap))
                                         /\ [CIDPool!Next]_(Held(cid))
                                         /\ [PortPool!Next]_(HeldPorts)
  <2> SUFFICES ASSUME RestoreInv, [RestoreNext]_vars
               PROVE  /\ [TapPool!Next]_(Held(tap))
                      /\ [CIDPool!Next]_(Held(cid))
                      /\ [PortPool!Next]_(HeldPorts)
    OBVIOUS
  <2>1. [TapPool!Next]_(Held(tap))
    BY RestoreHeldTypes, RestoreNextMoves, TapPoolStep
       DEF RestoreInv, ClaimsExclusive
  <2>2. [CIDPool!Next]_(Held(cid))
    BY RestoreHeldTypes, RestoreNextMoves, CIDPoolStep
       DEF RestoreInv, ClaimsExclusive
  <2>3. [PortPool!Next]_(HeldPorts)
    BY RestoreHeldTypes, RestoreNextMoves, PortPoolStep
       DEF RestoreInv, ClaimsExclusive
  <2> QED BY <2>1, <2>2, <2>3
<1> QED
  BY <1>1, <1>2, RestoreInvAlways, PTL
     DEF RestoreSpec, TapPool!Spec, CIDPool!Spec, PortPool!Spec

(* Beside restores too, a host port that carried a forward is never free   *)
(* again: no clean-up of restoreVM frees one it has a rule for.            *)
THEOREM RestorePortsNeverReused == RestoreSpec => HostPortsNeverReused
<1>1. RestoreInv /\ RestoreInv' /\ [RestoreNext]_vars =>
        [\A r \in Requests : /\ ports[r] \subseteq ports'[r]
                             /\ ports[r] \cap freePorts' = {}]_vars
  <2> SUFFICES ASSUME RestoreInv, RestoreInv', RestoreNext, NEW r \in Requests
               PROVE  ports[r] \subseteq ports'[r] /\ ports[r] \cap freePorts' = {}
    OBVIOUS
  <2>1. ports[r] \subseteq ports'[r]
    <3>1. \A q \in Requests :
            AllocatePort(q) \/ AddRule(q) \/ AddRuleFails(q) \/ ForwardFails(q)
              => ports[r] \subseteq ports'[r]
      BY DEF RestoreInv, RestoreTypeOK, AllocatePort, AddRule, AddRuleFails,
             ForwardFails
    <3>2. ASSUME NEW q \in Starts, Step(q) PROVE ports[r] \subseteq ports'[r]
      BY <3>1, <3>2, PoolSteps, OtherSteps DEF Starts, Step, locals
    <3>3. ASSUME NEW q \in Restores, RestoreStep(q)
          PROVE  ports[r] \subseteq ports'[r]
      BY <3>1, <3>3, RestorePoolSteps, RestoresAssumption
    <3> QED BY <3>2, <3>3 DEF RestoreNext
  <2>2. ports'[r] \cap freePorts' = {}
    BY DEF RestoreInv, ClaimsExclusive, Apart, HeldPorts
  <2> QED BY <2>1, <2>2
<1> QED BY <1>1, RestoreInvAlways, PTL DEF RestoreSpec, HostPortsNeverReused
=============================================================================
