----------------------------- MODULE Allocators -----------------------------
(***************************************************************************)
(* pkg/server/server.go, NewServer: the three FIFO allocators of one       *)
(* server and its fountain of tap devices side by side, used by the same   *)
(* callers.  Each has a mutex of its own, so a step belongs to one.        *)
(***************************************************************************)
EXTENDS CIDAllocator

CONSTANTS lowPort, highPort, lastIP, LowID, HighID

VARIABLES freePorts, portsHeld,                   \* portAllocator
          freeIPs, ipsHeld, ipsMisused,           \* ipAllocator
          freeTaps, pc, id, devs, bridged, up     \* fountain

P == INSTANCE PortAllocator WITH available <- freePorts, held <- portsHeld
A == INSTANCE IPAllocator WITH available <- freeIPs, held <- ipsHeld,
                               misused <- ipsMisused
F == INSTANCE Fountain WITH available <- freeTaps

ASSUME BoundsAssumption == P!RangeOK /\ A!SubnetOK /\ F!NumbersOK

portVars == <<freePorts, portsHeld>>
ipVars == <<freeIPs, ipsHeld, ipsMisused>>
tapVars == <<freeTaps, pc, id, devs, bridged, up>>
allocatorVars == <<vars, portVars, ipVars>>
serverVars == <<allocatorVars, tapVars>>

ServerInit == Init /\ P!Init /\ A!Init /\ F!Init

ServerNext ==
  \/ Next /\ UNCHANGED <<portVars, ipVars, tapVars>>
  \/ P!Next /\ UNCHANGED <<vars, ipVars, tapVars>>
  \/ A!Next /\ UNCHANGED <<vars, portVars, tapVars>>
  \/ F!Next /\ UNCHANGED allocatorVars

ServerSpec == ServerInit /\ [][ServerNext]_serverVars

-----------------------------------------------------------------------------
(* Queues and holdings are of the allocators' own ranges. *)
AllocatorsTypeOK == TypeOK /\ P!TypeOK /\ A!TypeOK /\ F!TypeOK

(* No CID, port or tap number has two users and no CID, port or address is *)
(* lost, in any order of calls, repeated frees and claims of taken         *)
(* identifiers among them; an address has one user unless a call claimed   *)
(* it while it was in use or freed it without holding it.  See             *)
(* CIDAllocator (cidallocator.go:49, 68), PortAllocator                    *)
(* (portallocator.go:37-70), IPAllocator (ipallocator.go:54-101) and       *)
(* Fountain (fountain.go:51-109), which does lose tap numbers.             *)
IdentifiersConserved ==
  NoLostCID /\ P!PortsConserved /\ A!IPsConserved /\ F!TapIDsKeptApart

(* Devices handed out work, and strays are not taken over; see Fountain    *)
(* (fountain.go:135-163).                                                  *)
OwnedDeviceWorks == F!OwnedDeviceWorks
StraysStay == F!StraysStay

(* Ports, addresses and tap numbers are pools as their callers take them   *)
(* for: what is handed out is held by nobody (portallocator.go:37-50,      *)
(* ipallocator.go:54-101, fountain.go:51-109).  An address is in the pool  *)
(* until a call misuses it; the others are not touched by that.            *)
OtherPools == P!PoolSpec /\ A!PoolSpec /\ F!PoolSpec
=============================================================================
