--------------------------- MODULE PortAllocator ---------------------------
(***************************************************************************)
(* pkg/server/portallocator: the FIFO of host ports that DNAT rules use.   *)
(* Every method runs under a.mutex, so a method is one step; a method that *)
(* returns an error changes nothing and is a stutter.                      *)
(***************************************************************************)
EXTENDS Integers, Sequences, Functions

CONSTANTS lowPort, highPort,  \* the range given to NewPortAllocator
          Clients             \* the callers (setupSinglePortForward)

(* The range NewPortAllocator accepts. *)
RangeOK ==
  /\ lowPort \in Nat /\ highPort \in Nat
  /\ 1 <= lowPort /\ highPort <= 65535 /\ lowPort <= highPort

VARIABLES available,          \* free ports, oldest first
          held                \* held[c]: the ports c took and did not free

vars == <<available, held>>

PortRange == lowPort..highPort

Init ==
  /\ available = [k \in 1..(highPort - lowPort + 1) |-> lowPort + k - 1]
  /\ held = [c \in Clients |-> {}]

AllocatePort(c) ==
  /\ available # <<>>
  /\ available' = Tail(available)
  /\ held' = [held EXCEPT ![c] = @ \cup {Head(available)}]

(* The caller frees a port it holds, or one it freed before; never a port  *)
(* of another caller (StartVM.tla shows that).                             *)
FreePort(c, port) ==
  /\ \A d \in Clients \ {c} : port \notin held[d]
  /\ port \in PortRange
  /\ port \notin Range(available)
  /\ available' = Append(available, port)
  /\ held' = [held EXCEPT ![c] = @ \ {port}]

Next ==
  \E c \in Clients :
    \/ AllocatePort(c)
    \/ \E port \in (lowPort - 1)..(highPort + 1) : FreePort(c, port)

Spec == Init /\ [][Next]_vars

-----------------------------------------------------------------------------
TypeOK ==
  /\ available \in Seq(PortRange)
  /\ held \in [Clients -> SUBSET PortRange]

(* Each port of the range is in exactly one place: once in the queue, or   *)
(* with one caller (portallocator.go:37-70 under any order of calls).      *)
PortsConserved ==
  /\ IsInjective(available)
  /\ \A p \in PortRange :
       \/ p \in Range(available) /\ \A c \in Clients : p \notin held[c]
       \/ p \notin Range(available) /\ \E c \in Clients :
            p \in held[c] /\ \A d \in Clients \ {c} : p \notin held[d]

Pool == INSTANCE IdPool WITH Ids <- PortRange

(* The FIFO implements the pool's promise: AllocatePort never returns a    *)
(* port that some caller still holds.                                      *)
PoolSpec == Pool!Spec
=============================================================================
