---------------------------- MODULE IPAllocator ----------------------------
(***************************************************************************)
(* pkg/server/ipallocator: the FIFO of guest addresses.  An address is its *)
(* host number in the subnet: 0 the network, 1 the gateway, lastIP the     *)
(* broadcast address (which the allocator hands out too).  Every method    *)
(* runs under a.mutex, so a method is one step.                            *)
(***************************************************************************)
EXTENDS Integers, Sequences, SequencesExt

CONSTANTS lastIP,    \* highest host number of the subnet
          Clients    \* the callers (createVM, restoreVM, destroyVM)

SubnetOK == lastIP \in Nat /\ lastIP >= 2

VARIABLES available, \* free addresses, oldest first
          held,      \* held[c]: the addresses c uses for its VM
          misused    \* history: the addresses that a call claimed while they
                     \* were in use or freed although it did not hold them

vars == <<available, held, misused>>

Subnet == 0..lastIP

IPs == 2..lastIP

(* NewIPAllocator: "Start from x.x.x.2." up to the end of the subnet. *)
Init ==
  /\ available = [k \in 1..(lastIP - 1) |-> k + 1]
  /\ held = [c \in Clients |-> {}]
  /\ misused = {}

(* Mutant of AllocateIP: the address stays in the queue. *)
PeekIP(c) ==
  /\ available # <<>>
  /\ held' = [held EXCEPT ![c] = @ \cup {Head(available)}]
  /\ UNCHANGED <<available, misused>>

AllocateIP(c) ==
  /\ available # <<>>
  /\ available' = Tail(available)
  /\ held' = [held EXCEPT ![c] = @ \cup {Head(available)}]
  /\ UNCHANGED misused

(* FreeIP looks at nothing but the subnet: an address that is free already *)
(* is queued again, one that another VM uses is queued, too.               *)
FreeIP(c, ip) ==
  /\ ip \in Subnet
  /\ available' = Append(available, ip)
  /\ held' = [held EXCEPT ![c] = @ \ {ip}]
  /\ misused' = IF ip \in held[c] THEN misused ELSE misused \cup {ip}

InUse(ip) == \E d \in Clients : ip \in held[d]

(* ClaimIP succeeds for every address of the subnet: it takes the address  *)
(* out of the queue if it is there, and returns nil if it is not.          *)
ClaimIP(c, ip) ==
  /\ ip \in Subnet
  /\ available' = RemoveFirst(available, ip)
  /\ held' = [held EXCEPT ![c] = @ \cup {ip}]
  /\ misused' = IF InUse(ip) THEN misused \cup {ip} ELSE misused

(* Any caller may claim and free any guest address at any time.            *)
Next ==
  \E c \in Clients :
    AllocateIP(c) \/ \E ip \in IPs : FreeIP(c, ip) \/ ClaimIP(c, ip)

Spec == Init /\ [][Next]_vars

-----------------------------------------------------------------------------
TypeOK ==
  /\ available \in Seq(IPs)
  /\ held \in [Clients -> SUBSET IPs]
  /\ misused \subseteq IPs

QueuedAt(ip) == {k \in DOMAIN available : available[k] = ip}

(* Once in the queue and with nobody, or not queued and with one caller.   *)
InOnePlace(ip) ==
  \/ (\E k \in DOMAIN available : QueuedAt(ip) = {k}) /\ ~InUse(ip)
  \/ /\ QueuedAt(ip) = {}
     /\ \E c \in Clients : \A d \in Clients : ip \in held[d] <=> d = c

(* FreeIP does not look for duplicates and ClaimIP does not fail           *)
(* (ipallocator.go:71-101): a call for an address that is in use, or free  *)
(* already, may give that address two users.  It takes no address out of   *)
(* circulation, and every other address stays in exactly one place.        *)
IPsConserved ==
  /\ \A ip \in IPs : QueuedAt(ip) # {} \/ InUse(ip)
  /\ \A ip \in IPs \ misused : InOnePlace(ip)

Pool == INSTANCE IdPool WITH
          Ids <- IPs, held <- [c \in Clients |-> held[c] \ misused]

(* As long as no call misuses it, an address is handed out as the pool     *)
(* promises; an address that is misused leaves the pool.                   *)
PoolSpec == Pool!Spec
=============================================================================
