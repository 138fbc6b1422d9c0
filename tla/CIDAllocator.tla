---------------------------- MODULE CIDAllocator ----------------------------
(***************************************************************************)
(* pkg/server/cidallocator: the FIFO of vsock context ids.  Every method   *)
(* takes a.mutex first and releases it on return, so a method is one step. *)
(* A method that returns an error changes nothing; it is a stutter here.   *)
(***************************************************************************)
EXTENDS Integers, Sequences, Functions, SequencesExt

CONSTANTS lowCID, highCID,   \* the range given to NewCIDAllocator
          Clients            \* the callers (createVM, restoreVM, destroyVM)

(* The range NewCIDAllocator accepts. *)
ASSUME RangeAssumption ==
  /\ lowCID \in Nat /\ highCID \in Nat
  /\ 3 <= lowCID /\ lowCID <= highCID

VARIABLES available,         \* the allocator's free CIDs, oldest first
          held               \* held[c]: the CIDs c has been given and has
                             \* not given back (the callers' vm.cid)

vars == <<available, held>>

CIDs == lowCID..highCID

Init ==
  /\ available = [k \in 1..(highCID - lowCID + 1) |-> lowCID + k - 1]
  /\ held = [c \in Clients |-> {}]

AllocateCID(c) ==
  /\ available # <<>>
  /\ available' = Tail(available)
  /\ held' = [held EXCEPT ![c] = @ \cup {Head(available)}]

(* Mutant of FreeCID: no check for a free CID. *)
FreeCIDAgain(c, cid) ==
  /\ cid \in CIDs
  /\ \A d \in Clients \ {c} : cid \notin held[d]
  /\ available' = Append(available, cid)
  /\ held' = [held EXCEPT ![c] = @ \ {cid}]

(* A caller gives back a CID it holds, or one that it gave back before:    *)
(* a clean-up that runs twice.  It never gives back a CID of another       *)
(* caller; StartVM.tla shows that the server's callers do not.             *)
FreeCID(c, cid) ==
  /\ \A d \in Clients \ {c} : cid \notin held[d]
  /\ cid \in CIDs
  /\ cid \notin Range(available)
  /\ available' = Append(available, cid)
  /\ held' = [held EXCEPT ![c] = @ \ {cid}]

(* Mutant of ClaimCID: the CID stays in the queue. *)
ClaimAndKeep(c, cid) ==
  /\ cid \in Range(available)
  /\ held' = [held EXCEPT ![c] = @ \cup {cid}]
  /\ UNCHANGED available

(* A restore asks for the CID its snapshot was taken with. *)
ClaimCID(c, cid) ==
  \E k \in 1..Len(available) :
    /\ available[k] = cid
    /\ \A j \in 1..(k - 1) : available[j] # cid
    /\ available' = RemoveAt(available, k)
    /\ held' = [held EXCEPT ![c] = @ \cup {cid}]

Next ==
  \E c \in Clients :
    \/ AllocateCID(c)
    \/ \E cid \in 0..(highCID + 1) : FreeCID(c, cid) \/ ClaimCID(c, cid)

Spec == Init /\ [][Next]_vars

-----------------------------------------------------------------------------
TypeOK ==
  /\ available \in Seq(CIDs)
  /\ held \in [Clients -> SUBSET CIDs]

(* No CID is twice in the queue, in the queue while a VM uses it, or used  *)
(* by two VMs (cidallocator.go:37-84 under any order of calls).            *)
NoSharedCID ==
  /\ IsInjective(available)
  /\ \A c \in Clients : Range(available) \cap held[c] = {}
  /\ \A c, d \in Clients : c # d => held[c] \cap held[d] = {}

(* No CID is lost: each is in the queue or held (cidallocator.go:49, 68). *)
NoLostCID == CIDs \subseteq Range(available) \cup UNION Range(held)

Pool == INSTANCE IdPool WITH Ids <- CIDs

(* The FIFO implements the pool's promise: cidallocator.go hands out only  *)
(* CIDs that nobody holds, whatever the calls made and double frees.       *)
PoolSpec == Pool!Spec
=============================================================================
