------------------------------ MODULE Fountain ------------------------------
(***************************************************************************)
(* pkg/server/fountain: tap devices and the FIFO of their numbers.  Only   *)
(* the queue is under f.mutex; the `ip` commands run outside it, so the    *)
(* commands of several callers interleave.  Any command may fail, and      *)
(* `ip tuntap add` fails when the device exists.                           *)
(***************************************************************************)
EXTENDS Integers, Sequences, Functions, SequencesExt

CONSTANTS LowID, HighID,   \* 0 and 65535 in the code
          Clients          \* the callers (createVM and restoreVM)

NumbersOK == LowID \in Nat /\ HighID \in Nat /\ LowID <= HighID

VARIABLES available,       \* f.available: free tap numbers, oldest first
          pc,              \* where c is in its Create or DestroyTapDevice
          id,              \* the tap number c works with
          devs,            \* host: the tap devices that exist
          bridged,         \* host: those that are ports of the bridge
          up               \* host: those that are up

vars == <<available, pc, id, devs, bridged, up>>
host == <<devs, bridged, up>>

TapIDs == LowID..HighID

(* Mutant of Init: one number too many in the queue. *)
InitOneMore ==
  /\ available = [k \in 1..(HighID - LowID + 2) |-> LowID + k - 1]
  /\ pc = [c \in Clients |-> "idle"]
  /\ id = [c \in Clients |-> LowID]
  /\ devs \in SUBSET TapIDs /\ bridged = {} /\ up = devs

(* The devices of an earlier process that NewServer could not delete are   *)
(* still there, off the bridge (see Startup).                              *)
Init ==
  /\ available = [k \in 1..(HighID - LowID + 1) |-> LowID + k - 1]
  /\ pc = [c \in Clients |-> "idle"]
  /\ id = [c \in Clients |-> LowID]
  /\ devs \in SUBSET TapIDs /\ bridged = {} /\ up = devs

Goto(c, from, to) ==
  /\ pc[c] = from
  /\ pc' = [pc EXCEPT ![c] = to]

-----------------------------------------------------------------------------
(* CreateTapDevice(nil) *)
allocateTapID(c) ==
  /\ Goto(c, "idle", "add")
  /\ available # <<>>
  /\ id' = [id EXCEPT ![c] = Head(available)]
  /\ available' = Tail(available)
  /\ UNCHANGED host

(* Mutant of claimID: the number is not taken out of the queue. *)
claimAndKeep(c, i) ==
  /\ Goto(c, "idle", "add")
  /\ Contains(available, i)
  /\ id' = [id EXCEPT ![c] = i]
  /\ UNCHANGED <<available, host>>

(* CreateTapDevice(&i): a restore claims the number of its snapshot. *)
claimID(c, i) ==
  /\ Goto(c, "idle", "add")
  /\ i \in TapIDs
  /\ Contains(available, i)
  /\ available' = RemoveFirst(available, i)
  /\ id' = [id EXCEPT ![c] = i]
  /\ UNCHANGED host

(* Mutants of AddDevice: an existing device is reused; the device is       *)
(* brought up without being attached to the bridge.                        *)
ReuseDevice(c) ==
  /\ Goto(c, "add", "master")
  /\ devs' = devs \cup {id[c]}
  /\ UNCHANGED <<available, id, bridged, up>>

AddLoneDevice(c) ==
  /\ Goto(c, "add", "up")
  /\ id[c] \notin devs
  /\ devs' = devs \cup {id[c]}
  /\ UNCHANGED <<available, id, bridged, up>>

AddDevice(c) ==
  /\ Goto(c, "add", "master")
  /\ id[c] \notin devs
  /\ devs' = devs \cup {id[c]}
  /\ UNCHANGED <<available, id, bridged, up>>

SetMaster(c) ==
  /\ Goto(c, "master", "up")
  /\ bridged' = bridged \cup {id[c]}
  /\ UNCHANGED <<available, id, devs, up>>

SetUp(c) ==
  /\ Goto(c, "up", "owned")
  /\ up' = up \cup {id[c]}
  /\ UNCHANGED <<available, id, devs, bridged>>

(* A failed command ends the creation; the clean-up frees the number and   *)
(* leaves whatever the earlier commands made of the device.                *)
CreateFails(c) ==
  /\ \E at \in {"add", "master", "up"} : Goto(c, at, "free")
  /\ UNCHANGED <<available, id, host>>

-----------------------------------------------------------------------------
(* DestroyTapDevice *)
SetNoMaster(c) ==
  /\ Goto(c, "owned", "down")
  /\ bridged' = bridged \ {id[c]}
  /\ UNCHANGED <<available, id, devs, up>>

SetDown(c) ==
  /\ Goto(c, "down", "del")
  /\ up' = up \ {id[c]}
  /\ UNCHANGED <<available, id, devs, bridged>>

DelDevice(c) ==
  /\ Goto(c, "del", "free")
  /\ devs' = devs \ {id[c]}
  /\ UNCHANGED <<available, id, bridged, up>>

(* A failed command returns before freeTapID: the number stays taken. *)
DestroyFails(c) ==
  /\ \E at \in {"owned", "down", "del"} : Goto(c, at, "lost")
  /\ UNCHANGED <<available, id, host>>

-----------------------------------------------------------------------------
(* A free of a number that is in the queue already is refused. *)
freeTapID(c) ==
  /\ Goto(c, "free", "idle")
  /\ available' = IF id[c] \in TapIDs /\ ~Contains(available, id[c])
                  THEN Append(available, id[c])
                  ELSE available
  /\ UNCHANGED <<id, host>>

Next ==
  \E c \in Clients :
    \/ allocateTapID(c) \/ \E i \in TapIDs : claimID(c, i)
    \/ AddDevice(c) \/ SetMaster(c) \/ SetUp(c) \/ CreateFails(c)
    \/ SetNoMaster(c) \/ SetDown(c) \/ DelDevice(c) \/ DestroyFails(c)
    \/ freeTapID(c)

Spec == Init /\ [][Next]_vars

-----------------------------------------------------------------------------
PCs == {"idle", "add", "master", "up", "owned", "down", "del", "free", "lost"}

TypeOK ==
  /\ available \in Seq(TapIDs)
  /\ pc \in [Clients -> PCs]
  /\ id \in [Clients -> TapIDs]
  /\ devs \subseteq TapIDs /\ bridged \subseteq TapIDs /\ up \subseteq TapIDs

Holds(c) == IF pc[c] = "idle" THEN {} ELSE {id[c]}

(* The device a caller got is there, on the bridge and up, whatever the    *)
(* commands of the other callers do and however they fail                  *)
(* (fountain.go:135-163).                                                  *)
OwnedDeviceWorks ==
  \A c \in Clients :
    pc[c] = "owned" => id[c] \in devs \cap bridged \cap up

(* A tap number has one user: it is queued once, or one caller works with  *)
(* it, so no caller's commands hit the device of another                   *)
(* (fountain.go:51-109).                                                   *)
TapIDsKeptApart ==
  /\ IsInjective(available)
  /\ \A c \in Clients : Holds(c) \cap Range(available) = {}
  /\ \A c, d \in Clients : c # d => Holds(c) \cap Holds(d) = {}

(* A creation that failed half way, and an earlier process, leave devices  *)
(* behind; no later creation takes such a device over: whoever owns a      *)
(* device made it itself, so the set of stray devices never shrinks        *)
(* (fountain.go:137-155).                                                  *)
Strays == {i \in devs : \A c \in Clients :
             i \notin Holds(c) \/ pc[c] \in {"add", "free", "lost"}}
StraysStay == [][Strays \subseteq Strays']_vars

Pool == INSTANCE IdPool WITH
          Ids <- TapIDs, held <- [c \in Clients |-> Holds(c)]

(* Numbers are granted and released as in the abstract pool. *)
PoolSpec == Pool!Spec
=============================================================================
