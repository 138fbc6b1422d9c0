------------------------------- MODULE Startup -------------------------------
(***************************************************************************)
(* pkg/server/server.go, NewServer, and what it meets on the host: the tap *)
(* devices, the bridge, the firewall and the DNAT rules outlive the        *)
(* process, which may end at any moment (a crash, a signal, or a command   *)
(* of NewServer that failed, after which main gives up) and is started     *)
(* again.  The guests outlive it too: they are in a process group of their *)
(* own, and main's DestroyAllVMs("*") finds none of them.                  *)
(*                                                                         *)
(* While the server serves, requests attach tap devices and add or delete  *)
(* DNAT rules (NatRules).  Each life of the server has allocators of its   *)
(* own, so two requests of one life differ in tap, address and host ports  *)
(* (see StartVM) and requests of two lives need not.                       *)
(***************************************************************************)
EXTENDS NatRules

CONSTANTS Lives,        \* how many times the server is started
          LifeOf,       \* the life in which a request arrives
          Tap,          \* the number CreateTapDevice gives it
          Lookalike,    \* whether the host has another bridge whose name
                        \* ends in this bridge's, such as virbr0
          NamedBr0,     \* whether bridge_name is "br0"
          None

ASSUME LivesAssumption ==
  /\ Lives \in Nat
  /\ \A r \in Requests : LifeOf[r] \in 1..Lives
  /\ \A r, q \in Requests : r # q /\ LifeOf[r] = LifeOf[q] =>
       /\ Tap[r] # Tap[q] /\ Address[r] # Address[q]
       /\ \A j, k \in 1..NumForwards : HostPort[r][j] # HostPort[q][k]

(* AllocatePort hands a port out once. *)
ASSUME PortsAssumption ==
  \A r \in Requests : \A j, k \in 1..NumForwards :
    HostPort[r][j] = HostPort[r][k] => j = k

ASSUME NoneAssumption == None \notin Requests

ASSUME NamedBr0Assumption == NamedBr0 \in BOOLEAN

VARIABLES
  life,      \* how often the server was started
  at,        \* where NewServer is, or "serving", or "down"
  step,      \* the next command of setupBridgeAndFirewall
  host,      \* which of them have their effect on the host
  taps,      \* whose tap device exists under each number, or None
  bridged,   \* the tap devices that are ports of the bridge
  missed     \* cleanupBridge did not see the bridge, which was there

chain == <<rules, pc, added, numbers, err>>
place == <<life, at, step>>
network == <<host, taps, bridged, missed>>
allVars == <<chain, place, network>>

Taps == {Tap[r] : r \in Requests}

Setup == <<"addBridge", "bridgeUp", "bridgeAddress", "masquerade",
           "forwardHost", "forwardBridge", "acceptFrom", "acceptTo">>

Effects == {Setup[k] : k \in DOMAIN Setup}

(* What goes with the bridge when it is deleted. *)
OfBridge == {"addBridge", "bridgeUp", "bridgeAddress", "forwardBridge"}

StartupInit ==
  /\ Init
  /\ life = 0 /\ at = "down" /\ step = 1
  /\ host = {} /\ bridged = {}
  /\ taps = [t \in Taps |-> None]
  /\ missed = FALSE

Move(from, to) == at = from /\ at' = to

-----------------------------------------------------------------------------
(* main: a new process, with empty memory *)
Start ==
  /\ life < Lives
  /\ Move("down", "rmTaps")
  /\ life' = life + 1
  /\ step' = 1
  /\ missed' = FALSE
  /\ pc' = [pc EXCEPT ![Server] = "cleaned"]
  /\ numbers' = [numbers EXCEPT ![Server] = {}]
  /\ err' = [err EXCEPT ![Server] = FALSE]
  /\ UNCHANGED <<rules, added, host, taps, bridged>>

(* Killed, stopped by a signal, or out of NewServer with an error. *)
Dies ==
  /\ at # "down"
  /\ at' = "down"
  /\ UNCHANGED <<chain, life, step, network>>

-----------------------------------------------------------------------------
(* NewServer *)
Existing == {t \in Taps : taps[t] # None}

(* A device that cannot be deleted is logged and left. *)
CleanupTapDevices ==
  /\ Move("rmTaps", "rmBridge")
  /\ \E left \in SUBSET Existing :
       /\ taps' = [t \in Taps |-> IF t \in left THEN taps[t] ELSE None]
       /\ bridged' = bridged \cap left
  /\ UNCHANGED <<chain, life, step, host, missed>>

(* Mutant: a bridge that is there is kept. *)
KeepBridge ==
  /\ Move("rmBridge", "rmRules")
  /\ NamedBr0
  /\ "addBridge" \in host
  /\ pc' = [pc EXCEPT ![Server] = "list"]
  /\ UNCHANGED <<rules, added, numbers, err, life, step, network>>

(* cleanupBridge looks for br0 and deletes br0, whatever name the          *)
(* configuration gives the bridge that the set-up makes.  Deleting a       *)
(* bridge releases its ports.                                              *)
DeleteBridge ==
  /\ Move("rmBridge", "rmRules")
  /\ NamedBr0
  /\ "addBridge" \in host
  /\ host' = host \ OfBridge
  /\ bridged' = {}
  /\ pc' = [pc EXCEPT ![Server] = "list"]
  /\ UNCHANGED <<rules, added, numbers, err, life, step, taps, missed>>

(* `ip link show br0` failed, which is taken for "no such bridge".  It     *)
(* always fails when the bridge has another name.                          *)
NoBridgeSeen ==
  /\ Move("rmBridge", "rmRules")
  /\ missed' = ("addBridge" \in host)
  /\ pc' = [pc EXCEPT ![Server] = "list"]
  /\ UNCHANGED <<rules, added, numbers, err, life, step, host, taps, bridged>>

(* cleanupAllIPTablesRulesForIP(ipPrefix) *)
CleanupRules ==
  /\ at = "rmRules"
  /\ Cleanup(Server)
  /\ UNCHANGED <<place, network>>

(* The directories and the backup of the firewall leave nothing to model. *)
RulesCleaned ==
  /\ Move("rmRules", "look")
  /\ pc[Server] = "cleaned" /\ ~err[Server]
  /\ UNCHANGED <<chain, life, step, network>>

(* Any line of `ip link show type bridge` that contains the name and ":". *)
bridgeExists == "addBridge" \in host \/ Lookalike

AlreadySetUp ==
  /\ Move("look", "serving")
  /\ bridgeExists
  /\ UNCHANGED <<chain, life, step, network>>

BeginSetup ==
  /\ Move("look", "setup")
  /\ ~bridgeExists
  /\ UNCHANGED <<chain, life, step, network>>

SetupCommand ==
  /\ at = "setup" /\ step \in DOMAIN Setup
  /\ host' = host \cup {Setup[step]}
  /\ step' = step + 1
  /\ UNCHANGED <<chain, life, at, taps, bridged, missed>>

Serve ==
  /\ Move("setup", "serving")
  /\ step = Len(Setup) + 1
  /\ UNCHANGED <<chain, life, step, network>>

-----------------------------------------------------------------------------
(* The requests of this life *)
Current(r) == LifeOf[r] = life

Attached(r) == taps[Tap[r]] = r /\ Tap[r] \in bridged

(* CreateTapDevice: a device of that name may still be there; without a    *)
(* bridge the new one cannot be attached, and stays behind.                *)
CreateTapDevice(r) ==
  /\ at = "serving" /\ Current(r)
  /\ taps[Tap[r]] = None
  /\ taps' = [taps EXCEPT ![Tap[r]] = r]
  /\ bridged' = IF "addBridge" \in host THEN bridged \cup {Tap[r]} ELSE bridged
  /\ UNCHANGED <<chain, place, host, missed>>

Serving(r) ==
  /\ at = "serving" /\ Current(r) /\ Attached(r)
  /\ Create(r) \/ Cleanup(r)
  /\ UNCHANGED <<place, network>>

NewServer ==
  \/ CleanupTapDevices \/ DeleteBridge \/ NoBridgeSeen
  \/ CleanupRules \/ RulesCleaned
  \/ AlreadySetUp \/ BeginSetup \/ SetupCommand \/ Serve

StartupNext ==
  \/ Start \/ Dies \/ NewServer
  \/ \E r \in Requests : CreateTapDevice(r) \/ Serving(r)

StartupSpec == StartupInit /\ [][StartupNext]_allVars

-----------------------------------------------------------------------------
(* Properties *)
StartupTypeOK ==
  /\ TypeOK
  /\ life \in 0..Lives
  /\ at \in {"down", "rmTaps", "rmBridge", "rmRules", "look", "setup", "serving"}
  /\ step \in 1..(Len(Setup) + 1)
  /\ host \subseteq Effects
  /\ taps \in [Taps -> Requests \cup {None}]
  /\ bridged \subseteq Existing
  /\ missed \in BOOLEAN

(* A VM whose creation did not fail keeps every rule it was given: no      *)
(* clean-up of another VM takes one away, whatever an earlier life of the  *)
(* server left in the chain (server.go:343, "deleting all iptables rules   *)
(* for IP").  It holds while one clean-up runs at a time: rules that are   *)
(* appended meanwhile do not move the numbers noted.                       *)
RulesKept == \A r \in Requests : Current(r) => KeepsRules(r)

(* A clean-up that met no error left no rule for its address, those of an  *)
(* earlier life included, so the address can be given to another VM        *)
(* (server.go:982-1004).                                                   *)
RulesGone == \A r \in Requests : Current(r) => LeavesNoRule(r)

(* A server that serves has a bridge that is up, has its address and is    *)
(* let through the firewall, at whichever command of an earlier NewServer  *)
(* the process had ended: the half-made bridge was deleted and all         *)
(* commands were run again (server.go:415-483).  Nothing of this holds of  *)
(* a server that missed the bridge: one whose bridge_name is not br0 does  *)
(* at every restart over its bridge, which then stays as it is, half-made  *)
(* or not.                                                                 *)
HostReady ==
  at = "serving" /\ ~missed /\ ~Lookalike => host = Effects

(* A guest that outlived its server cannot be reached at the address of a  *)
(* new VM: even if its tap device could not be deleted, it is off the      *)
(* bridge (server.go:396-430).  If the bridge was missed, as it always is  *)
(* under a name other than br0, such a device stays on it.                 *)
NoOldGuestOnBridge ==
  at = "serving" /\ ~missed => \A t \in bridged : Current(taps[t])

-----------------------------------------------------------------------------
(* What the repository says and the code does not do *)

(* The first rule for a host port decides where a connection goes. *)
Destination(port) ==
  LET first == Min({i \in DOMAIN rules : rules[i].dport = port})
  IN <<rules[first].to, rules[first].port>>

(* README.md:202, "We see port 3000 is the host port forwarded to the VNC  *)
(* server running inside the sandbox.": a connection to a host port of a   *)
(* VM's port forwards reaches that VM and guest port.  NewServer deletes   *)
(* none of the rules of an earlier life, since the text it looks for, the  *)
(* prefix and a colon, is in no rule; they stay in front of the new ones.  *)
ForwardsReach ==
  \A r \in Requests : ~missed /\ Current(r) /\ pc[r] = "forwarded" =>
    \A k \in 1..NumForwards :
      Destination(HostPort[r][k]) = <<Address[r], k>>
=============================================================================
