------------------------------ MODULE Registry ------------------------------
(***************************************************************************)
(* pkg/server/server.go: s.vms, the map of VMs, and those who walk it:     *)
(* DestroyAllVMs, the LifecycleManager that destroys VMs whose time is     *)
(* over, and cmd/restserver's main, which destroys all VMs when the daemon *)
(* is stopped.  What they do to one VM is in VmControl.                    *)
(*                                                                         *)
(* The map's keys are strings "namespace.vmName", taken apart by           *)
(* strings.HasPrefix and TrimPrefix.  A string is here a sequence of       *)
(* parts, the dot being one of them.  A VM is a record of the two strings  *)
(* of its request.                                                         *)
(*                                                                         *)
(* A destroyVM that finds its VM never comes back (see VmControl), so no   *)
(* VM is ever deleted from the map: stuck[t] is the VM that t is caught in.*)
(***************************************************************************)
EXTENDS Sequences, SequencesExt

CONSTANTS Letters,      \* the parts strings are made of
          VMs,          \* records [ns, name] of strings
          Namespaces,   \* what clients put into the path of a request
          Handlers,     \* goroutines of HTTP requests
          Manager,      \* the goroutine of LifecycleManager
          Main,         \* the goroutine of main
          None

Threads == Handlers \cup {Manager, Main}

(* Mutant: a key without the dot. *)
KeyWithoutDot(n, name) == n \o name

(* getVmFQName *)
Key(n, name) == n \o <<".">> \o name

KeyOf(v) == Key(v.ns, v.name)

(* Nothing checks a namespace or a name: either may have dots, so that two *)
(* VMs may have the same key.                                              *)
ASSUME NamesAssumption ==
  /\ {".", "*"} \subseteq Letters
  /\ Namespaces \subseteq Seq(Letters)
  /\ \A v \in VMs : v.ns \in Seq(Letters) /\ v.name \in Seq(Letters)

ASSUME ThreadsAssumption == Manager # Main /\ {Manager, Main} \cap Handlers = {}

VARIABLES
  vms,       \* the VMs in s.vms
  expired,   \* those whose scheduleDeleteAt is over
  daemon,    \* the state of the process
  pc,        \* what each goroutine does
  ns,        \* for which namespace
  todo,      \* the names it still has to call destroyVM for
  stuck,     \* the VM whose destroyVM it is caught in, or None
  unseen     \* the VMs the LifecycleManager's loop still has to come to

work == <<ns, todo, stuck>>
vars == <<vms, expired, daemon, pc, work, unseen>>

Init ==
  /\ vms = {} /\ expired = {} /\ daemon = "up"
  /\ pc = [t \in Threads |-> "idle"]
  /\ ns = [t \in Threads |-> None]
  /\ todo = [t \in Threads |-> {}]
  /\ stuck = [t \in Threads |-> None]
  /\ unseen = {}

Alive == daemon \notin {"exited", "crashed"}

HasPrefix(s, prefix) == IsPrefix(prefix, s)

TrimPrefix(s, prefix) ==
  IF HasPrefix(s, prefix) THEN SubSeq(s, Len(prefix) + 1, Len(s)) ELSE s

(* The VMs a walk over the map takes for those of namespace n. *)
Matching(n) == {v \in vms : HasPrefix(KeyOf(v), n)}

NamesIn(n) == {TrimPrefix(KeyOf(v), n) : v \in Matching(n)}

-----------------------------------------------------------------------------
(* The last steps of createVM, on some handler: the VM is in the map, in   *)
(* the place of the one that had its key.  If the LifecycleManager, which  *)
(* has no lock, is iterating over the map, its loop may come to a new key  *)
(* or not, and the Go runtime may notice and end the process.              *)
Register(v) ==
  LET old == {w \in vms : KeyOf(w) = KeyOf(v)} IN
  /\ daemon \in {"up", "draining"}
  /\ v \notin vms
  /\ vms' = (vms \ old) \cup {v}
  /\ expired' = expired \ old
  /\ \/ old \cap unseen = {} /\ UNCHANGED unseen
     \/ /\ pc[Manager] # "idle" /\ (old = {} \/ old \cap unseen # {})
        /\ unseen' = (unseen \ old) \cup {v}
  /\ daemon' \in {daemon} \cup IF pc[Manager] = "idle" THEN {} ELSE {"crashed"}
  /\ UNCHANGED <<pc, work>>

(* Mutant: the time of a VM may be over before it is in the map. *)
ExpireEarly(v) ==
  /\ Alive
  /\ v \in VMs \ expired
  /\ expired' = expired \cup {v}
  /\ UNCHANGED <<vms, daemon, pc, work, unseen>>

Expire(v) ==
  /\ Alive
  /\ v \in vms \ expired
  /\ expired' = expired \cup {v}
  /\ UNCHANGED <<vms, daemon, pc, work, unseen>>

-----------------------------------------------------------------------------
(* destroyVM(n, name), for one name or for each of a set, in any order *)
Destroys(t, how, n, names) ==
  /\ pc' = [pc EXCEPT ![t] = how]
  /\ ns' = [ns EXCEPT ![t] = n]
  /\ todo' = [todo EXCEPT ![t] = names]

Loops == {"destroyVM", "destroyAll"}

Destroying(t) == Alive /\ pc[t] \in Loops /\ stuck[t] = None

(* Mutant: the loop tries the name again. *)
DestroyRetries(t) ==
  /\ Destroying(t)
  /\ \E name \in todo[t] : \A v \in vms : KeyOf(v) # Key(ns[t], name)
  /\ UNCHANGED vars

(* getVMAtomic finds nothing under that key; the loops go on. *)
DestroyMisses(t) ==
  /\ Destroying(t)
  /\ \E name \in todo[t] :
       /\ \A v \in vms : KeyOf(v) # Key(ns[t], name)
       /\ todo' = [todo EXCEPT ![t] = @ \ {name}]
  /\ UNCHANGED <<vms, expired, daemon, pc, ns, stuck, unseen>>

DestroyFinds(t) ==
  /\ Destroying(t)
  /\ \E name \in todo[t], v \in vms :
       /\ KeyOf(v) = Key(ns[t], name)
       /\ stuck' = [stuck EXCEPT ![t] = v]
  /\ UNCHANGED <<vms, expired, daemon, pc, ns, todo, unseen>>

-----------------------------------------------------------------------------
(* Handlers of HTTP requests *)
DestroyVM(t, n, name) ==
  /\ daemon = "up" /\ pc[t] = "idle"
  /\ Destroys(t, "destroyVM", n, {name})
  /\ UNCHANGED <<vms, expired, daemon, stuck, unseen>>

DestroyAllVMs(t, n) ==
  /\ daemon = "up" /\ pc[t] = "idle"
  /\ Destroys(t, "destroyAll", n, NamesIn(n))
  /\ UNCHANGED <<vms, expired, daemon, stuck, unseen>>

Answer(t) ==
  /\ Destroying(t) /\ todo[t] = {}
  /\ pc' = [pc EXCEPT ![t] = "done"]
  /\ UNCHANGED <<vms, expired, daemon, work, unseen>>

-----------------------------------------------------------------------------
(* LifecycleManager: every 30s a loop over the map itself, without a lock. *)
Tick ==
  /\ Alive /\ pc[Manager] = "idle"
  /\ pc' = [pc EXCEPT ![Manager] = "iterating"]
  /\ unseen' = vms
  /\ UNCHANGED <<vms, expired, daemon, work>>

Visit(v) ==
  /\ Alive /\ pc[Manager] = "iterating"
  /\ v \in unseen
  /\ unseen' = unseen \ {v}
  /\ IF v \in expired
       THEN Destroys(Manager, "destroyVM", v.ns,
                     {TrimPrefix(KeyOf(v), v.ns)})
       ELSE UNCHANGED <<pc, ns, todo>>
  /\ UNCHANGED <<vms, expired, daemon, stuck>>

VisitEnds ==
  /\ Destroying(Manager) /\ todo[Manager] = {}
  /\ pc' = [pc EXCEPT ![Manager] = "iterating"]
  /\ UNCHANGED <<vms, expired, daemon, work, unseen>>

TickEnds ==
  /\ Alive /\ pc[Manager] = "iterating" /\ unseen = {}
  /\ pc' = [pc EXCEPT ![Manager] = "idle"]
  /\ UNCHANGED <<vms, expired, daemon, work, unseen>>

-----------------------------------------------------------------------------
(* main: SIGTERM; srv.Shutdown waits for the handlers; then DestroyAllVMs. *)
Signal ==
  /\ daemon = "up"
  /\ daemon' = "draining"
  /\ UNCHANGED <<vms, expired, pc, work, unseen>>

(* Mutant: main waits for the LifecycleManager, too. *)
DrainedByAll ==
  /\ daemon = "draining"
  /\ \A t \in Handlers \cup {Manager} : pc[t] \notin Loops
  /\ daemon' = "closing"
  /\ Destroys(Main, "destroyAll", <<"*">>, NamesIn(<<"*">>))
  /\ UNCHANGED <<vms, expired, stuck, unseen>>

Drained ==
  /\ daemon = "draining"
  /\ \A t \in Handlers : pc[t] \notin Loops
  /\ daemon' = "closing"
  /\ Destroys(Main, "destroyAll", <<"*">>, NamesIn(<<"*">>))
  /\ UNCHANGED <<vms, expired, stuck, unseen>>

Exit ==
  /\ daemon = "closing" /\ stuck[Main] = None /\ todo[Main] = {}
  /\ daemon' = "exited"
  /\ UNCHANGED <<vms, expired, pc, work, unseen>>

-----------------------------------------------------------------------------
Destroy(t) == DestroyMisses(t) \/ DestroyFinds(t)

Manage == Tick \/ TickEnds \/ VisitEnds \/ \E v \in VMs : Visit(v)

Close == Drained \/ Exit

Next ==
  \/ \E v \in VMs : Register(v) \/ Expire(v)
  \/ \E t \in Handlers, n \in Namespaces, v \in VMs : DestroyVM(t, n, v.name)
  \/ \E t \in Handlers, n \in Namespaces : DestroyAllVMs(t, n)
  \/ \E t \in Handlers : Answer(t)
  \/ \E t \in Threads : Destroy(t)
  \/ Manage \/ Signal \/ Close

Spec == Init /\ [][Next]_vars

(* Every goroutine that can run does.  Nobody need send requests or        *)
(* signals, and no VM need expire.                                         *)
FairSpec ==
  /\ Spec
  /\ \A t \in Handlers : WF_vars(Destroy(t) \/ Answer(t))
  /\ WF_vars(Manage \/ Destroy(Manager))
  /\ WF_vars(Close \/ Destroy(Main))

-----------------------------------------------------------------------------
(* Properties *)
TypeOK ==
  /\ vms \subseteq VMs /\ expired \subseteq vms
  /\ daemon \in {"up", "draining", "closing", "exited", "crashed"}
  /\ pc \in [Threads -> Loops \cup {"idle", "iterating", "done"}]
  /\ \A t \in Threads : ns[t] \in Namespaces \cup {None, <<"*">>}
                                  \cup {v.ns : v \in VMs}
  /\ stuck \in [Threads -> VMs \cup {None}]
  /\ unseen \subseteq vms

(* m is n, or goes on from n with a dot. *)
Extends(m, n) == m = n \/ IsPrefix(n \o <<".">>, m)

(* HasPrefix also matches VMs of namespaces with a longer name, and nobody *)
(* looks at the namespace of the VM that is found.  The key that destroyVM *)
(* makes leads back into the namespace it works for; only a namespace that *)
(* extends another one by a dot and more reaches its VMs, or is reached    *)
(* (server.go:147-149, 1467-1480).  Namespaces without dots are apart.     *)
NamespacesApart ==
  \A t \in Threads : stuck[t] # None =>
    Extends(stuck[t].ns, ns[t]) \/ Extends(ns[t], stuck[t].ns)

(* A daemon that was told to stop does, although it waits for its handlers *)
(* without a deadline and then destroys every VM, unless one of them or    *)
(* main itself is caught in a destroyVM.  A LifecycleManager that is       *)
(* caught, or at work, does not hold it up                                 *)
(* (cmd/restserver/main.go:507-513).                                       *)
ShutdownEnds ==
  daemon = "draining" ~> ~Alive \/ \E t \in Handlers \cup {Main} : stuck[t] # None

(* A destroy request is answered unless it found a VM or the daemon died,  *)
(* and the loop of the LifecycleManager comes to its end.                  *)
HandlersEnd ==
  \A t \in Threads : pc[t] \in Loops \cup {"iterating"} ~>
    pc[t] \in {"done", "idle"} \/ stuck[t] # None \/ ~Alive

-----------------------------------------------------------------------------
(* What the repository says and the code does not do *)

(* server-api.yaml:374-376, ttl_seconds, "The number of seconds after      *)
(* creation when the resource will be automatically deleted": someone      *)
(* comes to destroy a VM whose time is over.                               *)
ExpiredDestroyed ==
  \A v \in VMs :
    v \in expired ~> ~Alive \/ \E t \in Threads : stuck[t] = v
=============================================================================
