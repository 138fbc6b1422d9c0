----------------------------- MODULE MCStartVM -----------------------------
(* Small instances of StartVM: requests that start different VMs, and      *)
(* requests that start the same one.                                       *)
EXTENDS StartVM, TLC

CONSTANTS r1, r2, r3, n1, n2

TwoRequests == {r1, r2}
ThreeRequests == {r1, r2, r3}

Distinct == r1 :> n1 @@ r2 :> n2
ThreeSame == r1 :> n1 @@ r2 :> n1 @@ r3 :> n1

(* The server when r3 is over: it failed at once, or its VM is up, with    *)
(* one of each identifier and the first ports.                             *)
Over(up) ==
  LET with(x, y) == IF up THEN x ELSE y
      one(S) == CHOOSE s \in S : TRUE
      only(x) == [r \in Requests |-> IF r = r3 /\ up THEN x ELSE None]
      n == Target[r3]
  IN /\ pc = [r \in Requests |-> IF r # r3 THEN "start" ELSE with("ready", "failed")]
     /\ tap = only(one(TapIDs)) /\ freeTaps = TapIDs \ {tap[r3]}
     /\ ip = only(one(IPs)) /\ freeIPs = IPs \ {ip[r3]}
     /\ cid = only(one(CIDs)) /\ freeCIDs = CIDs \ {cid[r3]}
     /\ hostPort = [r \in Requests |-> None]
     /\ ports = [r \in Requests |-> IF r # r3 \/ ~up THEN {} ELSE
                   CHOOSE S \in SUBSET Ports : Cardinality(S) = NumForwards]
     /\ freePorts = Ports \ ports[r3]
     /\ vms = [m \in Names |-> IF m = n THEN with(r3, None) ELSE None]
     /\ dir = with({n}, {})
     /\ sock = vms /\ disk = vms
     /\ proc = [r \in Requests |-> IF r = r3 THEN with("running", "none") ELSE "none"]
     /\ guest = only(r3)

LaterFairSpec == (Over(TRUE) \/ Over(FALSE)) /\ [][Next]_vars /\ Fairness

(* Identifiers of one kind are interchangeable, and so are requests for    *)
(* one name.                                                               *)
Identifiers ==
  Permutations(TapIDs) \cup Permutations(IPs) \cup Permutations(CIDs)
    \cup Permutations(Ports)

Symmetry == Identifiers \cup Permutations(Requests)
=============================================================================
