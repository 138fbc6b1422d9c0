-------------------------- MODULE AllocatorsProofs --------------------------
(***************************************************************************)
(* For any ranges of CIDs, ports, addresses and tap numbers and any set of *)
(* callers: the four queues of one server side by side.  CIDs and ports    *)
(* share one argument, Kept: an identifier is once in the queue or with    *)
(* one caller, and is never in neither.  Of addresses that holds until a   *)
(* call misuses them.  The fountain loses numbers, so TapsKept says less   *)
(* of its queue; it says more of the devices: how far the caller that      *)
(* works on a device has got with it.                                      *)
(***************************************************************************)
EXTENDS Allocators, QueueTheorems

(* What an allocator's queue q and the holdings h of its callers are.      *)
Kept(q, h, Ids) ==
  /\ q \in Seq(Ids) /\ IsInjective(q)
  /\ h \in [Clients -> SUBSET Ids]
  /\ \A c \in Clients : Range(q) \cap h[c] = {}
  /\ \A c, d \in Clients : c # d => h[c] \cap h[d] = {}
  /\ \A i \in Ids : i \in Range(q) \/ \E c \in Clients : i \in h[c]

Take(h, c, i) == [h EXCEPT ![c] = @ \cup {i}]
GiveBack(h, c, i) == [h EXCEPT ![c] = @ \ {i}]

(* A tap number is queued once or one caller works with it, and that is    *)
(* the only caller whose commands change the device of this number.        *)
Working(c) == pc[c] # "idle"

TapsKept ==
  /\ F!TypeOK /\ IsInjective(freeTaps)
  /\ \A c \in Clients : Working(c) => id[c] \notin Range(freeTaps)
  /\ \A c, d \in Clients : Working(c) /\ Working(d) /\ c # d => id[c] # id[d]
  /\ \A c \in Clients :
       /\ pc[c] \in {"master", "up", "owned"} => id[c] \in devs
       /\ pc[c] \in {"up", "owned"} => id[c] \in bridged
       /\ pc[c] = "owned" => id[c] \in up

-----------------------------------------------------------------------------
(* A caller takes an identifier from the queue: it was with nobody.        *)
LEMMA TakeKeeps ==
  ASSUME NEW Ids, NEW q, NEW h, Kept(q, h, Ids),
         NEW c \in Clients, NEW i \in Range(q),
         NEW q2 \in Seq(Ids), IsInjective(q2), Range(q2) = Range(q) \ {i}
  PROVE  /\ Kept(q2, Take(h, c, i), Ids)
         /\ i \in Ids /\ \A d \in Clients : i \notin h[d]
<1>1. Range(q) \subseteq Ids
  BY DEF Kept, Range
<1>2. Take(h, c, i) \in [Clients -> SUBSET Ids]
  BY <1>1 DEF Kept, Take
<1>3. \A j \in Ids : j \in Range(q2) \/ \E d \in Clients : j \in Take(h, c, i)[d]
  BY DEF Kept, Take
<1> QED BY <1>1, <1>2, <1>3 DEF Kept, Take

(* A caller gives back what it holds. *)
LEMMA FreeKeeps ==
  ASSUME NEW Ids, NEW q, NEW h, Kept(q, h, Ids),
         NEW c \in Clients, NEW i \in h[c]
  PROVE  Kept(Append(q, i), GiveBack(h, c, i), Ids) /\ i \in Ids
<1> DEFINE q2 == Append(q, i)
<1>1. i \in Ids /\ i \notin Range(q)
  BY DEF Kept
<1>2. q2 \in Seq(Ids) /\ IsInjective(q2) /\ Range(q2) = Range(q) \cup {i}
  BY <1>1, AppendToQueue DEF Kept
<1>3. GiveBack(h, c, i) \in [Clients -> SUBSET Ids]
  BY DEF Kept, GiveBack
<1> HIDE DEF q2
<1>4. \A j \in Ids : j \in Range(q2) \/ \E d \in Clients : j \in GiveBack(h, c, i)[d]
  BY <1>2 DEF Kept, GiveBack
<1>5. Kept(q2, GiveBack(h, c, i), Ids)
  BY <1>1, <1>2, <1>3, <1>4 DEF Kept, GiveBack
<1> QED BY <1>1, <1>5 DEF q2

-----------------------------------------------------------------------------
CIDsKept == Kept(available, held, CIDs)
PortsKept == Kept(freePorts, portsHeld, P!PortRange)
IPsKept == A!TypeOK /\ A!IPsConserved

(* A step of the allocator of CIDs is a step of the pool.                  *)
LEMMA CIDStep ==
  ASSUME CIDsKept, Next
  PROVE  CIDsKept' /\ Pool!Next
<1> USE DEF Pool!Next, Pool!Grant, Pool!Release, Pool!Unheld, CIDsKept
<1>1. ASSUME NEW c \in Clients, AllocateCID(c)
      PROVE  CIDsKept' /\ Pool!Next
  <2>1. /\ available # <<>> /\ available' = Tail(available)
        /\ held' = Take(held, c, Head(available))
    BY <1>1 DEF AllocateCID, Take
  <2>2. /\ Head(available) \in Range(available)
        /\ Tail(available) \in Seq(CIDs) /\ IsInjective(Tail(available))
        /\ Range(Tail(available)) = Range(available) \ {Head(available)}
    BY <2>1, TailOfQueue DEF Kept
  <2>3. /\ Kept(available', held', CIDs) /\ Head(available) \in CIDs
        /\ \A d \in Clients : Head(available) \notin held[d]
    BY <2>1, <2>2, TakeKeeps
  <2> QED BY <1>1, <2>1, <2>3 DEF Take
<1>2. ASSUME NEW c \in Clients, NEW cid, FreeCID(c, cid)
      PROVE  CIDsKept' /\ Pool!Next
  <2>1. /\ available' = Append(available, cid)
        /\ held' = GiveBack(held, c, cid)
        /\ cid \in held[c]
    BY <1>2 DEF FreeCID, Kept, GiveBack
  <2>2. Kept(available', held', CIDs) /\ cid \in CIDs
    BY <2>1, FreeKeeps
  <2> QED BY <1>2, <2>1, <2>2 DEF GiveBack
<1>3. ASSUME NEW c \in Clients, NEW cid, ClaimCID(c, cid)
      PROVE  CIDsKept' /\ Pool!Next
  <2>1. PICK k \in 1..Len(available) :
          /\ available[k] = cid /\ available' = RemoveAt(available, k)
          /\ held' = Take(held, c, cid)
    BY <1>3 DEF ClaimCID, Take
  <2>2. /\ cid \in Range(available)
        /\ available' \in Seq(CIDs) /\ IsInjective(available')
        /\ Range(available') = Range(available) \ {cid}
    BY <2>1, RemoveFromQueue DEF Kept
  <2>3. /\ Kept(available', held', CIDs) /\ cid \in CIDs
        /\ \A d \in Clients : cid \notin held[d]
    BY <2>1, <2>2, TakeKeeps
  <2> QED BY <1>3, <2>1, <2>3 DEF Take
<1> QED BY <1>1, <1>2, <1>3 DEF Next

LEMMA InitCIDsKept == Init => CIDsKept
<1> SUFFICES ASSUME Init PROVE CIDsKept
  OBVIOUS
<1>1. /\ lowCID \in Nat /\ highCID - lowCID + 1 \in Nat
      /\ lowCID + (highCID - lowCID + 1) - 1 = highCID
  BY RangeAssumption
<1>2. available = [k \in 1..(highCID - lowCID + 1) |-> lowCID + k - 1]
  BY DEF Init
<1>3. /\ available \in Seq(CIDs) /\ IsInjective(available)
      /\ Range(available) = CIDs
  BY <1>1, <1>2, NewQueue DEF CIDs
<1> QED BY <1>3 DEF CIDsKept, Kept, Init

LEMMA CIDsKeptAlways == Spec => []CIDsKept
<1>1. CIDsKept /\ [Next]_vars => CIDsKept'
  BY CIDStep DEF CIDsKept, vars
<1> QED BY <1>1, InitCIDsKept, PTL DEF Spec

(* Any order of allocations, frees, repeated frees and claims leaves every *)
(* CID either in the queue once or with exactly one caller.                *)
THEOREM CIDsKeptApart == Spec => [](TypeOK /\ NoSharedCID /\ NoLostCID)
<1>1. CIDsKept => TypeOK /\ NoSharedCID /\ NoLostCID
  BY DEF CIDsKept, Kept, TypeOK, NoSharedCID, NoLostCID, Range
<1> QED BY <1>1, CIDsKeptAlways, PTL

(* The allocator implements the pool: each call that succeeds is a grant   *)
(* of an unheld CID or a release by its holder.                            *)
THEOREM ImplementsPool == Spec => PoolSpec
<1>1. Init => Pool!Init
  BY DEF Init, Pool!Init
<1>2. CIDsKept /\ [Next]_vars => [Pool!Next]_held
  BY CIDStep DEF vars
<1> QED BY <1>1, <1>2, CIDsKeptAlways, PTL DEF Spec, PoolSpec, Pool!Spec

-----------------------------------------------------------------------------
(* The allocators' sequence operators are the ones of the lemmas.          *)
LEMMA SameRemoveFirst == \A s, x : A!RemoveFirst(s, x) = RemoveFirst(s, x)
BY DEF A!RemoveFirst, A!RemoveAt, A!SelectInSeq, A!Min, RemoveFirst, RemoveAt,
       SelectInSeq, Min

(* A step of the port allocator is a step of the pool.                     *)
LEMMA PortStep ==
  ASSUME PortsKept, P!Next
  PROVE  PortsKept' /\ P!Pool!Next
<1> USE DEF P!Pool!Next, P!Pool!Grant, P!Pool!Release, P!Pool!Unheld, PortsKept
<1>1. ASSUME NEW c \in Clients, P!AllocatePort(c)
      PROVE  PortsKept' /\ P!Pool!Next
  <2>1. /\ freePorts # <<>> /\ freePorts' = Tail(freePorts)
        /\ portsHeld' = Take(portsHeld, c, Head(freePorts))
    BY <1>1 DEF P!AllocatePort, Take
  <2>2. /\ Head(freePorts) \in Range(freePorts)
        /\ Tail(freePorts) \in Seq(P!PortRange) /\ IsInjective(Tail(freePorts))
        /\ Range(Tail(freePorts)) = Range(freePorts) \ {Head(freePorts)}
    BY <2>1, TailOfQueue DEF Kept
  <2>3. /\ Kept(freePorts', portsHeld', P!PortRange)
        /\ Head(freePorts) \in P!PortRange
        /\ \A d \in Clients : Head(freePorts) \notin portsHeld[d]
    BY <2>1, <2>2, TakeKeeps
  <2> QED BY <1>1, <2>1, <2>3 DEF P!PortRange, Take
<1>2. ASSUME NEW c \in Clients, NEW port, P!FreePort(c, port)
      PROVE  PortsKept' /\ P!Pool!Next
  <2>1. /\ freePorts' = Append(freePorts, port)
        /\ portsHeld' = GiveBack(portsHeld, c, port)
        /\ port \in portsHeld[c]
    BY <1>2 DEF P!FreePort, P!Range, Range, Kept, GiveBack
  <2>2. Kept(freePorts', portsHeld', P!PortRange) /\ port \in P!PortRange
    BY <2>1, FreeKeeps
  <2> QED BY <1>2, <2>1, <2>2 DEF P!PortRange, GiveBack
<1> QED BY <1>1, <1>2 DEF P!Next

(* A step of the address allocator is a step of the pool, too, as seen by  *)
(* the addresses that were not misused: a claim or a free that misuses an  *)
(* address releases it from the pool.  For each address ip, a step leaves  *)
(* it alone, or ip is the one that the call is about.                      *)
IPsLeft(i) ==
  /\ freeIPs' \in Seq(A!IPs)
  /\ \A j \in A!IPs \ {i} : /\ At(freeIPs, j) = {} <=> At(freeIPs', j) = {}
                            /\ Once(freeIPs, j) => Once(freeIPs', j)

LEMMA IPCall ==
  ASSUME A!TypeOK, A!IPsConserved, NEW c \in Clients, NEW i \in A!IPs,
         IPsLeft(i),
         ipsHeld' = Take(ipsHeld, c, i) \/ ipsHeld' = GiveBack(ipsHeld, c, i),
         ipsMisused' = ipsMisused \/ ipsMisused' = ipsMisused \cup {i},
         At(freeIPs', i) # {} \/ \E d \in Clients : i \in ipsHeld'[d],
         i \notin ipsMisused' => A!InOnePlace(i)'
  PROVE  IPsKept'
<1>1. /\ ipsHeld \in [Clients -> SUBSET A!IPs]
      /\ ipsHeld' \in [Clients -> SUBSET A!IPs]
      /\ ipsMisused' \subseteq A!IPs
  BY DEF A!TypeOK, Take, GiveBack
<1>2. \A d \in Clients, j \in A!IPs \ {i} : j \in ipsHeld'[d] <=> j \in ipsHeld[d]
  BY <1>1 DEF Take, GiveBack
<1>3. A!TypeOK'
  BY <1>1 DEF A!TypeOK, IPsLeft
<1>4. ASSUME NEW j \in A!IPs, j # i PROVE At(freeIPs', j) # {} \/ A!InUse(j)'
  BY <1>2, <1>4 DEF IPsLeft, A!IPsConserved, A!InUse, A!QueuedAt, At
<1>5. ASSUME NEW j \in A!IPs, j # i, j \notin ipsMisused' PROVE A!InOnePlace(j)'
  <2>1. A!InOnePlace(j)
    BY <1>5 DEF A!IPsConserved
  <2>2. A!InUse(j)' <=> A!InUse(j)
    BY <1>2, <1>5 DEF A!InUse
  <2>3. \A d \in Clients : j \in ipsHeld'[d] <=> j \in ipsHeld[d]
    BY <1>2, <1>5
  <2>4. CASE Once(freeIPs, j) /\ ~A!InUse(j)
    <3>1. Once(freeIPs', j) /\ ~A!InUse(j)'
      BY <2>2, <2>4, <1>5 DEF IPsLeft
    <3> QED BY <3>1 DEF A!InOnePlace, A!QueuedAt, Once, At
  <2>5. CASE ~(Once(freeIPs, j) /\ ~A!InUse(j))
    <3>1. /\ At(freeIPs, j) = {}
          /\ \E e \in Clients : \A d \in Clients : j \in ipsHeld[d] <=> d = e
      BY <2>1, <2>5 DEF A!InOnePlace, A!QueuedAt, Once, At
    <3>2. At(freeIPs', j) = {}
      BY <3>1, <1>5 DEF IPsLeft
    <3> QED BY <3>1, <3>2, <2>3 DEF A!InOnePlace, A!QueuedAt, At
  <2> QED BY <2>4, <2>5
<1> QED
  BY <1>3, <1>4, <1>5 DEF IPsKept, A!IPsConserved, A!QueuedAt, A!InUse, At

LEMMA IPStep ==
  ASSUME IPsKept, A!Next
  PROVE  IPsKept' /\ [A!Pool!Next]_[c \in Clients |-> ipsHeld[c] \ ipsMisused]
<1> DEFINE h == [c \in Clients |-> ipsHeld[c] \ ipsMisused]
<1>0. /\ freeIPs \in Seq(A!IPs) /\ ipsHeld \in [Clients -> SUBSET A!IPs]
      /\ ipsMisused \subseteq A!IPs
  BY DEF IPsKept, A!TypeOK
<1>a. \A i \in A!IPs \ ipsMisused :
        \/ Once(freeIPs, i) /\ ~A!InUse(i)
        \/ /\ At(freeIPs, i) = {}
           /\ \E c \in Clients : \A d \in Clients : i \in ipsHeld[d] <=> d = c
  BY DEF IPsKept, A!IPsConserved, A!InOnePlace, A!QueuedAt, Once, At
<1>b. \A i : Once(freeIPs, i) => At(freeIPs, i) # {}
  BY DEF Once
<1>1. ASSUME NEW c \in Clients, NEW i, i = Head(freeIPs), A!AllocateIP(c)
      PROVE  IPsKept' /\ [A!Pool!Next]_h
  <2>1. /\ freeIPs # <<>> /\ freeIPs' = Tail(freeIPs)
        /\ ipsHeld' = Take(ipsHeld, c, i) /\ ipsMisused' = ipsMisused
    BY <1>1 DEF A!AllocateIP, Take
  <2>2. /\ i \in A!IPs /\ At(freeIPs, i) # {} /\ IPsLeft(i)
        /\ Once(freeIPs, i) => At(freeIPs', i) = {}
    BY <2>1, <1>0, <1>1, TailLeaves DEF IPsLeft
  <2>3. i \in ipsHeld'[c] /\ \A d \in Clients : i \in ipsHeld'[d] <=> i \in ipsHeld[d] \/ d = c
    BY <2>1, <1>0 DEF Take
  <2>4. i \notin ipsMisused => Once(freeIPs, i) /\ ~A!InUse(i)
    BY <2>2, <1>a
  <2>5. i \notin ipsMisused' => A!InOnePlace(i)'
    BY <2>1, <2>2, <2>3, <2>4 DEF A!InOnePlace, A!QueuedAt, A!InUse, At
  <2>6. IPsKept'
    BY <2>1, <2>2, <2>3, <2>5, IPCall DEF IPsKept
  <2>7. CASE i \in ipsMisused
    <3>1. UNCHANGED h
      BY <2>1, <2>7, <1>0 DEF Take
    <3> QED BY <2>6, <3>1
  <2>8. CASE i \notin ipsMisused
    <3>1. h' = [h EXCEPT ![c] = @ \cup {i}]
      BY <2>1, <2>8, <1>0 DEF Take
    <3>2. A!Pool!Grant(c, i)
      BY <3>1, <2>4, <2>8 DEF A!Pool!Grant, A!Pool!Unheld, A!InUse
    <3> QED BY <2>2, <2>6, <3>2 DEF A!Pool!Next
  <2> QED BY <2>7, <2>8
(* A call that misuses i: whoever had it has it outside the pool.          *)
<1>2. ASSUME NEW i \in A!IPs, ipsMisused' = ipsMisused \cup {i},
             \E c \in Clients : ipsHeld' = Take(ipsHeld, c, i)
                                \/ ipsHeld' = GiveBack(ipsHeld, c, i)
      PROVE  [A!Pool!Next]_h
  <2>1. \A d \in Clients : ipsHeld'[d] \ {i} = ipsHeld[d] \ {i}
    BY <1>0, <1>2 DEF Take, GiveBack
  <2>2. h' = [d \in Clients |-> (ipsHeld[d] \ ipsMisused) \ {i}]
    BY <1>2, <2>1
  <2>3. CASE i \notin ipsMisused /\ A!InUse(i)
    <3>1. PICK d \in Clients : \A e \in Clients : i \in ipsHeld[e] <=> e = d
      BY <2>3, <1>a
    <3>2. h' = [h EXCEPT ![d] = @ \ {i}] /\ i \in h[d]
      BY <2>2, <2>3, <3>1
    <3> QED BY <3>2 DEF A!Pool!Next, A!Pool!Release
  <2>4. CASE ~(i \notin ipsMisused /\ A!InUse(i))
    <3>1. \A d \in Clients : i \notin ipsHeld[d] \ ipsMisused
      BY <2>4 DEF A!InUse
    <3> QED BY <2>2, <3>1
  <2> QED BY <2>3, <2>4
<1>3. ASSUME NEW c \in Clients, NEW i \in A!IPs, A!FreeIP(c, i)
      PROVE  IPsKept' /\ [A!Pool!Next]_h
  <2>1. /\ freeIPs' = Append(freeIPs, i) /\ ipsHeld' = GiveBack(ipsHeld, c, i)
        /\ ipsMisused' = IF i \in ipsHeld[c] THEN ipsMisused
                         ELSE ipsMisused \cup {i}
    BY <1>3 DEF A!FreeIP, GiveBack
  <2>2. /\ IPsLeft(i) /\ At(freeIPs', i) # {}
        /\ At(freeIPs, i) = {} => Once(freeIPs', i)
    BY <2>1, <1>0, AppendLeaves DEF IPsLeft
  <2>3. i \notin ipsMisused' => A!InOnePlace(i)'
    <3> SUFFICES ASSUME i \notin ipsMisused' PROVE A!InOnePlace(i)'
      OBVIOUS
    <3>1. i \in ipsHeld[c] /\ i \notin ipsMisused
      BY <2>1
    <3>2. At(freeIPs, i) = {} /\ \A d \in Clients : i \in ipsHeld[d] <=> d = c
      BY <3>1, <1>a DEF A!InUse
    <3>3. ~A!InUse(i)'
      BY <3>2, <2>1, <1>0 DEF A!InUse, GiveBack
    <3>4. Once(freeIPs', i)
      BY <3>2, <2>2
    <3> QED BY <3>3, <3>4 DEF A!InOnePlace, A!QueuedAt, Once, At
  <2>4. IPsKept'
    BY <2>1, <2>2, <2>3, IPCall DEF IPsKept
  <2>5. CASE i \in ipsHeld[c] /\ i \notin ipsMisused
    <3>1. h' = [h EXCEPT ![c] = @ \ {i}] /\ i \in h[c]
      BY <2>1, <2>5, <1>0 DEF GiveBack
    <3> QED BY <2>4, <3>1 DEF A!Pool!Next, A!Pool!Release
  <2>6. CASE ~(i \in ipsHeld[c] /\ i \notin ipsMisused)
    <3>1. ipsMisused' = ipsMisused \cup {i}
      BY <2>1, <2>6
    <3> QED BY <2>1, <2>4, <3>1, <1>2
  <2> QED BY <2>5, <2>6
<1>4. ASSUME NEW c \in Clients, NEW i \in A!IPs, A!ClaimIP(c, i)
      PROVE  IPsKept' /\ [A!Pool!Next]_h
  <2>1. /\ freeIPs' = RemoveFirst(freeIPs, i) /\ ipsHeld' = Take(ipsHeld, c, i)
        /\ ipsMisused' = IF A!InUse(i) THEN ipsMisused \cup {i} ELSE ipsMisused
    BY <1>4, SameRemoveFirst DEF A!ClaimIP, Take
  <2>2. /\ IPsLeft(i)
        /\ At(freeIPs, i) = {} \/ Once(freeIPs, i) => At(freeIPs', i) = {}
    BY <2>1, <1>0, RemoveFirstLeaves DEF IPsLeft
  <2>3. i \in ipsHeld'[c] /\ \A d \in Clients : i \in ipsHeld'[d] <=> i \in ipsHeld[d] \/ d = c
    BY <2>1, <1>0 DEF Take
  <2>4. i \notin ipsMisused' => i \notin ipsMisused /\ ~A!InUse(i)
    BY <2>1
  <2>5. i \notin ipsMisused' => A!InOnePlace(i)'
    BY <2>2, <2>3, <2>4, <1>a DEF A!InOnePlace, A!QueuedAt, A!InUse, At
  <2>6. IPsKept'
    BY <2>1, <2>2, <2>3, <2>5, IPCall DEF IPsKept
  <2>7. CASE i \notin ipsMisused'
    <3>1. h' = [h EXCEPT ![c] = @ \cup {i}]
      BY <2>1, <2>4, <2>7, <1>0 DEF Take
    <3>2. A!Pool!Grant(c, i)
      BY <3>1, <2>4, <2>7 DEF A!Pool!Grant, A!Pool!Unheld, A!InUse
    <3> QED BY <2>6, <3>2 DEF A!Pool!Next
  <2>8. CASE i \in ipsMisused'
    <3>1. ipsMisused' = ipsMisused \cup {i}
      BY <2>1, <2>8
    <3> QED BY <2>1, <2>6, <3>1, <1>2
  <2> QED BY <2>7, <2>8
<1>5. ASSUME NEW c \in Clients, A!AllocateIP(c)
      PROVE  IPsKept' /\ [A!Pool!Next]_h
  BY <1>1, <1>5
<1> QED BY <1>3, <1>4, <1>5 DEF A!Next

-----------------------------------------------------------------------------
LEMMA SameTapOperators ==
  /\ \A s, x : F!RemoveFirst(s, x) = RemoveFirst(s, x)
  /\ \A s, x : F!Contains(s, x) <=> Contains(s, x)
BY DEF F!RemoveFirst, F!RemoveAt, F!SelectInSeq, F!Min, RemoveFirst, RemoveAt,
       SelectInSeq, Min, F!Contains, Contains

(* A caller takes the number i: out of the queue, and nobody's.            *)
Taken(c, i) ==
  /\ pc[c] = "idle" /\ pc' = [pc EXCEPT ![c] = "add"]
  /\ id' = [id EXCEPT ![c] = i] /\ i \in Range(freeTaps) /\ i \in F!TapIDs
  /\ freeTaps' \in Seq(F!TapIDs) /\ IsInjective(freeTaps')
  /\ Range(freeTaps') = Range(freeTaps) \ {i}
  /\ UNCHANGED <<devs, bridged, up>>

(* It works on the device of its number only, and goes on if it succeeds.  *)
Worked(c) ==
  /\ pc' = [pc EXCEPT ![c] = pc'[c]] /\ pc'[c] \in F!PCs
  /\ Working(c) /\ pc'[c] # "idle"
  /\ UNCHANGED <<freeTaps, id>>
  /\ devs' \subseteq F!TapIDs /\ bridged' \subseteq F!TapIDs /\ up' \subseteq F!TapIDs
  /\ \A i \in F!TapIDs \ {id[c]} : /\ i \in devs' <=> i \in devs
                                   /\ i \in bridged' <=> i \in bridged
                                   /\ i \in up' <=> i \in up
  /\ pc'[c] \in {"master", "up", "owned"} => id[c] \in devs'
  /\ pc'[c] \in {"up", "owned"} => id[c] \in bridged'
  /\ pc'[c] = "owned" => id[c] \in up'

(* It gives its number back. *)
Freed(c) ==
  /\ pc[c] = "free" /\ pc' = [pc EXCEPT ![c] = "idle"] /\ id' = id
  /\ freeTaps' \in Seq(F!TapIDs) /\ IsInjective(freeTaps')
  /\ Range(freeTaps') = Range(freeTaps) \cup {id[c]}
  /\ UNCHANGED <<devs, bridged, up>>

(* Every step of the fountain is one of these. *)
LEMMA TapSteps ==
  ASSUME TapsKept, F!Next
  PROVE  \E c \in Clients : (\E i : Taken(c, i)) \/ Worked(c) \/ Freed(c)
<1>0. /\ freeTaps \in Seq(F!TapIDs) /\ IsInjective(freeTaps)
      /\ \A c \in Clients : id[c] \in F!TapIDs
  BY DEF TapsKept, F!TypeOK
<1>1. ASSUME NEW c \in Clients, F!allocateTapID(c) PROVE \E i : Taken(c, i)
  <2>1. freeTaps # <<>> /\ freeTaps' = Tail(freeTaps)
    BY <1>1 DEF F!allocateTapID
  <2>2. /\ Head(freeTaps) \in F!TapIDs /\ Head(freeTaps) \in Range(freeTaps)
        /\ freeTaps' \in Seq(F!TapIDs) /\ IsInjective(freeTaps')
        /\ Range(freeTaps') = Range(freeTaps) \ {Head(freeTaps)}
    BY <1>0, <2>1, TailOfQueue
  <2>3. Taken(c, Head(freeTaps))
    BY <1>1, <2>2 DEF F!allocateTapID, F!Goto, F!host, Taken
  <2> QED BY <2>3
<1>2. ASSUME NEW c \in Clients, NEW i, F!claimID(c, i) PROVE Taken(c, i)
  <2>1. i \in Range(freeTaps) /\ freeTaps' = RemoveFirst(freeTaps, i)
    BY <1>0, <1>2, SameTapOperators, ContainsInRange DEF F!claimID
  <2>2. /\ freeTaps' \in Seq(F!TapIDs) /\ IsInjective(freeTaps')
        /\ Range(freeTaps') = Range(freeTaps) \ {i}
    BY <1>0, <2>1, RemoveValueFromQueue
  <2> QED BY <1>2, <2>1, <2>2 DEF F!claimID, F!Goto, F!host, Taken
<1>3. ASSUME NEW c \in Clients,
             \/ F!AddDevice(c) \/ F!SetMaster(c) \/ F!SetUp(c) \/ F!CreateFails(c)
             \/ F!SetNoMaster(c) \/ F!SetDown(c) \/ F!DelDevice(c)
             \/ F!DestroyFails(c)
      PROVE  Worked(c)
  BY <1>0, <1>3
     DEF TapsKept, F!TypeOK, F!PCs, Worked, Working, F!Goto, F!host, F!AddDevice,
         F!SetMaster, F!SetUp, F!CreateFails, F!SetNoMaster, F!SetDown,
         F!DelDevice, F!DestroyFails
<1>4. ASSUME NEW c \in Clients, F!freeTapID(c) PROVE Freed(c)
  <2>1. pc[c] = "free" /\ id[c] \notin Range(freeTaps)
    BY <1>4 DEF F!freeTapID, F!Goto, TapsKept, Working
  <2>2. freeTaps' = Append(freeTaps, id[c])
    BY <1>0, <1>4, <2>1, SameTapOperators, ContainsInRange DEF F!freeTapID
  <2>3. /\ freeTaps' \in Seq(F!TapIDs) /\ IsInjective(freeTaps')
        /\ Range(freeTaps') = Range(freeTaps) \cup {id[c]}
    BY <1>0, <2>1, <2>2, AppendToQueue
  <2> QED BY <1>4, <2>3 DEF F!freeTapID, F!Goto, F!host, Freed
<1> QED BY <1>1, <1>2, <1>3, <1>4 DEF F!Next

LEMMA TapStep ==
  ASSUME TapsKept, F!Next
  PROVE  TapsKept'
<1> USE DEF TapsKept, F!TypeOK, F!PCs, Working
<1>1. ASSUME NEW c \in Clients, NEW i, Taken(c, i) PROVE TapsKept'
  BY <1>1 DEF Taken
<1>2. ASSUME NEW c \in Clients, Worked(c) PROVE TapsKept'
  BY <1>2 DEF Worked
<1>3. ASSUME NEW c \in Clients, Freed(c) PROVE TapsKept'
  BY <1>3 DEF Freed
<1> QED BY <1>1, <1>2, <1>3, TapSteps

(* To the pool's eyes only the first and the last are steps.               *)
LEMMA TapPoolStep ==
  ASSUME TapsKept, F!Next
  PROVE  [F!Pool!Next]_[c \in Clients |-> F!Holds(c)]
<1> DEFINE h == [c \in Clients |-> F!Holds(c)]
<1> USE DEF TapsKept, F!TypeOK, Working, F!Pool!Next, F!Pool!Grant,
            F!Pool!Release, F!Pool!Unheld, F!Holds
<1>1. ASSUME NEW c \in Clients, NEW i, Taken(c, i) PROVE F!Pool!Next
  <2>1. \A d \in Clients : i \notin h[d]
    BY <1>1 DEF Taken
  <2>2. h' = [h EXCEPT ![c] = @ \cup {i}]
    BY <1>1 DEF Taken
  <2> QED BY <1>1, <2>1, <2>2 DEF Taken
<1>2. ASSUME NEW c \in Clients, Worked(c) PROVE h' = h
  BY <1>2 DEF Worked
<1>3. ASSUME NEW c \in Clients, Freed(c) PROVE F!Pool!Next
  <2>1. id[c] \in h[c] /\ h' = [h EXCEPT ![c] = @ \ {id[c]}]
    BY <1>3 DEF Freed
  <2> QED BY <1>3, <2>1 DEF Freed
<1> QED BY <1>1, <1>2, <1>3, TapSteps

(* A stray device is nobody's, or was left by a failed creation.           *)
LEMMA StrayStep ==
  ASSUME TapsKept, F!Next
  PROVE  F!Strays \subseteq F!Strays'
<1> USE DEF TapsKept, F!TypeOK, F!PCs, Working, F!Strays, F!Holds, F!host
<1>1. ASSUME NEW c \in Clients, F!allocateTapID(c) PROVE F!Strays \subseteq F!Strays'
  BY <1>1 DEF F!allocateTapID, F!Goto
<1>2. ASSUME NEW c \in Clients, NEW i, F!claimID(c, i)
      PROVE  F!Strays \subseteq F!Strays'
  BY <1>2 DEF F!claimID, F!Goto
<1>3. ASSUME NEW c \in Clients, F!AddDevice(c) PROVE F!Strays \subseteq F!Strays'
  BY <1>3 DEF F!AddDevice, F!Goto
<1>4. ASSUME NEW c \in Clients,
             F!SetMaster(c) \/ F!SetUp(c) \/ F!SetNoMaster(c) \/ F!SetDown(c)
      PROVE  F!Strays \subseteq F!Strays'
  BY <1>4 DEF F!SetMaster, F!SetUp, F!SetNoMaster, F!SetDown, F!Goto
<1>5. ASSUME NEW c \in Clients, F!CreateFails(c) \/ F!DestroyFails(c)
      PROVE  F!Strays \subseteq F!Strays'
  BY <1>5 DEF F!CreateFails, F!DestroyFails, F!Goto
<1>6. ASSUME NEW c \in Clients, F!DelDevice(c) PROVE F!Strays \subseteq F!Strays'
  BY <1>6 DEF F!DelDevice, F!Goto
<1>7. ASSUME NEW c \in Clients, F!freeTapID(c) PROVE F!Strays \subseteq F!Strays'
  BY <1>7 DEF F!freeTapID, F!Goto
<1> QED BY <1>1, <1>2, <1>3, <1>4, <1>5, <1>6, <1>7 DEF F!Next

-----------------------------------------------------------------------------
AllKept == CIDsKept /\ PortsKept /\ IPsKept /\ TapsKept

LEMMA ServerInitKept == ServerInit => AllKept
<1> SUFFICES ASSUME ServerInit PROVE AllKept
  OBVIOUS
<1>0. /\ CIDsKept
      /\ lowPort \in Nat /\ highPort \in Nat /\ lowPort <= highPort
      /\ lastIP \in Nat /\ lastIP >= 2
      /\ LowID \in Nat /\ HighID \in Nat /\ LowID <= HighID
  BY InitCIDsKept, BoundsAssumption DEF ServerInit, P!RangeOK, A!SubnetOK, F!NumbersOK
<1>1. PortsKept
  <2>1. /\ highPort - lowPort + 1 \in Nat
        /\ lowPort + (highPort - lowPort + 1) - 1 = highPort
    BY <1>0
  <2>2. freePorts = [k \in 1..(highPort - lowPort + 1) |-> lowPort + k - 1]
    BY DEF ServerInit, P!Init
  <2>3. /\ freePorts \in Seq(P!PortRange) /\ IsInjective(freePorts)
        /\ Range(freePorts) = P!PortRange
    BY <1>0, <2>1, <2>2, NewQueue DEF P!PortRange
  <2> QED BY <2>3 DEF PortsKept, Kept, ServerInit, P!Init
<1>2. IPsKept
  <2>1. lastIP - 1 \in Nat /\ 2 + (lastIP - 1) - 1 = lastIP
    BY <1>0
  <2>2. freeIPs = [k \in 1..(lastIP - 1) |-> 2 + k - 1]
    BY <1>0 DEF ServerInit, A!Init
  <2>3. /\ freeIPs \in Seq(A!IPs) /\ IsInjective(freeIPs)
        /\ Range(freeIPs) = A!IPs
    BY <2>1, <2>2, NewQueue DEF A!IPs
  <2>4. \A ip \in A!IPs : \E k \in DOMAIN freeIPs : At(freeIPs, ip) = {k}
    BY <2>3 DEF IsInjective, Range, At
  <2>5. /\ ipsHeld = [c \in Clients |-> {}] /\ ipsMisused = {}
        /\ \A ip : ~A!InUse(ip)
    BY DEF ServerInit, A!Init, A!InUse
  <2> QED BY <2>3, <2>4, <2>5
          DEF IPsKept, A!TypeOK, A!IPsConserved, A!InOnePlace, A!QueuedAt, At
<1>3. TapsKept
  <2>1. HighID - LowID + 1 \in Nat /\ LowID + (HighID - LowID + 1) - 1 = HighID
    BY <1>0
  <2>2. freeTaps = [k \in 1..(HighID - LowID + 1) |-> LowID + k - 1]
    BY DEF ServerInit, F!Init
  <2>3. freeTaps \in Seq(F!TapIDs) /\ IsInjective(freeTaps)
    BY <1>0, <2>1, <2>2, NewQueue DEF F!TapIDs
  <2>4. LowID \in F!TapIDs
    BY <1>0 DEF F!TapIDs
  <2> QED BY <2>3, <2>4
          DEF TapsKept, Working, ServerInit, F!Init, F!TypeOK, F!PCs
<1> QED BY <1>0, <1>1, <1>2, <1>3 DEF AllKept

(* A step belongs to one of the four. *)
LEMMA ServerStepKept == AllKept /\ [ServerNext]_serverVars => AllKept'
<1> SUFFICES ASSUME AllKept, [ServerNext]_serverVars PROVE AllKept'
  OBVIOUS
<1>1. UNCHANGED vars => CIDsKept'
  BY DEF AllKept, CIDsKept, vars
<1>2. UNCHANGED portVars => PortsKept'
  BY DEF AllKept, PortsKept, portVars
<1>3. UNCHANGED ipVars => IPsKept'
  BY DEF AllKept, IPsKept, ipVars, A!TypeOK, A!IPsConserved, A!InOnePlace,
         A!QueuedAt, A!InUse
<1>4. UNCHANGED tapVars => TapsKept'
  BY DEF AllKept, TapsKept, tapVars, F!TypeOK, Working
<1>5. CASE Next /\ UNCHANGED <<portVars, ipVars, tapVars>>
  BY <1>2, <1>3, <1>4, <1>5, CIDStep DEF AllKept
<1>6. CASE P!Next /\ UNCHANGED <<vars, ipVars, tapVars>>
  BY <1>1, <1>3, <1>4, <1>6, PortStep DEF AllKept
<1>7. CASE A!Next /\ UNCHANGED <<vars, portVars, tapVars>>
  BY <1>1, <1>2, <1>4, <1>7, IPStep DEF AllKept
<1>8. CASE F!Next /\ UNCHANGED allocatorVars
  BY <1>1, <1>2, <1>3, <1>8, TapStep DEF AllKept, allocatorVars
<1>9. CASE UNCHANGED serverVars
  BY <1>1, <1>2, <1>3, <1>4, <1>9 DEF AllKept, serverVars, allocatorVars
<1> QED BY <1>5, <1>6, <1>7, <1>8, <1>9 DEF ServerNext

LEMMA AllKeptAlways == ServerSpec => []AllKept
BY ServerInitKept, ServerStepKept, PTL DEF ServerSpec

(* Queues and holdings stay within the allocators' ranges. *)
THEOREM AllocatorsTypeCorrect == ServerSpec => []AllocatorsTypeOK
<1>1. AllKept => AllocatorsTypeOK
  BY DEF AllKept, CIDsKept, PortsKept, IPsKept, TapsKept, Kept, AllocatorsTypeOK,
         TypeOK, P!TypeOK, A!TypeOK
<1> QED BY <1>1, AllKeptAlways, PTL

(* In any order of allocations, claims, frees and repeated frees, no CID,  *)
(* port or tap number has two users, no CID, port or address is lost, and  *)
(* an address has two users only after a call that claimed it while it was *)
(* in use, or freed it without holding it: a call for one address leaves   *)
(* all the others in exactly one place.                                    *)
THEOREM IdentifiersAlwaysConserved == ServerSpec => []IdentifiersConserved
<1>1. PortsKept => P!PortsConserved
  BY DEF PortsKept, Kept, P!PortsConserved, P!IsInjective, IsInjective, P!Range,
         Range
<1>2. IPsKept => A!IPsConserved
  BY DEF IPsKept
<1>3. TapsKept => F!TapIDsKeptApart
  BY DEF TapsKept, F!TapIDsKeptApart, F!Holds, Working, F!IsInjective,
         IsInjective, F!Range, Range
<1>4. AllKept => IdentifiersConserved
  BY <1>1, <1>2, <1>3
     DEF AllKept, CIDsKept, Kept, NoLostCID, Range, IdentifiersConserved
<1> QED BY <1>4, AllKeptAlways, PTL

(* The tap device of a caller is there, up and on the bridge, whatever the *)
(* commands of the others do.                                              *)
THEOREM OwnedDevicesWork == ServerSpec => []OwnedDeviceWorks
<1>1. AllKept => OwnedDeviceWorks
  BY DEF AllKept, TapsKept, OwnedDeviceWorks, F!OwnedDeviceWorks
<1> QED BY <1>1, AllKeptAlways, PTL

(* No creation takes over a device that it did not make. *)
THEOREM StraysAlwaysStay == ServerSpec => StraysStay
<1>1. AllKept /\ [ServerNext]_serverVars => [F!Strays \subseteq F!Strays']_F!vars
  <2> SUFFICES ASSUME AllKept, [ServerNext]_serverVars, ~UNCHANGED F!vars
               PROVE  F!Strays \subseteq F!Strays'
    OBVIOUS
  <2>1. F!Next
    BY DEF ServerNext, serverVars, tapVars, F!vars
  <2> QED BY <2>1, StrayStep DEF AllKept
<1> QED BY <1>1, AllKeptAlways, PTL DEF ServerSpec, StraysStay, F!StraysStay

(* Ports, addresses and tap numbers implement the pool their callers take  *)
(* them for: what is handed out is held by nobody.  An address counts      *)
(* until a call misuses it.                                                *)
THEOREM OthersImplementPools == ServerSpec => OtherPools
<1>1. ServerInit => P!Pool!Init /\ A!Pool!Init /\ F!Pool!Init
  BY DEF ServerInit, P!Init, A!Init, F!Init, P!Pool!Init, A!Pool!Init,
         F!Pool!Init, F!Holds
<1>2. AllKept /\ [ServerNext]_serverVars =>
        /\ [P!Pool!Next]_portsHeld /\ [A!Pool!Next]_[c \in Clients |-> ipsHeld[c] \ ipsMisused]
        /\ [F!Pool!Next]_[c \in Clients |-> F!Holds(c)]
  <2> SUFFICES ASSUME AllKept, [ServerNext]_serverVars
               PROVE  /\ [P!Pool!Next]_portsHeld /\ [A!Pool!Next]_[c \in Clients |-> ipsHeld[c] \ ipsMisused]
                      /\ [F!Pool!Next]_[c \in Clients |-> F!Holds(c)]
    OBVIOUS
  <2>1. P!Next \/ UNCHANGED portsHeld
    BY DEF ServerNext, serverVars, allocatorVars, portVars
  <2>2. A!Next \/ UNCHANGED <<ipsHeld, ipsMisused>>
    BY DEF ServerNext, serverVars, allocatorVars, ipVars
  <2>3. F!Next \/ UNCHANGED <<pc, id>>
    BY DEF ServerNext, serverVars, tapVars
  <2>4. UNCHANGED <<pc, id>> => UNCHANGED [c \in Clients |-> F!Holds(c)]
    BY DEF F!Holds
  <2> QED BY <2>1, <2>2, <2>3, <2>4, PortStep, IPStep, TapPoolStep DEF AllKept
<1> QED
  BY <1>1, <1>2, AllKeptAlways, PTL
     DEF ServerSpec, OtherPools, P!PoolSpec, A!PoolSpec, F!PoolSpec, P!Pool!Spec,
         A!Pool!Spec, F!Pool!Spec
=============================================================================
