--------------------------- MODULE RegistryProofs ---------------------------
(***************************************************************************)
(* For any VMs, any namespaces, with dots or without, and any number of    *)
(* handlers: whose VMs a goroutine that works for a namespace comes to.    *)
(* That two namespaces do not meet, unless one extends the other past a    *)
(* dot, rests on lemma SameKeys; HasPrefix does not keep them apart.       *)
(***************************************************************************)
EXTENDS Registry, SequenceTheorems, TLAPS

Plain(n) == n \in Seq(Letters) /\ ~Contains(n, ".")

AllNamespaces == Namespaces \cup {<<"*">>} \cup {v.ns : v \in VMs}

(* TypeOK, and what connects the place of a goroutine with its work: only  *)
(* one in a loop is caught, with a VM of a namespace that meets the loop's,*)
(* and main does nothing before its handlers are done.                     *)
Meets(m, n) == Extends(m, n) \/ Extends(n, m)

Inv ==
  /\ TypeOK
  /\ ns \in [Threads -> AllNamespaces \cup {None}]
  /\ todo \in [Threads -> SUBSET Seq(Letters)]
  /\ \A t \in Threads : pc[t] \in Loops => ns[t] \in AllNamespaces
  /\ \A t \in Threads : stuck[t] # None => pc[t] \in Loops /\ Meets(stuck[t].ns, ns[t])
  /\ daemon \in {"up", "draining"} => pc[Main] = "idle"

(* A key is a string: the namespace, the dot, the name.                    *)
LEMMA KeyParts ==
  ASSUME NEW n \in Seq(Letters), NEW a \in Seq(Letters)
  PROVE  /\ Key(n, a) \in Seq(Letters)
         /\ \A i \in 1..Len(n) : Key(n, a)[i] = n[i]
         /\ Key(n, a)[Len(n) + 1] = "."
         /\ Len(Key(n, a)) = Len(n) + 1 + Len(a)
         /\ \A i \in 1..Len(a) : Key(n, a)[Len(n) + 1 + i] = a[i]
<1> DEFINE d == <<".">>
           nd == n \o d
<1>1. d \in Seq(Letters) /\ Len(d) = 1 /\ d[1] = "."
  BY NamesAssumption
<1>2. Len(n) \in Nat /\ Len(a) \in Nat
  OBVIOUS
<1> HIDE DEF d
<1>3. /\ nd \in Seq(Letters) /\ Len(nd) = Len(n) + 1
      /\ \A i \in 1..(Len(n) + 1) : nd[i] = IF i <= Len(n) THEN n[i] ELSE d[i - Len(n)]
  <2>1. /\ nd \in Seq(Letters) /\ Len(nd) = Len(n) + Len(d)
        /\ \A i \in 1..(Len(n) + Len(d)) :
             nd[i] = IF i <= Len(n) THEN n[i] ELSE d[i - Len(n)]
    BY <1>1, ConcatProperties
  <2> QED BY <2>1, <1>1
<1>4. nd[Len(n) + 1] = "." /\ \A i \in 1..Len(n) : nd[i] = n[i]
  <2>1. ASSUME NEW i \in 1..Len(n) PROVE nd[i] = n[i]
    <3>1. i \in 1..(Len(n) + 1) /\ i <= Len(n)
      BY <1>2
    <3> QED BY <3>1, <1>3
  <2>2. nd[Len(n) + 1] = d[1]
    <3> DEFINE i == Len(n) + 1
    <3>1. i \in 1..(Len(n) + 1) /\ ~(i <= Len(n)) /\ i - Len(n) = 1
      BY <1>2
    <3> HIDE DEF i
    <3>2. nd[i] = d[i - Len(n)]
      BY <3>1, <1>3
    <3> QED BY <3>1, <3>2 DEF i
  <2> QED BY <2>1, <2>2, <1>1
<1> HIDE DEF nd
<1>5. /\ nd \o a \in Seq(Letters)
      /\ \A i \in 1..(Len(nd) + Len(a)) :
           (nd \o a)[i] = IF i <= Len(nd) THEN nd[i] ELSE a[i - Len(nd)]
  BY <1>3, ConcatProperties
<1>11. Len(nd \o a) = Len(nd) + Len(a)
  <2>1. \A x, y \in Seq(Letters) : Len(x \o y) = Len(x) + Len(y)
    BY ConcatProperties
  <2> QED BY <1>3, <2>1
<1>6. \A i \in 1..(Len(n) + 1) : (nd \o a)[i] = nd[i]
  BY <1>2, <1>3, <1>5
<1>7. Key(n, a) = nd \o a
  BY DEF Key, nd, d
<1>8. ASSUME NEW i \in 1..Len(n) PROVE (nd \o a)[i] = n[i]
  <2>1. i \in 1..(Len(n) + 1)
    BY <1>2
  <2> QED BY <2>1, <1>4, <1>6
<1>9. (nd \o a)[Len(n) + 1] = "."
  <2>1. Len(n) + 1 \in 1..(Len(n) + 1)
    BY <1>2
  <2> QED BY <2>1, <1>4, <1>6
<1>10. ASSUME NEW i \in 1..Len(a) PROVE (nd \o a)[Len(n) + 1 + i] = a[i]
  <2> DEFINE j == Len(n) + 1 + i
  <2>1. /\ j \in 1..(Len(nd) + Len(a)) /\ ~(j <= Len(nd))
        /\ j - Len(nd) = i
    BY <1>2, <1>3
  <2> HIDE DEF j
  <2>2. (nd \o a)[j] = a[j - Len(nd)]
    BY <2>1, <1>5
  <2> QED BY <2>1, <2>2 DEF j
<1> QED BY <1>2, <1>3, <1>5, <1>7, <1>8, <1>9, <1>10, <1>11

LEMMA KeyIsString ==
  \A n, a \in Seq(Letters) :
    /\ Key(n, a) \in Seq(Letters)
    /\ \A i \in 1..Len(n) : Key(n, a)[i] = n[i]
    /\ Key(n, a)[Len(n) + 1] = "."
BY KeyParts

(* If a key can be made from two namespaces, they are the same or one goes *)
(* on from the other with the dot of the key.                              *)
LEMMA Shorter ==
  ASSUME NEW m \in Seq(Letters), NEW n \in Seq(Letters),
         NEW a \in Seq(Letters), NEW b \in Seq(Letters),
         Key(m, a) = Key(n, b), Len(m) < Len(n)
  PROVE  Extends(n, m)
<1> DEFINE x == Key(m, a)
           md == m \o <<".">>
           k == Len(m) + 1
<1>1. /\ Len(m) \in Nat /\ \A i \in 1..Len(m) : x[i] = m[i]
      /\ x[k] = "."
  BY KeyIsString
<1>2. Len(n) \in Nat /\ \A i \in 1..Len(n) : x[i] = n[i]
  BY KeyIsString
<1>3. k \in 1..Len(n) /\ n[k] = "." /\ \A i \in 1..Len(m) : n[i] = m[i]
  BY <1>1, <1>2
<1>4. md \in Seq(Letters) /\ Len(md) = k /\ \A i \in 1..k : md[i] = n[i]
  <2> DEFINE d == <<".">>
  <2>1. d \in Seq(Letters) /\ Len(d) = 1 /\ d[1] = "."
    BY NamesAssumption
  <2> HIDE DEF d
  <2>2. /\ m \o d \in Seq(Letters) /\ Len(m \o d) = Len(m) + Len(d)
        /\ \A i \in 1..(Len(m) + Len(d)) :
             (m \o d)[i] = IF i <= Len(m) THEN m[i] ELSE d[i - Len(m)]
    BY <2>1, ConcatProperties
  <2>3. ASSUME NEW i \in 1..k PROVE (m \o d)[i] = n[i]
    <3>1. CASE i <= Len(m)
      BY <1>1, <1>3, <2>1, <2>2, <3>1
    <3>2. CASE ~(i <= Len(m))
      <4>1. i = k /\ i - Len(m) = 1
        BY <1>1, <3>2
      <4> QED BY <1>1, <1>3, <2>1, <2>2, <3>2, <4>1
    <3> QED BY <3>1, <3>2
  <2> QED BY <2>1, <2>2, <2>3 DEF d
<1> HIDE DEF md, x
<1>5. /\ SubSeq(md, 1, k) \in Seq(Letters) /\ Len(SubSeq(md, 1, k)) = k
      /\ \A i \in 1..k : SubSeq(md, 1, k)[i] = md[i]
  BY <1>1, <1>4
<1>6. /\ SubSeq(n, 1, k) \in Seq(Letters) /\ Len(SubSeq(n, 1, k)) = k
      /\ \A i \in 1..k : SubSeq(n, 1, k)[i] = n[i]
  BY <1>1, <1>2, <1>3
<1>7. SubSeq(md, 1, k) = SubSeq(n, 1, k)
  BY <1>4, <1>5, <1>6, SeqEqual
<1>8. IsPrefix(md, n)
  BY <1>2, <1>3, <1>4, <1>7 DEF IsPrefix
<1> QED BY <1>8 DEF Extends, md

LEMMA SameKeys ==
  ASSUME NEW m \in Seq(Letters), NEW n \in Seq(Letters),
         NEW a \in Seq(Letters), NEW b \in Seq(Letters), Key(m, a) = Key(n, b)
  PROVE  Meets(m, n)
<1>1. Len(m) \in Nat /\ Len(n) \in Nat
  OBVIOUS
<1>2. CASE Len(m) < Len(n)
  BY <1>2, Shorter DEF Meets
<1>3. CASE Len(n) < Len(m)
  BY <1>3, Shorter DEF Meets
<1>4. CASE Len(m) = Len(n)
  <2> DEFINE x == Key(m, a)
  <2>1. /\ \A i \in 1..Len(m) : x[i] = m[i]
        /\ \A i \in 1..Len(n) : x[i] = n[i]
    BY KeyIsString
  <2> HIDE DEF x
  <2>2. m = n
    BY <1>4, <2>1, SeqEqual
  <2> QED BY <2>2 DEF Meets, Extends
<1> QED BY <1>1, <1>2, <1>3, <1>4

(* A namespace without a dot extends no other one.                         *)
LEMMA PlainApart ==
  ASSUME NEW m, NEW n, Plain(m), Plain(n), Extends(n, m)
  PROVE  m = n
<1>1. /\ m \in Seq(Letters) /\ n \in Seq(Letters)
      /\ Len(m) \in Nat /\ Len(n) \in Nat /\ \A i \in 1..Len(n) : n[i] # "."
  BY DEF Plain, Contains
<1>2. CASE IsPrefix(m \o <<".">>, n)
  <2> DEFINE d == <<".">>
             md == m \o d
             k == Len(m) + 1
  <2>1. d \in Seq(Letters) /\ Len(d) = 1 /\ d[1] = "."
    BY NamesAssumption
  <2> HIDE DEF d
  <2>2. /\ md \in Seq(Letters) /\ Len(md) = Len(m) + Len(d)
        /\ \A i \in 1..(Len(m) + Len(d)) :
             md[i] = IF i <= Len(m) THEN m[i] ELSE d[i - Len(m)]
    BY <1>1, <2>1, ConcatProperties
  <2>3. k \in 1..(Len(m) + Len(d)) /\ ~(k <= Len(m)) /\ k - Len(m) = 1
    BY <1>1, <2>1
  <2> HIDE DEF md
  <2>4. md[k] = "." /\ Len(md) = k
    BY <2>1, <2>2, <2>3
  <2>5. Len(md) <= Len(n) /\ SubSeq(md, 1, Len(md)) = SubSeq(n, 1, Len(md))
    BY <1>2 DEF IsPrefix, md, d
  <2>6. SubSeq(md, 1, k)[k] = md[k] /\ SubSeq(n, 1, k)[k] = n[k]
    BY <1>1, <2>2, <2>4, <2>5
  <2>7. k \in 1..Len(n) /\ n[k] = "."
    BY <1>1, <2>4, <2>5, <2>6
  <2> QED BY <1>1, <2>7
<1> QED BY <1>2 DEF Extends

LEMMA NamespacesAreStrings == \A n \in AllNamespaces : n \in Seq(Letters)
<1>1. <<"*">> \in Seq(Letters)
  BY NamesAssumption
<1> QED BY <1>1, NamesAssumption DEF AllNamespaces

(* What is left of a key when a namespace is taken off is a string.        *)
LEMMA TrimmedKey ==
  ASSUME NEW v \in VMs, NEW n \in AllNamespaces
  PROVE  TrimPrefix(KeyOf(v), n) \in Seq(Letters)
<1>1. v.ns \in Seq(Letters) /\ v.name \in Seq(Letters)
  BY NamesAssumption
<1>2. KeyOf(v) \in Seq(Letters)
  BY <1>1, KeyIsString DEF KeyOf
<1>3. n \in Seq(Letters)
  BY NamespacesAreStrings
<1>4. SubSeq(KeyOf(v), Len(n) + 1, Len(KeyOf(v))) \in Seq(Letters)
  <2> DEFINE k == KeyOf(v)
  <2>1. k \in Seq(Letters) /\ Len(k) \in Nat /\ Len(n) \in Nat
    BY <1>2, <1>3
  <2> HIDE DEF k
  <2>2. \A i \in (Len(n) + 1)..Len(k) : k[i] \in Letters
    BY <2>1
  <2> QED BY <2>1, <2>2, SubSeqProperties DEF k
<1> QED BY <1>2, <1>4 DEF TrimPrefix

LEMMA Walk ==
  ASSUME Inv, NEW n \in AllNamespaces
  PROVE  NamesIn(n) \subseteq Seq(Letters)
BY TrimmedKey DEF Inv, TypeOK, NamesIn, Matching

LEMMA InitInv == Init => Inv
BY ThreadsAssumption DEF Init, Inv, TypeOK, Threads, Loops, work

(* One goroutine begins to destroy, as Destroys says.                      *)
LEMMA BeginsToDestroy ==
  ASSUME Inv, NEW t \in Threads, NEW how \in Loops, NEW n \in AllNamespaces,
         NEW names \in SUBSET Seq(Letters), Destroys(t, how, n, names),
         pc[t] \notin Loops, vms' = vms, expired' = expired, stuck' = stuck,
         unseen' \subseteq vms,
         \/ daemon' = daemon /\ t # Main
         \/ daemon = "draining" /\ daemon' = "closing" /\ t = Main
  PROVE  Inv'
<1> USE DEF Inv, Destroys
<1>1. TypeOK'
  BY DEF TypeOK, AllNamespaces
<1>2. ns' \in [Threads -> AllNamespaces \cup {None}]
  OBVIOUS
<1>3. todo' \in [Threads -> SUBSET Seq(Letters)]
  OBVIOUS
<1>4. \A u \in Threads : pc'[u] \in Loops => ns'[u] \in AllNamespaces
  BY DEF TypeOK
<1>5. \A u \in Threads : stuck'[u] # None => pc'[u] \in Loops /\ Meets(stuck'[u].ns, ns'[u])
  BY DEF TypeOK
<1>6. daemon' \in {"up", "draining"} => pc'[Main] = "idle"
  BY DEF TypeOK
<1> QED BY <1>1, <1>2, <1>3, <1>4, <1>5, <1>6

LEMMA InvStep == Inv /\ [Next]_vars => Inv'
<1> SUFFICES ASSUME Inv, [Next]_vars PROVE Inv'
  OBVIOUS
<1>0. Main \in Threads /\ Manager \in Threads /\ Handlers \subseteq Threads
      /\ Main \notin Handlers /\ Manager \notin Handlers /\ Main # Manager
  BY ThreadsAssumption DEF Threads
<1>1. ASSUME NEW v \in VMs, Register(v) PROVE Inv'
  <2> DEFINE old == {w \in vms : KeyOf(w) = KeyOf(v)}
  <2>1. /\ vms' = (vms \ old) \cup {v} /\ expired' = expired \ old
        /\ unseen \subseteq vms /\ expired \subseteq vms /\ vms \subseteq VMs
    BY <1>1 DEF Register, Inv, TypeOK
  <2>2. /\ daemon' \in {daemon, "crashed"} /\ UNCHANGED <<pc, ns, todo, stuck>>
        /\ unseen' \subseteq vms'
    BY <1>1, <2>1 DEF Register, work
  <2> HIDE DEF old
  <2>3. TypeOK'
    BY <2>1, <2>2 DEF Inv, TypeOK
  <2> QED BY <2>2, <2>3 DEF Inv
<1>2. ASSUME NEW v \in VMs, Expire(v) PROVE Inv'
  BY <1>2 DEF Expire, Inv, TypeOK, work
<1>3. ASSUME NEW t \in Handlers, NEW n \in Namespaces, NEW v \in VMs,
             DestroyVM(t, n, v.name)
      PROVE  Inv'
  <2>1. n \in AllNamespaces /\ {v.name} \in SUBSET Seq(Letters)
    BY NamesAssumption DEF AllNamespaces
  <2>2. pc[t] \notin Loops /\ "destroyVM" \in Loops
    BY <1>3 DEF DestroyVM, Loops
  <2> QED
    BY <1>0, <1>3, <2>1, <2>2, BeginsToDestroy DEF DestroyVM, Inv, TypeOK
<1>4. ASSUME NEW t \in Handlers, NEW n \in Namespaces, DestroyAllVMs(t, n)
      PROVE  Inv'
  <2>1. n \in AllNamespaces /\ NamesIn(n) \in SUBSET Seq(Letters)
    BY Walk DEF AllNamespaces
  <2>2. pc[t] \notin Loops /\ "destroyAll" \in Loops
    BY <1>4 DEF DestroyAllVMs, Loops
  <2> QED
    BY <1>0, <1>4, <2>1, <2>2, BeginsToDestroy DEF DestroyAllVMs, Inv, TypeOK
<1>5. ASSUME NEW t \in Handlers, Answer(t) PROVE Inv'
  BY <1>0, <1>5 DEF Answer, Destroying, Inv, TypeOK, work, Loops
<1>6. ASSUME NEW t \in Threads, DestroyMisses(t) PROVE Inv'
  BY <1>6 DEF DestroyMisses, Inv, TypeOK
<1>7. ASSUME NEW t \in Threads, DestroyFinds(t) PROVE Inv'
  <2>1. PICK name \in todo[t], v \in vms :
          KeyOf(v) = Key(ns[t], name) /\ stuck' = [stuck EXCEPT ![t] = v]
    BY <1>7 DEF DestroyFinds
  <2>2. /\ pc[t] \in Loops /\ ns[t] \in AllNamespaces
        /\ name \in Seq(Letters) /\ v \in VMs
    BY <1>7, <2>1 DEF DestroyFinds, Destroying, Inv, TypeOK
  <2>3. Meets(v.ns, ns[t])
    <3>1. v.name \in Seq(Letters) /\ v.ns \in Seq(Letters) /\ ns[t] \in Seq(Letters)
      BY <2>2, NamesAssumption, NamespacesAreStrings
    <3> QED BY <3>1, <2>1, <2>2, SameKeys DEF KeyOf
  <2>4. UNCHANGED <<vms, expired, daemon, pc, ns, todo, unseen>>
    BY <1>7 DEF DestroyFinds
  <2>5. \A u \in Threads : stuck'[u] # None => pc[u] \in Loops /\ Meets(stuck'[u].ns, ns[u])
    BY <2>1, <2>2, <2>3 DEF Inv, TypeOK
  <2>6. TypeOK'
    BY <2>1, <2>2, <2>4 DEF Inv, TypeOK
  <2> QED BY <2>4, <2>5, <2>6 DEF Inv
<1>8. CASE Tick
  BY <1>0, <1>8 DEF Tick, Inv, TypeOK, work, Loops
<1>9. ASSUME NEW v \in VMs, Visit(v) PROVE Inv'
  <2>1. CASE v \in expired
    <3>1. v.ns \in AllNamespaces
          /\ {TrimPrefix(KeyOf(v), v.ns)} \in SUBSET Seq(Letters)
      BY TrimmedKey DEF AllNamespaces
    <3>2. pc[Manager] \notin Loops /\ "destroyVM" \in Loops
      BY <1>9 DEF Visit, Loops
    <3> QED
      BY <1>0, <1>9, <2>1, <3>1, <3>2, BeginsToDestroy DEF Visit, Inv, TypeOK
  <2>2. CASE v \notin expired
    BY <1>9, <2>2 DEF Visit, Inv, TypeOK
  <2> QED BY <2>1, <2>2
<1>10. CASE VisitEnds
  BY <1>0, <1>10 DEF VisitEnds, Destroying, Inv, TypeOK, work, Loops
<1>11. CASE TickEnds
  BY <1>0, <1>11 DEF TickEnds, Inv, TypeOK, work, Loops
<1>12. CASE Signal
  BY <1>12 DEF Signal, Inv, TypeOK, work
<1>13. CASE Drained
  <2>1. <<"*">> \in AllNamespaces /\ NamesIn(<<"*">>) \in SUBSET Seq(Letters)
    BY Walk DEF AllNamespaces
  <2>2. pc[Main] \notin Loops /\ "destroyAll" \in Loops
    BY <1>13 DEF Drained, Loops, Inv
  <2> QED
    BY <1>0, <1>13, <2>1, <2>2, BeginsToDestroy DEF Drained, Inv, TypeOK
<1>14. CASE Exit
  BY <1>14 DEF Exit, Inv, TypeOK, work
<1>15. CASE UNCHANGED vars
  BY <1>15 DEF vars, work, Inv, TypeOK
<1> QED
  BY <1>1, <1>2, <1>3, <1>4, <1>5, <1>6, <1>7, <1>8, <1>9, <1>10, <1>11, <1>12,
     <1>13, <1>14, <1>15 DEF Next, Destroy, Manage, Close

LEMMA Invariance == Spec => []Inv
BY InitInv, InvStep, PTL DEF Spec

(* Types are right, also those of the walks over the map.                  *)
THEOREM RegistryTypes == Spec => []TypeOK
<1>1. Inv => TypeOK
  BY DEF Inv
<1> QED BY <1>1, Invariance, PTL

(* Nobody reaches a VM of another namespace than it works for, unless one  *)
(* of the two namespaces goes on from the other with a dot, though walks   *)
(* match namespaces by prefix and nothing checks what a namespace is       *)
(* (server.go:147-149, 1467-1480).                                         *)
THEOREM NamespacesStayApart == Spec => []NamespacesApart
<1>1. Inv => NamespacesApart
  BY DEF Inv, NamespacesApart, Meets
<1> QED BY <1>1, Invariance, PTL

-----------------------------------------------------------------------------
(* What the walks destroy                                                  *)

PlainNames ==
  /\ \A n \in Namespaces : Plain(n)
  /\ \A v \in VMs : Plain(v.ns) /\ Plain(v.name)

LEMMA NamespacesArePlain ==
  ASSUME PlainNames
  PROVE  \A n \in AllNamespaces : Plain(n)
<1>1. Plain(<<"*">>)
  <2> DEFINE s == <<"*">>
  <2>1. s \in Seq(Letters) /\ Len(s) = 1 /\ s[1] = "*"
    BY NamesAssumption
  <2> HIDE DEF s
  <2>2. Plain(s)
    BY <2>1 DEF Plain, Contains
  <2> QED BY <2>2 DEF s
<1> QED BY <1>1 DEF PlainNames, AllNamespaces

(* Keys of one namespace are as different as their names.                  *)
LEMMA SameName ==
  ASSUME NEW n \in Seq(Letters), NEW a \in Seq(Letters), NEW b \in Seq(Letters),
         Key(n, a) = Key(n, b)
  PROVE  a = b
<1>1. Len(n) \in Nat /\ Len(a) \in Nat /\ Len(b) \in Nat
  OBVIOUS
<1>2. Len(n) + 1 + Len(a) = Len(n) + 1 + Len(b)
  <2>1. Len(Key(n, a)) = Len(n) + 1 + Len(a)
    BY KeyParts
  <2>2. Len(Key(n, b)) = Len(n) + 1 + Len(b)
    BY KeyParts
  <2> QED BY <2>1, <2>2
<1>3. \A i \in 1..Len(a) : Key(n, a)[Len(n) + 1 + i] = a[i]
  BY KeyParts
<1>4. \A i \in 1..Len(b) : Key(n, b)[Len(n) + 1 + i] = b[i]
  BY KeyParts
<1>5. Len(a) = Len(b)
  BY <1>1, <1>2
<1>6. \A i \in 1..Len(a) : a[i] = b[i]
  BY <1>3, <1>4, <1>5
<1> QED BY <1>5, <1>6, SeqEqual

(* Taking a namespace off a key leaves the dot: it is in what a walk takes *)
(* for the VM's name.                                                      *)
LEMMA DotStays ==
  ASSUME PlainNames, NEW v \in VMs, NEW n \in AllNamespaces
  PROVE  ~Plain(TrimPrefix(KeyOf(v), n))
<1> DEFINE key == KeyOf(v)
           dot == Len(v.ns) + 1
<1>1. /\ key \in Seq(Letters) /\ Len(key) \in Nat
      /\ dot \in 1..Len(key) /\ key[dot] = "."
  <2>1. v.ns \in Seq(Letters) /\ v.name \in Seq(Letters)
    BY NamesAssumption
  <2>2. /\ key \in Seq(Letters) /\ key[dot] = "."
        /\ Len(key) = Len(v.ns) + 1 + Len(v.name)
    BY <2>1, KeyParts DEF KeyOf
  <2>3. Len(v.ns) \in Nat /\ Len(v.name) \in Nat
    BY <2>1
  <2>4. \A k, l, m \in Nat : k = l + 1 + m => l + 1 \in 1..k
    OBVIOUS
  <2>5. Len(key) \in Nat
    BY <2>2, LenProperties
  <2>6. dot \in 1..Len(key)
    BY <2>2, <2>3, <2>4, <2>5
  <2> QED BY <2>2, <2>5, <2>6
<1>2. n \in Seq(Letters) /\ Len(n) \in Nat /\ \A i \in 1..Len(n) : n[i] # "."
  BY NamespacesArePlain DEF Plain, Contains
<1> HIDE DEF key, dot
<1>3. CASE ~HasPrefix(key, n)
  BY <1>1, <1>3 DEF TrimPrefix, Plain, Contains, key
<1>4. CASE HasPrefix(key, n)
  <2> DEFINE rest == SubSeq(key, Len(n) + 1, Len(key))
             i == dot - Len(n)
  <2>1. Len(n) <= Len(key) /\ SubSeq(n, 1, Len(n)) = SubSeq(key, 1, Len(n))
    BY <1>4 DEF HasPrefix, IsPrefix
  <2>2. dot \notin 1..Len(n)
    <3> SUFFICES ASSUME dot \in 1..Len(n) PROVE FALSE
      OBVIOUS
    <3>1. SubSeq(n, 1, Len(n))[dot] = n[dot]
      BY <1>2
    <3>2. SubSeq(key, 1, Len(n))[dot] = key[dot]
      BY <1>1, <1>2, <2>1
    <3> QED BY <1>1, <1>2, <2>1, <3>1, <3>2
  <2>3. dot \in Nat /\ i \in 1..(Len(key) - Len(n)) /\ Len(n) + i = dot
    BY <1>1, <1>2, <2>1, <2>2
  <2> HIDE DEF i
  <2>4. Len(rest) = Len(key) - Len(n) /\ rest[i] = key[dot]
    <3>1. Len(rest) = Len(key) - Len(n)
      BY <1>1, <1>2, <2>1
    <3>2. rest[i] = key[Len(n) + 1 + i - 1]
      BY <1>1, <1>2, <2>1, <2>3
    <3>3. Len(n) + 1 + i - 1 = dot
      BY <1>2, <2>3
    <3> QED BY <3>1, <3>2, <3>3
  <2> QED BY <1>1, <1>4, <2>3, <2>4 DEF TrimPrefix, Plain, Contains, key
<1> QED BY <1>3, <1>4

(* Only the destruction of one VM, asked for by name, looks for plain      *)
(* names, and only it is ever caught.                                      *)
Looks(t) == pc[t] = "destroyAll" \/ (t = Manager /\ pc[t] = "destroyVM")

WalksMiss ==
  /\ \A t \in Threads : Looks(t) => \A name \in todo[t] : ~Plain(name)
  /\ pc[Main] # "destroyVM"
  /\ \A t \in Threads : stuck[t] # None => t \in Handlers /\ pc[t] = "destroyVM"

LEMMA WalksMissStep ==
  ASSUME PlainNames, Inv, WalksMiss, [Next]_vars
  PROVE  WalksMiss'
<1>0. /\ Main \in Threads /\ Manager \in Threads /\ Handlers \subseteq Threads
      /\ Main \notin Handlers /\ Manager \notin Handlers /\ Main # Manager
  BY ThreadsAssumption DEF Threads
<1>1. /\ pc \in [Threads -> Loops \cup {"idle", "iterating", "done"}]
      /\ todo \in [Threads -> SUBSET Seq(Letters)]
      /\ stuck \in [Threads -> VMs \cup {None}]
      /\ vms \subseteq VMs
      /\ \A t \in Threads : pc[t] \in Loops => ns[t] \in AllNamespaces
  BY DEF Inv, TypeOK
<1>2. \A n \in AllNamespaces : \A name \in NamesIn(n) : ~Plain(name)
  BY <1>1, DotStays DEF NamesIn, Matching
<1>3. ASSUME NEW t \in Handlers, NEW n \in Namespaces, NEW v \in VMs,
             DestroyVM(t, n, v.name)
      PROVE  WalksMiss'
  BY <1>0, <1>1, <1>3 DEF DestroyVM, Destroys, WalksMiss, Looks
<1>4. ASSUME NEW t \in Handlers, NEW n \in Namespaces, DestroyAllVMs(t, n)
      PROVE  WalksMiss'
  <2>1. \A name \in NamesIn(n) : ~Plain(name)
    BY <1>2 DEF AllNamespaces
  <2> QED BY <1>0, <1>1, <1>4, <2>1
          DEF DestroyAllVMs, Destroys, WalksMiss, Looks
<1>5. ASSUME NEW v \in VMs, Visit(v) PROVE WalksMiss'
  <2>1. ~Plain(TrimPrefix(KeyOf(v), v.ns))
    BY DotStays DEF AllNamespaces
  <2> QED BY <1>0, <1>1, <1>5, <2>1 DEF Visit, Destroys, WalksMiss, Looks
<1>6. CASE Drained
  <2>1. \A name \in NamesIn(<<"*">>) : ~Plain(name)
    BY <1>2 DEF AllNamespaces
  <2> QED BY <1>0, <1>1, <1>6, <2>1 DEF Drained, Destroys, WalksMiss, Looks
<1>7. ASSUME NEW t \in Threads, DestroyMisses(t) PROVE WalksMiss'
  BY <1>0, <1>1, <1>7 DEF DestroyMisses, WalksMiss, Looks
<1>8. ASSUME NEW t \in Threads, DestroyFinds(t) PROVE WalksMiss'
  <2>1. PICK name \in todo[t], v \in vms :
          KeyOf(v) = Key(ns[t], name) /\ stuck' = [stuck EXCEPT ![t] = v]
    BY <1>8 DEF DestroyFinds
  <2>2. /\ pc[t] \in Loops /\ ns[t] \in AllNamespaces
        /\ name \in Seq(Letters) /\ v \in VMs
        /\ v.name \in Seq(Letters) /\ Plain(v.ns) /\ Plain(ns[t])
    BY <1>1, <1>8, <2>1, NamesAssumption, NamespacesArePlain
       DEF DestroyFinds, Destroying, Plain, PlainNames
  <2>3. v.ns = ns[t]
    <3>1. v.ns \in Seq(Letters) /\ ns[t] \in Seq(Letters)
      BY <2>2 DEF Plain
    <3>2. Meets(v.ns, ns[t])
      BY <2>1, <2>2, <3>1, SameKeys DEF KeyOf
    <3> QED BY <2>2, <3>2, PlainApart DEF Meets
  <2>4. v.name = name
    BY <2>1, <2>2, <2>3, SameName DEF KeyOf, Plain
  <2>5. ~Looks(t)
    BY <2>1, <2>2, <2>4 DEF WalksMiss, PlainNames
  <2>6. t \in Handlers /\ pc[t] = "destroyVM"
    BY <1>0, <2>2, <2>5 DEF Looks, Loops, Threads, WalksMiss
  <2> QED BY <1>0, <1>1, <1>8, <2>1, <2>6 DEF DestroyFinds, WalksMiss, Looks
<1>9. ASSUME NEW t \in Handlers, Answer(t) PROVE WalksMiss'
  BY <1>0, <1>1, <1>9 DEF Answer, Destroying, WalksMiss, Looks, work
<1>10. CASE Tick \/ VisitEnds \/ TickEnds
  BY <1>0, <1>1, <1>10 DEF Tick, VisitEnds, TickEnds, Destroying, WalksMiss, Looks, work
<1>11. CASE \/ Signal \/ Exit \/ UNCHANGED vars
            \/ \E v \in VMs : Register(v) \/ Expire(v)
  BY <1>11 DEF Signal, Exit, Register, Expire, WalksMiss, Looks, work, vars
<1> QED BY <1>3, <1>4, <1>5, <1>6, <1>7, <1>8, <1>9, <1>10, <1>11
        DEF Next, Destroy, Manage, Close

(* If neither names nor namespaces have dots, a VM is destroyed only by a  *)
(* request that names it: neither the LifecycleManager, whatever has       *)
(* expired, nor DestroyAllVMs, called by a client or by main, ever finds   *)
(* one, because they make their keys with two dots (server.go:842, 1471).  *)
THEOREM WalksDestroyNothing ==
  ASSUME PlainNames
  PROVE  Spec => [](\A t \in Threads :
                      stuck[t] # None => t \in Handlers /\ pc[t] = "destroyVM")
<1>1. Init => WalksMiss
  BY ThreadsAssumption DEF Init, WalksMiss, Looks, Threads
<1>2. Inv /\ WalksMiss /\ [Next]_vars => WalksMiss'
  BY WalksMissStep
<1>3. WalksMiss => \A t \in Threads :
        stuck[t] # None => t \in Handlers /\ pc[t] = "destroyVM"
  BY DEF WalksMiss
<1> QED BY <1>1, <1>2, <1>3, Invariance, PTL DEF Spec
=============================================================================
