--------------------------- MODULE QueueTheorems ---------------------------
(***************************************************************************)
(* Lemmas about the sequences that stand for Go slices and for a chain of  *)
(* rules, the allocators' queues, which have no repetitions, and bounded   *)
(* sets of numbers.                                                        *)
(***************************************************************************)
EXTENDS Integers, Functions, SequencesExt, SequenceTheorems,
        WellFoundedInduction, TLAPS

(* Taking the head of a queue without repetitions removes that value.      *)
LEMMA TailOfQueue ==
  ASSUME NEW S, NEW s \in Seq(S), s # <<>>, IsInjective(s)
  PROVE  /\ Head(s) \in S
         /\ Head(s) \in Range(s)
         /\ Tail(s) \in Seq(S)
         /\ IsInjective(Tail(s))
         /\ Range(Tail(s)) = Range(s) \ {Head(s)}
<1> DEFINE n == Len(s)
           t == Tail(s)
<1>1. /\ n \in Nat /\ n >= 1 /\ DOMAIN s = 1..n
      /\ Head(s) = s[1]
      /\ Head(s) \in S
      /\ t \in Seq(S) /\ Len(t) = n - 1
      /\ DOMAIN t = 1..(n - 1)
  BY EmptySeq, LenProperties, HeadTailProperties
<1>2. \A i \in 1..(n - 1) : t[i] = s[i + 1]
  BY <1>1, HeadTailProperties
<1>3. IsInjective(t)
  BY <1>1, <1>2 DEF IsInjective
<1>4. Range(t) \subseteq Range(s) \ {Head(s)}
  BY <1>1, <1>2 DEF IsInjective, Range
<1>5. Range(s) \ {Head(s)} \subseteq Range(t)
  <2> SUFFICES ASSUME NEW k \in 1..n, s[k] # s[1]
               PROVE  s[k] \in Range(t)
    BY <1>1 DEF Range
  <2>1. k - 1 \in 1..(n - 1) /\ t[k - 1] = s[k]
    BY <1>1, <1>2
  <2> QED BY <2>1, <1>1 DEF Range
<1>6. Head(s) \in Range(s)
  BY <1>1 DEF Range
<1> QED BY <1>1, <1>3, <1>4, <1>5, <1>6

(* Appending a value that is not queued adds exactly that value.           *)
LEMMA AppendToQueue ==
  ASSUME NEW S, NEW s \in Seq(S), NEW x \in S,
         IsInjective(s), x \notin Range(s)
  PROVE  /\ Append(s, x) \in Seq(S)
         /\ IsInjective(Append(s, x))
         /\ Range(Append(s, x)) = Range(s) \cup {x}
<1> DEFINE n == Len(s)
           t == Append(s, x)
<1>1. /\ n \in Nat /\ DOMAIN s = 1..n
      /\ t \in Seq(S) /\ Len(t) = n + 1 /\ DOMAIN t = 1..(n + 1)
      /\ \A i \in 1..n : t[i] = s[i]
      /\ t[n + 1] = x
  BY LenProperties, AppendProperties
<1>2. \A i \in 1..n : s[i] # x
  BY <1>1 DEF Range
<1>3. IsInjective(t)
  BY <1>1, <1>2 DEF IsInjective
<1>4. Range(t) = Range(s) \cup {x}
  BY <1>1 DEF Range
<1> QED BY <1>1, <1>3, <1>4

(* Removing position k shifts what comes after it.                        *)
LEMMA RemoveAtIndex ==
  ASSUME NEW S, NEW s \in Seq(S), NEW k \in 1..Len(s)
  PROVE  /\ RemoveAt(s, k) \in Seq(S)
         /\ Len(RemoveAt(s, k)) = Len(s) - 1
         /\ \A i \in 1..(Len(s) - 1) :
              RemoveAt(s, k)[i] = IF i < k THEN s[i] ELSE s[i + 1]
<1> DEFINE n == Len(s)
           a == SubSeq(s, 1, k - 1)
           b == SubSeq(s, k + 1, n)
           t == a \o b
<1>1. /\ n \in Nat /\ DOMAIN s = 1..n
      /\ \A i \in 1..n : s[i] \in S
  BY LenProperties, ElementOfSeq
<1>2. /\ a \in Seq(S) /\ Len(a) = k - 1
      /\ \A i \in 1..(k - 1) : a[i] = s[i]
  BY <1>1, SubSeqProperties, k - 1 \in Int, 1 \in Int
<1>3. /\ b \in Seq(S) /\ Len(b) = n - k
      /\ \A i \in 1..(n - k) : b[i] = s[k + i]
  <2>1. \A i \in (k + 1)..n : s[i] \in S
    BY <1>1
  <2>2. k + 1 \in Int /\ n \in Int
    BY <1>1
  <2>3. /\ b \in Seq(S)
        /\ Len(b) = IF k + 1 <= n THEN n - (k + 1) + 1 ELSE 0
        /\ \A i \in 1..(n - (k + 1) + 1) : b[i] = s[(k + 1) + i - 1]
    BY <2>1, <2>2, SubSeqProperties
  <2> HIDE DEF b
  <2>4. k \in Nat /\ 1 <= k /\ k <= n
    BY <1>1
  <2> HIDE DEF n
  <2>5. Len(b) = n - k
    BY <2>3, <2>4, <1>1
  <2>6. ASSUME NEW i \in 1..(n - k)
        PROVE  b[i] = s[k + i]
    <3>1. i \in 1..(n - (k + 1) + 1) /\ (k + 1) + i - 1 = k + i
      BY <2>4, <1>1
    <3> QED BY <3>1, <2>3
  <2> QED BY <2>3, <2>5, <2>6
<1> HIDE DEF a, b
<1>4. /\ t \in Seq(S) /\ Len(t) = (k - 1) + (n - k)
      /\ \A i \in 1..((k - 1) + (n - k)) :
           t[i] = IF i <= k - 1 THEN a[i] ELSE b[i - (k - 1)]
  <2>1. /\ t \in Seq(S) /\ Len(t) = Len(a) + Len(b)
        /\ \A i \in 1..(Len(a) + Len(b)) :
             t[i] = IF i <= Len(a) THEN a[i] ELSE b[i - Len(a)]
    BY <1>2, <1>3, ConcatProperties
  <2> QED BY <2>1, <1>2, <1>3
<1>5. RemoveAt(s, k) = t
  BY DEF RemoveAt, a, b
<1> HIDE DEF t
<1>6. Len(t) = n - 1
  BY <1>4, <1>1
<1>7. ASSUME NEW i \in 1..(n - 1)
      PROVE  t[i] = IF i < k THEN s[i] ELSE s[i + 1]
  <2>1. CASE i < k
    BY <2>1, <1>4, <1>1, <1>2
  <2>2. CASE ~(i < k)
    <3>1. i - (k - 1) \in 1..(n - k) /\ k + (i - (k - 1)) = i + 1
      BY <2>2, <1>1
    <3>2. t[i] = b[i - (k - 1)]
      BY <2>2, <1>4, <1>1
    <3> QED BY <3>1, <3>2, <2>2, <1>3
  <2> QED BY <2>1, <2>2
<1> QED BY <1>4, <1>5, <1>6, <1>7

(* It removes just s[k] from a queue without repetitions.                  *)
LEMMA RemoveFromQueue ==
  ASSUME NEW S, NEW s \in Seq(S), NEW k \in 1..Len(s), IsInjective(s)
  PROVE  /\ s[k] \in S
         /\ s[k] \in Range(s)
         /\ RemoveAt(s, k) \in Seq(S)
         /\ IsInjective(RemoveAt(s, k))
         /\ Range(RemoveAt(s, k)) = Range(s) \ {s[k]}
<1> DEFINE n == Len(s)
           t == RemoveAt(s, k)
<1>1. n \in Nat /\ DOMAIN s = 1..n /\ \A i \in 1..n : s[i] \in S
  BY LenProperties, ElementOfSeq
<1>2. /\ t \in Seq(S) /\ Len(t) = n - 1
      /\ \A i \in 1..(n - 1) : t[i] = IF i < k THEN s[i] ELSE s[i + 1]
  BY RemoveAtIndex
<1>3. DOMAIN t = 1..(n - 1)
  BY <1>2, LenProperties
<1> HIDE DEF t
<1>4. IsInjective(t)
  BY <1>1, <1>2, <1>3 DEF IsInjective
<1>5. Range(t) \subseteq Range(s) \ {s[k]}
  BY <1>1, <1>2, <1>3 DEF IsInjective, Range
<1>6. Range(s) \ {s[k]} \subseteq Range(t)
  <2> SUFFICES ASSUME NEW j \in 1..n, j # k
               PROVE  s[j] \in Range(t)
    BY <1>1 DEF Range
  <2>1. CASE j < k
    BY <2>1, <1>1, <1>2, <1>3 DEF Range
  <2>2. CASE j > k
    <3>1. j - 1 \in 1..(n - 1) /\ t[j - 1] = s[j]
      BY <2>2, <1>1, <1>2
    <3> QED BY <3>1, <1>3 DEF Range
  <2> QED BY <2>1, <2>2
<1>7. s[k] \in S /\ s[k] \in Range(s)
  BY <1>1 DEF Range
<1> QED BY <1>2, <1>4, <1>5, <1>6, <1>7 DEF t

(* The queue of a new allocator holds every number of its range, once.     *)
LEMMA NewQueue ==
  ASSUME NEW lo \in Nat, NEW n \in Nat,
         NEW s, s = [k \in 1..n |-> lo + k - 1]
  PROVE  /\ s \in Seq(lo..(lo + n - 1)) /\ IsInjective(s)
         /\ Range(s) = lo..(lo + n - 1)
<1>1. DOMAIN s = 1..n /\ \A k \in 1..n : s[k] = lo + k - 1
  OBVIOUS
<1>2. s \in Seq(lo..(lo + n - 1))
  <2>1. s \in [1..n -> lo..(lo + n - 1)]
    BY <1>1
  <2> QED BY <2>1
<1>3. IsInjective(s)
  BY <1>1 DEF IsInjective
<1>4. lo..(lo + n - 1) \subseteq Range(s)
  <2> SUFFICES ASSUME NEW i \in lo..(lo + n - 1) PROVE i \in Range(s)
    OBVIOUS
  <2>1. i - lo + 1 \in 1..n /\ s[i - lo + 1] = i
    BY <1>1
  <2> QED BY <2>1, <1>1 DEF Range
<1>5. Range(s) \subseteq lo..(lo + n - 1)
  BY <1>1 DEF Range
<1> QED BY <1>2, <1>3, <1>4, <1>5

(* Contains looks for a value in a queue. *)
LEMMA ContainsInRange ==
  ASSUME NEW S, NEW s \in Seq(S), NEW x
  PROVE  Contains(s, x) <=> x \in Range(s)
<1>1. DOMAIN s = 1..Len(s)
  BY LenProperties
<1> QED BY <1>1 DEF Contains, Range

(* RemoveFirst takes a value out of a queue that has it at most once.      *)
LEMMA RemoveValueFromQueue ==
  ASSUME NEW S, NEW s \in Seq(S), NEW x, IsInjective(s)
  PROVE  /\ RemoveFirst(s, x) \in Seq(S)
         /\ IsInjective(RemoveFirst(s, x))
         /\ Range(RemoveFirst(s, x)) = Range(s) \ {x}
<1>1. Len(s) \in Nat /\ DOMAIN s = 1..Len(s)
  BY LenProperties
<1>2. CASE x \notin Range(s)
  <2>1. RemoveFirst(s, x) = s
    BY <1>1, <1>2 DEF RemoveFirst, Range
  <2> QED BY <1>2, <2>1
<1>3. ASSUME NEW k \in 1..Len(s), s[k] = x
      PROVE  RemoveFirst(s, x) = RemoveAt(s, k)
  <2>1. {i \in 1..Len(s) : s[i] = x} = {k}
    BY <1>1, <1>3 DEF IsInjective
  <2>2. Min({k}) = k
    BY <1>1 DEF Min
  <2>3. SelectInSeq(s, LAMBDA v : v = x) = k
    BY <2>1, <2>2 DEF SelectInSeq
  <2> QED BY <1>3, <2>3 DEF RemoveFirst
<1>4. CASE x \in Range(s)
  <2>1. PICK k \in 1..Len(s) : s[k] = x
    BY <1>1, <1>4 DEF Range
  <2> QED BY <2>1, <1>3, RemoveFromQueue
<1> QED BY <1>2, <1>4

(* Appending to the second of two sequences appends to both together.      *)
LEMMA AppendAfter ==
  ASSUME NEW S, NEW s \in Seq(S), NEW t \in Seq(S), NEW x \in S
  PROVE  s \o Append(t, x) = (s \o t) \o <<x>>
<1>1. <<x>> \in Seq(S)
  OBVIOUS
<1> QED BY <1>1, AppendIsConcat, ConcatAssociative

(* The first n + 1 elements are the first n and the next one.              *)
LEMMA OneMore ==
  ASSUME NEW S, NEW s \in Seq(S), NEW n \in 0..(Len(s) - 1)
  PROVE  SubSeq(s, 1, n + 1) = SubSeq(s, 1, n) \o <<s[n + 1]>>
<1> DEFINE m == n + 1
<1>1. Len(s) \in Nat /\ m \in 1..Len(s) /\ 1 \in 1..Len(s) /\ 1 \in 1..m
      /\ m - 1 = n
  BY LenProperties
<1>2. \A k \in 1..Len(s) : 1 <= k =>
        SubSeq(s, 1, k) = SubSeq(s, 1, k - 1) \o <<s[k]>>
  BY <1>1, SubSeqRecursiveSecond
<1> QED BY <1>1, <1>2

(* Moving the head of one to the end of the other leaves both together as  *)
(* they were.                                                              *)
LEMMA MoveHead ==
  ASSUME NEW S, NEW s \in Seq(S), NEW t \in Seq(S), t # <<>>
  PROVE  Append(s, Head(t)) \o Tail(t) = s \o t
<1>1. Head(t) \in S /\ Tail(t) \in Seq(S) /\ <<Head(t)>> \in Seq(S)
  BY HeadTailProperties
<1>2. Append(s, Head(t)) = s \o <<Head(t)>>
  BY <1>1, AppendIsConcat
<1>3. t = <<Head(t)>> \o Tail(t)
  <2>1. Len(t) \in Nat /\ Len(t) >= 1 /\ t[1] = Head(t)
    BY EmptySeq, LenProperties, HeadTailProperties
  <2>2. Tail(t) = SubSeq(t, 2, Len(t)) /\ SubSeq(t, 1, Len(t)) = t
    BY TailIsSubSeq, SubSeqFull
  <2>3. SubSeq(t, 1, Len(t)) = <<t[1]>> \o SubSeq(t, 1 + 1, Len(t))
    BY <2>1, SubSeqRecursiveFirst
  <2> QED BY <2>1, <2>2, <2>3
<1> QED BY <1>1, <1>2, <1>3, ConcatAssociative

-----------------------------------------------------------------------------
(* Sets of natural numbers: the well-founded induction of the library,     *)
(* taken as the existence of least elements.                               *)
Less == {p \in Nat \X Nat : p[1] < p[2]}

LEMMA LessIsWellFounded == IsWellFoundedOn(Less, Nat)
BY NatLessThanWellFounded DEF OpToRel, Less
(* A set of numbers that is not empty has a least element, ... *)
LEMMA LeastOf ==
  ASSUME NEW S \in SUBSET Nat, S # {}
  PROVE  \E m \in S : \A n \in S : m <= n
<1>0. S \subseteq Nat
  OBVIOUS
<1>1. \E m \in S : \A y \in S : ~(<<y, m>> \in Less)
  BY <1>0, LessIsWellFounded, WFMin
<1>2. \A y, z \in Nat : y < z => <<y, z>> \in Less
  BY DEF Less
<1>3. PICK m \in S : \A y \in S : ~(<<y, m>> \in Less)
  BY <1>1
<1>4. ASSUME NEW n \in S PROVE m <= n
  <2>1. m \in Nat /\ n \in Nat
    BY <1>0
  <2>2. ~(n < m)
    BY <2>1, <1>2, <1>3
  <2> QED BY <2>1, <2>2
<1> QED BY <1>4
(* ... and a greatest one if it is bounded. *)
LEMMA MaxOf ==
  ASSUME NEW S \in SUBSET Nat, S # {}, NEW b \in Nat, \A i \in S : i <= b
  PROVE  \E m \in S : \A n \in S : n <= m
<1> DEFINE U == {u \in Nat : \A i \in S : i <= u}
<1>1. PICK m \in U : \A n \in U : m <= n
  <2>1. U \in SUBSET Nat /\ U # {}
   OBVIOUS
  <2> QED BY <2>1, LeastOf
<1>2. CASE m \in S
  BY <1>1, <1>2
<1>3. CASE m \notin S
  <2>1. \A i \in S : i < m
    BY <1>1, <1>3
  <2>2. m > 0
    <3>1. PICK i \in S : i < m
      BY <2>1
    <3> QED BY <3>1
  <2>3. m - 1 \in U
    BY <2>1, <2>2, <1>1
  <2> QED BY <1>1, <2>3
<1> QED BY <1>2, <1>3

-----------------------------------------------------------------------------
(* A queue of addresses may hold one twice: where the value x is queued,   *)
(* and what taking the head, appending a value and removing one do to that. *)
At(s, x) == {k \in DOMAIN s : s[k] = x}
Once(s, x) == \E k \in DOMAIN s : At(s, x) = {k}

LEMMA RemoveAtLeaves ==
  ASSUME NEW S, NEW s \in Seq(S), NEW k \in 1..Len(s), NEW t \in Seq(S),
         Len(t) = Len(s) - 1,
         \A i \in 1..(Len(s) - 1) : t[i] = IF i < k THEN s[i] ELSE s[i + 1]
  PROVE  /\ \A y : y # s[k] => /\ At(s, y) = {} <=> At(t, y) = {}
                               /\ Once(s, y) => Once(t, y)
         /\ Once(s, s[k]) => At(t, s[k]) = {}
<1> DEFINE n == Len(s)
           To(j) == IF j < k THEN j ELSE j - 1
           From(i) == IF i < k THEN i ELSE i + 1
<1>1. n \in Nat /\ n >= 1 /\ DOMAIN s = 1..n /\ DOMAIN t = 1..(n - 1)
  BY LenProperties
<1> HIDE DEF n
<1>2. \A i \in 1..(n - 1) : From(i) \in 1..n /\ From(i) # k /\ t[i] = s[From(i)]
  BY <1>1 DEF n
<1>3. \A j \in 1..n : j # k => To(j) \in 1..(n - 1) /\ t[To(j)] = s[j]
  BY <1>1 DEF n
<1>4. \A i \in 1..(n - 1) : To(From(i)) = i
  BY <1>1
<1> HIDE DEF To, From
<1>5. ASSUME NEW y, y # s[k] PROVE At(s, y) = {} <=> At(t, y) = {}
  BY <1>1, <1>2, <1>3, <1>5 DEF At
<1>6. ASSUME NEW y, NEW j \in DOMAIN s, At(s, y) = {j}, j # k
      PROVE  At(t, y) = {To(j)} /\ To(j) \in DOMAIN t
  <2>1. s[j] = y /\ \A i \in 1..n : s[i] = y => i = j
    BY <1>1, <1>6 DEF At
  <2>2. To(j) \in 1..(n - 1) /\ t[To(j)] = y
    BY <2>1, <1>1, <1>3, <1>6
  <2>3. \A i \in 1..(n - 1) : t[i] = y => i = To(j)
    BY <2>1, <1>2, <1>4
  <2> QED BY <2>2, <2>3, <1>1 DEF At
<1>7. ASSUME NEW y, y # s[k], Once(s, y) PROVE Once(t, y)
  <2>1. PICK j \in DOMAIN s : At(s, y) = {j}
    BY <1>7 DEF Once
  <2>2. j # k
    BY <2>1, <1>7 DEF At
  <2> QED BY <2>1, <2>2, <1>6 DEF Once
<1>8. ASSUME Once(s, s[k]) PROVE At(t, s[k]) = {}
  <2>1. PICK j \in DOMAIN s : At(s, s[k]) = {j}
    BY <1>8 DEF Once
  <2>2. \A i \in 1..n : s[i] = s[k] => i = k
    BY <2>1, <1>1 DEF At, n
  <2> QED BY <2>2, <1>1, <1>2 DEF At
<1> QED BY <1>5, <1>7, <1>8

LEMMA TailLeaves ==
  ASSUME NEW S, NEW s \in Seq(S), s # <<>>
  PROVE  /\ Tail(s) \in Seq(S) /\ Head(s) \in S /\ At(s, Head(s)) # {}
         /\ \A y : y # Head(s) => /\ At(s, y) = {} <=> At(Tail(s), y) = {}
                                  /\ Once(s, y) => Once(Tail(s), y)
         /\ Once(s, Head(s)) => At(Tail(s), Head(s)) = {}
<1> DEFINE t == Tail(s)
<1>1. /\ Len(s) \in Nat /\ Len(s) >= 1 /\ DOMAIN s = 1..Len(s)
      /\ Head(s) = s[1] /\ Head(s) \in S
      /\ t \in Seq(S) /\ Len(t) = Len(s) - 1
  BY EmptySeq, LenProperties, HeadTailProperties
<1>2. 1 \in 1..Len(s) /\ \A i \in 1..(Len(s) - 1) : t[i] = s[i + 1] /\ ~(i < 1)
  BY <1>1, HeadTailProperties
<1> HIDE DEF t
<1>3. /\ \A y : y # s[1] => /\ At(s, y) = {} <=> At(t, y) = {}
                            /\ Once(s, y) => Once(t, y)
      /\ Once(s, s[1]) => At(t, s[1]) = {}
  BY <1>1, <1>2, RemoveAtLeaves
<1>4. At(s, Head(s)) # {}
  BY <1>1, <1>2 DEF At
<1> QED BY <1>1, <1>3, <1>4 DEF t

LEMMA AppendLeaves ==
  ASSUME NEW S, NEW s \in Seq(S), NEW x \in S
  PROVE  /\ Append(s, x) \in Seq(S)
         /\ \A y : y # x => At(Append(s, x), y) = At(s, y)
         /\ At(Append(s, x), x) # {}
         /\ \A y : y # x /\ Once(s, y) => Once(Append(s, x), y)
         /\ At(s, x) = {} => Once(Append(s, x), x)
<1> DEFINE n == Len(s)
           t == Append(s, x)
<1>1. /\ n \in Nat /\ DOMAIN s = 1..n
      /\ t \in Seq(S) /\ DOMAIN t = 1..(n + 1)
      /\ \A i \in 1..n : t[i] = s[i]
      /\ t[n + 1] = x
  BY LenProperties, AppendProperties
<1> HIDE DEF n, t
<1>2. \A y : y # x => At(t, y) = At(s, y)
  BY <1>1 DEF At
<1>3. n + 1 \in At(t, x) /\ At(t, x) \subseteq At(s, x) \cup {n + 1}
  BY <1>1 DEF At
<1>4. DOMAIN s \subseteq DOMAIN t /\ n + 1 \in DOMAIN t
  BY <1>1
<1> QED BY <1>1, <1>2, <1>3, <1>4 DEF Once, t

LEMMA RemoveFirstLeaves ==
  ASSUME NEW S, NEW s \in Seq(S), NEW x
  PROVE  /\ RemoveFirst(s, x) \in Seq(S)
         /\ \A y : y # x => /\ At(s, y) = {} <=> At(RemoveFirst(s, x), y) = {}
                            /\ Once(s, y) => Once(RemoveFirst(s, x), y)
         /\ At(s, x) = {} \/ Once(s, x) => At(RemoveFirst(s, x), x) = {}
<1> DEFINE I == {i \in 1..Len(s) : s[i] = x}
<1>1. Len(s) \in Nat /\ DOMAIN s = 1..Len(s)
  BY LenProperties
<1>2. CASE I = {}
  <2>1. RemoveFirst(s, x) = s
    BY <1>1, <1>2 DEF RemoveFirst
  <2> QED BY <1>1, <1>2, <2>1 DEF At
<1>3. CASE I # {}
  <2>1. I \in SUBSET Nat
    BY <1>1
  <2>2. Min(I) \in I
    <3>1. \E m \in I : \A n \in I : m <= n
      BY <2>1, <1>3, LeastOf
    <3> QED BY <3>1 DEF Min
  <2>3. SelectInSeq(s, LAMBDA v : v = x) = Min(I)
    BY <1>3 DEF SelectInSeq
  <2> DEFINE k == Min(I)
  <2>4. k \in 1..Len(s) /\ s[k] = x
    BY <2>2
  <2> HIDE DEF k
  <2>5. RemoveFirst(s, x) = RemoveAt(s, k)
    BY <2>3, <2>4 DEF RemoveFirst, k
  <2>6. /\ RemoveAt(s, k) \in Seq(S)
        /\ Len(RemoveAt(s, k)) = Len(s) - 1
        /\ \A i \in 1..(Len(s) - 1) :
              RemoveAt(s, k)[i] = IF i < k THEN s[i] ELSE s[i + 1]
    BY <2>4, RemoveAtIndex
  <2>7. At(s, x) # {}
    BY <2>4, <1>1 DEF At
  <2>8. /\ \A y : y # s[k] => /\ At(s, y) = {} <=> At(RemoveAt(s, k), y) = {}
                              /\ Once(s, y) => Once(RemoveAt(s, k), y)
        /\ Once(s, s[k]) => At(RemoveAt(s, k), s[k]) = {}
    BY <2>4, <2>6, RemoveAtLeaves
  <2> QED BY <2>4, <2>5, <2>6, <2>7, <2>8
<1> QED BY <1>2, <1>3
=============================================================================
