--------------------------- MODULE SequenceLemmas ----------------------------
(***************************************************************************)
(* What the proofs about the components need to know of natural numbers    *)
(* and of the community modules' operators on sequences.  Induction is     *)
(* stated about sets of naturals, not about an operator.                   *)
(***************************************************************************)
EXTENDS Integers, Sequences, SequencesExt, FiniteSetsExt, FiniteSetTheorems,
        WellFoundedInduction, TLAPS

-----------------------------------------------------------------------------
(* Induction                                                               *)

NatLessThan == {ss \in Nat \X Nat : ss[1] < ss[2]}

(* A set of naturals that is not empty has a least element.                *)
LEMMA LeastNatural ==
    ASSUME NEW T \in SUBSET Nat, T # {}
    PROVE  \E x \in T : \A y \in T : x <= y
<1>1. IsWellFoundedOn(NatLessThan, Nat)
  BY NatLessThanWellFounded DEF OpToRel, NatLessThan
<1>2. PICK x \in T : \A y \in T : <<y, x>> \notin NatLessThan
  BY <1>1, WFMin
<1>3. ASSUME NEW y \in T PROVE x <= y
  <2>1. x \in Nat /\ y \in Nat /\ <<y, x>> \notin NatLessThan
    BY <1>2
  <2>2. <<y, x>> \in Nat \X Nat
    BY <2>1
  <2>3. ~(<<y, x>>[1] < <<y, x>>[2])
    BY <2>1, <2>2 DEF NatLessThan
  <2>4. QED
    BY <2>1, <2>3
<1>4. QED
  BY <1>3

(* A set that holds 0 and with every number the next holds all.            *)
LEMMA SetInduction ==
    ASSUME NEW T, 0 \in T, \A n \in Nat : n \in T => n + 1 \in T
    PROVE  Nat \subseteq T
<1>1. SUFFICES ASSUME ~(Nat \subseteq T) PROVE FALSE
  OBVIOUS
<1> DEFINE U == {n \in Nat : n \notin T}
<1>2. U \in SUBSET Nat /\ U # {}
  BY <1>1
<1>3. PICK x \in U : \A y \in U : x <= y
  <2> HIDE DEF U
  <2>1. QED
    BY <1>2, LeastNatural
<1>4. x \in Nat /\ x \notin T /\ x # 0
  OBVIOUS
<1>5. x - 1 \in Nat /\ x - 1 + 1 = x
  BY <1>4
<1>6. x - 1 \in T
  BY <1>3, <1>5
<1>7. QED
  BY <1>4, <1>5, <1>6

(* The least element is what Min yields.                                   *)
LEMMA MinOfNaturals ==
    ASSUME NEW T \in SUBSET Nat, T # {}
    PROVE  Min(T) \in T /\ \A y \in T : Min(T) <= y
BY LeastNatural DEF Min

(* A bounded set of naturals has a greatest element, which Max yields.     *)
LEMMA MaxOfNaturals ==
    ASSUME NEW T \in SUBSET Nat, T # {}, NEW b \in Nat, \A y \in T : y <= b
    PROVE  Max(T) \in T /\ \A y \in T : y <= Max(T)
<1> DEFINE U == {n \in Nat : \A y \in T : y <= n}
<1>1. U \in SUBSET Nat /\ U # {}
  OBVIOUS
<1>2. PICK x \in U : \A u \in U : x <= u
  <2> HIDE DEF U
  <2>1. QED
    BY <1>1, LeastNatural
<1>3. x \in T
  <2>1. SUFFICES ASSUME x \notin T PROVE FALSE
    OBVIOUS
  <2>2. x \in Nat /\ \A y \in T : y <= x /\ y # x /\ y \in Nat
    BY <2>1
  <2>3. x > 0
    <3>1. PICK y \in T : TRUE
      OBVIOUS
    <3>2. QED
      BY <2>2, <3>1
  <2>4. x - 1 \in U
    BY <2>2, <2>3
  <2>5. QED
    BY <1>2, <2>2, <2>4
<1>4. \E m \in T : \A y \in T : m >= y
  BY <1>3
<1>5. QED
  BY <1>4 DEF Max

-----------------------------------------------------------------------------
(* The elements of a sequence                                              *)

(* An element is at some place.                                            *)
LEMMA ElementsOf ==
    ASSUME NEW S, NEW s \in Seq(S), NEW x
    PROVE  x \in ToSet(s) <=> \E i \in 1 .. Len(s) : s[i] = x
BY DEF ToSet

(* The elements of a sequence over S are in S.                             *)
LEMMA ElementsInRange ==
    ASSUME NEW S, NEW s \in Seq(S)
    PROVE  ToSet(s) \subseteq S
BY DEF ToSet

(* Append puts one element after the others.                               *)
LEMMA AppendElements ==
    ASSUME NEW S, NEW s \in Seq(S), NEW x \in S
    PROVE  /\ Append(s, x) \in Seq(S)
           /\ Len(Append(s, x)) = Len(s) + 1
           /\ \A i \in 1 .. Len(s) : Append(s, x)[i] = s[i]
           /\ Append(s, x)[Len(s) + 1] = x
           /\ ToSet(Append(s, x)) = ToSet(s) \cup {x}
<1>1. /\ Append(s, x) \in Seq(S)
      /\ Len(Append(s, x)) = Len(s) + 1
      /\ \A i \in 1 .. Len(s) : Append(s, x)[i] = s[i]
      /\ Append(s, x)[Len(s) + 1] = x
  OBVIOUS
<1> DEFINE a == Append(s, x)
<1> HIDE DEF a
<1>2. ASSUME NEW y PROVE y \in ToSet(a) <=> y \in ToSet(s) \cup {x}
  <2>1. y \in ToSet(a) <=> \E i \in 1 .. Len(a) : a[i] = y
    BY <1>1, ElementsOf DEF a
  <2>2. y \in ToSet(s) <=> \E i \in 1 .. Len(s) : s[i] = y
    BY ElementsOf
  <2>3. Len(s) \in Nat
    OBVIOUS
  <2>4. QED
    BY <1>1, <2>1, <2>2, <2>3 DEF a
<1>3. QED
  BY <1>1, <1>2 DEF a

(* Concatenation puts the second sequence after the first.                 *)
LEMMA ConcatElements ==
    ASSUME NEW S, NEW s \in Seq(S), NEW t \in Seq(S)
    PROVE  /\ s \o t \in Seq(S)
           /\ Len(s \o t) = Len(s) + Len(t)
           /\ \A i \in 1 .. Len(s) : (s \o t)[i] = s[i]
           /\ \A i \in 1 .. Len(t) : (s \o t)[Len(s) + i] = t[i]
           /\ ToSet(s \o t) = ToSet(s) \cup ToSet(t)
<1>1. /\ s \o t \in Seq(S)
      /\ Len(s \o t) = Len(s) + Len(t)
      /\ \A i \in 1 .. Len(s) : (s \o t)[i] = s[i]
      /\ \A i \in 1 .. Len(t) : (s \o t)[Len(s) + i] = t[i]
  OBVIOUS
<1> DEFINE a == s \o t
<1> HIDE DEF a
<1>2. ASSUME NEW y PROVE y \in ToSet(a) <=> y \in ToSet(s) \cup ToSet(t)
  <2>1. ASSUME NEW i \in 1 .. Len(a), a[i] = y PROVE y \in ToSet(s) \cup ToSet(t)
    <3>1. CASE i <= Len(s)
      BY <1>1, <2>1, <3>1, ElementsOf DEF a
    <3>2. CASE i > Len(s)
      <4>1. i - Len(s) \in 1 .. Len(t) /\ i = Len(s) + (i - Len(s))
        BY <1>1, <3>2 DEF a
      <4>2. t[i - Len(s)] = y
        BY <1>1, <2>1, <4>1 DEF a
      <4>3. QED
        BY <4>1, <4>2, ElementsOf
    <3>3. QED
      BY <3>1, <3>2, <1>1 DEF a
  <2>2. ASSUME NEW i \in 1 .. Len(s), s[i] = y PROVE y \in ToSet(a)
    <3>1. i \in 1 .. Len(a) /\ a[i] = y
      BY <1>1, <2>2 DEF a
    <3>2. QED
      BY <1>1, <3>1, ElementsOf DEF a
  <2>3. ASSUME NEW i \in 1 .. Len(t), t[i] = y PROVE y \in ToSet(a)
    <3>1. Len(s) + i \in 1 .. Len(a) /\ a[Len(s) + i] = y
      BY <1>1, <2>3 DEF a
    <3>2. QED
      BY <1>1, <3>1, ElementsOf DEF a
  <2>4. y \in ToSet(a) <=> \E i \in 1 .. Len(a) : a[i] = y
    BY <1>1, ElementsOf DEF a
  <2>5. /\ y \in ToSet(s) <=> \E i \in 1 .. Len(s) : s[i] = y
        /\ y \in ToSet(t) <=> \E i \in 1 .. Len(t) : t[i] = y
    BY ElementsOf
  <2>6. QED
    BY <2>1, <2>2, <2>3, <2>4, <2>5
<1>3. QED
  BY <1>1, <1>2 DEF a

-----------------------------------------------------------------------------
(* Taking an element out                                                   *)

(* Where an element of RemoveAt(s, i) was in s.                            *)
Was(i, p) == IF p < i THEN p ELSE p + 1

(* Removing one place moves the later elements down by one.                *)
LEMMA RemoveAtElements ==
    ASSUME NEW S, NEW s \in Seq(S), NEW i \in 1 .. Len(s)
    PROVE  /\ RemoveAt(s, i) \in Seq(S)
           /\ Len(RemoveAt(s, i)) = Len(s) - 1
           /\ \A p \in 1 .. Len(s) - 1 : RemoveAt(s, i)[p] = s[Was(i, p)]
<1> DEFINE l == SubSeq(s, 1, i - 1)
           r == SubSeq(s, i + 1, Len(s))
<1>1. /\ l \in Seq(S) /\ Len(l) = i - 1
      /\ \A p \in 1 .. i - 1 : l[p] = s[p]
  OBVIOUS
<1>2. /\ r \in Seq(S) /\ Len(r) = Len(s) - i
      /\ \A p \in 1 .. Len(s) - i : r[p] = s[i + p]
  OBVIOUS
<1>3. RemoveAt(s, i) = l \o r
  BY DEF RemoveAt
<1> HIDE DEF l, r
<1>4. ASSUME NEW p \in 1 .. Len(s) - 1 PROVE (l \o r)[p] = s[Was(i, p)]
  <2>1. CASE p < i
    BY <1>1, <1>2, <2>1, ConcatElements DEF Was
  <2>2. CASE p >= i
    <3>1. p - (i - 1) \in 1 .. Len(r) /\ p = Len(l) + (p - (i - 1))
      BY <1>1, <1>2, <2>2
    <3>2. (l \o r)[Len(l) + (p - (i - 1))] = r[p - (i - 1)]
      BY <1>1, <1>2, <3>1, ConcatElements
    <3>3. r[p - (i - 1)] = s[i + (p - (i - 1))]
      BY <1>2, <3>1
    <3>4. i + (p - (i - 1)) = p + 1
      OBVIOUS
    <3>5. l \o r = l \o r /\ Was(i, p) = p + 1
      BY <2>2 DEF Was
    <3>6. QED
      BY <3>1, <3>2, <3>3, <3>4, <3>5
  <2>3. p < i \/ p >= i
    OBVIOUS
  <2>4. QED
    BY <2>1, <2>2, <2>3
<1>5. l \o r \in Seq(S) /\ Len(l \o r) = Len(s) - 1
  <2>1. l \o r \in Seq(S) /\ Len(l \o r) = Len(l) + Len(r)
    BY <1>1, <1>2, ConcatElements
  <2>2. QED
    BY <1>1, <1>2, <2>1
<1>6. QED
  BY <1>3, <1>4, <1>5

(* The first position of an element.                                       *)
LEMMA FirstPosition ==
    ASSUME NEW S, NEW s \in Seq(S), NEW e, \E i \in 1 .. Len(s) : s[i] = e
    PROVE  /\ SelectInSeq(s, LAMBDA v : v = e) \in 1 .. Len(s)
           /\ s[SelectInSeq(s, LAMBDA v : v = e)] = e
<1> DEFINE I == {i \in 1 .. Len(s) : s[i] = e}
<1>1. I \in SUBSET Nat /\ I # {}
  OBVIOUS
<1>2. SelectInSeq(s, LAMBDA v : v = e) = Min(I)
  BY <1>1 DEF SelectInSeq, Min
<1>3. QED
  BY <1>1, <1>2, MinOfNaturals

(* RemoveFirst takes an element out of a sequence without repetitions, and *)
(* leaves none behind.                                                     *)
LEMMA RemoveFirstElements ==
    ASSUME NEW S, NEW s \in Seq(S), NEW e,
           \A i, j \in 1 .. Len(s) : s[i] = s[j] => i = j
    PROVE  /\ RemoveFirst(s, e) \in Seq(S)
           /\ ToSet(RemoveFirst(s, e)) = ToSet(s) \ {e}
           /\ \A i, j \in 1 .. Len(RemoveFirst(s, e)) :
                  RemoveFirst(s, e)[i] = RemoveFirst(s, e)[j] => i = j
<1>1. CASE \E i \in 1 .. Len(s) : s[i] = e
  <2> DEFINE k == SelectInSeq(s, LAMBDA v : v = e)
             r == RemoveAt(s, k)
  <2>1. k \in 1 .. Len(s) /\ s[k] = e
    BY <1>1, FirstPosition
  <2>2. RemoveFirst(s, e) = r
    BY <1>1 DEF RemoveFirst
  <2> HIDE DEF k
  <2>3. /\ r \in Seq(S) /\ Len(r) = Len(s) - 1
        /\ \A p \in 1 .. Len(s) - 1 : r[p] = s[Was(k, p)]
    BY <2>1, RemoveAtElements
  <2> HIDE DEF r
  <2>4. Len(s) \in Nat
    OBVIOUS
  <2>5. \A p \in 1 .. Len(r) : Was(k, p) \in 1 .. Len(s) /\ Was(k, p) # k
    BY <2>1, <2>3, <2>4 DEF Was
  <2>6. \A p, q \in 1 .. Len(r) : Was(k, p) = Was(k, q) => p = q
    BY <2>1, <2>3, <2>4 DEF Was
  <2>7. \A i, j \in 1 .. Len(r) : r[i] = r[j] => i = j
    BY <2>3, <2>5, <2>6
  <2>8. ASSUME NEW y PROVE y \in ToSet(r) <=> y \in ToSet(s) \ {e}
    <3>1. y \in ToSet(r) <=> \E i \in 1 .. Len(r) : r[i] = y
      BY <2>3, ElementsOf
    <3>2. y \in ToSet(s) <=> \E i \in 1 .. Len(s) : s[i] = y
      BY ElementsOf
    <3>3. ASSUME NEW i \in 1 .. Len(r), r[i] = y PROVE y \in ToSet(s) \ {e}
      BY <2>1, <2>3, <2>5, <3>2, <3>3
    <3>4. ASSUME NEW i \in 1 .. Len(s), s[i] = y, y # e PROVE y \in ToSet(r)
      <4>1. i # k
        BY <2>1, <3>4
      <4>2. PICK p \in 1 .. Len(r) : Was(k, p) = i
        <5>1. CASE i < k
          <6>1. i \in 1 .. Len(r) /\ Was(k, i) = i
            BY <2>1, <2>3, <2>4, <5>1 DEF Was
          <6>2. QED
            BY <6>1
        <5>2. CASE i > k
          <6>1. i - 1 \in 1 .. Len(r) /\ Was(k, i - 1) = i
            BY <2>1, <2>3, <2>4, <5>2 DEF Was
          <6>2. QED
            BY <6>1
        <5>3. QED
          BY <2>1, <2>4, <4>1, <5>1, <5>2
      <4>3. r[p] = y
        BY <2>3, <3>4, <4>2
      <4>4. QED
        BY <3>1, <4>3
    <3>5. QED
      BY <3>1, <3>2, <3>3, <3>4
  <2>9. QED
    BY <2>2, <2>3, <2>7, <2>8
<1>2. CASE ~ \E i \in 1 .. Len(s) : s[i] = e
  <2>1. RemoveFirst(s, e) = s
    BY <1>2 DEF RemoveFirst
  <2>2. e \notin ToSet(s)
    BY <1>2, ElementsOf
  <2>3. QED
    BY <2>1, <2>2
<1>3. QED
  BY <1>1, <1>2

(* RemoveFirst takes out one place, if the element is there.               *)
LEMMA RemoveFirstLength ==
    ASSUME NEW S, NEW s \in Seq(S), NEW e
    PROVE  /\ RemoveFirst(s, e) \in Seq(S)
           /\ ToSet(s) \ {e} \subseteq ToSet(RemoveFirst(s, e))
           /\ ToSet(RemoveFirst(s, e)) \subseteq ToSet(s)
           /\ Len(RemoveFirst(s, e)) = IF e \in ToSet(s) THEN Len(s) - 1 ELSE Len(s)
<1>1. CASE \E i \in 1 .. Len(s) : s[i] = e
  <2> DEFINE k == SelectInSeq(s, LAMBDA v : v = e)
             r == RemoveAt(s, k)
  <2>1. k \in 1 .. Len(s) /\ s[k] = e
    BY <1>1, FirstPosition
  <2>2. RemoveFirst(s, e) = r
    BY <1>1 DEF RemoveFirst
  <2> HIDE DEF k
  <2>3. /\ r \in Seq(S) /\ Len(r) = Len(s) - 1
        /\ \A p \in 1 .. Len(s) - 1 : r[p] = s[Was(k, p)]
    BY <2>1, RemoveAtElements
  <2> HIDE DEF r
  <2>4. Len(s) \in Nat
    OBVIOUS
  <2>5. ASSUME NEW y \in ToSet(r) PROVE y \in ToSet(s)
    <3>1. PICK i \in 1 .. Len(r) : r[i] = y
      BY <2>3, ElementsOf
    <3>2. Was(k, i) \in 1 .. Len(s) /\ s[Was(k, i)] = y
      BY <2>1, <2>3, <2>4, <3>1 DEF Was
    <3>3. QED
      BY <3>2, ElementsOf
  <2>6. ASSUME NEW y \in ToSet(s), y # e PROVE y \in ToSet(r)
    <3>1. PICK i \in 1 .. Len(s) : s[i] = y
      BY ElementsOf
    <3>2. i # k
      BY <2>1, <2>6, <3>1
    <3>3. \E p \in 1 .. Len(r) : Was(k, p) = i
      <4>1. CASE i < k
        <5>1. i \in 1 .. Len(r) /\ Was(k, i) = i
          BY <2>1, <2>3, <2>4, <4>1 DEF Was
        <5>2. QED
          BY <5>1
      <4>2. CASE i > k
        <5>1. i - 1 \in 1 .. Len(r) /\ Was(k, i - 1) = i
          BY <2>1, <2>3, <2>4, <4>2 DEF Was
        <5>2. QED
          BY <5>1
      <4>3. QED
        BY <2>1, <2>4, <3>2, <4>1, <4>2
    <3>4. PICK p \in 1 .. Len(r) : Was(k, p) = i
      BY <3>3
    <3>5. r[p] = y
      BY <2>3, <3>1, <3>4
    <3>6. QED
      BY <2>3, <3>5, ElementsOf
  <2>7. e \in ToSet(s)
    BY <2>1, ElementsOf
  <2>8. QED
    BY <2>2, <2>3, <2>5, <2>6, <2>7
<1>2. CASE ~ \E i \in 1 .. Len(s) : s[i] = e
  <2>1. RemoveFirst(s, e) = s
    BY <1>2 DEF RemoveFirst
  <2>2. e \notin ToSet(s)
    BY <1>2, ElementsOf
  <2>3. QED
    BY <2>1, <2>2
<1>3. QED
  BY <1>1, <1>2

(* Naturals in a sequence are bounded: by induction on how many there are. *)
LEMMA BoundOfElements ==
    ASSUME NEW s \in Seq(Nat)
    PROVE  \E b \in Nat : \A i \in 1 .. Len(s) : s[i] <= b
<1> DEFINE T == {n \in Nat : n <= Len(s) =>
                    \E b \in Nat : \A i \in 1 .. n : s[i] <= b}
<1>1. 0 \in T
  <2>1. 0 \in Nat /\ \A i \in 1 .. 0 : s[i] <= 0
    OBVIOUS
  <2>2. QED
    BY <2>1
<1>2. ASSUME NEW n \in Nat, n \in T PROVE n + 1 \in T
  <2>1. SUFFICES ASSUME n + 1 <= Len(s)
                 PROVE  \E b \in Nat : \A i \in 1 .. n + 1 : s[i] <= b
    OBVIOUS
  <2>2. PICK b \in Nat : \A i \in 1 .. n : s[i] <= b
    BY <1>2, <2>1
  <2>3. s[n + 1] \in Nat /\ \A i \in 1 .. n : s[i] \in Nat
    BY <2>1
  <2>4. PICK c \in Nat : b <= c /\ s[n + 1] <= c
    BY <2>3
  <2>5. ASSUME NEW i \in 1 .. n + 1 PROVE s[i] <= c
    <3>1. CASE i = n + 1
      BY <2>4, <3>1
    <3>2. CASE i # n + 1
      <4>1. i \in 1 .. n
        BY <3>2
      <4>2. s[i] <= b /\ s[i] \in Nat
        BY <2>2, <2>3, <4>1
      <4>3. QED
        BY <2>4, <4>2
    <3>3. QED
      BY <3>1, <3>2
  <2>6. QED
    BY <2>5
<1>3. Nat \subseteq T
  <2> HIDE DEF T
  <2>1. QED
    BY <1>1, <1>2, SetInduction
<1>4. Len(s) \in Nat /\ Len(s) <= Len(s)
  OBVIOUS
<1>5. Len(s) \in T
  BY <1>3, <1>4
<1>6. QED
  BY <1>4, <1>5

(* A sequence is its head and its tail.                                    *)
LEMMA TailElements ==
    ASSUME NEW S, NEW s \in Seq(S), s # <<>>
    PROVE  /\ Head(s) \in S /\ Head(s) = s[1] /\ 1 \in 1 .. Len(s)
           /\ Tail(s) \in Seq(S) /\ Len(Tail(s)) = Len(s) - 1
           /\ \A i \in 1 .. Len(s) - 1 : Tail(s)[i] = s[i + 1]
           /\ ToSet(s) = {Head(s)} \cup ToSet(Tail(s))
<1>1. /\ Head(s) \in S /\ Head(s) = s[1] /\ 1 \in 1 .. Len(s)
      /\ Tail(s) \in Seq(S) /\ Len(Tail(s)) = Len(s) - 1
      /\ \A i \in 1 .. Len(s) - 1 : Tail(s)[i] = s[i + 1]
      /\ Len(s) \in Nat
  OBVIOUS
<1> DEFINE h == Head(s)
           t == Tail(s)
<1> HIDE DEF h, t
<1>2. ASSUME NEW i \in 1 .. Len(s) PROVE s[i] = h \/ s[i] \in ToSet(t)
  <2>1. CASE i = 1
    BY <1>1, <2>1 DEF h
  <2>2. CASE i # 1
    <3>1. i - 1 \in 1 .. Len(t) /\ i - 1 \in 1 .. Len(s) - 1 /\ i - 1 + 1 = i
      BY <1>1, <2>2 DEF t
    <3>2. t[i - 1] = s[i]
      BY <1>1, <3>1 DEF t
    <3>3. QED
      BY <1>1, <3>1, <3>2, ElementsOf DEF t
  <2>3. QED
    BY <2>1, <2>2
<1>3. ASSUME NEW i \in 1 .. Len(t) PROVE t[i] \in ToSet(s)
  <2>1. i + 1 \in 1 .. Len(s) /\ t[i] = s[i + 1]
    BY <1>1 DEF t
  <2>2. QED
    BY <2>1, ElementsOf
<1>4. h \in ToSet(s)
  BY <1>1, ElementsOf DEF h
<1>5. ASSUME NEW y PROVE y \in ToSet(s) <=> y \in {h} \cup ToSet(t)
  <2>1. y \in ToSet(s) <=> \E i \in 1 .. Len(s) : s[i] = y
    BY ElementsOf
  <2>2. y \in ToSet(t) <=> \E i \in 1 .. Len(t) : t[i] = y
    BY <1>1, ElementsOf DEF t
  <2>3. QED
    BY <1>2, <1>3, <1>4, <2>1, <2>2
<1>6. QED
  BY <1>1, <1>5 DEF h, t

(* A first part of a sequence.                                             *)
LEMMA PrefixElements ==
    ASSUME NEW S, NEW s \in Seq(S), NEW n \in 0 .. Len(s)
    PROVE  /\ SubSeq(s, 1, n) \in Seq(S)
           /\ Len(SubSeq(s, 1, n)) = n
           /\ \A i \in 1 .. n : SubSeq(s, 1, n)[i] = s[i] /\ i \in 1 .. Len(s)
           /\ ToSet(SubSeq(s, 1, n)) \subseteq ToSet(s)
<1>1. /\ SubSeq(s, 1, n) \in Seq(S)
      /\ Len(SubSeq(s, 1, n)) = n
      /\ \A i \in 1 .. n : SubSeq(s, 1, n)[i] = s[i] /\ i \in 1 .. Len(s)
  OBVIOUS
<1> DEFINE t == SubSeq(s, 1, n)
<1> HIDE DEF t
<1>2. ASSUME NEW y \in ToSet(t) PROVE y \in ToSet(s)
  <2>1. PICK i \in 1 .. Len(t) : t[i] = y
    BY <1>1, ElementsOf DEF t
  <2>2. i \in 1 .. Len(s) /\ s[i] = y
    BY <1>1, <2>1 DEF t
  <2>3. QED
    BY <2>2, ElementsOf
<1>3. QED
  BY <1>1, <1>2 DEF t

(* SetToSeq lists each element of a finite set.                            *)
LEMMA SetToSeqElements ==
    ASSUME NEW S, IsFiniteSet(S)
    PROVE  SetToSeq(S) \in Seq(S) /\ ToSet(SetToSeq(S)) = S
<1> DEFINE n == Cardinality(S)
           f == SetToSeq(S)
<1>1. n \in Nat /\ ExistsBijection(1 .. n, S)
  BY FS_CardinalityType
<1>2. \E g \in [1 .. n -> S] : IsInjective(g)
  BY <1>1 DEF ExistsBijection, Bijection, Injection, IsInjective
<1>3. f \in [1 .. n -> S] /\ IsInjective(f)
  BY <1>2 DEF SetToSeq
<1>4. f \in Injection(1 .. n, S)
  BY <1>3 DEF Injection, IsInjective
<1>5. Cardinality(1 .. n) = n
  BY <1>1, FS_Interval
<1>6. f \in Surjection(1 .. n, S)
  BY <1>4, <1>5, FS_Injection
<1> HIDE DEF f, n
<1>7. f \in Seq(S) /\ Len(f) = n
  BY <1>1, <1>3
<1>8. ASSUME NEW y PROVE y \in ToSet(f) <=> y \in S
  <2>1. y \in ToSet(f) <=> \E i \in 1 .. Len(f) : f[i] = y
    BY <1>7, ElementsOf
  <2>2. QED
    BY <1>3, <1>6, <1>7, <2>1 DEF Surjection
<1>9. QED
  BY <1>7, <1>8 DEF f
=============================================================================
