---------------------------- MODULE RelocateProofs ----------------------------
(***************************************************************************)
(* The three walks over the relocations and the records the loader         *)
(* applies: for every program, no slot is filled twice, the relative       *)
(* records lead, every use of a slot has it, and what is not reported      *)
(* reaches what it means.                                                  *)
(***************************************************************************)
EXTENDS Relocate, SequenceTheorems, WellFoundedInduction, TLAPS

\* A set of numbers has a least one: what stands here for induction.
LEMMA LeastOf ==
    ASSUME NEW numbers \in SUBSET Nat, numbers # {}
    PROVE  \E x \in numbers : \A y \in numbers : x <= y
<1>1. IsWellFoundedOn(OpToRel(<, Nat), Nat)
  BY NatLessThanWellFounded
<1>2. PICK x \in numbers : \A y \in numbers : ~(<<y, x>> \in OpToRel(<, Nat))
  BY <1>1, WFMin
<1>3. \A y \in numbers : ~(y < x)
  BY <1>2 DEF OpToRel
<1> QED
  BY <1>3

\* Counting up to a number: from m, each one brings the next.
LEMMA CountUp ==
    ASSUME NEW m \in Nat, NEW n \in Nat, NEW reached,
           m \in reached, \A k \in m..(n - 1) : k \in reached => k + 1 \in reached
    PROVE  \A k \in m..n : k \in reached
<1> SUFFICES ASSUME NEW k \in m..n, k \notin reached PROVE FALSE
  OBVIOUS
<1> DEFINE missed == {i \in m..n : i \notin reached}
<1>1. missed # {} /\ missed \in SUBSET Nat
  OBVIOUS
<1>2. PICK x \in missed : \A y \in missed : x <= y
  BY <1>1, LeastOf
<1>3. x # m /\ x - 1 \in m..(n - 1) /\ (x - 1) + 1 = x
  BY <1>2
<1>4. x - 1 \notin missed
  BY <1>2, <1>3
<1>5. x - 1 \in reached
  BY <1>3, <1>4
<1> QED
  BY <1>2, <1>3, <1>5

------------------------------------------------------------------------------
\* Sequences.  No element is in one twice.
NoneTwice(s) == \A i, j \in DOMAIN s : s[i] = s[j] => i = j

\* Pairs by their first number, and those that have it in common by the second.
InOrder(s) == \A i, j \in DOMAIN s : i < j => Earlier(s[i], s[j])

LEMMA AppendIs ==
    ASSUME NEW S, NEW s \in Seq(S), NEW e \in S
    PROVE  /\ Append(s, e) \in Seq(S)
           /\ ToSet(Append(s, e)) = ToSet(s) \union {e}
           /\ NoneTwice(s) /\ e \notin ToSet(s) => NoneTwice(Append(s, e))
           /\ InOrder(s) /\ (\A x \in ToSet(s) : Earlier(x, e)) => InOrder(Append(s, e))
<1>1. /\ Append(s, e) \in Seq(S)
      /\ Len(Append(s, e)) = Len(s) + 1 /\ Len(s) \in Nat
      /\ DOMAIN Append(s, e) = 1..(Len(s) + 1) /\ DOMAIN s = 1..Len(s)
      /\ \A i \in 1..Len(s) : Append(s, e)[i] = s[i]
      /\ Append(s, e)[Len(s) + 1] = e
  BY AppendProperties, LenProperties
<1>2. ToSet(Append(s, e)) = ToSet(s) \union {e}
  <2>1. \A x \in ToSet(Append(s, e)) : x \in ToSet(s) \union {e}
    BY <1>1 DEF ToSet
  <2>2. \A x \in ToSet(s) : x \in ToSet(Append(s, e))
    BY <1>1 DEF ToSet
  <2>3. e \in ToSet(Append(s, e))
    BY <1>1 DEF ToSet
  <2> QED
    BY <2>1, <2>2, <2>3
<1>3. ASSUME NoneTwice(s), e \notin ToSet(s) PROVE NoneTwice(Append(s, e))
  <2> SUFFICES ASSUME NEW i \in 1..(Len(s) + 1), NEW j \in 1..(Len(s) + 1),
                      Append(s, e)[i] = Append(s, e)[j]
               PROVE  i = j
    BY <1>1 DEF NoneTwice
  <2>1. CASE i \in 1..Len(s) /\ j \in 1..Len(s)
    BY <1>1, <1>3, <2>1 DEF NoneTwice
  <2>2. CASE i \in 1..Len(s) /\ j = Len(s) + 1
    BY <1>1, <1>3, <2>2 DEF ToSet
  <2>3. CASE i = Len(s) + 1 /\ j \in 1..Len(s)
    BY <1>1, <1>3, <2>3 DEF ToSet
  <2> QED
    BY <1>1, <2>1, <2>2, <2>3
<1>4. ASSUME InOrder(s), \A x \in ToSet(s) : Earlier(x, e) PROVE InOrder(Append(s, e))
  <2> SUFFICES ASSUME NEW i \in 1..(Len(s) + 1), NEW j \in 1..(Len(s) + 1), i < j
               PROVE  Earlier(Append(s, e)[i], Append(s, e)[j])
    BY <1>1 DEF InOrder
  <2>1. i \in 1..Len(s) /\ (j \in 1..Len(s) \/ j = Len(s) + 1)
    BY <1>1
  <2>2. s[i] \in ToSet(s)
    BY <1>1, <2>1 DEF ToSet
  <2>3. CASE j \in 1..Len(s)
    <3>1. Earlier(s[i], s[j])
      BY <1>1, <1>4, <2>1, <2>3 DEF InOrder
    <3> QED
      BY <1>1, <2>1, <2>3, <3>1
  <2>4. CASE j = Len(s) + 1
    BY <1>1, <1>4, <2>1, <2>2, <2>4
  <2> QED
    BY <2>1, <2>3, <2>4
<1> QED
  BY <1>1, <1>2, <1>3, <1>4

LEMMA ConcatIs ==
    ASSUME NEW S, NEW s \in Seq(S), NEW t \in Seq(S)
    PROVE  /\ s \o t \in Seq(S)
           /\ Len(s \o t) = Len(s) + Len(t)
           /\ \A i \in 1..Len(s) : (s \o t)[i] = s[i]
           /\ \A j \in 1..Len(t) : (s \o t)[Len(s) + j] = t[j]
           /\ ToSet(s \o t) = ToSet(s) \union ToSet(t)
           /\ NoneTwice(s) /\ NoneTwice(t) /\ ToSet(s) \intersect ToSet(t) = {}
                  => NoneTwice(s \o t)
           /\ InOrder(s) /\ InOrder(t) /\ (\A x \in ToSet(s), y \in ToSet(t) : Earlier(x, y))
                  => InOrder(s \o t)
<1>1. Len(s) \in Nat /\ Len(t) \in Nat /\ DOMAIN s = 1..Len(s) /\ DOMAIN t = 1..Len(t)
  BY LenProperties
<1>2. /\ s \o t \in Seq(S)
      /\ Len(s \o t) = Len(s) + Len(t)
      /\ \A i \in 1..(Len(s) + Len(t)) :
             (s \o t)[i] = IF i <= Len(s) THEN s[i] ELSE t[i - Len(s)]
  BY ConcatProperties
<1>3. DOMAIN (s \o t) = 1..(Len(s) + Len(t))
  BY <1>2, LenProperties
<1>4. \A i \in 1..Len(s) : (s \o t)[i] = s[i]
  BY <1>1, <1>2
<1>5. \A j \in 1..Len(t) : (s \o t)[Len(s) + j] = t[j]
  <2> SUFFICES ASSUME NEW j \in 1..Len(t) PROVE (s \o t)[Len(s) + j] = t[j]
    OBVIOUS
  <2>1. Len(s) + j \in 1..(Len(s) + Len(t)) /\ ~(Len(s) + j <= Len(s))
        /\ (Len(s) + j) - Len(s) = j
    BY <1>1
  <2> QED
    BY <1>2, <2>1
<1>6. \A i \in 1..(Len(s) + Len(t)) :
          i \in 1..Len(s) \/ \E j \in 1..Len(t) : i = Len(s) + j
  <2> SUFFICES ASSUME NEW i \in 1..(Len(s) + Len(t)), i \notin 1..Len(s)
               PROVE  \E j \in 1..Len(t) : i = Len(s) + j
    OBVIOUS
  <2>1. i - Len(s) \in 1..Len(t) /\ i = Len(s) + (i - Len(s))
    BY <1>1
  <2> QED
    BY <2>1
<1>7. ToSet(s \o t) = ToSet(s) \union ToSet(t)
  <2>1. \A x \in ToSet(s \o t) : x \in ToSet(s) \union ToSet(t)
    <3> SUFFICES ASSUME NEW i \in 1..(Len(s) + Len(t))
                 PROVE  (s \o t)[i] \in ToSet(s) \union ToSet(t)
      BY <1>3 DEF ToSet
    <3>1. CASE i \in 1..Len(s)
      <4>1. s[i] \in ToSet(s)
        BY <1>1, <3>1 DEF ToSet
      <4> QED
        BY <1>4, <3>1, <4>1
    <3>2. ASSUME NEW j \in 1..Len(t), i = Len(s) + j PROVE (s \o t)[i] \in ToSet(t)
      <4>1. t[j] \in ToSet(t)
        BY <1>1 DEF ToSet
      <4> QED
        BY <1>5, <3>2, <4>1
    <3> QED
      BY <1>6, <3>1, <3>2
  <2>2. \A i \in 1..Len(s) : s[i] \in ToSet(s \o t)
    <3> SUFFICES ASSUME NEW i \in 1..Len(s) PROVE s[i] \in ToSet(s \o t)
      OBVIOUS
    <3>1. i \in DOMAIN (s \o t) /\ (s \o t)[i] = s[i]
      BY <1>1, <1>3, <1>4
    <3> QED
      BY <3>1 DEF ToSet
  <2>3. \A j \in 1..Len(t) : t[j] \in ToSet(s \o t)
    <3> SUFFICES ASSUME NEW j \in 1..Len(t) PROVE t[j] \in ToSet(s \o t)
      OBVIOUS
    <3>1. Len(s) + j \in DOMAIN (s \o t) /\ (s \o t)[Len(s) + j] = t[j]
      BY <1>1, <1>3, <1>5
    <3> QED
      BY <3>1 DEF ToSet
  <2> QED
    BY <1>1, <2>1, <2>2, <2>3 DEF ToSet
<1>8. ASSUME NoneTwice(s), NoneTwice(t), ToSet(s) \intersect ToSet(t) = {}
      PROVE  NoneTwice(s \o t)
  <2> SUFFICES ASSUME NEW i \in 1..(Len(s) + Len(t)), NEW j \in 1..(Len(s) + Len(t)),
                      (s \o t)[i] = (s \o t)[j]
               PROVE  i = j
    BY <1>3 DEF NoneTwice
  <2>1. CASE i \in 1..Len(s) /\ j \in 1..Len(s)
    BY <1>1, <1>4, <1>8, <2>1 DEF NoneTwice
  <2>2. CASE i \in 1..Len(s) /\ j \notin 1..Len(s)
    <3>1. PICK k \in 1..Len(t) : j = Len(s) + k
      BY <1>6, <2>2
    <3>2. s[i] = t[k]
      BY <1>4, <1>5, <2>2, <3>1
    <3> QED
      BY <1>1, <1>8, <2>2, <3>2 DEF ToSet
  <2>3. CASE i \notin 1..Len(s) /\ j \in 1..Len(s)
    <3>1. PICK k \in 1..Len(t) : i = Len(s) + k
      BY <1>6, <2>3
    <3>2. s[j] = t[k]
      BY <1>4, <1>5, <2>3, <3>1
    <3> QED
      BY <1>1, <1>8, <2>3, <3>2 DEF ToSet
  <2>4. CASE i \notin 1..Len(s) /\ j \notin 1..Len(s)
    <3>1. PICK k \in 1..Len(t) : i = Len(s) + k
      BY <1>6, <2>4
    <3>2. PICK l \in 1..Len(t) : j = Len(s) + l
      BY <1>6, <2>4
    <3>3. t[k] = t[l]
      BY <1>5, <3>1, <3>2
    <3> QED
      BY <1>1, <1>8, <3>1, <3>2, <3>3 DEF NoneTwice
  <2> QED
    BY <2>1, <2>2, <2>3, <2>4
<1>9. ASSUME InOrder(s), InOrder(t), \A x \in ToSet(s), y \in ToSet(t) : Earlier(x, y)
      PROVE  InOrder(s \o t)
  <2> SUFFICES ASSUME NEW i \in 1..(Len(s) + Len(t)), NEW j \in 1..(Len(s) + Len(t)), i < j
               PROVE  Earlier((s \o t)[i], (s \o t)[j])
    BY <1>3 DEF InOrder
  <2>1. CASE i \in 1..Len(s) /\ j \in 1..Len(s)
    <3>1. Earlier(s[i], s[j])
      BY <1>1, <1>9, <2>1 DEF InOrder
    <3> QED
      BY <1>4, <2>1, <3>1
  <2>2. CASE i \in 1..Len(s) /\ j \notin 1..Len(s)
    <3>1. PICK k \in 1..Len(t) : j = Len(s) + k
      BY <1>6, <2>2
    <3>2. s[i] \in ToSet(s) /\ t[k] \in ToSet(t)
      BY <1>1, <2>2 DEF ToSet
    <3>3. Earlier(s[i], t[k])
      BY <1>9, <3>2
    <3> QED
      BY <1>4, <1>5, <2>2, <3>1, <3>3
  <2>3. CASE i \notin 1..Len(s)
    <3>1. PICK k \in 1..Len(t) : i = Len(s) + k
      BY <1>6, <2>3
    <3>2. j \notin 1..Len(s)
      BY <1>1, <3>1
    <3>3. PICK l \in 1..Len(t) : j = Len(s) + l
      BY <1>6, <3>2
    <3>4. k < l
      BY <1>1, <3>1, <3>3
    <3>5. Earlier(t[k], t[l])
      BY <1>1, <1>9, <3>4 DEF InOrder
    <3> QED
      BY <1>5, <3>1, <3>3, <3>5
  <2> QED
    BY <2>1, <2>2, <2>3
<1> QED
  BY <1>2, <1>4, <1>5, <1>7, <1>8, <1>9

\* The recursion of Kept, up to a length: f is worked out of itself.
KeptBody(s, set, f, n) ==
    IF n = 0 THEN <<>> ELSE IF s[n] \in set THEN Append(f[n - 1], s[n]) ELSE f[n - 1]

Keeps(s, set, f, m) == f = [n \in 0..m |-> KeptBody(s, set, f, n)]

LEMMA KeepsAt ==
    ASSUME NEW s, NEW set, NEW m, NEW f
    PROVE  Keeps(s, set, f, m)
               <=> /\ f = [n \in 0..m |-> f[n]]
                   /\ \A n \in 0..m : f[n] = KeptBody(s, set, f, n)
<1> DEFINE e(n) == KeptBody(s, set, f, n)
<1> HIDE DEF e
<1>1. f = [n \in 0..m |-> e(n)]
          <=> f = [n \in 0..m |-> f[n]] /\ \A n \in 0..m : f[n] = e(n)
  OBVIOUS
<1> QED
  BY <1>1 DEF e, Keeps

LEMMA KeptDefined ==
    ASSUME NEW S, NEW s \in Seq(S), NEW set
    PROVE  \E f : Keeps(s, set, f, Len(s))
<1> DEFINE solved == {m \in Nat : \E f : Keeps(s, set, f, m)}
<1>1. Len(s) \in Nat
  BY LenProperties
<1>2. 0 \in solved
  <2> DEFINE f == [n \in 0..0 |-> <<>>]
  <2>1. \A n \in 0..0 : n = 0 /\ f[n] = <<>>
    OBVIOUS
  <2>2. f = [n \in 0..0 |-> f[n]]
    OBVIOUS
  <2>3. \A n \in 0..0 : f[n] = KeptBody(s, set, f, n)
    BY <2>1 DEF KeptBody
  <2> HIDE DEF f
  <2>4. Keeps(s, set, f, 0)
    BY <2>2, <2>3, KeepsAt
  <2> QED
    BY <2>4
<1>3. \A k \in 0..(Len(s) - 1) : k \in solved => k + 1 \in solved
  <2> SUFFICES ASSUME NEW k \in 0..(Len(s) - 1), k \in solved PROVE k + 1 \in solved
    OBVIOUS
  <2>1. PICK f : Keeps(s, set, f, k)
    OBVIOUS
  <2> DEFINE g == [n \in 0..(k + 1) |-> IF n = k + 1 THEN KeptBody(s, set, f, n) ELSE f[n]]
  <2>2. k \in Nat
    BY <1>1
  <2>3. \A n \in 0..k : g[n] = f[n] /\ g[n] = KeptBody(s, set, f, n)
    BY <2>1, <2>2, KeepsAt
  <2>4. g[k + 1] = KeptBody(s, set, f, k + 1)
    BY <2>2
  <2>5. g = [n \in 0..(k + 1) |-> g[n]]
    OBVIOUS
  <2> HIDE DEF g
  <2>6. \A n \in 0..(k + 1) : KeptBody(s, set, g, n) = KeptBody(s, set, f, n)
    BY <2>2, <2>3 DEF KeptBody
  <2>7. \A n \in 0..(k + 1) : g[n] = KeptBody(s, set, g, n)
    BY <2>2, <2>3, <2>4, <2>6
  <2>8. Keeps(s, set, g, k + 1)
    BY <2>5, <2>7, KeepsAt
  <2> QED
    BY <2>2, <2>8
<1> HIDE DEF solved
<1>4. \A k \in 0..Len(s) : k \in solved
  BY <1>1, <1>2, <1>3, CountUp
<1>5. Len(s) \in solved
  BY <1>1, <1>4
<1> QED
  BY <1>5 DEF solved

\* What is kept: the elements that are in the set, none of them twice if none
\* was, and in their order.
LEMMA KeptIs ==
    ASSUME NEW S, NEW s \in Seq(S), NEW set
    PROVE  /\ Kept(s, set) \in Seq(S)
           /\ ToSet(Kept(s, set)) = ToSet(s) \intersect set
           /\ NoneTwice(s) => NoneTwice(Kept(s, set))
           /\ InOrder(s) => InOrder(Kept(s, set))
<1> DEFINE kept == CHOOSE f : Keeps(s, set, f, Len(s))
<1>1. Kept(s, set) = kept[Len(s)]
  BY DEF Kept, Keeps, KeptBody
<1>2. \A n \in 0..Len(s) : kept[n] = KeptBody(s, set, kept, n)
  BY KeptDefined, KeepsAt
<1> HIDE DEF kept
<1>3. Len(s) \in Nat /\ DOMAIN s = 1..Len(s) /\ \A i \in 1..Len(s) : s[i] \in S
  BY LenProperties, ElementOfSeq
<1> DEFINE among(n) == {i \in 1..n : s[i] \in set}
           good == {n \in 0..Len(s) :
                       /\ kept[n] \in Seq(S)
                       /\ ToSet(kept[n]) = {s[i] : i \in among(n)}
                       /\ NoneTwice(s) => NoneTwice(kept[n])
                       /\ InOrder(s) => InOrder(kept[n])}
<1>4. 0 \in good
  <2>1. kept[0] = <<>>
    BY <1>2, <1>3 DEF KeptBody
  <2>2. kept[0] \in Seq(S) /\ ToSet(kept[0]) = {} /\ NoneTwice(kept[0]) /\ InOrder(kept[0])
    BY <2>1 DEF ToSet, NoneTwice, InOrder
  <2>3. {s[i] : i \in among(0)} = {}
    OBVIOUS
  <2>4. 0 \in 0..Len(s)
    BY <1>3
  <2> QED
    BY <2>2, <2>3, <2>4
<1>5. \A k \in 0..(Len(s) - 1) : k \in good => k + 1 \in good
  <2> SUFFICES ASSUME NEW k \in 0..(Len(s) - 1), k \in good PROVE k + 1 \in good
    OBVIOUS
  <2>1. k \in Nat /\ k + 1 \in 1..Len(s) /\ (k + 1) - 1 = k
    BY <1>3
  <2>2. CASE s[k + 1] \notin set
    <3>1. kept[k + 1] = kept[k]
      BY <1>2, <2>1, <2>2 DEF KeptBody
    <3>2. among(k + 1) = among(k)
      BY <2>1, <2>2
    <3> QED
      BY <2>1, <3>1, <3>2
  <2>3. CASE s[k + 1] \in set
    <3>1. kept[k + 1] = Append(kept[k], s[k + 1])
      <4>1. kept[k + 1] = KeptBody(s, set, kept, k + 1)
        BY <1>2, <1>3, <2>1
      <4>2. KeptBody(s, set, kept, k + 1) = Append(kept[(k + 1) - 1], s[k + 1])
        <5>1. k + 1 # 0
          BY <2>1
        <5> QED
          BY <2>3, <5>1, Zenon DEF KeptBody
      <4> QED
        BY <2>1, <4>1, <4>2
    <3>2. among(k + 1) = among(k) \union {k + 1}
      BY <2>1, <2>3
    <3>3. {s[i] : i \in among(k + 1)} = {s[i] : i \in among(k)} \union {s[k + 1]}
      BY <3>2
    <3>4. s[k + 1] \in S
      BY <1>3, <2>1
    <3>5. NoneTwice(s) => s[k + 1] \notin ToSet(kept[k])
      <4> SUFFICES ASSUME NoneTwice(s), NEW i \in among(k), s[i] = s[k + 1] PROVE FALSE
        OBVIOUS
      <4>1. i \in DOMAIN s /\ k + 1 \in DOMAIN s /\ i # k + 1
        BY <1>3, <2>1
      <4> QED
        BY <4>1 DEF NoneTwice
    <3>10. InOrder(s) => \A x \in ToSet(kept[k]) : Earlier(x, s[k + 1])
      <4> SUFFICES ASSUME InOrder(s), NEW i \in among(k) PROVE Earlier(s[i], s[k + 1])
        OBVIOUS
      <4>1. i \in DOMAIN s /\ k + 1 \in DOMAIN s /\ i < k + 1
        BY <1>3, <2>1
      <4> QED
        BY <4>1 DEF InOrder
    <3>6. kept[k] \in Seq(S)
      OBVIOUS
    <3>7. /\ kept[k + 1] \in Seq(S)
          /\ ToSet(kept[k + 1]) = ToSet(kept[k]) \union {s[k + 1]}
          /\ NoneTwice(s) => NoneTwice(kept[k + 1])
          /\ InOrder(s) => InOrder(kept[k + 1])
      <4>1. PICK earlier \in Seq(S) : earlier = kept[k]
        BY <3>6
      <4>2. PICK e \in S : e = s[k + 1]
        BY <3>4
      <4>3. /\ Append(earlier, e) \in Seq(S)
            /\ ToSet(Append(earlier, e)) = ToSet(earlier) \union {e}
            /\ NoneTwice(earlier) /\ e \notin ToSet(earlier) => NoneTwice(Append(earlier, e))
            /\ InOrder(earlier) /\ (\A x \in ToSet(earlier) : Earlier(x, e))
                   => InOrder(Append(earlier, e))
        BY ONLY <4>1, <4>2, AppendIs
      <4>4. (NoneTwice(s) => NoneTwice(kept[k])) /\ (InOrder(s) => InOrder(kept[k]))
        BY <2>1
      <4> QED
        BY <3>1, <3>5, <3>10, <4>1, <4>2, <4>3, <4>4
    <3>8. ToSet(kept[k]) = {s[i] : i \in among(k)}
      BY <2>1
    <3>9. ToSet(kept[k + 1]) = {s[i] : i \in among(k + 1)}
      BY <3>3, <3>7, <3>8
    <3> HIDE DEF among
    <3> QED
      BY <2>1, <3>7, <3>9
  <2> QED
    BY <2>2, <2>3
<1> HIDE DEF good
<1>6. \A k \in 0..Len(s) : k \in good
  BY <1>3, <1>4, <1>5, CountUp
<1>7. Len(s) \in good
  BY <1>3, <1>6
<1>8. {s[i] : i \in among(Len(s))} = ToSet(s) \intersect set
  BY <1>3 DEF ToSet
<1> QED
  BY <1>1, <1>7, <1>8 DEF good

\* The recursion of FlattenSeq, in the same way.
FlattenBody(ss, f, i) == IF i = 1 THEN ss[i] ELSE f[i - 1] \o ss[i]

Flattens(ss, f, m) == f = [i \in 1..m |-> FlattenBody(ss, f, i)]

LEMMA FlattensAt ==
    ASSUME NEW ss, NEW m, NEW f
    PROVE  Flattens(ss, f, m)
               <=> /\ f = [i \in 1..m |-> f[i]]
                   /\ \A i \in 1..m : f[i] = FlattenBody(ss, f, i)
<1> DEFINE e(i) == FlattenBody(ss, f, i)
<1> HIDE DEF e
<1>1. f = [i \in 1..m |-> e(i)]
          <=> f = [i \in 1..m |-> f[i]] /\ \A i \in 1..m : f[i] = e(i)
  OBVIOUS
<1> QED
  BY <1>1 DEF e, Flattens

LEMMA FlattenDefined ==
    ASSUME NEW ss, NEW m \in Nat
    PROVE  \E f : Flattens(ss, f, m)
<1> DEFINE solved == {k \in Nat : \E f : Flattens(ss, f, k)}
<1>1. 0 \in solved
  <2> DEFINE f == [i \in 1..0 |-> <<>>]
  <2>1. f = [i \in 1..0 |-> f[i]] /\ \A i \in 1..0 : f[i] = FlattenBody(ss, f, i)
    OBVIOUS
  <2> HIDE DEF f
  <2>2. Flattens(ss, f, 0)
    BY <2>1, FlattensAt
  <2> QED
    BY <2>2
<1>2. \A k \in 0..(m - 1) : k \in solved => k + 1 \in solved
  <2> SUFFICES ASSUME NEW k \in 0..(m - 1), k \in solved PROVE k + 1 \in solved
    OBVIOUS
  <2>1. PICK f : Flattens(ss, f, k)
    OBVIOUS
  <2> DEFINE g == [i \in 1..(k + 1) |-> IF i = k + 1 THEN FlattenBody(ss, f, i) ELSE f[i]]
  <2>2. k \in Nat
    OBVIOUS
  <2>3. \A i \in 1..k : g[i] = f[i] /\ g[i] = FlattenBody(ss, f, i)
    BY <2>1, <2>2, FlattensAt
  <2>4. g[k + 1] = FlattenBody(ss, f, k + 1)
    BY <2>2
  <2>5. g = [i \in 1..(k + 1) |-> g[i]]
    OBVIOUS
  <2> HIDE DEF g
  <2>6. \A i \in 1..(k + 1) : FlattenBody(ss, g, i) = FlattenBody(ss, f, i)
    <3> SUFFICES ASSUME NEW i \in 1..(k + 1)
                 PROVE  FlattenBody(ss, g, i) = FlattenBody(ss, f, i)
      OBVIOUS
    <3>1. CASE i = 1
      BY <3>1 DEF FlattenBody
    <3>2. CASE i # 1
      <4>1. g[i - 1] = f[i - 1]
        BY <2>2, <2>3, <3>2
      <4> QED
        BY <3>2, <4>1 DEF FlattenBody
    <3> QED
      BY <3>1, <3>2
  <2>7. \A i \in 1..(k + 1) : g[i] = FlattenBody(ss, g, i)
    BY <2>2, <2>3, <2>4, <2>6
  <2>8. Flattens(ss, g, k + 1)
    BY <2>5, <2>7, FlattensAt
  <2> QED
    BY <2>2, <2>8
<1> HIDE DEF solved
<1>3. \A k \in 0..m : k \in solved
  BY <1>1, <1>2, CountUp
<1>4. m \in solved
  BY <1>3
<1> QED
  BY <1>4 DEF solved

\* No element is in two places of a sequence of sequences.
NoneShared(ss) ==
    \A o, p \in DOMAIN ss : \A j \in DOMAIN ss[o], k \in DOMAIN ss[p] :
        ss[o][j] = ss[p][k] => o = p /\ j = k

\* The sequences are in order, and each is in front of those behind it.
EachInOrder(ss) ==
    /\ \A o \in DOMAIN ss : InOrder(ss[o])
    /\ \A o, p \in DOMAIN ss : o < p =>
           \A x \in ToSet(ss[o]), y \in ToSet(ss[p]) : Earlier(x, y)

LEMMA FlattenIs ==
    ASSUME NEW S, NEW ss \in Seq(Seq(S))
    PROVE  /\ FlattenSeq(ss) \in Seq(S)
           /\ ToSet(FlattenSeq(ss)) = UNION {ToSet(ss[o]) : o \in DOMAIN ss}
           /\ NoneShared(ss) => NoneTwice(FlattenSeq(ss))
           /\ EachInOrder(ss) => InOrder(FlattenSeq(ss))
<1>1. Len(ss) \in Nat /\ DOMAIN ss = 1..Len(ss) /\ \A i \in 1..Len(ss) : ss[i] \in Seq(S)
  BY LenProperties, ElementOfSeq
<1>2. CASE Len(ss) = 0
  <2>1. ss = <<>>
    BY <1>2, EmptySeq
  <2>2. FlattenSeq(ss) = <<>>
    BY <1>2, <2>1 DEF FlattenSeq
  <2>3. DOMAIN ss = {}
    BY <1>1, <1>2
  <2> QED
    BY <2>2, <2>3 DEF ToSet, NoneTwice, InOrder
<1>3. CASE Len(ss) # 0
  <2> DEFINE flat == CHOOSE f : Flattens(ss, f, Len(ss))
  <2>1. FlattenSeq(ss) = flat[Len(ss)]
    BY <1>3 DEF FlattenSeq, Flattens, FlattenBody
  <2>2. \A i \in 1..Len(ss) : flat[i] = FlattenBody(ss, flat, i)
    BY <1>1, FlattenDefined, FlattensAt
  <2> HIDE DEF flat
  <2> DEFINE upTo(n) == UNION {ToSet(ss[o]) : o \in 1..n}
             good == {n \in 1..Len(ss) :
                         /\ flat[n] \in Seq(S)
                         /\ ToSet(flat[n]) = upTo(n)
                         /\ NoneShared(ss) => NoneTwice(flat[n])
                         /\ EachInOrder(ss) => InOrder(flat[n])}
  <2>3. \A o \in DOMAIN ss : NoneShared(ss) => NoneTwice(ss[o])
    BY DEF NoneShared, NoneTwice
  <2>4. 1 \in good
    <3>1. 1 \in 1..Len(ss)
      BY <1>1, <1>3
    <3>2. flat[1] = ss[1]
      BY <2>2, <3>1 DEF FlattenBody
    <3>3. upTo(1) = ToSet(ss[1])
      <4>1. 1..1 = {1}
        OBVIOUS
      <4> QED
        BY <4>1
    <3>4. NoneShared(ss) => NoneTwice(ss[1])
      BY <1>1, <2>3, <3>1
    <3>5. EachInOrder(ss) => InOrder(ss[1])
      BY <1>1, <3>1 DEF EachInOrder
    <3> QED
      BY <1>1, <3>1, <3>2, <3>3, <3>4, <3>5
  <2>5. \A k \in 1..(Len(ss) - 1) : k \in good => k + 1 \in good
    <3> SUFFICES ASSUME NEW k \in 1..(Len(ss) - 1), k \in good PROVE k + 1 \in good
      OBVIOUS
    <3>1. k + 1 \in 1..Len(ss) /\ (k + 1) - 1 = k /\ k + 1 # 1
      BY <1>1
    <3>2. flat[k + 1] = flat[k] \o ss[k + 1]
      <4>1. flat[k + 1] = FlattenBody(ss, flat, k + 1)
        BY <2>2, <3>1
      <4> QED
        BY <3>1, <4>1, Zenon DEF FlattenBody
    <3>3. upTo(k + 1) = upTo(k) \union ToSet(ss[k + 1])
      <4>1. 1..(k + 1) = 1..k \union {k + 1}
        BY <1>1
      <4> QED
        BY <4>1
    <3>4. NoneShared(ss) => ToSet(flat[k]) \intersect ToSet(ss[k + 1]) = {}
      <4> SUFFICES ASSUME NoneShared(ss), NEW x \in ToSet(flat[k]), x \in ToSet(ss[k + 1])
                   PROVE  FALSE
        OBVIOUS
      <4>3. PICK o \in 1..k : x \in ToSet(ss[o])
        OBVIOUS
      <4>4. PICK j \in DOMAIN ss[o] : x = ss[o][j]
        BY <4>3 DEF ToSet
      <4>5. PICK i \in DOMAIN ss[k + 1] : x = ss[k + 1][i]
        BY DEF ToSet
      <4>1. o \in DOMAIN ss /\ k + 1 \in DOMAIN ss /\ o # k + 1
        BY <1>1, <3>1
      <4> QED
        BY <4>1, <4>4, <4>5 DEF NoneShared
    <3>5. NoneShared(ss) => NoneTwice(ss[k + 1])
      BY <1>1, <2>3, <3>1
    <3>8. EachInOrder(ss) =>
              \A x \in ToSet(flat[k]), y \in ToSet(ss[k + 1]) : Earlier(x, y)
      <4> SUFFICES ASSUME EachInOrder(ss), NEW x \in ToSet(flat[k]), NEW y \in ToSet(ss[k + 1])
                   PROVE  Earlier(x, y)
        OBVIOUS
      <4>1. PICK o \in 1..k : x \in ToSet(ss[o])
        OBVIOUS
      <4>2. o \in DOMAIN ss /\ k + 1 \in DOMAIN ss /\ o < k + 1
        BY <1>1, <3>1
      <4> QED
        BY <4>1, <4>2 DEF EachInOrder
    <3>9. EachInOrder(ss) => InOrder(ss[k + 1])
      BY <1>1, <3>1 DEF EachInOrder
    <3>6. flat[k] \in Seq(S) /\ ss[k + 1] \in Seq(S)
      BY <1>1, <3>1
    <3>7. /\ flat[k + 1] \in Seq(S)
          /\ ToSet(flat[k + 1]) = ToSet(flat[k]) \union ToSet(ss[k + 1])
          /\ NoneShared(ss) => NoneTwice(flat[k + 1])
          /\ EachInOrder(ss) => InOrder(flat[k + 1])
      BY <3>2, <3>4, <3>5, <3>6, <3>8, <3>9, ConcatIs
    <3> QED
      BY <3>1, <3>3, <3>7
  <2> HIDE DEF good
  <2>6. \A k \in 1..Len(ss) : k \in good
    BY <1>1, <2>4, <2>5, CountUp
  <2>7. Len(ss) \in good
    BY <1>1, <1>3, <2>6
  <2> QED
    BY <1>1, <2>1, <2>7 DEF good
<1> QED
  BY <1>2, <1>3

\* Two nested loops meet every pair, each of them once and in order.
LEMMA InLoopsIs ==
    ASSUME NEW counts, NEW n \in Nat, DOMAIN counts = 1..n,
           \A o \in 1..n : counts[o] \in Nat
    PROVE  /\ InLoops(counts) \in Seq(Nat \X Nat)
           /\ \A s : s \in ToSet(InLoops(counts))
                  <=> \E o \in 1..n : \E k \in 1..counts[o] : s = <<o, k>>
           /\ NoneTwice(InLoops(counts))
           /\ InOrder(InLoops(counts))
<1> DEFINE ss == [o \in 1..n |-> [k \in 1..counts[o] |-> <<o, k>>]]
<1>1. InLoops(counts) = FlattenSeq(ss)
  BY DEF InLoops
<1>2. \A o \in 1..n : ss[o] \in Seq(Nat \X Nat)
  <2> SUFFICES ASSUME NEW o \in 1..n
               PROVE  [k \in 1..counts[o] |-> <<o, k>>] \in Seq(Nat \X Nat)
    OBVIOUS
  <2>1. \A k \in 1..counts[o] : <<o, k>> \in Nat \X Nat
    OBVIOUS
  <2>2. PICK m \in Nat : m = counts[o]
    OBVIOUS
  <2> QED
    BY <2>1, <2>2
<1>3. ss \in Seq(Seq(Nat \X Nat)) /\ DOMAIN ss = 1..n
  BY <1>2
<1>4. \A o \in 1..n : DOMAIN ss[o] = 1..counts[o] /\ \A k \in 1..counts[o] : ss[o][k] = <<o, k>>
  OBVIOUS
<1> HIDE DEF ss
<1>5. NoneShared(ss)
  <2> SUFFICES ASSUME NEW o \in 1..n, NEW p \in 1..n, NEW j \in DOMAIN ss[o],
                      NEW k \in DOMAIN ss[p], ss[o][j] = ss[p][k]
               PROVE  o = p /\ j = k
    BY <1>3 DEF NoneShared
  <2>1. ss[o][j] = <<o, j>> /\ ss[p][k] = <<p, k>>
    BY <1>4
  <2>2. <<o, j>> = <<p, k>>
    BY <2>1
  <2>3. <<o, j>>[1] = <<p, k>>[1] /\ <<o, j>>[2] = <<p, k>>[2]
    BY <2>2
  <2> QED
    BY <2>3
<1>6. /\ FlattenSeq(ss) \in Seq(Nat \X Nat)
      /\ ToSet(FlattenSeq(ss)) = UNION {ToSet(ss[o]) : o \in DOMAIN ss}
      /\ NoneTwice(FlattenSeq(ss))
  BY <1>3, <1>5, FlattenIs
<1>7. \A s : s \in ToSet(FlattenSeq(ss))
                 <=> \E o \in 1..n : \E k \in 1..counts[o] : s = <<o, k>>
  <2>1. \A s : s \in ToSet(FlattenSeq(ss)) <=> \E o \in 1..n : s \in ToSet(ss[o])
    BY <1>3, <1>6
  <2>2. ASSUME NEW o \in 1..n, NEW s
        PROVE  s \in ToSet(ss[o]) <=> \E k \in 1..counts[o] : s = <<o, k>>
    <3>1. ToSet(ss[o]) = {ss[o][k] : k \in 1..counts[o]}
      BY <1>4 DEF ToSet
    <3> QED
      BY <1>4, <3>1
  <2> QED
    BY <2>1, <2>2
<1>8. EachInOrder(ss)
  <2>1. ASSUME NEW o \in 1..n PROVE InOrder(ss[o])
    <3> SUFFICES ASSUME NEW j \in 1..counts[o], NEW k \in 1..counts[o], j < k
                 PROVE  Earlier(ss[o][j], ss[o][k])
      BY <1>4 DEF InOrder
    <3>1. ss[o][j] = <<o, j>> /\ ss[o][k] = <<o, k>>
      BY <1>4
    <3>2. Earlier(<<o, j>>, <<o, k>>)
      BY DEF Earlier
    <3> QED
      BY <3>1, <3>2
  <2>2. ASSUME NEW o \in 1..n, NEW p \in 1..n, o < p, NEW x \in ToSet(ss[o]), NEW y \in ToSet(ss[p])
        PROVE  Earlier(x, y)
    <3>1. PICK j \in 1..counts[o] : x = <<o, j>>
      BY <1>4 DEF ToSet
    <3>2. PICK k \in 1..counts[p] : y = <<p, k>>
      BY <1>4 DEF ToSet
    <3> QED
      BY <2>2, <3>1, <3>2 DEF Earlier
  <2> QED
    BY <1>3, <2>1, <2>2 DEF EachInOrder
<1>9. InOrder(FlattenSeq(ss))
  BY <1>3, <1>8, FlattenIs
<1> QED
  BY <1>1, <1>6, <1>7, <1>9

------------------------------------------------------------------------------
\* What is read of a file: well-typed symbols and relocations.
LEMMA GreatestOf ==
    ASSUME NEW n \in Nat, NEW numbers \in SUBSET (1..n), numbers # {}
    PROVE  \E x \in numbers : \A y \in numbers : x >= y
<1> DEFINE rests == {n - x : x \in numbers}
<1>1. rests \in SUBSET Nat /\ rests # {}
  <2>1. \A x \in numbers : x \in 1..n /\ n - x \in Nat
    OBVIOUS
  <2>2. \A r \in rests : r \in Nat
    BY <2>1
  <2>3. PICK x \in numbers : TRUE
    OBVIOUS
  <2>4. n - x \in rests
    BY <2>3
  <2> QED
    BY <2>2, <2>4
<1>2. PICK r \in rests : \A t \in rests : r <= t
  BY <1>1, LeastOf
<1>3. PICK x \in numbers : r = n - x
  OBVIOUS
<1>4. \A y \in numbers : n - x <= n - y
  BY <1>2, <1>3
<1> QED
  BY <1>4

LEMMA SectionsAre ==
    ASSUME NEW file \in File, NEW i \in DOMAIN file
    PROVE  /\ file[i].region \in Region /\ file[i].sh_info \in Nat
           /\ file[i].sh_type = "SYMTAB" => file[i].entries \in Seq(RawSymbol)
           /\ file[i].sh_type = "RELA" => file[i].entries \in Seq(RawRela)
<1>1. file[i] \in RawSection("SYMTAB", Seq(RawSymbol)) \union RawSection("RELA", Seq(RawRela))
                      \union RawSection("OTHER", {<<>>})
  BY ElementOfSeq, LenProperties DEF File
<1>2. CASE file[i] \in RawSection("SYMTAB", Seq(RawSymbol))
  BY <1>2 DEF RawSection
<1>3. CASE file[i] \in RawSection("RELA", Seq(RawRela))
  BY <1>3 DEF RawSection
<1>4. CASE file[i] \in RawSection("OTHER", {<<>>})
  BY <1>4 DEF RawSection
<1> QED
  BY <1>1, <1>2, <1>3, <1>4

LEMMA SymbolsRead ==
    ASSUME NEW file \in File
    PROVE  ReadSymbols(file) \in Seq(Symbol)
<1> DEFINE I == {i \in 1..Len(file) : file[i].sh_type = "SYMTAB"}
           symtab == SelectLastInSeq(file, LAMBDA s : s.sh_type = "SYMTAB")
<1>1. Len(file) \in Nat /\ DOMAIN file = 1..Len(file)
  BY LenProperties DEF File
<1>2. CASE I = {}
  <2>1. symtab = 0
    BY <1>2 DEF SelectLastInSeq
  <2>2. ReadSymbols(file) = <<>>
    BY <2>1 DEF ReadSymbols
  <2> QED
    BY <2>2
<1>3. CASE I # {}
  <2>1. symtab = CHOOSE x \in I : \A y \in I : x >= y
    BY <1>3 DEF SelectLastInSeq, Max
  <2>2. \E x \in I : \A y \in I : x >= y
    BY <1>1, <1>3, GreatestOf
  <2>3. symtab \in I
    BY <2>1, <2>2
  <2> HIDE DEF symtab
  <2>4. symtab # 0 /\ symtab \in DOMAIN file /\ file[symtab].entries \in Seq(RawSymbol)
    BY <1>1, <2>3, SectionsAre
  <2>5. ReadSymbols(file) =
            [j \in DOMAIN file[symtab].entries |-> ReadSymbol(file[symtab].entries[j])]
    BY <2>4 DEF ReadSymbols, symtab
  <2>6. PICK entries \in Seq(RawSymbol) : entries = file[symtab].entries
    BY <2>4
  <2>7. \A j \in DOMAIN entries : ReadSymbol(entries[j]) \in Symbol
    <3> SUFFICES ASSUME NEW raw \in RawSymbol PROVE ReadSymbol(raw) \in Symbol
      BY <2>6, ElementOfSeq, LenProperties
    <3>1. BindOf(raw.st_bind) \in Bind
      BY DEF BindOf, Bind
    <3>2. raw.st_name \in Name \union {NoName} /\ raw.st_shndx \in Nat
      BY DEF RawSymbol
    <3> QED
      BY <3>1, <3>2 DEF ReadSymbol, Symbol, SymbolType
  <2>8. PICK n \in Nat : n = Len(entries) /\ DOMAIN entries = 1..n
    BY <2>6, LenProperties
  <2> QED
    BY <2>5, <2>6, <2>7, <2>8
<1> QED
  BY <1>2, <1>3

\* The relocations, but for their sections: those are numbers of sections only in
\* a well-formed file.
RawReloc == [sym : Nat \ {0}, r_type : RelocType, target_section : Nat, op : Opcode]

LEMMA RelocsRead ==
    ASSUME NEW file \in File
    PROVE  ReadRelocs(file) \in Seq(RawReloc)
<1> DEFINE of(i) == IF file[i].sh_type # "RELA" THEN <<>>
                    ELSE [j \in DOMAIN file[i].entries |-> ReadReloc(file[i].entries[j], file[i])]
           ss == [i \in DOMAIN file |-> of(i)]
<1>1. \A i \in DOMAIN file : of(i) \in Seq(RawReloc)
  <2> SUFFICES ASSUME NEW i \in DOMAIN file, file[i].sh_type = "RELA"
               PROVE  [j \in DOMAIN file[i].entries |-> ReadReloc(file[i].entries[j], file[i])]
                          \in Seq(RawReloc)
    OBVIOUS
  <2>1. file[i].sh_info \in Nat /\ file[i].entries \in Seq(RawRela)
    BY SectionsAre
  <2>2. PICK entries \in Seq(RawRela) : entries = file[i].entries
    BY <2>1
  <2>3. \A j \in DOMAIN entries : ReadReloc(entries[j], file[i]) \in RawReloc
    <3> SUFFICES ASSUME NEW raw \in RawRela PROVE ReadReloc(raw, file[i]) \in RawReloc
      BY <2>2, ElementOfSeq, LenProperties
    <3>1. raw.r_sym \in Nat /\ raw.r_type \in RelocType /\ raw.op \in Opcode
      BY DEF RawRela
    <3>2. raw.r_sym + 1 \in Nat \ {0}
      BY <3>1
    <3> QED
      BY <2>1, <3>1, <3>2 DEF ReadReloc, RawReloc
  <2>4. PICK n \in Nat : n = Len(entries) /\ DOMAIN entries = 1..n
    BY <2>2, LenProperties
  <2> QED
    BY <2>2, <2>3, <2>4
<1> HIDE DEF of
<1>2. PICK n \in Nat : n = Len(file) /\ DOMAIN file = 1..n
  BY LenProperties DEF File
<1>3. ss \in Seq(Seq(RawReloc))
  BY <1>1, <1>2
<1>4. ReadRelocs(file) = FlattenSeq(ss)
  BY DEF ReadRelocs, of
<1> QED
  BY <1>3, <1>4, FlattenIs

LEMMA ObjectRead ==
    ASSUME NEW file \in File, WellFormed(elf_object_read(file))
    PROVE  elf_object_read(file) \in Object
<1> DEFINE object == elf_object_read(file)
<1>1. object = [symbols |-> object.symbols, regions |-> object.regions, relocs |-> object.relocs]
      /\ object.symbols = ReadSymbols(file) /\ object.relocs = ReadRelocs(file)
      /\ object.regions = [i \in DOMAIN file |-> file[i].region]
  BY DEF elf_object_read
<1>2. PICK n \in Nat : n = Len(file) /\ DOMAIN file = 1..n
  BY LenProperties DEF File
<1>3. object.regions \in Seq(Region) /\ DOMAIN object.regions = 1..n
  BY <1>1, <1>2, SectionsAre
<1>4. object.symbols \in Seq(Symbol)
  BY <1>1, SymbolsRead
<1>5. object.relocs \in Seq(RawReloc)
  BY <1>1, RelocsRead
<1>6. \A k \in DOMAIN object.relocs : object.relocs[k].target_section \in 1..n
  BY <1>3 DEF WellFormed
<1>7. object.relocs \in Seq(Reloc)
  <2>1. PICK m \in Nat : m = Len(object.relocs) /\ DOMAIN object.relocs = 1..m
    BY <1>5, LenProperties
  <2>2. \A k \in 1..m : object.relocs[k] \in Reloc
    <3> SUFFICES ASSUME NEW k \in 1..m PROVE object.relocs[k] \in Reloc
      OBVIOUS
    <3>1. object.relocs[k] \in RawReloc /\ object.relocs[k].target_section \in Nat \ {0}
      BY <1>5, <1>6, <2>1, ElementOfSeq
    <3> QED
      BY <3>1 DEF RawReloc, Reloc
  <2>3. object.relocs = [k \in 1..m |-> object.relocs[k]]
    BY <1>5, <2>1
  <2> QED
    BY <2>2, <2>3
<1> HIDE DEF object
<1>8. object \in Object
  BY <1>1, <1>3, <1>4, <1>7 DEF Object
<1> QED
  BY <1>8 DEF object

\* What stays true of the objects: they are well formed.
Linked ==
    /\ program \in Seq(Object)
    /\ \A o \in DOMAIN program : WellFormed(program[o])

LEMMA LinkedAtFirst == Init => Linked
<1> SUFFICES ASSUME NEW files \in Program, program = Read(files) PROVE Linked
  BY DEF Init
<1>1. files \in Seq(File) /\ \A o \in DOMAIN files : WellFormed(elf_object_read(files[o]))
  BY ProgramAssumption
<1>2. PICK n \in Nat : n = Len(files) /\ DOMAIN files = 1..n
  BY <1>1, LenProperties
<1>3. \A o \in 1..n : files[o] \in File
  BY <1>1, <1>2, ElementOfSeq
<1>4. program = [o \in 1..n |-> elf_object_read(files[o])]
  BY <1>2 DEF Read
<1>5. \A o \in 1..n : elf_object_read(files[o]) \in Object
  BY <1>1, <1>2, <1>3, ObjectRead
<1>6. program \in Seq(Object)
  BY <1>4, <1>5
<1>7. \A o \in DOMAIN program : WellFormed(program[o])
  BY <1>1, <1>2, <1>4
<1> QED
  BY <1>6, <1>7 DEF Linked

------------------------------------------------------------------------------
\* The walks go over what the objects have.
LEMMA ProgramIs ==
    ASSUME Linked
    PROVE  \E n \in Nat :
               /\ DOMAIN program = 1..n
               /\ \A o \in 1..n :
                      /\ WellFormed(program[o])
                      /\ program[o].symbols \in Seq(Symbol)
                      /\ program[o].relocs \in Seq(Reloc)
                      /\ program[o].regions \in Seq(Region)
                      /\ DOMAIN program[o].symbols = 1..Len(program[o].symbols)
                      /\ DOMAIN program[o].relocs = 1..Len(program[o].relocs)
                      /\ Len(program[o].symbols) \in Nat /\ Len(program[o].relocs) \in Nat
<1>1. PICK n \in Nat : n = Len(program) /\ DOMAIN program = 1..n
  BY LenProperties DEF Linked
<1>2. \A o \in 1..n : program[o] \in Object /\ WellFormed(program[o])
  BY <1>1, ElementOfSeq DEF Linked
<1>3. ASSUME NEW o \in 1..n
      PROVE  /\ program[o].symbols \in Seq(Symbol)
             /\ program[o].relocs \in Seq(Reloc)
             /\ program[o].regions \in Seq(Region)
  BY <1>2 DEF Object
<1> QED
  BY <1>1, <1>2, <1>3, LenProperties

LEMMA SymbolsAre ==
    ASSUME Linked
    PROVE  /\ Symbols \in Seq(Nat \X Nat)
           /\ NoneTwice(Symbols) /\ InOrder(Symbols)
           /\ \A s \in ToSet(Symbols) :
                  /\ s = <<s[1], s[2]>> /\ s[1] \in Nat /\ s[2] \in Nat
                  /\ s[1] \in DOMAIN program /\ s[2] \in DOMAIN program[s[1]].symbols
                  /\ SymbolAt(s) \in Symbol
           /\ \A o \in DOMAIN program : \A j \in DOMAIN program[o].symbols :
                  <<o, j>> \in ToSet(Symbols)
<1>1. PICK n \in Nat :
          /\ DOMAIN program = 1..n
          /\ \A o \in 1..n :
                 /\ program[o].symbols \in Seq(Symbol)
                 /\ DOMAIN program[o].symbols = 1..Len(program[o].symbols)
                 /\ Len(program[o].symbols) \in Nat
  BY ProgramIs
<1> DEFINE counts == [o \in DOMAIN program |-> Len(program[o].symbols)]
<1>2. DOMAIN counts = 1..n /\ \A o \in 1..n : counts[o] = Len(program[o].symbols)
  BY <1>1
<1>3. Symbols = InLoops(counts)
  BY DEF Symbols
<1> HIDE DEF counts
<1>4. /\ Symbols \in Seq(Nat \X Nat)
      /\ \A s : s \in ToSet(Symbols) <=> \E o \in 1..n : \E k \in 1..counts[o] : s = <<o, k>>
      /\ NoneTwice(Symbols) /\ InOrder(Symbols)
  <2>1. \A o \in 1..n : counts[o] \in Nat
    BY <1>1, <1>2
  <2>2. DOMAIN counts = 1..n
    BY <1>2
  <2>3. /\ InLoops(counts) \in Seq(Nat \X Nat)
        /\ \A s : s \in ToSet(InLoops(counts)) <=> \E o \in 1..n : \E k \in 1..counts[o] : s = <<o, k>>
        /\ NoneTwice(InLoops(counts)) /\ InOrder(InLoops(counts))
    BY <2>1, <2>2, InLoopsIs
  <2> QED
    BY <1>3, <2>3
<1>5. ASSUME NEW s \in ToSet(Symbols)
      PROVE  /\ s = <<s[1], s[2]>> /\ s[1] \in Nat /\ s[2] \in Nat
             /\ s[1] \in DOMAIN program /\ s[2] \in DOMAIN program[s[1]].symbols
             /\ SymbolAt(s) \in Symbol
  <2>1. PICK o \in 1..n : \E k \in 1..counts[o] : s = <<o, k>>
    BY <1>4
  <2>2. PICK k \in 1..counts[o] : s = <<o, k>>
    BY <2>1
  <2>3. s[1] = o /\ s[2] = k /\ k \in DOMAIN program[o].symbols /\ k \in Nat
    BY <1>1, <1>2, <2>2
  <2>4. program[o].symbols[k] \in Symbol
    BY <1>1, <2>3, ElementOfSeq
  <2> QED
    BY <1>1, <2>2, <2>3, <2>4 DEF SymbolAt
<1>6. ASSUME NEW o \in DOMAIN program, NEW j \in DOMAIN program[o].symbols
      PROVE  <<o, j>> \in ToSet(Symbols)
  <2>1. o \in 1..n /\ j \in 1..counts[o]
    BY <1>1, <1>2
  <2> QED
    BY <1>4, <2>1
<1> QED
  BY <1>4, <1>5, <1>6

LEMMA ReferencesAre ==
    ASSUME Linked
    PROVE  /\ References \in Seq(Nat \X Nat)
           /\ Len(References) \in Nat /\ DOMAIN References = 1..Len(References)
           /\ NoneTwice(References)
           /\ \A ref \in ToSet(References) :
                  /\ ref = <<ref[1], ref[2]>> /\ ref[1] \in Nat /\ ref[2] \in Nat
                  /\ ref[1] \in DOMAIN program /\ ref[2] \in DOMAIN program[ref[1]].relocs
                  /\ RelocOf(ref) \in Reloc
                  /\ RelocOf(ref).sym \in DOMAIN program[ref[1]].symbols
                  /\ <<ref[1], RelocOf(ref).sym>> \in ToSet(Symbols)
                  /\ SymbolOf(ref) = SymbolAt(<<ref[1], RelocOf(ref).sym>>)
                  /\ SymbolOf(ref) \in Symbol
                  /\ RegionOf(ref) \in Region
<1>1. PICK n \in Nat :
          /\ DOMAIN program = 1..n
          /\ \A o \in 1..n :
                 /\ WellFormed(program[o])
                 /\ program[o].relocs \in Seq(Reloc)
                 /\ program[o].regions \in Seq(Region)
                 /\ DOMAIN program[o].relocs = 1..Len(program[o].relocs)
                 /\ Len(program[o].relocs) \in Nat
  BY ProgramIs
<1> DEFINE counts == [o \in DOMAIN program |-> Len(program[o].relocs)]
<1>2. DOMAIN counts = 1..n /\ \A o \in 1..n : counts[o] = Len(program[o].relocs)
  BY <1>1
<1>3. References = InLoops(counts)
  BY DEF References
<1> HIDE DEF counts
<1>4. /\ References \in Seq(Nat \X Nat)
      /\ \A s : s \in ToSet(References) <=> \E o \in 1..n : \E k \in 1..counts[o] : s = <<o, k>>
      /\ NoneTwice(References)
  <2>1. \A o \in 1..n : counts[o] \in Nat
    BY <1>1, <1>2
  <2>2. DOMAIN counts = 1..n
    BY <1>2
  <2>3. /\ InLoops(counts) \in Seq(Nat \X Nat)
        /\ \A s : s \in ToSet(InLoops(counts)) <=> \E o \in 1..n : \E k \in 1..counts[o] : s = <<o, k>>
        /\ NoneTwice(InLoops(counts))
    BY <2>1, <2>2, InLoopsIs
  <2> QED
    BY <1>3, <2>3
<1>5. ASSUME NEW ref \in ToSet(References)
      PROVE  /\ ref = <<ref[1], ref[2]>> /\ ref[1] \in Nat /\ ref[2] \in Nat
             /\ ref[1] \in DOMAIN program /\ ref[2] \in DOMAIN program[ref[1]].relocs
             /\ RelocOf(ref) \in Reloc
             /\ RelocOf(ref).sym \in DOMAIN program[ref[1]].symbols
             /\ <<ref[1], RelocOf(ref).sym>> \in ToSet(Symbols)
             /\ SymbolOf(ref) = SymbolAt(<<ref[1], RelocOf(ref).sym>>)
             /\ SymbolOf(ref) \in Symbol
             /\ RegionOf(ref) \in Region
  <2>1. PICK o \in 1..n : \E k \in 1..counts[o] : ref = <<o, k>>
    BY <1>4
  <2>2. PICK k \in 1..counts[o] : ref = <<o, k>>
    BY <2>1
  <2>3. ref[1] = o /\ ref[2] = k /\ k \in DOMAIN program[o].relocs /\ k \in Nat
    BY <1>1, <1>2, <2>2
  <2>4. program[o].relocs[k] \in Reloc
    BY <1>1, <2>3, ElementOfSeq
  <2>5. RelocOf(ref) = program[o].relocs[k]
    BY <2>3 DEF RelocOf
  <2>6. /\ RelocOf(ref).sym \in DOMAIN program[o].symbols
        /\ RelocOf(ref).target_section \in DOMAIN program[o].regions
    BY <1>1, <2>3, <2>5 DEF WellFormed
  <2>7. <<o, RelocOf(ref).sym>> \in ToSet(Symbols)
    BY <1>1, <2>6, SymbolsAre
  <2>8. SymbolOf(ref) = SymbolAt(<<o, RelocOf(ref).sym>>)
    BY <2>3 DEF SymbolOf, SymbolAt
  <2>9. SymbolAt(<<o, RelocOf(ref).sym>>) \in Symbol
    BY <2>7, SymbolsAre
  <2>10. program[o].regions[RelocOf(ref).target_section] \in Region
    <3>1. program[o].regions \in Seq(Region)
      BY <1>1
    <3> QED
      BY <2>6, <3>1, ElementOfSeq, LenProperties
  <2> QED
    BY <1>1, <2>2, <2>3, <2>4, <2>5, <2>6, <2>7, <2>8, <2>9, <2>10 DEF RegionOf
<1> QED
  BY <1>4, <1>5, LenProperties

------------------------------------------------------------------------------
\* Names and their places.
LEMMA ContainsIs ==
    ASSUME NEW S, NEW s \in Seq(S), NEW e
    PROVE  Contains(s, e) <=> e \in ToSet(s)
BY LenProperties DEF Contains, ToSet

LEMMA PositionIs ==
    ASSUME NEW S, NEW names \in Seq(S)
    PROVE  /\ \A n \in ToSet(names) : /\ PositionIn(names, n) \in 1..Len(names)
                                      /\ names[PositionIn(names, n)] = n
           /\ NoneTwice(names) => \A k \in DOMAIN names : PositionIn(names, names[k]) = k
<1>1. Len(names) \in Nat /\ DOMAIN names = 1..Len(names)
  BY LenProperties
<1>2. ASSUME NEW n \in ToSet(names)
      PROVE  PositionIn(names, n) \in 1..Len(names) /\ names[PositionIn(names, n)] = n
  <2> DEFINE I == {i \in 1..Len(names) : names[i] = n}
  <2>1. I # {} /\ I \in SUBSET Nat
    BY <1>1 DEF ToSet
  <2>2. PositionIn(names, n) = CHOOSE x \in I : \A y \in I : x <= y
    BY <2>1 DEF PositionIn, SelectInSeq, Min
  <2>3. PositionIn(names, n) \in I
    BY <2>1, <2>2, LeastOf
  <2> QED
    BY <2>3
<1>3. ASSUME NoneTwice(names), NEW k \in DOMAIN names
      PROVE  PositionIn(names, names[k]) = k
  <2>1. names[k] \in ToSet(names)
    BY DEF ToSet
  <2>2. PICK p : p = PositionIn(names, names[k])
    OBVIOUS
  <2>3. p \in 1..Len(names) /\ names[p] = names[k]
    BY <1>2, <2>1, <2>2
  <2> QED
    BY <1>1, <1>3, <2>2, <2>3 DEF NoneTwice
<1> QED
  BY <1>2, <1>3

\* The imports are names that nothing defines, each of them once.
LEMMA ImportsAre ==
    ASSUME Linked
    PROVE  /\ imports \in Seq(Name)
           /\ NoneTwice(imports)
           /\ \A n \in ToSet(imports) : ~is_defined_anywhere(Tables, n)
<1> DEFINE wanted == {s \in ToSet(Symbols) : is_undefined(SymbolAt(s))
                         /\ ~is_defined_anywhere(Tables, SymbolAt(s).name)}
           first == {s \in wanted : \A t \in wanted :
                         SymbolAt(t).name = SymbolAt(s).name => ~Earlier(t, s)}
           importing == Kept(Symbols, first)
<1>1. imports = [k \in DOMAIN importing |-> SymbolAt(importing[k]).name]
  BY DEF imports
<1>2. /\ importing \in Seq(Nat \X Nat)
      /\ ToSet(importing) = ToSet(Symbols) \intersect first
      /\ NoneTwice(importing)
  BY SymbolsAre, KeptIs
<1> HIDE DEF importing
<1>3. PICK n \in Nat : n = Len(importing) /\ DOMAIN importing = 1..n
  BY <1>2, LenProperties
<1>4. \A k \in 1..n : importing[k] \in first /\ importing[k] \in ToSet(Symbols)
  BY <1>2, <1>3 DEF ToSet
<1>5. ASSUME NEW k \in 1..n
      PROVE  /\ SymbolAt(importing[k]).name \in Name
             /\ ~is_defined_anywhere(Tables, SymbolAt(importing[k]).name)
  <2>1. SymbolAt(importing[k]) \in Symbol /\ is_undefined(SymbolAt(importing[k]))
    BY <1>4, SymbolsAre
  <2>2. SymbolAt(importing[k]).name \in Name \union {NoName}
    BY <2>1 DEF Symbol
  <2> QED
    BY <1>4, <2>1, <2>2 DEF is_undefined
<1>6. imports \in Seq(Name) /\ DOMAIN imports = 1..n
  BY <1>1, <1>3, <1>5
<1>7. NoneTwice(imports)
  <2> SUFFICES ASSUME NEW i \in 1..n, NEW j \in 1..n, imports[i] = imports[j]
               PROVE  i = j
    BY <1>6 DEF NoneTwice
  <2> DEFINE s == importing[i]
             t == importing[j]
  <2>1. SymbolAt(s).name = SymbolAt(t).name
    BY <1>1, <1>3
  <2>2. s \in first /\ t \in first /\ s \in wanted /\ t \in wanted
    BY <1>4
  <2>3. ~Earlier(t, s) /\ ~Earlier(s, t)
    BY <2>1, <2>2
  <2>4. /\ s = <<s[1], s[2]>> /\ s[1] \in Nat /\ s[2] \in Nat
        /\ t = <<t[1], t[2]>> /\ t[1] \in Nat /\ t[2] \in Nat
    BY <1>4, SymbolsAre
  <2> HIDE DEF s, t
  <2>5. s[1] = t[1] /\ s[2] = t[2]
    BY <2>3, <2>4 DEF Earlier
  <2>6. s = t
    BY <2>4, <2>5
  <2> QED
    BY <1>2, <1>3, <2>6 DEF s, t, NoneTwice
<1>8. ASSUME NEW m \in ToSet(imports) PROVE ~is_defined_anywhere(Tables, m)
  <2>1. PICK k \in 1..n : m = imports[k]
    BY <1>6 DEF ToSet
  <2> QED
    BY <1>1, <1>3, <1>5, <2>1
<1> QED
  BY <1>6, <1>7, <1>8

\* Some place is in front of all others.
LEMMA EarliestOf ==
    ASSUME NEW places \in SUBSET (Nat \X Nat), places # {}
    PROVE  \E s \in places : \A t \in places : ~Earlier(t, s)
<1>1. \A s \in places : s[1] \in Nat /\ s[2] \in Nat
  OBVIOUS
<1> DEFINE objects == {s[1] : s \in places}
<1>2. PICK o \in objects : \A p \in objects : o <= p
  <2>1. objects \in SUBSET Nat /\ objects # {}
    BY <1>1
  <2> HIDE DEF objects
  <2> QED
    BY <2>1, LeastOf
<1> DEFINE inside == {s[2] : s \in {t \in places : t[1] = o}}
<1>3. inside \in SUBSET Nat /\ inside # {}
  <2>1. PICK s \in places : s[1] = o
    BY <1>2
  <2>2. s[2] \in inside
    BY <2>1
  <2> QED
    BY <1>1, <2>2
<1>4. PICK j \in inside : \A i \in inside : j <= i
  BY <1>3, LeastOf
<1>5. PICK s \in places : s[1] = o /\ s[2] = j
  BY <1>4
<1>6. ASSUME NEW t \in places PROVE ~Earlier(t, s)
  <2>1. s[1] <= t[1]
    BY <1>2, <1>5
  <2>2. t[1] = s[1] => s[2] <= t[2]
    BY <1>4, <1>5
  <2> QED
    BY <1>1, <2>1, <2>2 DEF Earlier
<1> QED
  BY <1>5, <1>6

\* What linker_resolve answers when nothing is left unresolved: the names that some
\* object references and none defines, each once (ImportsAreTheWanted of LinkRealProofs
\* says the same of the resolver).
ImportsAreTheWanted ==
    /\ NoneTwice(imports)
    /\ ToSet(imports) =
           {n \in Name :
               /\ \E o \in DOMAIN program : \E j \in DOMAIN program[o].symbols :
                     is_undefined(program[o].symbols[j]) /\ program[o].symbols[j].name = n
               /\ ~is_defined_anywhere(Tables, n)}

LEMMA EveryWantedIsImported ==
    ASSUME Linked
    PROVE  ImportsAreTheWanted
<1> DEFINE wanted == {s \in ToSet(Symbols) : is_undefined(SymbolAt(s))
                         /\ ~is_defined_anywhere(Tables, SymbolAt(s).name)}
           first == {s \in wanted : \A t \in wanted :
                         SymbolAt(t).name = SymbolAt(s).name => ~Earlier(t, s)}
           importing == Kept(Symbols, first)
<1>1. imports = [k \in DOMAIN importing |-> SymbolAt(importing[k]).name]
  BY DEF imports
<1>2. ToSet(importing) = first
  BY SymbolsAre, KeptIs
<1> HIDE DEF importing
<1>3. ToSet(imports) = {SymbolAt(s).name : s \in first}
  <2>1. DOMAIN imports = DOMAIN importing
        /\ \A k \in DOMAIN importing : imports[k] = SymbolAt(importing[k]).name
    BY <1>1
  <2> HIDE DEF first
  <2> QED
    BY <1>2, <2>1 DEF ToSet
<1>4. ASSUME NEW s \in wanted
      PROVE  \E f \in first : SymbolAt(f).name = SymbolAt(s).name
  <2> DEFINE alike == {t \in wanted : SymbolAt(t).name = SymbolAt(s).name}
  <2>1. alike \in SUBSET (Nat \X Nat) /\ alike # {}
    BY SymbolsAre
  <2>2. PICK f \in alike : \A t \in alike : ~Earlier(t, f)
    BY <2>1, EarliestOf
  <2>3. f \in first
    BY <2>2
  <2> QED
    BY <2>2, <2>3
<1>5. {SymbolAt(s).name : s \in first} = {SymbolAt(s).name : s \in wanted}
  <2>1. \A f \in first : f \in wanted
    OBVIOUS
  <2> HIDE DEF first, wanted
  <2> QED
    BY <1>4, <2>1
<1>6. ASSUME NEW s \in wanted
      PROVE  /\ SymbolAt(s).name \in Name
             /\ \E o \in DOMAIN program : \E j \in DOMAIN program[o].symbols :
                   /\ is_undefined(program[o].symbols[j])
                   /\ program[o].symbols[j].name = SymbolAt(s).name
             /\ ~is_defined_anywhere(Tables, SymbolAt(s).name)
  <2>1. /\ s \in ToSet(Symbols) /\ is_undefined(SymbolAt(s))
        /\ ~is_defined_anywhere(Tables, SymbolAt(s).name)
    OBVIOUS
  <2>2. /\ s[1] \in DOMAIN program /\ s[2] \in DOMAIN program[s[1]].symbols
        /\ SymbolAt(s) \in Symbol
    BY <2>1, SymbolsAre
  <2>3. SymbolAt(s).name \in Name
    <3>1. SymbolAt(s).name \in Name \union {NoName}
      BY <2>2 DEF Symbol
    <3> QED
      BY <2>1, <3>1 DEF is_undefined
  <2> QED
    BY <2>1, <2>2, <2>3 DEF SymbolAt
<1>7. ASSUME NEW o \in DOMAIN program, NEW j \in DOMAIN program[o].symbols,
             is_undefined(program[o].symbols[j]),
             ~is_defined_anywhere(Tables, program[o].symbols[j].name)
      PROVE  \E s \in wanted : SymbolAt(s).name = program[o].symbols[j].name
  <2>1. <<o, j>> \in ToSet(Symbols)
    BY SymbolsAre
  <2>2. SymbolAt(<<o, j>>) = program[o].symbols[j]
    BY DEF SymbolAt
  <2> QED
    BY <1>7, <2>1, <2>2
<1> HIDE DEF wanted, first
<1>8. ASSUME NEW n \in ToSet(imports)
      PROVE  /\ n \in Name /\ ~is_defined_anywhere(Tables, n)
             /\ \E o \in DOMAIN program : \E j \in DOMAIN program[o].symbols :
                   is_undefined(program[o].symbols[j]) /\ program[o].symbols[j].name = n
  <2>1. PICK s \in wanted : n = SymbolAt(s).name
    BY <1>3, <1>5
  <2> QED
    BY <1>6, <2>1
<1>9. ASSUME NEW n \in Name, NEW o \in DOMAIN program, NEW j \in DOMAIN program[o].symbols,
             is_undefined(program[o].symbols[j]), program[o].symbols[j].name = n,
             ~is_defined_anywhere(Tables, n)
      PROVE  n \in ToSet(imports)
  <2>1. PICK s \in wanted : SymbolAt(s).name = n
    BY <1>7, <1>9
  <2> QED
    BY <1>3, <1>5, <2>1
<1>10. NoneTwice(imports)
  BY ImportsAre
<1> QED
  BY <1>8, <1>9, <1>10 DEF ImportsAreTheWanted

\* The imports that are called, and those that are loaded.
LEMMA SlotsOfImports ==
    ASSUME Linked
    PROVE  /\ bound \in Seq(Name) /\ gotdata \in Seq(Name)
           /\ NoneTwice(bound) /\ NoneTwice(gotdata)
           /\ ToSet(bound) \subseteq ToSet(imports) /\ ToSet(gotdata) \subseteq ToSet(imports)
           /\ Len(bound) \in Nat /\ Len(gotdata) \in Nat
           /\ DOMAIN bound = 1..Len(bound) /\ DOMAIN gotdata = 1..Len(gotdata)
<1>1. /\ Kept(imports, import_called) \in Seq(Name)
      /\ ToSet(Kept(imports, import_called)) = ToSet(imports) \intersect import_called
      /\ NoneTwice(Kept(imports, import_called))
  BY ImportsAre, KeptIs
<1>2. /\ Kept(imports, import_gotdata) \in Seq(Name)
      /\ ToSet(Kept(imports, import_gotdata)) = ToSet(imports) \intersect import_gotdata
      /\ NoneTwice(Kept(imports, import_gotdata))
  BY ImportsAre, KeptIs
<1> QED
  BY <1>1, <1>2, LenProperties DEF bound, gotdata

------------------------------------------------------------------------------
\* The invariant.  How far the second walk and the third have come.
Counted(i) == phase \in {"patch", "load", "done"} \/ (phase = "prescan" /\ i < at)
Passed(ref) ==
    \E i \in DOMAIN References :
        /\ ref = References[i]
        /\ phase \in {"load", "done"} \/ (phase = "patch" /\ i < at)

NameOf(ref) == SymbolOf(ref).name

\* The walks begin with nothing of their own.
WalksStartEmpty ==
    /\ phase = "scan" => local_got_names = <<>>
    /\ phase \in {"scan", "prescan"} =>
           /\ local_got_emitted = {} /\ relaxed = {} /\ relrel = <<>>
           /\ skipped = {} /\ unrelaxable = {} /\ not_writable = {}

\* The names that get a slot: each once, and all that need one.
SlotsHold ==
    /\ NoneTwice(local_got_names)
    /\ \A i \in DOMAIN References :
           Counted(i) /\ NeedsLocalSlot(References[i])
               => NameOf(References[i]) \in ToSet(local_got_names)

FixesPointer(record, ref) ==
    RelocOf(ref).r_type = "64" /\ record = Relative(Pointer(ref), AddressOf(ref))

FixesSlot(record, ref) ==
    /\ LoadOfOwnSymbol(ref) /\ NameOf(ref) \in local_got_emitted
    /\ record = Relative(LocalSlot(NameOf(ref)), AddressOf(ref))

\* The fixups: each for a reference passed, no two of one place, one for each
\* slot in use.
FixupsHold ==
    /\ relrel \in Seq(ToSet(relrel))
    /\ \A record \in ToSet(relrel) : \E ref \in ToSet(References) :
           /\ Passed(ref)
           /\ FixesPointer(record, ref) \/ FixesSlot(record, ref)
    /\ \A j, k \in DOMAIN relrel : relrel[j].target = relrel[k].target => j = k
    /\ \A n \in local_got_emitted :
           /\ n \in ToSet(local_got_names)
           /\ \E record \in ToSet(relrel) : \E ref \in ToSet(References) :
                  NameOf(ref) = n /\ FixesSlot(record, ref)

\* What a reference was patched with, when nothing was reported of it.
PatchedAsMeant(ref) ==
    /\ AddressOf(ref) # Nowhere
    /\ RelocOf(ref).r_type = "64" => \E record \in ToSet(relrel) : FixesPointer(record, ref)
    /\ RelocOf(ref).r_type \in Call => field[ref] = AddressOf(ref)
    /\ RelocOf(ref).r_type \in GotLoad =>
           \/ IsGotSlot(AddressOf(ref)) /\ ref \notin relaxed /\ field[ref] = AddressOf(ref)
           \/ ~IsGotSlot(AddressOf(ref)) /\ ref \in relaxed /\ field[ref] = AddressOf(ref)
           \/ /\ ~IsGotSlot(AddressOf(ref)) /\ ref \notin relaxed
              /\ NameOf(ref) \in local_got_emitted /\ field[ref] = LocalSlot(NameOf(ref))

PatchesHold ==
    /\ \A ref \in relaxed : RelocOf(ref).r_type \in GotLoad /\ Passed(ref)
    /\ \A ref \in unrelaxable :
           /\ ref \in ToSet(References)
           /\ LoadOfOwnSymbol(ref) /\ ~Rewritable(RelocOf(ref))
           /\ NameOf(ref) \notin ToSet(local_got_names)
    /\ \A ref \in ToSet(References) :
           /\ Passed(ref) /\ ref \notin Reported
           /\ RelocOf(ref).r_type \in Patched /\ RegionOf(ref) \notin {"NONE", "BSS"}
           => PatchedAsMeant(ref)

\* The tables are built of the fixups and the slots, once these are all there.
TablesHold ==
    IF phase \in {"load", "done"}
    THEN /\ relaplt = JumpSlots
         /\ reladyn = PointersFirst(ParamRelatives, relrel, GlobDats)
         /\ relative_count = 8 + Len(relrel)
    ELSE relaplt = <<>> /\ reladyn = <<>> /\ relative_count = 0

\* The loader has written what each record it applied says.
MemoryHolds ==
    \A i \in DOMAIN Records :
        phase = "done" \/ (phase = "load" /\ i < at)
            => Records[i].target \in DOMAIN memory /\ memory[Records[i].target] = Loaded(i)

\* The parts of TypeOK that do not follow from the others.
TypeHolds ==
    /\ phase \in {"scan", "prescan", "patch", "load", "done"}
    /\ at \in Nat \ {0}
    /\ import_called \union import_gotdata \subseteq Name
    /\ local_got_names \in Seq(Name) /\ local_got_emitted \subseteq Name
    /\ DOMAIN field = ToSet(References)
    /\ relaxed \union skipped \union unrelaxable \union not_writable \subseteq DOMAIN field

RelocInv ==
    /\ Linked /\ TypeHolds /\ WalksStartEmpty /\ SlotsHold
    /\ FixupsHold /\ PatchesHold /\ TablesHold /\ MemoryHolds

------------------------------------------------------------------------------
\* What is worked out of the objects alone, of the marks, and of the names that
\* get a slot, stays while these stay.
LEMMA FixedByObjects ==
    ASSUME UNCHANGED program
    PROVE  /\ References' = References
           /\ imports' = imports
           /\ \A ref : /\ RelocOf(ref)' = RelocOf(ref)
                       /\ SymbolOf(ref)' = SymbolOf(ref)
                       /\ NameOf(ref)' = NameOf(ref)
                       /\ RegionOf(ref)' = RegionOf(ref)
                       /\ NeedsLocalSlot(ref)' = NeedsLocalSlot(ref)
                       /\ Live(ref)' = Live(ref)
           /\ \A name : AddressByName(name)' = AddressByName(name)
           /\ Linked' = Linked
<1>1. References' = References
  BY DEF References
<1>2. Symbols' = Symbols /\ Tables' = Tables
  BY DEF Symbols, Tables
<1>3. \A s : SymbolAt(s)' = SymbolAt(s)
  BY DEF SymbolAt
<1>4. imports' = imports
  BY <1>2, <1>3 DEF imports
<1>5. \A ref : /\ RelocOf(ref)' = RelocOf(ref)
               /\ SymbolOf(ref)' = SymbolOf(ref)
               /\ NameOf(ref)' = NameOf(ref)
               /\ RegionOf(ref)' = RegionOf(ref)
               /\ Live(ref)' = Live(ref)
  BY DEF RelocOf, SymbolOf, NameOf, RegionOf, Live
<1>6. \A ref : NeedsLocalSlot(ref)' = NeedsLocalSlot(ref)
  BY <1>2, <1>5 DEF NeedsLocalSlot
<1>7. name_addrs' = name_addrs
  BY <1>2, <1>3 DEF name_addrs, HasSection
<1>8. \A name : AddressByName(name)' = AddressByName(name)
  BY <1>3, <1>7 DEF AddressByName, SelectInSeq, SymbolAt
<1>9. Linked' = Linked
  BY DEF Linked
<1> QED
  BY <1>1, <1>4, <1>5, <1>6, <1>8, <1>9

LEMMA FixedByMarks ==
    ASSUME UNCHANGED <<program, marks>>
    PROVE  /\ bound' = bound /\ gotdata' = gotdata
           /\ \A ref : /\ AddressOf(ref)' = AddressOf(ref)
                       /\ LoadOfOwnSymbol(ref)' = LoadOfOwnSymbol(ref)
           /\ JumpSlots' = JumpSlots /\ GlobDats' = GlobDats
<1>1. imports' = imports
  BY FixedByObjects
<1>2. bound' = bound /\ gotdata' = gotdata
  BY <1>1 DEF bound, gotdata, marks
<1>3. \A name, type : AddressOfImport(name, type)' = AddressOfImport(name, type)
  BY <1>2 DEF AddressOfImport, GotdataSlot
<1>4. \A ref : AddressOf(ref)' = AddressOf(ref)
  BY <1>3, FixedByObjects DEF AddressOf, HasSection
<1>5. \A ref : LoadOfOwnSymbol(ref)' = LoadOfOwnSymbol(ref)
  BY <1>4, FixedByObjects DEF LoadOfOwnSymbol, Patchable
<1>6. JumpSlots' = JumpSlots /\ GlobDats' = GlobDats
  BY <1>1, <1>2 DEF JumpSlots, GlobDats, SymbolRecord, BoundSlot, GotdataSlot
<1> QED
  BY <1>2, <1>4, <1>5, <1>6

LEMMA FixedBySlots ==
    ASSUME UNCHANGED <<program, marks, local_got_names>>
    PROVE  \A n : LocalSlot(n)' = LocalSlot(n)
BY FixedByMarks DEF LocalSlot

\* The invariant at the start.
LEMMA RelocStarts == Init => RelocInv
<1> SUFFICES ASSUME Init PROVE RelocInv
  OBVIOUS
<1>1. Linked
  BY LinkedAtFirst
<1>2. TypeHolds
  <2>1. <<>> \in Seq(Name)
    OBVIOUS
  <2> QED
    BY <2>1 DEF Init, TypeHolds
<1>3. WalksStartEmpty
  BY DEF Init, WalksStartEmpty
<1>4. SlotsHold
  BY DEF Init, SlotsHold, NoneTwice, Counted
<1>5. FixupsHold
  <2>1. relrel = <<>> /\ local_got_emitted = {} /\ DOMAIN relrel = {}
    BY DEF Init
  <2>2. relrel \in Seq(ToSet(relrel)) /\ ToSet(relrel) = {}
    BY <2>1 DEF ToSet
  <2> QED
    BY <2>1, <2>2 DEF FixupsHold
<1>6. PatchesHold
  <2>1. \A ref : ~Passed(ref)
    BY DEF Init, Passed
  <2> QED
    BY <2>1 DEF Init, PatchesHold
<1>7. TablesHold
  BY DEF Init, TablesHold
<1>8. MemoryHolds
  BY DEF Init, MemoryHolds
<1> QED
  BY <1>1, <1>2, <1>3, <1>4, <1>5, <1>6, <1>7, <1>8 DEF RelocInv

LEMMA LinkedKept == Linked /\ [Next]_vars => Linked'
<1> SUFFICES ASSUME Linked, [Next]_vars PROVE Linked'
  OBVIOUS
<1>1. UNCHANGED program
  BY DEF Next, vars, MarkImport, EndScan, CountLocalSlot, EndPrescan, PassUnstored,
         LeaveUnpatched, PatchCall, PatchImportLoad, Relax, UseLocalSlot,
         PatchUnrelaxable, PatchAbsolute, IgnoreType, BuildRecords, LoadRecord, EndLoad
<1> QED
  BY <1>1, FixedByObjects

\* The reference a walk is at is one of the program's.
LEMMA CurrentIs ==
    ASSUME Linked, TypeHolds, NEW p, AtReference(p)
    PROVE  /\ at \in DOMAIN References
           /\ References[at] \in ToSet(References)
           /\ SymbolOf(References[at]) \in Symbol
           /\ NameOf(References[at]) \in Name \union {NoName}
<1>1. at \in DOMAIN References
  BY ReferencesAre DEF AtReference, TypeHolds
<1>2. References[at] \in ToSet(References)
  BY <1>1 DEF ToSet
<1>3. SymbolOf(References[at]) \in Symbol
  BY <1>2, ReferencesAre
<1> QED
  BY <1>1, <1>2, <1>3 DEF NameOf, Symbol

\* A step of the patching walk looks at one reference, which its field or its
\* warnings may gain.
LEMMA PatchTypes ==
    ASSUME Linked, TypeHolds, UNCHANGED program, UNCHANGED <<phase, marks, local_got_names>>,
           NEW ref \in DOMAIN field, at' = at + 1, DOMAIN field' = DOMAIN field,
           local_got_emitted' \subseteq Name,
           relaxed' \subseteq relaxed \union {ref}, skipped' \subseteq skipped \union {ref},
           unrelaxable' \subseteq unrelaxable \union {ref},
           not_writable' \subseteq not_writable \union {ref}
    PROVE  TypeHolds'
<1>1. DOMAIN field' = ToSet(References)'
  BY FixedByObjects DEF TypeHolds, ToSet
<1>2. at' \in Nat \ {0}
  BY DEF TypeHolds
<1>3. relaxed' \union skipped' \union unrelaxable' \union not_writable' \subseteq DOMAIN field'
  BY DEF TypeHolds
<1> QED
  BY <1>1, <1>2, <1>3 DEF TypeHolds, marks

LEMMA AtPatch ==
    ASSUME Linked, TypeHolds, NEW ref \in Current
    PROVE  /\ AtReference("patch") /\ phase = "patch" /\ ref = References[at]
           /\ at \in DOMAIN References /\ ref \in ToSet(References) /\ ref \in DOMAIN field
<1>1. AtReference("patch") /\ ref = References[at]
  BY DEF Current
<1> QED
  BY <1>1, CurrentIs DEF AtReference, TypeHolds

LEMMA TypesKept == RelocInv /\ [Next]_vars => TypeHolds'
<1> SUFFICES ASSUME RelocInv, [Next]_vars PROVE TypeHolds'
  OBVIOUS
<1>1. Linked /\ TypeHolds
  BY DEF RelocInv
<1>2. CASE MarkImport
  <2> DEFINE ref == References[at]
  <2>1. AtReference("scan") /\ UNCHANGED <<program, phase, slots, field, warnings, relaxed>>
        /\ at' = at + 1
    BY <1>2 DEF MarkImport
  <2>2. UsesImport(ref) => NameOf(ref) \in Name
    BY <1>1, <2>1, CurrentIs DEF UsesImport, is_undefined, NameOf
  <2>3. import_called' \subseteq import_called \union (IF UsesImport(ref) THEN {NameOf(ref)} ELSE {})
        /\ import_gotdata' \subseteq import_gotdata \union (IF UsesImport(ref) THEN {NameOf(ref)} ELSE {})
    BY <1>2 DEF MarkImport, NameOf
  <2>4. import_called' \union import_gotdata' \subseteq Name
    BY <1>1, <2>2, <2>3 DEF TypeHolds
  <2>5. DOMAIN field' = ToSet(References)'
    BY <1>1, <2>1, FixedByObjects DEF TypeHolds, ToSet
  <2> QED
    BY <1>1, <2>1, <2>4, <2>5 DEF TypeHolds, slots, warnings
<1>3. CASE EndScan
  <2>1. DOMAIN field' = ToSet(References)'
    BY <1>1, <1>3, FixedByObjects DEF EndScan, TypeHolds, ToSet
  <2> QED
    BY <1>1, <1>3, <2>1 DEF EndScan, NextPhase, TypeHolds, marks, slots, warnings
<1>4. CASE CountLocalSlot
  <2> DEFINE ref == References[at]
  <2>1. AtReference("prescan") /\ at' = at + 1
        /\ UNCHANGED <<program, phase, marks, local_got_emitted, field, relaxed, warnings>>
    BY <1>4 DEF CountLocalSlot
  <2>2. NeedsLocalSlot(ref) => NameOf(ref) \in Name
    BY <1>1, <2>1, CurrentIs DEF NeedsLocalSlot, Named, NameOf
  <2>3. local_got_names' \in Seq(Name)
    BY <1>1, <1>4, <2>2 DEF CountLocalSlot, TypeHolds, NameOf
  <2>4. DOMAIN field' = ToSet(References)'
    BY <1>1, <2>1, FixedByObjects DEF TypeHolds, ToSet
  <2> QED
    BY <1>1, <2>1, <2>3, <2>4 DEF TypeHolds, marks, warnings
<1>5. CASE EndPrescan
  <2>1. DOMAIN field' = ToSet(References)'
    BY <1>1, <1>5, FixedByObjects DEF EndPrescan, TypeHolds, ToSet
  <2> QED
    BY <1>1, <1>5, <2>1 DEF EndPrescan, NextPhase, TypeHolds, marks, slots, warnings
<1>6. CASE PassUnstored
  BY <1>1, <1>6, AtPatch, PatchTypes DEF PassUnstored, slots, warnings, TypeHolds
<1>7. CASE LeaveUnpatched
  <2>1. PICK ref \in Current : /\ skipped' = skipped \union {ref} /\ at' = at + 1
                               /\ UNCHANGED <<program, phase, marks, slots, field, relaxed,
                                              unrelaxable, not_writable>>
    BY <1>7 DEF LeaveUnpatched
  <2> QED
    BY <1>1, <2>1, AtPatch, PatchTypes DEF slots, TypeHolds
<1>8. CASE PatchCall
  <2>1. PICK ref \in Current : /\ Patch(ref, AddressOf(ref))
                               /\ UNCHANGED <<program, phase, marks, slots, relaxed, warnings>>
    BY <1>8 DEF PatchCall
  <2> QED
    BY <1>1, <2>1, AtPatch, PatchTypes DEF Patch, slots, warnings, TypeHolds
<1>9. CASE PatchImportLoad
  <2>1. PICK ref \in Current : /\ Patch(ref, AddressOf(ref))
                               /\ UNCHANGED <<program, phase, marks, slots, relaxed, warnings>>
    BY <1>9 DEF PatchImportLoad
  <2> QED
    BY <1>1, <2>1, AtPatch, PatchTypes DEF Patch, slots, warnings, TypeHolds
<1>10. CASE Relax
  <2>1. PICK ref \in Current : /\ Patch(ref, AddressOf(ref)) /\ relaxed' = relaxed \union {ref}
                               /\ UNCHANGED <<program, phase, marks, slots, warnings>>
    BY <1>10 DEF Relax
  <2> QED
    BY <1>1, <2>1, AtPatch, PatchTypes DEF Patch, slots, warnings, TypeHolds
<1>11. CASE UseLocalSlot
  <2>1. PICK ref \in Current : /\ Patch(ref, LocalSlot(NameOf(ref)))
                               /\ Contains(local_got_names, NameOf(ref))
                               /\ local_got_emitted' = local_got_emitted \union {NameOf(ref)}
                               /\ UNCHANGED <<program, phase, marks, local_got_names, relaxed,
                                              warnings>>
    BY <1>11 DEF UseLocalSlot, NameOf
  <2>2. NameOf(ref) \in Name
    <3>1. local_got_names \in Seq(Name)
      BY <1>1 DEF TypeHolds
    <3> QED
      BY <2>1, <3>1, LenProperties, ElementOfSeq DEF Contains
  <2> QED
    BY <1>1, <2>1, <2>2, AtPatch, PatchTypes DEF Patch, warnings, TypeHolds
<1>12. CASE PatchUnrelaxable
  <2>1. PICK ref \in Current : /\ Patch(ref, AddressOf(ref))
                               /\ unrelaxable' = unrelaxable \union {ref}
                               /\ UNCHANGED <<program, phase, marks, slots, relaxed, skipped,
                                              not_writable>>
    BY <1>12 DEF PatchUnrelaxable
  <2> QED
    BY <1>1, <2>1, AtPatch, PatchTypes DEF Patch, slots, TypeHolds
<1>13. CASE PatchAbsolute
  <2>1. PICK ref \in Current : /\ Patch(ref, AddressOf(ref))
                               /\ not_writable' \subseteq not_writable \union {ref}
                               /\ UNCHANGED <<program, phase, marks, slots, relaxed, skipped,
                                              unrelaxable>>
    BY <1>13 DEF PatchAbsolute
  <2> QED
    BY <1>1, <2>1, AtPatch, PatchTypes DEF Patch, slots, TypeHolds
<1>14. CASE IgnoreType
  <2>1. PICK ref \in Current : /\ at' = at + 1
                               /\ UNCHANGED <<program, phase, marks, slots, field, relaxed,
                                              warnings>>
    BY <1>14 DEF IgnoreType
  <2> QED
    BY <1>1, <2>1, AtPatch, PatchTypes DEF slots, warnings, TypeHolds
<1>15. CASE BuildRecords
  <2>1. DOMAIN field' = ToSet(References)'
    BY <1>1, <1>15, FixedByObjects DEF BuildRecords, TypeHolds, ToSet
  <2> QED
    BY <1>1, <1>15, <2>1 DEF BuildRecords, NextPhase, TypeHolds, marks, slots, warnings
<1>16. CASE LoadRecord
  <2>1. DOMAIN field' = ToSet(References)'
    BY <1>1, <1>16, FixedByObjects DEF LoadRecord, TypeHolds, ToSet
  <2> QED
    BY <1>1, <1>16, <2>1 DEF LoadRecord, TypeHolds, marks, slots, warnings
<1>17. CASE EndLoad
  <2>1. DOMAIN field' = ToSet(References)'
    BY <1>1, <1>17, FixedByObjects DEF EndLoad, TypeHolds, ToSet
  <2> QED
    BY <1>1, <1>17, <2>1 DEF EndLoad, TypeHolds, marks, slots, warnings
<1>18. CASE UNCHANGED vars
  <2>1. DOMAIN field' = ToSet(References)'
    BY <1>1, <1>18, FixedByObjects DEF vars, TypeHolds, ToSet
  <2> QED
    BY <1>1, <1>18, <2>1 DEF vars, TypeHolds
<1> QED
  BY <1>2, <1>3, <1>4, <1>5, <1>6, <1>7, <1>8, <1>9, <1>10, <1>11, <1>12, <1>13, <1>14,
     <1>15, <1>16, <1>17, <1>18 DEF Next

\* The walks begin with nothing of their own, and no step before the patching
\* gives them anything.
LEMMA StartEmptyKept == RelocInv /\ [Next]_vars => WalksStartEmpty'
<1> SUFFICES ASSUME RelocInv, [Next]_vars PROVE WalksStartEmpty'
  OBVIOUS
<1>1. WalksStartEmpty
  BY DEF RelocInv
<1>2. CASE MarkImport \/ EndScan \/ CountLocalSlot \/ EndPrescan
  BY <1>1, <1>2 DEF MarkImport, EndScan, CountLocalSlot, EndPrescan, AtReference, NextPhase,
                    WalksStartEmpty, slots, warnings
<1>3. CASE phase = "patch" /\ UNCHANGED phase
  BY <1>3 DEF WalksStartEmpty
<1>4. ASSUME PassUnstored \/ LeaveUnpatched \/ PatchCall \/ PatchImportLoad \/ Relax
             \/ UseLocalSlot \/ PatchUnrelaxable \/ PatchAbsolute \/ IgnoreType
      PROVE  phase = "patch" /\ UNCHANGED phase
  BY <1>4 DEF PassUnstored, LeaveUnpatched, PatchCall, PatchImportLoad, Relax, UseLocalSlot,
              PatchUnrelaxable, PatchAbsolute, IgnoreType, Current, AtReference
<1>5. CASE BuildRecords \/ LoadRecord \/ EndLoad
  BY <1>5 DEF BuildRecords, LoadRecord, EndLoad, NextPhase, WalksStartEmpty
<1>6. CASE UNCHANGED vars
  BY <1>1, <1>6 DEF vars, WalksStartEmpty
<1> QED
  BY <1>2, <1>3, <1>4, <1>5, <1>6 DEF Next

\* Each step of the second walk gives the name it meets its slot, if it needs one.
LEMMA SlotsKept == RelocInv /\ [Next]_vars => SlotsHold'
<1> SUFFICES ASSUME RelocInv, [Next]_vars PROVE SlotsHold'
  OBVIOUS
<1>1. Linked /\ TypeHolds /\ WalksStartEmpty /\ SlotsHold
  BY DEF RelocInv
<1>2. DOMAIN References = 1..Len(References) /\ Len(References) \in Nat /\ at \in Nat \ {0}
  BY <1>1, ReferencesAre DEF TypeHolds
<1>3. UNCHANGED program
  BY DEF Next, vars, MarkImport, EndScan, CountLocalSlot, EndPrescan, PassUnstored,
         LeaveUnpatched, PatchCall, PatchImportLoad, Relax, UseLocalSlot,
         PatchUnrelaxable, PatchAbsolute, IgnoreType, BuildRecords, LoadRecord, EndLoad
<1>4. References' = References /\ \A ref : NeedsLocalSlot(ref)' = NeedsLocalSlot(ref)
                                           /\ NameOf(ref)' = NameOf(ref)
  BY <1>3, FixedByObjects
<1>5. ASSUME UNCHANGED local_got_names,
             \A i \in DOMAIN References : Counted(i)' => Counted(i)
      PROVE  SlotsHold'
  BY <1>1, <1>4, <1>5 DEF SlotsHold
<1>6. CASE MarkImport \/ EndScan
  BY <1>2, <1>5, <1>6 DEF MarkImport, EndScan, AtReference, NextPhase, Counted, slots
<1>7. CASE CountLocalSlot
  <2> DEFINE ref == References[at]
             name == NameOf(ref)
  <2>1. AtReference("prescan") /\ at' = at + 1 /\ phase = "prescan" /\ UNCHANGED phase
    BY <1>7 DEF CountLocalSlot, AtReference
  <2>2. local_got_names' = IF NeedsLocalSlot(ref) /\ ~Contains(local_got_names, name)
                           THEN Append(local_got_names, name) ELSE local_got_names
    BY <1>7 DEF CountLocalSlot, NameOf
  <2>3. local_got_names \in Seq(Name)
    BY <1>1 DEF TypeHolds
  <2>4. NeedsLocalSlot(ref) => name \in Name
    BY <1>1, <2>1, CurrentIs DEF NeedsLocalSlot, Named, NameOf
  <2> HIDE DEF name
  <2>5. /\ NoneTwice(local_got_names)'
        /\ ToSet(local_got_names) \subseteq ToSet(local_got_names')
        /\ NeedsLocalSlot(ref) => name \in ToSet(local_got_names')
    <3>1. CASE NeedsLocalSlot(ref) /\ ~Contains(local_got_names, name)
      <4>1. name \notin ToSet(local_got_names)
        BY <2>3, <3>1, ContainsIs
      <4>2. /\ ToSet(Append(local_got_names, name)) = ToSet(local_got_names) \union {name}
            /\ NoneTwice(Append(local_got_names, name))
        BY <1>1, <2>3, <2>4, <3>1, <4>1, AppendIs DEF SlotsHold
      <4> QED
        BY <2>2, <3>1, <4>2 DEF NoneTwice
    <3>2. CASE ~NeedsLocalSlot(ref)
      BY <1>1, <2>2, <3>2 DEF SlotsHold, NoneTwice
    <3>3. CASE Contains(local_got_names, name)
      BY <1>1, <2>2, <2>3, <3>3, ContainsIs DEF SlotsHold, NoneTwice
    <3> QED
      BY <3>1, <3>2, <3>3
  <2>6. ASSUME NEW i \in DOMAIN References, Counted(i)', NeedsLocalSlot(References[i])
        PROVE  NameOf(References[i]) \in ToSet(local_got_names')
    <3>1. i < at \/ i = at
      BY <1>2, <2>1, <2>6 DEF Counted
    <3>2. CASE i < at
      BY <1>1, <2>1, <2>5, <2>6, <3>2 DEF SlotsHold, Counted
    <3>3. CASE i = at
      BY <2>5, <2>6, <3>3 DEF name
    <3> QED
      BY <3>1, <3>2, <3>3
  <2>7. ToSet(local_got_names)' = ToSet(local_got_names')
    BY DEF ToSet
  <2> QED
    BY <1>4, <2>5, <2>6, <2>7 DEF SlotsHold
<1>8. CASE EndPrescan
  BY <1>2, <1>5, <1>8 DEF EndPrescan, NextPhase, Counted, slots
<1>9. CASE phase \in {"patch", "load", "done"} /\ UNCHANGED local_got_names
  BY <1>5, <1>9 DEF Counted
<1>10. ASSUME PassUnstored \/ LeaveUnpatched \/ PatchCall \/ PatchImportLoad \/ Relax
             \/ UseLocalSlot \/ PatchUnrelaxable \/ PatchAbsolute \/ IgnoreType
      PROVE  phase = "patch" /\ UNCHANGED local_got_names
  BY <1>10 DEF PassUnstored, LeaveUnpatched, PatchCall, PatchImportLoad, Relax, UseLocalSlot,
               PatchUnrelaxable, PatchAbsolute, IgnoreType, Current, AtReference, slots
<1>11. CASE BuildRecords \/ LoadRecord \/ EndLoad
  BY <1>9, <1>11 DEF BuildRecords, LoadRecord, EndLoad, NextPhase, slots
<1>12. CASE UNCHANGED vars
  BY <1>5, <1>12 DEF vars, Counted
<1> QED
  BY <1>6, <1>7, <1>8, <1>9, <1>10, <1>11, <1>12 DEF Next

------------------------------------------------------------------------------
\* Fixups and fields before the patching.
LEMMA NothingPatchedYet ==
    ASSUME relrel' = <<>>, local_got_emitted' = {}, relaxed' = {}, unrelaxable' = {},
           \A ref : ~Passed(ref)'
    PROVE  FixupsHold' /\ PatchesHold'
<1>1. (ToSet(relrel))' = ToSet(relrel')
  BY DEF ToSet
<1>2. relrel' \in Seq(ToSet(relrel'))
  OBVIOUS
<1>3. DOMAIN relrel' = {} /\ (ToSet(relrel))' = {}
  BY <1>1 DEF ToSet
<1>4. FixupsHold'
  BY <1>1, <1>2, <1>3 DEF FixupsHold
<1>5. PatchesHold'
  BY DEF PatchesHold
<1> QED
  BY <1>4, <1>5

LEMMA EarlyStepsKeep ==
    ASSUME RelocInv, MarkImport \/ EndScan \/ CountLocalSlot \/ EndPrescan
    PROVE  FixupsHold' /\ PatchesHold'
<1>1. phase \in {"scan", "prescan"} /\ (phase' \in {"scan", "prescan"} \/ at' = 1)
  BY DEF MarkImport, EndScan, CountLocalSlot, EndPrescan, AtReference, NextPhase
<1>2. UNCHANGED <<program, relrel, local_got_emitted, relaxed, unrelaxable>>
  BY DEF MarkImport, EndScan, CountLocalSlot, EndPrescan, slots, warnings
<1>3. relrel' = <<>> /\ local_got_emitted' = {} /\ relaxed' = {} /\ unrelaxable' = {}
  BY <1>1, <1>2 DEF RelocInv, WalksStartEmpty
<1>4. References' = References /\ DOMAIN References = 1..Len(References) /\ Len(References) \in Nat
  BY <1>2, FixedByObjects, ReferencesAre DEF RelocInv
<1>5. phase' \in {"scan", "prescan", "patch"}
  BY DEF MarkImport, EndScan, CountLocalSlot, EndPrescan, AtReference, NextPhase
<1>6. \A ref : ~Passed(ref)'
  BY <1>1, <1>4, <1>5 DEF Passed
<1> QED
  BY <1>3, <1>6, NothingPatchedYet

\* A slot or a field is its number's own.
LEMMA LocalSlotIs ==
    ASSUME Linked, TypeHolds, NEW m \in ToSet(local_got_names)
    PROVE  /\ LocalSlot(m)[1] = "got"
           /\ LocalSlot(m)[2] \in Nat /\ LocalSlot(m)[2] > Len(bound) + Len(gotdata)
           /\ \A n \in ToSet(local_got_names) : LocalSlot(m) = LocalSlot(n) => m = n
<1>1. local_got_names \in Seq(Name) /\ Len(bound) \in Nat /\ Len(gotdata) \in Nat
  BY SlotsOfImports DEF TypeHolds
<1>2. \A n \in ToSet(local_got_names) : /\ PositionIn(local_got_names, n) \in 1..Len(local_got_names)
                                        /\ local_got_names[PositionIn(local_got_names, n)] = n
  BY <1>1, PositionIs
<1>3. Len(local_got_names) \in Nat
  BY <1>1, LenProperties
<1>4. \A n : LocalSlot(n)[1] = "got"
             /\ LocalSlot(n)[2] = Len(bound) + Len(gotdata) + PositionIn(local_got_names, n)
  BY DEF LocalSlot
<1>5. ASSUME NEW n \in ToSet(local_got_names), LocalSlot(m) = LocalSlot(n) PROVE m = n
  <2>1. PICK p \in Nat : p = PositionIn(local_got_names, m)
    BY <1>2, <1>3
  <2>2. PICK q \in Nat : q = PositionIn(local_got_names, n)
    BY <1>2, <1>3
  <2>3. Len(bound) + Len(gotdata) + p = Len(bound) + Len(gotdata) + q
    BY <1>4, <1>5, <2>1, <2>2
  <2>4. p = q
    BY <1>1, <2>3
  <2> QED
    BY <1>2, <2>1, <2>2, <2>4
<1>6. PICK p \in Nat : p = PositionIn(local_got_names, m) /\ p > 0
  BY <1>2, <1>3
<1> QED
  BY <1>1, <1>4, <1>5, <1>6

LEMMA PointerIs ==
    ASSUME Linked, NEW i \in DOMAIN References, NEW j \in DOMAIN References,
           Pointer(References[i]) = Pointer(References[j])
    PROVE  i = j
<1> DEFINE r == References[i]
           s == References[j]
<1>1. r \in ToSet(References) /\ s \in ToSet(References)
  BY DEF ToSet
<1>2. r = <<r[1], r[2]>> /\ s = <<s[1], s[2]>>
  BY <1>1, ReferencesAre
<1>3. <<"field", r[1], r[2]>> = <<"field", s[1], s[2]>>
  BY DEF Pointer
<1> HIDE DEF r, s
<1>4. r[1] = s[1] /\ r[2] = s[2]
  BY <1>3
<1>5. r = s
  BY <1>2, <1>4
<1> QED
  BY <1>5, ReferencesAre DEF r, s, NoneTwice

\* A step of the patching walk: what it leaves alone.
PatchStep(ref) ==
    /\ ref \in Current
    /\ UNCHANGED <<program, phase, marks, local_got_names, records, memory>>
    /\ at' = at + 1

LEMMA PatchStepIs ==
    ASSUME RelocInv, NEW ref, PatchStep(ref)
    PROVE  /\ phase = "patch" /\ phase' = "patch" /\ ref = References[at]
           /\ at \in DOMAIN References /\ at \in Nat /\ DOMAIN References \subseteq Nat
           /\ References' = References
           /\ \A r : Passed(r)' <=> Passed(r) \/ r = ref
           /\ ~Passed(ref)
           /\ \A r : /\ RelocOf(r)' = RelocOf(r) /\ NameOf(r)' = NameOf(r)
                     /\ RegionOf(r)' = RegionOf(r)
                     /\ AddressOf(r)' = AddressOf(r)
                     /\ LoadOfOwnSymbol(r)' = LoadOfOwnSymbol(r)
           /\ \A n : LocalSlot(n)' = LocalSlot(n)
           /\ ToSet(local_got_names)' = ToSet(local_got_names)
<1>1. Linked /\ TypeHolds
  BY DEF RelocInv
<1>2. /\ phase = "patch" /\ phase' = "patch" /\ ref = References[at]
      /\ at \in DOMAIN References /\ at \in Nat
  BY <1>1, AtPatch DEF PatchStep, TypeHolds
<1>3. DOMAIN References \subseteq Nat
  BY <1>1, ReferencesAre
<1>4. \A r : Passed(r) <=> \E i \in DOMAIN References : r = References[i] /\ i < at
  BY <1>2 DEF Passed
<1>7. \A r : Passed(r)' <=> \E i \in DOMAIN References : r = References[i] /\ i < at + 1
  <2>1. References' = References /\ phase' = "patch" /\ at' = at + 1
    BY <1>2, FixedByObjects DEF PatchStep
  <2> QED
    BY <2>1 DEF Passed
<1>8. \A r : Passed(r)' <=> Passed(r) \/ r = ref
  <2>1. \A i \in DOMAIN References : i < at + 1 <=> i < at \/ i = at
    BY <1>2, <1>3
  <2> QED
    BY <1>2, <1>4, <1>7, <2>1
<1>9. ~Passed(ref)
  <2> SUFFICES ASSUME NEW i \in DOMAIN References, References[i] = References[at], i < at
               PROVE  FALSE
    BY <1>2, <1>4
  <2>1. i = at
    BY <1>1, <1>2, ReferencesAre DEF NoneTwice
  <2> QED
    BY <1>2, <2>1
<1>5. UNCHANGED program /\ UNCHANGED <<program, marks>>
      /\ UNCHANGED <<program, marks, local_got_names>>
  BY DEF PatchStep
<1>6. ToSet(local_got_names)' = ToSet(local_got_names)
  BY <1>5 DEF ToSet
<1> QED
  BY <1>2, <1>3, <1>5, <1>6, <1>8, <1>9, FixedByObjects, FixedByMarks, FixedBySlots

LEMMA FixupsStay ==
    ASSUME RelocInv, NEW ref, PatchStep(ref), UNCHANGED <<relrel, local_got_emitted>>
    PROVE  FixupsHold'
<1>1. FixupsHold
  BY DEF RelocInv
<1>2. \A record, r : /\ FixesPointer(record, r)' <=> FixesPointer(record, r)
                     /\ FixesSlot(record, r)' <=> FixesSlot(record, r)
  BY PatchStepIs DEF FixesPointer, FixesSlot, Pointer, Relative
<1>3. (relrel \in Seq(ToSet(relrel)))'
  BY <1>1 DEF FixupsHold, ToSet
<1>4. (ToSet(relrel))' = ToSet(relrel) /\ (ToSet(References))' = ToSet(References)
  BY PatchStepIs DEF ToSet
<1>5. ASSUME NEW record \in ToSet(relrel)
      PROVE  \E r \in ToSet(References) : Passed(r)' /\ (FixesPointer(record, r)' \/ FixesSlot(record, r)')
  BY <1>1, <1>2, PatchStepIs DEF FixupsHold
<1>6. ASSUME NEW n \in local_got_emitted
      PROVE  /\ n \in ToSet(local_got_names)'
             /\ \E record \in ToSet(relrel) : \E r \in ToSet(References) :
                    NameOf(r)' = n /\ FixesSlot(record, r)'
  BY <1>1, <1>2, PatchStepIs DEF FixupsHold
<1> QED
  BY <1>1, <1>3, <1>4, <1>5, <1>6 DEF FixupsHold

LEMMA FixupsGrow ==
    ASSUME RelocInv, NEW ref, PatchStep(ref), NEW e,
           relrel' = Append(relrel, e),
           FixesPointer(e, ref)' \/ FixesSlot(e, ref)',
           \A record \in ToSet(relrel) : record.target # e.target,
           local_got_emitted \subseteq local_got_emitted',
           \A n \in local_got_emitted' \ local_got_emitted :
               n = NameOf(ref) /\ n \in ToSet(local_got_names) /\ FixesSlot(e, ref)'
    PROVE  FixupsHold'
<1>1. FixupsHold /\ Linked /\ TypeHolds
  BY DEF RelocInv
<1>2. \A record, r : /\ FixesPointer(record, r)' <=> FixesPointer(record, r)
                     /\ FixesSlot(record, r) => FixesSlot(record, r)'
  BY PatchStepIs DEF FixesPointer, FixesSlot, Pointer, Relative
<1> DEFINE E == ToSet(relrel) \union {e}
<1>3. relrel \in Seq(E)
  <2>1. relrel \in Seq(ToSet(relrel))
    BY <1>1 DEF FixupsHold
  <2> QED
    BY <2>1
<1>4. /\ Append(relrel, e) \in Seq(E)
      /\ ToSet(Append(relrel, e)) = ToSet(relrel) \union {e}
      /\ Len(relrel) \in Nat /\ DOMAIN relrel = 1..Len(relrel)
      /\ DOMAIN Append(relrel, e) = 1..(Len(relrel) + 1)
      /\ \A i \in 1..Len(relrel) : Append(relrel, e)[i] = relrel[i]
      /\ Append(relrel, e)[Len(relrel) + 1] = e
  BY <1>3, AppendIs, AppendProperties, LenProperties
<1>5. (ToSet(relrel))' = ToSet(relrel) \union {e} /\ (ToSet(References))' = ToSet(References)
  BY <1>4, PatchStepIs DEF ToSet
<1>6. (relrel \in Seq(ToSet(relrel)))'
  BY <1>4, <1>5
<1>7. ref \in ToSet(References) /\ Passed(ref)'
  BY PatchStepIs DEF ToSet
<1>8. ASSUME NEW record \in ToSet(relrel) \union {e}
      PROVE  \E r \in ToSet(References) : Passed(r)' /\ (FixesPointer(record, r)' \/ FixesSlot(record, r)')
  <2>1. CASE record \in ToSet(relrel)
    BY <1>1, <1>2, <2>1, PatchStepIs DEF FixupsHold
  <2>2. CASE record = e
    BY <1>7, <2>2
  <2> QED
    BY <2>1, <2>2
<1>9. (\A j, k \in DOMAIN relrel : relrel[j].target = relrel[k].target => j = k)'
  <2> SUFFICES ASSUME NEW j \in 1..(Len(relrel) + 1), NEW k \in 1..(Len(relrel) + 1),
                      Append(relrel, e)[j].target = Append(relrel, e)[k].target
               PROVE  j = k
    BY <1>4
  <2>1. \A i \in 1..Len(relrel) : relrel[i].target # e.target
    BY <1>4 DEF ToSet
  <2>2. CASE j \in 1..Len(relrel) /\ k \in 1..Len(relrel)
    BY <1>1, <1>4, <2>2 DEF FixupsHold
  <2>3. CASE j = Len(relrel) + 1 /\ k \in 1..Len(relrel)
    BY <1>4, <2>1, <2>3
  <2>4. CASE j \in 1..Len(relrel) /\ k = Len(relrel) + 1
    BY <1>4, <2>1, <2>4
  <2> QED
    BY <1>4, <2>2, <2>3, <2>4
<1>10. ASSUME NEW n \in local_got_emitted'
       PROVE  /\ n \in ToSet(local_got_names)'
              /\ \E record \in ToSet(relrel) \union {e} : \E r \in ToSet(References) :
                     NameOf(r)' = n /\ FixesSlot(record, r)'
  <2>1. CASE n \in local_got_emitted
    BY <1>1, <1>2, <2>1, PatchStepIs DEF FixupsHold
  <2>2. CASE n \notin local_got_emitted
    BY <1>7, <2>2, PatchStepIs
  <2> QED
    BY <2>1, <2>2
<1> QED
  BY <1>5, <1>6, <1>8, <1>9, <1>10 DEF FixupsHold

\* A fixup of a pointer or of a slot not yet fixed is of a place of its own.
LEMMA NewPointer ==
    ASSUME RelocInv, NEW ref \in Current, NEW record \in ToSet(relrel)
    PROVE  record.target # Pointer(ref)
<1>1. Linked /\ TypeHolds /\ FixupsHold
  BY DEF RelocInv
<1>2. phase = "patch" /\ ref = References[at] /\ at \in DOMAIN References
  BY <1>1, AtPatch
<1>3. PICK r \in ToSet(References) : Passed(r) /\ (FixesPointer(record, r) \/ FixesSlot(record, r))
  BY <1>1 DEF FixupsHold
<1>4. PICK i \in DOMAIN References : r = References[i] /\ i < at
  BY <1>2, <1>3 DEF Passed
<1>5. CASE FixesPointer(record, r)
  <2>1. record.target = Pointer(References[i])
    BY <1>4, <1>5 DEF FixesPointer, Relative
  <2>2. i # at
    BY <1>1, <1>2, <1>4 DEF TypeHolds
  <2> QED
    BY <1>1, <1>2, <2>1, <2>2, PointerIs
<1>6. CASE FixesSlot(record, r)
  <2>1. record.target = LocalSlot(NameOf(r)) /\ NameOf(r) \in ToSet(local_got_names)
    BY <1>1, <1>6 DEF FixesSlot, Relative, FixupsHold
  <2>2. record.target[1] = "got"
    BY <1>1, <2>1, LocalSlotIs
  <2>3. Pointer(ref)[1] = "field"
    BY DEF Pointer
  <2> QED
    BY <2>2, <2>3
<1> QED
  BY <1>3, <1>5, <1>6

LEMMA NewSlot ==
    ASSUME RelocInv, NEW n \in ToSet(local_got_names), n \notin local_got_emitted,
           NEW record \in ToSet(relrel)
    PROVE  record.target # LocalSlot(n)
<1>1. Linked /\ TypeHolds /\ FixupsHold
  BY DEF RelocInv
<1>2. PICK r \in ToSet(References) : FixesPointer(record, r) \/ FixesSlot(record, r)
  BY <1>1 DEF FixupsHold
<1>3. CASE FixesPointer(record, r)
  <2>1. record.target[1] = "field"
    BY <1>3 DEF FixesPointer, Relative, Pointer
  <2>2. LocalSlot(n)[1] = "got"
    BY <1>1, LocalSlotIs
  <2> QED
    BY <2>1, <2>2
<1>4. CASE FixesSlot(record, r)
  <2>1. record.target = LocalSlot(NameOf(r)) /\ NameOf(r) \in local_got_emitted
    BY <1>4 DEF FixesSlot, Relative
  <2>2. NameOf(r) \in ToSet(local_got_names)
    BY <1>1, <2>1 DEF FixupsHold
  <2> QED
    BY <1>1, <2>1, <2>2, LocalSlotIs
<1> QED
  BY <1>2, <1>3, <1>4

\* What the step makes of the reference it is at, and leaves of the others.
LEMMA PatchesGrow ==
    ASSUME RelocInv, NEW ref, PatchStep(ref),
           relaxed \subseteq relaxed', relaxed' \subseteq relaxed \union {ref},
           unrelaxable' \subseteq unrelaxable \union {ref},
           Reported \subseteq Reported',
           local_got_emitted \subseteq local_got_emitted',
           ToSet(relrel) \subseteq (ToSet(relrel))',
           \A r \in ToSet(References) : r # ref => field'[r] = field[r],
           ref \in relaxed' => RelocOf(ref).r_type \in GotLoad,
           ref \in unrelaxable' => /\ LoadOfOwnSymbol(ref) /\ ~Rewritable(RelocOf(ref))
                                   /\ NameOf(ref) \notin ToSet(local_got_names),
           /\ ref \notin Reported'
           /\ RelocOf(ref).r_type \in Patched /\ RegionOf(ref) \notin {"NONE", "BSS"}
           => PatchedAsMeant(ref)'
    PROVE  PatchesHold'
<1>1. PatchesHold /\ Linked
  BY DEF RelocInv
<1>2. (ToSet(References))' = ToSet(References) /\ ref \in ToSet(References)
  BY PatchStepIs DEF ToSet
<1>3. ref \notin unrelaxable' \/ ref \in unrelaxable'
  OBVIOUS
<1>4. ASSUME NEW r \in relaxed' PROVE RelocOf(r)'.r_type \in GotLoad /\ Passed(r)'
  BY <1>1, PatchStepIs DEF PatchesHold
<1>5. ASSUME NEW r \in unrelaxable'
      PROVE  /\ r \in ToSet(References)
             /\ LoadOfOwnSymbol(r)' /\ ~Rewritable(RelocOf(r))'
             /\ NameOf(r)' \notin ToSet(local_got_names)'
  <2>1. Rewritable(RelocOf(r))' = Rewritable(RelocOf(r))
    BY PatchStepIs DEF Rewritable
  <2> QED
    BY <1>1, <1>2, <2>1, PatchStepIs DEF PatchesHold
<1>6. ASSUME NEW r \in ToSet(References), Passed(r)', r \notin Reported',
             RelocOf(r).r_type \in Patched, RegionOf(r) \notin {"NONE", "BSS"}
      PROVE  PatchedAsMeant(r)'
  <2>1. CASE r = ref
    BY <1>6, <2>1
  <2>2. CASE r # ref
    <3>1. PatchedAsMeant(r)
      BY <1>1, <1>6, <2>2, PatchStepIs DEF PatchesHold
    <3>2. \A record : FixesPointer(record, r)' <=> FixesPointer(record, r)
      BY PatchStepIs DEF FixesPointer, Pointer, Relative
    <3>3. r \in relaxed' <=> r \in relaxed
      BY <2>2
    <3>4. field'[r] = field[r]
      BY <2>2
    <3> QED
      BY <3>1, <3>2, <3>3, <3>4, PatchStepIs DEF PatchedAsMeant, IsGotSlot
  <2> QED
    BY <2>1, <2>2
<1> QED
  BY <1>2, <1>4, <1>5, <1>6, PatchStepIs DEF PatchesHold

\* The steps of the patching walk, one by one.
LEMMA PassUnstoredKeeps == RelocInv /\ PassUnstored => FixupsHold' /\ PatchesHold'
<1> SUFFICES ASSUME RelocInv, PassUnstored PROVE FixupsHold' /\ PatchesHold'
  OBVIOUS
<1>1. PICK ref \in Current : ~Live(ref) \/ RegionOf(ref) = "BSS"
  BY DEF PassUnstored
<1>2. PatchStep(ref) /\ UNCHANGED <<slots, field, relaxed, relrel, warnings>>
  BY <1>1 DEF PassUnstored, PatchStep, slots
<1>3. RegionOf(ref) \in {"NONE", "BSS"}
  BY <1>1 DEF Live
<1>4. FixupsHold'
  BY <1>2, FixupsStay DEF slots
<1>5. Reported' = Reported /\ (ToSet(relrel))' = ToSet(relrel)
  BY <1>2 DEF Reported, warnings, ToSet
<1>6. UNCHANGED <<relaxed, unrelaxable, local_got_emitted, field>>
  BY <1>2 DEF warnings, slots
<1>7. /\ ref \in relaxed => RelocOf(ref).r_type \in GotLoad
      /\ ref \in unrelaxable => /\ LoadOfOwnSymbol(ref) /\ ~Rewritable(RelocOf(ref))
                                /\ NameOf(ref) \notin ToSet(local_got_names)
  BY DEF RelocInv, PatchesHold
<1> QED
  BY <1>2, <1>3, <1>4, <1>5, <1>6, <1>7, PatchesGrow

\* What the invariant says of the reference the walk is at.
LEMMA CurrentUnreported ==
    ASSUME RelocInv, NEW ref \in Current
    PROVE  /\ ref \notin relaxed
           /\ ref \in unrelaxable => /\ LoadOfOwnSymbol(ref) /\ ~Rewritable(RelocOf(ref))
                                     /\ NameOf(ref) \notin ToSet(local_got_names)
           /\ ref \in DOMAIN field
<1>1. Linked /\ TypeHolds /\ PatchesHold
  BY DEF RelocInv
<1>2. phase = "patch" /\ ref = References[at] /\ at \in DOMAIN References /\ ref \in DOMAIN field
  BY <1>1, AtPatch
<1>3. ~Passed(ref)
  <2> SUFFICES ASSUME NEW i \in DOMAIN References, References[at] = References[i], i < at
               PROVE  FALSE
    BY <1>2 DEF Passed
  <2>1. i = at
    BY <1>1, <1>2, ReferencesAre DEF NoneTwice
  <2> QED
    BY <1>1, <2>1 DEF TypeHolds
<1> QED
  BY <1>1, <1>2, <1>3 DEF PatchesHold

LEMMA LeaveUnpatchedKeeps == RelocInv /\ LeaveUnpatched => FixupsHold' /\ PatchesHold'
<1> SUFFICES ASSUME RelocInv, LeaveUnpatched PROVE FixupsHold' /\ PatchesHold'
  OBVIOUS
<1>1. PICK ref \in Current :
          /\ skipped' = skipped \union {ref} /\ at' = at + 1
          /\ UNCHANGED <<program, phase, marks, slots, field, relaxed, relrel, unrelaxable,
                         not_writable, records, memory>>
  BY DEF LeaveUnpatched
<1>2. PatchStep(ref) /\ UNCHANGED <<relrel, local_got_emitted, relaxed, unrelaxable, field>>
  BY <1>1 DEF PatchStep, slots
<1>3. FixupsHold'
  BY <1>2, FixupsStay
<1>4. Reported \subseteq Reported' /\ ref \in Reported' /\ (ToSet(relrel))' = ToSet(relrel)
  BY <1>1 DEF Reported, ToSet
<1> QED
  BY <1>2, <1>3, <1>4, CurrentUnreported, PatchesGrow

\* A patched field, whose reference is not reported and not relaxed.
LEMMA PatchCallKeeps == RelocInv /\ PatchCall => FixupsHold' /\ PatchesHold'
<1> SUFFICES ASSUME RelocInv, PatchCall PROVE FixupsHold' /\ PatchesHold'
  OBVIOUS
<1>1. PICK ref \in Current :
          /\ Patchable(ref) /\ RelocOf(ref).r_type \in Call /\ Patch(ref, AddressOf(ref))
          /\ UNCHANGED <<program, phase, marks, slots, relaxed, relrel, warnings, records, memory>>
  BY DEF PatchCall
<1>2. PatchStep(ref) /\ UNCHANGED <<relrel, local_got_emitted, relaxed, unrelaxable>>
  BY <1>1 DEF PatchStep, Patch, slots, warnings
<1>3. FixupsHold'
  BY <1>2, FixupsStay
<1>4. Reported' = Reported /\ (ToSet(relrel))' = ToSet(relrel)
  BY <1>1 DEF Reported, warnings, ToSet
<1>5. field' = [field EXCEPT ![ref] = AddressOf(ref)] /\ ref \in DOMAIN field
  BY <1>1, CurrentUnreported DEF Patch
<1>6. field'[ref] = AddressOf(ref) /\ \A r : r # ref => field'[r] = field[r]
  BY <1>5
<1>7. PatchedAsMeant(ref)'
  BY <1>1, <1>2, <1>6, PatchStepIs DEF PatchedAsMeant, Patchable, Call, GotLoad
<1> QED
  BY <1>2, <1>3, <1>4, <1>6, <1>7, CurrentUnreported, PatchesGrow

LEMMA PatchImportLoadKeeps == RelocInv /\ PatchImportLoad => FixupsHold' /\ PatchesHold'
<1> SUFFICES ASSUME RelocInv, PatchImportLoad PROVE FixupsHold' /\ PatchesHold'
  OBVIOUS
<1>1. PICK ref \in Current :
          /\ Patchable(ref) /\ RelocOf(ref).r_type \in GotLoad /\ IsGotSlot(AddressOf(ref))
          /\ Patch(ref, AddressOf(ref))
          /\ UNCHANGED <<program, phase, marks, slots, relaxed, relrel, warnings, records, memory>>
  BY DEF PatchImportLoad
<1>2. PatchStep(ref) /\ UNCHANGED <<relrel, local_got_emitted, relaxed, unrelaxable>>
  BY <1>1 DEF PatchStep, Patch, slots, warnings
<1>3. FixupsHold'
  BY <1>2, FixupsStay
<1>4. Reported' = Reported /\ (ToSet(relrel))' = ToSet(relrel)
  BY <1>1 DEF Reported, warnings, ToSet
<1>5. field' = [field EXCEPT ![ref] = AddressOf(ref)] /\ ref \in DOMAIN field
  BY <1>1, CurrentUnreported DEF Patch
<1>6. field'[ref] = AddressOf(ref) /\ \A r : r # ref => field'[r] = field[r]
  BY <1>5
<1>7. ref \notin relaxed' /\ IsGotSlot(AddressOf(ref))'
  BY <1>1, <1>2, CurrentUnreported, PatchStepIs DEF IsGotSlot
<1>8. PatchedAsMeant(ref)'
  BY <1>1, <1>2, <1>6, <1>7, PatchStepIs DEF PatchedAsMeant, Patchable, Call, GotLoad, IsGotSlot
<1> QED
  BY <1>2, <1>3, <1>4, <1>6, <1>8, CurrentUnreported, PatchesGrow

LEMMA RelaxKeeps == RelocInv /\ Relax => FixupsHold' /\ PatchesHold'
<1> SUFFICES ASSUME RelocInv, Relax PROVE FixupsHold' /\ PatchesHold'
  OBVIOUS
<1>1. PICK ref \in Current :
          /\ LoadOfOwnSymbol(ref) /\ relaxed' = relaxed \union {ref} /\ Patch(ref, AddressOf(ref))
          /\ UNCHANGED <<program, phase, marks, slots, relrel, warnings, records, memory>>
  BY DEF Relax
<1>2. PatchStep(ref) /\ UNCHANGED <<relrel, local_got_emitted, unrelaxable>>
  BY <1>1 DEF PatchStep, Patch, slots, warnings
<1>3. FixupsHold'
  BY <1>2, FixupsStay
<1>4. Reported' = Reported /\ (ToSet(relrel))' = ToSet(relrel)
  BY <1>1 DEF Reported, warnings, ToSet
<1>5. field' = [field EXCEPT ![ref] = AddressOf(ref)] /\ ref \in DOMAIN field
  BY <1>1, CurrentUnreported DEF Patch
<1>6. field'[ref] = AddressOf(ref) /\ \A r : r # ref => field'[r] = field[r]
  BY <1>5
<1>7. /\ RelocOf(ref).r_type \in GotLoad /\ AddressOf(ref) # Nowhere
      /\ ~IsGotSlot(AddressOf(ref))
  BY <1>1 DEF LoadOfOwnSymbol, Patchable
<1>8. PatchedAsMeant(ref)'
  BY <1>1, <1>2, <1>6, <1>7, PatchStepIs DEF PatchedAsMeant, Call, GotLoad, IsGotSlot
<1> QED
  BY <1>1, <1>2, <1>3, <1>4, <1>6, <1>7, <1>8, CurrentUnreported, PatchesGrow

LEMMA UseLocalSlotKeeps == RelocInv /\ UseLocalSlot => FixupsHold' /\ PatchesHold'
<1> SUFFICES ASSUME RelocInv, UseLocalSlot PROVE FixupsHold' /\ PatchesHold'
  OBVIOUS
<1> DEFINE fixup(ref) == Relative(LocalSlot(NameOf(ref)), AddressOf(ref))
<1>1. PICK ref \in Current :
          /\ LoadOfOwnSymbol(ref)
          /\ Contains(local_got_names, NameOf(ref))
          /\ relrel' = IF NeedsFixup(NameOf(ref)) THEN Append(relrel, fixup(ref)) ELSE relrel
          /\ local_got_emitted' = local_got_emitted \union {NameOf(ref)}
          /\ Patch(ref, LocalSlot(NameOf(ref)))
          /\ UNCHANGED <<program, phase, marks, local_got_names, relaxed, warnings, records,
                         memory>>
  BY DEF UseLocalSlot, NameOf
<1>2. PatchStep(ref) /\ UNCHANGED <<relaxed, unrelaxable>>
  BY <1>1 DEF PatchStep, Patch, warnings
<1>3. NameOf(ref) \in ToSet(local_got_names)
  <2>1. local_got_names \in Seq(Name)
    BY DEF RelocInv, TypeHolds
  <2> QED
    BY <1>1, <2>1, ContainsIs
<1>4. FixupsHold' /\ ToSet(relrel) \subseteq (ToSet(relrel))'
  <2>1. CASE NameOf(ref) \in local_got_emitted
    <3>1. UNCHANGED <<relrel, local_got_emitted>>
      BY <1>1, <2>1 DEF NeedsFixup
    <3> QED
      BY <1>2, <3>1, FixupsStay DEF ToSet
  <2>2. CASE NameOf(ref) \notin local_got_emitted
    <3> HIDE DEF fixup
    <3>0. PICK e : e = fixup(ref)
      OBVIOUS
    <3>1. relrel' = Append(relrel, e)
      BY <1>1, <2>2, <3>0 DEF NeedsFixup
    <3>2. PICK name : name = NameOf(ref)
      OBVIOUS
    <3>3. LocalSlot(NameOf(ref))' = LocalSlot(NameOf(ref))
      <4>1. LocalSlot(name)' = LocalSlot(name) /\ name = NameOf(ref)'
        BY <1>2, <3>2, PatchStepIs
      <4> QED
        BY <3>2, <4>1
    <3>4. FixesSlot(e, ref)'
      BY <1>1, <1>2, <3>0, <3>3, PatchStepIs DEF FixesSlot, Relative, fixup
    <3>7. \A record \in ToSet(relrel) : record.target # e.target
      BY <1>3, <2>2, <3>0, NewSlot DEF Relative, fixup
    <3>8. /\ local_got_emitted \subseteq local_got_emitted'
          /\ \A n \in local_got_emitted' \ local_got_emitted :
                 n = NameOf(ref) /\ n \in ToSet(local_got_names) /\ FixesSlot(e, ref)'
      BY <1>1, <1>3, <3>4
    <3>5. FixupsHold'
      BY <1>2, <3>1, <3>4, <3>7, <3>8, FixupsGrow
    <3>6. ToSet(relrel) \subseteq (ToSet(relrel))'
      <4>1. relrel \in Seq(ToSet(relrel) \union {e})
        <5>1. relrel \in Seq(ToSet(relrel))
          BY DEF RelocInv, FixupsHold
        <5> QED
          BY <5>1
      <4>2. ToSet(Append(relrel, e)) = ToSet(relrel) \union {e}
        BY <4>1, AppendIs
      <4> QED
        BY <3>1, <4>2 DEF ToSet
    <3> QED
      BY <3>5, <3>6
  <2> QED
    BY <2>1, <2>2
<1>5. Reported' = Reported
  BY <1>1 DEF Reported, warnings
<1>6. field' = [field EXCEPT ![ref] = LocalSlot(NameOf(ref))] /\ ref \in DOMAIN field
  BY <1>1, CurrentUnreported DEF Patch
<1>7. field'[ref] = LocalSlot(NameOf(ref)) /\ \A r : r # ref => field'[r] = field[r]
  BY <1>6
<1>8. /\ RelocOf(ref).r_type \in GotLoad /\ AddressOf(ref) # Nowhere
      /\ ~IsGotSlot(AddressOf(ref)) /\ ref \notin relaxed'
  BY <1>1, <1>2, CurrentUnreported DEF LoadOfOwnSymbol, Patchable
<1>9. PatchedAsMeant(ref)'
  BY <1>1, <1>2, <1>7, <1>8, PatchStepIs DEF PatchedAsMeant, Call, GotLoad, IsGotSlot
<1> QED
  BY <1>1, <1>2, <1>4, <1>5, <1>7, <1>9, CurrentUnreported, PatchesGrow

LEMMA PatchUnrelaxableKeeps == RelocInv /\ PatchUnrelaxable => FixupsHold' /\ PatchesHold'
<1> SUFFICES ASSUME RelocInv, PatchUnrelaxable PROVE FixupsHold' /\ PatchesHold'
  OBVIOUS
<1>1. PICK ref \in Current :
          /\ LoadOfOwnSymbol(ref) /\ ~Rewritable(RelocOf(ref))
          /\ ~Contains(local_got_names, NameOf(ref))
          /\ unrelaxable' = unrelaxable \union {ref} /\ Patch(ref, AddressOf(ref))
          /\ UNCHANGED <<program, phase, marks, slots, relaxed, relrel, skipped, not_writable,
                         records, memory>>
  BY DEF PatchUnrelaxable, NameOf
<1>2. PatchStep(ref) /\ UNCHANGED <<relrel, local_got_emitted, relaxed>>
  BY <1>1 DEF PatchStep, Patch, slots
<1>3. FixupsHold'
  BY <1>2, FixupsStay
<1>4. Reported \subseteq Reported' /\ ref \in Reported' /\ (ToSet(relrel))' = ToSet(relrel)
  BY <1>1, <1>2 DEF Reported, ToSet
<1>5. field' = [field EXCEPT ![ref] = AddressOf(ref)] /\ ref \in DOMAIN field
  BY <1>1, CurrentUnreported DEF Patch
<1>6. \A r : r # ref => field'[r] = field[r]
  BY <1>5
<1>7. NameOf(ref) \notin ToSet(local_got_names)
  <2>1. local_got_names \in Seq(Name)
    BY DEF RelocInv, TypeHolds
  <2> QED
    BY <1>1, <2>1, ContainsIs
<1> QED
  BY <1>1, <1>2, <1>3, <1>4, <1>6, <1>7, CurrentUnreported, PatchesGrow

LEMMA PatchAbsoluteKeeps == RelocInv /\ PatchAbsolute => FixupsHold' /\ PatchesHold'
<1> SUFFICES ASSUME RelocInv, PatchAbsolute PROVE FixupsHold' /\ PatchesHold'
  OBVIOUS
<1>1. PICK ref \in Current :
          /\ Patchable(ref) /\ RelocOf(ref).r_type = "64"
          /\ relrel' = Append(relrel, Relative(Pointer(ref), AddressOf(ref)))
          /\ not_writable' = IF RegionOf(ref) # "DATA" THEN not_writable \union {ref}
                             ELSE not_writable
          /\ Patch(ref, AddressOf(ref))
          /\ UNCHANGED <<program, phase, marks, slots, relaxed, skipped, unrelaxable, records,
                         memory>>
  BY DEF PatchAbsolute
<1>0. PICK e : e = Relative(Pointer(ref), AddressOf(ref))
  OBVIOUS
<1>2. PatchStep(ref) /\ UNCHANGED <<local_got_emitted, relaxed, unrelaxable>>
  BY <1>1 DEF PatchStep, Patch, slots
<1>3. FixesPointer(e, ref)'
  BY <1>0, <1>1, <1>2, PatchStepIs DEF FixesPointer, Relative, Pointer
<1>4. e.target = Pointer(ref)
  BY <1>0 DEF Relative
<1>5. \A record \in ToSet(relrel) : record.target # e.target
  BY <1>4, NewPointer
<1>6. relrel' = Append(relrel, e)
  BY <1>0, <1>1
<1>7. FixupsHold'
  BY <1>2, <1>3, <1>5, <1>6, FixupsGrow
<1>8. ToSet(relrel) \subseteq (ToSet(relrel))' /\ e \in (ToSet(relrel))'
  <2>1. relrel \in Seq(ToSet(relrel) \union {e})
    <3>1. relrel \in Seq(ToSet(relrel))
      BY DEF RelocInv, FixupsHold
    <3> QED
      BY <3>1
  <2>2. ToSet(Append(relrel, e)) = ToSet(relrel) \union {e}
    BY <2>1, AppendIs
  <2> QED
    BY <1>6, <2>2 DEF ToSet
<1>9. Reported \subseteq Reported'
  BY <1>1 DEF Reported
<1>10. field' = [field EXCEPT ![ref] = AddressOf(ref)] /\ ref \in DOMAIN field
  BY <1>1, CurrentUnreported DEF Patch
<1>11. field'[ref] = AddressOf(ref) /\ \A r : r # ref => field'[r] = field[r]
  BY <1>10
<1>13. (\E record \in ToSet(relrel) : FixesPointer(record, ref))'
  BY <1>3, <1>8
<1>12. PatchedAsMeant(ref)'
  BY <1>1, <1>2, <1>13, PatchStepIs DEF PatchedAsMeant, Patchable, Call, GotLoad
<1> QED
  BY <1>2, <1>7, <1>8, <1>9, <1>11, <1>12, CurrentUnreported, PatchesGrow

LEMMA IgnoreTypeKeeps == RelocInv /\ IgnoreType => FixupsHold' /\ PatchesHold'
<1> SUFFICES ASSUME RelocInv, IgnoreType PROVE FixupsHold' /\ PatchesHold'
  OBVIOUS
<1>1. PICK ref \in Current :
          /\ RelocOf(ref).r_type \notin Patched /\ at' = at + 1
          /\ UNCHANGED <<program, phase, marks, slots, field, relaxed, relrel, warnings, records,
                         memory>>
  BY DEF IgnoreType
<1>2. PatchStep(ref) /\ UNCHANGED <<relrel, local_got_emitted, relaxed, unrelaxable, field>>
  BY <1>1 DEF PatchStep, slots, warnings
<1>3. FixupsHold'
  BY <1>2, FixupsStay
<1>4. Reported' = Reported /\ (ToSet(relrel))' = ToSet(relrel)
  BY <1>1 DEF Reported, warnings, ToSet
<1> QED
  BY <1>1, <1>2, <1>3, <1>4, CurrentUnreported, PatchesGrow

------------------------------------------------------------------------------
\* The tables of records: no two of one target.
DistinctTargets(s) == \A i, j \in DOMAIN s : s[i].target = s[j].target => i = j

LEMMA TargetsConcat ==
    ASSUME NEW S, NEW s \in Seq(S), NEW t \in Seq(S), DistinctTargets(s), DistinctTargets(t),
           \A x \in ToSet(s) : \A y \in ToSet(t) : x.target # y.target
    PROVE  DistinctTargets(s \o t)
<1>1. Len(s) \in Nat /\ Len(t) \in Nat /\ DOMAIN s = 1..Len(s) /\ DOMAIN t = 1..Len(t)
  BY LenProperties
<1>2. /\ s \o t \in Seq(S) /\ Len(s \o t) = Len(s) + Len(t)
      /\ \A i \in 1..Len(s) : (s \o t)[i] = s[i]
      /\ \A j \in 1..Len(t) : (s \o t)[Len(s) + j] = t[j]
  BY ConcatIs
<1>3. DOMAIN (s \o t) = 1..(Len(s) + Len(t))
  BY <1>2, LenProperties
<1>4. ASSUME NEW i \in 1..(Len(s) + Len(t)), i \notin 1..Len(s)
      PROVE  \E j \in 1..Len(t) : i = Len(s) + j
  <2>1. i - Len(s) \in 1..Len(t) /\ i = Len(s) + (i - Len(s))
    BY <1>1, <1>4
  <2> QED
    BY <2>1
<1> SUFFICES ASSUME NEW i \in 1..(Len(s) + Len(t)), NEW j \in 1..(Len(s) + Len(t)),
                    (s \o t)[i].target = (s \o t)[j].target
             PROVE  i = j
  BY <1>3 DEF DistinctTargets
<1>5. CASE i \in 1..Len(s) /\ j \in 1..Len(s)
  BY <1>1, <1>2, <1>5 DEF DistinctTargets
<1>6. CASE i \in 1..Len(s) /\ j \notin 1..Len(s)
  <2>1. PICK k \in 1..Len(t) : j = Len(s) + k
    BY <1>4, <1>6
  <2>2. s[i].target = t[k].target
    BY <1>2, <1>6, <2>1
  <2> QED
    BY <1>1, <1>6, <2>2 DEF ToSet
<1>7. CASE i \notin 1..Len(s) /\ j \in 1..Len(s)
  <2>1. PICK k \in 1..Len(t) : i = Len(s) + k
    BY <1>4, <1>7
  <2>2. s[j].target = t[k].target
    BY <1>2, <1>7, <2>1
  <2> QED
    BY <1>1, <1>7, <2>2 DEF ToSet
<1>8. CASE i \notin 1..Len(s) /\ j \notin 1..Len(s)
  <2>1. PICK k \in 1..Len(t) : i = Len(s) + k
    BY <1>4, <1>8
  <2>2. PICK l \in 1..Len(t) : j = Len(s) + l
    BY <1>4, <1>8
  <2>3. t[k].target = t[l].target
    BY <1>2, <2>1, <2>2
  <2> QED
    BY <1>1, <2>1, <2>2, <2>3 DEF DistinctTargets
<1> QED
  BY <1>5, <1>6, <1>7, <1>8

\* The records of the called imports and of the loaded ones: each in the slot of
\* its number, with the import's place in the symbol table.
LEMMA SymbolRecordsAre ==
    ASSUME Linked
    PROVE  /\ DOMAIN JumpSlots = 1..Len(bound) /\ DOMAIN GlobDats = 1..Len(gotdata)
           /\ JumpSlots \in Seq(ToSet(JumpSlots)) /\ GlobDats \in Seq(ToSet(GlobDats))
           /\ \A k \in 1..Len(bound) :
                  /\ JumpSlots[k].type = "JUMP_SLOT" /\ JumpSlots[k].target = <<"got", k>>
                  /\ JumpSlots[k].sym \in DOMAIN imports
                  /\ imports[JumpSlots[k].sym] = bound[k]
           /\ \A k \in 1..Len(gotdata) :
                  /\ GlobDats[k].type = "GLOB_DAT"
                  /\ GlobDats[k].target = <<"got", Len(bound) + k>>
                  /\ GlobDats[k].sym \in DOMAIN imports
                  /\ imports[GlobDats[k].sym] = gotdata[k]
<1>1. /\ bound \in Seq(Name) /\ gotdata \in Seq(Name)
      /\ NoneTwice(bound) /\ NoneTwice(gotdata)
      /\ ToSet(bound) \subseteq ToSet(imports) /\ ToSet(gotdata) \subseteq ToSet(imports)
      /\ Len(bound) \in Nat /\ Len(gotdata) \in Nat
      /\ DOMAIN bound = 1..Len(bound) /\ DOMAIN gotdata = 1..Len(gotdata)
  BY SlotsOfImports
<1>2. imports \in Seq(Name) /\ DOMAIN imports = 1..Len(imports)
  BY ImportsAre, LenProperties
<1>3. \A n \in ToSet(imports) : PositionIn(imports, n) \in DOMAIN imports
                                /\ imports[PositionIn(imports, n)] = n
  BY <1>2, PositionIs
<1>4. ASSUME NEW k \in 1..Len(bound)
      PROVE  /\ JumpSlots[k].type = "JUMP_SLOT" /\ JumpSlots[k].target = <<"got", k>>
             /\ JumpSlots[k].sym \in DOMAIN imports
             /\ imports[JumpSlots[k].sym] = bound[k]
  <2>1. bound[k] \in ToSet(imports)
    BY <1>1 DEF ToSet
  <2>2. PositionIn(bound, bound[k]) = k
    BY <1>1, PositionIs
  <2> QED
    BY <1>1, <1>3, <2>1, <2>2 DEF JumpSlots, SymbolRecord, BoundSlot
<1>5. ASSUME NEW k \in 1..Len(gotdata)
      PROVE  /\ GlobDats[k].type = "GLOB_DAT" /\ GlobDats[k].target = <<"got", Len(bound) + k>>
             /\ GlobDats[k].sym \in DOMAIN imports
             /\ imports[GlobDats[k].sym] = gotdata[k]
  <2>1. gotdata[k] \in ToSet(imports)
    BY <1>1 DEF ToSet
  <2>2. PositionIn(gotdata, gotdata[k]) = k
    BY <1>1, PositionIs
  <2> QED
    BY <1>1, <1>3, <2>1, <2>2 DEF GlobDats, SymbolRecord, GotdataSlot
<1>6. DOMAIN JumpSlots = 1..Len(bound) /\ DOMAIN GlobDats = 1..Len(gotdata)
  BY <1>1 DEF JumpSlots, GlobDats
<1>7. JumpSlots = [k \in 1..Len(bound) |-> JumpSlots[k]]
      /\ GlobDats = [k \in 1..Len(gotdata) |-> GlobDats[k]]
  BY <1>1 DEF JumpSlots, GlobDats
<1>8. JumpSlots \in Seq(ToSet(JumpSlots)) /\ GlobDats \in Seq(ToSet(GlobDats))
  <2>1. \A k \in 1..Len(bound) : JumpSlots[k] \in ToSet(JumpSlots)
    BY <1>6 DEF ToSet
  <2>2. \A k \in 1..Len(gotdata) : GlobDats[k] \in ToSet(GlobDats)
    BY <1>6 DEF ToSet
  <2> QED
    BY <1>1, <1>7, <2>1, <2>2
<1> QED
  BY <1>4, <1>5, <1>6, <1>8

\* The fixups: relative, of a field or of a slot behind those of the imports.
LEMMA FixupsAre ==
    ASSUME Linked, TypeHolds, FixupsHold, NEW record \in ToSet(relrel)
    PROVE  /\ record.type = "RELATIVE"
           /\ \/ record.target[1] = "field"
              \/ /\ record.target[1] = "got" /\ record.target[2] \in Nat
                 /\ record.target[2] > Len(bound) + Len(gotdata)
<1>1. PICK r \in ToSet(References) : FixesPointer(record, r) \/ FixesSlot(record, r)
  BY DEF FixupsHold
<1>2. CASE FixesPointer(record, r)
  BY <1>2 DEF FixesPointer, Relative, Pointer
<1>3. CASE FixesSlot(record, r)
  <2>1. NameOf(r) \in ToSet(local_got_names) /\ record = Relative(LocalSlot(NameOf(r)), AddressOf(r))
    BY <1>3 DEF FixesSlot, FixupsHold
  <2>2. record.type = "RELATIVE" /\ record.target = LocalSlot(NameOf(r))
    BY <2>1 DEF Relative
  <2> QED
    BY <2>1, <2>2, LocalSlotIs
<1> QED
  BY <1>1, <1>2, <1>3

LEMMA RecordsAre ==
    ASSUME Linked, TypeHolds, FixupsHold, TablesHold, phase \in {"load", "done"}
    PROVE  /\ Len(Records) \in Nat /\ DOMAIN Records = 1..Len(Records)
           /\ ToSet(Records) = ToSet(ParamRelatives) \union ToSet(relrel)
                                   \union ToSet(GlobDats) \union ToSet(JumpSlots)
           /\ DistinctTargets(Records)
           /\ \A i \in DOMAIN reladyn : i <= relative_count <=> reladyn[i].type = "RELATIVE"
           /\ \A i \in DOMAIN Records : i <= relative_count <=> Records[i].type = "RELATIVE"
<1> DEFINE P == ParamRelatives
           R == relrel
           G == GlobDats
           J == JumpSlots
           X == ToSet(P) \union ToSet(R) \union ToSet(G) \union ToSet(J)
<1>1. /\ \A k \in 1..Len(bound) : J[k].type = "JUMP_SLOT" /\ J[k].target = <<"got", k>>
      /\ \A k \in 1..Len(gotdata) : /\ G[k].type = "GLOB_DAT"
                                    /\ G[k].target = <<"got", Len(bound) + k>>
      /\ DOMAIN J = 1..Len(bound) /\ DOMAIN G = 1..Len(gotdata)
      /\ Len(bound) \in Nat /\ Len(gotdata) \in Nat
  BY SymbolRecordsAre, SlotsOfImports
<1>2. /\ DOMAIN P = 1..8 /\ P = [k \in 1..8 |-> P[k]]
      /\ \A k \in 1..8 : P[k].type = "RELATIVE" /\ P[k].target = <<"param", k>>
  BY DEF ParamRelatives, Relative
<1>3. \A x \in ToSet(R) : /\ x.type = "RELATIVE"
                          /\ \/ x.target[1] = "field"
                             \/ /\ x.target[1] = "got" /\ x.target[2] \in Nat
                                /\ x.target[2] > Len(bound) + Len(gotdata)
  BY FixupsAre
<1>4. /\ \A x \in ToSet(P) : x.type = "RELATIVE" /\ x.target[1] = "param"
      /\ \A x \in ToSet(G) : /\ x.type = "GLOB_DAT" /\ x.target[1] = "got"
                             /\ x.target[2] \in (Len(bound) + 1)..(Len(bound) + Len(gotdata))
      /\ \A x \in ToSet(J) : /\ x.type = "JUMP_SLOT" /\ x.target[1] = "got"
                             /\ x.target[2] \in 1..Len(bound)
  <2>1. \A x \in ToSet(P) : x.type = "RELATIVE" /\ x.target[1] = "param"
    BY <1>2 DEF ToSet
  <2>2. \A x \in ToSet(G) : \E k \in 1..Len(gotdata) : x = G[k]
    BY <1>1 DEF ToSet
  <2>3. \A x \in ToSet(J) : \E k \in 1..Len(bound) : x = J[k]
    BY <1>1 DEF ToSet
  <2>4. \A k \in 1..Len(gotdata) : <<"got", Len(bound) + k>>[1] = "got"
             /\ <<"got", Len(bound) + k>>[2] = Len(bound) + k
             /\ Len(bound) + k \in (Len(bound) + 1)..(Len(bound) + Len(gotdata))
    BY <1>1
  <2> HIDE DEF P, G, J
  <2> QED
    BY <1>1, <2>1, <2>2, <2>3, <2>4
<1>5. P \in Seq(X) /\ R \in Seq(X) /\ G \in Seq(X) /\ J \in Seq(X)
  <2>1. \A k \in 1..8 : P[k] \in ToSet(P)
    BY <1>2 DEF ToSet
  <2>2. P \in Seq(ToSet(P))
    BY <1>2, <2>1
  <2>3. R \in Seq(ToSet(R)) /\ G \in Seq(ToSet(G)) /\ J \in Seq(ToSet(J))
    BY SymbolRecordsAre DEF FixupsHold
  <2> HIDE DEF P, R, G, J
  <2> QED
    BY <2>2, <2>3
<1>6. DistinctTargets(P) /\ DistinctTargets(R) /\ DistinctTargets(G) /\ DistinctTargets(J)
  <2>1. DistinctTargets(P)
    BY <1>2 DEF DistinctTargets
  <2>2. DistinctTargets(R)
    BY DEF DistinctTargets, FixupsHold
  <2>3. DistinctTargets(G)
    <3> SUFFICES ASSUME NEW i \in 1..Len(gotdata), NEW j \in 1..Len(gotdata),
                        G[i].target = G[j].target
                 PROVE  i = j
      BY <1>1 DEF DistinctTargets
    <3>1. <<"got", Len(bound) + i>>[2] = <<"got", Len(bound) + j>>[2]
      BY <1>1
    <3> QED
      BY <1>1, <3>1
  <2>4. DistinctTargets(J)
    <3> SUFFICES ASSUME NEW i \in 1..Len(bound), NEW j \in 1..Len(bound),
                        J[i].target = J[j].target
                 PROVE  i = j
      BY <1>1 DEF DistinctTargets
    <3>1. <<"got", i>>[2] = <<"got", j>>[2]
      BY <1>1
    <3> QED
      BY <3>1
  <2> QED
    BY <2>1, <2>2, <2>3, <2>4
<1>7. reladyn = (P \o R) \o G /\ relaplt = J /\ relative_count = 8 + Len(R)
  BY DEF TablesHold, PointersFirst
<1>8. Len(P) = 8 /\ Len(R) \in Nat /\ Len(G) \in Nat /\ Len(J) \in Nat
  BY <1>2, <1>5, LenProperties
<1> HIDE DEF P, R, G, J, X
<1>9. /\ P \o R \in Seq(X) /\ ToSet(P \o R) = ToSet(P) \union ToSet(R)
      /\ Len(P \o R) = 8 + Len(R)
  <2>1. /\ P \o R \in Seq(X) /\ ToSet(P \o R) = ToSet(P) \union ToSet(R)
        /\ Len(P \o R) = Len(P) + Len(R)
    BY ONLY <1>5, ConcatIs
  <2> QED
    BY <1>8, <2>1
<1>10. DistinctTargets(P \o R)
  BY <1>3, <1>4, <1>5, <1>6, TargetsConcat
<1>11. /\ reladyn \in Seq(X) /\ ToSet(reladyn) = ToSet(P) \union ToSet(R) \union ToSet(G)
       /\ Len(reladyn) = 8 + Len(R) + Len(G)
       /\ \A i \in 1..(8 + Len(R)) : reladyn[i] = (P \o R)[i]
       /\ \A j \in 1..Len(G) : reladyn[8 + Len(R) + j] = G[j]
  <2> DEFINE PR == P \o R
  <2>1. PR \in Seq(X) /\ G \in Seq(X)
    BY <1>5, <1>9
  <2> HIDE DEF PR
  <2>2. /\ PR \o G \in Seq(X) /\ ToSet(PR \o G) = ToSet(PR) \union ToSet(G)
        /\ Len(PR \o G) = Len(PR) + Len(G)
        /\ \A i \in 1..Len(PR) : (PR \o G)[i] = PR[i]
        /\ \A j \in 1..Len(G) : (PR \o G)[Len(PR) + j] = G[j]
    BY ONLY <2>1, ConcatIs
  <2> QED
    BY <1>7, <1>9, <2>2 DEF PR
<1>PG. \A x \in ToSet(P) : \A y \in ToSet(G) : x.target # y.target
  BY <1>4
<1>PJ. \A x \in ToSet(P) : \A y \in ToSet(J) : x.target # y.target
  BY <1>4
<1>RG. \A x \in ToSet(R) : \A y \in ToSet(G) : x.target # y.target
  BY <1>1, <1>3, <1>4
<1>RJ. \A x \in ToSet(R) : \A y \in ToSet(J) : x.target # y.target
  BY <1>1, <1>3, <1>4
<1>GJ. \A x \in ToSet(G) : \A y \in ToSet(J) : x.target # y.target
  BY <1>1, <1>4
<1>12. DistinctTargets(reladyn)
  <2>1. \A x \in ToSet(P \o R) : \A y \in ToSet(G) : x.target # y.target
    <3>1. \A x \in ToSet(P \o R) : x \in ToSet(P) \/ x \in ToSet(R)
      BY <1>9
    <3> QED
      BY <1>PG, <1>RG, <3>1
  <2> QED
    BY <1>5, <1>6, <1>7, <1>9, <1>10, <2>1, TargetsConcat
<1>13. /\ Records \in Seq(X) /\ ToSet(Records) = ToSet(reladyn) \union ToSet(J)
       /\ Len(Records) = 8 + Len(R) + Len(G) + Len(J)
       /\ \A i \in 1..Len(reladyn) : Records[i] = reladyn[i]
       /\ \A j \in 1..Len(J) : Records[Len(reladyn) + j] = J[j]
  <2>1. reladyn \in Seq(X) /\ J \in Seq(X)
    BY <1>5, <1>11
  <2>2. /\ reladyn \o J \in Seq(X) /\ ToSet(reladyn \o J) = ToSet(reladyn) \union ToSet(J)
        /\ Len(reladyn \o J) = Len(reladyn) + Len(J)
        /\ \A i \in 1..Len(reladyn) : (reladyn \o J)[i] = reladyn[i]
        /\ \A j \in 1..Len(J) : (reladyn \o J)[Len(reladyn) + j] = J[j]
    BY ONLY <2>1, ConcatIs
  <2> QED
    BY <1>7, <1>11, <2>2 DEF Records
<1>14. DistinctTargets(Records)
  <2>1. \A x \in ToSet(reladyn) : \A y \in ToSet(J) : x.target # y.target
    <3>1. \A x \in ToSet(reladyn) : x \in ToSet(P) \/ x \in ToSet(R) \/ x \in ToSet(G)
      BY <1>11
    <3> QED
      BY <1>PJ, <1>RJ, <1>GJ, <3>1
  <2> QED
    BY <1>5, <1>6, <1>7, <1>11, <1>12, <2>1, TargetsConcat DEF Records
<1>15. ASSUME NEW i \in 1..Len(reladyn)
       PROVE  i <= relative_count <=> reladyn[i].type = "RELATIVE"
  <2>1. CASE i <= relative_count
    <3>1. i \in 1..(8 + Len(R)) /\ i \in DOMAIN (P \o R)
      BY <1>7, <1>8, <1>9, <2>1, LenProperties
    <3>2. reladyn[i] \in ToSet(P \o R)
      BY <1>11, <3>1 DEF ToSet
    <3> QED
      BY <1>3, <1>4, <1>9, <2>1, <3>2
  <2>2. CASE ~(i <= relative_count)
    <3>1. i - (8 + Len(R)) \in 1..Len(G) /\ i = 8 + Len(R) + (i - (8 + Len(R)))
      BY <1>7, <1>8, <1>11, <2>2
    <3>2. reladyn[i] = G[i - (8 + Len(R))]
      BY <1>11, <3>1
    <3>3. reladyn[i] \in ToSet(G)
      BY <1>5, <3>1, <3>2, LenProperties DEF ToSet
    <3> QED
      BY <1>4, <2>2, <3>3
  <2> QED
    BY <2>1, <2>2
<1>16. ASSUME NEW i \in 1..Len(Records)
       PROVE  i <= relative_count <=> Records[i].type = "RELATIVE"
  <2>1. CASE i <= Len(reladyn)
    BY <1>8, <1>11, <1>13, <1>15, <2>1
  <2>2. CASE ~(i <= Len(reladyn))
    <3>1. i - Len(reladyn) \in 1..Len(J) /\ i = Len(reladyn) + (i - Len(reladyn))
      BY <1>8, <1>11, <1>13, <2>2
    <3>2. Records[i] = J[i - Len(reladyn)]
      BY <1>13, <3>1
    <3>3. Records[i] \in ToSet(J)
      BY <1>5, <3>1, <3>2, LenProperties DEF ToSet
    <3>4. ~(i <= relative_count)
      BY <1>7, <1>8, <1>11, <2>2
    <3> QED
      BY <1>4, <3>3, <3>4
  <2> QED
    BY <2>1, <2>2
<1>17. Len(Records) \in Nat /\ DOMAIN Records = 1..Len(Records)
       /\ DOMAIN reladyn = 1..Len(reladyn)
  BY <1>11, <1>13, LenProperties
<1> QED
  BY <1>11, <1>13, <1>14, <1>15, <1>16, <1>17 DEF P, R, G, J

------------------------------------------------------------------------------
\* Fixups and fields after the patching: all references are passed, and nothing
\* of theirs changes.
LEMMA NothingPatchedMore ==
    ASSUME RelocInv,
           UNCHANGED <<program, marks, slots, field, relaxed, relrel, warnings>>,
           \A r \in ToSet(References) : Passed(r)' <=> Passed(r),
           \A r \in relaxed : Passed(r) => Passed(r)'
    PROVE  FixupsHold' /\ PatchesHold'
<1>1. FixupsHold /\ PatchesHold
  BY DEF RelocInv
<1>2. /\ UNCHANGED program /\ UNCHANGED <<program, marks>>
      /\ UNCHANGED <<program, marks, local_got_names>>
      /\ UNCHANGED <<local_got_emitted, skipped, unrelaxable, not_writable>>
  BY DEF slots, warnings
<1>3. /\ References' = References
      /\ \A r : /\ RelocOf(r)' = RelocOf(r) /\ NameOf(r)' = NameOf(r)
                /\ RegionOf(r)' = RegionOf(r)
                /\ AddressOf(r)' = AddressOf(r)
                /\ LoadOfOwnSymbol(r)' = LoadOfOwnSymbol(r)
      /\ \A n : LocalSlot(n)' = LocalSlot(n)
  BY <1>2, FixedByObjects, FixedByMarks, FixedBySlots
<1>4. /\ (ToSet(References))' = ToSet(References) /\ (ToSet(relrel))' = ToSet(relrel)
      /\ ToSet(local_got_names)' = ToSet(local_got_names)
      /\ Reported' = Reported
  BY <1>2, <1>3 DEF ToSet, Reported
<1>5. \A record, r : /\ FixesPointer(record, r)' <=> FixesPointer(record, r)
                     /\ FixesSlot(record, r)' <=> FixesSlot(record, r)
  BY <1>2, <1>3 DEF FixesPointer, FixesSlot, Pointer, Relative
<1>6. FixupsHold'
  <2>1. (relrel \in Seq(ToSet(relrel)))'
    BY <1>1, <1>4 DEF FixupsHold
  <2>2. ASSUME NEW record \in ToSet(relrel)
        PROVE  \E r \in ToSet(References) : Passed(r)' /\ (FixesPointer(record, r)' \/ FixesSlot(record, r)')
    BY <1>1, <1>5 DEF FixupsHold
  <2>3. ASSUME NEW n \in local_got_emitted
        PROVE  /\ n \in ToSet(local_got_names)'
               /\ \E record \in ToSet(relrel) : \E r \in ToSet(References) :
                      NameOf(r)' = n /\ FixesSlot(record, r)'
    BY <1>1, <1>3, <1>4, <1>5 DEF FixupsHold
  <2> QED
    BY <1>1, <1>2, <1>4, <2>1, <2>2, <2>3 DEF FixupsHold
<1>7. \A r : PatchedAsMeant(r)' <=> PatchedAsMeant(r)
  BY <1>2, <1>3, <1>4, <1>5 DEF PatchedAsMeant, IsGotSlot
<1>8. \A r : Rewritable(RelocOf(r))' = Rewritable(RelocOf(r))
  BY <1>3 DEF Rewritable
<1>9. PatchesHold'
  <2>1. \A r \in relaxed : RelocOf(r)'.r_type \in GotLoad /\ Passed(r)'
    BY <1>1, <1>3 DEF PatchesHold
  <2>2. \A r \in unrelaxable : /\ r \in ToSet(References)
                               /\ LoadOfOwnSymbol(r)' /\ ~Rewritable(RelocOf(r))'
                               /\ NameOf(r)' \notin ToSet(local_got_names)'
    BY <1>1, <1>3, <1>4, <1>8 DEF PatchesHold
  <2>3. ASSUME NEW r \in ToSet(References), Passed(r)', r \notin Reported,
               RelocOf(r).r_type \in Patched, RegionOf(r) \notin {"NONE", "BSS"}
        PROVE  PatchedAsMeant(r)'
    BY <1>1, <1>7, <2>3 DEF PatchesHold
  <2> QED
    BY <1>2, <1>3, <1>4, <2>1, <2>2, <2>3 DEF PatchesHold
<1> QED
  BY <1>6, <1>9

LEMMA LateStepsKeep ==
    ASSUME RelocInv, BuildRecords \/ LoadRecord \/ EndLoad \/ UNCHANGED vars
    PROVE  FixupsHold' /\ PatchesHold'
<1>1. UNCHANGED <<program, marks, slots, field, relaxed, relrel, warnings>> /\ UNCHANGED program
  BY DEF BuildRecords, LoadRecord, EndLoad, vars, marks, slots, warnings
<1>2. References' = References /\ DOMAIN References = 1..Len(References) /\ Len(References) \in Nat
  BY <1>1, FixedByObjects, ReferencesAre DEF RelocInv
<1>3. CASE UNCHANGED <<phase, at>>
  <2>1. \A r : Passed(r)' <=> Passed(r)
    BY <1>2, <1>3 DEF Passed
  <2> QED
    BY <1>1, <2>1, NothingPatchedMore
<1>4. CASE phase' \in {"load", "done"}
           /\ (phase \in {"load", "done"} \/ (phase = "patch" /\ at > Len(References)))
  <2>1. \A r \in ToSet(References) : Passed(r)' /\ Passed(r)
    <3> SUFFICES ASSUME NEW r \in ToSet(References) PROVE Passed(r)' /\ Passed(r)
      OBVIOUS
    <3>1. PICK i \in DOMAIN References : r = References[i]
      BY DEF ToSet
    <3>2. at \in Nat
      BY DEF RelocInv, TypeHolds
    <3>3. phase = "patch" => i < at
      BY <1>2, <1>4, <3>2
    <3> QED
      BY <1>2, <1>4, <3>1, <3>3 DEF Passed
  <2>2. relaxed \subseteq ToSet(References)
    BY DEF RelocInv, TypeHolds
  <2> QED
    BY <1>1, <2>1, <2>2, NothingPatchedMore
<1> QED
  BY <1>3, <1>4 DEF BuildRecords, LoadRecord, EndLoad, NextPhase, vars

\* The tables are built once, and read from then on.
LEMMA TablesKept == RelocInv /\ [Next]_vars => TablesHold'
<1> SUFFICES ASSUME RelocInv, [Next]_vars PROVE TablesHold'
  OBVIOUS
<1>1. TablesHold
  BY DEF RelocInv
<1>2. CASE UNCHANGED <<program, marks, relrel, records>>
           /\ phase \in {"load", "done"} /\ phase' \in {"load", "done"}
  BY <1>1, <1>2, FixedByMarks DEF TablesHold, records, ParamRelatives, Relative, PointersFirst
<1>3. CASE UNCHANGED records /\ phase \notin {"load", "done"} /\ phase' \notin {"load", "done"}
  BY <1>1, <1>3 DEF TablesHold, records
<1>4. CASE MarkImport \/ EndScan \/ CountLocalSlot \/ EndPrescan
  BY <1>3, <1>4 DEF MarkImport, EndScan, CountLocalSlot, EndPrescan, AtReference, NextPhase
<1>5. CASE PassUnstored \/ LeaveUnpatched \/ PatchCall \/ PatchImportLoad \/ Relax
           \/ UseLocalSlot \/ PatchUnrelaxable \/ PatchAbsolute \/ IgnoreType
  BY <1>3, <1>5 DEF PassUnstored, LeaveUnpatched, PatchCall, PatchImportLoad, Relax, UseLocalSlot,
                    PatchUnrelaxable, PatchAbsolute, IgnoreType, Current, AtReference
<1>6. CASE BuildRecords
  <2>1. /\ phase' = "load" /\ UNCHANGED <<program, marks, relrel>>
        /\ relaplt' = JumpSlots
        /\ reladyn' = PointersFirst(ParamRelatives, relrel, GlobDats)
        /\ relative_count' = 8 + Len(relrel)
    BY <1>6 DEF BuildRecords, NextPhase
  <2>2. UNCHANGED <<program, marks>>
    BY <2>1
  <2> QED
    BY <2>1, <2>2, FixedByMarks DEF TablesHold, ParamRelatives, Relative, PointersFirst
<1>7. CASE LoadRecord \/ EndLoad
  BY <1>2, <1>7 DEF LoadRecord, EndLoad
<1>8. CASE UNCHANGED vars
  <2>1. UNCHANGED <<program, marks, relrel, records>> /\ UNCHANGED phase
    BY <1>8 DEF vars, marks, records
  <2>2. phase \notin {"load", "done"} \/ phase \in {"load", "done"}
    OBVIOUS
  <2> QED
    BY <1>2, <1>3, <2>1, <2>2
<1> QED
  BY <1>4, <1>5, <1>6, <1>7, <1>8 DEF Next

\* A record applied writes its own target, and no other record's.
LEMMA MemoryKept == RelocInv /\ [Next]_vars => MemoryHolds'
<1> SUFFICES ASSUME RelocInv, [Next]_vars PROVE MemoryHolds'
  OBVIOUS
<1>1. MemoryHolds /\ Linked /\ TypeHolds /\ FixupsHold /\ TablesHold
  BY DEF RelocInv
<1>2. CASE phase' \notin {"load", "done"}
  BY <1>2 DEF MemoryHolds
<1>3. CASE MarkImport \/ EndScan \/ CountLocalSlot \/ EndPrescan
  BY <1>2, <1>3 DEF MarkImport, EndScan, CountLocalSlot, EndPrescan, AtReference, NextPhase
<1>4. CASE PassUnstored \/ LeaveUnpatched \/ PatchCall \/ PatchImportLoad \/ Relax
           \/ UseLocalSlot \/ PatchUnrelaxable \/ PatchAbsolute \/ IgnoreType
  BY <1>2, <1>4 DEF PassUnstored, LeaveUnpatched, PatchCall, PatchImportLoad, Relax, UseLocalSlot,
                    PatchUnrelaxable, PatchAbsolute, IgnoreType, Current, AtReference
<1>5. CASE BuildRecords
  <2>1. phase' = "load" /\ at' = 1
    BY <1>5 DEF BuildRecords, NextPhase
  <2>2. Linked' /\ TypeHolds' /\ FixupsHold' /\ TablesHold'
    <3>1. Linked' /\ TypeHolds' /\ TablesHold'
      BY <1>1, LinkedKept, TypesKept, TablesKept
    <3>2. FixupsHold'
      BY <1>5, LateStepsKeep
    <3> QED
      BY <3>1, <3>2
  <2>3. DOMAIN Records' = 1..Len(Records')
    <3>1. (phase \in {"load", "done"})'
      BY <2>1
    <3>2. (DOMAIN Records = 1..Len(Records))'
      BY <2>2, <3>1, RecordsAre, PTL
    <3> QED
      BY <3>2
  <2>4. \A i \in DOMAIN Records' : ~(i < at')
    BY <2>1, <2>3
  <2> QED
    BY <2>1, <2>4 DEF MemoryHolds
<1>6. ASSUME UNCHANGED <<program, records>>
      PROVE  /\ Records' = Records
             /\ \A i \in DOMAIN Records : Loaded(i)' = Loaded(i)
  <2>1. Records' = Records /\ imports' = imports /\ relative_count' = relative_count
    BY <1>6, FixedByObjects DEF Records, records
  <2> QED
    BY <2>1 DEF Loaded
<1>7. CASE LoadRecord
  <2>1. /\ phase = "load" /\ phase' = "load" /\ at <= Len(Records) /\ at' = at + 1
        /\ memory' = [place \in DOMAIN memory \union {Records[at].target} |->
                         IF place = Records[at].target THEN Loaded(at) ELSE memory[place]]
        /\ UNCHANGED <<program, records>>
    BY <1>7 DEF LoadRecord
  <2>2. /\ Len(Records) \in Nat /\ DOMAIN Records = 1..Len(Records)
        /\ DistinctTargets(Records)
    BY <1>1, <2>1, RecordsAre
  <2>3. at \in DOMAIN Records /\ at \in Nat
    BY <1>1, <2>1, <2>2 DEF TypeHolds
  <2>4. DOMAIN memory' = {Records[at].target} \union DOMAIN memory
        /\ memory'[Records[at].target] = Loaded(at)
        /\ \A t \in DOMAIN memory : t # Records[at].target => memory'[t] = memory[t]
    BY <2>1
  <2>5. ASSUME NEW i \in DOMAIN Records, i < at + 1
        PROVE  Records[i].target \in DOMAIN memory' /\ memory'[Records[i].target] = Loaded(i)
    <3>1. CASE i = at
      BY <2>4, <3>1
    <3>2. CASE i # at
      <4>1. i < at
        BY <2>2, <2>3, <2>5, <3>2
      <4>2. Records[i].target \in DOMAIN memory /\ memory[Records[i].target] = Loaded(i)
        BY <1>1, <2>1, <4>1 DEF MemoryHolds
      <4>3. Records[i].target # Records[at].target
        BY <2>2, <2>3, <3>2 DEF DistinctTargets
      <4> QED
        BY <2>4, <4>2, <4>3
    <3> QED
      BY <3>1, <3>2
  <2>6. Records' = Records /\ \A i \in DOMAIN Records : Loaded(i)' = Loaded(i)
    BY <1>6, <2>1
  <2> QED
    BY <2>1, <2>5, <2>6 DEF MemoryHolds
<1>8. CASE EndLoad
  <2>1. phase = "load" /\ at > Len(Records) /\ UNCHANGED <<program, records>> /\ UNCHANGED memory
    BY <1>8 DEF EndLoad
  <2>2. Len(Records) \in Nat /\ DOMAIN Records = 1..Len(Records)
    BY <1>1, <2>1, RecordsAre
  <2>3. \A i \in DOMAIN Records : i < at
    BY <1>1, <2>1, <2>2 DEF TypeHolds
  <2>4. Records' = Records /\ \A i \in DOMAIN Records : Loaded(i)' = Loaded(i)
    BY <1>6, <2>1
  <2> QED
    BY <1>1, <2>1, <2>3, <2>4 DEF MemoryHolds
<1>9. CASE UNCHANGED vars
  <2>1. UNCHANGED <<program, records>> /\ UNCHANGED <<phase, at, memory>>
    BY <1>9 DEF vars, records
  <2>2. Records' = Records /\ \A i \in DOMAIN Records : Loaded(i)' = Loaded(i)
    BY <1>6, <2>1
  <2> QED
    BY <1>1, <2>1, <2>2 DEF MemoryHolds
<1> QED
  BY <1>3, <1>4, <1>5, <1>7, <1>8, <1>9 DEF Next

\* The invariant: kept by every step, so always true.
LEMMA RelocNextKeeps == RelocInv /\ [Next]_vars => RelocInv'
<1> SUFFICES ASSUME RelocInv, [Next]_vars PROVE RelocInv'
  OBVIOUS
<1>1. FixupsHold' /\ PatchesHold'
  BY EarlyStepsKeep, LateStepsKeep, PassUnstoredKeeps, LeaveUnpatchedKeeps, PatchCallKeeps,
     PatchImportLoadKeeps, RelaxKeeps, UseLocalSlotKeeps, PatchUnrelaxableKeeps,
     PatchAbsoluteKeeps, IgnoreTypeKeeps DEF Next
<1>2. Linked' /\ TypeHolds' /\ WalksStartEmpty' /\ SlotsHold' /\ TablesHold' /\ MemoryHolds'
  BY LinkedKept, TypesKept, StartEmptyKept, SlotsKept, TablesKept, MemoryKept DEF RelocInv
<1> QED
  BY <1>1, <1>2 DEF RelocInv

LEMMA RelocAlways == Spec => []RelocInv
BY RelocStarts, RelocNextKeeps, PTL DEF Spec

------------------------------------------------------------------------------
LEMMA TypeFollows == RelocInv => TypeOK
<1> SUFFICES ASSUME RelocInv PROVE TypeOK
  OBVIOUS
<1>1. Linked /\ TypeHolds /\ FixupsHold /\ TablesHold
  BY DEF RelocInv
<1>2. ASSUME NEW i \in DOMAIN Records, Records[i].type # "RELATIVE"
      PROVE  Records[i].sym \in DOMAIN imports
  <2>1. CASE phase \in {"load", "done"}
    <3>1. Records[i] \in ToSet(ParamRelatives) \union ToSet(relrel) \union ToSet(GlobDats)
                             \union ToSet(JumpSlots)
      BY <1>1, <2>1, RecordsAre DEF ToSet
    <3>2. \A x \in ToSet(ParamRelatives) : x.type = "RELATIVE"
      BY DEF ToSet, ParamRelatives, Relative
    <3>3. \A x \in ToSet(relrel) : x.type = "RELATIVE"
      BY <1>1, FixupsAre
    <3>4. \A x \in ToSet(GlobDats) \union ToSet(JumpSlots) : x.sym \in DOMAIN imports
      BY <1>1, SymbolRecordsAre DEF ToSet
    <3> QED
      BY <1>2, <3>1, <3>2, <3>3, <3>4
  <2>2. CASE phase \notin {"load", "done"}
    <3>1. Records = <<>> \o <<>>
      BY <1>1, <2>2 DEF TablesHold, Records
    <3> QED
      BY <3>1
  <2> QED
    BY <2>1, <2>2
<1>3. relative_count \in Nat
  <2>1. Len(relrel) \in Nat
    BY <1>1, LenProperties DEF FixupsHold
  <2> QED
    BY <1>1, <2>1 DEF TablesHold
<1> QED
  BY <1>1, <1>2, <1>3 DEF TypeOK, TypeHolds, Linked

\* What the marks, slots and records stay (dynwriter.c, the walks and the tables):
\* slots are of named symbols, and a symbol record names an import, never the
\* null symbol.
THEOREM RelocTypeCorrect == Spec => []TypeOK
BY RelocAlways, TypeFollows, PTL

\* No two records of the loader's tables write the same slot or field: the slots
\* of called imports, of loaded imports and of own symbols are three runs, and a
\* slot of several uses has one fixup (dynwriter.c, local_got_emitted).
THEOREM NoSlotEverFilledTwice == Spec => []NoSlotFilledTwice
<1>1. RelocInv => NoSlotFilledTwice
  <2> SUFFICES ASSUME RelocInv PROVE NoSlotFilledTwice
    OBVIOUS
  <2>1. Linked /\ TypeHolds /\ FixupsHold /\ TablesHold
    BY DEF RelocInv
  <2>2. CASE phase \in {"load", "done"}
    BY <2>1, <2>2, RecordsAre DEF NoSlotFilledTwice, DistinctTargets
  <2>3. CASE phase \notin {"load", "done"}
    <3>1. Records = <<>> \o <<>>
      BY <2>1, <2>3 DEF TablesHold, Records
    <3> QED
      BY <3>1 DEF NoSlotFilledTwice
  <2> QED
    BY <2>2, <2>3
<1> QED
  BY <1>1, RelocAlways, PTL

\* DT_RELACOUNT counts the base-relative records of .rela.dyn: they come first,
\* and no record of a symbol is among them (dynwriter.c, where the table is put
\* together).
THEOREM RelativeRecordsAlwaysLead == Spec => []RelativeRecordsLead
<1>1. RelocInv => RelativeRecordsLead
  <2> SUFFICES ASSUME RelocInv PROVE RelativeRecordsLead
    OBVIOUS
  <2>1. Linked /\ TypeHolds /\ FixupsHold /\ TablesHold
    BY DEF RelocInv
  <2>2. CASE phase \in {"load", "done"}
    BY <2>1, <2>2, RecordsAre DEF RelativeRecordsLead
  <2>3. CASE phase \notin {"load", "done"}
    BY <2>1, <2>3 DEF TablesHold, RelativeRecordsLead
  <2> QED
    BY <2>2, <2>3
<1> QED
  BY <1>1, RelocAlways, PTL

------------------------------------------------------------------------------
\* Where an address comes from: the symbol's own place, a place of its name, or
\* an import's stub or slot.
FromImport(ref) ==
    /\ AddressByName(NameOf(ref)) = Nowhere
    /\ \/ /\ RelocOf(ref).r_type \in Call /\ NameOf(ref) \in ToSet(bound)
          /\ AddressOf(ref) = <<"plt", PositionIn(bound, NameOf(ref))>>
       \/ /\ RelocOf(ref).r_type \in GotLoad /\ NameOf(ref) \in ToSet(gotdata)
          /\ AddressOf(ref) = GotdataSlot(NameOf(ref))

LEMMA PlacedIsDefined ==
    ASSUME Linked, NEW s \in ToSet(Symbols), HasSection(s[1], SymbolAt(s))
    PROVE  ~is_undefined(SymbolAt(s)) /\ SymbolAt(s).shndx # SHN_UNDEF
<1>1. s[1] \in DOMAIN program
  BY SymbolsAre
<1>2. 0 \notin DOMAIN program[s[1]].regions
  BY <1>1, ProgramIs, LenProperties
<1> QED
  BY <1>2 DEF HasSection, is_undefined, SHN_UNDEF

LEMMA EarlierIs ==
    ASSUME NEW s \in Nat \X Nat, NEW t \in Nat \X Nat
    PROVE  /\ s = t \/ Earlier(s, t) \/ Earlier(t, s)
           /\ ~(Earlier(s, t) /\ Earlier(t, s))
           /\ ~Earlier(s, s)
BY DEF Earlier

\* What is found is the first of the name that the link keeps.
LEMMA FoundByName ==
    ASSUME Linked, NEW name, AddressByName(name) # Nowhere
    PROVE  \E s \in ToSet(Symbols) :
               /\ AddressByName(name) = Place(s[1], s[2])
               /\ SymbolAt(s).name = name
               /\ ~is_undefined(SymbolAt(s)) /\ Named(SymbolAt(s))
               /\ HasSection(s[1], SymbolAt(s))
               /\ program[s[1]].regions[SymbolAt(s).shndx] # "NONE"
               /\ s \in Bearers(name) /\ name # NoName
               /\ \A t \in Bearers(name) : ~Earlier(t, s)
<1> DEFINE placed == {s \in ToSet(Symbols) :
                         /\ ~is_undefined(SymbolAt(s)) /\ Named(SymbolAt(s))
                         /\ HasSection(s[1], SymbolAt(s))
                         /\ program[s[1]].regions[SymbolAt(s).shndx] # "NONE"}
           k == SelectInSeq(name_addrs, LAMBDA s : SymbolAt(s).name = name)
           I == {i \in 1..Len(name_addrs) : SymbolAt(name_addrs[i]).name = name}
<1>1. name_addrs = Kept(Symbols, placed)
  BY DEF name_addrs
<1>2. /\ name_addrs \in Seq(Nat \X Nat)
      /\ ToSet(name_addrs) = ToSet(Symbols) \intersect placed
      /\ InOrder(name_addrs)
  BY <1>1, SymbolsAre, KeptIs
<1>3. k # 0 /\ AddressByName(name) = Place(name_addrs[k][1], name_addrs[k][2])
  BY DEF AddressByName
<1>4. I # {} /\ k = CHOOSE x \in I : \A y \in I : x <= y
  BY <1>3 DEF SelectInSeq, Min
<1>5. Len(name_addrs) \in Nat /\ DOMAIN name_addrs = 1..Len(name_addrs)
  BY <1>2, LenProperties
<1>6. I \in SUBSET Nat
  BY <1>5
<1> HIDE DEF k, placed
<1>7. k \in I /\ \A y \in I : k <= y
  <2> HIDE DEF I
  <2> QED
    BY <1>4, <1>6, LeastOf
<1>8. name_addrs[k] \in ToSet(Symbols) /\ name_addrs[k] \in placed
      /\ SymbolAt(name_addrs[k]).name = name
  BY <1>2, <1>5, <1>7 DEF ToSet
<1>9. name # NoName /\ name_addrs[k] \in Bearers(name)
  BY <1>8 DEF placed, Named, Bearers
<1>10. ASSUME NEW t \in Bearers(name) PROVE ~Earlier(t, name_addrs[k])
  <2>1. t \in ToSet(Symbols) /\ SymbolAt(t).name = name /\ HasSection(t[1], SymbolAt(t))
    BY DEF Bearers
  <2>2. t \in placed
    BY <1>9, <2>1, PlacedIsDefined DEF Bearers, placed, Named
  <2>3. PICK i \in 1..Len(name_addrs) : t = name_addrs[i]
    BY <1>2, <1>5, <2>1, <2>2 DEF ToSet
  <2>4. i \in I /\ k \in 1..Len(name_addrs)
    BY <1>7, <2>1, <2>3
  <2>5. k = i \/ k < i
    BY <1>5, <1>7, <2>4
  <2>6. k < i => Earlier(name_addrs[k], name_addrs[i])
    BY <1>2, <1>5, <2>3, <2>4 DEF InOrder
  <2>7. name_addrs[k] \in Nat \X Nat /\ name_addrs[i] \in Nat \X Nat
    BY <1>2, <2>3, <2>4, ElementOfSeq
  <2> QED
    BY <2>3, <2>5, <2>6, <2>7, EarlierIs
<1> QED
  BY <1>3, <1>8, <1>9, <1>10 DEF placed

LEMMA AddressIs ==
    ASSUME Linked, NEW ref \in ToSet(References), AddressOf(ref) # Nowhere
    PROVE  \/ /\ HasSection(ref[1], SymbolOf(ref))
              /\ program[ref[1]].regions[SymbolOf(ref).shndx] # "NONE"
              /\ AddressOf(ref) = Place(ref[1], RelocOf(ref).sym)
           \/ /\ ~HasSection(ref[1], SymbolOf(ref))
              /\ AddressByName(NameOf(ref)) # Nowhere
              /\ AddressOf(ref) = AddressByName(NameOf(ref))
           \/ ~HasSection(ref[1], SymbolOf(ref)) /\ FromImport(ref)
<1>1. CASE HasSection(ref[1], SymbolOf(ref))
  BY <1>1 DEF AddressOf
<1>2. CASE ~HasSection(ref[1], SymbolOf(ref)) /\ AddressByName(NameOf(ref)) # Nowhere
  BY <1>2 DEF AddressOf, NameOf
<1>3. CASE ~HasSection(ref[1], SymbolOf(ref)) /\ AddressByName(NameOf(ref)) = Nowhere
  <2>1. AddressOf(ref) = AddressOfImport(NameOf(ref), RelocOf(ref).r_type)
    BY <1>3 DEF AddressOf, NameOf
  <2>2. /\ Contains(bound, NameOf(ref)) <=> NameOf(ref) \in ToSet(bound)
        /\ Contains(gotdata, NameOf(ref)) <=> NameOf(ref) \in ToSet(gotdata)
    BY SlotsOfImports, ContainsIs
  <2>3. CASE RelocOf(ref).r_type \in Call /\ Contains(bound, NameOf(ref))
    BY <1>3, <2>1, <2>2, <2>3 DEF AddressOfImport, FromImport, Call, GotLoad
  <2>4. CASE RelocOf(ref).r_type \in GotLoad /\ Contains(gotdata, NameOf(ref))
    BY <1>3, <2>1, <2>2, <2>4 DEF AddressOfImport, FromImport, Call, GotLoad
  <2> QED
    BY <2>1, <2>3, <2>4 DEF AddressOfImport
<1> QED
  BY <1>1, <1>2, <1>3

\* An address of either of the first two kinds is a place, one of the third a
\* stub or a slot.
LEMMA AddressKinds ==
    ASSUME Linked, NEW ref \in ToSet(References), AddressOf(ref) # Nowhere
    PROVE  \/ AddressOf(ref)[1] = "at" /\ ~FromImport(ref)
           \/ /\ ~HasSection(ref[1], SymbolOf(ref)) /\ FromImport(ref)
              /\ AddressOf(ref)[1] = (IF RelocOf(ref).r_type \in Call THEN "plt" ELSE "got")
<1>1. \A o, j : Place(o, j)[1] = "at"
  BY DEF Place
<1>2. \A n : GotdataSlot(n)[1] = "got"
  BY DEF GotdataSlot
<1>3. FromImport(ref) => AddressOf(ref)[1] = (IF RelocOf(ref).r_type \in Call THEN "plt" ELSE "got")
  BY <1>2 DEF FromImport, Call, GotLoad
<1>4. AddressOf(ref)[1] = "at" => ~FromImport(ref)
  BY <1>3
<1>5. AddressByName(NameOf(ref)) # Nowhere => AddressByName(NameOf(ref))[1] = "at"
  BY <1>1, FoundByName
<1> QED
  BY <1>1, <1>3, <1>4, <1>5, AddressIs

\* The walk that counts slots and the walk that patches judge an instruction
\* alike: of named symbols, none is left with an instruction that cannot be
\* rewritten and no slot (dynwriter.c, the prescan and pass 3).
THEOREM EveryUseAlwaysHasASlot == Spec => []EveryUseHasASlot
<1>1. RelocInv => EveryUseHasASlot
  <2> SUFFICES ASSUME RelocInv, NEW ref \in unrelaxable, RegionOf(ref) = "CODE",
                      Named(SymbolOf(ref))
               PROVE  FALSE
    BY DEF EveryUseHasASlot
  <2>1. Linked /\ TypeHolds /\ WalksStartEmpty /\ SlotsHold /\ PatchesHold
    BY DEF RelocInv
  <2>2. /\ ref \in ToSet(References) /\ LoadOfOwnSymbol(ref) /\ ~Rewritable(RelocOf(ref))
        /\ NameOf(ref) \notin ToSet(local_got_names)
    BY <2>1 DEF PatchesHold
  <2>3. /\ AddressOf(ref) # Nowhere /\ ~IsGotSlot(AddressOf(ref))
        /\ RelocOf(ref).r_type \in GotLoad
    BY <2>2 DEF LoadOfOwnSymbol, Patchable
  <2>4. HasSection(ref[1], SymbolOf(ref)) \/ AddressByName(NameOf(ref)) # Nowhere
    <3>1. ~FromImport(ref)
      BY <2>3 DEF FromImport, IsGotSlot, GotdataSlot, Call, GotLoad
    <3> QED
      BY <2>1, <2>2, <2>3, <3>1, AddressIs
  <2>5. ~is_undefined(SymbolOf(ref)) \/ is_defined_anywhere(Tables, NameOf(ref))
    <3>1. CASE HasSection(ref[1], SymbolOf(ref))
      <4>1. 0 \notin DOMAIN program[ref[1]].regions
        <5>1. ref[1] \in DOMAIN program
          BY <2>1, <2>2, ReferencesAre
        <5> QED
          BY <2>1, <5>1, ProgramIs, LenProperties
      <4> QED
        BY <3>1, <4>1 DEF HasSection, is_undefined, SHN_UNDEF
    <3>2. CASE AddressByName(NameOf(ref)) # Nowhere
      <4>1. PICK s \in ToSet(Symbols) :
                /\ SymbolAt(s).name = NameOf(ref) /\ ~is_undefined(SymbolAt(s))
                /\ HasSection(s[1], SymbolAt(s))
        BY <2>1, <3>2, FoundByName
      <4>2. s[1] \in DOMAIN program /\ s[2] \in DOMAIN program[s[1]].symbols
        BY <2>1, SymbolsAre
      <4>3. 0 \notin DOMAIN program[s[1]].regions
        BY <2>1, <4>2, ProgramIs, LenProperties
      <4>4. FindsDefined(SymbolAt(s), NameOf(ref))
        BY <4>1, <4>3 DEF FindsDefined, HasSection, SHN_UNDEF
      <4> QED
        BY <4>2, <4>4 DEF is_defined_anywhere, elf_object_find_defined, Tables, SymbolAt
    <3> QED
      BY <2>4, <3>1, <3>2
  <2>6. ~Relaxable(RelocOf(ref))
    BY <2>2 DEF Rewritable, Relaxable
  <2>7. NeedsLocalSlot(ref)
    BY <2>3, <2>5, <2>6 DEF NeedsLocalSlot, NameOf
  <2>8. PICK i \in DOMAIN References : ref = References[i]
    BY <2>2 DEF ToSet
  <2>9. Counted(i)
    <3>1. phase \notin {"scan", "prescan"}
      BY <2>1 DEF WalksStartEmpty
    <3> QED
      BY <2>1, <3>1 DEF TypeHolds, Counted
  <2> QED
    BY <2>1, <2>2, <2>7, <2>8, <2>9 DEF SlotsHold
<1> QED
  BY <1>1, RelocAlways, PTL

------------------------------------------------------------------------------
\* An import is nobody's: no object has a symbol of its name in a section.
LEMMA ImportUnseen ==
    ASSUME Linked, NEW name \in ToSet(imports)
    PROVE  Visible(name) = {} /\ Shadow(name) = {}
<1> SUFFICES ASSUME NEW s \in ToSet(Symbols), SymbolAt(s).name = name,
                    HasSection(s[1], SymbolAt(s))
             PROVE  FALSE
  BY DEF Visible, Shadow, Bearers, PlacesOf
<1>1. s[1] \in DOMAIN program /\ s[2] \in DOMAIN program[s[1]].symbols
  BY SymbolsAre
<1>2. FindsDefined(SymbolAt(s), name)
  BY PlacedIsDefined DEF FindsDefined, is_undefined, SHN_UNDEF
<1>3. is_defined_anywhere(Tables, name)
  BY <1>1, <1>2 DEF is_defined_anywhere, elf_object_find_defined, Tables, SymbolAt
<1> QED
  BY <1>3, ImportsAre

LEMMA SeenIs ==
    ASSUME NEW s \in ToSet(Symbols), SymbolAt(s).bind # "LOCAL", SymbolAt(s).type # "SECTION",
           HasSection(s[1], SymbolAt(s)), program[s[1]].regions[SymbolAt(s).shndx] # "NONE"
    PROVE  Place(s[1], s[2]) \in Visible(SymbolAt(s).name)
BY DEF Visible, Bearers, PlacesOf

\* A reference to an own symbol is given its place; one by name the first of the
\* name, which is a shadow or else one that it may mean.
LEMMA PlaceIsMeant ==
    ASSUME Linked, StaticsReachedDirectly(program), NEW ref \in ToSet(References),
           AddressOf(ref) # Nowhere, ~FromImport(ref)
    PROVE  AddressOf(ref) \in IF ByName(ref) /\ Shadow(NameOf(ref)) # {}
                              THEN Shadow(NameOf(ref)) ELSE Meaning(ref)
<1>1. StaticsReachedDirectly(program)
  OBVIOUS
<1> DEFINE own == <<ref[1], RelocOf(ref).sym>>
<1>2. /\ ref[1] \in DOMAIN program /\ RelocOf(ref).sym \in DOMAIN program[ref[1]].symbols
      /\ own \in ToSet(Symbols) /\ SymbolOf(ref) = SymbolAt(own)
      /\ own[1] = ref[1] /\ own[2] = RelocOf(ref).sym
  BY ReferencesAre DEF SymbolOf, SymbolAt
<1>3. CASE /\ HasSection(ref[1], SymbolOf(ref))
           /\ program[ref[1]].regions[SymbolOf(ref).shndx] # "NONE"
           /\ AddressOf(ref) = Place(ref[1], RelocOf(ref).sym)
  <2>1. CASE SymbolOf(ref).bind = "LOCAL"
    BY <1>3, <2>1 DEF Meaning, ByName
  <2>2. CASE SymbolOf(ref).bind # "LOCAL"
    <3>1. SymbolOf(ref).type # "SECTION"
      BY <1>1, <1>2, <2>2 DEF StaticsReachedDirectly, SymbolOf
    <3> HIDE DEF own
    <3>2. Place(own[1], own[2]) \in Visible(SymbolAt(own).name)
      BY <1>2, <1>3, <2>2, <3>1, SeenIs
    <3>3. Place(ref[1], RelocOf(ref).sym) \in Visible(SymbolOf(ref).name)
      BY <1>2, <3>2
    <3> QED
      BY <1>3, <2>2, <3>3 DEF Meaning, ByName
  <2> QED
    BY <2>1, <2>2
<1>4. CASE /\ ~HasSection(ref[1], SymbolOf(ref))
           /\ AddressByName(NameOf(ref)) # Nowhere
           /\ AddressOf(ref) = AddressByName(NameOf(ref))
  <2>1. PICK s \in ToSet(Symbols) :
            /\ AddressOf(ref) = Place(s[1], s[2])
            /\ SymbolAt(s).name = NameOf(ref) /\ Named(SymbolAt(s))
            /\ HasSection(s[1], SymbolAt(s))
            /\ program[s[1]].regions[SymbolAt(s).shndx] # "NONE"
            /\ s \in Bearers(NameOf(ref)) /\ NameOf(ref) # NoName
            /\ \A t \in Bearers(NameOf(ref)) : ~Earlier(t, s)
    BY <1>4, FoundByName
  <2>2. CASE SymbolAt(s).bind = "LOCAL"
    <3>1. Place(s[1], s[2]) \in Shadow(NameOf(ref))
      BY <2>1, <2>2 DEF Shadow, PlacesOf
    <3> QED
      BY <1>4, <2>1, <3>1 DEF ByName
  <2>3. CASE SymbolAt(s).bind # "LOCAL"
    <3>1. AddressOf(ref) \in Visible(SymbolOf(ref).name)
      BY <2>1, <2>3, SeenIs DEF Named, NameOf
    <3>2. ASSUME NEW u \in Bearers(NameOf(ref)), SymbolAt(u).bind = "LOCAL",
                 \A t \in Bearers(NameOf(ref)) : ~Earlier(t, u)
          PROVE  FALSE
      <4>1. u \in ToSet(Symbols)
        BY DEF Bearers
      <4>2. u \in Nat \X Nat /\ s \in Nat \X Nat
        BY <4>1, SymbolsAre
      <4>3. u = s
        BY <2>1, <3>2, <4>2, EarlierIs
      <4> QED
        BY <2>3, <3>2, <4>3
    <3>3. Shadow(NameOf(ref)) = {}
      BY <3>2 DEF Shadow, PlacesOf
    <3> QED
      BY <1>4, <3>1, <3>3 DEF Meaning
  <2> QED
    BY <2>2, <2>3
<1> QED
  BY <1>3, <1>4, AddressIs

\* What a reference to an import means, and the slot it is given.
LEMMA ImportIsMeant ==
    ASSUME Linked, NEW ref \in ToSet(References), ~HasSection(ref[1], SymbolOf(ref)),
           FromImport(ref)
    PROVE  Meaning(ref) = {<<"import", NameOf(ref)>>} /\ Shadow(NameOf(ref)) = {}
<1>1. NameOf(ref) \in ToSet(imports)
  BY SlotsOfImports DEF FromImport
<1>2. Visible(NameOf(ref)) = {} /\ Shadow(NameOf(ref)) = {}
  BY <1>1, ImportUnseen
<1> QED
  BY <1>2 DEF Meaning, NameOf

\* What the loader has written, once it is done.
LEMMA LoadedIs ==
    ASSUME RelocInv, phase = "done", NEW record \in ToSet(Records)
    PROVE  ValueAt(record.target) =
               IF record.type = "RELATIVE" THEN record.value
               ELSE <<"import", imports[record.sym]>>
<1>1. Linked /\ TypeHolds /\ FixupsHold /\ TablesHold /\ MemoryHolds
  BY DEF RelocInv
<1>2. PICK i \in DOMAIN Records : record = Records[i]
  BY DEF ToSet
<1>3. Records[i].target \in DOMAIN memory /\ memory[Records[i].target] = Loaded(i)
  BY <1>1 DEF MemoryHolds
<1>4. i <= relative_count <=> Records[i].type = "RELATIVE"
  BY <1>1, RecordsAre
<1> QED
  BY <1>2, <1>3, <1>4 DEF ValueAt, Loaded

LEMMA ImportSlotsFilled ==
    ASSUME RelocInv, phase = "done"
    PROVE  /\ \A n \in ToSet(bound) :
                  ValueAt(<<"got", PositionIn(bound, n)>>) = <<"import", n>>
           /\ \A n \in ToSet(gotdata) : ValueAt(GotdataSlot(n)) = <<"import", n>>
<1>1. Linked /\ TypeHolds /\ FixupsHold /\ TablesHold
  BY DEF RelocInv
<1>2. /\ bound \in Seq(Name) /\ gotdata \in Seq(Name)
  BY <1>1, SlotsOfImports
<1>3. ToSet(GlobDats) \union ToSet(JumpSlots) \subseteq ToSet(Records)
  BY <1>1, RecordsAre
<1>4. ASSUME NEW n \in ToSet(bound)
      PROVE  ValueAt(<<"got", PositionIn(bound, n)>>) = <<"import", n>>
  <2>1. PICK k : k = PositionIn(bound, n)
    OBVIOUS
  <2>2. k \in 1..Len(bound) /\ bound[k] = n
    BY <1>2, <2>1, PositionIs
  <2>3. /\ JumpSlots[k] \in ToSet(JumpSlots) /\ JumpSlots[k].type = "JUMP_SLOT"
        /\ JumpSlots[k].target = <<"got", k>> /\ imports[JumpSlots[k].sym] = n
    BY <1>1, <2>2, SymbolRecordsAre DEF ToSet
  <2> QED
    BY <1>3, <2>1, <2>3, LoadedIs
<1>5. ASSUME NEW n \in ToSet(gotdata)
      PROVE  ValueAt(GotdataSlot(n)) = <<"import", n>>
  <2>1. PICK k : k = PositionIn(gotdata, n)
    OBVIOUS
  <2>2. k \in 1..Len(gotdata) /\ gotdata[k] = n
    BY <1>2, <2>1, PositionIs
  <2>3. /\ GlobDats[k] \in ToSet(GlobDats) /\ GlobDats[k].type = "GLOB_DAT"
        /\ GlobDats[k].target = <<"got", Len(bound) + k>> /\ imports[GlobDats[k].sym] = n
    BY <1>1, <2>2, SymbolRecordsAre DEF ToSet
  <2>4. GotdataSlot(n) = <<"got", Len(bound) + k>>
    BY <2>1 DEF GotdataSlot
  <2> QED
    BY <1>3, <2>3, <2>4, LoadedIs
<1> QED
  BY <1>4, <1>5

\* A slot of an own symbol holds what its name means to every object, or the
\* static that shadows it.
LEMMA LocalSlotsFilled ==
    ASSUME RelocInv, StaticsReachedDirectly(program), phase = "done", NEW ref \in ToSet(References),
           RelocOf(ref).r_type \in GotLoad, NameOf(ref) \in local_got_emitted
    PROVE  ValueAt(LocalSlot(NameOf(ref))) \in Meaning(ref) \union Shadow(NameOf(ref))
<1>1. Linked /\ TypeHolds /\ FixupsHold /\ TablesHold
  BY DEF RelocInv
<1>2. PICK record \in ToSet(relrel) : \E r \in ToSet(References) :
          NameOf(r) = NameOf(ref) /\ FixesSlot(record, r)
  BY <1>1 DEF FixupsHold
<1>3. PICK r \in ToSet(References) : NameOf(r) = NameOf(ref) /\ FixesSlot(record, r)
  BY <1>2
<1>4. /\ record.target = LocalSlot(NameOf(ref)) /\ record.value = AddressOf(r)
      /\ record.type = "RELATIVE"
  BY <1>3 DEF FixesSlot, Relative
<1>5. record \in ToSet(Records)
  BY <1>1, RecordsAre
<1>6. ValueAt(LocalSlot(NameOf(ref))) = AddressOf(r)
  BY <1>4, <1>5, LoadedIs
<1>7. /\ RelocOf(r).r_type \in GotLoad /\ AddressOf(r) # Nowhere
      /\ ~IsGotSlot(AddressOf(r))
  BY <1>3 DEF FixesSlot, LoadOfOwnSymbol, Patchable
<1>8. ~FromImport(r)
  BY <1>7 DEF FromImport, IsGotSlot, GotdataSlot, Call, GotLoad
<1>9. AddressOf(r) \in Meaning(r) \union Shadow(NameOf(r))
  BY <1>1, <1>7, <1>8, PlaceIsMeant
<1>10. ASSUME NEW q \in ToSet(References), RelocOf(q).r_type \in GotLoad
       PROVE  SymbolOf(q).bind # "LOCAL"
  <2>1. q[1] \in DOMAIN program /\ q[2] \in DOMAIN program[q[1]].relocs
    BY <1>1, ReferencesAre
  <2> QED
    BY <1>1, <1>10, <2>1 DEF StaticsReachedDirectly, RelocOf, SymbolOf
<1>11. Meaning(r) = Meaning(ref)
  BY <1>3, <1>7, <1>10 DEF Meaning, NameOf
<1> QED
  BY <1>3, <1>6, <1>9, <1>11

\* The statics of the objects stay what they are: nothing writes the objects.
LEMMA StaticsStayDirect == Spec => []StaticsReachedDirectly(program)
<1>1. Init => StaticsReachedDirectly(program)
  BY StaticsAssumption DEF Init
<1>2. StaticsReachedDirectly(program) /\ [Next]_vars => StaticsReachedDirectly(program)'
  <2> SUFFICES ASSUME [Next]_vars PROVE UNCHANGED program
    OBVIOUS
  <2> QED
    BY DEF Next, vars, MarkImport, EndScan, CountLocalSlot, EndPrescan, PassUnstored,
           LeaveUnpatched, PatchCall, PatchImportLoad, Relax, UseLocalSlot,
           PatchUnrelaxable, PatchAbsolute, IgnoreType, BuildRecords, LoadRecord, EndLoad
<1> QED
  BY <1>1, <1>2, PTL DEF Spec

\* Once loaded, every reference of a type the linker patches, in a section that
\* has bytes in the image, finds what it means, unless the link counted it in a
\* warning; or, where a static is linked before all else of its name, one that
\* goes by name finds that static, whoever may see it (dynwriter.c, the three walks
\* and the tables they leave).
THEOREM ReferencesAlwaysReach == Spec => []ReferencesReach
<1>1. RelocInv /\ StaticsReachedDirectly(program) => ReferencesReach
  <2> SUFFICES ASSUME RelocInv, StaticsReachedDirectly(program), phase = "done",
                      NEW ref \in DOMAIN field \ Reported,
                      RelocOf(ref).r_type \in Patched, RegionOf(ref) \notin {"NONE", "BSS"}
               PROVE  Found(ref) \in Expected(ref)
    BY DEF ReferencesReach
  <2>1. Linked /\ TypeHolds /\ FixupsHold /\ PatchesHold /\ TablesHold
    BY DEF RelocInv
  <2>2. ref \in ToSet(References)
    BY <2>1 DEF TypeHolds
  <2>3. Passed(ref)
    BY <2>2 DEF Passed, ToSet
  <2>4. PatchedAsMeant(ref)
    BY <2>1, <2>2, <2>3 DEF PatchesHold
  <2>5. AddressOf(ref) # Nowhere
    BY <2>4 DEF PatchedAsMeant
  <2>6. /\ ~FromImport(ref) => AddressOf(ref)[1] = "at"
        /\ ~FromImport(ref) /\ ~ThroughSlot(ref) => AddressOf(ref) \in Expected(ref)
    <3>1. ~FromImport(ref) => AddressOf(ref)[1] = "at"
      BY <2>1, <2>2, <2>5, AddressKinds
    <3>2. ~FromImport(ref) =>
              AddressOf(ref) \in IF ByName(ref) /\ Shadow(NameOf(ref)) # {}
                                 THEN Shadow(NameOf(ref)) ELSE Meaning(ref)
      BY <2>1, <2>2, <2>5, PlaceIsMeant
    <3> QED
      BY <3>1, <3>2 DEF Expected, NameOf
  <2>7. FromImport(ref) => Expected(ref) = {<<"import", NameOf(ref)>>}
    <3>1. FromImport(ref) => ~HasSection(ref[1], SymbolOf(ref))
      BY <2>1, <2>2, <2>5, AddressKinds
    <3>2. FromImport(ref) =>
              Meaning(ref) = {<<"import", NameOf(ref)>>} /\ Shadow(NameOf(ref)) = {}
      BY <2>1, <2>2, <3>1, ImportIsMeant
    <3> QED
      BY <3>2 DEF Expected, NameOf
  <2>8. CASE RelocOf(ref).r_type = "64"
    <3>1. PICK record \in ToSet(relrel) : FixesPointer(record, ref)
      BY <2>4, <2>8 DEF PatchedAsMeant
    <3>2. record.target = Pointer(ref) /\ record.value = AddressOf(ref) /\ record.type = "RELATIVE"
      BY <3>1 DEF FixesPointer, Relative
    <3>3. record \in ToSet(Records)
      BY <2>1, RecordsAre
    <3>4. ValueAt(Pointer(ref)) = AddressOf(ref)
      BY <3>2, <3>3, LoadedIs
    <3>5. ~FromImport(ref) /\ ~ThroughSlot(ref)
      BY <2>8 DEF FromImport, ThroughSlot, Call, GotLoad
    <3>6. Found(ref) = ValueAt(Pointer(ref))
      BY <2>1, <2>8 DEF Found, Call, GotLoad, PatchesHold
    <3> QED
      BY <2>6, <3>4, <3>5, <3>6
  <2>9. CASE RelocOf(ref).r_type \in Call
    <3>1. field[ref] = AddressOf(ref)
      BY <2>4, <2>9 DEF PatchedAsMeant
    <3>2. Found(ref) = IF field[ref][1] = "plt" THEN ValueAt(<<"got", field[ref][2]>>) ELSE field[ref]
      BY <2>1, <2>9 DEF Found, Call, GotLoad, PatchesHold
    <3>3. CASE FromImport(ref)
      <4>1. NameOf(ref) \in ToSet(bound) /\ AddressOf(ref) = <<"plt", PositionIn(bound, NameOf(ref))>>
        BY <2>9, <3>3 DEF FromImport, Call, GotLoad
      <4>2. Found(ref) = ValueAt(<<"got", PositionIn(bound, NameOf(ref))>>)
        BY <3>1, <3>2, <4>1
      <4> QED
        BY <2>7, <3>3, <4>1, <4>2, ImportSlotsFilled
    <3>4. CASE ~FromImport(ref)
      <4>1. ~ThroughSlot(ref)
        BY <2>9 DEF ThroughSlot, Call, GotLoad
      <4> QED
        BY <2>6, <3>1, <3>2, <3>4, <4>1
    <3> QED
      BY <3>3, <3>4
  <2>10. CASE RelocOf(ref).r_type \in GotLoad
    <3>1. Found(ref) = IF ref \in relaxed THEN field[ref] ELSE ValueAt(field[ref])
      BY <2>10 DEF Found, Call, GotLoad
    <3>2. CASE IsGotSlot(AddressOf(ref)) /\ ref \notin relaxed /\ field[ref] = AddressOf(ref)
      <4>1. FromImport(ref)
        BY <2>6, <3>2 DEF IsGotSlot
      <4>2. NameOf(ref) \in ToSet(gotdata) /\ AddressOf(ref) = GotdataSlot(NameOf(ref))
        BY <2>10, <4>1 DEF FromImport, Call, GotLoad
      <4> QED
        BY <2>7, <3>1, <3>2, <4>1, <4>2, ImportSlotsFilled
    <3>3. CASE ~IsGotSlot(AddressOf(ref)) /\ ref \in relaxed /\ field[ref] = AddressOf(ref)
      <4>1. ~FromImport(ref)
        BY <2>10, <3>3 DEF FromImport, IsGotSlot, GotdataSlot, Call, GotLoad
      <4>2. ~ThroughSlot(ref)
        BY <3>3 DEF ThroughSlot
      <4> QED
        BY <2>6, <3>1, <3>3, <4>1, <4>2
    <3>4. CASE /\ ref \notin relaxed /\ NameOf(ref) \in local_got_emitted
               /\ field[ref] = LocalSlot(NameOf(ref))
      <4>1. ThroughSlot(ref) /\ Found(ref) = ValueAt(LocalSlot(NameOf(ref)))
        BY <2>10, <3>1, <3>4 DEF ThroughSlot
      <4>2. Found(ref) \in Meaning(ref) \union Shadow(NameOf(ref))
        BY <2>2, <2>10, <3>4, <4>1, LocalSlotsFilled
      <4> QED
        BY <4>1, <4>2 DEF Expected, NameOf
    <3> QED
      BY <2>4, <2>10, <3>2, <3>3, <3>4 DEF PatchedAsMeant
  <2> QED
    BY <2>8, <2>9, <2>10 DEF Patched
<1> QED
  BY <1>1, RelocAlways, StaticsStayDirect, PTL

\* The imports these theorems speak of are those a link without unresolved names gets:
\* whatever is wanted, once (linker.c hands them to dynwriter.c).
THEOREM WalksAlwaysSeeTheWanted == Spec => []ImportsAreTheWanted
<1>1. RelocInv => ImportsAreTheWanted
  BY EveryWantedIsImported DEF RelocInv
<1> QED
  BY <1>1, RelocAlways, PTL
=============================================================================
