----------------------------- MODULE SequenceLemmas -----------------------------
(***************************************************************************)
(* What the proofs share: the natural numbers have least members and induction   *)
(* for sets, and what FlattenSeq makes of a sequence of sequences; listings, that *)
(* have every member of a set once, with the iterates, orders and sums of what    *)
(* they list.                                                                    *)
(***************************************************************************)
EXTENDS Integers, Sequences, SequencesExt, FiniteSetTheorems, SequenceTheorems,
        WellFoundedInduction, TLAPS

\* A set of natural numbers that is not empty has a least one.
LEMMA LeastNat ==
  ASSUME NEW T \in SUBSET Nat, T # {}
  PROVE  \E x \in T : \A y \in T : x <= y
<1> DEFINE R == OpToRel(<, Nat)
<1>1. IsWellFoundedOn(R, Nat)
  BY NatLessThanWellFounded
<1>2. \A x, y \in Nat : y < x => <<y, x>> \in R
  BY DEF OpToRel
<1> HIDE DEF R
<1>3. PICK x \in T : \A y \in T : <<y, x>> \notin R
  BY <1>1, WFMin
<1>4. ASSUME NEW y \in T PROVE x <= y
  <2>1. x \in Nat /\ y \in Nat
    OBVIOUS
  <2>2. ~(y < x)
    BY <1>2, <1>3, <2>1
  <2> QED BY <2>1, <2>2
<1> QED BY <1>4

\* Induction over the natural numbers, for a set.
LEMMA NatInd ==
  ASSUME NEW T \in SUBSET Nat, 0 \in T, \A n \in T : n + 1 \in T
  PROVE  T = Nat
<1> SUFFICES ASSUME Nat \ T # {} PROVE FALSE
  OBVIOUS
<1>1. PICK x \in Nat \ T : \A y \in Nat \ T : x <= y
  BY LeastNat
<1>2. x # 0 /\ x - 1 \in T
  BY <1>1
<1>3. x - 1 + 1 \in T
  BY <1>2
<1> QED BY <1>1, <1>3

\* A function on 1..k is a sequence of length k.
LEMMA IsSequence ==
  ASSUME NEW T, NEW k \in Nat, NEW f \in [1..k -> T]
  PROVE  f \in Seq(T) /\ Len(f) = k
<1>1. f \in Seq(T)
  BY SeqDef
<1>2. Len(f) \in Nat /\ DOMAIN f = 1..Len(f)
  BY <1>1, LenProperties
<1> QED BY <1>1, <1>2

\* A finite set, laid out as a sequence, is a sequence of all its elements.
LEMMA SetToSeqType ==
  ASSUME NEW S, IsFiniteSet(S)
  PROVE  /\ SetToSeq(S) \in Seq(S) /\ IsInjective(SetToSeq(S))
         /\ \A x \in S : \E k \in 1..Len(SetToSeq(S)) : SetToSeq(S)[k] = x
<1>1. Cardinality(S) \in Nat
  BY FS_CardinalityType
<1>2. PICK f \in [1..Cardinality(S) -> S] : IsInjective(f)
  BY FS_CardinalityType DEF ExistsBijection, Bijection, Injection, Surjection, IsInjective
<1>3. SetToSeq(S) \in [1..Cardinality(S) -> S] /\ IsInjective(SetToSeq(S))
  BY <1>2 DEF SetToSeq
<1>4. SetToSeq(S) \in Seq(S) /\ Len(SetToSeq(S)) = Cardinality(S)
  BY <1>1, <1>3, IsSequence
<1>5. ASSUME NEW x \in S PROVE \E k \in 1..Cardinality(S) : SetToSeq(S)[k] = x
  <2> DEFINE f0 == SetToSeq(S)
  <2>1. SUFFICES ASSUME \A k \in 1..Cardinality(S) : f0[k] # x PROVE FALSE
    OBVIOUS
  <2>2. f0 \in [1..Cardinality(S) -> S \ {x}] /\ IsInjective(f0)
    BY <1>3, <2>1
  <2> HIDE DEF f0
  <2>3. f0 \in Injection(1..Cardinality(S), S \ {x})
    BY <2>2 DEF Injection, IsInjective
  <2>4. IsFiniteSet(S \ {x}) /\ Cardinality(S \ {x}) = Cardinality(S) - 1
    BY FS_RemoveElement
  <2>5. IsFiniteSet(1..Cardinality(S)) /\ Cardinality(1..Cardinality(S)) = Cardinality(S)
    BY <1>1, FS_Interval
  <2>6. Cardinality(1..Cardinality(S)) <= Cardinality(S \ {x})
    BY <2>3, <2>4, <2>5, FS_Injection
  <2> QED BY <1>1, <2>4, <2>5, <2>6
<1> QED BY <1>3, <1>4, <1>5

\* What the recursion of FlattenSeq has made of the first n sequences.
Joined(s, n, f) == f = [i \in 1..n |-> IF i = 1 THEN s[i] ELSE f[i - 1] \o s[i]]

LEMMA Flattens ==
  ASSUME NEW s, NEW n \in Nat
  PROVE  \E f : Joined(s, n, f)
<1> DEFINE T == {m \in Nat : \E f : Joined(s, m, f)}
<1>1. 0 \in T
  <2> DEFINE g == [i \in 1..0 |-> 0]
  <2>1. Joined(s, 0, g)
    BY DEF Joined
  <2> QED BY <2>1
<1>2. ASSUME NEW m \in T
      PROVE  m + 1 \in T
  <2>1. PICK f : Joined(s, m, f)
    OBVIOUS
  <2>2. m \in Nat
    OBVIOUS
  <2> DEFINE g == [i \in 1..(m + 1) |-> IF i = 1 THEN s[i] ELSE f[i - 1] \o s[i]]
  <2>3. \A i \in 1..(m + 1) : g[i] = IF i = 1 THEN s[i] ELSE f[i - 1] \o s[i]
    OBVIOUS
  <2>4. g = [i \in 1..(m + 1) |-> g[i]]
    OBVIOUS
  <2>5. \A i \in 1..m : f[i] = IF i = 1 THEN s[i] ELSE f[i - 1] \o s[i]
    BY <2>1 DEF Joined
  <2> HIDE DEF g, T
  <2>6. \A i \in 1..m : g[i] = f[i]
    BY <2>2, <2>3, <2>5
  <2>7. \A i \in 1..(m + 1) : i # 1 => g[i - 1] = f[i - 1]
    BY <2>2, <2>6
  <2>8. \A i \in 1..(m + 1) : g[i] = IF i = 1 THEN s[i] ELSE g[i - 1] \o s[i]
    BY <2>3, <2>7
  <2>9. Joined(s, m + 1, g)
    BY <2>4, <2>8 DEF Joined
  <2>10. \E h : Joined(s, m + 1, h)
    BY <2>9
  <2> QED BY <2>2, <2>10 DEF T
<1>3. T = Nat
  <2> HIDE DEF T
  <2>1. T \in SUBSET Nat
    BY DEF T
  <2> QED BY <1>1, <1>2, <2>1, NatInd
<1> QED BY <1>3

\* What FlattenSeq makes of a sequence that is not empty.
LEMMA FlattenOf ==
  ASSUME NEW s, Len(s) \in Nat \ {0}
  PROVE  \E f : /\ FlattenSeq(s) = f[Len(s)]
                /\ \A i \in 1..Len(s) : f[i] = IF i = 1 THEN s[i] ELSE f[i - 1] \o s[i]
<1> DEFINE f == CHOOSE f : Joined(s, Len(s), f)
<1>1. FlattenSeq(s) = f[Len(s)]
  BY DEF FlattenSeq, Joined
<1>2. Joined(s, Len(s), f)
  BY Flattens
<1> HIDE DEF f
<1>3. \A i \in 1..Len(s) : f[i] = IF i = 1 THEN s[i] ELSE f[i - 1] \o s[i]
  BY <1>2 DEF Joined
<1> QED BY <1>1, <1>3

\* Each step of it makes a sequence, and one that is not empty stays so.
LEMMA FlattenSteps ==
  ASSUME NEW S, NEW s \in Seq(Seq(S)), Len(s) # 0
  PROVE  \E f : /\ FlattenSeq(s) = f[Len(s)]
                /\ \A i \in 1..Len(s) : /\ f[i] = IF i = 1 THEN s[i] ELSE f[i - 1] \o s[i]
                                        /\ f[i] \in Seq(S)
<1>1. Len(s) \in Nat /\ DOMAIN s = 1..Len(s) /\ \A i \in 1..Len(s) : s[i] \in Seq(S)
  BY LenProperties, ElementOfSeq
<1>2. PICK f : /\ FlattenSeq(s) = f[Len(s)]
               /\ \A i \in 1..Len(s) : f[i] = IF i = 1 THEN s[i] ELSE f[i - 1] \o s[i]
  BY <1>1, FlattenOf
<1> DEFINE U == {n \in Nat : \A i \in 1..Len(s) : i = n + 1 => f[i] \in Seq(S)}
<1>3. 0 \in U
  BY <1>1, <1>2
<1>4. ASSUME NEW n \in U
      PROVE  n + 1 \in U
  <2>1. ASSUME NEW i \in 1..Len(s), i = n + 1 + 1
        PROVE  f[i] \in Seq(S)
    <3>1. i - 1 \in 1..Len(s) /\ i - 1 = n + 1 /\ i # 1
      BY <1>1, <2>1
    <3>2. f[i - 1] \in Seq(S)
      BY <3>1
    <3>3. f[i] = f[i - 1] \o s[i]
      BY <1>2, <3>1
    <3> QED BY <1>1, <3>2, <3>3, ConcatProperties
  <2> QED BY <2>1
<1>5. U = Nat
  <2> HIDE DEF U
  <2>1. U \in SUBSET Nat
    BY DEF U
  <2> QED BY <1>3, <1>4, <2>1, NatInd
<1>6. ASSUME NEW i \in 1..Len(s) PROVE f[i] \in Seq(S)
  <2> HIDE DEF U
  <2>1. i - 1 \in U /\ i = i - 1 + 1
    BY <1>1, <1>5
  <2> QED BY <2>1 DEF U
<1> QED BY <1>2, <1>6

\* It is a sequence again.
LEMMA FlattenType ==
  ASSUME NEW S, NEW s \in Seq(Seq(S))
  PROVE  FlattenSeq(s) \in Seq(S)
<1>1. Len(s) \in Nat /\ DOMAIN s = 1..Len(s)
  BY LenProperties
<1>2. CASE Len(s) = 0
  <2>1. s = << >>
    BY <1>1, <1>2, EmptySeq
  <2> QED BY <1>2, <2>1 DEF FlattenSeq
<1>3. CASE Len(s) # 0
  <2>1. Len(s) \in 1..Len(s)
    BY <1>1, <1>3
  <2> QED BY <1>3, <2>1, FlattenSteps
<1> QED BY <1>1, <1>2, <1>3

\* It is not empty when one of them is not.
LEMMA FlattenNonEmpty ==
  ASSUME NEW S, NEW s \in Seq(Seq(S)), NEW i \in 1..Len(s), s[i] # << >>
  PROVE  FlattenSeq(s) # << >>
<1>1. Len(s) \in Nat \ {0} /\ \A j \in 1..Len(s) : s[j] \in Seq(S)
  BY LenProperties, ElementOfSeq
<1>2. PICK f : /\ FlattenSeq(s) = f[Len(s)]
               /\ \A j \in 1..Len(s) : /\ f[j] = IF j = 1 THEN s[j] ELSE f[j - 1] \o s[j]
                                       /\ f[j] \in Seq(S)
  BY <1>1, FlattenSteps
<1>3. \A a, b \in Nat : (a > 0 \/ b > 0) => a + b > 0
  OBVIOUS
<1> DEFINE U == {n \in Nat : \A j \in 1..Len(s) : j = i + n => Len(f[j]) > 0}
<1>4. 0 \in U
  <2>1. Len(s[i]) > 0
    BY <1>1, EmptySeq, LenProperties
  <2>2. Len(f[i]) > 0
    <3>1. CASE i = 1
      BY <1>2, <2>1, <3>1
    <3>2. CASE i # 1
      <4>1. i - 1 \in 1..Len(s)
        BY <1>1, <3>2
      <4>2. f[i] = f[i - 1] \o s[i]
        BY <1>2, <3>2
      <4>3. Len(f[i]) = Len(f[i - 1]) + Len(s[i]) /\ Len(f[i - 1]) \in Nat /\ Len(s[i]) \in Nat
        BY <1>1, <1>2, <4>1, <4>2, ConcatProperties, LenProperties
      <4> QED BY <1>3, <2>1, <4>3
    <3> QED BY <3>1, <3>2
  <2> QED BY <2>2
<1>5. ASSUME NEW n \in U
      PROVE  n + 1 \in U
  <2>1. ASSUME NEW j \in 1..Len(s), j = i + (n + 1)
        PROVE  Len(f[j]) > 0
    <3>1. j - 1 \in 1..Len(s) /\ j - 1 = i + n /\ j # 1
      BY <1>1, <2>1
    <3>2. Len(f[j - 1]) > 0
      BY <3>1
    <3> HIDE DEF U
    <3>3. f[j] = f[j - 1] \o s[j]
      BY <1>2, <3>1
    <3>4. Len(f[j]) = Len(f[j - 1]) + Len(s[j]) /\ Len(f[j - 1]) \in Nat /\ Len(s[j]) \in Nat
      BY <1>1, <1>2, <3>1, <3>3, ConcatProperties, LenProperties
    <3> QED BY <1>3, <3>2, <3>4
  <2> QED BY <2>1
<1>6. Len(s) - i \in U
  <2> HIDE DEF U
  <2>1. U \in SUBSET Nat
    BY DEF U
  <2>2. U = Nat
    BY <1>4, <1>5, <2>1, NatInd
  <2> QED BY <1>1, <2>2
<1>7. Len(s) \in 1..Len(s) /\ Len(s) = i + (Len(s) - i)
  BY <1>1
<1>8. Len(f[Len(s)]) > 0
  BY <1>6, <1>7
<1> QED BY <1>2, <1>8

\* What filter keeps of a list, t telling which: members that pass, and some if one
\* does.
LEMMA WhereKeeps ==
  ASSUME NEW S, NEW list \in Seq(S), NEW t
  PROVE  LET each == [i \in DOMAIN list |-> IF t[i] THEN <<list[i]>> ELSE <<>>]
             passed == {list[i] : i \in {j \in DOMAIN list : t[j]}}
         IN  /\ FlattenSeq(each) \in Seq(S) /\ FlattenSeq(each) \in Seq(passed)
             /\ (\E i \in DOMAIN list : t[i]) => FlattenSeq(each) # <<>>
<1> DEFINE each == [i \in DOMAIN list |-> IF t[i] THEN <<list[i]>> ELSE <<>>]
           passed == {list[i] : i \in {j \in DOMAIN list : t[j]}}
<1>1. Len(list) \in Nat /\ DOMAIN list = 1..Len(list) /\ \A i \in 1..Len(list) : list[i] \in S
  BY LenProperties, ElementOfSeq
<1>2. \A i \in DOMAIN list : each[i] = IF t[i] THEN <<list[i]>> ELSE <<>>
  OBVIOUS
<1>3. passed \subseteq S /\ \A i \in DOMAIN list : t[i] => list[i] \in passed
  BY <1>1
<1> HIDE DEF passed
<1>4. \A i \in DOMAIN list : (IF t[i] THEN <<list[i]>> ELSE <<>>) \in Seq(passed)
  BY <1>3
<1>5. each \in [1..Len(list) -> Seq(passed)]
  BY <1>1, <1>4
<1> HIDE DEF each
<1>6. each \in Seq(Seq(passed)) /\ Len(each) = Len(list)
  BY <1>1, <1>5, IsSequence
<1>7. ASSUME NEW i \in DOMAIN list, t[i] PROVE FlattenSeq(each) # <<>>
  <2>1. each[i] = <<list[i]>> /\ i \in 1..Len(each)
    BY <1>1, <1>2, <1>6, <1>7
  <2>2. each[i] # << >>
    BY <2>1
  <2> QED BY <1>6, <2>1, <2>2, FlattenNonEmpty
<1>8. FlattenSeq(each) \in Seq(passed)
  BY <1>6, FlattenType
<1>9. FlattenSeq(each) \in Seq(S)
  <2> DEFINE f == FlattenSeq(each)
  <2> HIDE DEF f
  <2>1. f \in Seq(passed)
    BY <1>8 DEF f
  <2>2. Len(f) \in Nat /\ f \in [1..Len(f) -> passed]
    BY <2>1, LenProperties
  <2>3. f \in [1..Len(f) -> S]
    BY <1>3, <2>2
  <2> QED BY <2>2, <2>3, IsSequence DEF f
<1> QED BY <1>7, <1>8, <1>9 DEF each, passed

-----------------------------------------------------------------------------
(* Listings: sequences that have every member of a set once.                *)

\* The sequence s has every member of T once.
Lays(s, T) == /\ s \in Seq(T)
              /\ \A i, j \in DOMAIN s : s[i] = s[j] => i = j
              /\ \A x \in T : \E i \in DOMAIN s : s[i] = x

\* A listing of a set is a sequence with its members, as many.
LEMMA LaysShape ==
  ASSUME NEW T, NEW s, Lays(s, T)
  PROVE  /\ Len(s) \in Nat /\ DOMAIN s = 1..Len(s) /\ \A i \in 1..Len(s) : s[i] \in T
         /\ ToSet(s) = T /\ IsFiniteSet(T) /\ Cardinality(T) = Len(s)
<1>1. Len(s) \in Nat /\ DOMAIN s = 1..Len(s) /\ s \in [1..Len(s) -> T]
  BY LenProperties DEF Lays
<1>2. ToSet(s) = T
  BY <1>1 DEF Lays, ToSet
<1>3. s \in Bijection(1..Len(s), T)
  BY <1>1 DEF Lays, Bijection, Injection, Surjection, IsInjective
<1>4. ExistsBijection(1..Len(s), T)
  BY <1>3 DEF ExistsBijection
<1>5. IsFiniteSet(T)
  BY <1>1, <1>4, FS_NatBijection
<1>6. Cardinality(T) = Len(s)
  BY <1>1, <1>4, FS_CountingElements
<1> QED BY <1>1, <1>2, <1>5, <1>6

\* A function on 1..n that has every member once is a listing.
LEMMA LaysFunction ==
  ASSUME NEW T, NEW n \in Nat, NEW f, f = [i \in 1..n |-> f[i]],
         \A i \in 1..n : f[i] \in T,
         \A i, j \in 1..n : f[i] = f[j] => i = j,
         \A x \in T : \E i \in 1..n : f[i] = x
  PROVE  Lays(f, T) /\ Len(f) = n
<1>1. f \in [1..n -> T] /\ DOMAIN f = 1..n
  OBVIOUS
<1>2. f \in Seq(T) /\ Len(f) = n
  BY <1>1, IsSequence
<1> QED BY <1>1, <1>2 DEF Lays

\* The listings of nothing and of one member.
LEMMA LaysFew == Lays(<<>>, {}) /\ \A x : Lays(<<x>>, {x})
<1>1. Lays(<<>>, {})
  BY EmptySeq DEF Lays
<1>2. ASSUME NEW x PROVE Lays(<<x>>, {x})
  BY DEF Lays
<1> QED BY <1>1, <1>2

\* One listing after the other.
LEMMA LaysConcat ==
  ASSUME NEW S, NEW T, NEW s, NEW t, Lays(s, S), Lays(t, T), S \cap T = {}
  PROVE  /\ Lays(s \o t, S \cup T) /\ Len(s \o t) = Len(s) + Len(t)
         /\ \A i \in 1..Len(s) : (s \o t)[i] = s[i]
<1>1. s \in Seq(S \cup T) /\ t \in Seq(S \cup T)
  <2>1. s \in Seq(S) /\ t \in Seq(T) /\ S \subseteq S \cup T /\ T \subseteq S \cup T
    BY DEF Lays
  <2> QED BY <2>1, SeqMonotonic
<1> DEFINE u == s \o t
<1>2. /\ u \in Seq(S \cup T) /\ Len(u) = Len(s) + Len(t)
      /\ \A i \in 1 .. Len(s) + Len(t) : u[i] = IF i <= Len(s) THEN s[i] ELSE t[i - Len(s)]
  BY <1>1, ConcatProperties
<1> HIDE DEF u
<1>3. /\ Len(s) \in Nat /\ DOMAIN s = 1..Len(s) /\ \A i \in 1..Len(s) : s[i] \in S
      /\ Len(t) \in Nat /\ DOMAIN t = 1..Len(t) /\ \A i \in 1..Len(t) : t[i] \in T
  BY LaysShape
<1>4. DOMAIN u = 1..(Len(s) + Len(t))
  BY <1>2, LenProperties
<1>5. \A i \in 1..Len(s) : i \in DOMAIN u /\ u[i] = s[i]
  BY <1>2, <1>3, <1>4
<1>6. \A i \in 1..Len(t) : i + Len(s) \in DOMAIN u /\ u[i + Len(s)] = t[i]
  BY <1>2, <1>3, <1>4
<1>7. ASSUME NEW x \in S \cup T PROVE \E i \in DOMAIN u : u[i] = x
  <2>1. CASE x \in S
    BY <1>3, <1>5, <2>1 DEF Lays
  <2>2. CASE x \in T
    BY <1>3, <1>6, <2>2 DEF Lays
  <2> QED BY <2>1, <2>2
<1>8. ASSUME NEW i \in DOMAIN u, NEW j \in DOMAIN u, u[i] = u[j] PROVE i = j
  <2>1. i \in Nat /\ j \in Nat /\ Len(s) \in Nat /\ Len(t) \in Nat
    BY <1>3, <1>4
  <2>2. CASE i <= Len(s) /\ j <= Len(s)
    <3>1. i \in DOMAIN s /\ j \in DOMAIN s /\ s[i] = s[j]
      BY <1>2, <1>3, <1>4, <1>8, <2>2
    <3> QED BY <3>1 DEF Lays
  <2>3. CASE ~(i <= Len(s)) /\ ~(j <= Len(s))
    <3>1. i - Len(s) \in DOMAIN t /\ j - Len(s) \in DOMAIN t /\ t[i - Len(s)] = t[j - Len(s)]
      BY <1>2, <1>3, <1>4, <1>8, <2>3
    <3>2. i - Len(s) = j - Len(s)
      BY <3>1 DEF Lays
    <3> QED BY <2>1, <3>2
  <2>4. ASSUME NEW a \in DOMAIN u, NEW b \in DOMAIN u, a <= Len(s), ~(b <= Len(s)) PROVE u[a] # u[b]
    <3>1. u[a] \in S
      BY <1>2, <1>3, <1>4, <2>4
    <3>2. u[b] \in T
      BY <1>2, <1>3, <1>4, <2>4
    <3> QED BY <3>1, <3>2
  <2> QED BY <1>8, <2>2, <2>3, <2>4
<1>9. Lays(u, S \cup T)
  BY <1>2, <1>7, <1>8 DEF Lays
<1> QED BY <1>2, <1>5, <1>9 DEF u

\* Listings of sets that have nothing in common, one after the other.
LEMMA LaysFlatten ==
  ASSUME NEW n \in Nat, NEW s, s = [i \in 1..n |-> s[i]], NEW T,
         \A i \in 1..n : Lays(s[i], T[i]),
         \A i, j \in 1..n : i # j => T[i] \cap T[j] = {}
  PROVE  Lays(FlattenSeq(s), UNION {T[i] : i \in 1..n})
<1> DEFINE U == UNION {T[i] : i \in 1..n}
           upTo(k) == UNION {T[i] : i \in 1..k}
<1>1. \A i \in 1..n : s[i] \in Seq(U)
  <2>1. ASSUME NEW i \in 1..n PROVE s[i] \in Seq(U)
    <3>1. s[i] \in Seq(T[i]) /\ T[i] \subseteq U
      BY DEF Lays
    <3> QED BY <3>1, SeqMonotonic
  <2> QED BY <2>1
<1>2. s \in Seq(Seq(U)) /\ Len(s) = n
  BY <1>1, IsSequence
<1>3. CASE n = 0
  <2>1. s = << >> /\ U = {}
    BY <1>2, <1>3, EmptySeq
  <2> QED BY <2>1, LaysFew DEF FlattenSeq
<1>4. CASE n # 0
  <2>1. PICK f : /\ FlattenSeq(s) = f[n]
                 /\ \A i \in 1..n : f[i] = IF i = 1 THEN s[i] ELSE f[i - 1] \o s[i]
    <3>1. Len(s) \in Nat \ {0}
      BY <1>2, <1>4
    <3>2. \E f : /\ FlattenSeq(s) = f[Len(s)]
                 /\ \A i \in 1..Len(s) : f[i] = IF i = 1 THEN s[i] ELSE f[i - 1] \o s[i]
      BY <3>1, FlattenOf
    <3>3. Len(s) = n
      BY <1>2
    <3> HIDE DEF upTo, U
    <3> QED BY <3>2, <3>3
  <2> DEFINE V == {k \in Nat : \A i \in 1..n : i = k + 1 => Lays(f[i], upTo(i))}
  <2>2. 0 \in V
    <3>1. ASSUME NEW i \in 1..n, i = 1 PROVE Lays(f[i], upTo(i))
      <4>1. upTo(i) = T[1] /\ f[i] = s[1] /\ 1 \in 1..n
        BY <2>1, <3>1
      <4> QED BY <4>1
    <3> QED BY <3>1
  <2>3. ASSUME NEW k \in V PROVE k + 1 \in V
    <3>1. ASSUME NEW i \in 1..n, i = k + 1 + 1 PROVE Lays(f[i], upTo(i))
      <4>1. k \in Nat /\ i - 1 \in 1..n /\ i - 1 = k + 1 /\ i # 1
        BY <3>1
      <4>2. Lays(f[i - 1], upTo(i - 1))
        BY <4>1
      <4> HIDE DEF V
      <4>3. f[i] = f[i - 1] \o s[i] /\ Lays(s[i], T[i])
        BY <2>1, <4>1
      <4>4. upTo(i - 1) \cap T[i] = {}
        <5>1. \A j \in 1..(i - 1) : j \in 1..n /\ j # i
          BY <4>1
        <5> QED BY <5>1
      <4>5. upTo(i) = upTo(i - 1) \cup T[i]
        <5>1. \A j : j \in 1..i <=> j \in 1..(i - 1) \/ j = i
          BY <4>1
        <5> QED BY <5>1
      <4> HIDE DEF upTo
      <4> QED BY <4>2, <4>3, <4>4, <4>5, LaysConcat
    <3> QED BY <2>3, <3>1
  <2>4. V = Nat
    <3> HIDE DEF V
    <3>1. V \in SUBSET Nat
      BY DEF V
    <3> QED BY <2>2, <2>3, <3>1, NatInd
  <2>5. n - 1 \in V /\ n \in 1..n
    <3> HIDE DEF V
    <3> QED BY <1>4, <2>4
  <2>6. Lays(f[n], upTo(n))
    BY <2>5
  <2> QED BY <2>1, <2>6
<1> QED BY <1>3, <1>4

\* What is said of the beginning stays true when more is added.
LEMMA ConcatStarts ==
  ASSUME NEW S, NEW a \in Seq(S), NEW b \in Seq(S), NEW m \in Nat, Len(a) >= m
  PROVE  Len(a \o b) >= m /\ \A k \in 1..m : k \in 1..Len(a) /\ (a \o b)[k] = a[k]
<1>1. Len(a) \in Nat /\ Len(b) \in Nat
  BY LenProperties
<1> DEFINE c == a \o b
<1>2. /\ Len(c) = Len(a) + Len(b)
      /\ \A k \in 1..(Len(a) + Len(b)) : c[k] = IF k <= Len(a) THEN a[k] ELSE b[k - Len(a)]
  BY ConcatProperties
<1> HIDE DEF c
<1>3. Len(c) >= m
  BY <1>1, <1>2
<1>4. ASSUME NEW k \in 1..m PROVE k \in 1..Len(a) /\ c[k] = a[k]
  BY <1>1, <1>2
<1> QED BY <1>3, <1>4 DEF c

\* It begins with the first of them that is not empty.
LEMMA FlattenStarts ==
  ASSUME NEW S, NEW s \in Seq(Seq(S)), NEW j \in 1..Len(s),
         \A i \in 1..(j - 1) : s[i] = <<>>
  PROVE  \A k \in 1..Len(s[j]) : FlattenSeq(s)[k] = s[j][k]
<1>1. Len(s) \in Nat \ {0} /\ \A i \in 1..Len(s) : s[i] \in Seq(S)
  BY LenProperties, ElementOfSeq
<1>2. PICK f : /\ FlattenSeq(s) = f[Len(s)]
               /\ \A i \in 1..Len(s) : /\ f[i] = IF i = 1 THEN s[i] ELSE f[i - 1] \o s[i]
                                       /\ f[i] \in Seq(S)
  BY <1>1, FlattenSteps
<1> DEFINE W == {k \in Nat : \A i \in 1..Len(s) : i = k + 1 /\ i < j => f[i] = <<>>}
<1>3. 0 \in W
  <2>1. ASSUME NEW i \in 1..Len(s), i = 1, i < j PROVE f[i] = <<>>
    <3>1. f[i] = s[i] /\ i \in 1..(j - 1)
      BY <1>1, <1>2, <2>1
    <3> QED BY <3>1
  <2> QED BY <2>1
<1>4. ASSUME NEW k \in W PROVE k + 1 \in W
  <2>1. ASSUME NEW i \in 1..Len(s), i = k + 1 + 1, i < j PROVE f[i] = <<>>
    <3>1. k \in Nat /\ i - 1 \in 1..Len(s) /\ i - 1 = k + 1 /\ i # 1 /\ i - 1 < j /\ i \in 1..(j - 1)
      BY <1>1, <2>1
    <3>2. f[i - 1] = <<>>
      BY <3>1
    <3> HIDE DEF W
    <3>3. f[i] = f[i - 1] \o s[i] /\ s[i] = <<>>
      BY <1>2, <3>1
    <3> QED BY <3>2, <3>3, ConcatEmptySeq, EmptySeq
  <2> QED BY <2>1
<1>5. W = Nat
  <2> HIDE DEF W
  <2>1. W \in SUBSET Nat
    BY DEF W
  <2> QED BY <1>3, <1>4, <2>1, NatInd
<1>6. f[j] = s[j]
  <2>1. CASE j = 1
    BY <1>2, <2>1
  <2>2. CASE j # 1
    <3>1. j - 1 \in 1..Len(s) /\ j - 2 \in Nat /\ j - 1 = j - 2 + 1 /\ j - 1 < j
      BY <1>1, <2>2
    <3>2. f[j - 1] = <<>>
      <4> HIDE DEF W
      <4>1. j - 2 \in W
        BY <1>5, <3>1
      <4> QED BY <3>1, <4>1 DEF W
    <3>3. f[j] = f[j - 1] \o s[j] /\ s[j] \in Seq(S)
      BY <1>1, <1>2, <2>2
    <3> QED BY <3>2, <3>3, ConcatEmptySeq
  <2> QED BY <2>1, <2>2
<1> DEFINE V == {d \in Nat : \A i \in 1..Len(s) : i = j + d =>
                   Len(f[i]) >= Len(s[j]) /\ \A k \in 1..Len(s[j]) : f[i][k] = s[j][k]}
<1>7. 0 \in V
  <2>1. Len(s[j]) \in Nat
    BY <1>1, LenProperties
  <2> QED BY <1>6, <2>1
<1>8. ASSUME NEW d \in V PROVE d + 1 \in V
  <2>1. ASSUME NEW i \in 1..Len(s), i = j + (d + 1)
        PROVE  Len(f[i]) >= Len(s[j]) /\ \A k \in 1..Len(s[j]) : f[i][k] = s[j][k]
    <3>1. d \in Nat /\ i - 1 \in 1..Len(s) /\ i - 1 = j + d /\ i # 1
      BY <1>1, <2>1
    <3>2. Len(f[i - 1]) >= Len(s[j]) /\ \A k \in 1..Len(s[j]) : f[i - 1][k] = s[j][k]
      BY <3>1
    <3> HIDE DEF V
    <3>3. f[i] = f[i - 1] \o s[i] /\ f[i - 1] \in Seq(S) /\ s[i] \in Seq(S) /\ s[j] \in Seq(S)
      BY <1>1, <1>2, <3>1
    <3>4. Len(f[i - 1]) \in Nat /\ Len(s[i]) \in Nat /\ Len(s[j]) \in Nat
      BY <3>3, LenProperties
    <3>5. PICK a, b, m : a = f[i - 1] /\ b = s[i] /\ m = Len(s[j])
      OBVIOUS
    <3>6. a \in Seq(S) /\ b \in Seq(S) /\ m \in Nat /\ Len(a) >= m
      BY <3>2, <3>3, <3>4, <3>5
    <3>7. Len(a \o b) >= m /\ \A k \in 1..m : (a \o b)[k] = a[k]
      BY <3>6, ConcatStarts
    <3>8. f[i] = a \o b
      BY <3>3, <3>5
    <3> QED BY <3>2, <3>5, <3>7, <3>8
  <2> QED BY <1>8, <2>1
<1>9. V = Nat
  <2> HIDE DEF V
  <2>1. V \in SUBSET Nat
    BY DEF V
  <2> QED BY <1>7, <1>8, <2>1, NatInd
<1>10. Len(s) - j \in V /\ Len(s) = j + (Len(s) - j) /\ Len(s) \in 1..Len(s)
  <2> HIDE DEF V
  <2> QED BY <1>1, <1>9
<1>11. \A k \in 1..Len(s[j]) : f[Len(s)][k] = s[j][k]
  BY <1>10
<1> QED BY <1>2, <1>11

-----------------------------------------------------------------------------
(* Iteration of a function.                                                 *)

\* A[n] is the function applied n times.
Iterates(f, X, A) ==
  /\ A \in [Nat -> [X -> X]]
  /\ \A x \in X : A[0][x] = x
  /\ \A n \in Nat : \A x \in X : A[n + 1][x] = f[A[n][x]]

\* The first n iterates.
IteratesUpTo(f, X, n, g) ==
  g = [i \in 0..n |-> IF i = 0 THEN [x \in X |-> x] ELSE [x \in X |-> f[g[i - 1][x]]]]

\* A function has iterates up to every number ...
LEMMA IterationSteps ==
  ASSUME NEW X, NEW f \in [X -> X], NEW n \in Nat
  PROVE  \E g : IteratesUpTo(f, X, n, g)
<1> DEFINE T == {m \in Nat : \E g : IteratesUpTo(f, X, m, g)}
<1>1. 0 \in T
  <2> DEFINE g == [i \in 0..0 |-> [x \in X |-> x]]
  <2>1. IteratesUpTo(f, X, 0, g)
    BY DEF IteratesUpTo
  <2> HIDE DEF g
  <2> QED BY <2>1
<1>2. ASSUME NEW m \in T PROVE m + 1 \in T
  <2>1. PICK g : IteratesUpTo(f, X, m, g)
    OBVIOUS
  <2>2. m \in Nat
    OBVIOUS
  <2> DEFINE h == [i \in 0..(m + 1) |-> IF i = 0 THEN [x \in X |-> x] ELSE [x \in X |-> f[g[i - 1][x]]]]
  <2>3. \A i \in 0..(m + 1) : h[i] = IF i = 0 THEN [x \in X |-> x] ELSE [x \in X |-> f[g[i - 1][x]]]
    OBVIOUS
  <2>4. h = [i \in 0..(m + 1) |-> h[i]]
    OBVIOUS
  <2>5. \A i \in 0..m : g[i] = IF i = 0 THEN [x \in X |-> x] ELSE [x \in X |-> f[g[i - 1][x]]]
    BY <2>1 DEF IteratesUpTo
  <2> HIDE DEF h, T
  <2>6. ASSUME NEW i \in 0..m PROVE h[i] = g[i]
    <3>1. i \in 0..(m + 1)
      BY <2>2
    <3> QED BY <2>3, <2>5, <3>1
  <2>7. \A i \in 0..(m + 1) : i # 0 => h[i - 1] = g[i - 1]
    BY <2>2, <2>6
  <2>8. \A i \in 0..(m + 1) : h[i] = IF i = 0 THEN [x \in X |-> x] ELSE [x \in X |-> f[h[i - 1][x]]]
    BY <2>3, <2>7
  <2>9. IteratesUpTo(f, X, m + 1, h)
    BY <2>4, <2>8 DEF IteratesUpTo
  <2>10. \E u : IteratesUpTo(f, X, m + 1, u)
    BY <2>9
  <2> QED BY <2>2, <2>10 DEF T
<1>3. T = Nat
  <2> HIDE DEF T
  <2>1. T \in SUBSET Nat
    BY DEF T
  <2> QED BY <1>1, <1>2, <2>1, NatInd
<1> QED BY <1>3

\* ... and so all of them.
LEMMA Iteration ==
  ASSUME NEW X, NEW f \in [X -> X]
  PROVE  \E A : Iterates(f, X, A)
<1> DEFINE G == [n \in Nat |-> CHOOSE g : IteratesUpTo(f, X, n, g)]
           A == [n \in Nat |-> G[n][n]]
<1>1. \A n \in Nat : IteratesUpTo(f, X, n, G[n])
  BY IterationSteps
<1>2. \A n \in Nat : A[n] = G[n][n]
  OBVIOUS
<1>3. A = [n \in Nat |-> A[n]]
  OBVIOUS
<1> HIDE DEF G, A
<1>4. \A n \in Nat : \A i \in 0..n :
        G[n][i] = IF i = 0 THEN [x \in X |-> x] ELSE [x \in X |-> f[G[n][i - 1][x]]]
  BY <1>1 DEF IteratesUpTo
<1>5. \A n \in Nat : G[n][0] = [x \in X |-> x]
  <2>1. \A n \in Nat : 0 \in 0..n
    OBVIOUS
  <2> QED BY <1>4, <2>1
<1>6. \A n, i \in Nat : i + 1 <= n => G[n][i + 1] = [x \in X |-> f[G[n][i][x]]]
  <2>1. ASSUME NEW n \in Nat, NEW i \in Nat, i + 1 <= n PROVE G[n][i + 1] = [x \in X |-> f[G[n][i][x]]]
    <3>1. i + 1 \in 0..n /\ i + 1 # 0 /\ i + 1 - 1 = i
      BY <2>1
    <3>2. \A j \in 0..n : j # 0 => G[n][j] = [x \in X |-> f[G[n][j - 1][x]]]
      BY <1>4
    <3>3. PICK j : j = i + 1
      OBVIOUS
    <3>4. G[n][j] = [x \in X |-> f[G[n][j - 1][x]]] /\ j - 1 = i
      BY <3>1, <3>2, <3>3
    <3> QED BY <3>3, <3>4
  <2> QED BY <2>1
<1> DEFINE V == {i \in Nat : /\ A[i] \in [X -> X]
                             /\ \A n \in Nat : i <= n => G[n][i] = A[i]}
<1>7. 0 \in V
  <2>1. A[0] = [x \in X |-> x]
    BY <1>2, <1>5
  <2>2. A[0] \in [X -> X]
    BY <2>1
  <2>3. \A n \in Nat : G[n][0] = A[0]
    BY <1>5, <2>1
  <2> QED BY <2>2, <2>3
<1>8. ASSUME NEW i \in V
      PROVE  i + 1 \in V /\ A[i + 1] = [x \in X |-> f[A[i][x]]]
  <2>1. i \in Nat /\ i + 1 \in Nat /\ A[i] \in [X -> X] /\ \A n \in Nat : i <= n => G[n][i] = A[i]
    OBVIOUS
  <2>2. \A n \in Nat : i + 1 <= n => G[n][i + 1] = [x \in X |-> f[A[i][x]]]
    <3>1. ASSUME NEW n \in Nat, i + 1 <= n PROVE G[n][i] = A[i]
      BY <2>1, <3>1
    <3> QED BY <1>6, <2>1, <3>1
  <2>3. A[i + 1] = [x \in X |-> f[A[i][x]]]
    BY <1>2, <2>1, <2>2
  <2>4. A[i + 1] \in [X -> X]
    BY <2>1, <2>3
  <2> QED BY <2>1, <2>2, <2>3, <2>4
<1>9. V = Nat
  <2> HIDE DEF V
  <2>1. V \in SUBSET Nat
    BY DEF V
  <2> QED BY <1>7, <1>8, <2>1, NatInd
<1>10. A \in [Nat -> [X -> X]]
  BY <1>3, <1>9
<1>11. \A x \in X : A[0][x] = x
  BY <1>2, <1>5
<1>12. \A n \in Nat : \A x \in X : A[n + 1][x] = f[A[n][x]]
  <2>1. ASSUME NEW n \in Nat PROVE A[n + 1] = [x \in X |-> f[A[n][x]]]
    <3>1. n \in V
      BY <1>9
    <3> HIDE DEF V
    <3> QED BY <1>8, <3>1
  <2>2. ASSUME NEW n \in Nat, NEW x \in X PROVE A[n + 1][x] = f[A[n][x]]
    BY <2>1
  <2> QED BY <2>2
<1>13. Iterates(f, X, A)
  BY <1>10, <1>11, <1>12 DEF Iterates
<1> QED BY <1>13

\* The iterates add up, and stay where the function does.
LEMMA IteratesAdd ==
  ASSUME NEW X, NEW f, NEW A, Iterates(f, X, A)
  PROVE  /\ \A m, n \in Nat : \A x \in X : A[m][A[n][x]] = A[n + m][x]
         /\ \A z \in X : f[z] = z => \A m \in Nat : A[m][z] = z
<1>1. \A n \in Nat : \A x \in X : A[n][x] \in X
  BY DEF Iterates
<1> DEFINE V == {m \in Nat : \A n \in Nat : \A x \in X : A[m][A[n][x]] = A[n + m][x]}
           W == {m \in Nat : \A z \in X : f[z] = z => A[m][z] = z}
<1>2. 0 \in V /\ 0 \in W
  <2>1. \A n \in Nat : n + 0 = n
    OBVIOUS
  <2> QED BY <1>1, <2>1 DEF Iterates
<1>3. ASSUME NEW m \in V PROVE m + 1 \in V
  <2>1. m \in Nat /\ m + 1 \in Nat
    OBVIOUS
  <2>2. ASSUME NEW n \in Nat, NEW x \in X PROVE A[m + 1][A[n][x]] = A[n + (m + 1)][x]
    <3>1. A[m + 1][A[n][x]] = f[A[m][A[n][x]]]
      BY <1>1, <2>1 DEF Iterates
    <3>2. A[m][A[n][x]] = A[n + m][x]
      OBVIOUS
    <3> HIDE DEF V, W
    <3>3. n + m \in Nat /\ n + (m + 1) = (n + m) + 1
      BY <2>1
    <3>4. A[(n + m) + 1][x] = f[A[n + m][x]]
      BY <3>3 DEF Iterates
    <3> QED BY <3>1, <3>2, <3>3, <3>4
  <2> QED BY <2>1, <2>2
<1>4. ASSUME NEW m \in W PROVE m + 1 \in W
  BY DEF Iterates
<1>5. V = Nat /\ W = Nat
  <2> HIDE DEF V, W
  <2>1. V \in SUBSET Nat /\ W \in SUBSET Nat
    BY DEF V, W
  <2> QED BY <1>2, <1>3, <1>4, <2>1, NatInd
<1> QED BY <1>5

\* What is built step by step, each step from the last.
Recurses(f, b, n, g) == g = [i \in 0..n |-> IF i = 0 THEN b ELSE f[g[i - 1]]]

\* There is what is built step by step.
LEMMA Recursion ==
  ASSUME NEW X, NEW f \in [X -> X], NEW b \in X, NEW n \in Nat
  PROVE  \E g : Recurses(f, b, n, g) /\ g \in [0..n -> X]
<1>1. PICK A : Iterates(f, X, A)
  BY Iteration
<1> DEFINE g == [i \in 0..n |-> A[i][b]]
<1>2. \A i \in 0..n : g[i] = A[i][b] /\ g[i] \in X
  BY <1>1 DEF Iterates
<1>3. \A i \in 0..n : i # 0 => i - 1 \in 0..n /\ i - 1 \in Nat /\ i - 1 + 1 = i
  OBVIOUS
<1>4. \A i \in 0..n : i # 0 => A[i][b] = f[A[i - 1][b]]
  BY <1>1, <1>3 DEF Iterates
<1>5. g = [i \in 0..n |-> g[i]]
  OBVIOUS
<1> HIDE DEF g
<1>6. \A i \in 0..n : g[i] = IF i = 0 THEN b ELSE f[g[i - 1]]
  <2>1. \A i \in 0..n : i = 0 => g[i] = b
    BY <1>1, <1>2 DEF Iterates
  <2>2. ASSUME NEW i \in 0..n, i # 0 PROVE g[i] = f[g[i - 1]]
    <3>1. i - 1 \in 0..n
      BY <1>3, <2>2
    <3>2. g[i] = A[i][b] /\ g[i - 1] = A[i - 1][b]
      BY <1>2, <3>1
    <3> QED BY <1>4, <2>2, <3>2
  <2> QED BY <2>1, <2>2
<1>7. Recurses(f, b, n, g)
  BY <1>5, <1>6 DEF Recurses
<1>8. g \in [0..n -> X]
  BY <1>2, <1>5
<1> QED BY <1>7, <1>8

-----------------------------------------------------------------------------
(* A finite set in the order of a relation, by how many come before each.       *)

\* A set in the order of a relation, as Sorted puts it,
Arranged(S, L) ==
  LET before == [x \in S |-> Cardinality({y \in S : <<y, x>> \in L})]
  IN [k \in 1..Cardinality(S) |-> CHOOSE x \in S : before[x] = k - 1]

\* and what makes the relation a strict order of it.
IsOrder(S, L) ==
  /\ \A x \in S : <<x, x>> \notin L
  /\ \A x, y, z \in S : <<x, y>> \in L /\ <<y, z>> \in L => <<x, z>> \in L
  /\ \A x, y \in S : x # y => <<x, y>> \in L \/ <<y, x>> \in L

\* The arrangement by a strict order lists the set in that order.
LEMMA ArrangedLays ==
  ASSUME NEW S, IsFiniteSet(S), NEW L, IsOrder(S, L)
  PROVE  /\ Lays(Arranged(S, L), S) /\ Len(Arranged(S, L)) = Cardinality(S)
         /\ \A i, j \in 1..Cardinality(S) : i < j => <<Arranged(S, L)[i], Arranged(S, L)[j]>> \in L
<1> DEFINE B(x) == {y \in S : <<y, x>> \in L}
           n == Cardinality(S)
           before == [x \in S |-> Cardinality(B(x))]
           q == Arranged(S, L)
<1>1. n \in Nat
  BY FS_CardinalityType
<1>2. \A x \in S : IsFiniteSet(B(x)) /\ Cardinality(B(x)) \in Nat
  <2>1. \A x \in S : B(x) \in SUBSET S
    OBVIOUS
  <2> HIDE DEF B
  <2> QED BY <2>1, FS_Subset, FS_CardinalityType
<1>3. ASSUME NEW x \in S PROVE Cardinality(B(x)) < n
  <2>1. B(x) \in SUBSET (S \ {x})
    BY DEF IsOrder
  <2> HIDE DEF B
  <2>2. IsFiniteSet(S \ {x}) /\ Cardinality(S \ {x}) = n - 1
    BY FS_RemoveElement
  <2>3. Cardinality(B(x)) <= n - 1
    BY <2>1, <2>2, FS_Subset
  <2> QED BY <1>1, <1>2, <2>3
<1>4. ASSUME NEW x \in S, NEW y \in S, <<x, y>> \in L PROVE Cardinality(B(x)) < Cardinality(B(y))
  <2>1. B(x) \in SUBSET (B(y) \ {x}) /\ x \in B(y)
    BY <1>4 DEF IsOrder
  <2> HIDE DEF B
  <2>2. IsFiniteSet(B(y) \ {x}) /\ Cardinality(B(y) \ {x}) = Cardinality(B(y)) - 1
    BY <1>2, <2>1, FS_RemoveElement
  <2>3. Cardinality(B(x)) <= Cardinality(B(y)) - 1
    BY <2>1, <2>2, FS_Subset
  <2> QED BY <1>2, <2>3
<1>5. q = [k \in 1..n |-> CHOOSE x \in S : before[x] = k - 1]
  BY DEF Arranged
<1>6. \A x \in S : before[x] = Cardinality(B(x)) /\ before[x] \in 0..(n - 1)
  <2> HIDE DEF B
  <2> QED BY <1>1, <1>2, <1>3
<1>7. before \in [S -> 0..(n - 1)]
  BY <1>6
<1> HIDE DEF B, before
<1>8. \A x, y \in S : before[x] = before[y] => x = y
  <2>1. \A x \in S : Cardinality(B(x)) \in Nat
    BY <1>2
  <2>2. \A x, y \in S : <<x, y>> \in L => before[x] # before[y]
    BY <1>4, <1>6, <2>1
  <2> QED BY <2>2 DEF IsOrder
<1>9. before \in Injection(S, 0..(n - 1))
  BY <1>7, <1>8 DEF Injection, IsInjective
<1>10. IsFiniteSet(0..(n - 1)) /\ Cardinality(0..(n - 1)) = n
  BY <1>1, FS_Interval, SMTT(30)
<1>11. before \in Surjection(S, 0..(n - 1))
  BY <1>9, <1>10, FS_Injection
<1>12. ASSUME NEW k \in 1..n PROVE q[k] \in S /\ before[q[k]] = k - 1
  <2>1. k - 1 \in 0..(n - 1)
    BY <1>1
  <2>2. \E x \in S : before[x] = k - 1
    BY <1>11, <2>1 DEF Surjection
  <2> QED BY <1>5, <2>2
<1>13. q = [k \in 1..n |-> q[k]]
  BY <1>5
<1> HIDE DEF q
<1>14. \A i, j \in 1..n : q[i] = q[j] => i = j
  <2>1. \A i, j \in 1..n : q[i] = q[j] => i - 1 = j - 1
    BY <1>12
  <2> QED BY <1>1, <2>1
<1>15. ASSUME NEW x \in S PROVE \E i \in 1..n : q[i] = x
  <2>1. before[x] + 1 \in 1..n /\ before[x] + 1 - 1 = before[x]
    BY <1>1, <1>6
  <2>2. PICK i : i = before[x] + 1
    OBVIOUS
  <2>3. i \in 1..n /\ i - 1 = before[x]
    BY <1>1, <1>6, <2>2
  <2>4. q[i] \in S /\ before[q[i]] = before[x]
    BY <1>12, <2>3
  <2> QED BY <1>8, <2>3, <2>4
<1>16. Lays(q, S) /\ Len(q) = n
  BY <1>1, <1>12, <1>13, <1>14, <1>15, LaysFunction
<1>17. ASSUME NEW i \in 1..n, NEW j \in 1..n, i < j PROVE <<q[i], q[j]>> \in L
  <2>1. q[i] # q[j]
    BY <1>1, <1>14, <1>17
  <2>2. CASE <<q[j], q[i]>> \in L
    <3>1. before[q[j]] < before[q[i]]
      BY <1>4, <1>6, <1>12, <2>2
    <3>2. j - 1 < i - 1
      BY <1>12, <3>1
    <3> QED BY <1>1, <1>17, <3>2
  <2> QED BY <1>12, <2>1, <2>2 DEF IsOrder
<1> QED BY <1>16, <1>17 DEF q

\* The positions of a sequence of times, the latest first, equal ones as they are.
LatestOrder(n, times) ==
  {p \in (1..n) \X (1..n) : \/ times[p[1]] > times[p[2]]
                            \/ times[p[1]] = times[p[2]] /\ p[1] < p[2]}

\* The latest first is such an order of the positions,
LEMMA LatestIsOrder ==
  ASSUME NEW n \in Nat, NEW times, \A i \in 1..n : times[i] \in Nat
  PROVE  IsOrder(1..n, LatestOrder(n, times))
<1> DEFINE L == LatestOrder(n, times)
<1>1. \A i, j \in 1..n : <<i, j>> \in L <=> times[i] > times[j] \/ (times[i] = times[j] /\ i < j)
  BY DEF LatestOrder
<1> HIDE DEF L
<1>2. \A x \in 1..n : <<x, x>> \notin L
  BY <1>1
<1>3. \A x, y, z \in 1..n : <<x, y>> \in L /\ <<y, z>> \in L => <<x, z>> \in L
  BY <1>1
<1>4. \A x, y \in 1..n : x # y => <<x, y>> \in L \/ <<y, x>> \in L
  BY <1>1
<1>5. IsOrder(1..n, L)
  BY <1>2, <1>3, <1>4 DEF IsOrder
<1> QED BY <1>5 DEF L

\* A finite set of numbers, in their order.
RankOrder(S, rank) == {p \in S \X S : rank[p[1]] < rank[p[2]]}

\* and so is that by ranks that are all different.
LEMMA RankIsOrder ==
  ASSUME NEW S, NEW rank, \A x \in S : rank[x] \in Nat, \A x, y \in S : rank[x] = rank[y] => x = y
  PROVE  IsOrder(S, RankOrder(S, rank))
<1> DEFINE L == RankOrder(S, rank)
<1>1. \A x, y \in S : <<x, y>> \in L <=> rank[x] < rank[y]
  BY DEF RankOrder
<1> HIDE DEF L
<1>2. \A x \in S : <<x, x>> \notin L
  BY <1>1
<1>3. \A x, y, z \in S : <<x, y>> \in L /\ <<y, z>> \in L => <<x, z>> \in L
  BY <1>1
<1>4. \A x, y \in S : x # y => <<x, y>> \in L \/ <<y, x>> \in L
  BY <1>1
<1>5. IsOrder(S, L)
  BY <1>2, <1>3, <1>4 DEF IsOrder
<1> QED BY <1>5 DEF L

-----------------------------------------------------------------------------
(* More about listings.                                                     *)

\* A listing in another order.
LEMMA LaysPermuted ==
  ASSUME NEW T, NEW s, Lays(s, T), NEW order, Lays(order, DOMAIN s)
  PROVE  LET t == [k \in DOMAIN s |-> s[order[k]]] IN Lays(t, T) /\ Len(t) = Len(s)
<1> DEFINE n == Len(s)
           t == [k \in DOMAIN s |-> s[order[k]]]
<1>1. n \in Nat /\ DOMAIN s = 1..n /\ \A i \in 1..n : s[i] \in T
  BY LaysShape
<1>2. Len(order) \in Nat /\ DOMAIN order = 1..Len(order) /\ Cardinality(DOMAIN s) = Len(order)
      /\ \A i \in 1..Len(order) : order[i] \in DOMAIN s
  BY LaysShape
<1>3. Len(order) = n
  <2>1. Cardinality(1..n) = n
    BY <1>1, FS_Interval, SMTT(30)
  <2> QED BY <1>1, <1>2, <2>1
<1>4. \A k \in 1..n : t[k] = s[order[k]] /\ order[k] \in 1..n
  BY <1>1, <1>2, <1>3
<1>5. t = [k \in 1..n |-> t[k]]
  BY <1>1
<1> HIDE DEF t
<1>6. \A k \in 1..n : t[k] \in T
  BY <1>1, <1>4
<1>7. \A i, j \in 1..n : t[i] = t[j] => i = j
  <2>1. \A i, j \in 1..n : s[i] = s[j] => i = j
    BY <1>1 DEF Lays
  <2>2. \A i, j \in 1..n : order[i] = order[j] => i = j
    BY <1>2, <1>3 DEF Lays
  <2> QED BY <1>4, <2>1, <2>2
<1>8. \A x \in T : \E i \in 1..n : t[i] = x
  <2>1. \A x \in T : \E i \in 1..n : s[i] = x
    BY <1>1 DEF Lays
  <2>2. \A i \in 1..n : \E k \in 1..n : order[k] = i
    BY <1>1, <1>2, <1>3 DEF Lays
  <2> QED BY <1>4, <2>1, <2>2, SMTT(30)
<1>9. Lays(t, T) /\ Len(t) = n
  BY <1>1, <1>5, <1>6, <1>7, <1>8, LaysFunction
<1> QED BY <1>9 DEF t

\* A listing of what a function makes of each, when it makes two of none.
LEMMA LaysMapped ==
  ASSUME NEW T, NEW s, Lays(s, T), NEW f, \A x, y \in T : f[x] = f[y] => x = y
  PROVE  LET t == [k \in DOMAIN s |-> f[s[k]]] IN Lays(t, {f[x] : x \in T}) /\ Len(t) = Len(s)
<1> DEFINE n == Len(s)
           t == [k \in DOMAIN s |-> f[s[k]]]
           U == {f[x] : x \in T}
<1>1. n \in Nat /\ DOMAIN s = 1..n /\ \A i \in 1..n : s[i] \in T
  BY LaysShape
<1>2. \A k \in 1..n : t[k] = f[s[k]]
  BY <1>1
<1>3. t = [k \in 1..n |-> t[k]]
  BY <1>1
<1> HIDE DEF t
<1>4. \A k \in 1..n : t[k] \in U
  BY <1>1, <1>2
<1>5. \A i, j \in 1..n : t[i] = t[j] => i = j
  BY <1>1, <1>2 DEF Lays
<1>6. \A x \in U : \E i \in 1..n : t[i] = x
  BY <1>1, <1>2 DEF Lays
<1> HIDE DEF U
<1>7. Lays(t, U) /\ Len(t) = n
  BY <1>1, <1>3, <1>4, <1>5, <1>6, LaysFunction
<1> QED BY <1>7 DEF t, U

\* What filter keeps of a listing, K being what passes.
LEMMA LaysWhere ==
  ASSUME NEW T, NEW s, Lays(s, T), NEW K
  PROVE  Lays(FlattenSeq([i \in DOMAIN s |-> IF s[i] \in K THEN <<s[i]>> ELSE <<>>]), T \cap K)
<1> DEFINE n == Len(s)
           each == [i \in 1..n |-> IF s[i] \in K THEN <<s[i]>> ELSE <<>>]
           part == [i \in 1..n |-> IF s[i] \in K THEN {s[i]} ELSE {}]
<1>1. n \in Nat /\ DOMAIN s = 1..n /\ \A i \in 1..n : s[i] \in T
  BY LaysShape
<1>2. \A i \in 1..n : Lays(each[i], part[i])
  BY LaysFew
<1>3. \A i, j \in 1..n : i # j => part[i] \cap part[j] = {}
  BY <1>1 DEF Lays
<1>4. UNION {part[i] : i \in 1..n} = T \cap K
  BY <1>1 DEF Lays
<1>5. each = [i \in 1..n |-> each[i]]
  OBVIOUS
<1>6. [i \in DOMAIN s |-> IF s[i] \in K THEN <<s[i]>> ELSE <<>>] = each
  BY <1>1
<1> HIDE DEF each, part
<1>7. Lays(FlattenSeq(each), UNION {part[i] : i \in 1..n})
  BY <1>1, <1>2, <1>3, <1>5, LaysFlatten
<1> QED BY <1>4, <1>6, <1>7

\* A finite set of natural numbers that is not empty has a greatest one.
LEMMA GreatestNat ==
  ASSUME NEW T \in SUBSET Nat, IsFiniteSet(T), T # {}
  PROVE  \E x \in T : \A y \in T : x >= y
<1> DEFINE rank == [x \in T |-> x]
           q == Arranged(T, RankOrder(T, rank))
           n == Cardinality(T)
<1>1. \A x \in T : rank[x] = x /\ rank[x] \in Nat
  OBVIOUS
<1>2. IsOrder(T, RankOrder(T, rank))
  <2> HIDE DEF rank
  <2> QED BY <1>1, RankIsOrder
<1> HIDE DEF q
<1>3. /\ Lays(q, T) /\ Len(q) = n
      /\ \A i, j \in 1..n : i < j => <<q[i], q[j]>> \in RankOrder(T, rank)
  <2> HIDE DEF rank
  <2> QED BY <1>2, ArrangedLays DEF q
<1>4. n \in Nat \ {0} /\ DOMAIN q = 1..n /\ \A i \in 1..n : q[i] \in T
  <2>1. n \in Nat /\ n # 0
    BY FS_CardinalityType, FS_EmptySet
  <2> QED BY <1>3, <2>1, LaysShape
<1>5. \A i, j \in 1..n : i < j => q[i] < q[j]
  BY <1>3 DEF RankOrder
<1>6. n \in 1..n
  BY <1>4
<1>7. ASSUME NEW y \in T PROVE q[n] >= y
  <2>1. PICK i \in 1..n : q[i] = y
    BY <1>3, <1>4 DEF Lays
  <2>2. i = n \/ i < n
    BY <1>4
  <2>3. q[n] \in Nat /\ y \in Nat
    BY <1>4, <1>6
  <2> QED BY <1>5, <1>6, <2>1, <2>2, <2>3
<1> QED BY <1>4, <1>6, <1>7

-----------------------------------------------------------------------------
(* Sums of cardinalities.                                                   *)

\* What the recursion of SumFunction adds up.
AddsUp(c, D, g) ==
  g = [s \in SUBSET D |-> IF s = {} THEN 0 ELSE c[CHOOSE x \in s : TRUE] + g[s \ {CHOOSE x \in s : TRUE}]]

\* SumFunction is its recursion, whatever it adds up.
LEMMA SumIs ==
  ASSUME NEW c
  PROVE  SumFunction(c) = (CHOOSE g : AddsUp(c, DOMAIN c, g))[DOMAIN c]
BY DEF SumFunction, SumFunctionOnSet, FoldFunctionOnSet, MapThenFoldSet, AddsUp

\* The sum of the cardinalities of sets that have nothing in common is that of their
\* union.
LEMMA SumOfCounts ==
  ASSUME NEW c, NEW P, IsFiniteSet(DOMAIN c),
         \A x \in DOMAIN c : IsFiniteSet(P[x]) /\ c[x] = Cardinality(P[x]),
         \A x, y \in DOMAIN c : x # y => P[x] \cap P[y] = {}
  PROVE  LET U == UNION {P[x] : x \in DOMAIN c} IN IsFiniteSet(U) /\ SumFunction(c) = Cardinality(U)
<1> DEFINE D == DOMAIN c
           U(s) == UNION {P[x] : x \in s}
           g == [s \in SUBSET D |-> Cardinality(U(s))]
           h == CHOOSE h : AddsUp(c, D, h)
<1>1. ASSUME NEW s \in SUBSET D PROVE IsFiniteSet(U(s)) /\ IsFiniteSet(s)
  <2> DEFINE F == {P[x] : x \in s}
             f == [x \in s |-> P[x]]
  <2>1. IsFiniteSet(s)
    BY FS_Subset
  <2>2. f \in Surjection(s, F)
    BY DEF Surjection
  <2>3. \A T \in F : IsFiniteSet(T)
    OBVIOUS
  <2> HIDE DEF F, f
  <2>4. IsFiniteSet(F)
    BY <2>1, <2>2, FS_Surjection
  <2>5. IsFiniteSet(UNION F)
    BY <2>3, <2>4, FS_UNION
  <2> QED BY <2>1, <2>5 DEF F
<1>2. ASSUME NEW s \in SUBSET D, NEW x \in s
      PROVE  Cardinality(U(s)) = c[x] + Cardinality(U(s \ {x}))
  <2>1. U(s) = P[x] \cup U(s \ {x}) /\ P[x] \cap U(s \ {x}) = {}
    OBVIOUS
  <2>2. IsFiniteSet(P[x]) /\ IsFiniteSet(U(s \ {x})) /\ c[x] = Cardinality(P[x])
    <3>1. s \ {x} \in SUBSET D
      OBVIOUS
    <3> HIDE DEF U
    <3> QED BY <1>1, <3>1
  <2> HIDE DEF U
  <2>3. Cardinality(P[x] \cup U(s \ {x})) = Cardinality(P[x]) + Cardinality(U(s \ {x})) - Cardinality({})
    <3>1. PICK a, b : a = P[x] /\ b = U(s \ {x})
      OBVIOUS
    <3>2. IsFiniteSet(a) /\ IsFiniteSet(b) /\ a \cap b = {}
      BY <2>1, <2>2, <3>1
    <3>3. Cardinality(a \cup b) = Cardinality(a) + Cardinality(b) - Cardinality(a \cap b)
      BY <3>2, FS_Union
    <3> QED BY <3>1, <3>2, <3>3
  <2>4. Cardinality({}) = 0 /\ Cardinality(P[x]) \in Nat /\ Cardinality(U(s \ {x})) \in Nat
    BY <2>2, FS_EmptySet, FS_CardinalityType
  <2> QED BY <2>1, <2>2, <2>3, <2>4
<1>3. \A s \in SUBSET D : s # {} => (CHOOSE x \in s : TRUE) \in s
  OBVIOUS
<1>4. Cardinality(U({})) = 0
  <2>1. U({}) = {}
    OBVIOUS
  <2> HIDE DEF U
  <2> QED BY <2>1, FS_EmptySet
<1>5. AddsUp(c, D, g)
  <2> DEFINE pick(s) == CHOOSE x \in s : TRUE
  <2>1. \A s \in SUBSET D : g[s] = Cardinality(U(s))
    OBVIOUS
  <2>2. g = [s \in SUBSET D |-> g[s]]
    OBVIOUS
  <2> HIDE DEF g, U
  <2>3. ASSUME NEW s \in SUBSET D
        PROVE  g[s] = IF s = {} THEN 0 ELSE c[CHOOSE x \in s : TRUE] + g[s \ {CHOOSE x \in s : TRUE}]
    <3>1. CASE s = {}
      BY <1>4, <2>1, <3>1
    <3>2. CASE s # {}
      <4>1. PICK y : y = CHOOSE x \in s : TRUE
        OBVIOUS
      <4>2. y \in s /\ s \ {y} \in SUBSET D
        BY <1>3, <3>2, <4>1
      <4>3. g[s] = c[y] + g[s \ {y}]
        BY <1>2, <2>1, <4>2
      <4> QED BY <3>2, <4>1, <4>3
    <3> QED BY <3>1, <3>2
  <2> QED BY <2>2, <2>3 DEF AddsUp
<1>6. AddsUp(c, D, h)
  <2> HIDE DEF g
  <2> QED BY <1>5
<1> HIDE DEF g, h
<1>7. \A s \in SUBSET D :
        h[s] = IF s = {} THEN 0 ELSE c[CHOOSE x \in s : TRUE] + h[s \ {CHOOSE x \in s : TRUE}]
  BY <1>6 DEF AddsUp
<1> DEFINE V == {m \in Nat : \A s \in SUBSET D : Cardinality(s) = m => h[s] = Cardinality(U(s))}
<1> HIDE DEF U
<1>8. 0 \in V
  <2>1. ASSUME NEW s \in SUBSET D, Cardinality(s) = 0 PROVE h[s] = Cardinality(U(s))
    <3>1. s = {}
      BY <1>1, <2>1, FS_EmptySet
    <3> QED BY <1>4, <1>7, <3>1
  <2> QED BY <2>1
<1>9. ASSUME NEW m \in V PROVE m + 1 \in V
  <2>1. ASSUME NEW s \in SUBSET D, Cardinality(s) = m + 1 PROVE h[s] = Cardinality(U(s))
    <3>1. m \in Nat
      OBVIOUS
    <3>2. s # {}
      <4>1. Cardinality({}) = 0 /\ m + 1 # 0
        BY <3>1, FS_EmptySet
      <4> QED BY <2>1, <4>1
    <3>3. PICK y : y = CHOOSE x \in s : TRUE
      OBVIOUS
    <3>4. y \in s /\ s \ {y} \in SUBSET D
      BY <1>3, <3>2, <3>3
    <3>5. Cardinality(s \ {y}) = m
      <4>1. Cardinality(s \ {y}) = Cardinality(s) - 1
        BY <1>1, <3>4, FS_RemoveElement
      <4> QED BY <2>1, <3>1, <4>1
    <3>6. h[s \ {y}] = Cardinality(U(s \ {y}))
      BY <3>4, <3>5
    <3>7. h[s] = c[y] + h[s \ {y}]
      BY <1>7, <3>2, <3>3
    <3> QED BY <1>2, <3>4, <3>6, <3>7
  <2>2. m + 1 \in Nat
    OBVIOUS
  <2> QED BY <2>1, <2>2
<1>10. V = Nat
  <2> HIDE DEF V
  <2>1. V \in SUBSET Nat
    BY DEF V
  <2> QED BY <1>8, <1>9, <2>1, NatInd
<1>11. Cardinality(D) \in V /\ D \in SUBSET D
  <2> HIDE DEF V
  <2> QED BY <1>10, FS_CardinalityType
<1>12. h[D] = Cardinality(U(D))
  BY <1>11
<1>13. SumFunction(c) = h[D]
  BY SumIs DEF h
<1>14. IsFiniteSet(U(D))
  BY <1>1, <1>11
<1> QED BY <1>12, <1>13, <1>14 DEF U
=================================================================================
