---------------------------- MODULE DataLemmas ----------------------------
(***************************************************************************)
(* Facts the proofs share. What the channels, batches and chunks of the    *)
(* tool hold, as sequences: what Append, Head, Tail, SubSeq and \o do to   *)
(* the set of the items and to whether any item is there twice. And        *)
(* induction over the natural numbers, for a set instead of a predicate.   *)
(***************************************************************************)
EXTENDS Integers, Sequences, Functions, TLAPS, SequenceTheorems, FiniteSetTheorems,
        FunctionTheorems, WellFoundedInduction

\* A channel that has been drained holds nothing.
LEMMA RangeEmpty == Range(<<>>) = {} /\ IsInjective(<<>>)
BY DEF Range, IsInjective

\* An item is in a sequence if it is at one of its places.
LEMMA RangeMember ==
  ASSUME NEW S, NEW s \in Seq(S), NEW e
  PROVE  /\ e \in Range(s) <=> \E i \in 1..Len(s) : s[i] = e
         /\ Range(s) \subseteq S
<1>1. DOMAIN s = 1..Len(s) /\ \A i \in 1..Len(s) : s[i] \in S
  BY LenProperties, ElementOfSeq
<1> QED
  BY <1>1 DEF Range

\* A sequence repeats nothing if two different places hold different items.
LEMMA InjectiveMeans ==
  ASSUME NEW S, NEW s \in Seq(S)
  PROVE  IsInjective(s) <=> \A i, j \in 1..Len(s) : s[i] = s[j] => i = j
<1>1. DOMAIN s = 1..Len(s)
  BY LenProperties
<1> QED
  BY <1>1 DEF IsInjective

\* Two sequences one after the other hold what either holds, and repeat nothing if
\* neither does and they have nothing in common.
LEMMA Concatenation ==
  ASSUME NEW S, NEW s \in Seq(S), NEW t \in Seq(S)
  PROVE  /\ Range(s \o t) = Range(s) \union Range(t)
         /\ IsInjective(s \o t) <=>
              /\ IsInjective(s) /\ IsInjective(t)
              /\ Range(s) \intersect Range(t) = {}
<1> DEFINE u == s \o t
<1>1. /\ u \in Seq(S) /\ Len(u) = Len(s) + Len(t) /\ Len(s) \in Nat /\ Len(t) \in Nat
      /\ \A i \in 1..Len(u) : u[i] = IF i <= Len(s) THEN s[i] ELSE t[i - Len(s)]
  BY ConcatProperties, LenProperties
<1> HIDE DEF u
<1>2. ASSUME NEW i \in 1..Len(s) PROVE i \in 1..Len(u) /\ u[i] = s[i]
  BY <1>1
<1>3. ASSUME NEW i \in 1..Len(t)
      PROVE  Len(s) + i \in 1..Len(u) /\ u[Len(s) + i] = t[i]
  <2>1. Len(s) + i \in 1..Len(u) /\ ~(Len(s) + i <= Len(s)) /\ (Len(s) + i) - Len(s) = i
    BY <1>1
  <2> QED BY <2>1, <1>1
<1>4. ASSUME NEW i \in 1..Len(u)
      PROVE  \/ i \in 1..Len(s)
             \/ \E j \in 1..Len(t) : i = Len(s) + j
  <2>1. CASE i <= Len(s)
    BY <2>1, <1>1
  <2>2. CASE i > Len(s)
    <3>1. i - Len(s) \in 1..Len(t) /\ i = Len(s) + (i - Len(s))
      BY <2>2, <1>1
    <3> QED BY <3>1
  <2> QED BY <2>1, <2>2, <1>1
<1>5. ASSUME NEW e
      PROVE  (\E i \in 1..Len(u) : u[i] = e)
             <=> (\E i \in 1..Len(s) : s[i] = e) \/ (\E i \in 1..Len(t) : t[i] = e)
  <2>1. ASSUME NEW i \in 1..Len(u), u[i] = e
        PROVE  (\E j \in 1..Len(s) : s[j] = e) \/ (\E j \in 1..Len(t) : t[j] = e)
    <3>1. CASE i \in 1..Len(s)
      BY <2>1, <3>1, <1>2
    <3>2. ASSUME NEW j \in 1..Len(t), i = Len(s) + j PROVE t[j] = e
      BY <2>1, <3>2, <1>3
    <3> QED BY <3>1, <3>2, <1>4
  <2> QED BY <2>1, <1>2, <1>3
<1>6. Range(u) = Range(s) \union Range(t)
  <2>1. ASSUME NEW e PROVE e \in Range(u) <=> e \in Range(s) \/ e \in Range(t)
    <3>1. /\ e \in Range(u) <=> \E i \in 1..Len(u) : u[i] = e
          /\ e \in Range(s) <=> \E i \in 1..Len(s) : s[i] = e
          /\ e \in Range(t) <=> \E i \in 1..Len(t) : t[i] = e
      BY <1>1, RangeMember, Zenon
    <3> QED BY <3>1, <1>5, Zenon
  <2> QED BY <2>1
<1>7. ASSUME \A i, j \in 1..Len(u) : u[i] = u[j] => i = j
      PROVE  /\ \A i, j \in 1..Len(s) : s[i] = s[j] => i = j
             /\ \A i, j \in 1..Len(t) : t[i] = t[j] => i = j
             /\ \A i \in 1..Len(s), j \in 1..Len(t) : s[i] # t[j]
  <2>1. ASSUME NEW i \in 1..Len(s), NEW j \in 1..Len(s), s[i] = s[j] PROVE i = j
    BY <2>1, <1>2, <1>7
  <2>2. ASSUME NEW i \in 1..Len(t), NEW j \in 1..Len(t), t[i] = t[j] PROVE i = j
    <3>1. Len(s) + i = Len(s) + j
      BY <2>2, <1>3, <1>7
    <3> QED BY <3>1, <1>1
  <2>3. ASSUME NEW i \in 1..Len(s), NEW j \in 1..Len(t), s[i] = t[j] PROVE FALSE
    <3>1. i = Len(s) + j
      BY <2>3, <1>2, <1>3, <1>7
    <3> QED BY <3>1, <1>1
  <2> QED BY <2>1, <2>2, <2>3
<1>8. ASSUME \A i, j \in 1..Len(s) : s[i] = s[j] => i = j,
             \A i, j \in 1..Len(t) : t[i] = t[j] => i = j,
             \A i \in 1..Len(s), j \in 1..Len(t) : s[i] # t[j],
             NEW i \in 1..Len(u), NEW j \in 1..Len(u), u[i] = u[j]
      PROVE  i = j
  <2>1. CASE i \in 1..Len(s) /\ j \in 1..Len(s)
    BY <2>1, <1>2, <1>8
  <2>2. ASSUME NEW a \in 1..Len(t), i = Len(s) + a, j \in 1..Len(s) PROVE FALSE
    BY <2>2, <1>2, <1>3, <1>8
  <2>3. ASSUME NEW b \in 1..Len(t), j = Len(s) + b, i \in 1..Len(s) PROVE FALSE
    BY <2>3, <1>2, <1>3, <1>8
  <2>4. ASSUME NEW a \in 1..Len(t), i = Len(s) + a, NEW b \in 1..Len(t), j = Len(s) + b
        PROVE  i = j
    BY <2>4, <1>3, <1>8
  <2> QED BY <2>1, <2>2, <2>3, <2>4, <1>4
<1>9. Range(s) \intersect Range(t) = {}
      <=> \A i \in 1..Len(s), j \in 1..Len(t) : s[i] # t[j]
  <2>1. \A e : e \in Range(s) <=> \E i \in 1..Len(s) : s[i] = e
    BY RangeMember
  <2>2. \A e : e \in Range(t) <=> \E i \in 1..Len(t) : t[i] = e
    BY RangeMember
  <2> QED BY <2>1, <2>2, Zenon
<1>10. /\ IsInjective(u) <=> \A i, j \in 1..Len(u) : u[i] = u[j] => i = j
       /\ IsInjective(s) <=> \A i, j \in 1..Len(s) : s[i] = s[j] => i = j
       /\ IsInjective(t) <=> \A i, j \in 1..Len(t) : t[i] = t[j] => i = j
  <2>1. u \in Seq(S)
    BY <1>1
  <2> QED BY <2>1, InjectiveMeans, Zenon
<1>11. IsInjective(u) <=> /\ IsInjective(s) /\ IsInjective(t)
                          /\ Range(s) \intersect Range(t) = {}
  BY <1>7, <1>8, <1>9, <1>10, Zenon
<1> QED
  BY <1>6, <1>11 DEF u

\* One item alone is not repeated.
LEMMA Singleton ==
  ASSUME NEW S, NEW e \in S
  PROVE  <<e>> \in Seq(S) /\ Range(<<e>>) = {e} /\ IsInjective(<<e>>)
<1>1. <<e>> \in Seq(S) /\ Len(<<e>>) = 1 /\ <<e>>[1] = e /\ DOMAIN <<e>> = {1}
  OBVIOUS
<1> QED
  BY <1>1 DEF Range, IsInjective

\* A send adds one item, and repeats nothing if the item was not there.
LEMMA Appending ==
  ASSUME NEW S, NEW s \in Seq(S), NEW e \in S
  PROVE  /\ Range(Append(s, e)) = Range(s) \union {e}
         /\ IsInjective(Append(s, e)) <=> IsInjective(s) /\ e \notin Range(s)
<1>1. Append(s, e) = s \o <<e>>
  BY AppendIsConcat
<1>2. <<e>> \in Seq(S) /\ Range(<<e>>) = {e} /\ IsInjective(<<e>>)
  BY Singleton
<1>3. /\ Range(s \o <<e>>) = Range(s) \union Range(<<e>>)
      /\ IsInjective(s \o <<e>>) <=> /\ IsInjective(s) /\ IsInjective(<<e>>)
                                     /\ Range(s) \intersect Range(<<e>>) = {}
  BY <1>2, Concatenation
<1>4. Range(s) \intersect {e} = {} <=> e \notin Range(s)
  OBVIOUS
<1> QED
  BY <1>1, <1>2, <1>3, <1>4

\* A receive takes the first item and leaves the others; nothing else holds it if
\* nothing was repeated.
LEMMA Receiving ==
  ASSUME NEW S, NEW s \in Seq(S), s # <<>>
  PROVE  /\ Head(s) \in S /\ Tail(s) \in Seq(S)
         /\ s = <<Head(s)>> \o Tail(s)
         /\ Range(s) = {Head(s)} \union Range(Tail(s))
         /\ IsInjective(s) <=> IsInjective(Tail(s)) /\ Head(s) \notin Range(Tail(s))
<1>1. Head(s) \in S /\ Tail(s) \in Seq(S) /\ Len(s) \in Nat \ {0}
  BY HeadTailProperties, EmptySeq
<1>2. s = <<Head(s)>> \o Tail(s)
  <2>1. /\ SubSeq(s, 1, Len(s)) = <<s[1]>> \o SubSeq(s, 2, Len(s))
        /\ SubSeq(s, 1, Len(s)) = s /\ Tail(s) = SubSeq(s, 2, Len(s))
    <3>1. 1 \in 1..Len(s) /\ Len(s) \in 1..Len(s)
      BY <1>1
    <3>2. SubSeq(s, 1, Len(s)) = <<s[1]>> \o SubSeq(s, 1 + 1, Len(s))
      BY <3>1, SubSeqRecursiveFirst
    <3> QED BY <3>2, SubSeqFull, TailIsSubSeq
  <2>2. Head(s) = s[1]
    BY <1>1, SubSeqFull, HeadTailOfSubSeq, 1 \in 1..Len(s), Len(s) \in 1..Len(s)
  <2> QED BY <2>1, <2>2
<1>3. /\ Range(<<Head(s)>> \o Tail(s)) = Range(<<Head(s)>>) \union Range(Tail(s))
      /\ IsInjective(<<Head(s)>> \o Tail(s)) <=>
           /\ IsInjective(<<Head(s)>>) /\ IsInjective(Tail(s))
           /\ Range(<<Head(s)>>) \intersect Range(Tail(s)) = {}
  BY <1>1, Singleton, Concatenation
<1> QED
  BY <1>1, <1>2, <1>3, Singleton

\* A stream is its first k items and the others.
LEMMA Splitting ==
  ASSUME NEW S, NEW s \in Seq(S), NEW k \in 0..Len(s)
  PROVE  /\ SubSeq(s, 1, k) \in Seq(S) /\ SubSeq(s, k + 1, Len(s)) \in Seq(S)
         /\ SubSeq(s, 1, k) \o SubSeq(s, k + 1, Len(s)) = s
<1>1. Len(s) \in Nat /\ \A i \in 1..Len(s) : s[i] \in S
  BY LenProperties, ElementOfSeq
<1>2. SubSeq(s, 1, k) \in Seq(S)
  <2>1. \A i \in 1..k : s[i] \in S
    BY <1>1
  <2> QED BY <2>1, SubSeqProperties
<1>3. SubSeq(s, k + 1, Len(s)) \in Seq(S)
  <2>1. \A i \in (k + 1)..Len(s) : s[i] \in S
    BY <1>1
  <2>2. k + 1 \in Int /\ Len(s) \in Int
    BY <1>1
  <2> QED BY <2>1, <2>2, SubSeqProperties
<1>4. 1 \in 1..(Len(s) + 1) /\ k \in (1 - 1)..Len(s) /\ Len(s) \in k..Len(s)
  BY <1>1
<1>5. SubSeq(s, 1, k) \o SubSeq(s, k + 1, Len(s)) = SubSeq(s, 1, Len(s))
  BY <1>4, ConcatAdjacentSubSeq
<1> QED
  BY <1>2, <1>3, <1>5, SubSeqFull

\* A stream in which nothing is repeated is as long as the set of what it holds is large.
LEMMA CountOfStream ==
  ASSUME NEW S, NEW s \in Seq(S), IsInjective(s)
  PROVE  IsFiniteSet(Range(s)) /\ Cardinality(Range(s)) = Len(s)
<1>1. Len(s) \in Nat /\ s \in [1..Len(s) -> S]
  BY LenProperties
<1>2. s \in Injection(1..Len(s), S)
  <2>1. \A i, j \in 1..Len(s) : s[i] = s[j] => i = j
    BY InjectiveMeans
  <2> QED BY <1>1, <2>1, Fun_IsInj
<1>3. s \in Bijection(1..Len(s), Range(s))
  BY <1>2, Fun_InjMeansBijImage
<1>4. ExistsBijection(1..Len(s), Range(s))
  BY <1>3 DEF ExistsBijection
<1> QED
  BY <1>1, <1>4, FS_CountingElements, FS_NatBijection

-----------------------------------------------------------------------------
(* Induction. No prover takes an operator as a parameter, but a set does   *)
(* as well: what is proved by induction is membership in one.              *)

LessThan == OpToRel(<, Nat)

\* The order of the natural numbers is well founded.
LEMMA LessThanWellFounded == IsWellFoundedOn(LessThan, Nat)
BY NatLessThanWellFounded, Zenon DEF LessThan

\* A smaller number is below a greater one in it.
LEMMA SmallerIsBelow == \A m, n \in Nat : m < n => <<m, n>> \in LessThan
<1> SUFFICES ASSUME NEW m \in Nat, NEW n \in Nat, m < n PROVE <<m, n>> \in LessThan
  OBVIOUS
<1>1. <<m, n>> \in Nat \X Nat
  OBVIOUS
<1> QED BY <1>1, Zenon DEF LessThan, OpToRel

\* A set that holds 0, and with a number its successor, holds every natural number.
LEMMA SetInduction ==
  ASSUME NEW T, 0 \in T, \A n \in Nat : n \in T => n + 1 \in T
  PROVE  \A n \in Nat : n \in T
<1> SUFFICES ASSUME NEW k \in Nat, k \notin T PROVE FALSE
  OBVIOUS
<1> DEFINE Missing == Nat \ T
<1>1. Missing \subseteq Nat /\ Missing # {}
  OBVIOUS
<1>2. PICK n \in Missing : \A m \in Missing : ~(<<m, n>> \in LessThan)
  BY <1>1, LessThanWellFounded, WFMin
<1>3. \A m \in Missing : ~(m < n)
  BY <1>2, SmallerIsBelow
<1>4. n # 0
  OBVIOUS
<1>5. n - 1 \in Nat /\ n - 1 \in T
  BY <1>3, <1>4
<1> QED BY <1>5
=============================================================================
