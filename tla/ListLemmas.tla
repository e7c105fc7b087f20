-------------------------------- MODULE ListLemmas ----------------------------
(* Facts about the searches and removals of the driver's lists.            *)
EXTENDS Integers, FiniteSetsExt, SequencesExt, FiniteSetTheorems, SequenceTheorems,
        WellFoundedInduction, TLAPS

\* The first match of a search is a match.
LEMMA MinIn ==
    ASSUME NEW S \in SUBSET Nat, S # {}
    PROVE  Min(S) \in S
  <1> DEFINE Less == {ss \in Nat \X Nat : ss[1] < ss[2]}
  <1>1. IsWellFoundedOn(Less, Nat)
    BY NatLessThanWellFounded DEF OpToRel
  <1>2. PICK x \in S : \A y \in S : ~(<<y, x>> \in Less)
    <2> HIDE DEF Less
    <2> QED BY <1>1, WFMin
  <1>3. \A y \in S : x <= y
    <2> SUFFICES ASSUME NEW y \in S, ~(x <= y) PROVE FALSE
      OBVIOUS
    <2>1. x \in Nat /\ y \in Nat /\ y < x
      OBVIOUS
    <2>2. <<y, x>> \in Nat \X Nat /\ <<y, x>>[1] = y /\ <<y, x>>[2] = x
      BY <2>1
    <2>3. <<y, x>> \in Less
      BY <2>1, <2>2
    <2> QED BY <1>2, <2>3
  <1> QED BY <1>3 DEF Min

\* RemoveAt shortens a sequence by one.
LEMMA RemoveAtSeq ==
    ASSUME NEW S, NEW q \in Seq(S), NEW i \in 1..Len(q)
    PROVE  RemoveAt(q, i) \in Seq(S) /\ Len(RemoveAt(q, i)) = Len(q) - 1
  <1>1. Len(q) \in Nat /\ \A j \in 1..Len(q) : q[j] \in S
    BY ElementOfSeq, LenProperties
  <1>2. SubSeq(q, 1, i - 1) \in Seq(S) /\ Len(SubSeq(q, 1, i - 1)) = i - 1
    <2>1. \A j \in 1..(i - 1) : q[j] \in S
      BY <1>1
    <2> QED BY <1>1, <2>1, SubSeqProperties
  <1>3. SubSeq(q, i + 1, Len(q)) \in Seq(S) /\ Len(SubSeq(q, i + 1, Len(q))) = Len(q) - i
    <2>1. \A j \in (i + 1)..Len(q) : q[j] \in S
      BY <1>1
    <2>2. i + 1 \in Int /\ Len(q) \in Int
      BY <1>1
    <2>3. /\ SubSeq(q, i + 1, Len(q)) \in Seq(S)
          /\ Len(SubSeq(q, i + 1, Len(q))) =
                IF i + 1 <= Len(q) THEN Len(q) - (i + 1) + 1 ELSE 0
      BY <2>1, <2>2, SubSeqProperties
    <2> QED BY <1>1, <2>3
  <1>4. /\ RemoveAt(q, i) \in Seq(S)
        /\ Len(RemoveAt(q, i)) = Len(SubSeq(q, 1, i - 1)) + Len(SubSeq(q, i + 1, Len(q)))
    BY <1>2, <1>3, ConcatProperties DEF RemoveAt
  <1>5. (i - 1) + (Len(q) - i) = Len(q) - 1
    BY <1>1
  <1> QED BY <1>2, <1>3, <1>4, <1>5
-------------------------------------------------------------------------------
(* What is in a list after an addition at its end or a removal.            *)

\* x is in the list q at most once.
Once(q, x) == \A i, j \in DOMAIN q : q[i] = x /\ q[j] = x => i = j

\* r is the list q without its element at position i.
Drops(q, r, i) ==
    /\ Len(r) = Len(q) - 1
    /\ \A j \in 1..Len(r) : r[j] = IF j < i THEN q[j] ELSE q[j + 1]

\* The positions of q that hold a member of M.
PositionsIn(q, M) == {i \in DOMAIN q : q[i] \in M}

\* An empty list holds nothing.
LEMMA EmptyList == ToSet(<<>>) = {} /\ \A x : Once(<<>>, x)
  BY DEF ToSet, Once

\* Tail takes the first element.
LEMMA TailDrops ==
    ASSUME NEW S, NEW q \in Seq(S), q # <<>>
    PROVE  /\ Tail(q) \in Seq(S) /\ Drops(q, Tail(q), 1)
           /\ 1 \in 1..Len(q) /\ q[1] = Head(q)
  <1>1. Len(q) \in Nat \ {0}
    BY EmptySeq
  <1>2. /\ Tail(q) \in Seq(S) /\ Len(Tail(q)) = Len(q) - 1
        /\ \A j \in 1..Len(Tail(q)) : Tail(q)[j] = q[j + 1]
    BY HeadTailProperties
  <1> QED BY <1>1, <1>2 DEF Drops

\* RemoveAt takes the element it is told.
LEMMA RemoveAtDrops ==
    ASSUME NEW S, NEW q \in Seq(S), NEW i \in 1..Len(q)
    PROVE  RemoveAt(q, i) \in Seq(S) /\ Drops(q, RemoveAt(q, i), i)
  <1>1. Len(q) \in Nat /\ \A j \in 1..Len(q) : q[j] \in S
    BY ElementOfSeq, LenProperties
  <1> DEFINE a == SubSeq(q, 1, i - 1)
             b == SubSeq(q, i + 1, Len(q))
  <1>2. /\ a \in Seq(S) /\ Len(a) = i - 1
        /\ \A j \in 1..(i - 1) : a[j] = q[j]
    <2>1. \A j \in 1..(i - 1) : q[j] \in S
      BY <1>1
    <2> QED BY <1>1, <2>1, SubSeqProperties
  <1>3. /\ b \in Seq(S) /\ Len(b) = Len(q) - i
        /\ \A j \in 1..(Len(q) - i) : b[j] = q[i + j]
    <2>1. \A j \in (i + 1)..Len(q) : q[j] \in S
      BY <1>1
    <2>2. i + 1 \in Int /\ Len(q) \in Int
      BY <1>1
    <2>3. /\ b \in Seq(S)
          /\ Len(b) = IF i + 1 <= Len(q) THEN Len(q) - (i + 1) + 1 ELSE 0
          /\ \A j \in 1..(Len(q) - (i + 1) + 1) : b[j] = q[(i + 1) + j - 1]
      BY <2>1, <2>2, SubSeqProperties
    <2> QED BY <1>1, <2>3
  <1>4. RemoveAt(q, i) = a \o b
    BY DEF RemoveAt
  <1>5. /\ a \o b \in Seq(S) /\ Len(a \o b) = Len(a) + Len(b)
        /\ \A j \in 1..(Len(a) + Len(b)) :
              (a \o b)[j] = IF j <= Len(a) THEN a[j] ELSE b[j - Len(a)]
    <2> HIDE DEF a, b
    <2> QED BY <1>2, <1>3, ConcatProperties
  <1> HIDE DEF a, b
  <1>6. Len(a \o b) = Len(q) - 1
    BY <1>1, <1>2, <1>3, <1>5
  <1>7. ASSUME NEW j \in 1..Len(a \o b) PROVE (a \o b)[j] = IF j < i THEN q[j] ELSE q[j + 1]
    <2>1. CASE j < i
      BY <1>1, <1>2, <1>3, <1>5, <1>6, <2>1
    <2>2. CASE ~(j < i)
      <3>1. j - (i - 1) \in 1..(Len(q) - i) /\ i + (j - (i - 1)) = j + 1
        BY <1>1, <1>6, <2>2
      <3>2. (a \o b)[j] = b[j - (i - 1)]
        BY <1>1, <1>2, <1>3, <1>5, <1>6, <2>2
      <3>3. b[j - (i - 1)] = q[i + (j - (i - 1))]
        BY <1>3, <3>1
      <3> QED BY <2>2, <3>1, <3>2, <3>3
    <2> QED BY <2>1, <2>2
  <1> QED BY <1>4, <1>5, <1>6, <1>7 DEF Drops

\* Append adds its element and nothing else.
LEMMA AppendSet ==
    ASSUME NEW S, NEW q \in Seq(S), NEW m \in S
    PROVE  /\ ToSet(Append(q, m)) = ToSet(q) \cup {m}
           /\ \A x : Once(q, x) /\ (x = m => m \notin ToSet(q)) => Once(Append(q, m), x)
  <1>1. /\ Len(q) \in Nat /\ DOMAIN q = 1..Len(q)
        /\ DOMAIN Append(q, m) = 1..(Len(q) + 1)
        /\ \A j \in 1..Len(q) : Append(q, m)[j] = q[j]
        /\ Append(q, m)[Len(q) + 1] = m
    BY LenProperties, AppendProperties
  <1> DEFINE r == Append(q, m)
  <1> HIDE DEF r
  <1>2. \A j \in 1..(Len(q) + 1) : j \in 1..Len(q) \/ j = Len(q) + 1
    BY <1>1
  <1>3. 1..Len(q) \subseteq 1..(Len(q) + 1) /\ Len(q) + 1 \in 1..(Len(q) + 1)
    BY <1>1
  <1>4. ToSet(r) = ToSet(q) \cup {m}
    BY <1>1, <1>2, <1>3, Zenon DEF ToSet, r
  <1>5. ASSUME NEW x, Once(q, x), x = m => m \notin ToSet(q) PROVE Once(r, x)
    BY <1>1, <1>2, <1>5 DEF Once, ToSet, r
  <1> QED BY <1>4, <1>5 DEF r

\* The first element of a list is in it.
LEMMA HeadIn ==
    ASSUME NEW S, NEW q \in Seq(S), q # <<>>
    PROVE  Head(q) \in ToSet(q)
  BY TailDrops, LenProperties DEF ToSet

\* A removal takes away one element, for good if it was there once.
LEMMA DropsSet ==
    ASSUME NEW S, NEW q \in Seq(S), NEW r \in Seq(S), NEW i \in 1..Len(q), Drops(q, r, i)
    PROVE  /\ ToSet(r) \subseteq ToSet(q)
           /\ \A x \in ToSet(q) : x # q[i] => x \in ToSet(r)
           /\ q[i] \in ToSet(q)
           /\ Once(q, q[i]) => ToSet(r) = ToSet(q) \ {q[i]}
           /\ \A x : Once(q, x) => Once(r, x)
  <1>1. /\ Len(q) \in Nat /\ DOMAIN q = 1..Len(q) /\ DOMAIN r = 1..(Len(q) - 1)
        /\ \A j \in 1..(Len(q) - 1) : r[j] = IF j < i THEN q[j] ELSE q[j + 1]
    BY LenProperties DEF Drops
  <1> DEFINE from(j) == IF j < i THEN j ELSE j + 1
  <1>2. \A j \in DOMAIN r : from(j) \in DOMAIN q /\ from(j) # i /\ r[j] = q[from(j)]
    BY <1>1
  <1>3. \A k \in DOMAIN q : k # i => \E j \in DOMAIN r : from(j) = k
    <2> SUFFICES ASSUME NEW k \in DOMAIN q, k # i PROVE \E j \in DOMAIN r : from(j) = k
      OBVIOUS
    <2>1. CASE k < i
      <3>1. k \in DOMAIN r /\ from(k) = k
        BY <1>1, <2>1
      <3> QED BY <3>1
    <2>2. CASE ~(k < i)
      <3>1. k - 1 \in DOMAIN r /\ from(k - 1) = k
        BY <1>1, <2>2
      <3> QED BY <3>1
    <2> QED BY <2>1, <2>2
  <1>4. \A j, k \in DOMAIN r : from(j) = from(k) => j = k
    BY <1>1
  <1>5. i \in DOMAIN q
    BY <1>1
  <1> HIDE DEF from
  <1>6. ToSet(r) \subseteq ToSet(q) /\ q[i] \in ToSet(q)
    BY <1>2, <1>5, Zenon DEF ToSet
  <1>7. \A x \in ToSet(q) : x # q[i] => x \in ToSet(r)
    <2> SUFFICES ASSUME NEW x \in ToSet(q), x # q[i] PROVE x \in ToSet(r)
      OBVIOUS
    <2>1. PICK k \in DOMAIN q : q[k] = x
      BY DEF ToSet
    <2>2. PICK j \in DOMAIN r : from(j) = k
      BY <1>3, <2>1
    <2>3. r[j] = x
      BY <1>2, <2>1, <2>2
    <2> QED BY <2>3 DEF ToSet
  <1>8. Once(q, q[i]) => q[i] \notin ToSet(r)
    BY <1>2, <1>5, Zenon DEF Once, ToSet
  <1>9. \A x : Once(q, x) => Once(r, x)
    BY <1>2, <1>4, Zenon DEF Once
  <1> QED BY <1>6, <1>7, <1>8, <1>9

\* How many members of M are in a list after an addition ...
LEMMA AppendCount ==
    ASSUME NEW S, NEW q \in Seq(S), NEW m \in S, NEW M
    PROVE  /\ Cardinality(PositionsIn(q, M)) \in Nat
           /\ Cardinality(PositionsIn(Append(q, m), M)) =
                 Cardinality(PositionsIn(q, M)) + (IF m \in M THEN 1 ELSE 0)
  <1>1. /\ Len(q) \in Nat /\ DOMAIN q = 1..Len(q)
        /\ DOMAIN Append(q, m) = 1..(Len(q) + 1)
        /\ \A j \in 1..Len(q) : Append(q, m)[j] = q[j]
        /\ Append(q, m)[Len(q) + 1] = m
    BY LenProperties, AppendProperties
  <1>2. IsFiniteSet(1..Len(q))
    BY <1>1, FS_Interval
  <1>3. IsFiniteSet(PositionsIn(q, M)) /\ Len(q) + 1 \notin PositionsIn(q, M)
    BY <1>1, <1>2, FS_Subset DEF PositionsIn
  <1>4. Cardinality(PositionsIn(q, M)) \in Nat
    BY <1>3, FS_CardinalityType
  <1>5. CASE m \in M
    <2>1. PositionsIn(Append(q, m), M) = PositionsIn(q, M) \cup {Len(q) + 1}
      BY <1>1, <1>5 DEF PositionsIn
    <2> QED BY <1>3, <1>4, <1>5, <2>1, FS_AddElement
  <1>6. CASE m \notin M
    <2>1. PositionsIn(Append(q, m), M) = PositionsIn(q, M)
      BY <1>1, <1>6 DEF PositionsIn
    <2> QED BY <1>4, <1>6, <2>1
  <1> QED BY <1>4, <1>5, <1>6

\* ... and after a removal.
LEMMA DropsCount ==
    ASSUME NEW S, NEW q \in Seq(S), NEW r \in Seq(S), NEW i \in 1..Len(q), Drops(q, r, i), NEW M
    PROVE  /\ Cardinality(PositionsIn(q, M)) \in Nat
           /\ Cardinality(PositionsIn(r, M)) =
                 Cardinality(PositionsIn(q, M)) - (IF q[i] \in M THEN 1 ELSE 0)
  <1>1. /\ Len(q) \in Nat /\ DOMAIN q = 1..Len(q) /\ DOMAIN r = 1..(Len(q) - 1)
        /\ \A j \in 1..(Len(q) - 1) : r[j] = IF j < i THEN q[j] ELSE q[j + 1]
    BY LenProperties DEF Drops
  <1> DEFINE A == PositionsIn(q, M)
             B == PositionsIn(r, M)
             f == [j \in B |-> IF j < i THEN j ELSE j + 1]
  <1>2. IsFiniteSet(1..Len(q)) /\ IsFiniteSet(1..(Len(q) - 1))
    BY <1>1, FS_Interval
  <1>3. IsFiniteSet(A) /\ IsFiniteSet(B)
    BY <1>1, <1>2, FS_Subset DEF PositionsIn
  <1>4. Cardinality(A) \in Nat
    BY <1>3, FS_CardinalityType
  <1>5. f \in [B -> A \ {i}]
    BY <1>1 DEF PositionsIn
  <1>6. \A j, k \in B : f[j] = f[k] => j = k
    BY <1>1 DEF PositionsIn
  <1>7. \A k \in A \ {i} : \E j \in B : f[j] = k
    <2> SUFFICES ASSUME NEW k \in A, k # i PROVE \E j \in B : f[j] = k
      OBVIOUS
    <2>1. CASE k < i
      <3>1. k \in B /\ f[k] = k
        BY <1>1, <2>1 DEF PositionsIn
      <3> QED BY <3>1
    <2>2. CASE ~(k < i)
      <3>1. k - 1 \in B /\ f[k - 1] = k
        BY <1>1, <2>2 DEF PositionsIn
      <3> QED BY <3>1
    <2> QED BY <2>1, <2>2
  <1> HIDE DEF f
  <1>8. f \in Bijection(B, A \ {i})
    BY <1>5, <1>6, <1>7 DEF Bijection, Injection, Surjection, IsInjective
  <1>9. ExistsBijection(B, A \ {i})
    BY <1>8 DEF ExistsBijection
  <1>10. Cardinality(B) = Cardinality(A \ {i})
    BY <1>3, <1>9, FS_Bijection
  <1>11. Cardinality(A \ {i}) = IF i \in A THEN Cardinality(A) - 1 ELSE Cardinality(A)
    BY <1>3, FS_RemoveElement
  <1>12. i \in A <=> q[i] \in M
    BY <1>1 DEF PositionsIn
  <1> QED BY <1>4, <1>10, <1>11, <1>12

\* A set without two different members.
LEMMA AtMostOne ==
    ASSUME NEW S, \A x, y \in S : x = y
    PROVE  Cardinality(S) = IF S = {} THEN 0 ELSE 1
  <1>1. CASE S = {}
    BY <1>1, FS_EmptySet
  <1>2. CASE S # {}
    <2>1. PICK x \in S : TRUE
      BY <1>2
    <2>2. S = {x}
      BY <2>1
    <2> QED BY <1>2, <2>2, FS_Singleton
  <1> QED BY <1>1, <1>2

\* What a removal leaves was there before, in another place for another element.
LEMMA DropsFrom ==
    ASSUME NEW S, NEW q \in Seq(S), NEW r \in Seq(S), NEW i \in 1..Len(q), Drops(q, r, i)
    PROVE  /\ \A j \in DOMAIN r : \E k \in DOMAIN q : k # i /\ r[j] = q[k]
           /\ \A j, l \in DOMAIN r : j # l =>
                 \E k, n \in DOMAIN q : k # n /\ k # i /\ n # i /\ r[j] = q[k] /\ r[l] = q[n]
  <1>1. /\ Len(q) \in Nat /\ DOMAIN q = 1..Len(q) /\ DOMAIN r = 1..(Len(q) - 1)
        /\ \A j \in 1..(Len(q) - 1) : r[j] = IF j < i THEN q[j] ELSE q[j + 1]
    BY LenProperties DEF Drops
  <1> DEFINE from(j) == IF j < i THEN j ELSE j + 1
  <1>2. \A j \in DOMAIN r : from(j) \in DOMAIN q /\ from(j) # i /\ r[j] = q[from(j)]
    BY <1>1
  <1>3. \A j, k \in DOMAIN r : from(j) = from(k) => j = k
    BY <1>1
  <1> HIDE DEF from
  <1> QED BY <1>2, <1>3

\* An element put in front of a list.
LEMMA PrependList ==
    ASSUME NEW S, NEW q \in Seq(S), NEW m \in S
    PROVE  /\ <<m>> \o q \in Seq(S)
           /\ DOMAIN (<<m>> \o q) = 1..(Len(q) + 1)
           /\ (<<m>> \o q)[1] = m
           /\ \A j \in 1..(Len(q) + 1) : j # 1 => j - 1 \in DOMAIN q /\ (<<m>> \o q)[j] = q[j - 1]
           /\ \A j \in DOMAIN q : j + 1 \in 1..(Len(q) + 1) /\ (<<m>> \o q)[j + 1] = q[j]
  <1>1. <<m>> \in Seq(S) /\ Len(<<m>>) = 1 /\ <<m>>[1] = m
    OBVIOUS
  <1>2. Len(q) \in Nat /\ DOMAIN q = 1..Len(q)
    BY LenProperties
  <1>3. /\ <<m>> \o q \in Seq(S) /\ Len(<<m>> \o q) = 1 + Len(q)
        /\ \A j \in 1..(1 + Len(q)) : (<<m>> \o q)[j] = IF j <= 1 THEN <<m>>[j] ELSE q[j - 1]
    BY <1>1, ConcatProperties
  <1>4. DOMAIN (<<m>> \o q) = 1..(1 + Len(q))
    BY <1>3, LenProperties
  <1> QED BY <1>1, <1>2, <1>3, <1>4

\* It is in the list then, with all the others.
LEMMA PrependSet ==
    ASSUME NEW S, NEW q \in Seq(S), NEW m \in S
    PROVE  /\ ToSet(<<m>> \o q) = ToSet(q) \cup {m}
           /\ \A x : Once(q, x) /\ (x = m => m \notin ToSet(q)) => Once(<<m>> \o q, x)
  <1> DEFINE r == <<m>> \o q
             prev(j) == j - 1
             succ(j) == j + 1
  <1>1. /\ 1 \in DOMAIN r /\ r[1] = m
        /\ \A j \in DOMAIN r : j # 1 => prev(j) \in DOMAIN q /\ r[j] = q[prev(j)]
        /\ \A j \in DOMAIN q : succ(j) \in DOMAIN r /\ r[succ(j)] = q[j]
        /\ \A j, k \in DOMAIN r : prev(j) = prev(k) => j = k
    <2>1. Len(q) \in Nat
      BY LenProperties
    <2>2. 1 \in 1..(Len(q) + 1) /\ \A j, k \in 1..(Len(q) + 1) : j - 1 = k - 1 => j = k
      BY <2>1
    <2> QED BY <2>1, <2>2, PrependList
  <1> HIDE DEF r, prev, succ
  <1>2. ToSet(r) = ToSet(q) \cup {m}
    <2>1. \A x \in ToSet(r) : x \in ToSet(q) \cup {m}
      BY <1>1 DEF ToSet
    <2>2. \A x \in ToSet(q) \cup {m} : x \in ToSet(r)
      BY <1>1 DEF ToSet
    <2> QED BY <2>1, <2>2
  <1>3. ASSUME NEW x, Once(q, x), x = m => m \notin ToSet(q) PROVE Once(r, x)
    BY <1>1, <1>3 DEF Once, ToSet
  <1> QED BY <1>2, <1>3 DEF r
===============================================================================
