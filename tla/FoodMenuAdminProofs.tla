------------------------- MODULE FoodMenuAdminProofs -------------------------
(***************************************************************************)
(* Types of FoodMenuAdmin; the table shows the menu; the paths of deleted  *)
(* rows name their rows until the last is removed; and a confirmed swipe   *)
(* deletes the item that is shown: for any items, sections and acts.       *)
(***************************************************************************)
EXTENDS FoodMenuAdmin, FiniteSetTheorems, SequenceTheorems, TLAPS

-----------------------------------------------------------------------------
(* Finite sets in order                                                     *)

\* R, a set of pairs, orders S strictly and totally.
Orders(R, S) ==
    /\ \A x \in S : <<x, x>> \notin R
    /\ \A x, y \in S : x # y => <<x, y>> \in R \/ <<y, x>> \in R
    /\ \A x, y, z \in S : <<x, y>> \in R /\ <<y, z>> \in R => <<x, z>> \in R

Below(x, R, S) == {y \in S : <<y, x>> \in R}

LEMMA BelowGrows ==
    ASSUME NEW S, IsFiniteSet(S), NEW R, Orders(R, S),
           NEW x \in S, NEW y \in S, <<x, y>> \in R
    PROVE  /\ Cardinality(Below(x, R, S)) \in Nat
           /\ Cardinality(Below(y, R, S)) \in Nat
           /\ Cardinality(Below(x, R, S)) < Cardinality(Below(y, R, S))
  <1>1. IsFiniteSet(Below(y, R, S))
    BY FS_Subset DEF Below
  <1>2. Below(x, R, S) \subseteq Below(y, R, S)
    BY DEF Below, Orders
  <1>3. x \in Below(y, R, S) /\ x \notin Below(x, R, S)
    BY DEF Below, Orders
  <1>4. /\ IsFiniteSet(Below(x, R, S))
        /\ Cardinality(Below(x, R, S)) <= Cardinality(Below(y, R, S))
        /\ Cardinality(Below(x, R, S)) # Cardinality(Below(y, R, S))
    BY <1>1, <1>2, <1>3, FS_Subset
  <1>5. /\ Cardinality(Below(x, R, S)) \in Nat
        /\ Cardinality(Below(y, R, S)) \in Nat
    BY <1>1, <1>4, FS_CardinalityType
  <1> QED BY <1>4, <1>5

\* The numbers of elements below are those from 0 up, each taken once.
LEMMA Ranks ==
    ASSUME NEW S, IsFiniteSet(S), NEW R, Orders(R, S)
    PROVE  /\ Cardinality(S) \in Nat
           /\ \A n \in 1 .. Cardinality(S) :
                 \E x \in S : Cardinality(Below(x, R, S)) = n - 1
           /\ \A x \in S : Cardinality(Below(x, R, S)) + 1 \in 1 .. Cardinality(S)
  <1> DEFINE N == Cardinality(S)
             rank == [x \in S |-> Cardinality(Below(x, R, S)) + 1]
  <1>1. N \in Nat
    BY FS_CardinalityType
  <1>2. \A x \in S : Cardinality(Below(x, R, S)) + 1 \in 1 .. N
    <2> SUFFICES ASSUME NEW x \in S
                 PROVE  Cardinality(Below(x, R, S)) + 1 \in 1 .. N
      OBVIOUS
    <2>1. Below(x, R, S) \in SUBSET S /\ Below(x, R, S) # S
      BY DEF Below, Orders
    <2>2. /\ IsFiniteSet(Below(x, R, S))
          /\ Cardinality(Below(x, R, S)) <= N /\ Cardinality(Below(x, R, S)) # N
      BY <2>1, FS_Subset
    <2>3. Cardinality(Below(x, R, S)) \in Nat
      BY <2>2, FS_CardinalityType
    <2> QED BY <1>1, <2>2, <2>3
  <1>3. rank \in Injection(S, 1 .. N)
    <2>1. rank \in [S -> 1 .. N]
      BY <1>2
    <2>2. \A x, y \in S : rank[x] = rank[y] => x = y
      <3> SUFFICES ASSUME NEW x \in S, NEW y \in S, rank[x] = rank[y], x # y
                   PROVE  FALSE
        OBVIOUS
      <3>1. <<x, y>> \in R \/ <<y, x>> \in R
        BY DEF Orders
      <3>2. CASE <<x, y>> \in R
        BY <3>2, BelowGrows
      <3>3. CASE <<y, x>> \in R
        BY <3>3, BelowGrows
      <3> QED BY <3>1, <3>2, <3>3
    <2> QED BY <2>1, <2>2 DEF Injection, IsInjective
  <1>4. IsFiniteSet(1 .. N) /\ Cardinality(1 .. N) = N
    <2>1. /\ IsFiniteSet(1 .. N)
          /\ Cardinality(1 .. N) = IF 1 > N THEN 0 ELSE N - 1 + 1
      BY <1>1, FS_Interval
    <2> QED BY <1>1, <2>1
  <1>5. rank \in Surjection(S, 1 .. N)
    BY <1>3, <1>4, FS_Injection
  <1>6. \A n \in 1 .. N : \E x \in S : rank[x] = n
    BY <1>5 DEF Surjection
  <1>7. \A n \in 1 .. N : \E x \in S : Cardinality(Below(x, R, S)) = n - 1
    <2> SUFFICES ASSUME NEW n \in 1 .. N
                 PROVE  \E x \in S : Cardinality(Below(x, R, S)) = n - 1
      OBVIOUS
    <2>1. PICK x \in S : Cardinality(Below(x, R, S)) + 1 = n
      BY <1>6
    <2>2. Cardinality(Below(x, R, S)) \in Nat
      <3>1. IsFiniteSet(Below(x, R, S))
        BY FS_Subset DEF Below
      <3> QED BY <3>1, FS_CardinalityType
    <2> QED BY <2>1, <2>2
  <1> QED BY <1>1, <1>2, <1>7

\* Listing the elements by the number of those below lists each once, in order.
LEMMA Ordered ==
    ASSUME NEW S, IsFiniteSet(S), NEW R, Orders(R, S),
           NEW f \in [1 .. Cardinality(S) -> S],
           \A n \in 1 .. Cardinality(S) : Cardinality(Below(f[n], R, S)) = n - 1
    PROVE  /\ \A i, j \in 1 .. Cardinality(S) : i < j => <<f[i], f[j]>> \in R
           /\ f \in Surjection(1 .. Cardinality(S), S)
  <1> DEFINE N == Cardinality(S)
  <1>1. N \in Nat
    BY Ranks
  <1>2. \A n \in 1 .. N : f[n] \in S /\ Cardinality(Below(f[n], R, S)) = n - 1
    OBVIOUS
  <1>3. \A i, j \in 1 .. N : i < j => <<f[i], f[j]>> \in R
    <2> SUFFICES ASSUME NEW i \in 1 .. N, NEW j \in 1 .. N, i < j
                 PROVE  <<f[i], f[j]>> \in R
      OBVIOUS
    <2>1. f[i] # f[j]
      BY <1>1, <1>2
    <2>2. CASE <<f[j], f[i]>> \in R
      <3>1. Cardinality(Below(f[j], R, S)) < Cardinality(Below(f[i], R, S))
        BY <1>2, <2>2, BelowGrows
      <3> QED BY <1>1, <1>2, <3>1
    <2> QED BY <1>2, <2>1, <2>2 DEF Orders
  <1>4. \A x \in S : \E i \in 1 .. N : f[i] = x
    <2> SUFFICES ASSUME NEW x \in S
                 PROVE  \E i \in 1 .. N : f[i] = x
      OBVIOUS
    <2>1. PICK i \in 1 .. N : Cardinality(Below(x, R, S)) + 1 = i
      BY Ranks
    <2>2. f[i] \in S /\ Cardinality(Below(f[i], R, S)) + 1 = i
      BY <1>1, <1>2
    <2>3. CASE x # f[i]
      <3>1. <<x, f[i]>> \in R \/ <<f[i], x>> \in R
        BY <2>2, <2>3 DEF Orders
      <3>2. CASE <<x, f[i]>> \in R
        BY <2>1, <2>2, <3>2, BelowGrows
      <3>3. CASE <<f[i], x>> \in R
        BY <2>1, <2>2, <3>3, BelowGrows
      <3> QED BY <3>1, <3>2, <3>3
    <2> QED BY <2>1, <2>3
  <1>5. f \in Surjection(1 .. N, S)
    BY <1>4 DEF Surjection
  <1> QED BY <1>3, <1>5

\* The greatest of some indices.
LEMMA MaxIsIn ==
    ASSUME NEW n \in Nat, NEW S \in SUBSET (1 .. n), S # {}
    PROVE  Max(S) \in S /\ \A i \in S : i <= Max(S)
  <1> DEFINE R == {p \in S \X S : p[1] > p[2]}
  <1>1. IsFiniteSet(S)
    <2>1. IsFiniteSet(1 .. n)
      BY FS_Interval
    <2> QED BY <2>1, FS_Subset
  <1>2. Orders(R, S)
    BY DEF Orders
  <1>3. PICK m \in S : Cardinality(Below(m, R, S)) = 0
    <2>1. Cardinality(S) \in Nat /\ Cardinality(S) # 0
      BY <1>1, FS_CardinalityType, FS_EmptySet
    <2>2. 1 \in 1 .. Cardinality(S) /\ 1 - 1 = 0
      BY <2>1
    <2> HIDE DEF R
    <2> QED BY <1>1, <1>2, <2>2, Ranks
  <1>4. Below(m, R, S) = {}
    <2>1. IsFiniteSet(Below(m, R, S))
      BY <1>1, FS_Subset DEF Below
    <2> QED BY <1>3, <2>1, FS_EmptySet
  <1>5. \A y \in S : m >= y
    <2> SUFFICES ASSUME NEW y \in S, ~(m >= y) PROVE FALSE
      OBVIOUS
    <2>1. <<y, m>> \in R
      OBVIOUS
    <2> QED BY <1>4, <2>1 DEF Below
  <1> QED BY <1>5 DEF Max

\* A set of indices listed upwards.
LEMMA AscendingLists ==
    ASSUME NEW n \in Nat, NEW S \in SUBSET (1 .. n)
    PROVE  /\ Ascending(S) \in Seq(S)
           /\ \A i, j \in 1 .. Len(Ascending(S)) :
                 i < j => Ascending(S)[i] < Ascending(S)[j]
           /\ \A x \in S : \E i \in 1 .. Len(Ascending(S)) : Ascending(S)[i] = x
  <1> DEFINE R == {p \in S \X S : p[1] < p[2]}
             N == Cardinality(S)
  <1>1. IsFiniteSet(S)
    <2>1. IsFiniteSet(1 .. n)
      BY FS_Interval
    <2> QED BY <2>1, FS_Subset
  <1>2. Orders(R, S)
    BY DEF Orders
  <1>3. \A x \in S : {y \in S : y < x} = Below(x, R, S)
    BY DEF Below
  <1>4. /\ N \in Nat
        /\ \A k \in 1 .. N : \E x \in S : Cardinality(Below(x, R, S)) = k - 1
    <2> HIDE DEF R
    <2> QED BY <1>1, <1>2, Ranks
  <1>5. \A k \in 1 .. N : \E x \in S : Cardinality({y \in S : y < x}) = k - 1
    BY <1>3, <1>4
  <1>6. Ascending(S) = [k \in 1 .. N |->
                CHOOSE x \in S : Cardinality({y \in S : y < x}) = k - 1]
    BY DEF Ascending, InOrder
  <1>7. \A k \in 1 .. N : /\ Ascending(S)[k] \in S
                          /\ Cardinality({y \in S : y < Ascending(S)[k]}) = k - 1
    BY <1>5, <1>6
  <1>8. \A k \in 1 .. N : Cardinality(Below(Ascending(S)[k], R, S)) = k - 1
    BY <1>3, <1>7
  <1>9. Ascending(S) \in [1 .. N -> S]
    BY <1>6, <1>7
  <1>10. /\ \A i, j \in 1 .. N : i < j => <<Ascending(S)[i], Ascending(S)[j]>> \in R
         /\ \A x \in S : \E i \in 1 .. N : Ascending(S)[i] = x
    <2> DEFINE f == Ascending(S)
    <2>1. /\ f \in [1 .. Cardinality(S) -> S]
          /\ \A k \in 1 .. Cardinality(S) : Cardinality(Below(f[k], R, S)) = k - 1
      BY <1>8, <1>9
    <2> HIDE DEF f, R
    <2>2. \A i, j \in 1 .. Cardinality(S) : i < j => <<f[i], f[j]>> \in R
      BY <1>1, <1>2, <2>1, Ordered
    <2>3. f \in Surjection(1 .. Cardinality(S), S)
      BY <1>1, <1>2, <2>1, Ordered
    <2>4. \A x \in S : \E i \in 1 .. Cardinality(S) : f[i] = x
      BY <2>3 DEF Surjection
    <2> QED BY <2>2, <2>4 DEF f
  <1>11. Ascending(S) \in Seq(S) /\ Len(Ascending(S)) = N
    BY <1>4, <1>9
  <1>12. \A i, j \in 1 .. N : i < j => Ascending(S)[i] < Ascending(S)[j]
    BY <1>10
  <1> QED BY <1>10, <1>11, <1>12

\* The sequence t has elements of s, in the order they have there.
IsPart(t, s) ==
    \E at \in [1 .. Len(t) -> 1 .. Len(s)] :
        /\ \A i, j \in 1 .. Len(t) : i < j => at[i] < at[j]
        /\ \A i \in 1 .. Len(t) : t[i] = s[at[i]]

\* Filtering keeps the order and leaves what is in the set, and only that.
LEMMA AmongIsPart ==
    ASSUME NEW T, NEW s \in Seq(T), NEW S
    PROVE  /\ Among(s, S) \in Seq(T)
           /\ IsPart(Among(s, S), s)
           /\ \A i \in 1 .. Len(Among(s, S)) :
                 Among(s, S)[i] \in S /\ \E n \in 1 .. Len(s) : s[n] = Among(s, S)[i]
  <1> DEFINE at == {n \in DOMAIN s : s[n] \in S}
             kept == Ascending(at)
  <1>1. Len(s) \in Nat /\ DOMAIN s = 1 .. Len(s) /\ at \in SUBSET (1 .. Len(s))
    OBVIOUS
  <1>2. /\ kept \in Seq(at)
        /\ \A i, j \in 1 .. Len(kept) : i < j => kept[i] < kept[j]
    <2> HIDE DEF at
    <2> QED BY <1>1, AscendingLists
  <1>3. /\ Len(kept) \in Nat
        /\ \A i \in 1 .. Len(kept) : kept[i] \in 1 .. Len(s) /\ s[kept[i]] \in S
    <2>1. \A i \in 1 .. Len(kept) : kept[i] \in at
      BY <1>2
    <2> QED BY <1>2, <2>1
  <1>4. Among(s, S) = [n \in 1 .. Len(kept) |-> s[kept[n]]]
    <2>1. DOMAIN kept = 1 .. Len(kept)
      BY <1>2
    <2> QED BY <2>1 DEF Among, RowsAt
  <1> HIDE DEF kept
  <1>5. Among(s, S) \in [1 .. Len(kept) -> T]
    BY <1>3, <1>4
  <1>6. Among(s, S) \in Seq(T) /\ Len(Among(s, S)) = Len(kept)
    BY <1>3, <1>5
  <1>7. IsPart(Among(s, S), s)
    <2>1. /\ kept \in [1 .. Len(kept) -> 1 .. Len(s)]
          /\ \A i \in 1 .. Len(kept) : Among(s, S)[i] = s[kept[i]]
      <3>1. kept = [i \in 1 .. Len(kept) |-> kept[i]]
        BY <1>2
      <3> QED BY <1>3, <1>4, <3>1
    <2> QED BY <1>2, <1>6, <2>1 DEF IsPart
  <1> QED BY <1>3, <1>4, <1>6, <1>7

\* A sequence without its element i.
LEMMA RemoveAtIsPart ==
    ASSUME NEW T, NEW s \in Seq(T), NEW i \in 1 .. Len(s)
    PROVE  /\ RemoveAt(s, i) \in Seq(T)
           /\ Len(RemoveAt(s, i)) = Len(s) - 1
           /\ \A j \in 1 .. Len(s) - 1 :
                 RemoveAt(s, i)[j] = IF j < i THEN s[j] ELSE s[j + 1]
           /\ IsPart(RemoveAt(s, i), s)
  <1>1. RemoveAt(s, i) = SubSeq(s, 1, i - 1) \o SubSeq(s, i + 1, Len(s))
    BY DEF RemoveAt
  <1>2. /\ SubSeq(s, 1, i - 1) \in Seq(T) /\ Len(SubSeq(s, 1, i - 1)) = i - 1
        /\ \A j \in 1 .. i - 1 : SubSeq(s, 1, i - 1)[j] = s[j]
    OBVIOUS
  <1>3. /\ SubSeq(s, i + 1, Len(s)) \in Seq(T)
        /\ Len(SubSeq(s, i + 1, Len(s))) = Len(s) - i
        /\ \A j \in 1 .. Len(s) - i : SubSeq(s, i + 1, Len(s))[j] = s[j + i]
    OBVIOUS
  <1> DEFINE a == SubSeq(s, 1, i - 1)
             b == SubSeq(s, i + 1, Len(s))
  <1>4. /\ a \o b \in Seq(T) /\ Len(a \o b) = Len(s) - 1
        /\ \A j \in 1 .. Len(s) - 1 : (a \o b)[j] = IF j < i THEN s[j] ELSE s[j + 1]
    <2> HIDE DEF a, b
    <2>1. /\ a \o b \in Seq(T) /\ Len(a \o b) = Len(a) + Len(b)
          /\ \A j \in 1 .. Len(a) + Len(b) :
                (a \o b)[j] = IF j <= Len(a) THEN a[j] ELSE b[j - Len(a)]
      BY <1>2, <1>3, ConcatProperties DEF a, b
    <2>2. Len(a) = i - 1 /\ Len(b) = Len(s) - i /\ Len(s) \in Nat
      BY <1>2, <1>3 DEF a, b
    <2>3. \A j \in 1 .. i - 1 : (a \o b)[j] = s[j]
      BY <1>2, <2>1, <2>2 DEF a
    <2>4. ASSUME NEW j \in i .. Len(s) - 1 PROVE (a \o b)[j] = s[j + 1]
      <3>1. (a \o b)[j] = b[j - (i - 1)]
        BY <2>1, <2>2
      <3>2. j - (i - 1) \in 1 .. Len(s) - i /\ j - (i - 1) + i = j + 1
        BY <2>2
      <3>3. b[j - (i - 1)] = s[j - (i - 1) + i]
        BY <1>3, <3>2 DEF b
      <3> QED BY <3>1, <3>2, <3>3
    <2> QED BY <2>1, <2>2, <2>3, <2>4
  <1>5. /\ RemoveAt(s, i) \in Seq(T) /\ Len(RemoveAt(s, i)) = Len(s) - 1
        /\ \A j \in 1 .. Len(s) - 1 :
                 RemoveAt(s, i)[j] = IF j < i THEN s[j] ELSE s[j + 1]
    BY <1>1, <1>4
  <1> HIDE DEF a, b
  <1>6. IsPart(RemoveAt(s, i), s)
    <2> DEFINE t == RemoveAt(s, i)
               at == [j \in 1 .. Len(t) |-> IF j < i THEN j ELSE j + 1]
    <2>1. Len(s) \in Nat /\ Len(t) = Len(s) - 1
      BY <1>5
    <2>2. at \in [1 .. Len(t) -> 1 .. Len(s)]
      BY <2>1
    <2>3. \A j, k \in 1 .. Len(t) : j < k => at[j] < at[k]
      BY <2>1
    <2>4. \A j \in 1 .. Len(t) : t[j] = s[at[j]]
      BY <1>5
    <2> HIDE DEF t, at
    <2> QED BY <2>2, <2>3, <2>4 DEF IsPart, t
  <1> QED BY <1>5, <1>6

-----------------------------------------------------------------------------
(* The order of the documents, and the order of the deletion                *)

\* A sequence of items is in the order of the documents, each at most once.
InDocOrder(s) ==
    \A i, j \in 1 .. Len(s) : i < j =>
        \E m, n \in 1 .. Len(DocOrder) :
            m < n /\ DocOrder[m] = s[i] /\ DocOrder[n] = s[j]

LEMMA PartInOrder ==
    ASSUME NEW s, NEW t, Len(t) \in Nat, Len(s) \in Nat, IsPart(t, s), InDocOrder(s)
    PROVE  InDocOrder(t)
  <1>1. PICK at \in [1 .. Len(t) -> 1 .. Len(s)] :
            /\ \A i, j \in 1 .. Len(t) : i < j => at[i] < at[j]
            /\ \A i \in 1 .. Len(t) : t[i] = s[at[i]]
    BY DEF IsPart
  <1> SUFFICES ASSUME NEW i \in 1 .. Len(t), NEW j \in 1 .. Len(t), i < j
               PROVE  \E m, n \in 1 .. Len(DocOrder) :
                         m < n /\ DocOrder[m] = t[i] /\ DocOrder[n] = t[j]
    BY DEF InDocOrder
  <1>2. /\ at[i] \in 1 .. Len(s) /\ at[j] \in 1 .. Len(s) /\ at[i] < at[j]
        /\ t[i] = s[at[i]] /\ t[j] = s[at[j]]
    BY <1>1
  <1>3. PICK k \in 1 .. Len(s), l \in 1 .. Len(s) : k < l /\ t[i] = s[k] /\ t[j] = s[l]
    BY <1>2
  <1>4. \E m, n \in 1 .. Len(DocOrder) : m < n /\ DocOrder[m] = s[k] /\ DocOrder[n] = s[l]
    BY <1>3 DEF InDocOrder
  <1> QED BY <1>3, <1>4

LEMMA DocOrderInOrder == InDocOrder(DocOrder) /\ InDocOrder(<<>>)
  BY DEF InDocOrder

LEMMA NoneTwice ==
    ASSUME NEW s, InDocOrder(s), NEW i \in 1 .. Len(s), NEW j \in 1 .. Len(s),
           Len(s) \in Nat, s[i] = s[j]
    PROVE  i = j
  <1>1. \A m, n \in 1 .. Len(DocOrder) : DocOrder[m] = DocOrder[n] => m = n
    BY MenuAssumption DEF IsInjective
  <1>2. ASSUME NEW k \in 1 .. Len(s), NEW l \in 1 .. Len(s), k < l, s[k] = s[l]
        PROVE  FALSE
    <2>1. PICK m, n \in 1 .. Len(DocOrder) :
                m < n /\ DocOrder[m] = s[k] /\ DocOrder[n] = s[l]
      BY <1>2 DEF InDocOrder
    <2>2. m = n
      BY <1>1, <1>2, <2>1
    <2> QED BY <2>1, <2>2, MenuAssumption
  <1> QED BY <1>2

\* One path's row is removed before another's.
Before(p, q) == p[2] > q[2] \/ (p[2] = q[2] /\ p[1] < q[1])

LEMMA DeletionOrdered ==
    ASSUME NEW S \in SUBSET (Sections \X Nat), IsFiniteSet(S)
    PROVE  /\ DeletionOrder(S) \in Seq(S)
           /\ \A i, j \in 1 .. Len(DeletionOrder(S)) :
                 i < j => Before(DeletionOrder(S)[i], DeletionOrder(S)[j])
           /\ Len(DeletionOrder(S)) = Cardinality(S)
  <1> DEFINE R == {r \in S \X S : r[1][2] > r[2][2]
                                  \/ (r[1][2] = r[2][2] /\ r[1][1] < r[2][1])}
             N == Cardinality(S)
             d == DeletionOrder(S)
  <1>0. \A p \in S : p[1] \in Sections /\ p[2] \in Nat /\ p = <<p[1], p[2]>>
    OBVIOUS
  <1>1. \A p \in S : p[1] \in Nat /\ p[2] \in Nat /\ p = <<p[1], p[2]>>
    <2>1. \A s \in Sections : s \in Nat
      BY MenuAssumption
    <2> QED BY <1>0, <2>1
  <1>2. Orders(R, S)
    <2>1. \A x, y \in S : <<x, y>> \in R <=> (x[2] > y[2] \/ (x[2] = y[2] /\ x[1] < y[1]))
      OBVIOUS
    <2> HIDE DEF R
    <2>2. \A x \in S : <<x, x>> \notin R
      BY <1>1, <2>1
    <2>3. \A x, y \in S : x # y => <<x, y>> \in R \/ <<y, x>> \in R
      <3> SUFFICES ASSUME NEW x \in S, NEW y \in S, <<x, y>> \notin R, <<y, x>> \notin R
                   PROVE  x = y
        OBVIOUS
      <3>1. x[1] = y[1] /\ x[2] = y[2]
        BY <1>1, <2>1
      <3> QED BY <1>1, <3>1
    <2>4. \A x, y, z \in S : <<x, y>> \in R /\ <<y, z>> \in R => <<x, z>> \in R
      BY <1>1, <2>1
    <2> QED BY <2>2, <2>3, <2>4 DEF Orders
  <1>3. \A x \in S : {y \in S : y[2] > x[2] \/ (y[2] = x[2] /\ y[1] < x[1])} = Below(x, R, S)
    BY DEF Below
  <1>4. /\ N \in Nat
        /\ \A k \in 1 .. N : \E x \in S : Cardinality(Below(x, R, S)) = k - 1
    <2> HIDE DEF R
    <2> QED BY <1>2, Ranks
  <1>5. \A k \in 1 .. N : \E x \in S :
            Cardinality({y \in S : y[2] > x[2] \/ (y[2] = x[2] /\ y[1] < x[1])}) = k - 1
    BY <1>3, <1>4
  <1>6. d = [k \in 1 .. N |-> CHOOSE x \in S :
            Cardinality({y \in S : y[2] > x[2] \/ (y[2] = x[2] /\ y[1] < x[1])}) = k - 1]
    BY DEF DeletionOrder, InOrder
  <1> HIDE DEF d
  <1>7. \A k \in 1 .. N :
            /\ d[k] \in S
            /\ Cardinality({y \in S : y[2] > d[k][2]
                                      \/ (y[2] = d[k][2] /\ y[1] < d[k][1])}) = k - 1
    BY <1>5, <1>6
  <1>8. \A k \in 1 .. N : Cardinality(Below(d[k], R, S)) = k - 1
    BY <1>3, <1>7
  <1>9. d \in [1 .. N -> S]
    BY <1>6, <1>7
  <1>10. \A i, j \in 1 .. N : i < j => <<d[i], d[j]>> \in R
    <2> HIDE DEF R
    <2> QED BY <1>2, <1>8, <1>9, Ordered
  <1>11. d \in Seq(S) /\ Len(d) = N
    BY <1>4, <1>9
  <1>12. \A i, j \in 1 .. N : i < j => Before(d[i], d[j])
    BY <1>10 DEF Before
  <1> QED BY <1>11, <1>12 DEF d

-----------------------------------------------------------------------------
(* The invariant                                                            *)

Rows == [Sections -> Seq(Items)]
RowNumbers == Sections \X (Nat \ {0})

Removings == [kind : {"remove"}, path : RowNumbers, item : Items]
Answers == [kind : {"results"}, docs : Seq(Items)]
Tasks == {Query, Filter, Reload} \cup Answers \cup Removings
Dones == {Reload, Nothing} \cup Removings
Writes == [op : {"add", "delete"}, item : Items, done : Dones]
Questions == {NoAlert, [kind |-> "rows"]} \cup [kind : {"row"}, path : RowNumbers]

Typed ==
    /\ server \subseteq used /\ used \subseteq Items /\ Stored \subseteq used
    /\ queue \in Seq(Writes) /\ menu \in Seq(Items)
    /\ filtered \in Rows /\ shown \in Rows /\ selected \subseteq RowPaths
    /\ ui \in [form : BOOLEAN, editing : BOOLEAN, buttons : BOOLEAN]
    /\ alert \in Questions
    /\ main \in Seq(Tasks) /\ queries \in Nat /\ acts \in 0 .. MaxActs
    /\ crashed \in BOOLEAN /\ overlap \in BOOLEAN /\ tangled \in BOOLEAN

\* The table is as the data, or a load has emptied the data.
Backed == shown = filtered \/ (filtered = Empty /\ Loading)

IsStage(t) == t.kind \in {"query", "results", "filter"}
NoStage(m) == \A i \in 1 .. Len(m) : ~IsStage(m[i])

\* A load is at one place at most; until its end nothing is in the sections,
\* and until its answer nothing in the menu.
OneLoad(m, n, rows, items) ==
    /\ \A i, j \in 1 .. Len(m) : IsStage(m[i]) /\ IsStage(m[j]) => i = j
    /\ n \in {0, 1}
    /\ n = 1 => NoStage(m) /\ items = <<>>
    /\ n = 1 \/ ~NoStage(m) => rows = Empty
    /\ \A i \in 1 .. Len(m) : m[i].kind \in {"query", "results"} => items = <<>>

\* What is loaded is in the order of the documents, what is in a section is
\* of its category too.
InPlace(m, rows, items) ==
    /\ \A i \in 1 .. Len(m) :
          /\ m[i].kind = "results" => InDocOrder(m[i].docs)
          /\ m[i].kind = "filter" => InDocOrder(items)
    /\ \A s \in Sections :
          /\ InDocOrder(rows[s])
          /\ \A i \in 1 .. Len(rows[s]) : Category[rows[s][i]] = s

Loads ==
    ~overlap => OneLoad(main, queries, filtered, menu) /\ InPlace(main, filtered, menu)

IsRemoval(t) == t.kind = "remove"

\* The removals outstanding are in the order of the deletion.
InTurn(m, q) ==
    /\ \A i, j \in 1 .. Len(m) :
          i < j /\ IsRemoval(m[i]) /\ IsRemoval(m[j]) => Before(m[i].path, m[j].path)
    /\ \A i \in 1 .. Len(m), j \in 1 .. Len(q) :
          IsRemoval(m[i]) /\ IsRemoval(q[j].done) => Before(m[i].path, q[j].done.path)
    /\ \A i, j \in 1 .. Len(q) :
          i < j /\ IsRemoval(q[i].done) /\ IsRemoval(q[j].done)
              => Before(q[i].done.path, q[j].done.path)

Names(t, rows) ==
    /\ t.path[2] \in 1 .. Len(rows[t.path[1]])
    /\ rows[t.path[1]][t.path[2]] = t.item

\* Each names the row of its item.
AllName(m, q, rows) ==
    /\ \A i \in 1 .. Len(m) : IsRemoval(m[i]) => Names(m[i], rows)
    /\ \A j \in 1 .. Len(q) : IsRemoval(q[j].done) => Names(q[j].done, rows)

Outstanding ==
    ~tangled /\ ~crashed => InTurn(main, queue) /\ AllName(main, queue, filtered)

\* An item is in the collection, and nobody deletes it.
Stays(i, there, q) == i \in there /\ \A n \in 1 .. Len(q) : q[n].item # i

\* What was stored at the start and is on its way to the sections stays.
Arriving(m, items, there, q) ==
    \A n \in 1 .. Len(m) :
        /\ m[n].kind = "results" =>
              \A k \in 1 .. Len(m[n].docs) :
                  m[n].docs[k] \in Stored => Stays(m[n].docs[k], there, q)
        /\ m[n].kind = "filter" =>
              \A k \in 1 .. Len(items) : items[k] \in Stored => Stays(items[k], there, q)

Listed(i, rows) == \E s \in Sections : \E n \in 1 .. Len(rows[s]) : rows[s][n] = i

\* The task or completion handler takes item i off the table.
Takes(t, i) == t = Reload \/ (IsRemoval(t) /\ t.item = i)

\* An item that is gone will be taken off, also one whose deletion is to come.
Followed(i, m, there, q) ==
    /\ i \in there \/ \E n \in 1 .. Len(m) : Takes(m[n], i)
    /\ \A n \in 1 .. Len(q) : q[n].item = i => Takes(q[n].done, i)

AllFollowed(m, there, q, rows) ==
    \A i \in Stored : Listed(i, rows) => Followed(i, m, there, q)

\* Only new items are added.
AddsNew(q, u) == \A n \in 1 .. Len(q) : q[n].op = "add" => q[n].item \in u \ Stored

Deleted ==
    /\ AddsNew(queue, used)
    /\ ~overlap /\ ~crashed => Arriving(main, menu, server, queue)
    /\ ~overlap /\ ~tangled /\ ~crashed => AllFollowed(main, server, queue, filtered)

IInv == Typed /\ Backed /\ Loads /\ Outstanding /\ Deleted

-----------------------------------------------------------------------------
(* The tasks and writes                                                     *)

LEMMA TaskKinds ==
    /\ \A t \in Tasks :
          /\ t.kind \in {"query", "results", "filter", "reload", "remove"}
          /\ t.kind = "query" => t = Query
          /\ t.kind = "filter" => t = Filter
          /\ t.kind = "reload" => t = Reload
          /\ t.kind = "results" => t \in Answers /\ t.docs \in Seq(Items)
          /\ t.kind = "remove" =>
                t \in Removings /\ t.path[1] \in Sections /\ t.path[2] \in Nat
                /\ t.item \in Items
    /\ Query.kind = "query" /\ Filter.kind = "filter" /\ Reload.kind = "reload"
    /\ Nothing.kind = "nothing"
  BY DEF Tasks, Query, Filter, Reload, Nothing, Answers, Removings, RowNumbers

LEMMA DoneKinds ==
    \A d \in Dones :
        /\ d.kind \in {"nothing", "reload", "remove"}
        /\ d # Nothing => d \in Tasks /\ d.kind \in {"reload", "remove"}
        /\ d.kind = "nothing" => d = Nothing
        /\ d.kind = "reload" => d = Reload
        /\ d.kind = "remove" =>
              d \in Removings /\ d.path[1] \in Sections /\ d.path[2] \in Nat
              /\ d.item \in Items
  BY DEF Dones, Tasks, Reload, Nothing, Removings, RowNumbers

\* Putting a task at the end, taking one from the front.
LEMMA Appended ==
    ASSUME NEW T, NEW s \in Seq(T), NEW t \in T
    PROVE  /\ Append(s, t) \in Seq(T) /\ Len(Append(s, t)) = Len(s) + 1
           /\ \A i \in 1 .. Len(s) : Append(s, t)[i] = s[i]
           /\ Append(s, t)[Len(s) + 1] = t
           /\ Len(s) \in Nat
  OBVIOUS

LEMMA Popped ==
    ASSUME NEW T, NEW s \in Seq(T), s # <<>>
    PROVE  /\ Tail(s) \in Seq(T) /\ Len(Tail(s)) = Len(s) - 1
           /\ \A i \in 1 .. Len(s) - 1 : Tail(s)[i] = s[i + 1] /\ i + 1 \in 1 .. Len(s)
           /\ Head(s) = s[1] /\ 1 \in 1 .. Len(s) /\ Head(s) \in T
           /\ Len(s) \in Nat
  OBVIOUS

-----------------------------------------------------------------------------
(* Tasks and writes come and go                                             *)

\* What is said of removals goes on to hold when a task or a write is taken off.
LEMMA TaskOff ==
    ASSUME NEW m \in Seq(Tasks), m # <<>>, NEW q \in Seq(Writes), NEW rows
    PROVE  /\ InTurn(m, q) => InTurn(Tail(m), q)
           /\ AllName(m, q, rows) => AllName(Tail(m), q, rows)
  <1> DEFINE r == Tail(m)
  <1>1. /\ Len(r) = Len(m) - 1 /\ Len(m) \in Nat
        /\ \A i \in 1 .. Len(r) : r[i] = m[i + 1] /\ i + 1 \in 1 .. Len(m)
    BY Popped
  <1> HIDE DEF r
  <1>2. ASSUME InTurn(m, q) PROVE InTurn(r, q)
    <2>1. \A i, j \in 1 .. Len(r) :
             i < j /\ IsRemoval(r[i]) /\ IsRemoval(r[j]) => Before(r[i].path, r[j].path)
      <3> SUFFICES ASSUME NEW i \in 1 .. Len(r), NEW j \in 1 .. Len(r), i < j,
                          IsRemoval(r[i]), IsRemoval(r[j])
                   PROVE  Before(r[i].path, r[j].path)
        OBVIOUS
      <3>1. /\ r[i] = m[i + 1] /\ r[j] = m[j + 1] /\ i + 1 < j + 1
            /\ i + 1 \in 1 .. Len(m) /\ j + 1 \in 1 .. Len(m)
        BY <1>1
      <3> QED BY <1>2, <3>1 DEF InTurn
    <2>2. \A i \in 1 .. Len(r), j \in 1 .. Len(q) :
             IsRemoval(r[i]) /\ IsRemoval(q[j].done) => Before(r[i].path, q[j].done.path)
      BY <1>1, <1>2 DEF InTurn
    <2>3. \A i, j \in 1 .. Len(q) :
             i < j /\ IsRemoval(q[i].done) /\ IsRemoval(q[j].done)
                 => Before(q[i].done.path, q[j].done.path)
      BY <1>2 DEF InTurn
    <2> QED BY <2>1, <2>2, <2>3 DEF InTurn
  <1>3. ASSUME AllName(m, q, rows) PROVE AllName(r, q, rows)
    BY <1>1, <1>3 DEF AllName
  <1> QED BY <1>2, <1>3 DEF r

LEMMA WriteOff ==
    ASSUME NEW m \in Seq(Tasks), NEW q \in Seq(Writes), q # <<>>, NEW rows
    PROVE  /\ InTurn(m, q) => InTurn(m, Tail(q))
           /\ AllName(m, q, rows) => AllName(m, Tail(q), rows)
  <1> DEFINE r == Tail(q)
  <1>1. /\ Len(r) = Len(q) - 1 /\ Len(q) \in Nat
        /\ \A i \in 1 .. Len(r) : r[i] = q[i + 1] /\ i + 1 \in 1 .. Len(q)
    BY Popped
  <1> HIDE DEF r
  <1>2. ASSUME InTurn(m, q) PROVE InTurn(m, r)
    <2>1. \A i, j \in 1 .. Len(r) :
             i < j /\ IsRemoval(r[i].done) /\ IsRemoval(r[j].done)
                 => Before(r[i].done.path, r[j].done.path)
      <3> SUFFICES ASSUME NEW i \in 1 .. Len(r), NEW j \in 1 .. Len(r), i < j,
                          IsRemoval(r[i].done), IsRemoval(r[j].done)
                   PROVE  Before(r[i].done.path, r[j].done.path)
        OBVIOUS
      <3>1. /\ r[i] = q[i + 1] /\ r[j] = q[j + 1] /\ i + 1 < j + 1
            /\ i + 1 \in 1 .. Len(q) /\ j + 1 \in 1 .. Len(q)
        BY <1>1
      <3> QED BY <1>2, <3>1 DEF InTurn
    <2>2. \A i \in 1 .. Len(m), j \in 1 .. Len(r) :
             IsRemoval(m[i]) /\ IsRemoval(r[j].done) => Before(m[i].path, r[j].done.path)
      BY <1>1, <1>2 DEF InTurn
    <2>3. \A i, j \in 1 .. Len(m) :
             i < j /\ IsRemoval(m[i]) /\ IsRemoval(m[j]) => Before(m[i].path, m[j].path)
      BY <1>2 DEF InTurn
    <2> QED BY <2>1, <2>2, <2>3 DEF InTurn
  <1>3. ASSUME AllName(m, q, rows) PROVE AllName(m, r, rows)
    BY <1>1, <1>3 DEF AllName
  <1> QED BY <1>2, <1>3 DEF r

\* A task that is no removal is posted.
LEMMA TaskOn ==
    ASSUME NEW m \in Seq(Tasks), NEW q, NEW rows, NEW t \in Tasks, ~IsRemoval(t)
    PROVE  /\ InTurn(m, q) => InTurn(Append(m, t), q)
           /\ AllName(m, q, rows) => AllName(Append(m, t), q, rows)
  <1> DEFINE r == Append(m, t)
  <1>1. /\ Len(r) = Len(m) + 1 /\ Len(m) \in Nat /\ r[Len(m) + 1] = t
        /\ \A i \in 1 .. Len(m) : r[i] = m[i]
    BY Appended
  <1> HIDE DEF r
  <1>2. \A i \in 1 .. Len(r) : IsRemoval(r[i]) => i \in 1 .. Len(m) /\ r[i] = m[i]
    BY <1>1
  <1> QED BY <1>2 DEF r, InTurn, AllName

\* So is a write whose completion handler is none.
LEMMA WriteOn ==
    ASSUME NEW m, NEW q \in Seq(Writes), NEW rows, NEW w \in Writes, ~IsRemoval(w.done)
    PROVE  /\ InTurn(m, q) => InTurn(m, Append(q, w))
           /\ AllName(m, q, rows) => AllName(m, Append(q, w), rows)
  <1> DEFINE r == Append(q, w)
  <1>1. /\ Len(r) = Len(q) + 1 /\ Len(q) \in Nat /\ r[Len(q) + 1] = w
        /\ \A i \in 1 .. Len(q) : r[i] = q[i]
    BY Appended
  <1> HIDE DEF r
  <1>2. \A i \in 1 .. Len(r) : IsRemoval(r[i].done) => i \in 1 .. Len(q) /\ r[i] = q[i]
    BY <1>1
  <1> QED BY <1>2 DEF r, InTurn, AllName

\* The completion handler of the first write becomes the last task.
LEMMA WriteDone ==
    ASSUME NEW m \in Seq(Tasks), NEW q \in Seq(Writes), q # <<>>, NEW rows,
           Head(q).done \in Tasks
    PROVE  /\ InTurn(m, q) => InTurn(Append(m, Head(q).done), Tail(q))
           /\ AllName(m, q, rows) => AllName(Append(m, Head(q).done), Tail(q), rows)
  <1>0. PICK t \in Tasks : t = Head(q).done
    OBVIOUS
  <1> DEFINE a == Append(m, t)
             r == Tail(q)
  <1>1. /\ Len(r) = Len(q) - 1 /\ Len(q) \in Nat
        /\ \A i \in 1 .. Len(r) : r[i] = q[i + 1] /\ i + 1 \in 1 .. Len(q)
        /\ 1 \in 1 .. Len(q) /\ q[1].done = t
    BY <1>0, Popped
  <1>2. /\ Len(a) = Len(m) + 1 /\ Len(m) \in Nat /\ a[Len(m) + 1] = t
        /\ \A i \in 1 .. Len(m) : a[i] = m[i]
    BY Appended
  <1> HIDE DEF a, r
  <1>3. ASSUME InTurn(m, q) PROVE InTurn(a, r)
    <2>0. InTurn(m, r)
      BY <1>3, WriteOff DEF r
    <2>1. \A i, j \in 1 .. Len(a) :
             i < j /\ IsRemoval(a[i]) /\ IsRemoval(a[j]) => Before(a[i].path, a[j].path)
      <3> SUFFICES ASSUME NEW i \in 1 .. Len(a), NEW j \in 1 .. Len(a), i < j,
                          IsRemoval(a[i]), IsRemoval(a[j])
                   PROVE  Before(a[i].path, a[j].path)
        OBVIOUS
      <3>1. i \in 1 .. Len(m) /\ a[i] = m[i]
        BY <1>2
      <3>2. CASE j \in 1 .. Len(m)
        BY <1>2, <1>3, <3>1, <3>2 DEF InTurn
      <3>3. CASE j = Len(m) + 1
        <4>1. a[j] = q[1].done
          BY <1>1, <1>2, <3>3
        <4> QED BY <1>1, <1>3, <3>1, <4>1 DEF InTurn
      <3> QED BY <1>2, <3>2, <3>3
    <2>2. \A i \in 1 .. Len(a), j \in 1 .. Len(r) :
             IsRemoval(a[i]) /\ IsRemoval(r[j].done) => Before(a[i].path, r[j].done.path)
      <3> SUFFICES ASSUME NEW i \in 1 .. Len(a), NEW j \in 1 .. Len(r),
                          IsRemoval(a[i]), IsRemoval(r[j].done)
                   PROVE  Before(a[i].path, r[j].done.path)
        OBVIOUS
      <3>1. CASE i \in 1 .. Len(m)
        BY <1>2, <2>0, <3>1 DEF InTurn
      <3>2. CASE i = Len(m) + 1
        <4>1. /\ a[i] = q[1].done /\ r[j] = q[j + 1] /\ j + 1 \in 1 .. Len(q)
              /\ 1 < j + 1
          BY <1>1, <1>2, <3>2
        <4> QED BY <1>1, <1>3, <4>1 DEF InTurn
      <3> QED BY <1>2, <3>1, <3>2
    <2>3. \A i, j \in 1 .. Len(r) :
             i < j /\ IsRemoval(r[i].done) /\ IsRemoval(r[j].done)
                 => Before(r[i].done.path, r[j].done.path)
      BY <2>0 DEF InTurn
    <2> QED BY <2>1, <2>2, <2>3 DEF InTurn
  <1>4. ASSUME AllName(m, q, rows) PROVE AllName(a, r, rows)
    <2>1. ASSUME NEW i \in 1 .. Len(a), IsRemoval(a[i]) PROVE Names(a[i], rows)
      <3>1. CASE i \in 1 .. Len(m)
        BY <1>2, <1>4, <2>1, <3>1 DEF AllName
      <3>2. CASE i = Len(m) + 1
        BY <1>1, <1>2, <1>4, <2>1, <3>2 DEF AllName
      <3> QED BY <1>2, <3>1, <3>2
    <2>2. \A j \in 1 .. Len(r) : IsRemoval(r[j].done) => Names(r[j].done, rows)
      BY <1>1, <1>4 DEF AllName
    <2> QED BY <2>1, <2>2 DEF AllName
  <1> QED BY <1>0, <1>3, <1>4 DEF a, r

\* No removal is outstanding.
NoRemoval(m, q) ==
    /\ \A i \in 1 .. Len(m) : ~IsRemoval(m[i])
    /\ \A j \in 1 .. Len(q) : ~IsRemoval(q[j].done)

LEMMA NothingToName ==
    ASSUME NEW m, NEW q, NEW rows, NoRemoval(m, q)
    PROVE  InTurn(m, q) /\ AllName(m, q, rows)
  BY DEF NoRemoval, InTurn, AllName

LEMMA RemovalsAre ==
    ASSUME main \in Seq(Tasks), queue \in Seq(Writes)
    PROVE  /\ Removals = {} => NoRemoval(main, queue)
           /\ \A t \in Removals :
                 /\ IsRemoval(t)
                 /\ \/ \E i \in 1 .. Len(main) : main[i] = t
                    \/ \E j \in 1 .. Len(queue) : queue[j].done = t
  <1>1. Range(main) = {main[i] : i \in 1 .. Len(main)}
    BY DEF Range
  <1>2. Range(queue) = {queue[i] : i \in 1 .. Len(queue)}
    BY DEF Range
  <1>3. \A i \in 1 .. Len(main) : IsRemoval(main[i]) => main[i] \in Removals
    BY <1>1 DEF Removals, IsRemoval
  <1>4. \A j \in 1 .. Len(queue) : IsRemoval(queue[j].done) => queue[j].done \in Removals
    BY <1>2 DEF Removals, IsRemoval
  <1>5. \A t \in Removals :
                 /\ IsRemoval(t)
                 /\ \/ \E i \in 1 .. Len(main) : main[i] = t
                    \/ \E j \in 1 .. Len(queue) : queue[j].done = t
    BY <1>1, <1>2 DEF Removals, IsRemoval
  <1> QED BY <1>3, <1>4, <1>5 DEF NoRemoval

-----------------------------------------------------------------------------
(* A row is removed, rows are chosen                                        *)

RowOut(rows, p) == [rows EXCEPT ![p[1]] = RemoveAt(@, p[2])]

\* A removal leaves its rows typed, and each section a part of what it was.
LEMMA RowOutIs ==
    ASSUME NEW rows \in Rows, NEW t \in Removings, Names(t, rows)
    PROVE  /\ RowOut(rows, t.path) \in Rows
           /\ \A s \in Sections : s # t.path[1] => RowOut(rows, t.path)[s] = rows[s]
           /\ RowOut(rows, t.path)[t.path[1]] = RemoveAt(rows[t.path[1]], t.path[2])
           /\ \A s \in Sections : \A n \in 1 .. Len(RowOut(rows, t.path)[s]) :
                 \E k \in 1 .. Len(rows[s]) :
                    /\ rows[s][k] = RowOut(rows, t.path)[s][n]
                    /\ s = t.path[1] => k # t.path[2]
           /\ \A s \in Sections : InDocOrder(rows[s]) => InDocOrder(RowOut(rows, t.path)[s])
  <1>0. PICK c \in Sections, r \in Nat : c = t.path[1] /\ r = t.path[2]
    BY DEF Removings, RowNumbers
  <1> DEFINE new == RowOut(rows, t.path)
  <1>1. r \in 1 .. Len(rows[c]) /\ rows[c] \in Seq(Items)
    BY <1>0 DEF Names, Rows
  <1>2. /\ RemoveAt(rows[c], r) \in Seq(Items)
        /\ Len(RemoveAt(rows[c], r)) = Len(rows[c]) - 1
        /\ \A j \in 1 .. Len(rows[c]) - 1 :
              RemoveAt(rows[c], r)[j] = IF j < r THEN rows[c][j] ELSE rows[c][j + 1]
        /\ IsPart(RemoveAt(rows[c], r), rows[c])
    BY <1>1, RemoveAtIsPart
  <1>3. /\ new = [rows EXCEPT ![c] = RemoveAt(@, r)]
        /\ new \in Rows /\ new[c] = RemoveAt(rows[c], r)
        /\ \A s \in Sections : s # c => new[s] = rows[s]
    <2>1. new = [rows EXCEPT ![c] = RemoveAt(@, r)]
      BY <1>0 DEF RowOut
    <2>2. rows \in [Sections -> Seq(Items)]
      BY DEF Rows
    <2> HIDE DEF new
    <2>3. new \in [Sections -> Seq(Items)]
      BY <1>2, <2>1, <2>2
    <2> QED BY <2>1, <2>2, <2>3 DEF Rows
  <1> HIDE DEF new
  <1>4. ASSUME NEW s \in Sections, NEW n \in 1 .. Len(new[s])
        PROVE  \E k \in 1 .. Len(rows[s]) : rows[s][k] = new[s][n] /\ (s = c => k # r)
    <2>1. CASE s # c
      BY <1>3, <2>1
    <2>2. CASE s = c
      <3>1. Len(rows[c]) \in Nat /\ n \in 1 .. Len(rows[c]) - 1
        BY <1>1, <1>2, <1>3, <2>2
      <3>2. CASE n < r
        <4>1. new[s][n] = rows[c][n] /\ n \in 1 .. Len(rows[c]) /\ n # r
          BY <1>2, <1>3, <2>2, <3>1, <3>2
        <4> QED BY <2>2, <4>1
      <3>3. CASE ~(n < r)
        <4>1. new[s][n] = rows[c][n + 1] /\ n + 1 \in 1 .. Len(rows[c]) /\ n + 1 # r
          BY <1>1, <1>2, <1>3, <2>2, <3>1, <3>3
        <4> QED BY <2>2, <4>1
      <3> QED BY <3>2, <3>3
    <2> QED BY <2>1, <2>2
  <1>5. ASSUME NEW s \in Sections, InDocOrder(rows[s]) PROVE InDocOrder(new[s])
    <2>1. CASE s # c
      BY <1>3, <1>5, <2>1
    <2>2. CASE s = c
      <3>1. Len(rows[c]) \in Nat /\ Len(RemoveAt(rows[c], r)) \in Nat
        BY <1>1, <1>2
      <3>2. InDocOrder(RemoveAt(rows[c], r))
        BY <1>2, <1>5, <2>2, <3>1, PartInOrder
      <3> QED BY <1>3, <2>2, <3>2
    <2> QED BY <2>1, <2>2
  <1> QED BY <1>0, <1>3, <1>4, <1>5 DEF new

\* A removal leaves the path of a later one right: that is of a smaller row, or
\* of another section.
LEMMA StillNames ==
    ASSUME NEW rows \in Rows, NEW t \in Removings, NEW u \in Removings,
           Names(t, rows), Names(u, rows), Before(t.path, u.path)
    PROVE  Names(u, RowOut(rows, t.path))
  <1>0. PICK c \in Sections, r \in Nat \ {0} : c = t.path[1] /\ r = t.path[2]
    BY DEF Removings, RowNumbers
  <1>1. PICK d \in Sections, k \in Nat \ {0} : d = u.path[1] /\ k = u.path[2]
    BY DEF Removings, RowNumbers
  <1> DEFINE new == RowOut(rows, t.path)
  <1>2. /\ \A s \in Sections : s # c => new[s] = rows[s]
        /\ new[c] = RemoveAt(rows[c], r)
    BY <1>0, RowOutIs
  <1>3. r \in 1 .. Len(rows[c]) /\ rows[c] \in Seq(Items)
    BY <1>0 DEF Names, Rows
  <1>4. k \in 1 .. Len(rows[d]) /\ rows[d][k] = u.item
    BY <1>1 DEF Names
  <1>5. r > k \/ (r = k /\ c < d)
    BY <1>0, <1>1 DEF Before
  <1>6. k \in 1 .. Len(new[d]) /\ new[d][k] = u.item
    <2>1. CASE d # c
      BY <1>2, <1>4, <2>1
    <2>2. CASE d = c
      <3>1. c \in Nat /\ r > k
        BY <1>5, <2>2, MenuAssumption
      <3>2. /\ Len(RemoveAt(rows[c], r)) = Len(rows[c]) - 1
            /\ \A j \in 1 .. Len(rows[c]) - 1 :
                  RemoveAt(rows[c], r)[j] = IF j < r THEN rows[c][j] ELSE rows[c][j + 1]
        BY <1>3, RemoveAtIsPart
      <3>3. Len(rows[c]) \in Nat /\ k \in 1 .. Len(rows[c]) - 1
        BY <1>3, <1>4, <2>2, <3>1
      <3> QED BY <1>2, <1>4, <2>2, <3>1, <3>2, <3>3
    <2> QED BY <2>1, <2>2
  <1> QED BY <1>1, <1>6 DEF Names

\* The first removal is carried out: the others go on naming their rows.
LEMMA RowRemoved ==
    ASSUME NEW m \in Seq(Tasks), m # <<>>, NEW q \in Seq(Writes), NEW rows \in Rows,
           IsRemoval(Head(m)), InTurn(m, q), AllName(m, q, rows)
    PROVE  /\ Head(m) \in Removings /\ Names(Head(m), rows)
           /\ AllName(Tail(m), q, RowOut(rows, Head(m).path))
  <1>0. PICK t : t = Head(m)
    OBVIOUS
  <1> DEFINE r == Tail(m)
  <1>1. /\ Len(r) = Len(m) - 1 /\ Len(m) \in Nat
        /\ \A i \in 1 .. Len(r) : r[i] = m[i + 1] /\ i + 1 \in 1 .. Len(m)
        /\ t = m[1] /\ 1 \in 1 .. Len(m) /\ t \in Tasks
    BY <1>0, Popped
  <1> HIDE DEF r
  <1>2. t \in Removings /\ Names(t, rows)
    <2>1. Names(t, rows)
      BY <1>0, <1>1 DEF AllName
    <2> QED BY <1>0, <1>1, <2>1, TaskKinds DEF IsRemoval
  <1>3. ASSUME NEW i \in 1 .. Len(r), IsRemoval(r[i])
        PROVE  Names(r[i], RowOut(rows, t.path))
    <2>1. r[i] = m[i + 1] /\ i + 1 \in 1 .. Len(m) /\ 1 < i + 1
      BY <1>1
    <2>2. PICK u \in Tasks : u = m[i + 1]
      BY <2>1
    <2>3. Before(t.path, u.path) /\ Names(u, rows)
      BY <1>0, <1>1, <1>3, <2>1, <2>2 DEF InTurn, AllName
    <2>4. u \in Removings
      BY <1>3, <2>1, <2>2, TaskKinds DEF IsRemoval
    <2> QED BY <1>2, <2>1, <2>2, <2>3, <2>4, StillNames
  <1>4. ASSUME NEW j \in 1 .. Len(q), IsRemoval(q[j].done)
        PROVE  Names(q[j].done, RowOut(rows, t.path))
    <2>0. q[j] \in Writes
      OBVIOUS
    <2>1. PICK u \in Dones : u = q[j].done
      BY <2>0 DEF Writes
    <2>2. Before(t.path, u.path) /\ Names(u, rows)
      BY <1>0, <1>1, <1>4, <2>1 DEF InTurn, AllName
    <2>3. u \in Removings
      BY <1>4, <2>1, DoneKinds DEF IsRemoval
    <2> QED BY <1>2, <2>1, <2>2, <2>3, StillNames
  <1>5. AllName(r, q, RowOut(rows, t.path))
    BY <1>3, <1>4 DEF AllName
  <1> QED BY <1>0, <1>2, <1>5 DEF r

\* An item whose row is removed is in no row any more, the others are where
\* they were.
LEMMA NotListedAgain ==
    ASSUME NEW rows \in Rows, NEW t \in Removings, Names(t, rows),
           NEW m, NEW items, InPlace(m, rows, items)
    PROVE  /\ ~Listed(t.item, RowOut(rows, t.path))
           /\ \A i : Listed(i, RowOut(rows, t.path)) => Listed(i, rows)
           /\ InPlace(m, RowOut(rows, t.path), items)
  <1> DEFINE new == RowOut(rows, t.path)
  <1>0. PICK c \in Sections, r \in Nat : c = t.path[1] /\ r = t.path[2]
    BY DEF Removings, RowNumbers
  <1>1. r \in 1 .. Len(rows[c]) /\ rows[c][r] = t.item
    BY <1>0 DEF Names
  <1>2. /\ \A s \in Sections : \A n \in 1 .. Len(new[s]) :
              \E k \in 1 .. Len(rows[s]) : rows[s][k] = new[s][n] /\ (s = c => k # r)
        /\ \A s \in Sections : InDocOrder(rows[s]) => InDocOrder(new[s])
    BY <1>0, RowOutIs
  <1>3. \A s \in Sections :
          /\ InDocOrder(rows[s])
          /\ \A i \in 1 .. Len(rows[s]) : Category[rows[s][i]] = s
    BY DEF InPlace
  <1> HIDE DEF new
  <1>4. ASSUME NEW s \in Sections, NEW n \in 1 .. Len(new[s]), new[s][n] = t.item
        PROVE  FALSE
    <2>1. PICK k \in 1 .. Len(rows[s]) : rows[s][k] = new[s][n] /\ (s = c => k # r)
      BY <1>2
    <2>2. s = c
      BY <1>1, <1>3, <1>4, <2>1
    <2>3. Len(rows[c]) \in Nat
      BY DEF Rows
    <2>4. k = r
      BY <1>1, <1>3, <1>4, <2>1, <2>2, <2>3, NoneTwice
    <2> QED BY <2>1, <2>2, <2>4
  <1>5. ASSUME NEW i, Listed(i, new) PROVE Listed(i, rows)
    BY <1>2, <1>5 DEF Listed
  <1>6. ASSUME NEW s \in Sections
        PROVE  /\ InDocOrder(new[s])
               /\ \A i \in 1 .. Len(new[s]) : Category[new[s][i]] = s
    BY <1>2, <1>3
  <1>7. InPlace(m, new, items)
    BY <1>6 DEF InPlace
  <1> QED BY <1>4, <1>5, <1>7 DEF new, Listed

LEMMA Joined ==
    ASSUME NEW T, NEW q \in Seq(T), NEW b \in Seq(T)
    PROVE  /\ q \o b \in Seq(T) /\ Len(q \o b) = Len(q) + Len(b)
           /\ Len(q) \in Nat /\ Len(b) \in Nat
           /\ \A i \in 1 .. Len(q) : (q \o b)[i] = q[i]
           /\ \A i \in 1 .. Len(q) + Len(b) :
                 i \notin 1 .. Len(q) =>
                    (q \o b)[i] = b[i - Len(q)] /\ i - Len(q) \in 1 .. Len(b)
  <1>1. /\ q \o b \in Seq(T) /\ Len(q \o b) = Len(q) + Len(b)
        /\ \A i \in 1 .. Len(q) + Len(b) :
                (q \o b)[i] = IF i <= Len(q) THEN q[i] ELSE b[i - Len(q)]
    BY ConcatProperties
  <1> QED BY <1>1

\* The rows of a selection are put behind each other, greatest first.
LEMMA RowsChosen ==
    ASSUME NEW m, NEW q \in Seq(Writes), NEW b \in Seq(Writes), NEW rows,
           NoRemoval(m, q),
           \A i \in 1 .. Len(b) : IsRemoval(b[i].done) => Names(b[i].done, rows),
           \A i, j \in 1 .. Len(b) : i < j => Before(b[i].done.path, b[j].done.path)
    PROVE  InTurn(m, q \o b) /\ AllName(m, q \o b, rows)
  <1> DEFINE a == q \o b
  <1>1. /\ Len(a) = Len(q) + Len(b) /\ Len(q) \in Nat /\ Len(b) \in Nat
        /\ \A i \in 1 .. Len(q) : a[i] = q[i]
        /\ \A i \in 1 .. Len(a) :
                 i \notin 1 .. Len(q) => a[i] = b[i - Len(q)] /\ i - Len(q) \in 1 .. Len(b)
    BY Joined
  <1> HIDE DEF a
  <1>2. \A i \in 1 .. Len(a) : IsRemoval(a[i].done) =>
            a[i] = b[i - Len(q)] /\ i - Len(q) \in 1 .. Len(b)
    BY <1>1 DEF NoRemoval
  <1>3. AllName(m, a, rows)
    BY <1>2 DEF AllName, NoRemoval
  <1>4. ASSUME NEW i \in 1 .. Len(a), NEW j \in 1 .. Len(a), i < j,
               IsRemoval(a[i].done), IsRemoval(a[j].done)
        PROVE  Before(a[i].done.path, a[j].done.path)
    <2>1. /\ a[i] = b[i - Len(q)] /\ i - Len(q) \in 1 .. Len(b)
          /\ a[j] = b[j - Len(q)] /\ j - Len(q) \in 1 .. Len(b)
          /\ i - Len(q) < j - Len(q)
      BY <1>1, <1>2, <1>4
    <2> QED BY <2>1
  <1>5. InTurn(m, a)
    BY <1>4 DEF InTurn, NoRemoval
  <1> QED BY <1>3, <1>5 DEF a

-----------------------------------------------------------------------------
(* Acts that touch neither data nor tasks                                   *)

LEMMA EmptyRows ==
    /\ Empty \in Rows
    /\ \A s \in Sections : Empty[s] = <<>> /\ Len(Empty[s]) = 0 /\ InDocOrder(Empty[s])
    /\ \A i : ~Listed(i, Empty)
  BY DEF Empty, Rows, InDocOrder, Listed

LEMMA LoadingIs ==
    /\ Loading <=> queries > 0 \/ ~NoStage(main)
    /\ Loading' <=> queries' > 0 \/ ~NoStage(main')
  BY DEF Loading, NoStage, IsStage

LEMMA InitHolds == ASSUME Init PROVE IInv
  <1>1. /\ main = <<Query>> /\ Len(main) = 1 /\ main[1] = Query /\ main \in Seq(Tasks)
        /\ queue = <<>> /\ Len(queue) = 0
    BY DEF Init, Tasks
  <1>2. Typed
    <2>1. queue \in Seq(Writes) /\ menu \in Seq(Items)
      BY DEF Init
    <2>2. filtered \in Rows /\ shown \in Rows /\ selected \subseteq RowPaths
      BY EmptyRows DEF Init
    <2>3. alert \in Questions /\ queries \in Nat /\ acts \in 0 .. MaxActs
      BY MenuAssumption DEF Init, Questions
    <2>4. /\ server \subseteq used /\ used \subseteq Items /\ Stored \subseteq used
          /\ ui \in [form : BOOLEAN, editing : BOOLEAN, buttons : BOOLEAN]
          /\ crashed \in BOOLEAN /\ overlap \in BOOLEAN /\ tangled \in BOOLEAN
      BY MenuAssumption DEF Init
    <2> QED BY <1>1, <2>1, <2>2, <2>3, <2>4 DEF Typed
  <1>3. ~NoStage(main) /\ Loading
    BY <1>1, LoadingIs DEF NoStage, IsStage, Query
  <1>4. Backed
    BY <1>3 DEF Init, Backed
  <1>5. OneLoad(main, queries, filtered, menu)
    BY <1>1 DEF Init, OneLoad
  <1>6. InPlace(main, filtered, menu)
    BY <1>1, EmptyRows DEF Init, InPlace, Query
  <1>7. Outstanding
    <2>1. NoRemoval(main, queue)
      BY <1>1 DEF NoRemoval, IsRemoval, Query
    <2> QED BY <2>1, NothingToName DEF Outstanding
  <1>8. Deleted
    <2>1. Arriving(main, menu, server, queue)
      BY <1>1 DEF Arriving, Query
    <2>2. AllFollowed(main, server, queue, filtered)
      BY EmptyRows DEF Init, AllFollowed
    <2>3. AddsNew(queue, used)
      BY <1>1 DEF AddsNew
    <2> QED BY <2>1, <2>2, <2>3 DEF Deleted
  <1> QED BY <1>2, <1>4, <1>5, <1>6, <1>7, <1>8 DEF IInv, Loads

LEMMA Rests ==
    ASSUME IInv, UNCHANGED <<server, used, queue, menu, filtered, shown, main, queries,
                             overlap, tangled>>,
           ~crashed' => ~crashed
    PROVE  Backed' /\ Loads' /\ Outstanding' /\ Deleted'
  <1>1. Backed'
    BY DEF IInv, Backed, Loading
  <1>2. Loads'
    BY DEF IInv, Loads
  <1>3. Outstanding'
    BY DEF IInv, Outstanding
  <1>4. Deleted'
    BY DEF IInv, Deleted
  <1> QED BY <1>1, <1>2, <1>3, <1>4

LEMMA RowPathsAre ==
    ASSUME shown \in Rows
    PROVE  /\ \A p \in RowPaths : p \in RowNumbers /\ p[2] \in 1 .. Len(shown[p[1]])
           /\ RowPaths \subseteq RowNumbers
           /\ IsFiniteSet(RowPaths)
  <1>1. \A s \in Sections : Len(shown[s]) \in Nat
    BY DEF Rows
  <1>2. \A s \in Sections : IsFiniteSet({s} \X (1 .. Len(shown[s])))
    <2> SUFFICES ASSUME NEW s \in Sections
                 PROVE  IsFiniteSet({s} \X (1 .. Len(shown[s])))
      OBVIOUS
    <2>1. IsFiniteSet({s})
      BY FS_Singleton
    <2>2. IsFiniteSet(1 .. Len(shown[s]))
      BY <1>1, FS_Interval
    <2> QED BY <2>1, <2>2, FS_Product
  <1>3. IsFiniteSet({{s} \X (1 .. Len(shown[s])) : s \in Sections})
    <2> DEFINE f == [s \in Sections |-> {s} \X (1 .. Len(shown[s]))]
               R == {{s} \X (1 .. Len(shown[s])) : s \in Sections}
    <2>1. f \in Surjection(Sections, R)
      BY DEF Surjection
    <2>2. IsFiniteSet(Sections)
      BY MenuAssumption
    <2> HIDE DEF f, R
    <2>3. IsFiniteSet(R)
      BY <2>1, <2>2, FS_Surjection
    <2> QED BY <2>3 DEF R
  <1>4. IsFiniteSet(RowPaths)
    BY <1>2, <1>3, FS_UNION DEF RowPaths
  <1>5. \A p \in RowPaths : p \in RowNumbers /\ p[2] \in 1 .. Len(shown[p[1]])
    <2> SUFFICES ASSUME NEW p \in RowPaths
                 PROVE  p \in RowNumbers /\ p[2] \in 1 .. Len(shown[p[1]])
      OBVIOUS
    <2>1. PICK s \in Sections : p \in {s} \X (1 .. Len(shown[s]))
      BY DEF RowPaths
    <2>2. PICK k \in 1 .. Len(shown[s]) : p = <<s, k>>
      BY <2>1
    <2>3. k \in Nat \ {0}
      BY <1>1, <2>2
    <2> QED BY <2>2, <2>3 DEF RowNumbers
  <1> QED BY <1>4, <1>5

LEMMA ScreenKeeps ==
    ASSUME IInv, AddButton \/ FoodEditButton \/ CancelButton \/ CancelAlert
    PROVE  IInv'
  <1>1. /\ UNCHANGED <<server, used, queue, menu, filtered, shown, main, queries, crashed,
                       acts, overlap, tangled>>
        /\ selected' \in {selected, {}}
        /\ alert' \in {alert, NoAlert}
    BY DEF AddButton, FoodEditButton, CancelButton, CancelAlert, data, table, notes
  <1>2. ui' \in [form : BOOLEAN, editing : BOOLEAN, buttons : BOOLEAN]
    BY DEF IInv, Typed, AddButton, FoodEditButton, CancelButton, CancelAlert
  <1>3. Typed'
    BY <1>1, <1>2 DEF IInv, Typed, RowPaths, Questions
  <1> QED BY <1>1, <1>3, Rests DEF IInv

LEMMA SwipeRowKeeps ==
    ASSUME IInv, NEW path \in RowPaths, SwipeRow(path)
    PROVE  IInv'
  <1>1. UNCHANGED <<server, used, queue, menu, filtered, shown, selected, ui, main,
                    queries, crashed, overlap, tangled>>
    BY DEF SwipeRow, data, table, notes
  <1>2. alert' \in Questions
    BY RowPathsAre DEF SwipeRow, Questions, IInv, Typed
  <1>3. acts' \in 0 .. MaxActs
    BY MenuAssumption DEF SwipeRow, Act, IInv, Typed
  <1>4. Typed'
    BY <1>1, <1>2, <1>3 DEF IInv, Typed, RowPaths
  <1> QED BY <1>1, <1>4, Rests DEF IInv

LEMMA DeleteButtonKeeps ==
    ASSUME IInv, NEW paths \in SUBSET RowPaths, DeleteButton(paths)
    PROVE  IInv'
  <1>1. /\ UNCHANGED <<server, used, queue, menu, filtered, shown, ui, main,
                       queries, crashed, overlap, tangled>>
        /\ selected' = paths /\ alert' = [kind |-> "rows"]
    BY DEF DeleteButton, data, notes
  <1>2. acts' \in 0 .. MaxActs
    BY MenuAssumption DEF DeleteButton, Act, IInv, Typed
  <1>3. Typed'
    BY <1>1, <1>2 DEF IInv, Typed, RowPaths, Questions
  <1> QED BY <1>1, <1>3, Rests DEF IInv

LEMMA ScrollToKeeps ==
    ASSUME IInv, NEW path \in RowPaths, ScrollTo(path)
    PROVE  IInv'
  <1>1. /\ UNCHANGED <<server, used, queue, menu, filtered, shown, selected, ui, alert,
                       main, queries, acts, overlap, tangled>>
        /\ ~crashed /\ crashed' \in BOOLEAN
    BY DEF ScrollTo, data, table, notes
  <1>2. Typed'
    BY <1>1 DEF IInv, Typed, RowPaths
  <1> QED BY <1>1, <1>2, Rests DEF IInv

LEMMA StutterKeeps == ASSUME IInv, UNCHANGED vars PROVE IInv'
  <1>1. Typed'
    BY DEF IInv, Typed, RowPaths, vars
  <1> QED BY <1>1, Rests DEF IInv, vars

-----------------------------------------------------------------------------
(* Loads                                                                    *)

\* LoadMenu leaves the sections empty and its query behind the other tasks.
LEMMA LoadStarts ==
    ASSUME IInv, NEW others \in Seq(Tasks),
           \A i \in 1 .. Len(others) : \E j \in 1 .. Len(main) : others[i] = main[j],
           LoadMenu(others), UNCHANGED <<server, used, queue, queries, crashed>>
    PROVE  /\ menu' \in Seq(Items) /\ filtered' \in Rows /\ main' \in Seq(Tasks)
           /\ overlap' \in BOOLEAN /\ tangled' \in BOOLEAN
           /\ UNCHANGED <<shown, selected>>
           /\ Backed' /\ Loads' /\ Outstanding' /\ Deleted'
  <1>1. PICK m : m = Append(others, Query)
    OBVIOUS
  <1>2. /\ menu' = <<>> /\ filtered' = Empty /\ main' = m
        /\ overlap' = (overlap \/ Loading) /\ tangled' = (tangled \/ Removals # {})
        /\ UNCHANGED <<shown, selected, server, used, queue, queries, crashed>>
    BY <1>1 DEF LoadMenu
  <1>3. /\ m \in Seq(Tasks) /\ Len(m) = Len(others) + 1 /\ m[Len(others) + 1] = Query
        /\ \A i \in 1 .. Len(others) : m[i] = others[i]
        /\ Len(others) \in Nat
    <2>1. Query \in Tasks
      BY DEF Tasks
    <2> QED BY <1>1, <2>1, Appended
  <1>4. /\ menu' \in Seq(Items) /\ filtered' \in Rows /\ main' \in Seq(Tasks)
        /\ overlap' \in BOOLEAN /\ tangled' \in BOOLEAN
    BY <1>2, <1>3, EmptyRows DEF IInv, Typed
  <1>5. Query.kind = "query" /\ IsStage(Query) /\ ~IsRemoval(Query)
    BY DEF Query, IsStage, IsRemoval
  <1>6. Backed'
    <2>1. ~NoStage(m)
      BY <1>3, <1>5 DEF NoStage
    <2> QED BY <1>2, <2>1, LoadingIs DEF Backed
  <1>7. ASSUME ~overlap'
        PROVE  /\ queries = 0 /\ ~overlap
               /\ \A i \in 1 .. Len(m) : IsStage(m[i]) => i = Len(others) + 1 /\ m[i] = Query
    <2>1. ~overlap /\ ~Loading
      BY <1>2, <1>7 DEF IInv, Typed
    <2>2. queries = 0 /\ NoStage(main)
      BY <2>1, LoadingIs DEF IInv, Typed
    <2>3. \A i \in 1 .. Len(others) : ~IsStage(others[i])
      BY <2>2 DEF NoStage
    <2> QED BY <1>3, <2>1, <2>2, <2>3
  <1>8. Loads'
    <2> SUFFICES ASSUME ~overlap'
                 PROVE  OneLoad(m, 0, Empty, <<>>) /\ InPlace(m, Empty, <<>>)
      BY <1>2, <1>7 DEF Loads
    <2>1. \A i \in 1 .. Len(m) : IsStage(m[i]) => i = Len(others) + 1 /\ m[i] = Query
      BY <1>7
    <2>2. OneLoad(m, 0, Empty, <<>>)
      BY <2>1 DEF OneLoad
    <2>3. \A i \in 1 .. Len(m) : m[i].kind # "results"
      BY <2>1, <1>5 DEF IsStage
    <2>4. InPlace(m, Empty, <<>>)
      BY <2>3, EmptyRows, DocOrderInOrder DEF InPlace
    <2> QED BY <2>2, <2>4
  <1>9. Outstanding'
    <2> SUFFICES ASSUME ~tangled'
                 PROVE  InTurn(m, queue) /\ AllName(m, queue, Empty)
      BY <1>2 DEF Outstanding
    <2>1. Removals = {}
      BY <1>2
    <2>2. NoRemoval(main, queue)
      BY <2>1, RemovalsAre DEF IInv, Typed
    <2>3. \A i \in 1 .. Len(others) : ~IsRemoval(others[i])
      BY <2>2 DEF NoRemoval
    <2>4. \A i \in 1 .. Len(m) : ~IsRemoval(m[i])
      BY <1>3, <1>5, <2>3
    <2>5. NoRemoval(m, queue)
      BY <2>2, <2>4 DEF NoRemoval
    <2> QED BY <2>5, NothingToName
  <1>10. Deleted'
    <2>1. AddsNew(queue, used)
      BY DEF IInv, Deleted
    <2>2. ~overlap' => Arriving(m, <<>>, server, queue)
      <3> SUFFICES ASSUME ~overlap'
                   PROVE  \A i \in 1 .. Len(m) : m[i].kind # "results" /\ Len(<<>>) = 0
        BY DEF Arriving
      <3> QED BY <1>5, <1>7 DEF IsStage
    <2>3. AllFollowed(m, server, queue, Empty)
      BY EmptyRows DEF AllFollowed
    <2> QED BY <1>2, <2>1, <2>2, <2>3 DEF Deleted
  <1> QED BY <1>2, <1>4, <1>6, <1>8, <1>9, <1>10

LEMMA EditButtonKeeps == ASSUME IInv, EditButton PROVE IInv'
  <1>1. /\ LoadMenu(main)
        /\ UNCHANGED <<server, used, queue, alert, queries, crashed>>
        /\ ui' = [ui EXCEPT !.form = FALSE]
    BY DEF EditButton, data
  <1>2. /\ menu' \in Seq(Items) /\ filtered' \in Rows /\ main' \in Seq(Tasks)
        /\ overlap' \in BOOLEAN /\ tangled' \in BOOLEAN
        /\ UNCHANGED <<shown, selected>>
        /\ Backed' /\ Loads' /\ Outstanding' /\ Deleted'
    <2>1. main \in Seq(Tasks)
      BY DEF IInv, Typed
    <2> QED BY <1>1, <2>1, LoadStarts
  <1>3. acts' \in 0 .. MaxActs
    BY MenuAssumption DEF EditButton, Act, IInv, Typed
  <1>4. Typed'
    BY <1>1, <1>2, <1>3 DEF IInv, Typed, RowPaths
  <1> QED BY <1>2, <1>4 DEF IInv

-----------------------------------------------------------------------------
(* What loads and items keep when a task comes or goes                      *)

LEMMA StagePopped ==
    ASSUME NEW m \in Seq(Tasks), m # <<>>, NEW n, NEW rows, NEW items
    PROVE  /\ OneLoad(m, n, rows, items) /\ IsStage(Head(m)) =>
                 n = 0 /\ rows = Empty /\ NoStage(Tail(m))
           /\ OneLoad(m, n, rows, items) /\ Head(m).kind \in {"query", "results"} =>
                 items = <<>>
           /\ OneLoad(m, n, rows, items) /\ ~IsStage(Head(m)) =>
                 OneLoad(Tail(m), n, rows, items)
           /\ InPlace(m, rows, items) => InPlace(Tail(m), rows, items)
           /\ ~IsStage(Head(m)) /\ ~NoStage(m) => ~NoStage(Tail(m))
  <1>0. PICK t : t = Head(m)
    OBVIOUS
  <1> DEFINE r == Tail(m)
  <1>1. /\ Len(r) = Len(m) - 1 /\ Len(m) \in Nat
        /\ \A i \in 1 .. Len(r) : r[i] = m[i + 1] /\ i + 1 \in 1 .. Len(m)
        /\ t = m[1] /\ 1 \in 1 .. Len(m)
    BY <1>0, Popped
  <1> HIDE DEF r
  <1>2. ASSUME OneLoad(m, n, rows, items), IsStage(t)
        PROVE  n = 0 /\ rows = Empty /\ NoStage(r)
    <2>1. ~NoStage(m)
      BY <1>1, <1>2 DEF NoStage
    <2>2. n = 0 /\ rows = Empty
      BY <1>2, <2>1 DEF OneLoad
    <2>3. ASSUME NEW i \in 1 .. Len(r), IsStage(r[i]) PROVE FALSE
      <3>1. IsStage(m[i + 1]) /\ IsStage(m[1]) /\ i + 1 \in 1 .. Len(m) /\ i + 1 # 1
        BY <1>1, <1>2, <2>3
      <3> QED BY <1>1, <1>2, <3>1 DEF OneLoad
    <2> QED BY <2>2, <2>3 DEF NoStage
  <1>3. ASSUME OneLoad(m, n, rows, items), t.kind \in {"query", "results"}
        PROVE  items = <<>>
    BY <1>1, <1>3 DEF OneLoad
  <1>4. NoStage(m) => NoStage(r)
    BY <1>1 DEF NoStage
  <1>5. ASSUME OneLoad(m, n, rows, items), ~IsStage(t)
        PROVE  OneLoad(r, n, rows, items)
    <2>1. ASSUME NEW i \in 1 .. Len(r), NEW j \in 1 .. Len(r), IsStage(r[i]), IsStage(r[j])
          PROVE  i = j
      <3>1. i + 1 = j + 1
        BY <1>1, <1>5, <2>1 DEF OneLoad
      <3> QED BY <1>1, <3>1
    <2>2. \A i \in 1 .. Len(r) : r[i].kind \in {"query", "results"} => items = <<>>
      BY <1>1, <1>5 DEF OneLoad
    <2>3. /\ n \in {0, 1}
          /\ n = 1 => NoStage(m) /\ items = <<>>
          /\ n = 1 \/ ~NoStage(m) => rows = Empty
      BY <1>5 DEF OneLoad
    <2> QED BY <1>4, <2>1, <2>2, <2>3 DEF OneLoad
  <1>6. InPlace(m, rows, items) => InPlace(r, rows, items)
    BY <1>1 DEF InPlace
  <1>7. ASSUME ~IsStage(t), ~NoStage(m) PROVE ~NoStage(r)
    <2>1. PICK i \in 1 .. Len(m) : IsStage(m[i])
      BY <1>7 DEF NoStage
    <2>2. i # 1
      BY <1>1, <1>7, <2>1
    <2>3. i - 1 \in 1 .. Len(r) /\ (i - 1) + 1 = i
      BY <1>1, <2>2
    <2>4. r[i - 1] = m[i]
      BY <1>1, <2>3
    <2> QED BY <2>1, <2>3, <2>4 DEF NoStage
  <1> QED BY <1>0, <1>2, <1>3, <1>5, <1>6, <1>7 DEF r

LEMMA TaskPosted ==
    ASSUME NEW m \in Seq(Tasks), NEW t \in Tasks, ~IsStage(t), NEW n, NEW rows, NEW items,
           NEW there, NEW q
    PROVE  /\ OneLoad(m, n, rows, items) => OneLoad(Append(m, t), n, rows, items)
           /\ InPlace(m, rows, items) => InPlace(Append(m, t), rows, items)
           /\ Arriving(m, items, there, q) => Arriving(Append(m, t), items, there, q)
           /\ ~NoStage(m) => ~NoStage(Append(m, t))
  <1> DEFINE a == Append(m, t)
  <1>1. /\ Len(a) = Len(m) + 1 /\ Len(m) \in Nat /\ a[Len(m) + 1] = t
        /\ \A i \in 1 .. Len(m) : a[i] = m[i]
    BY Appended
  <1> HIDE DEF a
  <1>2. \A i \in 1 .. Len(a) : IsStage(a[i]) => i \in 1 .. Len(m) /\ a[i] = m[i]
    BY <1>1
  <1>3. \A i \in 1 .. Len(a) :
            a[i].kind = "query" \/ a[i].kind = "results" \/ a[i].kind = "filter"
                => i \in 1 .. Len(m) /\ a[i] = m[i]
    BY <1>2 DEF IsStage
  <1>4. NoStage(m) <=> NoStage(a)
    BY <1>1, <1>2 DEF NoStage
  <1>5. OneLoad(m, n, rows, items) => OneLoad(a, n, rows, items)
    BY <1>2, <1>3, <1>4 DEF OneLoad
  <1>6. InPlace(m, rows, items) => InPlace(a, rows, items)
    BY <1>3 DEF InPlace
  <1>7. Arriving(m, items, there, q) => Arriving(a, items, there, q)
    BY <1>3 DEF Arriving
  <1> QED BY <1>4, <1>5, <1>6, <1>7 DEF a

\* Items on their way, when the tasks or the writes before them are gone.
LEMMA ArrivingPopped ==
    ASSUME NEW m \in Seq(Tasks), m # <<>>, NEW items, NEW there, NEW q,
           Arriving(m, items, there, q)
    PROVE  Arriving(Tail(m), items, there, q)
  <1> DEFINE r == Tail(m)
  <1>1. \A i \in 1 .. Len(r) : r[i] = m[i + 1] /\ i + 1 \in 1 .. Len(m)
    BY Popped
  <1> HIDE DEF r
  <1>2. Arriving(r, items, there, q)
    BY <1>1 DEF Arriving
  <1> QED BY <1>2 DEF r

LEMMA StaysMore ==
    ASSUME NEW m, NEW items, NEW there, NEW q, NEW there2, NEW q2,
           Arriving(m, items, there, q),
           \A i \in Stored : Stays(i, there, q) => Stays(i, there2, q2)
    PROVE  Arriving(m, items, there2, q2)
  BY DEF Arriving

LEMMA NothingArrives ==
    ASSUME NEW m, NoStage(m), NEW items, NEW there, NEW q
    PROVE  Arriving(m, items, there, q)
  BY DEF NoStage, IsStage, Arriving

\* Of a write that is done, what it was to take off is posted or still there.
LEMMA FollowedOn ==
    ASSUME NEW m \in Seq(Tasks), NEW t \in Tasks, NEW there, NEW q, NEW i,
           Followed(i, m, there, q)
    PROVE  Followed(i, Append(m, t), there, q)
  <1> DEFINE a == Append(m, t)
  <1>1. /\ Len(a) = Len(m) + 1 /\ Len(m) \in Nat
        /\ \A k \in 1 .. Len(m) : a[k] = m[k]
    BY Appended
  <1> HIDE DEF a
  <1>2. Followed(i, a, there, q)
    BY <1>1 DEF Followed
  <1> QED BY <1>2 DEF a

LEMMA FollowedOff ==
    ASSUME NEW m \in Seq(Tasks), m # <<>>, NEW there, NEW q, NEW i,
           Followed(i, m, there, q), ~Takes(Head(m), i)
    PROVE  Followed(i, Tail(m), there, q)
  <1>0. PICK t : t = Head(m)
    OBVIOUS
  <1> DEFINE r == Tail(m)
  <1>1. /\ Len(r) = Len(m) - 1 /\ Len(m) \in Nat /\ t = m[1]
        /\ \A k \in 1 .. Len(r) : r[k] = m[k + 1]
    BY <1>0, Popped
  <1> HIDE DEF r
  <1>2. ASSUME NEW k \in 1 .. Len(m), Takes(m[k], i)
        PROVE  \E l \in 1 .. Len(r) : Takes(r[l], i)
    <2>1. k # 1
      BY <1>0, <1>1, <1>2
    <2>2. k - 1 \in 1 .. Len(r) /\ (k - 1) + 1 = k
      BY <1>1, <2>1
    <2>3. r[k - 1] = m[k]
      BY <1>1, <2>2
    <2> QED BY <1>2, <2>2, <2>3
  <1>3. Followed(i, r, there, q)
    BY <1>2 DEF Followed
  <1> QED BY <1>3 DEF r

-----------------------------------------------------------------------------
(* Writes come                                                              *)

\* New writes: additions of new items, or deletions of items in the sections
\* that take off what they delete.
LEMMA WritesCome ==
    ASSUME IInv, NEW b \in Seq(Writes), queue' = queue \o b, AddsNew(b, used'),
           used \subseteq used',
           \A n \in 1 .. Len(b) :
              b[n].item \in Stored => filtered # Empty /\ Takes(b[n].done, b[n].item),
           UNCHANGED <<server, menu, filtered, shown, main, queries, crashed, overlap>>,
           tangled => tangled'
    PROVE  queue' \in Seq(Writes) /\ Backed' /\ Loads' /\ Deleted'
  <1>1. PICK a : a = queue \o b
    OBVIOUS
  <1>2. /\ a \in Seq(Writes) /\ Len(a) = Len(queue) + Len(b)
        /\ Len(queue) \in Nat /\ Len(b) \in Nat
        /\ \A i \in 1 .. Len(queue) : a[i] = queue[i]
        /\ \A i \in 1 .. Len(queue) + Len(b) :
                 i \notin 1 .. Len(queue) =>
                    a[i] = b[i - Len(queue)] /\ i - Len(queue) \in 1 .. Len(b)
    BY <1>1, Joined DEF IInv, Typed
  <1>3. \A i \in 1 .. Len(a) :
            \/ i \in 1 .. Len(queue) /\ a[i] = queue[i]
            \/ \E k \in 1 .. Len(b) : a[i] = b[k]
    BY <1>2
  <1>4. Backed'
    BY DEF IInv, Backed, Loading
  <1>5. Loads'
    BY DEF IInv, Loads
  <1>6. AddsNew(a, used')
    BY <1>3 DEF AddsNew, IInv, Deleted
  <1>7. ASSUME ~overlap, ~crashed PROVE Arriving(main, menu, server, a)
    <2>0. Arriving(main, menu, server, queue)
      BY <1>7 DEF IInv, Deleted
    <2>1. CASE NoStage(main)
      BY <2>1, NothingArrives
    <2>2. CASE ~NoStage(main)
      <3>1. filtered = Empty
        BY <1>7, <2>2 DEF IInv, Loads, OneLoad
      <3>2. \A i \in Stored : Stays(i, server, queue) => Stays(i, server, a)
        BY <1>3, <3>1 DEF Stays
      <3> QED BY <2>0, <3>2, StaysMore
    <2> QED BY <2>1, <2>2
  <1>8. ASSUME ~overlap, ~tangled', ~crashed PROVE AllFollowed(main, server, a, filtered)
    <2>0. AllFollowed(main, server, queue, filtered)
      BY <1>8 DEF IInv, Deleted
    <2>1. ASSUME NEW i \in Stored, Listed(i, filtered) PROVE Followed(i, main, server, a)
      <3>1. Followed(i, main, server, queue)
        BY <2>0, <2>1 DEF AllFollowed
      <3>2. ASSUME NEW n \in 1 .. Len(a), a[n].item = i PROVE Takes(a[n].done, i)
        <4>1. CASE n \in 1 .. Len(queue) /\ a[n] = queue[n]
          BY <3>1, <3>2, <4>1 DEF Followed
        <4>2. CASE \E k \in 1 .. Len(b) : a[n] = b[k]
          BY <2>1, <3>2, <4>2
        <4> QED BY <1>3, <4>1, <4>2
      <3> QED BY <3>1, <3>2 DEF Followed
    <2> QED BY <2>1 DEF AllFollowed
  <1>9. Deleted'
    BY <1>1, <1>6, <1>7, <1>8 DEF Deleted
  <1> QED BY <1>1, <1>2, <1>4, <1>5, <1>9

LEMMA OneWrite ==
    ASSUME NEW q \in Seq(Writes), NEW w \in Writes
    PROVE  /\ Append(q, w) = q \o <<w>> /\ <<w>> \in Seq(Writes)
           /\ Len(<<w>>) = 1 /\ <<w>>[1] = w
  OBVIOUS

LEMMA AddFoodItemKeeps == ASSUME IInv, NEW i \in Items, AddFoodItem(i) PROVE IInv'
  <1>1. PICK w : w = [op |-> "add", item |-> i, done |-> Nothing]
    OBVIOUS
  <1>2. /\ queue' = Append(queue, w) /\ used' = used \cup {i} /\ i \notin used
        /\ UNCHANGED <<server, menu, filtered, shown, selected, ui, alert, main, queries,
                       crashed, overlap, tangled>>
    BY <1>1 DEF AddFoodItem, table, notes
  <1>3. /\ w \in Writes /\ ~IsRemoval(w.done) /\ w.item = i
    BY <1>1 DEF Writes, Dones, IsRemoval, Nothing
  <1>4. PICK b \in Seq(Writes) : queue' = queue \o b /\ Len(b) = 1 /\ b[1] = w
    BY <1>2, <1>3, OneWrite DEF IInv, Typed
  <1>5. i \notin Stored
    BY <1>2 DEF IInv, Typed
  <1>6. queue' \in Seq(Writes) /\ Backed' /\ Loads' /\ Deleted'
    <2>1. \A n \in 1 .. Len(b) : b[n] = w
      BY <1>4
    <2>2. AddsNew(b, used')
      BY <1>2, <1>3, <1>5, <2>1 DEF AddsNew
    <2> QED BY <1>2, <1>3, <1>4, <1>5, <2>1, <2>2, WritesCome
  <1>7. Outstanding'
    BY <1>2, <1>3, WriteOn DEF IInv, Typed, Outstanding
  <1>8. acts' \in 0 .. MaxActs
    BY MenuAssumption DEF AddFoodItem, Act, IInv, Typed
  <1>9. Typed'
    BY <1>2, <1>6, <1>8 DEF IInv, Typed, RowPaths
  <1> QED BY <1>6, <1>7, <1>9 DEF IInv

LEMMA ConfirmRowKeeps == ASSUME IInv, ConfirmRow PROVE IInv'
  <1>0. PICK path \in RowNumbers : path = alert.path
    BY DEF ConfirmRow, IInv, Typed, Questions, NoAlert
  <1>1. /\ ~crashed /\ alert' = NoAlert
        /\ UNCHANGED <<server, used, menu, filtered, shown, selected, ui, main, queries,
                       acts, overlap, tangled>>
    BY DEF ConfirmRow, table, notes
  <1>2. CASE InRange(path)
    <2>1. PICK item : item = filtered[path[1]][path[2]]
      OBVIOUS
    <2>2. PICK w : w = Delete(item, Reload)
      OBVIOUS
    <2>3. queue' = Append(queue, w) /\ crashed' = crashed
      BY <1>0, <1>2, <2>1, <2>2 DEF ConfirmRow
    <2>4. /\ path[1] \in Sections /\ path[2] \in 1 .. Len(filtered[path[1]])
          /\ filtered[path[1]] \in Seq(Items) /\ filtered # Empty
      <3>1. path[1] \in Sections /\ path[2] \in 1 .. Len(filtered[path[1]])
        BY <1>2 DEF RowNumbers, InRange
      <3> QED BY <3>1, EmptyRows DEF IInv, Typed, Rows
    <2>5. item \in Items
      BY <2>1, <2>4
    <2>6. /\ w \in Writes /\ ~IsRemoval(w.done) /\ w.op = "delete"
          /\ Takes(w.done, w.item)
      BY <2>2, <2>5 DEF Delete, Writes, Dones, IsRemoval, Reload, Takes
    <2>7. PICK b \in Seq(Writes) : queue' = queue \o b /\ Len(b) = 1 /\ b[1] = w
      BY <2>3, <2>6, OneWrite DEF IInv, Typed
    <2>8. queue' \in Seq(Writes) /\ Backed' /\ Loads' /\ Deleted'
      <3>1. \A n \in 1 .. Len(b) : b[n] = w
        BY <2>7
      <3>2. AddsNew(b, used')
        BY <2>6, <3>1 DEF AddsNew
      <3> QED BY <1>1, <2>3, <2>4, <2>6, <2>7, <3>1, <3>2, WritesCome
    <2>9. Outstanding'
      BY <1>1, <2>3, <2>6, WriteOn DEF IInv, Typed, Outstanding
    <2>10. Typed'
      BY <1>1, <2>3, <2>8 DEF IInv, Typed, RowPaths, Questions
    <2> QED BY <2>8, <2>9, <2>10 DEF IInv
  <1>3. CASE ~InRange(path)
    <2>1. UNCHANGED queue /\ crashed' = TRUE
      BY <1>0, <1>3 DEF ConfirmRow
    <2>2. Typed'
      BY <1>1, <2>1 DEF IInv, Typed, RowPaths, Questions
    <2> QED BY <1>1, <2>1, <2>2, Rests DEF IInv
  <1> QED BY <1>2, <1>3

\* The deletions of a selection, in their order.
Deletions(order, rows) ==
    [i \in 1 .. Len(order) |->
        LET p == order[i]
            item == rows[p[1]][p[2]]
        IN Delete(item, RemoveRow(p, item))]

LEMMA DeletionsAre ==
    ASSUME NEW rows \in Rows, NEW S \in SUBSET RowNumbers, NEW order \in Seq(S),
           \A p \in S : p[2] \in 1 .. Len(rows[p[1]]),
           \A i, j \in 1 .. Len(order) : i < j => Before(order[i], order[j]),
           NEW b, b = Deletions(order, rows)
    PROVE  /\ b \in Seq(Writes) /\ Len(b) = Len(order)
           /\ \A i \in 1 .. Len(b) :
                 b[i].op = "delete" /\ Names(b[i].done, rows) /\ Takes(b[i].done, b[i].item)
           /\ \A i, j \in 1 .. Len(b) : i < j => Before(b[i].done.path, b[j].done.path)
  <1>1. ASSUME NEW i \in 1 .. Len(order)
        PROVE  /\ b[i] \in Writes /\ b[i].op = "delete" /\ Names(b[i].done, rows)
               /\ Takes(b[i].done, b[i].item) /\ b[i].done.path = order[i]
    <2>1. PICK p \in S : p = order[i]
      OBVIOUS
    <2>2. PICK item : item = rows[p[1]][p[2]]
      OBVIOUS
    <2>3. PICK t : t = RemoveRow(p, item)
      OBVIOUS
    <2>4. b[i] = Delete(item, t)
      BY <2>1, <2>2, <2>3 DEF Deletions
    <2>5. p[1] \in Sections /\ p[2] \in 1 .. Len(rows[p[1]])
      BY DEF RowNumbers
    <2>6. item \in Items
      BY <2>2, <2>5 DEF Rows
    <2>7. /\ t \in Removings /\ t.path = p /\ t.item = item /\ IsRemoval(t)
      BY <2>3, <2>6 DEF RemoveRow, Removings, IsRemoval
    <2>8. Names(t, rows)
      BY <2>2, <2>5, <2>7 DEF Names
    <2>9. b[i] \in Writes /\ b[i].op = "delete" /\ b[i].item = item /\ b[i].done = t
      BY <2>4, <2>6, <2>7 DEF Delete, Writes, Dones
    <2> QED BY <2>1, <2>7, <2>8, <2>9 DEF Takes
  <1>2. PICK N \in Nat : N = Len(order)
    OBVIOUS
  <1>3. b \in [1 .. N -> Writes]
    <2>1. b = [i \in 1 .. N |-> b[i]]
      BY <1>2 DEF Deletions
    <2> QED BY <1>1, <1>2, <2>1
  <1>4. b \in Seq(Writes) /\ Len(b) = N
    BY <1>3
  <1>5. \A i, j \in 1 .. N : i < j => Before(b[i].done.path, b[j].done.path)
    BY <1>1, <1>2
  <1> QED BY <1>1, <1>2, <1>4, <1>5

LEMMA ConfirmSelectionKeeps == ASSUME IInv, ConfirmSelection PROVE IInv'
  <1>1. /\ ~crashed /\ alert' = NoAlert /\ selected' = {}
        /\ ui' = [ui EXCEPT !.buttons = FALSE, !.editing = @ /\ selected = {}]
        /\ UNCHANGED <<server, used, menu, filtered, shown, main, queries, acts, overlap>>
    BY DEF ConfirmSelection
  <1>2. ui' \in [form : BOOLEAN, editing : BOOLEAN, buttons : BOOLEAN]
    BY <1>1 DEF IInv, Typed
  <1>3. CASE ~(\A p \in selected : InRange(p))
    <2>1. UNCHANGED <<queue, tangled>> /\ crashed' = TRUE
      BY <1>3 DEF ConfirmSelection
    <2>2. Typed'
      BY <1>1, <1>2, <2>1 DEF IInv, Typed, RowPaths, Questions
    <2> QED BY <1>1, <2>1, <2>2, Rests DEF IInv
  <1>4. CASE \A p \in selected : InRange(p)
    <2>1. PICK order : order = DeletionOrder(selected)
      OBVIOUS
    <2>2. /\ selected \in SUBSET RowNumbers /\ IsFiniteSet(selected)
          /\ selected \in SUBSET (Sections \X Nat)
      <3>1. selected \subseteq RowPaths /\ shown \in Rows
        BY DEF IInv, Typed
      <3>2. RowPaths \subseteq RowNumbers /\ IsFiniteSet(RowPaths)
        BY <3>1, RowPathsAre
      <3> QED BY <3>1, <3>2, FS_Subset DEF RowNumbers
    <2>3. /\ order \in Seq(selected) /\ Len(order) = Cardinality(selected)
          /\ \A i, j \in 1 .. Len(order) : i < j => Before(order[i], order[j])
      BY <2>1, <2>2, DeletionOrdered
    <2>4. PICK b : b = Deletions(order, filtered)
      OBVIOUS
    <2>5. /\ queue' = queue \o b /\ UNCHANGED crashed
          /\ tangled' = (tangled \/ (selected # {} /\ Removals # {}))
      BY <1>4, <2>1, <2>4 DEF ConfirmSelection, Deletions
    <2>6. /\ b \in Seq(Writes) /\ Len(b) = Len(order)
          /\ \A i \in 1 .. Len(b) :
                b[i].op = "delete" /\ Names(b[i].done, filtered) /\ Takes(b[i].done, b[i].item)
          /\ \A i, j \in 1 .. Len(b) : i < j => Before(b[i].done.path, b[j].done.path)
      <3>1. filtered \in Rows
        BY DEF IInv, Typed
      <3>2. \A p \in selected : p[2] \in 1 .. Len(filtered[p[1]])
        BY <1>4 DEF InRange
      <3>3. PICK S : S = selected
        OBVIOUS
      <3> QED BY <2>2, <2>3, <2>4, <3>1, <3>2, <3>3, DeletionsAre
    <2>7. selected = {} => Len(b) = 0
      BY <2>3, <2>6, FS_EmptySet
    <2>8. selected # {} => filtered # Empty
      <3> SUFFICES ASSUME NEW p \in selected, filtered = Empty PROVE FALSE
        OBVIOUS
      <3>1. p[1] \in Sections /\ p[2] \in 1 .. Len(filtered[p[1]])
        BY <1>4, <2>2 DEF InRange, RowNumbers
      <3> QED BY <3>1, EmptyRows
    <2>9. queue' \in Seq(Writes) /\ Backed' /\ Loads' /\ Deleted'
      <3>1. AddsNew(b, used')
        BY <2>6 DEF AddsNew
      <3>2. \A n \in 1 .. Len(b) :
                b[n].item \in Stored => filtered # Empty /\ Takes(b[n].done, b[n].item)
        BY <2>6, <2>7, <2>8
      <3> QED BY <1>1, <2>5, <2>6, <3>1, <3>2, WritesCome
    <2>10. Outstanding'
      <3>1. CASE selected = {}
        <4>1. queue' = queue
          <5>1. b = <<>>
            BY <2>6, <2>7, <3>1
          <5> QED BY <2>5, <5>1 DEF IInv, Typed
        <4> QED BY <1>1, <2>5, <3>1, <4>1 DEF IInv, Outstanding
      <3>2. CASE selected # {}
        <4> SUFFICES ASSUME ~tangled'
                     PROVE  /\ InTurn(main, queue \o b)
                            /\ AllName(main, queue \o b, filtered)
          BY <1>1, <2>5 DEF Outstanding
        <4>1. NoRemoval(main, queue)
          BY <2>5, <3>2, RemovalsAre DEF IInv, Typed
        <4> QED BY <2>6, <4>1, RowsChosen DEF IInv, Typed
      <3> QED BY <3>1, <3>2
    <2>11. Typed'
      BY <1>1, <1>2, <2>5, <2>9 DEF IInv, Typed, RowPaths, Questions
    <2> QED BY <2>9, <2>10, <2>11 DEF IInv
  <1> QED BY <1>3, <1>4

-----------------------------------------------------------------------------
(* Writes are done                                                          *)

\* Whatever happens to the first write, the rest of the queue is fine.
LEMMA WriteGone ==
    ASSUME IInv, queue # <<>>
    PROVE  /\ Tail(queue) \in Seq(Writes) /\ Head(queue) \in Writes
           /\ AddsNew(Tail(queue), used)
           /\ \A i : Stays(i, server, queue) =>
                 i # Head(queue).item /\ Stays(i, server, Tail(queue))
           /\ \A i : Followed(i, main, server, queue) =>
                 /\ Followed(i, main, server, Tail(queue))
                 /\ i = Head(queue).item => Takes(Head(queue).done, i)
  <1>0. PICK w : w = Head(queue)
    OBVIOUS
  <1> DEFINE r == Tail(queue)
  <1>1. /\ Len(r) = Len(queue) - 1 /\ Len(queue) \in Nat /\ r \in Seq(Writes)
        /\ \A i \in 1 .. Len(r) : r[i] = queue[i + 1] /\ i + 1 \in 1 .. Len(queue)
        /\ 1 \in 1 .. Len(queue) /\ w = queue[1] /\ w \in Writes
    BY <1>0, Popped DEF IInv, Typed
  <1> HIDE DEF r
  <1>2. AddsNew(r, used)
    BY <1>1 DEF AddsNew, IInv, Deleted
  <1>3. ASSUME NEW i, Stays(i, server, queue)
        PROVE  i # w.item /\ Stays(i, server, r)
    BY <1>1, <1>3 DEF Stays
  <1>4. ASSUME NEW i, Followed(i, main, server, queue)
        PROVE  Followed(i, main, server, r) /\ (i = w.item => Takes(w.done, i))
    BY <1>1, <1>4 DEF Followed
  <1> QED BY <1>0, <1>1, <1>2, <1>3, <1>4 DEF r

LEMMA RefuseKeeps == ASSUME IInv, Refuse PROVE IInv'
  <1>1. /\ queue # <<>> /\ queue' = Tail(queue)
        /\ UNCHANGED <<server, used, menu, filtered, shown, selected, ui, alert, main,
                       queries, crashed, acts, overlap, tangled>>
    BY DEF Refuse, table, notes
  <1>2. Typed'
    BY <1>1, WriteGone DEF IInv, Typed, RowPaths
  <1>3. Backed' /\ Loads'
    BY <1>1 DEF IInv, Backed, Loading, Loads
  <1>4. Outstanding'
    BY <1>1, WriteOff DEF IInv, Typed, Outstanding
  <1>5. Deleted'
    <2>1. AddsNew(Tail(queue), used)
      BY <1>1, WriteGone
    <2>2. ASSUME Arriving(main, menu, server, queue)
          PROVE  Arriving(main, menu, server, Tail(queue))
      BY <1>1, <2>2, WriteGone, StaysMore
    <2>3. AllFollowed(main, server, queue, filtered)
              => AllFollowed(main, server, Tail(queue), filtered)
      BY <1>1, WriteGone DEF AllFollowed
    <2> QED BY <1>1, <2>1, <2>2, <2>3 DEF IInv, Deleted
  <1> QED BY <1>2, <1>3, <1>4, <1>5 DEF IInv

LEMMA CommitKeeps == ASSUME IInv, Commit PROVE IInv'
  <1>0. PICK w : w = Head(queue)
    OBVIOUS
  <1>1. /\ queue # <<>> /\ queue' = Tail(queue)
        /\ server' = IF w.op = "add" THEN server \cup {w.item} ELSE server \ {w.item}
        /\ main' = IF w.done = Nothing THEN main ELSE Append(main, w.done)
        /\ UNCHANGED <<used, menu, filtered, shown, selected, ui, alert,
                       queries, crashed, acts, overlap, tangled>>
    BY <1>0 DEF Commit, table, notes
  <1>2. /\ Tail(queue) \in Seq(Writes) /\ w \in Writes /\ AddsNew(Tail(queue), used)
        /\ \A i : Stays(i, server, queue) => i # w.item /\ Stays(i, server, Tail(queue))
        /\ \A i : Followed(i, main, server, queue) =>
                 /\ Followed(i, main, server, Tail(queue))
                 /\ i = w.item => Takes(w.done, i)
    BY <1>0, <1>1, WriteGone
  <1>3. PICK r : r = Tail(queue)
    OBVIOUS
  <1>4. \A i : Stays(i, server, queue) => Stays(i, server', r)
    BY <1>1, <1>2, <1>3 DEF Stays
  <1>5. server' \subseteq used' /\ used' \subseteq Items /\ Stored \subseteq used'
    <2>1. 1 \in 1 .. Len(queue) /\ w = queue[1]
      BY <1>0, <1>1, Popped DEF IInv, Typed
    <2>2. w.op = "add" => w.item \in used
      BY <2>1 DEF AddsNew, IInv, Deleted
    <2> QED BY <1>1, <2>2 DEF IInv, Typed
  <1>6. CASE w.done = Nothing
    <2>1. main' = main
      BY <1>1, <1>6
    <2>2. Typed'
      BY <1>1, <1>2, <1>5, <2>1 DEF IInv, Typed, RowPaths
    <2>3. Backed' /\ Loads'
      BY <1>1, <2>1 DEF IInv, Backed, Loading, Loads
    <2>4. Outstanding'
      BY <1>1, <2>1, WriteOff DEF IInv, Typed, Outstanding
    <2>5. Deleted'
      <3>1. ASSUME Arriving(main, menu, server, queue)
            PROVE  Arriving(main, menu, server', r)
        BY <1>4, <3>1, StaysMore
      <3>2. ASSUME AllFollowed(main, server, queue, filtered)
            PROVE  AllFollowed(main, server', r, filtered)
        <4> SUFFICES ASSUME NEW i \in Stored, Listed(i, filtered)
                     PROVE  Followed(i, main, server', r)
          BY DEF AllFollowed
        <4>1. Followed(i, main, server, r) /\ i # w.item
          BY <1>2, <1>3, <1>6, <3>2 DEF AllFollowed, Takes, Nothing, Reload, IsRemoval
        <4> QED BY <1>1, <4>1 DEF Followed
      <3> QED BY <1>1, <1>2, <1>3, <2>1, <3>1, <3>2 DEF IInv, Deleted
    <2> QED BY <2>2, <2>3, <2>4, <2>5 DEF IInv
  <1>7. CASE w.done # Nothing
    <2>0. PICK t : t = w.done
      OBVIOUS
    <2>1. t \in Tasks /\ ~IsStage(t) /\ main' = Append(main, t)
      <3>1. w.done \in Dones
        BY <1>2 DEF Writes
      <3> QED BY <1>1, <1>7, <2>0, <3>1, DoneKinds DEF IsStage
    <2>2. PICK a : a = Append(main, t)
      OBVIOUS
    <2>3. /\ a \in Seq(Tasks) /\ Len(a) = Len(main) + 1 /\ a[Len(main) + 1] = t
          /\ Len(main) \in Nat
      BY <2>1, <2>2, Appended DEF IInv, Typed
    <2>4. Typed'
      BY <1>1, <1>2, <1>5, <2>1, <2>2, <2>3 DEF IInv, Typed, RowPaths
    <2>5. /\ OneLoad(main, queries, filtered, menu) => OneLoad(a, queries, filtered, menu)
          /\ InPlace(main, filtered, menu) => InPlace(a, filtered, menu)
          /\ Arriving(main, menu, server', r) => Arriving(a, menu, server', r)
          /\ ~NoStage(main) => ~NoStage(a)
      BY <2>1, <2>2, TaskPosted DEF IInv, Typed
    <2>6. Backed'
      BY <1>1, <2>1, <2>2, <2>5, LoadingIs DEF IInv, Backed
    <2>7. Loads'
      BY <1>1, <2>1, <2>2, <2>5 DEF IInv, Loads
    <2>8. Outstanding'
      BY <1>0, <1>1, <2>0, <2>1, WriteDone DEF IInv, Typed, Outstanding
    <2>9. Deleted'
      <3>1. ASSUME Arriving(main, menu, server, queue)
            PROVE  Arriving(a, menu, server', r)
        BY <1>4, <2>5, <3>1, StaysMore
      <3>2. ASSUME AllFollowed(main, server, queue, filtered)
            PROVE  AllFollowed(a, server', r, filtered)
        <4> SUFFICES ASSUME NEW i \in Stored, Listed(i, filtered)
                     PROVE  Followed(i, a, server', r)
          BY DEF AllFollowed
        <4>1. Followed(i, main, server, r) /\ (i = w.item => Takes(t, i))
          BY <1>2, <1>3, <2>0, <3>2 DEF AllFollowed
        <4>2. Followed(i, a, server, r)
          BY <2>1, <2>2, <4>1, FollowedOn DEF IInv, Typed
        <4>3. i \in server' \/ \E n \in 1 .. Len(a) : Takes(a[n], i)
          <5>1. CASE i = w.item
            BY <2>3, <4>1, <5>1
          <5>2. CASE i # w.item
            BY <1>1, <4>2, <5>2 DEF Followed
          <5> QED BY <5>1, <5>2
        <4> QED BY <4>2, <4>3 DEF Followed
      <3> QED BY <1>1, <1>2, <1>3, <2>1, <2>2, <3>1, <3>2 DEF IInv, Deleted
    <2> QED BY <2>4, <2>6, <2>7, <2>8, <2>9 DEF IInv
  <1> QED BY <1>6, <1>7

-----------------------------------------------------------------------------
(* The main queue                                                           *)

\* An item of the start that getDocuments reports stays: no write on it waits.
LEMMA SeenStays ==
    ASSUME IInv, NEW i \in Stored, i \in Seen
    PROVE  Stays(i, server, queue)
  <1> DEFINE writes == {n \in DOMAIN queue : queue[n].item = i}
  <1>1. queue \in Seq(Writes) /\ Len(queue) \in Nat /\ DOMAIN queue = 1 .. Len(queue)
    BY DEF IInv, Typed
  <1>2. IF writes = {} THEN i \in server ELSE queue[Max(writes)].op = "add"
    BY DEF Seen
  <1>3. CASE writes = {}
    BY <1>1, <1>2, <1>3 DEF Stays
  <1>4. CASE writes # {}
    <2>1. writes \in SUBSET (1 .. Len(queue))
      BY <1>1
    <2> HIDE DEF writes
    <2>2. Max(writes) \in writes
      BY <1>1, <1>4, <2>1, MaxIsIn
    <2>3. PICK n : n = Max(writes)
      OBVIOUS
    <2>4. n \in 1 .. Len(queue) /\ queue[n].item = i /\ queue[n].op = "add"
      BY <1>1, <1>2, <1>4, <2>2, <2>3 DEF writes
    <2>5. i \notin Stored
      BY <2>4 DEF IInv, Deleted, AddsNew
    <2> QED BY <2>5
  <1> QED BY <1>3, <1>4

LEMMA QueryAnsweredKeeps == ASSUME IInv, QueryAnswered PROVE IInv'
  <1>1. /\ queries > 0 /\ queries' = queries - 1
        /\ UNCHANGED <<server, used, queue, menu, filtered, shown, selected, ui, alert,
                       crashed, acts, overlap, tangled>>
    BY DEF QueryAnswered, data, table, notes
  <1>2. PICK docs \in {<<>>, Among(DocOrder, Seen)} : main' = Append(main, Results(docs))
    BY DEF QueryAnswered
  <1>3. /\ docs \in Seq(Items) /\ InDocOrder(docs)
        /\ \A k \in 1 .. Len(docs) : docs[k] \in Seen
    <2>1. DocOrder \in Seq(Items)
      BY MenuAssumption
    <2>2. CASE docs = <<>>
      BY <2>2, DocOrderInOrder
    <2>3. CASE docs = Among(DocOrder, Seen)
      <3>1. /\ docs \in Seq(Items) /\ IsPart(docs, DocOrder)
            /\ \A k \in 1 .. Len(docs) : docs[k] \in Seen
        BY <2>1, <2>3, AmongIsPart
      <3>2. Len(docs) \in Nat /\ Len(DocOrder) \in Nat
        BY <2>1, <3>1
      <3> QED BY <3>1, <3>2, DocOrderInOrder, PartInOrder
    <2> QED BY <2>2, <2>3
  <1>4. PICK t : t = Results(docs)
    OBVIOUS
  <1>5. t \in Tasks /\ t.kind = "results" /\ t.docs = docs
    BY <1>3, <1>4 DEF Results, Tasks, Answers
  <1>6. PICK a : a = Append(main, t)
    OBVIOUS
  <1>7. /\ a \in Seq(Tasks) /\ Len(a) = Len(main) + 1 /\ a[Len(main) + 1] = t
        /\ \A i \in 1 .. Len(main) : a[i] = main[i]
        /\ Len(main) \in Nat /\ main' = a
    BY <1>2, <1>4, <1>5, <1>6, Appended DEF IInv, Typed
  <1>8. IsStage(t) /\ ~IsRemoval(t)
    BY <1>5 DEF IsStage, IsRemoval
  <1>9. Typed'
    BY <1>1, <1>7 DEF IInv, Typed, RowPaths
  <1>10. Backed'
    <2>1. ~NoStage(a)
      BY <1>7, <1>8 DEF NoStage
    <2>2. shown = filtered \/ filtered = Empty
      BY DEF IInv, Backed
    <2> QED BY <1>1, <1>7, <2>1, <2>2, LoadingIs DEF Backed
  <1>11. ASSUME ~overlap
         PROVE  /\ queries = 1 /\ NoStage(main) /\ menu = <<>> /\ filtered = Empty
    <2>1. OneLoad(main, queries, filtered, menu)
      BY <1>11 DEF IInv, Loads
    <2>2. queries = 1
      BY <1>1, <2>1 DEF OneLoad
    <2> QED BY <2>1, <2>2 DEF OneLoad
  <1>12. ASSUME ~overlap, NEW i \in 1 .. Len(a), IsStage(a[i])
         PROVE  i = Len(main) + 1 /\ a[i] = t
    BY <1>7, <1>11, <1>12 DEF NoStage
  <1>13. Loads'
    <2> SUFFICES ASSUME ~overlap
                 PROVE  OneLoad(a, 0, Empty, <<>>) /\ InPlace(a, Empty, <<>>)
      BY <1>1, <1>7, <1>11 DEF Loads
    <2>1. OneLoad(a, 0, Empty, <<>>)
      BY <1>12 DEF OneLoad
    <2>2. ASSUME NEW i \in 1 .. Len(a)
          PROVE  /\ a[i].kind = "results" => InDocOrder(a[i].docs)
                 /\ a[i].kind = "filter" => InDocOrder(<<>>)
      BY <1>3, <1>5, <1>12, DocOrderInOrder DEF IsStage
    <2>3. InPlace(a, Empty, <<>>)
      BY <2>2, EmptyRows DEF InPlace
    <2> QED BY <2>1, <2>3
  <1>14. Outstanding'
    BY <1>1, <1>5, <1>6, <1>7, <1>8, TaskOn DEF IInv, Typed, Outstanding
  <1>15. Deleted'
    <2>1. ASSUME ~overlap PROVE Arriving(a, menu, server, queue)
      <3>1. \A i \in 1 .. Len(a) : a[i].kind = "results" \/ a[i].kind = "filter" => a[i] = t
        BY <1>12, <2>1 DEF IsStage
      <3>2. \A k \in 1 .. Len(docs) :
                docs[k] \in Stored => Stays(docs[k], server, queue)
        BY <1>3, SeenStays
      <3> QED BY <1>5, <3>1, <3>2 DEF Arriving
    <2>2. AllFollowed(main, server, queue, filtered) => AllFollowed(a, server, queue, filtered)
      BY <1>5, <1>6, FollowedOn DEF AllFollowed, IInv, Typed
    <2> QED BY <1>1, <1>7, <2>1, <2>2 DEF IInv, Deleted
  <1> QED BY <1>9, <1>10, <1>13, <1>14, <1>15 DEF IInv

LEMMA RunQueryKeeps == ASSUME IInv, main # <<>>, RunQuery PROVE IInv'
  <1>1. /\ Head(main) = Query /\ main' = Tail(main) /\ queries' = queries + 1
        /\ UNCHANGED <<server, used, queue, menu, filtered, shown, selected, ui, alert,
                       crashed, acts, overlap, tangled>>
    BY DEF RunQuery, data, table, notes
  <1>2. PICK r \in Seq(Tasks) : r = Tail(main)
    BY Popped DEF IInv, Typed
  <1>3. Head(main).kind = "query" /\ IsStage(Head(main))
    BY <1>1, TaskKinds DEF IsStage
  <1>4. Typed'
    BY <1>1, <1>2 DEF IInv, Typed, RowPaths
  <1>5. Backed'
    <2>1. queries' > 0
      BY <1>1 DEF IInv, Typed
    <2>2. shown = filtered \/ filtered = Empty
      BY DEF IInv, Backed
    <2> QED BY <1>1, <2>1, <2>2, LoadingIs DEF Backed
  <1>6. ASSUME ~overlap
        PROVE  /\ queries = 0 /\ filtered = Empty /\ NoStage(r) /\ menu = <<>>
               /\ InPlace(r, filtered, menu)
    BY <1>1, <1>2, <1>3, <1>6, StagePopped DEF IInv, Typed, Loads
  <1>7. Loads'
    <2> SUFFICES ASSUME ~overlap
                 PROVE  OneLoad(r, 1, filtered, menu) /\ InPlace(r, filtered, menu)
      BY <1>1, <1>2, <1>6 DEF Loads
    <2> QED BY <1>6 DEF OneLoad, NoStage
  <1>8. Outstanding'
    BY <1>1, TaskOff DEF IInv, Typed, Outstanding
  <1>9. Deleted'
    <2>1. Arriving(main, menu, server, queue) => Arriving(r, menu, server, queue)
      BY <1>2, ArrivingPopped DEF IInv, Typed
    <2>2. \A i : ~Takes(Head(main), i)
      BY <1>3, TaskKinds DEF Takes, IsRemoval
    <2>3. AllFollowed(main, server, queue, filtered) => AllFollowed(r, server, queue, filtered)
      BY <1>2, <2>2, FollowedOff DEF AllFollowed, IInv, Typed
    <2> QED BY <1>1, <1>2, <2>1, <2>3 DEF IInv, Deleted
  <1> QED BY <1>4, <1>5, <1>7, <1>8, <1>9 DEF IInv

LEMMA RunResultsKeeps == ASSUME IInv, main # <<>>, RunResults PROVE IInv'
  <1>0. PICK t : t = Head(main)
    OBVIOUS
  <1>1. /\ t.kind = "results" /\ menu' = menu \o t.docs /\ main' = Append(Tail(main), Filter)
        /\ UNCHANGED <<server, used, queue, filtered, shown, selected, ui, alert,
                       queries, crashed, acts, overlap, tangled>>
    BY <1>0 DEF RunResults, data, notes
  <1>2. PICK r \in Seq(Tasks) : r = Tail(main)
    BY Popped DEF IInv, Typed
  <1>3. /\ t \in Tasks /\ main[1] = t /\ 1 \in 1 .. Len(main) /\ IsStage(t) /\ ~IsRemoval(t)
        /\ t.kind # "filter" /\ t # Reload
    BY <1>0, <1>1, Popped, TaskKinds DEF IInv, Typed, IsStage, IsRemoval
  <1>4. PICK docs \in Seq(Items) : docs = t.docs
    BY <1>1, <1>3, TaskKinds
  <1>5. Filter \in Tasks /\ IsStage(Filter) /\ ~IsRemoval(Filter) /\ Filter.kind = "filter"
    BY DEF Filter, Tasks, IsStage, IsRemoval
  <1>6. PICK a : a = Append(r, Filter)
    OBVIOUS
  <1>7. /\ a \in Seq(Tasks) /\ Len(a) = Len(r) + 1 /\ a[Len(r) + 1] = Filter
        /\ \A i \in 1 .. Len(r) : a[i] = r[i]
        /\ Len(r) \in Nat /\ main' = a
    BY <1>1, <1>2, <1>5, <1>6, Appended
  <1>8. Typed'
    <2>1. menu' \in Seq(Items)
      BY <1>1, <1>4, Joined DEF IInv, Typed
    <2> QED BY <1>1, <1>7, <2>1 DEF IInv, Typed, RowPaths
  <1>9. Backed'
    <2>1. ~NoStage(a)
      BY <1>5, <1>7 DEF NoStage
    <2>2. shown = filtered \/ filtered = Empty
      BY DEF IInv, Backed
    <2> QED BY <1>1, <1>7, <2>1, <2>2, LoadingIs DEF Backed
  <1>10. ASSUME ~overlap
         PROVE  /\ queries = 0 /\ filtered = Empty /\ NoStage(r) /\ menu' = docs
                /\ InDocOrder(docs)
    <2>1. OneLoad(main, queries, filtered, menu) /\ InPlace(main, filtered, menu)
      BY <1>10 DEF IInv, Loads
    <2>2. queries = 0 /\ filtered = Empty /\ NoStage(r) /\ menu = <<>>
      BY <1>0, <1>1, <1>2, <1>3, <2>1, StagePopped DEF IInv, Typed
    <2>3. InDocOrder(docs)
      BY <1>1, <1>3, <1>4, <2>1 DEF InPlace
    <2>4. menu' = docs
      BY <1>1, <1>4, <2>2
    <2> QED BY <2>2, <2>3, <2>4
  <1>11. ASSUME ~overlap, NEW i \in 1 .. Len(a), IsStage(a[i])
         PROVE  i = Len(r) + 1 /\ a[i] = Filter
    BY <1>7, <1>10, <1>11 DEF NoStage
  <1>12. Loads'
    <2> SUFFICES ASSUME ~overlap
                 PROVE  OneLoad(a, 0, Empty, docs) /\ InPlace(a, Empty, docs)
      BY <1>1, <1>7, <1>10 DEF Loads
    <2>1. \A i \in 1 .. Len(a) : a[i].kind # "query" /\ a[i].kind # "results"
      BY <1>5, <1>11 DEF IsStage
    <2>2. OneLoad(a, 0, Empty, docs)
      BY <1>11, <2>1 DEF OneLoad
    <2>3. InPlace(a, Empty, docs)
      BY <1>10, <2>1, EmptyRows DEF InPlace
    <2> QED BY <2>2, <2>3
  <1>13. Outstanding'
    <2>1. /\ InTurn(main, queue) => InTurn(r, queue)
          /\ AllName(main, queue, filtered) => AllName(r, queue, filtered)
      BY <1>2, TaskOff DEF IInv, Typed
    <2>2. /\ InTurn(r, queue) => InTurn(a, queue)
          /\ AllName(r, queue, filtered) => AllName(a, queue, filtered)
      BY <1>5, <1>6, TaskOn
    <2> QED BY <1>1, <1>7, <2>1, <2>2 DEF IInv, Outstanding
  <1>14. Deleted'
    <2>1. ASSUME ~overlap, ~crashed PROVE Arriving(a, docs, server, queue)
      <3>1. Arriving(main, menu, server, queue)
        BY <2>1 DEF IInv, Deleted
      <3>2. \A k \in 1 .. Len(docs) : docs[k] \in Stored => Stays(docs[k], server, queue)
        BY <1>1, <1>3, <1>4, <3>1 DEF Arriving
      <3>3. \A i \in 1 .. Len(a) : a[i].kind # "results"
        BY <1>5, <1>11, <2>1 DEF IsStage
      <3> QED BY <3>2, <3>3 DEF Arriving
    <2>2. \A i : ~Takes(t, i)
      BY <1>3 DEF Takes
    <2>3. AllFollowed(main, server, queue, filtered) => AllFollowed(r, server, queue, filtered)
      BY <1>0, <1>2, <2>2, FollowedOff DEF AllFollowed, IInv, Typed
    <2>4. AllFollowed(r, server, queue, filtered) => AllFollowed(a, server, queue, filtered)
      BY <1>5, <1>6, FollowedOn DEF AllFollowed
    <2> QED BY <1>1, <1>7, <1>10, <2>1, <2>3, <2>4 DEF IInv, Deleted
  <1> QED BY <1>8, <1>9, <1>12, <1>13, <1>14 DEF IInv

\* filteritems: each section gets a part of the menu.
LEMMA FilteritemsAre ==
    ASSUME menu \in Seq(Items)
    PROVE  /\ Filteritems \in Rows
           /\ \A s \in Sections :
                 /\ InDocOrder(menu) => InDocOrder(Filteritems[s])
                 /\ \A i \in 1 .. Len(Filteritems[s]) :
                       /\ Category[Filteritems[s][i]] = s
                       /\ \E k \in 1 .. Len(menu) : menu[k] = Filteritems[s][i]
  <1>1. ASSUME NEW s \in Sections
        PROVE  /\ Filteritems[s] \in Seq(Items)
               /\ InDocOrder(menu) => InDocOrder(Filteritems[s])
               /\ \A i \in 1 .. Len(Filteritems[s]) :
                     /\ Category[Filteritems[s][i]] = s
                     /\ \E k \in 1 .. Len(menu) : menu[k] = Filteritems[s][i]
    <2>1. PICK S : S = {i \in Items : Category[i] = s}
      OBVIOUS
    <2>2. PICK t : t = Among(menu, S)
      OBVIOUS
    <2>3. Filteritems[s] = t
      BY <2>1, <2>2 DEF Filteritems
    <2>4. /\ t \in Seq(Items) /\ IsPart(t, menu)
          /\ \A i \in 1 .. Len(t) : t[i] \in S /\ \E k \in 1 .. Len(menu) : menu[k] = t[i]
      BY <2>2, AmongIsPart
    <2>5. InDocOrder(menu) => InDocOrder(t)
      <3>1. Len(t) \in Nat /\ Len(menu) \in Nat
        BY <2>4
      <3> QED BY <2>4, <3>1, PartInOrder
    <2> QED BY <2>1, <2>3, <2>4, <2>5
  <1>2. Filteritems = [s \in Sections |-> Filteritems[s]]
    BY DEF Filteritems
  <1>3. Filteritems \in Rows
    <2> DEFINE f == Filteritems
    <2>1. f = [s \in Sections |-> f[s]] /\ \A s \in Sections : f[s] \in Seq(Items)
      BY <1>1, <1>2
    <2> HIDE DEF f
    <2>2. f \in [Sections -> Seq(Items)]
      BY <2>1
    <2> QED BY <2>2 DEF f, Rows
  <1> QED BY <1>1, <1>3

LEMMA RunFilterKeeps == ASSUME IInv, main # <<>>, RunFilter PROVE IInv'
  <1>0. PICK rows : rows = Filteritems
    OBVIOUS
  <1>1. /\ Head(main) = Filter /\ main' = Tail(main) /\ filtered' = rows /\ shown' = rows
        /\ selected' = {} /\ tangled' = (tangled \/ Removals # {})
        /\ UNCHANGED <<server, used, queue, menu, ui, alert, queries, crashed, acts,
                       overlap>>
    BY <1>0 DEF RunFilter, data
  <1>2. PICK r \in Seq(Tasks) : r = Tail(main)
    BY Popped DEF IInv, Typed
  <1>3. IsStage(Head(main)) /\ main[1].kind = "filter" /\ 1 \in 1 .. Len(main)
    BY <1>1, Popped, TaskKinds DEF IsStage, IInv, Typed
  <1>4. /\ rows \in Rows
        /\ \A s \in Sections :
              /\ InDocOrder(menu) => InDocOrder(rows[s])
              /\ \A i \in 1 .. Len(rows[s]) :
                    /\ Category[rows[s][i]] = s
                    /\ \E k \in 1 .. Len(menu) : menu[k] = rows[s][i]
    BY <1>0, FilteritemsAre DEF IInv, Typed
  <1>5. Typed'
    BY <1>1, <1>2, <1>4 DEF IInv, Typed
  <1>6. Backed'
    BY <1>1 DEF Backed
  <1>7. ASSUME ~overlap
        PROVE  queries = 0 /\ NoStage(r) /\ InDocOrder(menu)
    <2>1. OneLoad(main, queries, filtered, menu) /\ InPlace(main, filtered, menu)
      BY <1>7 DEF IInv, Loads
    <2>2. queries = 0 /\ NoStage(r)
      BY <1>2, <1>3, <2>1, StagePopped DEF IInv, Typed
    <2> QED BY <1>3, <2>1, <2>2 DEF InPlace
  <1>8. Loads'
    <2> SUFFICES ASSUME ~overlap PROVE OneLoad(r, 0, rows, menu) /\ InPlace(r, rows, menu)
      BY <1>1, <1>2, <1>7 DEF Loads
    <2>1. NoStage(r)
      BY <1>7
    <2>2. OneLoad(r, 0, rows, menu)
      BY <2>1 DEF OneLoad, NoStage, IsStage
    <2>3. InPlace(r, rows, menu)
      BY <1>4, <1>7, <2>1 DEF InPlace, NoStage, IsStage
    <2> QED BY <2>2, <2>3
  <1>9. Outstanding'
    <2> SUFFICES ASSUME ~tangled' PROVE InTurn(r, queue) /\ AllName(r, queue, rows)
      BY <1>1, <1>2 DEF Outstanding
    <2>1. NoRemoval(main, queue)
      BY <1>1, RemovalsAre DEF IInv, Typed
    <2>2. \A i \in 1 .. Len(r) : r[i] = main[i + 1] /\ i + 1 \in 1 .. Len(main)
      BY <1>2, Popped DEF IInv, Typed
    <2>3. NoRemoval(r, queue)
      BY <2>1, <2>2 DEF NoRemoval
    <2> QED BY <2>3, NothingToName
  <1>10. Deleted'
    <2>1. ~overlap => Arriving(r, menu, server, queue)
      BY <1>7, NothingArrives
    <2>2. ASSUME ~overlap, ~crashed PROVE AllFollowed(r, server, queue, rows)
      <3>1. Arriving(main, menu, server, queue)
        BY <2>2 DEF IInv, Deleted
      <3>2. \A k \in 1 .. Len(menu) : menu[k] \in Stored => Stays(menu[k], server, queue)
        BY <1>3, <3>1 DEF Arriving
      <3>3. ASSUME NEW i \in Stored, Listed(i, rows) PROVE Followed(i, r, server, queue)
        <4>1. PICK s \in Sections : \E n \in 1 .. Len(rows[s]) : rows[s][n] = i
          BY <3>3 DEF Listed
        <4>2. PICK k \in 1 .. Len(menu) : menu[k] = i
          BY <1>4, <4>1
        <4>3. Stays(i, server, queue)
          BY <3>2, <4>2
        <4> QED BY <4>3 DEF Stays, Followed
      <3> QED BY <3>3 DEF AllFollowed
    <2> QED BY <1>1, <1>2, <2>1, <2>2 DEF IInv, Deleted
  <1> QED BY <1>5, <1>6, <1>8, <1>9, <1>10 DEF IInv

LEMMA RunReloadKeeps == ASSUME IInv, main # <<>>, RunReload PROVE IInv'
  <1>1. /\ LoadMenu(Tail(main))
        /\ UNCHANGED <<server, used, queue, ui, alert, queries, crashed, acts>>
    BY DEF RunReload, data
  <1>2. PICK r \in Seq(Tasks) : r = Tail(main)
    BY Popped DEF IInv, Typed
  <1>3. \A i \in 1 .. Len(r) : \E j \in 1 .. Len(main) : r[i] = main[j]
    BY <1>2, Popped DEF IInv, Typed
  <1>4. /\ menu' \in Seq(Items) /\ filtered' \in Rows /\ main' \in Seq(Tasks)
        /\ overlap' \in BOOLEAN /\ tangled' \in BOOLEAN
        /\ UNCHANGED <<shown, selected>>
        /\ Backed' /\ Loads' /\ Outstanding' /\ Deleted'
    BY <1>1, <1>2, <1>3, LoadStarts
  <1>5. Typed'
    BY <1>1, <1>4 DEF IInv, Typed, RowPaths
  <1> QED BY <1>4, <1>5 DEF IInv

LEMMA RunRemoveKeeps == ASSUME IInv, main # <<>>, ~crashed, RunRemove PROVE IInv'
  <1>0. PICK t : t = Head(main)
    OBVIOUS
  <1>1. /\ IsRemoval(t) /\ main' = Tail(main)
        /\ UNCHANGED <<server, used, queue, menu, ui, alert, queries, acts, overlap,
                       tangled>>
    BY <1>0 DEF RunRemove, IsRemoval, data, notes
  <1>2. PICK r \in Seq(Tasks) : r = Tail(main)
    BY Popped DEF IInv, Typed
  <1>3. /\ t \in Removings /\ t.path[1] \in Sections /\ t.path[2] \in Nat
        /\ ~IsStage(t) /\ t # Reload
    BY <1>0, <1>1, Popped, TaskKinds DEF IInv, Typed, IsStage, IsRemoval
  <1>4. PICK rows : rows = RowOut(filtered, t.path)
    OBVIOUS
  <1>5. CASE ~InRange(t.path)
    <2>1. crashed' = TRUE /\ UNCHANGED <<filtered, shown, selected>>
      BY <1>0, <1>5 DEF RunRemove
    <2>2. Typed'
      BY <1>1, <1>2, <2>1 DEF IInv, Typed, RowPaths
    <2>3. ~NoStage(main) => ~NoStage(r)
      BY <1>0, <1>2, <1>3, StagePopped DEF IInv, Typed
    <2>4. Backed'
      BY <1>1, <1>2, <2>1, <2>3, LoadingIs DEF IInv, Backed
    <2>5. Loads'
      BY <1>0, <1>1, <1>2, <1>3, <2>1, StagePopped DEF IInv, Typed, Loads
    <2> QED BY <1>1, <2>1, <2>2, <2>4, <2>5 DEF IInv, Outstanding, Deleted
  <1>6. CASE InRange(t.path)
    <2>1. /\ filtered' = rows /\ shown' = rows /\ selected' = {} /\ UNCHANGED crashed
      BY <1>0, <1>4, <1>6 DEF RunRemove, RowOut
    <2>2. filtered \in Rows /\ filtered # Empty
      BY <1>3, <1>6, EmptyRows DEF IInv, Typed, InRange
    <2>3. rows \in Rows
      <3>1. PICK c \in Sections, k \in Nat : c = t.path[1] /\ k = t.path[2]
        BY <1>3
      <3>2. filtered[c] \in Seq(Items) /\ k \in 1 .. Len(filtered[c])
        BY <1>6, <2>2, <3>1 DEF Rows, InRange
      <3>3. RemoveAt(filtered[c], k) \in Seq(Items)
        BY <3>2, RemoveAtIsPart
      <3>4. rows = [filtered EXCEPT ![c] = RemoveAt(@, k)]
        BY <1>4, <3>1 DEF RowOut
      <3> QED BY <2>2, <3>3, <3>4 DEF Rows
    <2>4. Typed'
      BY <1>1, <1>2, <2>1, <2>3 DEF IInv, Typed
    <2>5. Backed'
      BY <2>1 DEF Backed
    <2>6. ASSUME ~tangled
          PROVE  Names(t, filtered) /\ AllName(r, queue, rows)
      <3>1. InTurn(main, queue) /\ AllName(main, queue, filtered)
        BY <2>6 DEF IInv, Outstanding
      <3> QED BY <1>0, <1>1, <1>2, <1>4, <2>2, <3>1, RowRemoved DEF IInv, Typed
    <2>7. Loads'
      <3> SUFFICES ASSUME ~overlap
                   PROVE  OneLoad(r, queries, rows, menu) /\ InPlace(r, rows, menu)
        BY <1>1, <1>2, <2>1 DEF Loads
      <3>1. OneLoad(main, queries, filtered, menu) /\ InPlace(main, filtered, menu)
        BY DEF IInv, Loads
      <3>2. OneLoad(r, queries, filtered, menu) /\ InPlace(r, filtered, menu)
        BY <1>0, <1>2, <1>3, <3>1, StagePopped DEF IInv, Typed
      <3>3. OneLoad(r, queries, rows, menu)
        BY <2>2, <3>2 DEF OneLoad
      <3>4. PICK u : u = [t EXCEPT !.item = filtered[t.path[1]][t.path[2]]]
        OBVIOUS
      <3>5. u \in Removings /\ Names(u, filtered) /\ u.path = t.path
        <4>1. filtered[t.path[1]][t.path[2]] \in Items
          BY <1>3, <1>6, <2>2 DEF InRange, Rows
        <4>2. u.path = t.path /\ u.item = filtered[t.path[1]][t.path[2]] /\ u \in Removings
          BY <1>3, <3>4, <4>1 DEF Removings
        <4> QED BY <1>6, <4>2 DEF InRange, Names
      <3>6. InPlace(r, rows, menu)
        BY <1>4, <2>2, <3>2, <3>5, NotListedAgain
      <3> QED BY <3>3, <3>6
    <2>8. Outstanding'
      <3>1. InTurn(main, queue) => InTurn(r, queue)
        BY <1>2, TaskOff DEF IInv, Typed
      <3> QED BY <1>1, <1>2, <2>1, <2>6, <3>1 DEF IInv, Outstanding
    <2>9. Deleted'
      <3>1. Arriving(main, menu, server, queue) => Arriving(r, menu, server, queue)
        BY <1>2, ArrivingPopped DEF IInv, Typed
      <3>2. ASSUME ~overlap, ~tangled PROVE AllFollowed(r, server, queue, rows)
        <4>1. AllFollowed(main, server, queue, filtered)
          BY <3>2 DEF IInv, Deleted
        <4>2. /\ ~Listed(t.item, rows)
              /\ \A i : Listed(i, rows) => Listed(i, filtered)
          BY <1>3, <1>4, <2>2, <2>6, <3>2, NotListedAgain DEF IInv, Loads
        <4>3. ASSUME NEW i \in Stored, Listed(i, rows) PROVE Followed(i, r, server, queue)
          <5>1. Followed(i, main, server, queue) /\ i # t.item
            BY <4>1, <4>2, <4>3 DEF AllFollowed
          <5>2. ~Takes(t, i)
            BY <1>3, <5>1 DEF Takes
          <5> QED BY <1>0, <1>2, <5>1, <5>2, FollowedOff DEF IInv, Typed
        <4> QED BY <4>3 DEF AllFollowed
      <3> QED BY <1>1, <1>2, <2>1, <3>1, <3>2 DEF IInv, Deleted
    <2> QED BY <2>4, <2>5, <2>7, <2>8, <2>9 DEF IInv
  <1> QED BY <1>5, <1>6

LEMMA RestartKeeps == ASSUME IInv, Restart PROVE IInv'
  <1>0. PICK q : q = [i \in 1 .. Len(queue) |-> [queue[i] EXCEPT !.done = Nothing]]
    OBVIOUS
  <1>1. /\ queue' = q /\ crashed' = FALSE /\ menu' = <<>> /\ filtered' = Empty
        /\ shown' = Empty /\ selected' = {} /\ alert' = NoAlert
        /\ ui' = [form |-> TRUE, editing |-> FALSE, buttons |-> FALSE]
        /\ main' = <<Query>> /\ queries' = 0 /\ overlap' = FALSE /\ tangled' = FALSE
        /\ UNCHANGED <<server, used>>
    BY <1>0 DEF Restart
  <1>2. PICK m : m = <<Query>>
    OBVIOUS
  <1>3. /\ m \in Seq(Tasks) /\ Len(m) = 1 /\ m[1] = Query /\ main' = m
        /\ Query.kind = "query"
    BY <1>1, <1>2, TaskKinds DEF Tasks
  <1>4. /\ Len(q) = Len(queue) /\ q \in Seq(Writes)
        /\ \A i \in 1 .. Len(q) :
              q[i].done = Nothing /\ q[i].op = queue[i].op /\ q[i].item = queue[i].item
    <2>1. queue \in Seq(Writes) /\ Len(queue) \in Nat
      BY DEF IInv, Typed
    <2>2. ASSUME NEW i \in 1 .. Len(queue)
          PROVE  /\ q[i] \in Writes
                 /\ q[i].done = Nothing /\ q[i].op = queue[i].op /\ q[i].item = queue[i].item
      <3>1. PICK w \in Writes : w = queue[i]
        BY <2>1
      <3>2. q[i] = [w EXCEPT !.done = Nothing]
        BY <1>0, <3>1
      <3> QED BY <3>1, <3>2 DEF Writes, Dones
    <2>3. q \in [1 .. Len(queue) -> Writes]
      BY <1>0, <2>2
    <2>4. q \in Seq(Writes) /\ Len(q) = Len(queue)
      BY <2>1, <2>3
    <2> QED BY <2>2, <2>4
  <1>5. Typed'
    <2>1. acts' \in 0 .. MaxActs
      BY MenuAssumption DEF Restart, Act, IInv, Typed
    <2>2. queue' \in Seq(Writes) /\ menu' \in Seq(Items) /\ main' \in Seq(Tasks)
      <3>1. queue' = q /\ main' = m /\ menu' = <<>>
        BY <1>1, <1>3
      <3> QED BY <1>3, <1>4, <3>1
    <2>3. filtered' \in Rows /\ shown' \in Rows /\ (selected \subseteq RowPaths)'
      BY <1>1, EmptyRows
    <2>4. alert' \in Questions /\ queries' \in Nat
          /\ ui' \in [form : BOOLEAN, editing : BOOLEAN, buttons : BOOLEAN]
      BY <1>1 DEF Questions
    <2> QED BY <1>1, <2>1, <2>2, <2>3, <2>4 DEF IInv, Typed
  <1>6. Backed'
    BY <1>1 DEF Backed
  <1>7. Loads'
    <2>1. OneLoad(m, 0, Empty, <<>>)
      BY <1>3 DEF OneLoad
    <2>2. InPlace(m, Empty, <<>>)
      BY <1>3, EmptyRows DEF InPlace
    <2> QED BY <1>1, <1>3, <2>1, <2>2 DEF Loads
  <1>8. Outstanding'
    <2>1. NoRemoval(m, q)
      BY <1>3, <1>4, TaskKinds DEF NoRemoval, IsRemoval
    <2> QED BY <1>1, <1>3, <2>1, NothingToName DEF Outstanding
  <1>9. Deleted'
    <2>1. AddsNew(q, used)
      BY <1>4 DEF AddsNew, IInv, Deleted
    <2>2. Arriving(m, <<>>, server, q)
      BY <1>3 DEF Arriving
    <2>3. AllFollowed(m, server, q, Empty)
      BY EmptyRows DEF AllFollowed
    <2> QED BY <1>1, <1>3, <2>1, <2>2, <2>3 DEF Deleted
  <1> QED BY <1>5, <1>6, <1>7, <1>8, <1>9 DEF IInv

-----------------------------------------------------------------------------

LEMMA NextKeeps == IInv /\ [Next]_vars => IInv'
  <1> SUFFICES ASSUME IInv, [Next]_vars PROVE IInv'
    OBVIOUS
  <1>1. CASE EditButton
    BY <1>1, EditButtonKeeps
  <1>2. CASE AddButton \/ FoodEditButton \/ CancelButton \/ CancelAlert
    BY <1>2, ScreenKeeps
  <1>3. CASE ConfirmRow
    BY <1>3, ConfirmRowKeeps
  <1>4. CASE ConfirmSelection
    BY <1>4, ConfirmSelectionKeeps
  <1>5. CASE Commit
    BY <1>5, CommitKeeps
  <1>6. CASE Refuse
    BY <1>6, RefuseKeeps
  <1>7. CASE QueryAnswered
    BY <1>7, QueryAnsweredKeeps
  <1>8. CASE RunMain
    BY <1>8, RunQueryKeeps, RunResultsKeeps, RunFilterKeeps, RunReloadKeeps, RunRemoveKeeps
       DEF RunMain
  <1>9. CASE Restart
    BY <1>9, RestartKeeps
  <1>10. CASE \E i \in Items : AddFoodItem(i)
    BY <1>10, AddFoodItemKeeps
  <1>11. CASE \E p \in RowPaths : SwipeRow(p) \/ ScrollTo(p)
    BY <1>11, SwipeRowKeeps, ScrollToKeeps
  <1>12. CASE \E k \in 0 .. MaxSelected : \E paths \in kSubset(k, RowPaths) :
                  DeleteButton(paths)
    <2>1. PICK paths \in SUBSET RowPaths : DeleteButton(paths)
      BY <1>12 DEF kSubset
    <2> QED BY <2>1, DeleteButtonKeeps
  <1>13. CASE UNCHANGED vars
    BY <1>13, StutterKeeps
  <1> QED BY <1>1, <1>2, <1>3, <1>4, <1>5, <1>6, <1>7, <1>8, <1>9, <1>10, <1>11,
             <1>12, <1>13 DEF Next

LEMMA Invariance == Spec => []IInv
  <1>1. Init => IInv
    BY InitHolds
  <1> QED BY <1>1, NextKeeps, PTL DEF Spec

-----------------------------------------------------------------------------

\* Every variable keeps its type: no selection is beyond the rows of the table,
\* and only items that were added are in the collection, over loads that
\* overlap, refusals and restarts.
THEOREM TypeCorrect == Spec => []TypeOK
  <1>1. IInv => TypeOK
    <2> SUFFICES ASSUME IInv PROVE TypeOK
      OBVIOUS
    <2>1. \A w \in Range(queue) : w.op \in {"add", "delete"} /\ w.item \in Items
      <3>1. Range(queue) = {queue[i] : i \in 1 .. Len(queue)} /\ queue \in Seq(Writes)
        BY DEF Range, IInv, Typed
      <3>2. \A i \in 1 .. Len(queue) : queue[i] \in Writes
        BY <3>1
      <3> QED BY <3>1, <3>2 DEF Writes
    <2>2. alert.kind \in {"none", "row", "rows"}
      BY DEF IInv, Typed, Questions, NoAlert
    <2> QED BY <2>1, <2>2 DEF IInv, Typed, Rows, TypeOK
  <1> QED BY <1>1, Invariance, PTL

\* What the administrator sees is the menu: sections in order, outside a load a
\* row for each item of the data, and in the end no row of an item that is gone.
THEOREM TableShowsTheMenu == Spec => []TableShowsMenu
  <1>1. IInv => TableShowsMenu
    <2> SUFFICES ASSUME IInv PROVE TableShowsMenu
      OBVIOUS
    <2>1. SectionsOrdered
      BY DEF SectionsOrdered, IInv, Loads, InPlace, InDocOrder
    <2>2. RowsBackedByData
      BY DEF RowsBackedByData, IInv, Backed
    <2>3. NoDeletedRowLeft
      <3> SUFFICES ASSUME main = <<>>, queries = 0, ~crashed, ~overlap, ~tangled,
                          NEW s \in Sections, NEW i \in Range(shown[s]), i \in Stored
                   PROVE  i \in server
        BY DEF NoDeletedRowLeft
      <3>1. Len(main) = 0 /\ ~Loading
        BY DEF Loading
      <3>2. shown = filtered
        BY <3>1 DEF IInv, Backed
      <3>3. \E n \in 1 .. Len(filtered[s]) : filtered[s][n] = i
        <4>1. filtered[s] \in Seq(Items)
          BY DEF IInv, Typed, Rows
        <4> QED BY <3>2, <4>1 DEF Range
      <3>4. Followed(i, main, server, queue)
        BY <3>3 DEF IInv, Deleted, AllFollowed, Listed
      <3> QED BY <3>1, <3>4 DEF Followed
    <2> QED BY <2>1, <2>2, <2>3 DEF TableShowsMenu
  <1> QED BY <1>1, Invariance, PTL

\* The index each outstanding removal took at the start of a deletion is, until
\* it runs, that of the row of its item, though other rows are removed before
\* it and the server may refuse any deletion.
THEOREM RemovalsNameRows == Spec => []RemovalsNameTheirRow
  <1>1. IInv => RemovalsNameTheirRow
    <2> SUFFICES ASSUME IInv, ~tangled, ~crashed, NEW t \in Removals
                 PROVE  InRange(t.path) /\ filtered[t.path[1]][t.path[2]] = t.item
      BY DEF RemovalsNameTheirRow
    <2>1. AllName(main, queue, filtered)
      BY DEF IInv, Outstanding
    <2>2. Names(t, filtered)
      BY <2>1, RemovalsAre DEF IInv, Typed, AllName
    <2> QED BY <2>2 DEF Names, InRange
  <1> QED BY <1>1, Invariance, PTL

\* A confirmed swipe deletes the item the table shows at the remembered path,
\* whatever was loaded or removed under the question.
THEOREM ConfirmedRowsDeleted == Spec => ConfirmedRowDeleted
  <1> DEFINE A == alert.kind = "row" /\ alert' = NoAlert /\ Len(queue') > Len(queue) =>
                      Last(queue').item = shown[alert.path[1]][alert.path[2]]
  <1>1. IInv /\ [Next]_vars => [A]_vars
    <2> SUFFICES ASSUME IInv, Next, alert.kind = "row", alert' = NoAlert,
                        Len(queue') > Len(queue)
                 PROVE  Last(queue').item = shown[alert.path[1]][alert.path[2]]
      OBVIOUS
    <2>0. queue \in Seq(Writes) /\ Len(queue) \in Nat
      BY DEF IInv, Typed
    <2>1. queue' # queue /\ Len(queue') # Len(queue)
      BY <2>0
    <2>2. ConfirmRow
      <3>1. alert # NoAlert
        BY DEF NoAlert
      <3>2. ~Commit /\ ~Refuse
        BY <3>1 DEF Commit, Refuse, NoAlert
      <3>3. ~Restart
        <4> SUFFICES ASSUME Restart PROVE FALSE
          OBVIOUS
        <4>1. Len(queue') = Len(queue)
          BY <2>0 DEF Restart
        <4> QED BY <2>1, <4>1
      <3>4. ~ConfirmSelection /\ ~(\E i \in Items : AddFoodItem(i))
        BY <3>1 DEF ConfirmSelection, AddFoodItem, Ready
      <3>5. ~EditButton /\ ~AddButton /\ ~FoodEditButton /\ ~CancelButton /\ ~CancelAlert
        BY <2>1 DEF EditButton, AddButton, FoodEditButton, CancelButton, CancelAlert, data
      <3>6. ~QueryAnswered /\ ~RunMain
        BY <2>1 DEF QueryAnswered, RunMain, RunQuery, RunResults, RunFilter, RunReload,
                    RunRemove, data
      <3>7. ~(\E p \in RowPaths : SwipeRow(p) \/ ScrollTo(p))
        BY <2>1 DEF SwipeRow, ScrollTo, data
      <3>8. ~(\E k \in 0 .. MaxSelected : \E paths \in kSubset(k, RowPaths) :
                  DeleteButton(paths))
        BY <2>1 DEF DeleteButton, data
      <3> QED BY <3>2, <3>3, <3>4, <3>5, <3>6, <3>7, <3>8 DEF Next
    <2>3. PICK path \in RowNumbers : path = alert.path
      BY DEF IInv, Typed, Questions, NoAlert
    <2>4. InRange(path) /\ shown = filtered
      <3>1. InRange(path)
        BY <2>1, <2>2, <2>3 DEF ConfirmRow
      <3>2. path[1] \in Sections /\ path[2] \in 1 .. Len(filtered[path[1]])
        BY <3>1 DEF InRange, RowNumbers
      <3>3. filtered # Empty
        BY <3>2, EmptyRows
      <3> QED BY <3>1, <3>3 DEF IInv, Backed
    <2>5. PICK item : item = filtered[path[1]][path[2]]
      OBVIOUS
    <2>6. item \in Items
      <3>1. path[1] \in Sections /\ filtered[path[1]] \in Seq(Items)
        BY DEF RowNumbers, IInv, Typed, Rows
      <3> QED BY <2>4, <2>5, <3>1 DEF InRange
    <2>7. PICK w : w = Delete(item, Reload)
      OBVIOUS
    <2>8. w \in Writes /\ w.item = item
      BY <2>6, <2>7 DEF Delete, Writes, Dones
    <2>9. queue' = Append(queue, w)
      BY <2>2, <2>3, <2>4, <2>5, <2>7 DEF ConfirmRow
    <2>10. Last(Append(queue, w)) = w
      BY <2>0, <2>8, Appended DEF Last
    <2> QED BY <2>3, <2>4, <2>5, <2>8, <2>9, <2>10
  <1> QED BY <1>1, Invariance, PTL DEF Spec, ConfirmedRowDeleted

=============================================================================
