-------------------------- MODULE EventsAdminProofs --------------------------
(***************************************************************************)
(* Types of EventsAdmin; an undisturbed day's event keeps its image; rows  *)
(* are sorted and deleting them deletes the events shown in them; and only *)
(* a half finished load can crash a deletion: for any number of events,    *)
(* days and rows.                                                          *)
(***************************************************************************)
EXTENDS EventsAdmin, FiniteSetTheorems, SequenceTheorems, TLAPS

-----------------------------------------------------------------------------
(* Finite sets in order                                                     *)

\* R, a set of pairs, orders S strictly and totally.
Orders(R, S) ==
    /\ \A x \in S : <<x, x>> \notin R
    /\ \A x, y \in S : x # y => <<x, y>> \in R \/ <<y, x>> \in R
    /\ \A x, y, z \in S : <<x, y>> \in R /\ <<y, z>> \in R => <<x, z>> \in R

Below(x, R, S) == {y \in S : <<y, x>> \in R}

LEMMA BelowGrows ==
    ASSUME NEW S, IsFiniteSet(S), NEW R, Orders(R, S),
           NEW x \in S, NEW y \in S, <<x, y>> \in R
    PROVE  /\ Cardinality(Below(x, R, S)) \in Nat
           /\ Cardinality(Below(y, R, S)) \in Nat
           /\ Cardinality(Below(x, R, S)) < Cardinality(Below(y, R, S))
  <1>1. IsFiniteSet(Below(y, R, S))
    BY FS_Subset DEF Below
  <1>2. Below(x, R, S) \subseteq Below(y, R, S)
    BY DEF Below, Orders
  <1>3. x \in Below(y, R, S) /\ x \notin Below(x, R, S)
    BY DEF Below, Orders
  <1>4. /\ IsFiniteSet(Below(x, R, S))
        /\ Cardinality(Below(x, R, S)) <= Cardinality(Below(y, R, S))
        /\ Cardinality(Below(x, R, S)) # Cardinality(Below(y, R, S))
    BY <1>1, <1>2, <1>3, FS_Subset
  <1>5. /\ Cardinality(Below(x, R, S)) \in Nat
        /\ Cardinality(Below(y, R, S)) \in Nat
    BY <1>1, <1>4, FS_CardinalityType
  <1> QED BY <1>4, <1>5

\* The numbers of elements below are those from 0 up, each taken once.
LEMMA Ranks ==
    ASSUME NEW S, IsFiniteSet(S), NEW R, Orders(R, S)
    PROVE  /\ Cardinality(S) \in Nat
           /\ \A n \in 1 .. Cardinality(S) :
                 \E x \in S : Cardinality(Below(x, R, S)) = n - 1
           /\ \A x \in S : Cardinality(Below(x, R, S)) + 1 \in 1 .. Cardinality(S)
  <1> DEFINE N == Cardinality(S)
             rank == [x \in S |-> Cardinality(Below(x, R, S)) + 1]
  <1>1. N \in Nat
    BY FS_CardinalityType
  <1>2. \A x \in S : Cardinality(Below(x, R, S)) + 1 \in 1 .. N
    <2> SUFFICES ASSUME NEW x \in S
                 PROVE  Cardinality(Below(x, R, S)) + 1 \in 1 .. N
      OBVIOUS
    <2>1. Below(x, R, S) \in SUBSET S /\ Below(x, R, S) # S
      BY DEF Below, Orders
    <2>2. /\ IsFiniteSet(Below(x, R, S))
          /\ Cardinality(Below(x, R, S)) <= N /\ Cardinality(Below(x, R, S)) # N
      BY <2>1, FS_Subset
    <2>3. Cardinality(Below(x, R, S)) \in Nat
      BY <2>2, FS_CardinalityType
    <2> QED BY <1>1, <2>2, <2>3
  <1>3. rank \in Injection(S, 1 .. N)
    <2>1. rank \in [S -> 1 .. N]
      BY <1>2
    <2>2. \A x, y \in S : rank[x] = rank[y] => x = y
      <3> SUFFICES ASSUME NEW x \in S, NEW y \in S, rank[x] = rank[y], x # y
                   PROVE  FALSE
        OBVIOUS
      <3>1. <<x, y>> \in R \/ <<y, x>> \in R
        BY DEF Orders
      <3>2. CASE <<x, y>> \in R
        BY <3>2, BelowGrows
      <3>3. CASE <<y, x>> \in R
        BY <3>3, BelowGrows
      <3> QED BY <3>1, <3>2, <3>3
    <2> QED BY <2>1, <2>2 DEF Injection, IsInjective
  <1>4. IsFiniteSet(1 .. N) /\ Cardinality(1 .. N) = N
    <2>1. /\ IsFiniteSet(1 .. N)
          /\ Cardinality(1 .. N) = IF 1 > N THEN 0 ELSE N - 1 + 1
      BY <1>1, FS_Interval
    <2> QED BY <1>1, <2>1
  <1>5. rank \in Surjection(S, 1 .. N)
    BY <1>3, <1>4, FS_Injection
  <1>6. \A n \in 1 .. N : \E x \in S : rank[x] = n
    BY <1>5 DEF Surjection
  <1>7. \A n \in 1 .. N : \E x \in S : Cardinality(Below(x, R, S)) = n - 1
    <2> SUFFICES ASSUME NEW n \in 1 .. N
                 PROVE  \E x \in S : Cardinality(Below(x, R, S)) = n - 1
      OBVIOUS
    <2>1. PICK x \in S : Cardinality(Below(x, R, S)) + 1 = n
      BY <1>6
    <2>2. Cardinality(Below(x, R, S)) \in Nat
      <3>1. IsFiniteSet(Below(x, R, S))
        BY FS_Subset DEF Below
      <3> QED BY <3>1, FS_CardinalityType
    <2> QED BY <2>1, <2>2
  <1> QED BY <1>1, <1>2, <1>7

\* Listing the elements by the number of those below lists each once, in order.
LEMMA Ordered ==
    ASSUME NEW S, IsFiniteSet(S), NEW R, Orders(R, S),
           NEW f \in [1 .. Cardinality(S) -> S],
           \A n \in 1 .. Cardinality(S) : Cardinality(Below(f[n], R, S)) = n - 1
    PROVE  /\ \A i, j \in 1 .. Cardinality(S) : i < j => <<f[i], f[j]>> \in R
           /\ f \in Surjection(1 .. Cardinality(S), S)
  <1> DEFINE N == Cardinality(S)
  <1>1. N \in Nat
    BY Ranks
  <1>2. \A n \in 1 .. N : f[n] \in S /\ Cardinality(Below(f[n], R, S)) = n - 1
    OBVIOUS
  <1>3. \A i, j \in 1 .. N : i < j => <<f[i], f[j]>> \in R
    <2> SUFFICES ASSUME NEW i \in 1 .. N, NEW j \in 1 .. N, i < j
                 PROVE  <<f[i], f[j]>> \in R
      OBVIOUS
    <2>1. f[i] # f[j]
      BY <1>1, <1>2
    <2>2. CASE <<f[j], f[i]>> \in R
      <3>1. Cardinality(Below(f[j], R, S)) < Cardinality(Below(f[i], R, S))
        BY <1>2, <2>2, BelowGrows
      <3> QED BY <1>1, <1>2, <3>1
    <2> QED BY <1>2, <2>1, <2>2 DEF Orders
  <1>4. \A x \in S : \E i \in 1 .. N : f[i] = x
    <2> SUFFICES ASSUME NEW x \in S
                 PROVE  \E i \in 1 .. N : f[i] = x
      OBVIOUS
    <2>1. PICK i \in 1 .. N : Cardinality(Below(x, R, S)) + 1 = i
      BY Ranks
    <2>2. f[i] \in S /\ Cardinality(Below(f[i], R, S)) + 1 = i
      BY <1>1, <1>2
    <2>3. CASE x # f[i]
      <3>1. <<x, f[i]>> \in R \/ <<f[i], x>> \in R
        BY <2>2, <2>3 DEF Orders
      <3>2. CASE <<x, f[i]>> \in R
        BY <2>1, <2>2, <3>2, BelowGrows
      <3>3. CASE <<f[i], x>> \in R
        BY <2>1, <2>2, <3>3, BelowGrows
      <3> QED BY <3>1, <3>2, <3>3
    <2> QED BY <2>1, <2>3
  <1>5. f \in Surjection(1 .. N, S)
    BY <1>4 DEF Surjection
  <1> QED BY <1>3, <1>5

\* Induction: a set of numbers up to n that holds 0 and with each its successor
\* holds them all; the least one missing would have its predecessor in it.
LEMMA UpTo ==
    ASSUME NEW n \in Nat, NEW T, 0 \in T,
           \A k \in 0 .. n - 1 : k \in T => k + 1 \in T
    PROVE  \A k \in 0 .. n : k \in T
  <1> DEFINE U == {k \in 0 .. n : k \notin T}
             R == {p \in U \X U : p[1] < p[2]}
  <1>1. IsFiniteSet(U)
    <2>1. IsFiniteSet(0 .. n)
      BY FS_Interval
    <2> QED BY <2>1, FS_Subset
  <1>2. Orders(R, U)
    BY DEF Orders
  <1>3. ASSUME U # {} PROVE FALSE
    <2>1. Cardinality(U) \in Nat /\ Cardinality(U) # 0
      BY <1>1, <1>3, FS_CardinalityType, FS_EmptySet
    <2>2. PICK m \in U : Cardinality(Below(m, R, U)) = 0
      <3>1. 1 \in 1 .. Cardinality(U) /\ 1 - 1 = 0
        BY <2>1
      <3> HIDE DEF U, R
      <3> QED BY <1>1, <1>2, <3>1, Ranks
    <2>3. Below(m, R, U) = {}
      <3>1. IsFiniteSet(Below(m, R, U))
        BY <1>1, FS_Subset DEF Below
      <3> QED BY <2>2, <3>1, FS_EmptySet
    <2>4. m \in 0 .. n /\ m # 0 /\ m \notin T
      OBVIOUS
    <2>5. m - 1 \in T
      <3>1. <<m - 1, m>> \notin R
        BY <2>3, <2>4 DEF Below
      <3> QED BY <2>4, <3>1
    <2> QED BY <2>4, <2>5
  <1> QED BY <1>3

\* The greatest of some indices.
LEMMA MaxIsIn ==
    ASSUME NEW n \in Nat, NEW S \in SUBSET (1 .. n), S # {}
    PROVE  Max(S) \in S /\ \A i \in S : i <= Max(S)
  <1> DEFINE R == {p \in S \X S : p[1] > p[2]}
  <1>1. IsFiniteSet(S)
    <2>1. IsFiniteSet(1 .. n)
      BY FS_Interval
    <2> QED BY <2>1, FS_Subset
  <1>2. Orders(R, S)
    BY DEF Orders
  <1>3. PICK m \in S : Cardinality(Below(m, R, S)) = 0
    <2>1. Cardinality(S) \in Nat /\ Cardinality(S) # 0
      BY <1>1, FS_CardinalityType, FS_EmptySet
    <2>2. 1 \in 1 .. Cardinality(S) /\ 1 - 1 = 0
      BY <2>1
    <2> HIDE DEF R
    <2> QED BY <1>1, <1>2, <2>2, Ranks
  <1>4. Below(m, R, S) = {}
    <2>1. IsFiniteSet(Below(m, R, S))
      BY <1>1, FS_Subset DEF Below
    <2> QED BY <1>3, <2>1, FS_EmptySet
  <1>5. \A y \in S : m >= y
    <2> SUFFICES ASSUME NEW y \in S, ~(m >= y) PROVE FALSE
      OBVIOUS
    <2>1. <<y, m>> \in R
      OBVIOUS
    <2> QED BY <1>4, <2>1 DEF Below
  <1> QED BY <1>5 DEF Max

\* The sets the screen lists in order: of numbers, upwards and downwards.
LEMMA AscendingLists ==
    ASSUME NEW S \in SUBSET Nat, IsFiniteSet(S)
    PROVE  Ascending(S) \in Seq(S)
  <1> DEFINE R == {p \in S \X S : p[1] < p[2]}
  <1>1. Orders(R, S)
    BY DEF Orders
  <1>2. \A x \in S : {y \in S : y < x} = Below(x, R, S)
    BY DEF Below
  <1>3. /\ Cardinality(S) \in Nat
        /\ \A n \in 1 .. Cardinality(S) :
              \E x \in S : Cardinality(Below(x, R, S)) = n - 1
    <2> HIDE DEF R
    <2> QED BY <1>1, Ranks
  <1>4. \A n \in 1 .. Cardinality(S) : \E x \in S : Cardinality({y \in S : y < x}) = n - 1
    BY <1>2, <1>3
  <1>5. Ascending(S) = [n \in 1 .. Cardinality(S) |->
                CHOOSE x \in S : Cardinality({y \in S : y < x}) = n - 1]
    BY DEF Ascending, InOrder
  <1>6. \A n \in 1 .. Cardinality(S) : Ascending(S)[n] \in S
    BY <1>4, <1>5
  <1>7. Ascending(S) \in [1 .. Cardinality(S) -> S]
    BY <1>5, <1>6
  <1> QED BY <1>3, <1>7

LEMMA DescendingLists ==
    ASSUME NEW n \in Nat, NEW S \in SUBSET (1 .. n)
    PROVE  /\ Descending(S) \in Seq(S)
           /\ \A i, j \in 1 .. Len(Descending(S)) :
                 i < j => Descending(S)[i] > Descending(S)[j]
           /\ \A x \in S : \E i \in 1 .. Len(Descending(S)) : Descending(S)[i] = x
  <1> DEFINE R == {p \in S \X S : p[1] > p[2]}
             N == Cardinality(S)
  <1>1. IsFiniteSet(S)
    <2>1. IsFiniteSet(1 .. n)
      BY FS_Interval
    <2> QED BY <2>1, FS_Subset
  <1>2. Orders(R, S)
    BY DEF Orders
  <1>3. \A x \in S : {y \in S : y > x} = Below(x, R, S)
    BY DEF Below
  <1>4. /\ N \in Nat
        /\ \A k \in 1 .. N : \E x \in S : Cardinality(Below(x, R, S)) = k - 1
    <2> HIDE DEF R
    <2> QED BY <1>1, <1>2, Ranks
  <1>5. \A k \in 1 .. N : \E x \in S : Cardinality({y \in S : y > x}) = k - 1
    BY <1>3, <1>4
  <1>6. Descending(S) = [k \in 1 .. N |->
                CHOOSE x \in S : Cardinality({y \in S : y > x}) = k - 1]
    BY DEF Descending, InOrder
  <1>7. \A k \in 1 .. N : /\ Descending(S)[k] \in S
                          /\ Cardinality({y \in S : y > Descending(S)[k]}) = k - 1
    BY <1>5, <1>6
  <1>8. \A k \in 1 .. N : Cardinality(Below(Descending(S)[k], R, S)) = k - 1
    BY <1>3, <1>7
  <1>9. Descending(S) \in [1 .. N -> S]
    BY <1>6, <1>7
  <1>10. /\ \A i, j \in 1 .. N : i < j => <<Descending(S)[i], Descending(S)[j]>> \in R
         /\ \A x \in S : \E i \in 1 .. N : Descending(S)[i] = x
    <2> DEFINE f == Descending(S)
    <2>1. /\ f \in [1 .. Cardinality(S) -> S]
          /\ \A k \in 1 .. Cardinality(S) : Cardinality(Below(f[k], R, S)) = k - 1
      BY <1>8, <1>9
    <2> HIDE DEF f, R
    <2>2. \A i, j \in 1 .. Cardinality(S) : i < j => <<f[i], f[j]>> \in R
      BY <1>1, <1>2, <2>1, Ordered
    <2>3. f \in Surjection(1 .. Cardinality(S), S)
      BY <1>1, <1>2, <2>1, Ordered
    <2>4. \A x \in S : \E i \in 1 .. Cardinality(S) : f[i] = x
      BY <2>3 DEF Surjection
    <2> QED BY <2>2, <2>4 DEF f
  <1>11. Descending(S) \in Seq(S) /\ Len(Descending(S)) = N
    BY <1>4, <1>9
  <1>12. \A i, j \in 1 .. N : i < j => Descending(S)[i] > Descending(S)[j]
    BY <1>10
  <1> QED BY <1>10, <1>11, <1>12

-----------------------------------------------------------------------------
(* Sorting the list and deleting rows of it                                 *)

Ascends(s) == \A i, j \in 1 .. Len(s) : i < j => s[i] <= s[j]

LEMMA DatesOrdered ==
    /\ \A d \in Dates : d \in Int
    /\ \A s \in Seq(Dates) : \A i \in 1 .. Len(s) : s[i] \in Dates /\ s[i] \in Int
  <1>1. \A d \in Dates : d \in Int
    BY EventsAssumption
  <1>2. \A s \in Seq(Dates) : \A i \in 1 .. Len(s) : s[i] \in Dates
    OBVIOUS
  <1>3. \A s \in Seq(Dates) : \A i \in 1 .. Len(s) : s[i] \in Int
    BY <1>1, <1>2, Zenon
  <1> QED BY <1>1, <1>2, <1>3

LEMMA SortedLists ==
    ASSUME NEW s \in Seq(Dates)
    PROVE  Sorted(s) \in Seq(Dates) /\ Len(Sorted(s)) = Len(s) /\ Ascends(Sorted(s))
  <1> DEFINE S == DOMAIN s
             R == {p \in S \X S : s[p[1]] < s[p[2]] \/ (s[p[1]] = s[p[2]] /\ p[1] < p[2])}
             order == InOrder(S, LAMBDA i, j : s[i] < s[j] \/ (s[i] = s[j] /\ i < j))
  <1>1. /\ Len(s) \in Nat /\ S = 1 .. Len(s)
        /\ \A i \in S : s[i] \in Int /\ s[i] \in Dates
    BY DatesOrdered
  <1>2. IsFiniteSet(S) /\ Cardinality(S) = Len(s)
    <2>1. /\ IsFiniteSet(1 .. Len(s))
          /\ Cardinality(1 .. Len(s)) = IF 1 > Len(s) THEN 0 ELSE Len(s) - 1 + 1
      BY <1>1, FS_Interval
    <2> QED BY <1>1, <2>1
  <1>3. Orders(R, S)
    BY <1>1 DEF Orders
  <1>4. \A x \in S : {y \in S : s[y] < s[x] \/ (s[y] = s[x] /\ y < x)} = Below(x, R, S)
    BY DEF Below
  <1>5. \A n \in 1 .. Len(s) : \E x \in S : Cardinality(Below(x, R, S)) = n - 1
    <2> HIDE DEF R, S
    <2> QED BY <1>2, <1>3, Ranks
  <1>6. \A n \in 1 .. Len(s) :
           \E x \in S : Cardinality({y \in S : s[y] < s[x] \/ (s[y] = s[x] /\ y < x)}) = n - 1
    BY <1>4, <1>5
  <1>7. order = [n \in 1 .. Len(s) |->
                    CHOOSE x \in S :
                       Cardinality({y \in S : s[y] < s[x] \/ (s[y] = s[x] /\ y < x)}) = n - 1]
    <2>1. order = [n \in 1 .. Cardinality(S) |->
                    CHOOSE x \in S :
                       Cardinality({y \in S : s[y] < s[x] \/ (s[y] = s[x] /\ y < x)}) = n - 1]
      BY DEF InOrder
    <2> QED BY <1>2, <2>1
  <1>8. Sorted(s) = [n \in DOMAIN s |-> s[order[n]]]
    BY DEF Sorted
  <1> HIDE DEF order
  <1>9. \A n \in 1 .. Len(s) :
           /\ order[n] \in S
           /\ Cardinality({y \in S : s[y] < s[order[n]]
                                     \/ (s[y] = s[order[n]] /\ y < order[n])}) = n - 1
    BY <1>6, <1>7
  <1>10. \A n \in 1 .. Len(s) : Cardinality(Below(order[n], R, S)) = n - 1
    BY <1>4, <1>9
  <1>11. order \in [1 .. Cardinality(S) -> S]
    BY <1>2, <1>7, <1>9
  <1>12. \A i, j \in 1 .. Len(s) : i < j => <<order[i], order[j]>> \in R
    <2> HIDE DEF R, S
    <2> QED BY <1>2, <1>3, <1>10, <1>11, Ordered
  <1>13. \A i, j \in 1 .. Len(s) : i < j => s[order[i]] <= s[order[j]]
    <2> SUFFICES ASSUME NEW i \in 1 .. Len(s), NEW j \in 1 .. Len(s), i < j
                 PROVE  s[order[i]] <= s[order[j]]
      OBVIOUS
    <2>1. order[i] \in S /\ order[j] \in S /\ <<order[i], order[j]>> \in R
      BY <1>9, <1>12
    <2> HIDE DEF S
    <2>2. s[order[i]] < s[order[j]] \/ s[order[i]] = s[order[j]]
      BY <2>1
    <2> QED BY <1>1, <2>1, <2>2
  <1>14. Sorted(s) \in [1 .. Len(s) -> Dates]
    BY <1>1, <1>8, <1>9
  <1>15. Sorted(s) \in Seq(Dates) /\ Len(Sorted(s)) = Len(s)
    BY <1>1, <1>14
  <1>16. \A n \in 1 .. Len(s) : Sorted(s)[n] = s[order[n]]
    BY <1>1, <1>8
  <1> HIDE DEF R, S
  <1> QED BY <1>13, <1>15, <1>16 DEF Ascends

\* The list without row i.
LEMMA OneRowLess ==
    ASSUME NEW s \in Seq(Dates), NEW i \in 1 .. Len(s)
    PROVE  /\ RemoveAt(s, i) \in Seq(Dates)
           /\ Len(RemoveAt(s, i)) = Len(s) - 1
           /\ \A j \in 1 .. Len(s) - 1 :
                 RemoveAt(s, i)[j] = IF j < i THEN s[j] ELSE s[j + 1]
           /\ Ascends(s) => Ascends(RemoveAt(s, i))
  <1>1. RemoveAt(s, i) = SubSeq(s, 1, i - 1) \o SubSeq(s, i + 1, Len(s))
    BY DEF RemoveAt
  <1>2. /\ SubSeq(s, 1, i - 1) \in Seq(Dates) /\ Len(SubSeq(s, 1, i - 1)) = i - 1
        /\ \A j \in 1 .. i - 1 : SubSeq(s, 1, i - 1)[j] = s[j]
    OBVIOUS
  <1>3. /\ SubSeq(s, i + 1, Len(s)) \in Seq(Dates)
        /\ Len(SubSeq(s, i + 1, Len(s))) = Len(s) - i
        /\ \A j \in 1 .. Len(s) - i : SubSeq(s, i + 1, Len(s))[j] = s[j + i]
    OBVIOUS
  <1> DEFINE a == SubSeq(s, 1, i - 1)
             b == SubSeq(s, i + 1, Len(s))
  <1>4. /\ a \o b \in Seq(Dates) /\ Len(a \o b) = Len(s) - 1
        /\ \A j \in 1 .. Len(s) - 1 : (a \o b)[j] = IF j < i THEN s[j] ELSE s[j + 1]
    <2> HIDE DEF a, b
    <2>1. /\ a \o b \in Seq(Dates) /\ Len(a \o b) = Len(a) + Len(b)
          /\ \A j \in 1 .. Len(a) + Len(b) :
                (a \o b)[j] = IF j <= Len(a) THEN a[j] ELSE b[j - Len(a)]
      BY <1>2, <1>3, ConcatProperties DEF a, b
    <2>2. Len(a) = i - 1 /\ Len(b) = Len(s) - i /\ Len(s) \in Nat
      BY <1>2, <1>3 DEF a, b
    <2>3. \A j \in 1 .. i - 1 : (a \o b)[j] = s[j]
      BY <1>2, <2>1, <2>2 DEF a
    <2>4. ASSUME NEW j \in i .. Len(s) - 1 PROVE (a \o b)[j] = s[j + 1]
      <3>1. (a \o b)[j] = b[j - (i - 1)]
        BY <2>1, <2>2
      <3>2. j - (i - 1) \in 1 .. Len(s) - i /\ j - (i - 1) + i = j + 1
        BY <2>2
      <3>3. b[j - (i - 1)] = s[j - (i - 1) + i]
        BY <1>3, <3>2 DEF b
      <3> QED BY <3>1, <3>2, <3>3
    <2> QED BY <2>1, <2>2, <2>3, <2>4
  <1>5. /\ RemoveAt(s, i) \in Seq(Dates) /\ Len(RemoveAt(s, i)) = Len(s) - 1
        /\ \A j \in 1 .. Len(s) - 1 :
                 RemoveAt(s, i)[j] = IF j < i THEN s[j] ELSE s[j + 1]
    BY <1>1, <1>4
  <1> HIDE DEF a, b
  <1>6. ASSUME Ascends(s) PROVE Ascends(RemoveAt(s, i))
    <2> SUFFICES ASSUME NEW j \in 1 .. Len(s) - 1, NEW k \in 1 .. Len(s) - 1, j < k
                 PROVE  RemoveAt(s, i)[j] <= RemoveAt(s, i)[k]
      BY <1>5 DEF Ascends
    <2>1. \A m \in 1 .. Len(s) : s[m] \in Int
      BY DatesOrdered
    <2>2. \A m, n \in 1 .. Len(s) : m < n => s[m] <= s[n]
      BY <1>6 DEF Ascends
    <2>3. /\ RemoveAt(s, i)[j] = IF j < i THEN s[j] ELSE s[j + 1]
          /\ RemoveAt(s, i)[k] = IF k < i THEN s[k] ELSE s[k + 1]
      BY <1>5
    <2>4. CASE k < i
      BY <2>2, <2>3, <2>4
    <2>5. CASE j < i /\ ~(k < i)
      BY <2>2, <2>3, <2>5
    <2>6. CASE ~(j < i)
      BY <2>2, <2>3, <2>6
    <2> QED BY <2>4, <2>5, <2>6
  <1> QED BY <1>5, <1>6

\* Greatest row first, every row is where it was when its turn comes: no index
\* is beyond the list, the dates deleted are those in the rows, and what is
\* left is in the order it had.
LEMMA DeletionTakesRows ==
    ASSUME list \in Seq(Dates), NEW rows \in SUBSET (1 .. Len(list))
    PROVE  /\ Deletion(rows).list \in Seq(Dates)
           /\ Deletion(rows).dates \in Seq(Dates)
           /\ Deletion(rows).trap = FALSE
           /\ Range(Deletion(rows).dates) = {list[i] : i \in rows}
           /\ Ascends(list) => Ascends(Deletion(rows).list)
  <1> DEFINE order == DeletionOrder(rows)
             N == Len(order)
             start == [list |-> list, dates |-> <<>>, trap |-> FALSE]
             remove(r, i) ==
                IF i > Len(r.list) THEN [r EXCEPT !.trap = TRUE]
                ELSE [r EXCEPT !.list = RemoveAt(@, i), !.dates = Append(@, r.list[i])]
             step(f, n) == IF n = 0 THEN start ELSE remove(f[n - 1], order[n])
             done == CHOOSE f : f = [n \in 0 .. N |-> step(f, n)]
             States == [list : Seq(Dates), dates : Seq(Dates), trap : {FALSE}]
             Good(n, r) ==
                /\ r \in States
                /\ Len(r.list) = Len(list) - n /\ Len(r.dates) = n
                /\ n = 0 => r.list = list
                /\ n > 0 => order[n] <= Len(r.list) + 1
                            /\ \A j \in 1 .. order[n] - 1 : r.list[j] = list[j]
                /\ \A k \in 1 .. n : r.dates[k] = list[order[k]]
                /\ Ascends(list) => Ascends(r.list)
  <1>1. /\ order \in [1 .. N -> rows] /\ N \in Nat
        /\ \A i, j \in 1 .. N : i < j => order[i] > order[j]
        /\ \A x \in rows : \E i \in 1 .. N : order[i] = x
    <2>1. Len(list) \in Nat
      OBVIOUS
    <2>2. order = Descending(rows)
      BY DEF DeletionOrder
    <2> HIDE DEF order
    <2>3. /\ Descending(rows) \in Seq(rows)
          /\ \A i, j \in 1 .. Len(Descending(rows)) :
                 i < j => Descending(rows)[i] > Descending(rows)[j]
          /\ \A x \in rows : \E i \in 1 .. Len(Descending(rows)) : Descending(rows)[i] = x
      BY <2>1, DescendingLists
    <2> QED BY <2>2, <2>3
  <1>2. Deletion(rows) = done[N]
    BY DEF Deletion
  <1> HIDE DEF order
  <1>3. \E f : f = [n \in 0 .. N |-> step(f, n)]
    <2> DEFINE T == {m \in 0 .. N : \E f : f = [n \in 0 .. m |-> step(f, n)]}
    <2> HIDE DEF N, start, remove
    <2>1. 0 \in T
      <3>1. PICK f : f = [n \in 0 .. 0 |-> start]
        OBVIOUS
      <3>2. \A n \in 0 .. 0 : step(f, n) = start
        OBVIOUS
      <3>3. f = [n \in 0 .. 0 |-> step(f, n)]
        BY <3>1, <3>2
      <3>4. 0 \in 0 .. N
        BY <1>1
      <3> QED BY <3>3, <3>4
    <2>2. ASSUME NEW k \in 0 .. N - 1, k \in T PROVE k + 1 \in T
      <3>1. PICK f : f = [n \in 0 .. k |-> step(f, n)]
        BY <2>2
      <3>2. PICK g : g = [n \in 0 .. k + 1 |-> step(f, n)]
        OBVIOUS
      <3>3. \A n \in 0 .. k : g[n] = f[n]
        <4>1. \A n \in 0 .. k : f[n] = step(f, n) /\ n \in 0 .. k + 1
          BY <1>1, <3>1
        <4>2. \A n \in 0 .. k + 1 : g[n] = step(f, n)
          BY <3>2
        <4> HIDE DEF step
        <4> QED BY <4>1, <4>2
      <3>4. ASSUME NEW n \in 0 .. k + 1 PROVE step(g, n) = step(f, n)
        <4>1. CASE n = 0
          BY <4>1
        <4>2. CASE n # 0
          <5>1. n - 1 \in 0 .. k
            BY <1>1, <4>2
          <5>2. g[n - 1] = f[n - 1]
            BY <3>3, <5>1
          <5> QED BY <4>2, <5>2
        <4> QED BY <4>1, <4>2
      <3>5. g = [n \in 0 .. k + 1 |-> step(g, n)]
        <4> HIDE DEF step
        <4> QED BY <3>2, <3>4
      <3>6. k + 1 \in 0 .. N
        BY <1>1
      <3> QED BY <3>5, <3>6
    <2>3. \A k \in 0 .. N : k \in T
      <3> HIDE DEF T
      <3> QED BY <1>1, <2>1, <2>2, UpTo
    <2>4. N \in T
      <3> HIDE DEF T
      <3> QED BY <1>1, <2>3
    <2> QED BY <2>4
  <1>4. done = [n \in 0 .. N |-> step(done, n)]
    BY <1>3
  <1> HIDE DEF done, N, start, remove
  <1>5. /\ done[0] = start
        /\ \A n \in 1 .. N : done[n] = remove(done[n - 1], order[n])
    BY <1>1, <1>4
  <1>6. \A n \in 0 .. N : Good(n, done[n])
    <2> DEFINE T == {n \in 0 .. N : Good(n, done[n])}
    <2>1. 0 \in T
      <3>1. done[0] \in States
        BY <1>5 DEF start
      <3>2. /\ done[0].list = list /\ done[0].dates = <<>>
            /\ Len(done[0].list) = Len(list) - 0 /\ Len(done[0].dates) = 0
        BY <1>5 DEF start
      <3>3. Ascends(list) => Ascends(done[0].list)
        BY <3>2
      <3>4. ~(0 > 0) /\ \A k \in 1 .. 0 : done[0].dates[k] = list[order[k]]
        OBVIOUS
      <3>5. Good(0, done[0])
        BY <3>1, <3>2, <3>3, <3>4
      <3>6. 0 \in 0 .. N
        BY <1>1
      <3> HIDE DEF Good
      <3> QED BY <3>5, <3>6
    <2>2. ASSUME NEW k \in 0 .. N - 1, k \in T PROVE k + 1 \in T
      <3> DEFINE i == order[k + 1]
                 r == done[k]
      <3>1. Good(k, r) /\ k \in Nat /\ k + 1 \in 1 .. N
        <4>1. Good(k, r)
          <5> HIDE DEF Good
          <5> QED BY <2>2
        <4>2. k \in Nat /\ k + 1 \in 1 .. N
          BY <1>1
        <4> QED BY <4>1, <4>2
      <3>2. i \in rows /\ i \in 1 .. Len(list)
        BY <1>1, <3>1
      <3>3. /\ i <= Len(r.list)
            /\ \A j \in 1 .. i : r.list[j] = list[j]
        <4>1. CASE k = 0
          BY <3>1, <3>2, <4>1
        <4>2. CASE k > 0
          <5>1. k \in 1 .. N /\ k < k + 1
            BY <1>1, <3>1, <4>2
          <5>2. order[k] \in rows /\ order[k] > order[k + 1]
            BY <1>1, <3>1, <5>1
          <5>3. order[k] \in 1 .. Len(list) /\ order[k] > i
            BY <5>2
          <5> QED BY <3>1, <3>2, <4>2, <5>3
        <4> QED BY <3>1, <4>1, <4>2
      <3>4. i \in 1 .. Len(r.list)
        BY <3>1, <3>2, <3>3
      <3>5. done[k + 1] = [r EXCEPT !.list = RemoveAt(r.list, i),
                                    !.dates = Append(r.dates, r.list[i])]
        <4>1. done[k + 1] = remove(r, i)
          BY <1>5, <3>1
        <4> HIDE DEF i, r
        <4> QED BY <3>1, <3>4, <4>1 DEF remove
      <3>6. /\ RemoveAt(r.list, i) \in Seq(Dates)
            /\ Len(RemoveAt(r.list, i)) = Len(r.list) - 1
            /\ \A j \in 1 .. Len(r.list) - 1 :
                  RemoveAt(r.list, i)[j] = IF j < i THEN r.list[j] ELSE r.list[j + 1]
            /\ Ascends(r.list) => Ascends(RemoveAt(r.list, i))
        <4>1. r.list \in Seq(Dates)
          BY <3>1
        <4> HIDE DEF i, r
        <4> QED BY <3>4, <4>1, OneRowLess
      <3>7. /\ done[k + 1].list = RemoveAt(r.list, i)
            /\ done[k + 1].dates = Append(r.dates, r.list[i])
            /\ done[k + 1].trap = FALSE
            /\ done[k + 1] \in States
        <4>1. r.list \in Seq(Dates) /\ r.dates \in Seq(Dates) /\ r \in States
          BY <3>1
        <4>2. r.list[i] \in Dates
          BY <3>4, <4>1
        <4>3. Append(r.dates, r.list[i]) \in Seq(Dates)
          BY <4>1, <4>2
        <4> HIDE DEF i, r
        <4> QED BY <3>5, <3>6, <4>1, <4>3
      <3>8. /\ Len(done[k + 1].list) = Len(list) - (k + 1)
            /\ Len(done[k + 1].dates) = k + 1
        BY <3>1, <3>6, <3>7
      <3>9. order[k + 1] <= Len(done[k + 1].list) + 1
        BY <3>1, <3>3, <3>6, <3>7
      <3>10. \A j \in 1 .. order[k + 1] - 1 : done[k + 1].list[j] = list[j]
        <4> SUFFICES ASSUME NEW j \in 1 .. order[k + 1] - 1
                     PROVE  done[k + 1].list[j] = list[j]
          OBVIOUS
        <4>1. j < i /\ j \in 1 .. Len(r.list) - 1 /\ j \in 1 .. i
          BY <3>1, <3>2, <3>4
        <4>2. RemoveAt(r.list, i)[j] = r.list[j]
          BY <3>6, <4>1
        <4>3. r.list[j] = list[j]
          BY <3>3, <4>1
        <4> QED BY <3>7, <4>2, <4>3
      <3>11. \A n \in 1 .. k + 1 : done[k + 1].dates[n] = list[order[n]]
        <4>1. /\ \A n \in 1 .. k : Append(r.dates, r.list[i])[n] = r.dates[n]
              /\ Append(r.dates, r.list[i])[k + 1] = r.list[i]
          BY <3>1
        <4>2. r.list[i] = list[i]
          BY <3>2, <3>3
        <4> QED BY <3>1, <3>7, <4>1, <4>2
      <3>12. Ascends(list) => Ascends(done[k + 1].list)
        BY <3>1, <3>6, <3>7
      <3>13. Good(k + 1, done[k + 1])
        <4> HIDE DEF States
        <4>1. k + 1 # 0 /\ done[k + 1] \in States
          BY <3>7
        <4> QED BY <3>8, <3>9, <3>10, <3>11, <3>12, <4>1
      <3>14. k + 1 \in 0 .. N
        BY <1>1
      <3> HIDE DEF Good
      <3> QED BY <3>13, <3>14
    <2> HIDE DEF T
    <2>3. \A k \in 0 .. N : k \in T
      BY <1>1, <2>1, <2>2, UpTo
    <2> HIDE DEF Good
    <2> QED BY <2>3 DEF T
  <1>7. Good(N, Deletion(rows))
    <2>1. N \in 0 .. N
      BY <1>1
    <2> HIDE DEF Good
    <2> QED BY <1>2, <1>6, <2>1
  <1>8. Range(Deletion(rows).dates) = {list[i] : i \in rows}
    <2>1. /\ Deletion(rows).dates \in Seq(Dates) /\ Len(Deletion(rows).dates) = N
          /\ \A k \in 1 .. N : Deletion(rows).dates[k] = list[order[k]]
      BY <1>7
    <2>2. Range(Deletion(rows).dates) = {Deletion(rows).dates[k] : k \in 1 .. N}
      BY <2>1 DEF Range
    <2>3. \A k \in 1 .. N : order[k] \in rows
      BY <1>1
    <2>4. \A x \in rows : \E k \in 1 .. N : order[k] = x
      BY <1>1
    <2>5. \A k \in 1 .. N : Deletion(rows).dates[k] \in {list[i] : i \in rows}
      BY <2>1, <2>3
    <2>6. \A i \in rows : \E k \in 1 .. N : Deletion(rows).dates[k] = list[i]
      <3> SUFFICES ASSUME NEW i \in rows
                   PROVE  \E k \in 1 .. N : Deletion(rows).dates[k] = list[i]
        OBVIOUS
      <3>1. PICK k \in 1 .. N : order[k] = i
        BY <2>4
      <3> QED BY <2>1, <3>1
    <2> HIDE DEF Good
    <2> QED BY <2>2, <2>5, <2>6
  <1> QED BY <1>7, <1>8

-----------------------------------------------------------------------------
(* What the queued writes leave of a document                               *)

WrittenBy(q, doc, d) ==
    LET writes == {i \in DOMAIN q : q[i].date = d} IN
    IF writes = {} THEN doc ELSE q[Max(writes)].doc

NoneOf(q, d) == \A i \in 1 .. Len(q) : q[i].date # d

\* m is the last index of q with a write of d.
LastOf(q, d, m) ==
    m \in 1 .. Len(q) /\ q[m].date = d /\ \A i \in 1 .. Len(q) : i > m => q[i].date # d

LEMMA LastWrite ==
    ASSUME NEW W, NEW q \in Seq(W), NEW doc, NEW d, NEW m, LastOf(q, d, m)
    PROVE  WrittenBy(q, doc, d) = q[m].doc
  <1> DEFINE writes == {i \in DOMAIN q : q[i].date = d}
  <1>1. writes \in SUBSET (1 .. Len(q)) /\ m \in writes /\ Len(q) \in Nat
    BY DEF LastOf
  <1>2. \A i \in writes : i <= m
    BY DEF LastOf
  <1> HIDE DEF writes
  <1>3. Max(writes) \in writes /\ \A i \in writes : i <= Max(writes)
    BY <1>1, MaxIsIn
  <1>4. Max(writes) \in 1 .. Len(q) /\ m \in 1 .. Len(q) /\ Max(writes) <= m /\ m <= Max(writes)
    BY <1>1, <1>2, <1>3
  <1>5. Max(writes) = m
    BY <1>4
  <1> QED BY <1>1, <1>5 DEF WrittenBy, writes

LEMMA NoWrite ==
    ASSUME NEW W, NEW q \in Seq(W), NEW doc, NEW d, NoneOf(q, d)
    PROVE  WrittenBy(q, doc, d) = doc
  BY DEF WrittenBy, NoneOf

LEMMA NoneOrLast ==
    ASSUME NEW W, NEW q \in Seq(W), NEW d
    PROVE  NoneOf(q, d) \/ \E m : LastOf(q, d, m)
  <1> DEFINE writes == {i \in 1 .. Len(q) : q[i].date = d}
             m == Max(writes)
  <1>1. Len(q) \in Nat /\ writes \in SUBSET (1 .. Len(q))
    OBVIOUS
  <1>2. ASSUME writes = {} PROVE NoneOf(q, d)
    BY <1>2 DEF NoneOf
  <1>3. ASSUME writes # {} PROVE LastOf(q, d, m)
    <2> HIDE DEF writes
    <2>1. m \in writes /\ \A i \in writes : i <= m
      BY <1>1, <1>3, MaxIsIn
    <2> HIDE DEF m
    <2>2. m \in 1 .. Len(q) /\ q[m].date = d
      BY <1>1, <2>1 DEF writes
    <2>3. ASSUME NEW i \in 1 .. Len(q), i > m PROVE q[i].date # d
      <3>1. ~(i <= m)
        BY <2>2, <2>3
      <3> QED BY <2>1, <3>1 DEF writes
    <2> QED BY <2>2, <2>3 DEF LastOf
  <1> QED BY <1>2, <1>3

\* Writes are appended: those of d decide, if there are any.
LEMMA MoreWrites ==
    ASSUME NEW W, NEW q \in Seq(W), NEW r \in Seq(W), NEW doc, NEW d
    PROVE  /\ NoneOf(r, d) => WrittenBy(q \o r, doc, d) = WrittenBy(q, doc, d)
           /\ NoneOf(r, d) /\ NoneOf(q, d) <=> NoneOf(q \o r, d)
           /\ \A m : LastOf(r, d, m) => WrittenBy(q \o r, doc, d) = r[m].doc
  <1> DEFINE c == q \o r
  <1>1. /\ c \in Seq(W) /\ Len(c) = Len(q) + Len(r)
        /\ Len(q) \in Nat /\ Len(r) \in Nat
        /\ \A i \in 1 .. Len(q) + Len(r) :
              c[i] = IF i <= Len(q) THEN q[i] ELSE r[i - Len(q)]
    BY ConcatProperties
  <1> HIDE DEF c
  <1>2. \A i \in 1 .. Len(q) : c[i] = q[i] /\ i \in 1 .. Len(c)
    BY <1>1
  <1>3. ASSUME NEW i \in 1 .. Len(r) PROVE c[i + Len(q)] = r[i] /\ i + Len(q) \in 1 .. Len(c)
    <2>1. /\ i + Len(q) \in 1 .. Len(q) + Len(r) /\ ~(i + Len(q) <= Len(q))
          /\ i + Len(q) - Len(q) = i
      BY <1>1
    <2> QED BY <1>1, <2>1
  <1>4. ASSUME NEW i \in 1 .. Len(c), i \notin 1 .. Len(q)
        PROVE  \E k \in 1 .. Len(r) : i = k + Len(q)
    <2>1. i - Len(q) \in 1 .. Len(r) /\ i = i - Len(q) + Len(q)
      BY <1>1, <1>4
    <2> QED BY <2>1
  <1>5. NoneOf(r, d) <=> \A i \in 1 .. Len(c) : i \notin 1 .. Len(q) => c[i].date # d
    <2>1. ASSUME NoneOf(r, d), NEW i \in 1 .. Len(c), i \notin 1 .. Len(q)
          PROVE  c[i].date # d
      <3>1. PICK k \in 1 .. Len(r) : i = k + Len(q)
        BY <1>4, <2>1
      <3> QED BY <1>3, <2>1, <3>1 DEF NoneOf
    <2>2. ASSUME \A i \in 1 .. Len(c) : i \notin 1 .. Len(q) => c[i].date # d,
                 NEW k \in 1 .. Len(r)
          PROVE  r[k].date # d
      <3>1. k + Len(q) \notin 1 .. Len(q)
        BY <1>1
      <3> QED BY <1>3, <2>2, <3>1
    <2> QED BY <2>1, <2>2 DEF NoneOf
  <1>6. NoneOf(r, d) /\ NoneOf(q, d) <=> NoneOf(c, d)
    BY <1>2, <1>5 DEF NoneOf
  <1>7. ASSUME NoneOf(r, d) PROVE WrittenBy(c, doc, d) = WrittenBy(q, doc, d)
    <2>1. CASE NoneOf(q, d)
      BY <1>1, <1>6, <1>7, <2>1, NoWrite
    <2>2. ASSUME NEW m, LastOf(q, d, m)
          PROVE  WrittenBy(c, doc, d) = WrittenBy(q, doc, d)
      <3>1. LastOf(c, d, m)
        BY <1>2, <1>5, <1>7, <2>2 DEF LastOf
      <3>2. WrittenBy(c, doc, d) = c[m].doc /\ WrittenBy(q, doc, d) = q[m].doc
        BY <1>1, <2>2, <3>1, LastWrite
      <3>3. c[m] = q[m]
        BY <1>2, <2>2 DEF LastOf
      <3> QED BY <3>2, <3>3
    <2> QED BY <2>1, <2>2, NoneOrLast
  <1>8. ASSUME NEW m, LastOf(r, d, m) PROVE WrittenBy(c, doc, d) = r[m].doc
    <2>1. /\ m \in 1 .. Len(r) /\ r[m].date = d
          /\ \A i \in 1 .. Len(r) : i > m => r[i].date # d
      BY <1>8 DEF LastOf
    <2>2. ASSUME NEW i \in 1 .. Len(c), i > m + Len(q) PROVE c[i].date # d
      <3>1. i \notin 1 .. Len(q)
        BY <1>1, <2>1, <2>2
      <3>2. PICK k \in 1 .. Len(r) : i = k + Len(q)
        BY <1>4, <3>1
      <3>3. k > m
        BY <1>1, <2>1, <2>2, <3>2
      <3> QED BY <1>3, <2>1, <3>2, <3>3
    <2>3. LastOf(c, d, m + Len(q)) /\ c[m + Len(q)] = r[m]
      BY <1>3, <2>1, <2>2 DEF LastOf
    <2> QED BY <1>1, <2>3, LastWrite
  <1> QED BY <1>6, <1>7, <1>8 DEF c

\* The first write is executed: what is written stays.
LEMMA OneWriteDone ==
    ASSUME NEW W, NEW q \in Seq(W), q # <<>>, NEW doc, NEW d, NEW new,
           new = IF Head(q).date = d THEN Head(q).doc ELSE doc
    PROVE  /\ WrittenBy(Tail(q), new, d) = WrittenBy(q, doc, d)
           /\ NoneOf(q, d) => NoneOf(Tail(q), d) /\ Head(q).date # d
  <1> DEFINE t == Tail(q)
  <1>1. /\ t \in Seq(W) /\ Len(t) = Len(q) - 1 /\ Len(q) \in Nat \ {0}
        /\ Head(q) = q[1] /\ \A i \in 1 .. Len(t) : t[i] = q[i + 1]
    OBVIOUS
  <1> HIDE DEF t
  <1>2. \A i \in 1 .. Len(q) : i # 1 => \E k \in 1 .. Len(t) : i = k + 1
    <2> SUFFICES ASSUME NEW i \in 1 .. Len(q), i # 1
                 PROVE  \E k \in 1 .. Len(t) : i = k + 1
      OBVIOUS
    <2>1. i - 1 \in 1 .. Len(t) /\ i = i - 1 + 1
      BY <1>1
    <2> QED BY <2>1
  <1>3. \A k \in 1 .. Len(t) : k + 1 \in 1 .. Len(q)
    BY <1>1
  <1>4. ASSUME NEW m, LastOf(t, d, m) PROVE WrittenBy(t, new, d) = WrittenBy(q, doc, d)
    <2>1. /\ m \in 1 .. Len(t) /\ t[m].date = d
          /\ \A i \in 1 .. Len(t) : i > m => t[i].date # d
      BY <1>4 DEF LastOf
    <2>2. ASSUME NEW i \in 1 .. Len(q), i > m + 1 PROVE q[i].date # d
      <3>1. i # 1
        BY <2>1, <2>2
      <3>2. PICK k \in 1 .. Len(t) : i = k + 1
        BY <1>2, <3>1
      <3>3. k > m
        BY <1>1, <2>1, <2>2, <3>2
      <3> QED BY <1>1, <2>1, <3>2, <3>3
    <2>3. LastOf(q, d, m + 1) /\ q[m + 1] = t[m]
      BY <1>1, <1>3, <2>1, <2>2 DEF LastOf
    <2>4. WrittenBy(q, doc, d) = q[m + 1].doc
      BY <2>3, LastWrite
    <2>5. WrittenBy(t, new, d) = t[m].doc
      BY <1>1, <1>4, LastWrite
    <2> QED BY <2>3, <2>4, <2>5
  <1>5. ASSUME NoneOf(t, d) PROVE WrittenBy(t, new, d) = WrittenBy(q, doc, d)
    <2>1. WrittenBy(t, new, d) = new
      BY <1>1, <1>5, NoWrite
    <2>2. \A i \in 1 .. Len(q) : i # 1 => q[i].date # d
      BY <1>1, <1>2, <1>5 DEF NoneOf
    <2>3. CASE q[1].date = d
      <3>1. LastOf(q, d, 1)
        BY <1>1, <2>2, <2>3 DEF LastOf
      <3>2. WrittenBy(q, doc, d) = q[1].doc
        BY <3>1, LastWrite
      <3> QED BY <1>1, <2>1, <2>3, <3>2
    <2>4. CASE q[1].date # d
      <3>1. NoneOf(q, d)
        BY <2>2, <2>4 DEF NoneOf
      <3>2. WrittenBy(q, doc, d) = doc
        BY <3>1, NoWrite
      <3> QED BY <1>1, <2>1, <2>4, <3>2
    <2> QED BY <2>3, <2>4
  <1>6. NoneOf(q, d) => NoneOf(t, d) /\ Head(q).date # d
    BY <1>1, <1>3 DEF NoneOf
  <1>7. NoneOf(t, d) \/ \E m : LastOf(t, d, m)
    BY <1>1, NoneOrLast
  <1> QED BY <1>4, <1>5, <1>6, <1>7 DEF t

-----------------------------------------------------------------------------
(***************************************************************************)
(* The invariant. An undisturbed day is worked on by one publication,      *)
(* alone, or its document, with the writes still queued, and its image are *)
(* of one event, or the document is gone and the image gone or going. The  *)
(* list is as long as the table at least, and the same while no sort is    *)
(* due.                                                                    *)
(***************************************************************************)
Writes == [date : Dates, doc : Docs]

Tasks == {Query, Sort} \cup [kind : {"results"}, dates : Seq(Dates)]

Questions == [kind : {"row", "rows"}, rows : SUBSET Nat, shown : Seq(Dates)]

Typed ==
    /\ phase \in [Publications -> Phases]
    /\ blobs \in [Dates -> Publications \cup {None}]
    /\ docs \in [Dates -> Docs] /\ pImageURL \in Publications \cup {None}
    /\ queue \in Seq(Writes) /\ removing \in [Dates -> Nat]
    /\ list \in Seq(Dates) /\ shown \in Seq(Dates)
    /\ ui \in [form : BOOLEAN, editing : BOOLEAN, buttons : BOOLEAN]
    /\ alert \in {NoAlert} \cup Questions
    /\ main \in Seq(Tasks) /\ queries \in Nat /\ acts \in 0 .. MaxActs
    /\ crashed \in BOOLEAN /\ stirred \in BOOLEAN /\ wrong \in BOOLEAN
    /\ disturbed \subseteq Dates

Works(p, d) == DateOf[p] = d /\ phase[p] \in {"putting", "stored"}

Alone(d) ==
    Active(d) =>
        /\ ~Queued(d) /\ removing[d] = 0
        /\ \A p, q \in Publications : Works(p, d) /\ Works(q, d) => p = q
        /\ \A p \in Publications : DateOf[p] = d /\ phase[p] = "stored" => blobs[d] = p

Settled(d) ==
    ~Active(d) =>
        /\ Written(d) = None => removing[d] > 0 \/ blobs[d] = None
        /\ Written(d) # None =>
              removing[d] = 0 /\ Written(d) = [title |-> blobs[d], image |-> blobs[d]]

Undisturbed == \A d \in Dates \ disturbed : Alone(d) /\ Settled(d)

NoSortDue == \A i \in 1 .. Len(main) : main[i] # Sort

Rows ==
    /\ Len(shown) <= Len(list) /\ selected \subseteq 1 .. Len(shown)
    /\ alert.kind = "row" => alert.rows \subseteq 1 .. Len(list)
    /\ NoSortDue => shown = list /\ Ascends(list)
    /\ wrong => stirred

IInv == Typed /\ Undisturbed /\ Rows

-----------------------------------------------------------------------------
(* Frames                                                                   *)

LEMMA SomeQueued ==
    ASSUME NEW q \in Seq(Writes), NEW d
    PROVE  (\E w \in Range(q) : w.date = d) <=> ~NoneOf(q, d)
  <1>1. Range(q) = {q[i] : i \in 1 .. Len(q)}
    BY DEF Range
  <1> QED BY <1>1 DEF NoneOf

\* What is written and queued, before and after a step, by the queue and the
\* document of the state.
LEMMA WrittenIs ==
    ASSUME NEW d \in Dates
    PROVE  /\ Written(d) = WrittenBy(queue, docs[d], d)
           /\ Written(d)' = WrittenBy(queue', docs'[d], d)
           /\ queue \in Seq(Writes) => (Queued(d) <=> ~NoneOf(queue, d))
           /\ queue' \in Seq(Writes) => (Queued(d)' <=> ~NoneOf(queue', d))
  <1>1. Written(d) = WrittenBy(queue, docs[d], d)
    BY DEF Written, WrittenBy
  <1>2. Written(d)' = WrittenBy(queue', docs'[d], d)
    BY DEF Written, WrittenBy
  <1>3. queue \in Seq(Writes) => (Queued(d) <=> ~NoneOf(queue, d))
    BY SomeQueued DEF Queued
  <1>4. queue' \in Seq(Writes) => (Queued(d)' <=> ~NoneOf(queue', d))
    BY SomeQueued DEF Queued
  <1> QED BY <1>1, <1>2, <1>3, <1>4

\* Nothing happens to day d.
LEMMA DayRests ==
    ASSUME NEW d \in Dates, Alone(d), Settled(d),
           \A p \in Publications : DateOf[p] = d => phase'[p] = phase[p],
           blobs'[d] = blobs[d], removing'[d] = removing[d],
           Written(d)' = Written(d), Queued(d)' => Queued(d)
    PROVE  Alone(d)' /\ Settled(d)'
  <1>1. \A p \in Publications : Works(p, d)' <=> Works(p, d)
    BY DEF Works
  <1>2. Active(d)' <=> Active(d)
    BY <1>1 DEF Active, Works
  <1>3. Alone(d)'
    BY <1>1, <1>2 DEF Alone
  <1>4. Settled(d)'
    BY <1>2 DEF Settled
  <1> QED BY <1>3, <1>4

LEMMA DaysRest ==
    ASSUME Undisturbed, disturbed \subseteq disturbed',
           UNCHANGED <<phase, blobs, docs, queue, removing>>
    PROVE  Undisturbed'
  <1> SUFFICES ASSUME NEW d \in Dates, d \notin disturbed'
               PROVE  Alone(d)' /\ Settled(d)'
    BY DEF Undisturbed
  <1>1. Alone(d) /\ Settled(d)
    BY DEF Undisturbed
  <1>2. Written(d)' = Written(d) /\ (Queued(d)' <=> Queued(d))
    BY DEF Written, Queued
  <1> QED BY <1>1, <1>2, DayRests

\* Nothing happens to the table; of the main queue only a sort done matters.
LEMMA RowsRest ==
    ASSUME Rows, UNCHANGED <<list, shown, selected, alert, stirred, wrong>>,
           NoSortDue' => NoSortDue
    PROVE  Rows'
  BY DEF Rows

LEMMA SameSorts == ASSUME UNCHANGED main PROVE NoSortDue' <=> NoSortDue
  BY DEF NoSortDue

LEMMA TypeIs == ASSUME IInv PROVE TypeOK
  <1>1. Typed /\ Rows
    BY DEF IInv
  <1>2. \A w \in Range(queue) : w.date \in Dates /\ w.doc \in Docs
    <2> SUFFICES ASSUME NEW w \in Range(queue) PROVE w.date \in Dates /\ w.doc \in Docs
      OBVIOUS
    <2>1. queue \in Seq(Writes)
      BY <1>1 DEF Typed
    <2>2. PICK i \in 1 .. Len(queue) : w = queue[i]
      BY <2>1 DEF Range
    <2>3. w \in Writes
      BY <2>1, <2>2
    <2> QED BY <2>3 DEF Writes
  <1>3. \A i \in 1 .. Len(main) : main[i].kind \in {"query", "results", "sort"}
    BY <1>1 DEF Typed, Tasks, Query, Sort
  <1>4. alert.kind \in {"none", "row", "rows"}
    BY <1>1 DEF Typed, NoAlert, Questions
  <1>5. selected \subseteq 1 .. Len(shown)
    BY <1>1 DEF Rows
  <1> QED BY <1>1, <1>2, <1>3, <1>4, <1>5 DEF TypeOK, Typed

LEMMA InitHolds == ASSUME Init PROVE IInv
  <1> DEFINE first(d) == IF \E p \in Earlier : DateOf[p] = d
                         THEN CHOOSE p \in Earlier : DateOf[p] = d ELSE None
  <1>1. \A d \in Dates : first(d) \in Publications \cup {None}
    BY EventsAssumption
  <1>2. /\ blobs = [d \in Dates |-> first(d)]
        /\ docs = [d \in Dates |-> IF first(d) = None THEN None
                                   ELSE [title |-> first(d), image |-> first(d)]]
        /\ phase = [p \in Publications |-> IF p \in Earlier THEN "saved" ELSE "none"]
    BY DEF Init
  <1> HIDE DEF first
  <1>3. Typed
    <2>1. docs \in [Dates -> Docs]
      BY <1>1, <1>2 DEF Docs
    <2>2. blobs \in [Dates -> Publications \cup {None}] /\ phase \in [Publications -> Phases]
      BY <1>1, <1>2 DEF Phases
    <2>3. queue \in Seq(Writes) /\ main \in Seq(Tasks) /\ list \in Seq(Dates)
          /\ shown \in Seq(Dates) /\ queries \in Nat
      BY DEF Init
    <2>4. removing \in [Dates -> Nat] /\ acts \in 0 .. MaxActs /\ disturbed \subseteq Dates
      BY EventsAssumption DEF Init
    <2>5. ui \in [form : BOOLEAN, editing : BOOLEAN, buttons : BOOLEAN]
      BY DEF Init, Form
    <2> QED BY <2>1, <2>2, <2>3, <2>4, <2>5 DEF Init, Typed
  <1>4. Undisturbed
    <2> SUFFICES ASSUME NEW d \in Dates PROVE Alone(d) /\ Settled(d)
      BY DEF Undisturbed
    <2>1. ~Active(d)
      BY <1>2 DEF Active
    <2>2. Written(d) = docs[d]
      <3>1. NoneOf(queue, d) /\ queue \in Seq(Writes)
        BY DEF Init, NoneOf
      <3>2. WrittenBy(queue, docs[d], d) = docs[d]
        BY <3>1, NoWrite
      <3> QED BY <3>2, WrittenIs
    <2>3. removing[d] = 0
      BY DEF Init
    <2>4. docs[d] = None => blobs[d] = None
      <3>1. first(d) # None => [title |-> first(d), image |-> first(d)] # None
        BY <1>1, EventsAssumption
      <3> QED BY <1>2, <3>1
    <2>5. docs[d] # None => docs[d] = [title |-> blobs[d], image |-> blobs[d]]
      BY <1>1, <1>2
    <2> QED BY <2>1, <2>2, <2>3, <2>4, <2>5 DEF Alone, Settled
  <1>5. Rows
    BY DEF Init, Rows, Ascends, NoAlert
  <1> QED BY <1>3, <1>4, <1>5 DEF IInv

-----------------------------------------------------------------------------
(* Publications, their writes and the deletion of images                    *)

LEMMA HandleTableViewLoadKeeps ==
    ASSUME IInv, NEW p \in Publications, HandleTableViewLoad(p) PROVE IInv'
  <1> DEFINE d == DateOf[p]
  <1>1. /\ phase[p] = "none" /\ phase' = [phase EXCEPT ![p] = "putting"]
        /\ disturbed' = IF Active(d) \/ Queued(d) \/ removing[d] > 0
                        THEN disturbed \cup {d} ELSE disturbed
        /\ acts < MaxActs /\ acts' = acts + 1
        /\ UNCHANGED <<blobs, docs, pImageURL, queue, removing, list, shown, selected, ui,
                       alert, main, queries, crashed, stirred, wrong>>
    BY DEF HandleTableViewLoad, Act, table, loads
  <1>2. Typed /\ Undisturbed /\ Rows /\ d \in Dates
    BY EventsAssumption DEF IInv
  <1> HIDE DEF d
  <1>3. Typed'
    <2>1. phase' \in [Publications -> Phases]
      BY <1>1, <1>2 DEF Typed, Phases
    <2>2. acts' \in 0 .. MaxActs
      BY <1>1, <1>2, EventsAssumption DEF Typed
    <2>3. disturbed' \subseteq Dates
      BY <1>1, <1>2 DEF Typed
    <2> QED BY <1>1, <1>2, <2>1, <2>2, <2>3 DEF Typed
  <1>4. Rows'
    BY <1>1, <1>2, RowsRest, SameSorts
  <1>5. Undisturbed'
    <2> SUFFICES ASSUME NEW e \in Dates, e \notin disturbed' PROVE Alone(e)' /\ Settled(e)'
      BY DEF Undisturbed
    <2>1. e \notin disturbed /\ Alone(e) /\ Settled(e)
      BY <1>1, <1>2 DEF Undisturbed
    <2>2. CASE e # d
      <3>1. \A q \in Publications : DateOf[q] = e => phase'[q] = phase[q]
        BY <1>1, <1>2, <2>2 DEF Typed, d
      <3>2. Written(e)' = Written(e) /\ Queued(e)' = Queued(e)
        BY <1>1 DEF Written, Queued
      <3> QED BY <1>1, <2>1, <3>1, <3>2, DayRests
    <2>3. CASE e = d
      <3>1. ~Active(d) /\ ~Queued(d) /\ ~(removing[d] > 0)
        BY <1>1, <2>3
      <3>2. ~Queued(d)' /\ removing'[d] = 0
        BY <1>1, <1>2, <3>1 DEF Queued, Typed
      <3>3. \A q \in Publications : q # p => phase'[q] = phase[q]
        BY <1>1, <1>2 DEF Typed
      <3>4. phase'[p] = "putting"
        BY <1>1, <1>2 DEF Typed
      <3>5. \A q \in Publications : Works(q, d)' => q = p
        BY <3>1, <3>3 DEF Works, Active
      <3>6. Active(d)'
        BY <3>4 DEF Active, d
      <3>7. \A q \in Publications : DateOf[q] = d /\ phase'[q] = "stored" => FALSE
        BY <3>4, <3>5 DEF Works
      <3> QED BY <2>3, <3>2, <3>5, <3>6, <3>7 DEF Alone, Settled
    <2> QED BY <2>2, <2>3
  <1> QED BY <1>3, <1>4, <1>5 DEF IInv

LEMMA PutCompletesKeeps ==
    ASSUME IInv, NEW p \in Publications, PutCompletes(p) PROVE IInv'
  <1> DEFINE d == DateOf[p]
  <1>1. /\ phase[p] = "putting" /\ phase' = [phase EXCEPT ![p] = "stored"]
        /\ blobs' = [blobs EXCEPT ![d] = p]
        /\ UNCHANGED <<docs, pImageURL, queue, removing, list, shown, selected, ui, acts,
                       alert, main, queries, crashed, disturbed, stirred, wrong>>
    BY DEF PutCompletes, table, loads, rest
  <1>2. Typed /\ Undisturbed /\ Rows /\ d \in Dates
    BY EventsAssumption DEF IInv
  <1> HIDE DEF d
  <1>3. Typed'
    <2>1. phase' \in [Publications -> Phases] /\ blobs' \in [Dates -> Publications \cup {None}]
      BY <1>1, <1>2 DEF Typed, Phases
    <2> QED BY <1>1, <1>2, <2>1 DEF Typed
  <1>4. Rows'
    BY <1>1, <1>2, RowsRest, SameSorts
  <1>5. Undisturbed'
    <2> SUFFICES ASSUME NEW e \in Dates, e \notin disturbed' PROVE Alone(e)' /\ Settled(e)'
      BY DEF Undisturbed
    <2>1. Alone(e) /\ Settled(e)
      BY <1>1, <1>2 DEF Undisturbed
    <2>2. Written(e)' = Written(e) /\ Queued(e)' = Queued(e)
      BY <1>1 DEF Written, Queued
    <2>3. CASE e # d
      <3>1. \A q \in Publications : DateOf[q] = e => phase'[q] = phase[q]
        BY <1>1, <1>2, <2>3 DEF Typed, d
      <3>2. blobs'[e] = blobs[e]
        BY <1>1, <1>2, <2>3 DEF Typed
      <3> QED BY <1>1, <2>1, <2>2, <3>1, <3>2, DayRests
    <2>4. CASE e = d
      <3>1. Works(p, d) /\ Active(d)
        BY <1>1 DEF Active, Works, d
      <3>2. /\ ~Queued(d) /\ removing[d] = 0
            /\ \A q \in Publications : Works(q, d) => q = p
        BY <2>1, <2>4, <3>1 DEF Alone
      <3>3. \A q \in Publications : q # p => phase'[q] = phase[q]
        BY <1>1, <1>2 DEF Typed
      <3>4. phase'[p] = "stored" /\ blobs'[d] = p
        BY <1>1, <1>2 DEF Typed
      <3>5. \A q \in Publications : Works(q, d)' => q = p
        BY <3>2, <3>3 DEF Works
      <3>6. Active(d)'
        BY <3>4 DEF Active, d
      <3>7. \A q \in Publications : DateOf[q] = d /\ phase'[q] = "stored" => blobs'[d] = q
        BY <3>4, <3>5 DEF Works
      <3>8. ~Queued(d)' /\ removing'[d] = 0
        BY <1>1, <2>2, <2>4, <3>2
      <3> QED BY <2>4, <3>5, <3>6, <3>7, <3>8 DEF Alone, Settled
    <2> QED BY <2>3, <2>4
  <1> QED BY <1>3, <1>4, <1>5 DEF IInv

LEMMA URLArrivesKeeps ==
    ASSUME IInv, NEW p \in Publications, URLArrives(p) PROVE IInv'
  <1> DEFINE d == DateOf[p]
             w == Set(p, blobs[d])
  <1>1. /\ phase[p] = "stored" /\ phase' = [phase EXCEPT ![p] = "saved"]
        /\ blobs[d] # None /\ pImageURL' = blobs[d] /\ queue' = Append(queue, w)
        /\ UNCHANGED <<blobs, docs, removing, list, shown, selected, ui, acts,
                       alert, main, queries, crashed, disturbed, stirred, wrong>>
    BY DEF URLArrives, table, loads, rest
  <1>2. Typed /\ Undisturbed /\ Rows /\ d \in Dates
    BY EventsAssumption DEF IInv
  <1>3. /\ w.date = d /\ w.doc = [title |-> p, image |-> blobs[d]] /\ w \in Writes
        /\ blobs[d] \in Publications \cup {None}
    <2>1. blobs[d] \in Publications \cup {None}
      BY <1>2 DEF Typed
    <2> QED BY <1>2, <2>1 DEF Set, Writes, Docs
  <1> HIDE DEF d, w
  <1>4. Typed'
    <2>1. phase' \in [Publications -> Phases]
      BY <1>1, <1>2 DEF Typed, Phases
    <2>2. queue' \in Seq(Writes)
      BY <1>1, <1>2, <1>3 DEF Typed
    <2>3. pImageURL' \in Publications \cup {None}
      BY <1>1, <1>3
    <2> QED BY <1>1, <1>2, <2>1, <2>2, <2>3 DEF Typed
  <1>5. Rows'
    BY <1>1, <1>2, RowsRest, SameSorts
  <1>6. queue \in Seq(Writes)
    BY <1>2 DEF Typed
  <1>7. PICK r \in Seq(Writes) : queue' = queue \o r /\ Len(r) = 1 /\ r[1] = w
    <2>1. queue' = queue \o <<w>>
      BY <1>1, <1>3, <1>6, AppendIsConcat
    <2>2. <<w>> \in Seq(Writes) /\ Len(<<w>>) = 1 /\ <<w>>[1] = w
      BY <1>3
    <2> QED BY <2>1, <2>2
  <1>8. Undisturbed'
    <2> SUFFICES ASSUME NEW e \in Dates, e \notin disturbed' PROVE Alone(e)' /\ Settled(e)'
      BY DEF Undisturbed
    <2>1. Alone(e) /\ Settled(e)
      BY <1>1, <1>2 DEF Undisturbed
    <2>2. /\ Written(e) = WrittenBy(queue, docs[e], e)
          /\ Written(e)' = WrittenBy(queue \o r, docs[e], e)
          /\ Queued(e) <=> ~NoneOf(queue, e)
          /\ Queued(e)' <=> ~NoneOf(queue \o r, e)
      <3>1. queue' \in Seq(Writes) /\ docs' = docs
        BY <1>1, <1>4 DEF Typed
      <3>2. /\ Written(e) = WrittenBy(queue, docs[e], e)
            /\ Written(e)' = WrittenBy(queue', docs'[e], e)
            /\ Queued(e) <=> ~NoneOf(queue, e)
            /\ Queued(e)' <=> ~NoneOf(queue', e)
        BY <1>6, <1>7, <3>1, WrittenIs
      <3> QED BY <1>6, <1>7, <3>1, <3>2
    <2>3. CASE e # d
      <3>1. \A q \in Publications : DateOf[q] = e => phase'[q] = phase[q]
        BY <1>1, <1>2, <2>3 DEF Typed, d
      <3>2. NoneOf(r, e)
        BY <1>3, <1>7, <2>3 DEF NoneOf
      <3>3. /\ WrittenBy(queue \o r, docs[e], e) = WrittenBy(queue, docs[e], e)
            /\ NoneOf(queue, e) => NoneOf(queue \o r, e)
        BY <1>6, <1>7, <3>2, MoreWrites
      <3>4. Written(e)' = Written(e) /\ (Queued(e)' => Queued(e))
        BY <2>2, <3>3
      <3> QED BY <1>1, <2>1, <3>1, <3>4, DayRests
    <2>4. CASE e = d
      <3>1. Works(p, d) /\ Active(d)
        BY <1>1 DEF Active, Works, d
      <3>2. /\ removing[d] = 0 /\ blobs[d] = p
            /\ \A q \in Publications : Works(q, d) => q = p
        BY <1>1, <2>1, <2>4, <3>1 DEF Alone, d
      <3>3. \A q \in Publications : q # p => phase'[q] = phase[q]
        BY <1>1, <1>2 DEF Typed
      <3>4. phase'[p] = "saved"
        BY <1>1, <1>2 DEF Typed
      <3>5. ~Active(d)'
        BY <3>2, <3>3, <3>4 DEF Works, Active
      <3>6. LastOf(r, d, 1)
        BY <1>3, <1>7 DEF LastOf
      <3>7. r[1] = w
        BY <1>7
      <3>8. Written(d)' = w.doc
        <4>1. WrittenBy(queue \o r, docs[d], d) = r[1].doc
          BY <1>6, <1>7, <3>6, MoreWrites
        <4> QED BY <2>2, <2>4, <3>7, <4>1
      <3>9. w.doc = [title |-> blobs[d], image |-> blobs[d]] /\ w.doc # None
        BY <1>1, <1>3, <3>2, EventsAssumption
      <3>10. removing'[d] = 0 /\ blobs'[d] = blobs[d]
        BY <1>1, <3>2
      <3> QED BY <2>4, <3>5, <3>8, <3>9, <3>10 DEF Alone, Settled
    <2> QED BY <2>3, <2>4
  <1> QED BY <1>4, <1>5, <1>8 DEF IInv

\* A publication fails, and its day is disturbed.
LEMMA UploadFailsKeeps ==
    ASSUME IInv, NEW p \in Publications, UploadFails(p) PROVE IInv'
  <1> DEFINE d == DateOf[p]
  <1>1. /\ phase' = [phase EXCEPT ![p] = "failed"] /\ disturbed' = disturbed \cup {d}
        /\ acts' = acts \/ (acts < MaxActs /\ acts' = acts + 1)
        /\ UNCHANGED <<blobs, docs, pImageURL, queue, removing, list, shown, selected, ui,
                       alert, main, queries, crashed, stirred, wrong>>
    BY DEF UploadFails, Act, table, loads
  <1>2. Typed /\ Undisturbed /\ Rows /\ d \in Dates
    BY EventsAssumption DEF IInv
  <1> HIDE DEF d
  <1>3. Typed'
    <2>1. phase' \in [Publications -> Phases]
      BY <1>1, <1>2 DEF Typed, Phases
    <2>2. acts' \in 0 .. MaxActs
      BY <1>1, <1>2, EventsAssumption DEF Typed
    <2>3. disturbed' \subseteq Dates
      BY <1>1, <1>2 DEF Typed
    <2> QED BY <1>1, <1>2, <2>1, <2>2, <2>3 DEF Typed
  <1>4. Rows'
    BY <1>1, <1>2, RowsRest, SameSorts
  <1>5. Undisturbed'
    <2> SUFFICES ASSUME NEW e \in Dates, e \notin disturbed' PROVE Alone(e)' /\ Settled(e)'
      BY DEF Undisturbed
    <2>1. e # d /\ Alone(e) /\ Settled(e)
      BY <1>1, <1>2 DEF Undisturbed
    <2>2. \A q \in Publications : DateOf[q] = e => phase'[q] = phase[q]
      BY <1>1, <1>2, <2>1 DEF Typed, d
    <2>3. Written(e)' = Written(e) /\ Queued(e)' = Queued(e)
      BY <1>1 DEF Written, Queued
    <2> QED BY <1>1, <2>1, <2>2, <2>3, DayRests
  <1> QED BY <1>3, <1>4, <1>5 DEF IInv

LEMMA CommitKeeps ==
    ASSUME IInv, Commit PROVE IInv'
  <1>1. /\ queue # <<>> /\ queue' = Tail(queue)
        /\ docs' = [docs EXCEPT ![Head(queue).date] = Head(queue).doc]
        /\ UNCHANGED <<phase, blobs, pImageURL, removing, list, shown, selected, ui, acts,
                       alert, main, queries, crashed, disturbed, stirred, wrong>>
    BY DEF Commit, table, loads, rest
  <1>2. Typed /\ Undisturbed /\ Rows
    BY DEF IInv
  <1>3. /\ queue \in Seq(Writes) /\ Head(queue) \in Writes /\ Tail(queue) \in Seq(Writes)
        /\ docs \in [Dates -> Docs]
    BY <1>1, <1>2 DEF Typed
  <1>4. Typed'
    <2>1. docs' \in [Dates -> Docs]
      BY <1>1, <1>3 DEF Writes
    <2> QED BY <1>1, <1>2, <1>3, <2>1 DEF Typed
  <1>5. Rows'
    BY <1>1, <1>2, RowsRest, SameSorts
  <1>6. Undisturbed'
    <2> SUFFICES ASSUME NEW e \in Dates, e \notin disturbed' PROVE Alone(e)' /\ Settled(e)'
      BY DEF Undisturbed
    <2>1. Alone(e) /\ Settled(e)
      BY <1>1, <1>2 DEF Undisturbed
    <2>2. docs'[e] = IF Head(queue).date = e THEN Head(queue).doc ELSE docs[e]
      BY <1>1, <1>3
    <2>3. /\ WrittenBy(Tail(queue), docs'[e], e) = WrittenBy(queue, docs[e], e)
          /\ NoneOf(queue, e) => NoneOf(Tail(queue), e)
      BY <1>1, <1>3, <2>2, OneWriteDone
    <2>4. /\ Written(e) = WrittenBy(queue, docs[e], e)
          /\ Written(e)' = WrittenBy(queue', docs'[e], e)
          /\ Queued(e) <=> ~NoneOf(queue, e)
          /\ Queued(e)' <=> ~NoneOf(queue', e)
      BY <1>1, <1>3, WrittenIs
    <2>5. Written(e)' = Written(e) /\ (Queued(e)' => Queued(e))
      BY <1>1, <2>3, <2>4
    <2> QED BY <1>1, <2>1, <2>5, DayRests
  <1> QED BY <1>4, <1>5, <1>6 DEF IInv

LEMMA RemovalArrivesKeeps ==
    ASSUME IInv, NEW d \in Dates, RemovalArrives(d) PROVE IInv'
  <1>1. /\ removing[d] > 0 /\ removing' = [removing EXCEPT ![d] = @ - 1]
        /\ blobs' = [blobs EXCEPT ![d] = None]
        /\ UNCHANGED <<phase, docs, pImageURL, queue, list, shown, selected, ui, acts,
                       alert, main, queries, crashed, disturbed, stirred, wrong>>
    BY DEF RemovalArrives, table, loads, rest
  <1>2. Typed /\ Undisturbed /\ Rows
    BY DEF IInv
  <1>3. Typed'
    <2>1. removing' \in [Dates -> Nat] /\ blobs' \in [Dates -> Publications \cup {None}]
      BY <1>1, <1>2 DEF Typed
    <2> QED BY <1>1, <1>2, <2>1 DEF Typed
  <1>4. Rows'
    BY <1>1, <1>2, RowsRest, SameSorts
  <1>5. Undisturbed'
    <2> SUFFICES ASSUME NEW e \in Dates, e \notin disturbed' PROVE Alone(e)' /\ Settled(e)'
      BY DEF Undisturbed
    <2>1. Alone(e) /\ Settled(e)
      BY <1>1, <1>2 DEF Undisturbed
    <2>2. Written(e)' = Written(e) /\ Queued(e)' = Queued(e) /\ Active(e)' = Active(e)
      BY <1>1 DEF Written, Queued, Active
    <2>3. CASE e # d
      <3>1. blobs'[e] = blobs[e] /\ removing'[e] = removing[e]
        BY <1>1, <1>2, <2>3 DEF Typed
      <3> QED BY <1>1, <2>1, <2>2, <3>1, DayRests
    <2>4. CASE e = d
      <3>1. ~Active(d) /\ Written(d) = None
        BY <1>1, <2>1, <2>4 DEF Alone, Settled
      <3>2. blobs'[d] = None
        BY <1>1, <1>2 DEF Typed
      <3> QED BY <2>2, <2>4, <3>1, <3>2 DEF Alone, Settled
    <2> QED BY <2>3, <2>4
  <1> QED BY <1>3, <1>4, <1>5 DEF IInv

LEMMA RemovalFailsKeeps ==
    ASSUME IInv, NEW d \in Dates, RemovalFails(d) PROVE IInv'
  <1>1. /\ removing[d] > 0 /\ removing' = [removing EXCEPT ![d] = @ - 1]
        /\ acts < MaxActs /\ acts' = acts + 1 /\ disturbed' = disturbed \cup {d}
        /\ UNCHANGED <<phase, blobs, docs, pImageURL, queue, list, shown, selected, ui,
                       alert, main, queries, crashed, stirred, wrong>>
    BY DEF RemovalFails, Act, table, loads
  <1>2. Typed /\ Undisturbed /\ Rows
    BY DEF IInv
  <1>3. Typed'
    <2>1. removing' \in [Dates -> Nat] /\ disturbed' \subseteq Dates
      BY <1>1, <1>2 DEF Typed
    <2>2. acts' \in 0 .. MaxActs
      BY <1>1, <1>2, EventsAssumption DEF Typed
    <2> QED BY <1>1, <1>2, <2>1, <2>2 DEF Typed
  <1>4. Rows'
    BY <1>1, <1>2, RowsRest, SameSorts
  <1>5. Undisturbed'
    <2> SUFFICES ASSUME NEW e \in Dates, e \notin disturbed' PROVE Alone(e)' /\ Settled(e)'
      BY DEF Undisturbed
    <2>1. e # d /\ Alone(e) /\ Settled(e)
      BY <1>1, <1>2 DEF Undisturbed
    <2>2. Written(e)' = Written(e) /\ Queued(e)' = Queued(e)
      BY <1>1 DEF Written, Queued
    <2>3. removing'[e] = removing[e]
      BY <1>1, <1>2, <2>1 DEF Typed
    <2> QED BY <1>1, <2>1, <2>2, <2>3, DayRests
  <1> QED BY <1>3, <1>4, <1>5 DEF IInv

-----------------------------------------------------------------------------
(* The table                                                                *)

\* One task more at the end of the main queue; the first one gone.
LEMMA MainTask ==
    ASSUME main \in Seq(Tasks), NEW t \in Tasks
    PROVE  /\ Append(main, t) \in Seq(Tasks)
           /\ main' = Append(main, t) => (NoSortDue' <=> NoSortDue /\ t # Sort)
           /\ main # <<>> =>
                /\ Head(main) \in Tasks /\ Tail(main) \in Seq(Tasks)
                /\ main' = Tail(main) /\ Head(main) # Sort => (NoSortDue' => NoSortDue)
                /\ main' = Append(Tail(main), Sort) => ~NoSortDue'
  <1>1. Append(main, t) \in Seq(Tasks) /\ Len(main) \in Nat
    OBVIOUS
  <1>2. ASSUME main' = Append(main, t) PROVE NoSortDue' <=> NoSortDue /\ t # Sort
    <2>1. /\ Len(main') = Len(main) + 1 /\ main'[Len(main) + 1] = t
          /\ \A i \in 1 .. Len(main) : main'[i] = main[i]
      BY <1>2
    <2> QED BY <1>1, <2>1 DEF NoSortDue
  <1>3. ASSUME main # <<>> PROVE Head(main) \in Tasks /\ Tail(main) \in Seq(Tasks)
    BY <1>3
  <1>4. ASSUME main # <<>>, main' = Tail(main), Head(main) # Sort, NoSortDue'
        PROVE  NoSortDue
    <2>1. /\ Len(main') = Len(main) - 1 /\ Head(main) = main[1] /\ Len(main) # 0
          /\ \A i \in 1 .. Len(main') : main'[i] = main[i + 1]
      BY <1>4
    <2>2. ASSUME NEW i \in 1 .. Len(main), i # 1 PROVE main[i] # Sort
      <3>1. i - 1 \in 1 .. Len(main') /\ i - 1 + 1 = i
        BY <1>1, <2>1, <2>2
      <3>2. main'[i - 1] # Sort
        BY <1>4, <3>1 DEF NoSortDue
      <3> QED BY <2>1, <3>1, <3>2
    <2> QED BY <1>4, <2>1, <2>2 DEF NoSortDue
  <1>5. ASSUME main # <<>>, main' = Append(Tail(main), Sort) PROVE ~NoSortDue'
    <2>1. Len(Tail(main)) + 1 \in 1 .. Len(main') /\ main'[Len(Tail(main)) + 1] = Sort
      <3>1. Tail(main) \in Seq(Tasks)
        BY <1>5
      <3> HIDE DEF Tasks
      <3> QED BY <1>5, <3>1
    <2> QED BY <2>1 DEF NoSortDue
  <1> QED BY <1>1, <1>2, <1>3, <1>4, <1>5

LEMMA TaskKinds ==
    /\ Query \in Tasks /\ Sort \in Tasks /\ Query # Sort
    /\ \A s \in Seq(Dates) : Results(s) \in Tasks /\ Results(s) # Sort
    /\ \A t \in Tasks : t.kind = "results" => t.dates \in Seq(Dates) /\ t # Sort
  BY DEF Tasks, Query, Sort, Results

LEMMA EditFooterButtonKeeps ==
    ASSUME IInv, EditFooterButton PROVE IInv'
  <1>1. /\ ui' = [ui EXCEPT !.form = FALSE] /\ main' = Append(main, Query)
        /\ acts < MaxActs /\ acts' = acts + 1
        /\ UNCHANGED <<phase, blobs, docs, pImageURL, queue, removing, list, shown, selected,
                       alert, queries, crashed, disturbed, stirred, wrong>>
    BY DEF EditFooterButton, Act, uploads
  <1>2. Typed /\ Undisturbed /\ Rows
    BY DEF IInv
  <1>3. main' \in Seq(Tasks) /\ (NoSortDue' => NoSortDue)
    BY <1>1, <1>2, MainTask, TaskKinds DEF Typed
  <1>4. Typed'
    <2>1. ui' \in [form : BOOLEAN, editing : BOOLEAN, buttons : BOOLEAN]
      BY <1>1, <1>2 DEF Typed
    <2>2. acts' \in 0 .. MaxActs
      BY <1>1, <1>2, EventsAssumption DEF Typed
    <2> QED BY <1>1, <1>2, <1>3, <2>1, <2>2 DEF Typed
  <1>5. Rows'
    BY <1>1, <1>2, <1>3, RowsRest
  <1>6. Undisturbed'
    BY <1>1, <1>2, DaysRest
  <1> QED BY <1>4, <1>5, <1>6 DEF IInv

LEMMA ButtonsKeep ==
    ASSUME IInv, AddFooterButton \/ BarEditButton \/ BarCancelButton PROVE IInv'
  <1>1. /\ \/ ui' = [ui EXCEPT !.form = TRUE]
           \/ ui' = [ui EXCEPT !.editing = TRUE, !.buttons = TRUE]
           \/ ui' = [ui EXCEPT !.editing = FALSE, !.buttons = FALSE]
        /\ selected' = selected \/ selected' = {}
        /\ UNCHANGED <<phase, blobs, docs, pImageURL, queue, removing, list, shown,
                       alert, main, queries, crashed, acts, disturbed, stirred, wrong>>
    BY DEF AddFooterButton, BarEditButton, BarCancelButton, uploads, loads, rest
  <1>2. Typed /\ Undisturbed /\ Rows
    BY DEF IInv
  <1>3. Typed'
    <2>1. ui' \in [form : BOOLEAN, editing : BOOLEAN, buttons : BOOLEAN]
      BY <1>1, <1>2 DEF Typed
    <2> QED BY <1>1, <1>2, <2>1 DEF Typed
  <1>4. Rows'
    BY <1>1, <1>2, SameSorts DEF Rows
  <1>5. Undisturbed'
    BY <1>1, <1>2, DaysRest
  <1> QED BY <1>3, <1>4, <1>5 DEF IInv

LEMMA RunQueryKeeps ==
    ASSUME IInv, main # <<>>, RunQuery PROVE IInv'
  <1>1. /\ Head(main) = Query /\ main' = Tail(main) /\ queries' = queries + 1
        /\ UNCHANGED <<phase, blobs, docs, pImageURL, queue, removing, list, shown, selected,
                       ui, alert, crashed, acts, disturbed, stirred, wrong>>
    BY DEF RunQuery, uploads, table, rest
  <1>2. Typed /\ Undisturbed /\ Rows
    BY DEF IInv
  <1>3. main' \in Seq(Tasks) /\ (NoSortDue' => NoSortDue)
    BY <1>1, <1>2, MainTask, TaskKinds DEF Typed
  <1>4. Typed'
    BY <1>1, <1>2, <1>3 DEF Typed
  <1>5. Rows'
    BY <1>1, <1>2, <1>3, RowsRest
  <1>6. Undisturbed'
    BY <1>1, <1>2, DaysRest
  <1> QED BY <1>4, <1>5, <1>6 DEF IInv

LEMMA RunResultsKeeps ==
    ASSUME IInv, main # <<>>, RunResults PROVE IInv'
  <1>1. /\ Head(main).kind = "results" /\ list' = list \o Head(main).dates
        /\ main' = Append(Tail(main), Sort)
        /\ UNCHANGED <<phase, blobs, docs, pImageURL, queue, removing, shown, selected,
                       ui, alert, queries, crashed, acts, disturbed, stirred, wrong>>
    BY DEF RunResults, uploads, rest
  <1>2. Typed /\ Undisturbed /\ Rows
    BY DEF IInv
  <1>3. Head(main).dates \in Seq(Dates) /\ Tail(main) \in Seq(Tasks) /\ ~NoSortDue'
    BY <1>1, <1>2, MainTask, TaskKinds DEF Typed
  <1>4. main' \in Seq(Tasks)
    <2> HIDE DEF Tasks
    <2> QED BY <1>1, <1>3, TaskKinds
  <1>5. list' \in Seq(Dates) /\ Len(list') >= Len(list) /\ Len(list) \in Nat
    BY <1>1, <1>2, <1>3 DEF Typed
  <1>6. Typed'
    BY <1>1, <1>2, <1>4, <1>5 DEF Typed
  <1>7. Rows'
    <2>1. Len(shown) <= Len(list')
      BY <1>2, <1>5 DEF Rows, Typed
    <2>2. alert.kind = "row" => alert.rows \subseteq 1 .. Len(list')
      BY <1>2, <1>5 DEF Rows
    <2> QED BY <1>1, <1>2, <1>3, <2>1, <2>2 DEF Rows
  <1>8. Undisturbed'
    BY <1>1, <1>2, DaysRest
  <1> QED BY <1>6, <1>7, <1>8 DEF IInv

LEMMA RunSortKeeps ==
    ASSUME IInv, main # <<>>, RunSort PROVE IInv'
  <1>1. /\ main' = Tail(main) /\ list' = Sorted(list) /\ shown' = list' /\ selected' = {}
        /\ UNCHANGED <<phase, blobs, docs, pImageURL, queue, removing,
                       ui, alert, queries, crashed, acts, disturbed, stirred, wrong>>
    BY DEF RunSort, uploads, rest
  <1>2. Typed /\ Undisturbed /\ Rows
    BY DEF IInv
  <1>3. main' \in Seq(Tasks)
    BY <1>1, <1>2, MainTask, TaskKinds DEF Typed
  <1>4. list' \in Seq(Dates) /\ Len(list') = Len(list) /\ Ascends(list')
    BY <1>1, <1>2, SortedLists DEF Typed
  <1>5. Typed'
    BY <1>1, <1>2, <1>3, <1>4 DEF Typed
  <1>6. Rows'
    <2>1. Len(shown') <= Len(list')
      BY <1>1, <1>4
    <2>2. Ascends(list)'
      BY <1>4 DEF Ascends
    <2> QED BY <1>1, <1>2, <1>4, <2>1, <2>2 DEF Rows
  <1>7. Undisturbed'
    BY <1>1, <1>2, DaysRest
  <1> QED BY <1>5, <1>6, <1>7 DEF IInv

LEMMA QueryAnsweredKeeps ==
    ASSUME IInv, QueryAnswered PROVE IInv'
  <1>1. PICK dates \in {<<>>, Seen} : main' = Append(main, Results(dates))
    BY DEF QueryAnswered
  <1>2. /\ queries > 0 /\ queries' = queries - 1
        /\ UNCHANGED <<phase, blobs, docs, pImageURL, queue, removing, list, shown, selected,
                       ui, alert, crashed, acts, disturbed, stirred, wrong>>
    BY DEF QueryAnswered, uploads, table, rest
  <1>3. Typed /\ Undisturbed /\ Rows
    BY DEF IInv
  <1>4. dates \in Seq(Dates)
    <2>1. Seen \in Seq(Dates)
      <3> DEFINE S == {d \in Dates : Written(d) # None}
      <3>1. S \in SUBSET Nat /\ IsFiniteSet(S) /\ S \subseteq Dates
        BY EventsAssumption, FS_Subset
      <3> HIDE DEF S
      <3>2. Ascending(S) \in Seq(S)
        BY <3>1, AscendingLists
      <3>3. Ascending(S) \in Seq(Dates)
        BY <3>1, <3>2, SeqMonotonic
      <3> QED BY <3>3 DEF S, Seen
    <2>2. dates = <<>> \/ dates = Seen
      BY <1>1
    <2>3. <<>> \in Seq(Dates)
      OBVIOUS
    <2> QED BY <2>1, <2>2, <2>3
  <1>5. main' \in Seq(Tasks) /\ (NoSortDue' => NoSortDue)
    <2>1. Results(dates) \in Tasks
      BY <1>4, TaskKinds
    <2> QED BY <1>1, <1>3, <2>1, MainTask DEF Typed
  <1>6. Typed'
    BY <1>2, <1>3, <1>5 DEF Typed
  <1>7. Rows'
    BY <1>2, <1>3, <1>5, RowsRest
  <1>8. Undisturbed'
    BY <1>2, <1>3, DaysRest
  <1> QED BY <1>6, <1>7, <1>8 DEF IInv

-----------------------------------------------------------------------------
(* Questions and deletions                                                  *)

LEMMA AskKeeps ==
    ASSUME IInv, NEW kind \in {"row", "rows"}, NEW rows \in SUBSET (1 .. Len(shown)),
           Ask(kind, rows), selected' \subseteq 1 .. Len(shown)
    PROVE  IInv'
  <1>1. /\ acts < MaxActs /\ acts' = acts + 1
        /\ alert' = [kind |-> kind, rows |-> rows, shown |-> shown]
        /\ UNCHANGED <<phase, blobs, docs, pImageURL, queue, removing, list, shown, ui,
                       main, queries, crashed, disturbed, stirred, wrong>>
    BY DEF Ask, Act, uploads, loads
  <1>2. Typed /\ Undisturbed /\ Rows
    BY DEF IInv
  <1>3. Len(shown) \in Nat /\ Len(list) \in Nat /\ rows \in SUBSET Nat
    BY <1>2 DEF Typed
  <1>4. Typed'
    <2>1. alert' \in Questions
      BY <1>1, <1>2, <1>3 DEF Typed, Questions
    <2>2. acts' \in 0 .. MaxActs
      BY <1>1, <1>2, EventsAssumption DEF Typed
    <2> QED BY <1>1, <1>2, <2>1, <2>2 DEF Typed
  <1>5. Rows'
    <2>1. rows \subseteq 1 .. Len(list)
      BY <1>2, <1>3 DEF Rows
    <2>2. alert'.rows \subseteq 1 .. Len(list')
      BY <1>1, <2>1
    <2> QED BY <1>1, <1>2, <2>2, SameSorts DEF Rows
  <1>6. Undisturbed'
    BY <1>1, <1>2, DaysRest
  <1> QED BY <1>4, <1>5, <1>6 DEF IInv

LEMMA CancelAlertKeeps ==
    ASSUME IInv, CancelAlert PROVE IInv'
  <1>1. /\ alert' = NoAlert
        /\ UNCHANGED <<phase, blobs, docs, pImageURL, queue, removing, list, shown, selected,
                       ui, main, queries, crashed, acts, disturbed, stirred, wrong>>
    BY DEF CancelAlert, uploads, table, loads, rest
  <1>2. Typed /\ Undisturbed /\ Rows
    BY DEF IInv
  <1>3. Typed'
    BY <1>1, <1>2 DEF Typed
  <1>4. Rows'
    BY <1>1, <1>2, SameSorts DEF Rows, NoAlert
  <1>5. Undisturbed'
    BY <1>1, <1>2, DaysRest
  <1> QED BY <1>3, <1>4, <1>5 DEF IInv

\* What DeleteRows does, the trap aside.
Deletes(rows, done) ==
    /\ done = Deletion(rows)
    /\ queue' = queue \o [i \in 1 .. Len(done.dates) |-> Delete(done.dates[i])]
    /\ removing' = [d \in Dates |->
                      removing[d] + Cardinality({i \in DOMAIN done.dates : done.dates[i] = d})]
    /\ list' = done.list /\ shown' = list' /\ selected' = {}
    /\ disturbed' = disturbed \cup {d \in Range(done.dates) : Active(d)}
    /\ stirred' = (stirred \/ list # alert.shown)
    /\ wrong' = (wrong \/ Range(done.dates) # {alert.shown[i] : i \in rows})
    /\ UNCHANGED <<phase, blobs, docs, pImageURL>>

\* Rows of the list are deleted.
LEMMA RowsGo ==
    ASSUME IInv, NEW rows \in SUBSET (1 .. Len(list)), NEW done, Deletes(rows, done),
           crashed' \in BOOLEAN, alert' = NoAlert,
           ui' \in [form : BOOLEAN, editing : BOOLEAN, buttons : BOOLEAN],
           UNCHANGED <<main, queries, acts>>
    PROVE  IInv'
  <1> DEFINE dates == done.dates
             r == [i \in 1 .. Len(dates) |-> Delete(dates[i])]
  <1>0. /\ done = Deletion(rows)
        /\ removing' = [d \in Dates |->
                removing[d] + Cardinality({i \in DOMAIN done.dates : done.dates[i] = d})]
        /\ list' = done.list /\ shown' = list' /\ selected' = {}
        /\ disturbed' = disturbed \cup {d \in Range(done.dates) : Active(d)}
        /\ stirred' = (stirred \/ list # alert.shown)
        /\ wrong' = (wrong \/ Range(done.dates) # {alert.shown[i] : i \in rows})
        /\ UNCHANGED <<phase, blobs, docs, pImageURL>>
    BY DEF Deletes
  <1>1. Typed /\ Undisturbed /\ Rows
    BY DEF IInv
  <1>2. list \in Seq(Dates) /\ queue \in Seq(Writes)
    BY <1>1 DEF Typed
  <1>3. /\ done.list \in Seq(Dates) /\ dates \in Seq(Dates)
        /\ Range(dates) = {list[i] : i \in rows}
        /\ Ascends(list) => Ascends(done.list)
    BY <1>0, <1>2, DeletionTakesRows
  <1>4. /\ Range(dates) = {dates[i] : i \in 1 .. Len(dates)} /\ DOMAIN dates = 1 .. Len(dates)
        /\ Len(dates) \in Nat /\ \A i \in 1 .. Len(dates) : dates[i] \in Dates
    BY <1>3 DEF Range
  <1>5. Range(dates) \subseteq Dates
    BY <1>4
  <1> HIDE DEF dates
  <1>6. /\ r \in Seq(Writes) /\ Len(r) = Len(dates)
        /\ \A i \in 1 .. Len(dates) : r[i].date = dates[i] /\ r[i].doc = None
    <2>1. \A i \in 1 .. Len(dates) : /\ Delete(dates[i]) \in Writes
                                     /\ Delete(dates[i]).date = dates[i]
                                     /\ Delete(dates[i]).doc = None
      BY <1>4 DEF Delete, Writes, Docs
    <2>2. r \in [1 .. Len(dates) -> Writes]
      <3> HIDE DEF Writes
      <3> QED BY <2>1
    <2> QED BY <1>4, <2>1, <2>2
  <1>7. queue' = queue \o r
    BY DEF dates, Deletes
  <1> HIDE DEF r
  <1>8. \A d \in Dates :
           /\ removing'[d] \in Nat
           /\ removing'[d] = removing[d] \/ removing'[d] > 0
           /\ d \in Range(dates) => removing'[d] > 0
           /\ d \notin Range(dates) => removing'[d] = removing[d]
    <2> SUFFICES ASSUME NEW d \in Dates
                 PROVE  /\ removing'[d] \in Nat
                        /\ removing'[d] = removing[d] \/ removing'[d] > 0
                        /\ d \in Range(dates) => removing'[d] > 0
                        /\ d \notin Range(dates) => removing'[d] = removing[d]
      OBVIOUS
    <2> DEFINE C == {i \in DOMAIN dates : dates[i] = d}
    <2>1. removing'[d] = removing[d] + Cardinality(C) /\ removing[d] \in Nat
      BY <1>0, <1>1 DEF Typed, dates
    <2>2. IsFiniteSet(C)
      <3>1. IsFiniteSet(1 .. Len(dates))
        BY <1>4, FS_Interval
      <3>2. C \in SUBSET (1 .. Len(dates))
        BY <1>4
      <3> HIDE DEF C
      <3> QED BY <3>1, <3>2, FS_Subset
    <2>3. d \in Range(dates) <=> C # {}
      BY <1>4
    <2> HIDE DEF C
    <2>4. Cardinality(C) \in Nat /\ (Cardinality(C) = 0 <=> C = {})
      BY <2>2, FS_CardinalityType, FS_EmptySet
    <2> QED BY <2>1, <2>3, <2>4
  <1>9. Typed'
    <2>1. queue' \in Seq(Writes)
      <3>1. queue \o r \in Seq(Writes)
        BY <1>2, <1>6, ConcatProperties
      <3> QED BY <1>7, <3>1
    <2>2. removing' \in [Dates -> Nat]
      BY <1>0, <1>8
    <2>3. list' \in Seq(Dates) /\ shown' \in Seq(Dates)
      BY <1>0, <1>3
    <2>4. disturbed' \subseteq Dates
      BY <1>0, <1>1, <1>5 DEF Typed, dates
    <2>5. stirred' \in BOOLEAN /\ wrong' \in BOOLEAN
      BY <1>0, <1>1 DEF Typed
    <2> QED BY <1>0, <1>1, <2>1, <2>2, <2>3, <2>4, <2>5 DEF Typed
  <1>10. Rows'
    <2>1. wrong' => stirred'
      <3> SUFFICES ASSUME wrong', ~stirred' PROVE FALSE
        OBVIOUS
      <3>1. ~stirred /\ list = alert.shown
        BY <1>0
      <3>2. ~wrong
        BY <1>1, <3>1 DEF Rows
      <3>3. Range(dates) = {alert.shown[i] : i \in rows}
        BY <1>3, <3>1
      <3> QED BY <1>0, <3>2, <3>3 DEF dates
    <2>2. NoSortDue' => Ascends(list)'
      BY <1>0, <1>1, <1>3, SameSorts DEF Rows, Ascends
    <2>3. Len(shown') <= Len(list')
      <3>1. Len(list') \in Nat
        BY <1>0, <1>3
      <3> QED BY <1>0, <3>1
    <2> QED BY <1>0, <2>1, <2>2, <2>3 DEF Rows, NoAlert
  <1>11. Undisturbed'
    <2> SUFFICES ASSUME NEW e \in Dates, e \notin disturbed' PROVE Alone(e)' /\ Settled(e)'
      BY DEF Undisturbed
    <2>1. e \notin disturbed /\ Alone(e) /\ Settled(e)
      BY <1>0, <1>1 DEF Undisturbed
    <2>2. /\ Written(e) = WrittenBy(queue, docs[e], e)
          /\ Written(e)' = WrittenBy(queue \o r, docs[e], e)
          /\ Queued(e) <=> ~NoneOf(queue, e)
          /\ Queued(e)' <=> ~NoneOf(queue \o r, e)
      <3>1. queue' \in Seq(Writes) /\ docs' = docs
        BY <1>0, <1>9 DEF Typed
      <3>2. /\ Written(e) = WrittenBy(queue, docs[e], e)
            /\ Written(e)' = WrittenBy(queue', docs'[e], e)
            /\ Queued(e) <=> ~NoneOf(queue, e)
            /\ Queued(e)' <=> ~NoneOf(queue', e)
        BY <1>2, <3>1, WrittenIs
      <3> QED BY <1>7, <3>1, <3>2
    <2>3. CASE e \notin Range(dates)
      <3>1. NoneOf(r, e)
        BY <1>4, <1>6, <2>3 DEF NoneOf
      <3>2. /\ WrittenBy(queue \o r, docs[e], e) = WrittenBy(queue, docs[e], e)
            /\ NoneOf(queue, e) => NoneOf(queue \o r, e)
        BY <1>2, <1>6, <3>1, MoreWrites
      <3>3. Written(e)' = Written(e) /\ (Queued(e)' => Queued(e))
        BY <2>2, <3>2
      <3>4. removing'[e] = removing[e] /\ blobs'[e] = blobs[e]
        BY <1>0, <1>8, <2>3
      <3>5. \A p \in Publications : DateOf[p] = e => phase'[p] = phase[p]
        BY <1>0
      <3> QED BY <2>1, <3>3, <3>4, <3>5, DayRests
    <2>4. CASE e \in Range(dates)
      <3>1. ~Active(e)
        BY <1>0, <2>4 DEF dates
      <3>2. ~Active(e)'
        BY <1>0, <3>1 DEF Active
      <3>3. ~NoneOf(r, e)
        BY <1>4, <1>6, <2>4 DEF NoneOf
      <3>4. PICK m : LastOf(r, e, m)
        BY <1>6, <3>3, NoneOrLast
      <3>5. r[m].doc = None
        BY <1>6, <3>4 DEF LastOf
      <3>6. WrittenBy(queue \o r, docs[e], e) = r[m].doc
        BY <1>2, <1>6, <3>4, MoreWrites
      <3>7. Written(e)' = None /\ removing'[e] > 0
        BY <1>8, <2>2, <2>4, <3>5, <3>6
      <3> QED BY <3>2, <3>7 DEF Alone, Settled
    <2> QED BY <2>3, <2>4
  <1> QED BY <1>9, <1>10, <1>11 DEF IInv

\* The row of the question is in the list: no index is beyond it.
LEMMA ConfirmRowKeeps ==
    ASSUME IInv, ConfirmRow PROVE IInv' /\ crashed' = FALSE
  <1>1. Typed /\ Rows
    BY DEF IInv
  <1>2. PICK rows : rows = alert.rows
    OBVIOUS
  <1>3. rows \in SUBSET (1 .. Len(list))
    BY <1>1, <1>2 DEF ConfirmRow, Rows
  <1>4. PICK done : done = Deletion(rows)
    OBVIOUS
  <1>5. DeleteRows(alert.rows, FALSE) /\ alert' = NoAlert /\ UNCHANGED <<ui, main, queries, acts>>
    BY DEF ConfirmRow, loads
  <1>6. Deletes(rows, done) /\ crashed' = (done.trap \/ FALSE)
    BY <1>2, <1>4, <1>5 DEF DeleteRows, Deletes
  <1>7. done.trap = FALSE
    BY <1>1, <1>3, <1>4, DeletionTakesRows DEF Typed
  <1>8. ui' \in [form : BOOLEAN, editing : BOOLEAN, buttons : BOOLEAN]
    BY <1>1, <1>5 DEF Typed
  <1>9. crashed' = FALSE
    BY <1>6, <1>7
  <1>10. IInv'
    <2>1. crashed' \in BOOLEAN
      BY <1>9
    <2> QED BY <1>3, <1>5, <1>6, <1>8, <2>1, RowsGo
  <1> QED BY <1>9, <1>10

LEMMA ConfirmSelectionKeeps ==
    ASSUME IInv, ConfirmSelection
    PROVE  IInv' /\ (crashed' /\ ~crashed => Len(list) # Len(shown))
  <1>1. Typed /\ Undisturbed /\ Rows
    BY DEF IInv
  <1>2. ui' \in [form : BOOLEAN, editing : BOOLEAN, buttons : BOOLEAN]
    BY <1>1 DEF ConfirmSelection, Typed
  <1>3. alert' = NoAlert /\ UNCHANGED <<main, queries, acts>>
    BY DEF ConfirmSelection, loads
  <1>4. CASE selected = {}
    <2>1. UNCHANGED <<phase, blobs, docs, pImageURL, queue, removing, list, shown, selected,
                      crashed, disturbed, stirred, wrong>>
      BY <1>4 DEF ConfirmSelection, uploads
    <2>2. Typed'
      BY <1>1, <1>2, <1>3, <2>1 DEF Typed
    <2>3. Rows'
      BY <1>1, <1>3, <2>1, SameSorts DEF Rows, NoAlert
    <2>4. Undisturbed'
      BY <1>1, <2>1, DaysRest
    <2> QED BY <2>1, <2>2, <2>3, <2>4 DEF IInv
  <1>5. CASE selected # {}
    <2>1. PICK rows : rows = selected
      OBVIOUS
    <2>2. rows \in SUBSET (1 .. Len(list))
      <3>1. Len(shown) \in Nat /\ Len(list) \in Nat
        BY <1>1 DEF Typed
      <3> QED BY <1>1, <2>1, <3>1 DEF Rows
    <2>3. PICK done : done = Deletion(rows)
      OBVIOUS
    <2>4. DeleteRows(selected, Len(list) # Len(shown))
      BY <1>5 DEF ConfirmSelection
    <2>5. Deletes(rows, done) /\ crashed' = (done.trap \/ Len(list) # Len(shown))
      BY <2>1, <2>3, <2>4 DEF DeleteRows, Deletes
    <2>6. done.trap = FALSE
      BY <1>1, <2>2, <2>3, DeletionTakesRows DEF Typed
    <2>7. crashed' = (Len(list) # Len(shown))
      BY <2>5, <2>6
    <2>8. IInv'
      <3>1. crashed' \in BOOLEAN
        BY <2>7
      <3> QED BY <1>2, <1>3, <2>2, <2>5, <3>1, RowsGo
    <2> QED BY <2>7, <2>8
  <1> QED BY <1>4, <1>5

LEMMA RestartKeeps ==
    ASSUME IInv, Restart PROVE IInv' /\ crashed' = FALSE
  <1>1. /\ acts < MaxActs /\ acts' = acts + 1
        /\ phase' = [p \in Publications |->
                        IF phase[p] \in {"putting", "stored"} THEN "failed" ELSE phase[p]]
        /\ disturbed' = disturbed \cup {d \in Dates : Active(d) \/ removing[d] > 0}
        /\ removing' = [d \in Dates |-> 0] /\ pImageURL' = None
        /\ list' = <<>> /\ shown' = <<>> /\ selected' = {} /\ ui' = Form
        /\ alert' = NoAlert /\ main' = <<>> /\ queries' = 0 /\ crashed' = FALSE
        /\ UNCHANGED <<blobs, docs, queue, stirred, wrong>>
    BY DEF Restart, Act
  <1>2. Typed /\ Undisturbed /\ Rows
    BY DEF IInv
  <1>3. Typed'
    <2>1. phase' \in [Publications -> Phases]
      BY <1>1, <1>2 DEF Typed, Phases
    <2>2. acts' \in 0 .. MaxActs
      BY <1>1, <1>2, EventsAssumption DEF Typed
    <2>3. ui' \in [form : BOOLEAN, editing : BOOLEAN, buttons : BOOLEAN]
      BY <1>1 DEF Form
    <2>4. removing' \in [Dates -> Nat] /\ disturbed' \subseteq Dates
      BY <1>1, <1>2 DEF Typed
    <2>5. list' \in Seq(Dates) /\ shown' \in Seq(Dates) /\ main' \in Seq(Tasks)
      BY <1>1
    <2> QED BY <1>1, <1>2, <2>1, <2>2, <2>3, <2>4, <2>5 DEF Typed
  <1>4. Rows'
    BY <1>1, <1>2 DEF Rows, Ascends, NoAlert
  <1>5. Undisturbed'
    <2> SUFFICES ASSUME NEW e \in Dates, e \notin disturbed' PROVE Alone(e)' /\ Settled(e)'
      BY DEF Undisturbed
    <2>1. e \notin disturbed /\ Alone(e) /\ Settled(e) /\ ~Active(e) /\ ~(removing[e] > 0)
      BY <1>1, <1>2 DEF Undisturbed
    <2>2. ~Active(e)'
      BY <1>1 DEF Active
    <2>3. Written(e)' = Written(e) /\ blobs'[e] = blobs[e] /\ removing'[e] = 0
      BY <1>1 DEF Written
    <2> QED BY <2>1, <2>2, <2>3 DEF Alone, Settled
  <1> QED BY <1>1, <1>3, <1>4, <1>5 DEF IInv

LEMMA StutterKeeps ==
    ASSUME IInv, UNCHANGED vars PROVE IInv'
  <1>1. UNCHANGED <<phase, blobs, docs, pImageURL, queue, removing, list, shown, selected, ui,
                    alert, main, queries, crashed, acts, disturbed, stirred, wrong>>
    BY DEF vars, uploads, table, loads, rest
  <1>2. Typed /\ Undisturbed /\ Rows
    BY DEF IInv
  <1>3. Typed'
    BY <1>1, <1>2 DEF Typed
  <1>4. Rows'
    BY <1>1, <1>2, RowsRest, SameSorts
  <1>5. Undisturbed'
    BY <1>1, <1>2, DaysRest
  <1> QED BY <1>3, <1>4, <1>5 DEF IInv

LEMMA NextKeeps ==
    ASSUME IInv, [Next]_vars PROVE IInv'
  <1>1. ASSUME NEW p \in Publications,
               HandleTableViewLoad(p) \/ PutCompletes(p) \/ URLArrives(p) \/ UploadFails(p)
        PROVE  IInv'
    BY <1>1, HandleTableViewLoadKeeps, PutCompletesKeeps, URLArrivesKeeps, UploadFailsKeeps
  <1>2. ASSUME NEW d \in Dates, RemovalArrives(d) \/ RemovalFails(d) PROVE IInv'
    BY <1>2, RemovalArrivesKeeps, RemovalFailsKeeps
  <1>3. ASSUME NEW i \in 1 .. Len(shown), SwipeRow(i) PROVE IInv'
    <2>1. Ask("row", {i}) /\ selected' \subseteq 1 .. Len(shown)
      BY <1>3 DEF SwipeRow, IInv, Rows
    <2>2. {i} \in SUBSET (1 .. Len(shown)) /\ "row" \in {"row", "rows"}
      OBVIOUS
    <2> QED BY <2>1, <2>2, AskKeeps
  <1>4. ASSUME NEW rows \in SUBSET (1 .. Len(shown)), DeleteButton(rows) PROVE IInv'
    <2>1. Ask("rows", rows) /\ selected' \subseteq 1 .. Len(shown)
      BY <1>4 DEF DeleteButton
    <2>2. "rows" \in {"row", "rows"}
      OBVIOUS
    <2> QED BY <2>1, <2>2, AskKeeps
  <1>5. ASSUME EditFooterButton \/ AddFooterButton \/ BarEditButton \/ BarCancelButton
        PROVE  IInv'
    BY <1>5, EditFooterButtonKeeps, ButtonsKeep
  <1>6. ASSUME RunMain \/ QueryAnswered PROVE IInv'
    BY <1>6, RunQueryKeeps, RunResultsKeeps, RunSortKeeps, QueryAnsweredKeeps DEF RunMain
  <1>7. ASSUME CancelAlert \/ ConfirmRow \/ ConfirmSelection PROVE IInv'
    BY <1>7, CancelAlertKeeps, ConfirmRowKeeps, ConfirmSelectionKeeps
  <1>8. ASSUME Commit \/ Restart PROVE IInv'
    BY <1>8, CommitKeeps, RestartKeeps
  <1> QED BY <1>1, <1>2, <1>3, <1>4, <1>5, <1>6, <1>7, <1>8, StutterKeeps DEF Next

LEMMA Invariance == Spec => []IInv
  <1>1. Init => IInv
    BY InitHolds
  <1>2. IInv /\ [Next]_vars => IInv'
    BY NextKeeps
  <1> QED BY <1>1, <1>2, PTL DEF Spec

-----------------------------------------------------------------------------

\* Every variable keeps its type: no deletion counts below zero, no selection
\* is beyond the rows of the table, whatever loads and deletions do.
THEOREM TypeCorrect == Spec => []TypeOK
  <1>1. IInv => TypeOK
    BY TypeIs
  <1> QED BY <1>1, Invariance, PTL

\* A day without work left on it, and undisturbed, has an event whose title and
\* image are of one publication, with that image in Storage, or has neither.
THEOREM EventsKeepTheirImages == Spec => []EventKeepsItsImage
  <1>1. IInv => EventKeepsItsImage
    <2> SUFFICES ASSUME IInv, NEW d \in Dates,
                        ~Active(d), ~Queued(d), removing[d] = 0, d \notin disturbed
                 PROVE  /\ docs[d] # None => docs[d].title = blobs[d] /\ docs[d].image = blobs[d]
                        /\ docs[d] = None => blobs[d] = None
      BY DEF EventKeepsItsImage
    <2>1. Settled(d) /\ queue \in Seq(Writes)
      BY DEF IInv, Undisturbed, Typed
    <2>2. NoneOf(queue, d)
      BY <2>1, WrittenIs
    <2>3. WrittenBy(queue, docs[d], d) = docs[d]
      BY <2>1, <2>2, NoWrite
    <2>4. Written(d) = docs[d]
      BY <2>3, WrittenIs
    <2> QED BY <2>1, <2>4 DEF Settled
  <1> QED BY <1>1, Invariance, PTL

\* Outside a load the table has the rows of the list in order; and deleting the
\* rows of a question deletes the events shown in them unless the list changed
\* under the question.
THEOREM RowsReliable == Spec => []RowsAreReliable
  <1>1. IInv => RowsAreReliable
    <2> SUFFICES ASSUME IInv PROVE RowsSorted /\ SelectionDeletesItsRows
      BY DEF RowsAreReliable
    <2>1. Rows
      BY DEF IInv
    <2>2. ~Loading => NoSortDue
      BY DEF Loading, NoSortDue
    <2>3. RowsSorted
      BY <2>1, <2>2 DEF Rows, RowsSorted, Ascends
    <2>4. SelectionDeletesItsRows
      BY <2>1 DEF Rows, SelectionDeletesItsRows
    <2> QED BY <2>3, <2>4
  <1> QED BY <1>1, Invariance, PTL

\* The application ends in a deletion only while a load has appended to the list
\* and not yet reloaded the table; the order of the rows never does it.
THEOREM CrashesNeedHalfLoad == Spec => CrashNeedsHalfLoad
  <1>1. ASSUME IInv, [Next]_vars, crashed', ~crashed
        PROVE  \E i \in DOMAIN main : main[i] = Sort
    <2>1. ConfirmSelection
      <3>1. ~(\E p \in Publications : \/ HandleTableViewLoad(p) \/ PutCompletes(p)
                                       \/ URLArrives(p) \/ UploadFails(p))
        BY <1>1 DEF HandleTableViewLoad, PutCompletes, URLArrives, UploadFails, rest
      <3>2. ~(\E d \in Dates : RemovalArrives(d) \/ RemovalFails(d))
        BY <1>1 DEF RemovalArrives, RemovalFails, rest
      <3>3. ~(\E i \in 1 .. Len(shown) : SwipeRow(i))
        BY <1>1 DEF SwipeRow, Ask
      <3>4. ~(\E rows \in SUBSET (1 .. Len(shown)) : DeleteButton(rows))
        BY <1>1 DEF DeleteButton, Ask
      <3>5. ~EditFooterButton /\ ~AddFooterButton /\ ~BarEditButton /\ ~BarCancelButton
        BY <1>1 DEF EditFooterButton, AddFooterButton, BarEditButton, BarCancelButton, rest
      <3>6. ~RunMain /\ ~QueryAnswered
        BY <1>1 DEF RunMain, RunQuery, RunResults, RunSort, QueryAnswered, rest
      <3>7. ~CancelAlert /\ ~Commit
        BY <1>1 DEF CancelAlert, Commit, rest
      <3>8. ~ConfirmRow /\ ~Restart
        BY <1>1, ConfirmRowKeeps, RestartKeeps
      <3>9. ~UNCHANGED vars
        BY <1>1 DEF vars, rest
      <3> QED BY <1>1, <3>1, <3>2, <3>3, <3>4, <3>5, <3>6, <3>7, <3>8, <3>9 DEF Next
    <2>2. Len(list) # Len(shown)
      BY <1>1, <2>1, ConfirmSelectionKeeps
    <2>3. ~NoSortDue
      BY <1>1, <2>2 DEF IInv, Rows
    <2>4. main \in Seq(Tasks)
      BY <1>1 DEF IInv, Typed
    <2> QED BY <2>3, <2>4 DEF NoSortDue
  <1> QED BY <1>1, Invariance, PTL DEF Spec, CrashNeedsHalfLoad

=============================================================================
