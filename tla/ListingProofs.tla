---------------------------- MODULE ListingProofs ----------------------------
(***************************************************************************)
(* Types of Listing; what its tables show; why the application may end and *)
(* that taps and deletions mean the rows shown: for any collection,        *)
(* sections and bounds.                                                    *)
(***************************************************************************)
EXTENDS Listing, FiniteSetTheorems, TLAPS

-----------------------------------------------------------------------------
(* Finite sets in order                                                     *)

\* R, a set of pairs, orders S strictly and totally.
Orders(R, S) ==
    /\ \A x \in S : <<x, x>> \notin R
    /\ \A x, y \in S : x # y => <<x, y>> \in R \/ <<y, x>> \in R
    /\ \A x, y, z \in S : <<x, y>> \in R /\ <<y, z>> \in R => <<x, z>> \in R

Below(x, R, S) == {y \in S : <<y, x>> \in R}

LEMMA BelowGrows ==
    ASSUME NEW S, IsFiniteSet(S), NEW R, Orders(R, S),
           NEW x \in S, NEW y \in S, <<x, y>> \in R
    PROVE  /\ Cardinality(Below(x, R, S)) \in Nat
           /\ Cardinality(Below(y, R, S)) \in Nat
           /\ Cardinality(Below(x, R, S)) < Cardinality(Below(y, R, S))
  <1>1. IsFiniteSet(Below(y, R, S))
    BY FS_Subset DEF Below
  <1>2. Below(x, R, S) \subseteq Below(y, R, S)
    BY DEF Below, Orders
  <1>3. x \in Below(y, R, S) /\ x \notin Below(x, R, S)
    BY DEF Below, Orders
  <1>4. /\ IsFiniteSet(Below(x, R, S))
        /\ Cardinality(Below(x, R, S)) <= Cardinality(Below(y, R, S))
        /\ Cardinality(Below(x, R, S)) # Cardinality(Below(y, R, S))
    BY <1>1, <1>2, <1>3, FS_Subset
  <1>5. /\ Cardinality(Below(x, R, S)) \in Nat
        /\ Cardinality(Below(y, R, S)) \in Nat
    BY <1>1, <1>4, FS_CardinalityType
  <1> QED BY <1>4, <1>5

\* The numbers of elements below are those from 0 up, each taken once.
LEMMA Ranks ==
    ASSUME NEW S, IsFiniteSet(S), NEW R, Orders(R, S)
    PROVE  /\ Cardinality(S) \in Nat
           /\ \A n \in 1 .. Cardinality(S) :
                 \E x \in S : Cardinality(Below(x, R, S)) = n - 1
           /\ \A x \in S : Cardinality(Below(x, R, S)) + 1 \in 1 .. Cardinality(S)
  <1> DEFINE N == Cardinality(S)
             rank == [x \in S |-> Cardinality(Below(x, R, S)) + 1]
  <1>1. N \in Nat
    BY FS_CardinalityType
  <1>2. \A x \in S : Cardinality(Below(x, R, S)) + 1 \in 1 .. N
    <2> SUFFICES ASSUME NEW x \in S
                 PROVE  Cardinality(Below(x, R, S)) + 1 \in 1 .. N
      OBVIOUS
    <2>1. Below(x, R, S) \in SUBSET S /\ Below(x, R, S) # S
      BY DEF Below, Orders
    <2>2. /\ IsFiniteSet(Below(x, R, S))
          /\ Cardinality(Below(x, R, S)) <= N /\ Cardinality(Below(x, R, S)) # N
      BY <2>1, FS_Subset
    <2>3. Cardinality(Below(x, R, S)) \in Nat
      BY <2>2, FS_CardinalityType
    <2> QED BY <1>1, <2>2, <2>3
  <1>3. rank \in Injection(S, 1 .. N)
    <2>1. rank \in [S -> 1 .. N]
      BY <1>2
    <2>2. \A x, y \in S : rank[x] = rank[y] => x = y
      <3> SUFFICES ASSUME NEW x \in S, NEW y \in S, rank[x] = rank[y], x # y
                   PROVE  FALSE
        OBVIOUS
      <3>1. <<x, y>> \in R \/ <<y, x>> \in R
        BY DEF Orders
      <3>2. CASE <<x, y>> \in R
        BY <3>2, BelowGrows
      <3>3. CASE <<y, x>> \in R
        BY <3>3, BelowGrows
      <3> QED BY <3>1, <3>2, <3>3
    <2> QED BY <2>1, <2>2 DEF Injection, IsInjective
  <1>4. IsFiniteSet(1 .. N) /\ Cardinality(1 .. N) = N
    <2>1. /\ IsFiniteSet(1 .. N)
          /\ Cardinality(1 .. N) = IF 1 > N THEN 0 ELSE N - 1 + 1
      BY <1>1, FS_Interval
    <2> QED BY <1>1, <2>1
  <1>5. rank \in Surjection(S, 1 .. N)
    BY <1>3, <1>4, FS_Injection
  <1>6. \A n \in 1 .. N : \E x \in S : rank[x] = n
    BY <1>5 DEF Surjection
  <1>7. \A n \in 1 .. N : \E x \in S : Cardinality(Below(x, R, S)) = n - 1
    <2> SUFFICES ASSUME NEW n \in 1 .. N
                 PROVE  \E x \in S : Cardinality(Below(x, R, S)) = n - 1
      OBVIOUS
    <2>1. PICK x \in S : Cardinality(Below(x, R, S)) + 1 = n
      BY <1>6
    <2>2. Cardinality(Below(x, R, S)) \in Nat
      <3>1. IsFiniteSet(Below(x, R, S))
        BY FS_Subset DEF Below
      <3> QED BY <3>1, FS_CardinalityType
    <2> QED BY <2>1, <2>2
  <1> QED BY <1>1, <1>2, <1>7

\* Listing the elements by the number of those below lists each once, in order.
LEMMA Ordered ==
    ASSUME NEW S, IsFiniteSet(S), NEW R, Orders(R, S),
           NEW f \in [1 .. Cardinality(S) -> S],
           \A n \in 1 .. Cardinality(S) : Cardinality(Below(f[n], R, S)) = n - 1
    PROVE  /\ \A i, j \in 1 .. Cardinality(S) : i < j => <<f[i], f[j]>> \in R
           /\ f \in Surjection(1 .. Cardinality(S), S)
  <1> DEFINE N == Cardinality(S)
  <1>1. N \in Nat
    BY Ranks
  <1>2. \A n \in 1 .. N : f[n] \in S /\ Cardinality(Below(f[n], R, S)) = n - 1
    OBVIOUS
  <1>3. \A i, j \in 1 .. N : i < j => <<f[i], f[j]>> \in R
    <2> SUFFICES ASSUME NEW i \in 1 .. N, NEW j \in 1 .. N, i < j
                 PROVE  <<f[i], f[j]>> \in R
      OBVIOUS
    <2>1. f[i] # f[j]
      BY <1>1, <1>2
    <2>2. CASE <<f[j], f[i]>> \in R
      <3>1. Cardinality(Below(f[j], R, S)) < Cardinality(Below(f[i], R, S))
        BY <1>2, <2>2, BelowGrows
      <3> QED BY <1>1, <1>2, <3>1
    <2> QED BY <1>2, <2>1, <2>2 DEF Orders
  <1>4. \A x \in S : \E i \in 1 .. N : f[i] = x
    <2> SUFFICES ASSUME NEW x \in S
                 PROVE  \E i \in 1 .. N : f[i] = x
      OBVIOUS
    <2>1. PICK i \in 1 .. N : Cardinality(Below(x, R, S)) + 1 = i
      BY Ranks
    <2>2. f[i] \in S /\ Cardinality(Below(f[i], R, S)) + 1 = i
      BY <1>1, <1>2
    <2>3. CASE x # f[i]
      <3>1. <<x, f[i]>> \in R \/ <<f[i], x>> \in R
        BY <2>2, <2>3 DEF Orders
      <3>2. CASE <<x, f[i]>> \in R
        BY <2>1, <2>2, <3>2, BelowGrows
      <3>3. CASE <<f[i], x>> \in R
        BY <2>1, <2>2, <3>3, BelowGrows
      <3> QED BY <3>1, <3>2, <3>3
    <2> QED BY <2>1, <2>3
  <1>5. f \in Surjection(1 .. N, S)
    BY <1>4 DEF Surjection
  <1> QED BY <1>3, <1>5

\* A set of numbers listed upwards.
LEMMA AscendingLists ==
    ASSUME NEW S \in SUBSET Nat, IsFiniteSet(S)
    PROVE  /\ Ascending(S) \in Seq(S)
           /\ \A i, j \in 1 .. Len(Ascending(S)) :
                 i < j => Ascending(S)[i] < Ascending(S)[j]
           /\ \A x \in S : \E i \in 1 .. Len(Ascending(S)) : Ascending(S)[i] = x
  <1> DEFINE R == {p \in S \X S : p[1] < p[2]}
             N == Cardinality(S)
  <1>1. Orders(R, S)
    BY DEF Orders
  <1>2. \A x \in S : {y \in S : y < x} = Below(x, R, S)
    BY DEF Below
  <1>3. /\ N \in Nat
        /\ \A k \in 1 .. N : \E x \in S : Cardinality(Below(x, R, S)) = k - 1
    <2> HIDE DEF R
    <2> QED BY <1>1, Ranks
  <1>4. \A k \in 1 .. N : \E x \in S : Cardinality({y \in S : y < x}) = k - 1
    BY <1>2, <1>3
  <1>5. Ascending(S) = [k \in 1 .. N |->
                CHOOSE x \in S : Cardinality({y \in S : y < x}) = k - 1]
    BY DEF Ascending, InOrder
  <1>6. \A k \in 1 .. N : /\ Ascending(S)[k] \in S
                          /\ Cardinality({y \in S : y < Ascending(S)[k]}) = k - 1
    BY <1>4, <1>5
  <1>7. \A k \in 1 .. N : Cardinality(Below(Ascending(S)[k], R, S)) = k - 1
    BY <1>2, <1>6
  <1>8. Ascending(S) \in [1 .. N -> S]
    BY <1>5, <1>6
  <1>9. /\ \A i, j \in 1 .. N : i < j => <<Ascending(S)[i], Ascending(S)[j]>> \in R
        /\ \A x \in S : \E i \in 1 .. N : Ascending(S)[i] = x
    <2> DEFINE f == Ascending(S)
    <2>1. /\ f \in [1 .. Cardinality(S) -> S]
          /\ \A k \in 1 .. Cardinality(S) : Cardinality(Below(f[k], R, S)) = k - 1
      BY <1>7, <1>8
    <2> HIDE DEF f, R
    <2>2. \A i, j \in 1 .. Cardinality(S) : i < j => <<f[i], f[j]>> \in R
      BY <1>1, <2>1, Ordered
    <2>3. f \in Surjection(1 .. Cardinality(S), S)
      BY <1>1, <2>1, Ordered
    <2>4. \A x \in S : \E i \in 1 .. Cardinality(S) : f[i] = x
      BY <2>3 DEF Surjection
    <2> QED BY <2>2, <2>4 DEF f
  <1>10. Ascending(S) \in Seq(S) /\ Len(Ascending(S)) = N
    BY <1>3, <1>8
  <1>11. \A i, j \in 1 .. N : i < j => Ascending(S)[i] < Ascending(S)[j]
    BY <1>9
  <1> QED BY <1>9, <1>10, <1>11

\* Place i comes before place j when sorting by the keys, those alike as they stand.
Sooner(key, i, j) == key[i] < key[j] \/ (key[i] = key[j] /\ i < j)

\* The number of places before each are those from 0 up, each taken once.
LEMMA PlaceRanks ==
    ASSUME NEW n \in Nat, NEW S \in SUBSET (1 .. n), NEW key \in [1 .. n -> Int]
    PROVE  /\ IsFiniteSet(S) /\ Cardinality(S) \in Nat
           /\ \A k \in 1 .. Cardinality(S) :
                 \E x \in S : Cardinality({y \in S : Sooner(key, y, x)}) = k - 1
           /\ \A f \in [1 .. Cardinality(S) -> S] :
                 (\A k \in 1 .. Cardinality(S) :
                     Cardinality({y \in S : Sooner(key, y, f[k])}) = k - 1)
                 => /\ \A i, j \in 1 .. Cardinality(S) : i < j => Sooner(key, f[i], f[j])
                    /\ \A x \in S : \E i \in 1 .. Cardinality(S) : f[i] = x
  <1> DEFINE R == {p \in S \X S : Sooner(key, p[1], p[2])}
             N == Cardinality(S)
  <1>1. IsFiniteSet(S)
    <2>1. IsFiniteSet(1 .. n)
      BY FS_Interval
    <2> QED BY <2>1, FS_Subset
  <1>2. \A x \in S : x \in Int /\ key[x] \in Int
    OBVIOUS
  <1>3. Orders(R, S)
    <2>1. \A x, y \in S : <<x, y>> \in R <=> Sooner(key, x, y)
      OBVIOUS
    <2> HIDE DEF R
    <2>2. \A x \in S : ~Sooner(key, x, x)
      BY <1>2 DEF Sooner
    <2>3. \A x, y \in S : x # y => Sooner(key, x, y) \/ Sooner(key, y, x)
      BY <1>2 DEF Sooner
    <2>4. \A x, y, z \in S : Sooner(key, x, y) /\ Sooner(key, y, z) => Sooner(key, x, z)
      BY <1>2 DEF Sooner
    <2> QED BY <2>1, <2>2, <2>3, <2>4 DEF Orders
  <1>4. \A x \in S : {y \in S : Sooner(key, y, x)} = Below(x, R, S)
    BY DEF Below
  <1>5. /\ N \in Nat
        /\ \A k \in 1 .. N : \E x \in S : Cardinality(Below(x, R, S)) = k - 1
    <2> HIDE DEF R
    <2> QED BY <1>1, <1>3, Ranks
  <1>6. \A k \in 1 .. N : \E x \in S : Cardinality({y \in S : Sooner(key, y, x)}) = k - 1
    BY <1>4, <1>5
  <1>7. ASSUME NEW f \in [1 .. N -> S],
               \A k \in 1 .. N : Cardinality({y \in S : Sooner(key, y, f[k])}) = k - 1
        PROVE  /\ \A i, j \in 1 .. N : i < j => Sooner(key, f[i], f[j])
               /\ \A x \in S : \E i \in 1 .. N : f[i] = x
    <2>1. \A k \in 1 .. N : Cardinality(Below(f[k], R, S)) = k - 1
      BY <1>4, <1>7
    <2>2. \A x, y \in S : <<x, y>> \in R => Sooner(key, x, y)
      OBVIOUS
    <2> HIDE DEF R
    <2>3. /\ \A i, j \in 1 .. Cardinality(S) : i < j => <<f[i], f[j]>> \in R
          /\ f \in Surjection(1 .. Cardinality(S), S)
      BY <1>1, <1>3, <1>7, <2>1, Ordered
    <2>4. \A x \in S : \E i \in 1 .. Cardinality(S) : f[i] = x
      BY <2>3 DEF Surjection
    <2> QED BY <2>2, <2>3, <2>4
  <1> HIDE DEF R
  <1> QED BY <1>1, <1>5, <1>6, <1>7

-----------------------------------------------------------------------------
(* Rows taken from a list                                                   *)

\* t has the rows at the places in S, each place once, as at lists them.
Picks(t, rows, S, at) ==
    /\ at \in [1 .. Len(t) -> S]
    /\ \A i, j \in 1 .. Len(t) : at[i] = at[j] => i = j
    /\ \A x \in S : \E i \in 1 .. Len(t) : at[i] = x
    /\ \A i \in 1 .. Len(t) : t[i] = rows[at[i]]

LEMMA RowTypes == \A r \in Rows : r.id \in Photos /\ r.id \in Int
  <1>1. \A r \in Rows : r.id \in Photos
    BY DEF Rows
  <1>2. \A p \in Photos : p \in Int
    BY ListingAssumption
  <1> QED BY <1>1, <1>2

LEMMA RowsPicked ==
    ASSUME NEW rows \in Seq(Rows), NEW S \in SUBSET (1 .. Len(rows)), NEW at \in Seq(S),
           \A i, j \in 1 .. Len(at) : at[i] = at[j] => i = j,
           \A x \in S : \E i \in 1 .. Len(at) : at[i] = x
    PROVE  /\ RowsAt(rows, at) \in Seq(Rows) /\ Len(RowsAt(rows, at)) = Len(at)
           /\ Picks(RowsAt(rows, at), rows, S, at)
  <1>1. /\ Len(at) \in Nat /\ DOMAIN at = 1 .. Len(at) /\ at \in [1 .. Len(at) -> S]
        /\ \A i \in 1 .. Len(at) : at[i] \in S /\ rows[at[i]] \in Rows
    <2>1. /\ Len(at) \in Nat /\ DOMAIN at = 1 .. Len(at) /\ at \in [1 .. Len(at) -> S]
          /\ \A i \in 1 .. Len(at) : at[i] \in S
      OBVIOUS
    <2>2. \A x \in S : rows[x] \in Rows
      OBVIOUS
    <2> QED BY <2>1, <2>2
  <1>2. RowsAt(rows, at) = [i \in 1 .. Len(at) |-> rows[at[i]]]
    BY <1>1 DEF RowsAt
  <1>3. RowsAt(rows, at) \in [1 .. Len(at) -> Rows]
    BY <1>1, <1>2
  <1>4. RowsAt(rows, at) \in Seq(Rows) /\ Len(RowsAt(rows, at)) = Len(at)
    BY <1>1, <1>3
  <1>5. \A i \in 1 .. Len(at) : RowsAt(rows, at)[i] = rows[at[i]]
    BY <1>2
  <1> QED BY <1>1, <1>4, <1>5 DEF Picks

\* The rows at some places, in the order they have.
LEMMA AscendingPicks ==
    ASSUME NEW rows \in Seq(Rows), NEW S \in SUBSET (1 .. Len(rows))
    PROVE  /\ RowsAt(rows, Ascending(S)) \in Seq(Rows)
           /\ Picks(RowsAt(rows, Ascending(S)), rows, S, Ascending(S))
           /\ \A i, j \in 1 .. Len(RowsAt(rows, Ascending(S))) :
                 i < j => Ascending(S)[i] < Ascending(S)[j]
  <1>1. S \in SUBSET Nat /\ IsFiniteSet(S)
    <2>1. IsFiniteSet(1 .. Len(rows)) /\ S \in SUBSET Nat
      BY FS_Interval
    <2> QED BY <2>1, FS_Subset
  <1>2. /\ Ascending(S) \in Seq(S)
        /\ \A i, j \in 1 .. Len(Ascending(S)) : i < j => Ascending(S)[i] < Ascending(S)[j]
        /\ \A x \in S : \E i \in 1 .. Len(Ascending(S)) : Ascending(S)[i] = x
    BY <1>1, AscendingLists
  <1>3. \A i, j \in 1 .. Len(Ascending(S)) : Ascending(S)[i] = Ascending(S)[j] => i = j
    <2>1. /\ Len(Ascending(S)) \in Nat
          /\ \A i \in 1 .. Len(Ascending(S)) : Ascending(S)[i] \in S
      BY <1>2
    <2>2. \A i \in 1 .. Len(Ascending(S)) : Ascending(S)[i] \in Nat
      BY <1>1, <2>1
    <2>3. \A i, j \in 1 .. Len(Ascending(S)) : i = j \/ i < j \/ j < i
      BY <2>1
    <2> QED BY <1>2, <2>2, <2>3
  <1>4. /\ RowsAt(rows, Ascending(S)) \in Seq(Rows)
        /\ Len(RowsAt(rows, Ascending(S))) = Len(Ascending(S))
        /\ Picks(RowsAt(rows, Ascending(S)), rows, S, Ascending(S))
    BY <1>2, <1>3, RowsPicked
  <1> QED BY <1>2, <1>4

\* Each screen sorts by a number of the row's document.
LEMMA SortKeys ==
    ASSUME kind \in Kinds
    PROVE  \E key \in [Photos -> Int] :
              \A r, s \in Rows : Precedes(r, s) <=> key[r.id] < key[s.id]
  <1>1. \A r \in Rows : r.id \in Photos /\ r.id \in Int
    BY RowTypes
  <1>2. CASE kind = "VC_Events"
    <2> DEFINE key == [p \in Photos |-> p]
    <2>1. key \in [Photos -> Int] /\ \A r \in Rows : key[r.id] = r.id
      BY <1>1, ListingAssumption
    <2>2. \A r, s \in Rows : Precedes(r, s) <=> key[r.id] < key[s.id]
      BY <1>2, <2>1 DEF Precedes, GalleryScreens, EditScreens
    <2> QED BY <2>1, <2>2
  <1>3. CASE kind \in GalleryScreens
    <2> DEFINE key == [p \in Photos |-> 0 - p]
    <2>1. key \in [Photos -> Int] /\ \A r \in Rows : key[r.id] = 0 - r.id
      BY <1>1, ListingAssumption
    <2>2. \A r, s \in Rows : Precedes(r, s) <=> r.id > s.id
      BY <1>3 DEF Precedes, GalleryScreens, EditScreens
    <2>3. \A r, s \in Rows : r.id > s.id <=> 0 - r.id < 0 - s.id
      BY <1>1
    <2> HIDE DEF key
    <2>4. \A r, s \in Rows : Precedes(r, s) <=> key[r.id] < key[s.id]
      BY <2>1, <2>2, <2>3
    <2> QED BY <2>1, <2>4
  <1>4. CASE kind = "VC_FoodMenu"
    <2>1. Category \in [Photos -> Int]
      BY ListingAssumption
    <2>2. \A r, s \in Rows : Precedes(r, s) <=> Category[r.id] < Category[s.id]
      BY <1>4 DEF Precedes, GalleryScreens, EditScreens
    <2> QED BY <2>1, <2>2
  <1> QED BY <1>2, <1>3, <1>4 DEF Kinds, GalleryScreens, EditScreens

\* Sorting takes each place once, in the screen's order.
LEMMA ArrangedPicks ==
    ASSUME kind \in Kinds, NEW rows \in Seq(Rows), NEW S \in SUBSET (1 .. Len(rows))
    PROVE  /\ Arranged(rows, S) \in Seq(Rows)
           /\ \E at \in Seq(S) :
                 /\ Picks(Arranged(rows, S), rows, S, at)
                 /\ \A i, j \in 1 .. Len(Arranged(rows, S)) : i < j =>
                       LET r == Arranged(rows, S)[i]
                           s == Arranged(rows, S)[j]
                       IN  Precedes(r, s) \/ (~Precedes(s, r) /\ at[i] < at[j])
  <1>1. PICK of \in [Photos -> Int] :
            \A r, s \in Rows : Precedes(r, s) <=> of[r.id] < of[s.id]
    BY SortKeys
  <1> DEFINE key == [i \in 1 .. Len(rows) |-> of[rows[i].id]]
             before(i, j) == Precedes(rows[i], rows[j])
                             \/ (~Precedes(rows[j], rows[i]) /\ i < j)
             N == Cardinality(S)
             at == [k \in 1 .. N |->
                      CHOOSE x \in S : Cardinality({y \in S : before(y, x)}) = k - 1]
  <1>2. /\ Len(rows) \in Nat
        /\ \A i \in 1 .. Len(rows) : rows[i] \in Rows /\ rows[i].id \in Photos
    BY RowTypes
  <1>3. key \in [1 .. Len(rows) -> Int]
    BY <1>2
  <1>4. \A i, j \in 1 .. Len(rows) : before(i, j) <=> Sooner(key, i, j)
    <2> SUFFICES ASSUME NEW i \in 1 .. Len(rows), NEW j \in 1 .. Len(rows)
                 PROVE  before(i, j) <=> Sooner(key, i, j)
      OBVIOUS
    <2>1. /\ Precedes(rows[i], rows[j]) <=> key[i] < key[j]
          /\ Precedes(rows[j], rows[i]) <=> key[j] < key[i]
      BY <1>1, <1>2
    <2>2. key[i] \in Int /\ key[j] \in Int
      BY <1>3
    <2> HIDE DEF key
    <2> QED BY <2>1, <2>2 DEF Sooner
  <1> HIDE DEF key
  <1>5. \A x \in S : {y \in S : before(y, x)} = {y \in S : Sooner(key, y, x)}
    BY <1>4
  <1>6. /\ N \in Nat
        /\ \A k \in 1 .. N :
              \E x \in S : Cardinality({y \in S : Sooner(key, y, x)}) = k - 1
    BY <1>2, <1>3, PlaceRanks
  <1>7. \A k \in 1 .. N : \E x \in S : Cardinality({y \in S : before(y, x)}) = k - 1
    <2> HIDE DEF before
    <2> QED BY <1>5, <1>6
  <1>8. \A k \in 1 .. N :
            at[k] \in S /\ Cardinality({y \in S : before(y, at[k])}) = k - 1
    <2> HIDE DEF before
    <2> QED BY <1>7
  <1>9. Arranged(rows, S) = RowsAt(rows, at)
    BY DEF Arranged, InOrder
  <1> HIDE DEF before
  <1>10. at \in [1 .. N -> S]
    BY <1>8
  <1> HIDE DEF at
  <1>11. \A k \in 1 .. N : Cardinality({y \in S : Sooner(key, y, at[k])}) = k - 1
    BY <1>5, <1>8
  <1>12. /\ \A i, j \in 1 .. N : i < j => Sooner(key, at[i], at[j])
         /\ \A x \in S : \E i \in 1 .. N : at[i] = x
    <2>1. \A f \in [1 .. N -> S] :
              (\A k \in 1 .. N : Cardinality({y \in S : Sooner(key, y, f[k])}) = k - 1)
              => /\ \A i, j \in 1 .. N : i < j => Sooner(key, f[i], f[j])
                 /\ \A x \in S : \E i \in 1 .. N : f[i] = x
      BY <1>2, <1>3, PlaceRanks
    <2> QED BY <1>10, <1>11, <2>1
  <1>13. at \in Seq(S) /\ Len(at) = N
    BY <1>6, <1>10
  <1>14. \A x \in S : x \in Int /\ key[x] \in Int
    BY <1>2, <1>3
  <1>15. \A i, j \in 1 .. Len(at) : at[i] = at[j] => i = j
    <2>1. \A x \in S : ~Sooner(key, x, x)
      BY <1>14 DEF Sooner
    <2>2. \A i, j \in 1 .. N : i = j \/ i < j \/ j < i
      BY <1>6
    <2> QED BY <1>10, <1>12, <1>13, <2>1, <2>2
  <1>16. /\ RowsAt(rows, at) \in Seq(Rows) /\ Len(RowsAt(rows, at)) = Len(at)
         /\ Picks(RowsAt(rows, at), rows, S, at)
    BY <1>12, <1>13, <1>15, RowsPicked
  <1>17. \A i, j \in 1 .. N : i < j =>
            Precedes(rows[at[i]], rows[at[j]])
            \/ (~Precedes(rows[at[j]], rows[at[i]]) /\ at[i] < at[j])
    BY <1>4, <1>10, <1>12 DEF before
  <1>18. \A i \in 1 .. N : RowsAt(rows, at)[i] = rows[at[i]]
    BY <1>13, <1>16 DEF Picks
  <1>19. /\ Picks(Arranged(rows, S), rows, S, at)
         /\ \A i, j \in 1 .. Len(Arranged(rows, S)) : i < j =>
               \/ Precedes(Arranged(rows, S)[i], Arranged(rows, S)[j])
               \/ ~Precedes(Arranged(rows, S)[j], Arranged(rows, S)[i]) /\ at[i] < at[j]
    <2> DEFINE t == RowsAt(rows, at)
    <2>1. Len(t) = N /\ \A i \in 1 .. N : t[i] = rows[at[i]]
      BY <1>13, <1>16, <1>18
    <2> HIDE DEF t
    <2>2. \A i, j \in 1 .. Len(t) : i < j =>
             Precedes(t[i], t[j]) \/ (~Precedes(t[j], t[i]) /\ at[i] < at[j])
      BY <1>17, <2>1
    <2> QED BY <1>9, <1>16, <2>2 DEF t
  <1> QED BY <1>9, <1>13, <1>16, <1>19

-----------------------------------------------------------------------------
(* Counting rows and blocks                                                 *)

\* The rows of a photo.
Placed(rows, p) == {i \in 1 .. Len(rows) : rows[i].id = p}

Climbs(rows) == \A i, j \in 1 .. Len(rows) : i < j => rows[i].id < rows[j].id

LEMMA PlacedFinite ==
    ASSUME NEW rows \in Seq(Rows), NEW p
    PROVE  IsFiniteSet(Placed(rows, p)) /\ Cardinality(Placed(rows, p)) \in Nat
  <1>1. IsFiniteSet(1 .. Len(rows))
    BY FS_Interval
  <1>2. IsFiniteSet(Placed(rows, p))
    BY <1>1, FS_Subset DEF Placed
  <1> QED BY <1>2, FS_CardinalityType

\* Sorting and filtering do not add rows of a photo.
LEMMA PicksNoMore ==
    ASSUME NEW rows \in Seq(Rows), NEW S \in SUBSET (1 .. Len(rows)),
           NEW t \in Seq(Rows), NEW at, Picks(t, rows, S, at), NEW p
    PROVE  Cardinality(Placed(t, p)) <= Cardinality(Placed(rows, p))
  <1> DEFINE f == [i \in Placed(t, p) |-> at[i]]
  <1>1. \A i \in Placed(t, p) : at[i] \in Placed(rows, p)
    BY DEF Picks, Placed
  <1>2. \A i, j \in Placed(t, p) : at[i] = at[j] => i = j
    BY DEF Picks, Placed
  <1>3. f \in Injection(Placed(t, p), Placed(rows, p))
    BY <1>1, <1>2 DEF Injection, IsInjective
  <1> QED BY <1>3, PlacedFinite, FS_Injection

\* Appending the documents of a load adds one row at most.
LEMMA PlacedJoined ==
    ASSUME NEW rows \in Seq(Rows), NEW more \in Seq(Rows), Climbs(more), NEW p
    PROVE  /\ rows \o more \in Seq(Rows)
           /\ Cardinality(Placed(rows \o more, p)) <= Cardinality(Placed(rows, p)) + 1
  <1> DEFINE n == Len(rows)
             both == rows \o more
  <1>1. /\ n \in Nat /\ Len(more) \in Nat /\ both \in Seq(Rows)
        /\ Len(both) = n + Len(more)
        /\ \A i \in 1 .. n : both[i] = rows[i]
        /\ \A i \in 1 .. Len(more) : both[n + i] = more[i]
    OBVIOUS
  <1> HIDE DEF both
  <1>2. IsFiniteSet(Placed(rows, p)) /\ Cardinality(Placed(rows, p)) \in Nat
    BY PlacedFinite
  <1>3. \A i \in Placed(both, p) :
            i \in Placed(rows, p)
            \/ \E j \in 1 .. Len(more) : i = n + j /\ more[j].id = p
    <2> SUFFICES ASSUME NEW i \in Placed(both, p), i \notin Placed(rows, p)
                 PROVE  \E j \in 1 .. Len(more) : i = n + j /\ more[j].id = p
      OBVIOUS
    <2>1. i \in 1 .. n + Len(more) /\ both[i].id = p
      BY <1>1 DEF Placed
    <2>2. i \notin 1 .. n
      BY <1>1, <2>1 DEF Placed
    <2>3. i - n \in 1 .. Len(more) /\ i = n + (i - n)
      BY <1>1, <2>1, <2>2
    <2> QED BY <1>1, <2>1, <2>3
  <1>4. CASE \A j \in 1 .. Len(more) : more[j].id # p
    <2>1. Placed(both, p) \subseteq Placed(rows, p)
      BY <1>3, <1>4
    <2>2. /\ IsFiniteSet(Placed(both, p))
          /\ Cardinality(Placed(both, p)) <= Cardinality(Placed(rows, p))
      BY <1>2, <2>1, FS_Subset
    <2>3. Cardinality(Placed(both, p)) \in Nat
      BY <2>2, FS_CardinalityType
    <2> QED BY <1>1, <1>2, <2>2, <2>3 DEF both
  <1>5. ASSUME NEW k \in 1 .. Len(more), more[k].id = p
        PROVE  Cardinality(Placed(both, p)) <= Cardinality(Placed(rows, p)) + 1
    <2>1. \A j \in 1 .. Len(more) : more[j].id = p => j = k
      <3> SUFFICES ASSUME NEW j \in 1 .. Len(more), more[j].id = p, j # k
                   PROVE  FALSE
        OBVIOUS
      <3>1. more[j] \in Rows /\ more[k] \in Rows /\ (j < k \/ k < j)
        BY <1>1
      <3>2. more[j].id < more[k].id \/ more[k].id < more[j].id
        BY <3>1 DEF Climbs
      <3>3. more[j].id \in Int /\ more[k].id \in Int
        BY <3>1, RowTypes
      <3> QED BY <1>5, <3>2, <3>3
    <2>2. Placed(both, p) \subseteq Placed(rows, p) \cup {n + k}
      BY <1>3, <2>1
    <2>3. /\ IsFiniteSet(Placed(rows, p) \cup {n + k})
          /\ Cardinality(Placed(rows, p) \cup {n + k}) =
                IF n + k \in Placed(rows, p) THEN Cardinality(Placed(rows, p))
                ELSE Cardinality(Placed(rows, p)) + 1
      BY <1>2, FS_AddElement
    <2>4. /\ IsFiniteSet(Placed(both, p))
          /\ Cardinality(Placed(both, p)) <= Cardinality(Placed(rows, p) \cup {n + k})
      BY <2>2, <2>3, FS_Subset
    <2>5. Cardinality(Placed(both, p)) \in Nat
      BY <2>4, FS_CardinalityType
    <2> QED BY <1>2, <2>3, <2>4, <2>5
  <1> QED BY <1>1, <1>4, <1>5 DEF both

LEMMA Appended ==
    ASSUME NEW T, NEW s \in Seq(T), NEW x \in T
    PROVE  /\ Append(s, x) \in Seq(T) /\ Append(s, x) # <<>>
           /\ Len(Append(s, x)) = Len(s) + 1 /\ Len(s) \in Nat
           /\ Append(s, x)[Len(s) + 1] = x
           /\ \A i \in 1 .. Len(s) : Append(s, x)[i] = s[i]
  OBVIOUS

LEMMA Taken ==
    ASSUME NEW T, NEW s \in Seq(T), s # <<>>
    PROVE  /\ Head(s) = s[1] /\ Head(s) \in T /\ Len(s) \in Nat \ {0}
           /\ Tail(s) \in Seq(T) /\ Len(Tail(s)) = Len(s) - 1
           /\ \A i \in 1 .. Len(s) - 1 : Tail(s)[i] = s[i + 1]
  OBVIOUS

\* The places of a sequence that hold a member of S.
Places(s, S) == {i \in 1 .. Len(s) : s[i] \in S}

LEMMA PlacesFinite ==
    ASSUME NEW X, NEW s \in Seq(X), NEW S
    PROVE  IsFiniteSet(Places(s, S)) /\ Cardinality(Places(s, S)) \in Nat
  <1>1. IsFiniteSet(1 .. Len(s))
    BY FS_Interval
  <1>2. IsFiniteSet(Places(s, S))
    BY <1>1, FS_Subset DEF Places
  <1> QED BY <1>2, FS_CardinalityType

LEMMA PlacesAppended ==
    ASSUME NEW X, NEW s \in Seq(X), NEW x \in X, NEW S
    PROVE  Cardinality(Places(Append(s, x), S)) =
                Cardinality(Places(s, S)) + (IF x \in S THEN 1 ELSE 0)
  <1> DEFINE n == Len(s) + 1
             t == Append(s, x)
  <1>1. /\ Len(t) = n /\ Len(s) \in Nat /\ t[n] = x
        /\ \A i \in 1 .. Len(s) : t[i] = s[i]
    BY Appended
  <1>2. \A i : i \in 1 .. n <=> i \in 1 .. Len(s) \/ i = n
    BY <1>1
  <1>3. n \notin Places(s, S)
    BY <1>1 DEF Places
  <1> HIDE DEF t
  <1>4. CASE x \in S
    <2>1. Places(t, S) = Places(s, S) \cup {n}
      BY <1>1, <1>2, <1>4 DEF Places
    <2> QED BY <1>3, <1>4, <2>1, PlacesFinite, FS_AddElement DEF t
  <1>5. CASE x \notin S
    <2>1. Places(t, S) = Places(s, S)
      BY <1>1, <1>2, <1>5 DEF Places
    <2> QED BY <1>5, <2>1, PlacesFinite DEF t
  <1> QED BY <1>4, <1>5

LEMMA PlacesTaken ==
    ASSUME NEW X, NEW s \in Seq(X), s # <<>>, NEW S
    PROVE  Cardinality(Places(Tail(s), S)) =
                Cardinality(Places(s, S)) - (IF Head(s) \in S THEN 1 ELSE 0)
  <1> DEFINE t == Tail(s)
             later == Places(s, S) \ {1}
             f == [i \in Places(t, S) |-> i + 1]
  <1>1. /\ Head(s) = s[1] /\ Len(s) \in Nat \ {0} /\ Len(t) = Len(s) - 1
        /\ \A i \in 1 .. Len(s) - 1 : t[i] = s[i + 1]
    BY Taken
  <1>2. /\ \A i \in 1 .. Len(t) : i \in Nat /\ i + 1 \in 1 .. Len(s) /\ i + 1 # 1
        /\ \A i \in 1 .. Len(s) : i # 1 => i \in Nat /\ i - 1 \in 1 .. Len(t)
                                           /\ (i - 1) + 1 = i
    BY <1>1
  <1>3. \A i \in 1 .. Len(t) : t[i] = s[i + 1]
    BY <1>1
  <1> HIDE DEF t
  <1>4. \A i \in Places(t, S) : i + 1 \in later
    BY <1>2, <1>3 DEF Places
  <1>5. \A i \in later : i - 1 \in Places(t, S) /\ (i - 1) + 1 = i
    BY <1>2, <1>3 DEF Places
  <1>6. \A i, j \in Places(t, S) : i + 1 = j + 1 => i = j
    BY <1>2 DEF Places
  <1>7. f \in Bijection(Places(t, S), later)
    <2>1. f \in [Places(t, S) -> later]
      BY <1>4
    <2>2. IsInjective(f)
      BY <1>6 DEF IsInjective
    <2>3. \A i \in later : \E j \in Places(t, S) : f[j] = i
      BY <1>5
    <2> QED BY <2>1, <2>2, <2>3 DEF Bijection, Injection, Surjection
  <1>8. IsFiniteSet(Places(t, S))
    BY PlacesFinite, Taken DEF t
  <1>9. Cardinality(later) = Cardinality(Places(t, S))
    BY <1>7, <1>8, FS_Bijection DEF ExistsBijection
  <1>10. /\ IsFiniteSet(Places(s, S))
         /\ Cardinality(later) = IF 1 \in Places(s, S)
                                 THEN Cardinality(Places(s, S)) - 1
                                 ELSE Cardinality(Places(s, S))
    BY PlacesFinite, FS_RemoveElement
  <1>11. 1 \in Places(s, S) <=> Head(s) \in S
    BY <1>1 DEF Places
  <1>12. Cardinality(Places(s, S)) \in Nat
    BY PlacesFinite
  <1> QED BY <1>9, <1>10, <1>11, <1>12 DEF t

-----------------------------------------------------------------------------
(***************************************************************************)
(* The invariant. Its parts are predicates of the kind k of the screen,    *)
(* the documents e, the arrays and the table, the blocks m on the main     *)
(* queue and the calls a that are asked.                                   *)
(***************************************************************************)

\* The rows are all documents there are, by their names.
IsAll(rows, e) ==
    /\ Climbs(rows)
    /\ \A i \in 1 .. Len(rows) : e[rows[i].id] # {}
    /\ \A p \in Photos : e[p] # {} => \E i \in 1 .. Len(rows) : rows[i].id = p

\* Above and Belongs, on a screen of kind k.
AboveOn(k, r, s) ==
    /\ k = "VC_Events" => r.id < s.id
    /\ k \in GalleryScreens => r.id > s.id
    /\ k = "VC_FoodMenu" => \/ Category[r.id] < Category[s.id]
                            \/ Category[r.id] = Category[s.id] /\ r.id < s.id

BelongsOn(k, p) ==
    /\ k = "VC_GalleryEdits" => p \in Mine
    /\ k = "VC_FoodMenu" => Category[p] \in Sections

\* The table shows the documents that belong there, in order.
Shows(k, rows, e) ==
    /\ \A i \in 1 .. Len(rows) : e[rows[i].id] # {} /\ BelongsOn(k, rows[i].id)
    /\ \A p \in Photos : e[p] # {} /\ BelongsOn(k, p) =>
          \E i \in 1 .. Len(rows) : rows[i].id = p
    /\ \A i, j \in 1 .. Len(rows) : i < j => AboveOn(k, rows[i], rows[j])

\* A load is at one place, and nothing is in the array until its answer is.
OneLoad(m, a, rows) ==
    /\ Len(m) + a <= 1
    /\ a > 0 => rows = <<>>
    /\ \A i \in 1 .. Len(m) : m[i] # Notify => rows = <<>>

\* What its answer was is what there is.
Fresh(k, e, rows, table_, m, a) ==
    /\ \A i \in 1 .. Len(m) :
          /\ m[i].block = "append" => IsAll(m[i].rows, e)
          /\ m[i] = Notify => IsAll(rows, e)
    /\ m = <<>> /\ a = 0 => Shows(k, table_, e)

Loads(k, e, rows, table_, m, a, b, c) ==
    b = 1 => OneLoad(m, a, rows) /\ (c => Fresh(k, e, rows, table_, m, a))

\* Of each photo there are as many rows as loads under way, less those that
\* have still to append theirs.
Counted(rows, m, a, b) ==
    /\ \A i \in 1 .. Len(m) : m[i].block = "append" => Climbs(m[i].rows)
    /\ \A p \in Photos :
          Cardinality(Placed(rows, p)) + Cardinality(Places(m, Blocks \ {Notify})) + a <= b

\* The screens but the gallery load once and before anything is in the table.
ByKind(k, table_, m, a, b, q) ==
    /\ k # "VC_Gallery" => b = 1
    /\ k \notin EditScreens => q = {}
    /\ k # "VC_Gallery" /\ (m # <<>> \/ a > 0) => table_ = <<>>

Typed == TypeOK /\ 1 <= burst /\ burst <= spent.loads

IInv ==
    /\ Typed /\ TableIsSource
    /\ ByKind(kind, drawn, main, asked, burst, question)
    /\ Counted(items, main, asked, burst)
    /\ Loads(kind, entry, items, drawn, main, asked, burst, clean)

-----------------------------------------------------------------------------
(* What a load brings, and what a deletion leaves                           *)

LEMMA BlockKinds ==
    /\ Query \in Blocks /\ Notify \in Blocks /\ Query # Notify
    /\ Query.block = "query" /\ Notify.block = "notify"
    /\ \A b \in Blocks : b.block = "append" => b.rows \in Seq(Rows) /\ b # Notify
    /\ \A rows \in Seq(Rows) :
          LET b == [block |-> "append", rows |-> rows]
          IN  b \in Blocks /\ b.block = "append" /\ b.rows = rows /\ b # Notify
  <1>1. Query.block = "query" /\ Notify.block = "notify"
    BY DEF Query, Notify
  <1>2. Query # Notify
    BY <1>1
  <1>3. \A b \in Blocks : b.block = "append" => b.rows \in Seq(Rows) /\ b # Notify
    <2> SUFFICES ASSUME NEW b \in Blocks, b.block = "append"
                 PROVE  b.rows \in Seq(Rows) /\ b # Notify
      OBVIOUS
    <2>1. b \in [block : {"append"}, rows : Seq(Rows)]
      BY <1>1 DEF Blocks
    <2> QED BY <1>1, <2>1
  <1>4. ASSUME NEW rows \in Seq(Rows)
        PROVE  [block |-> "append", rows |-> rows] \in Blocks
    BY DEF Blocks
  <1> QED BY <1>1, <1>2, <1>3, <1>4 DEF Blocks

LEMMA PhotosFinite == IsFiniteSet(Photos) /\ Photos \in SUBSET Nat
  BY ListingAssumption

LEMMA DocumentsAre ==
    ASSUME entry \in [Photos -> SUBSET Halves]
    PROVE  Documents \in Seq(Rows) /\ IsAll(Documents, entry)
  <1> DEFINE ids == Ascending(Listed)
  <1>1. Listed \in SUBSET Nat /\ IsFiniteSet(Listed)
    BY PhotosFinite, FS_Subset DEF Listed
  <1>2. /\ ids \in Seq(Listed)
        /\ \A i, j \in 1 .. Len(ids) : i < j => ids[i] < ids[j]
        /\ \A x \in Listed : \E i \in 1 .. Len(ids) : ids[i] = x
    BY <1>1, AscendingLists
  <1> HIDE DEF ids
  <1>3. /\ Len(ids) \in Nat /\ DOMAIN ids = 1 .. Len(ids)
        /\ \A i \in 1 .. Len(ids) : ids[i] \in Listed
    BY <1>2
  <1>4. Documents = [n \in 1 .. Len(ids) |-> Row(ids[n])]
    BY <1>3 DEF Documents, ids
  <1>5. \A p \in Listed : Row(p) \in Rows /\ Row(p).id = p /\ entry[p] # {}
    BY DEF Row, Rows, Listed
  <1>6. Documents \in [1 .. Len(ids) -> Rows]
    BY <1>3, <1>4, <1>5
  <1>7. Documents \in Seq(Rows) /\ Len(Documents) = Len(ids)
    BY <1>3, <1>6
  <1>8. \A i \in 1 .. Len(ids) : Documents[i].id = ids[i] /\ entry[ids[i]] # {}
    BY <1>3, <1>4, <1>5
  <1>9. Climbs(Documents)
    BY <1>2, <1>7, <1>8 DEF Climbs
  <1>10. \A p \in Photos : entry[p] # {} => p \in Listed
    BY DEF Listed
  <1> QED BY <1>2, <1>7, <1>8, <1>9, <1>10 DEF IsAll

\* Sorting and filtering give rows, and no more of a photo than there were.
LEMMA SortedTypes ==
    ASSUME kind \in Kinds, NEW rows \in Seq(Rows)
    PROVE  /\ Sorted(rows) \in Seq(Rows) /\ Filteritems(rows) \in Seq(Rows)
           /\ \A p : Cardinality(Placed(Sorted(rows), p)) <= Cardinality(Placed(rows, p))
  <1>1. DOMAIN rows = 1 .. Len(rows)
    OBVIOUS
  <1>2. /\ Sorted(rows) \in Seq(Rows)
        /\ \A p : Cardinality(Placed(Sorted(rows), p)) <= Cardinality(Placed(rows, p))
    <2>1. CASE kind = "VC_FoodMenu"
      <3>1. \A p : Cardinality(Placed(rows, p)) \in Nat
        BY PlacedFinite
      <3> QED BY <2>1, <3>1 DEF Sorted
    <2>2. CASE kind # "VC_FoodMenu"
      <3>1. Sorted(rows) = Arranged(rows, 1 .. Len(rows))
        BY <1>1, <2>2 DEF Sorted
      <3>2. /\ Arranged(rows, 1 .. Len(rows)) \in Seq(Rows)
            /\ \E at \in Seq(1 .. Len(rows)) :
                  Picks(Arranged(rows, 1 .. Len(rows)), rows, 1 .. Len(rows), at)
        BY ArrangedPicks
      <3> QED BY <3>1, <3>2, PicksNoMore
    <2> QED BY <2>1, <2>2
  <1>3. Filteritems(rows) \in Seq(Rows)
    <2>1. CASE kind = "VC_GalleryEdits"
      <3> DEFINE S == {i \in DOMAIN rows : rows[i].id \in Mine}
      <3>1. S \in SUBSET (1 .. Len(rows))
        BY <1>1
      <3>2. Filteritems(rows) = RowsAt(rows, Ascending(S))
        BY <2>1 DEF Filteritems
      <3> HIDE DEF S
      <3> QED BY <3>1, <3>2, AscendingPicks
    <2>2. CASE kind = "VC_FoodMenu"
      <3> DEFINE S == {i \in DOMAIN rows : Category[rows[i].id] \in Sections}
      <3>1. S \in SUBSET (1 .. Len(rows))
        BY <1>1
      <3>2. Filteritems(rows) = Arranged(rows, S)
        BY <2>2 DEF Filteritems
      <3> HIDE DEF S
      <3> QED BY <3>1, <3>2, ArrangedPicks
    <2>3. CASE kind # "VC_GalleryEdits" /\ kind # "VC_FoodMenu"
      BY <2>3 DEF Filteritems
    <2> QED BY <2>1, <2>2, <2>3
  <1> QED BY <1>2, <1>3

\* Of all documents, those picked from the rows are shown if they are the ones
\* that belong there and come in the order of the table.
LEMMA PickedShow ==
    ASSUME NEW rows \in Seq(Rows), NEW e, IsAll(rows, e), NEW k,
           NEW S, S = {i \in 1 .. Len(rows) : BelongsOn(k, rows[i].id)},
           NEW t \in Seq(Rows), NEW at, Picks(t, rows, S, at),
           \A i, j \in 1 .. Len(t) : i < j => AboveOn(k, t[i], t[j])
    PROVE  Shows(k, t, e)
  <1>1. \A i \in 1 .. Len(t) : at[i] \in S /\ t[i] = rows[at[i]]
    BY DEF Picks
  <1>2. \A i \in 1 .. Len(t) : e[t[i].id] # {} /\ BelongsOn(k, t[i].id)
    BY <1>1 DEF IsAll
  <1>3. ASSUME NEW p \in Photos, e[p] # {}, BelongsOn(k, p)
        PROVE  \E i \in 1 .. Len(t) : t[i].id = p
    <2>1. PICK x \in 1 .. Len(rows) : rows[x].id = p
      BY <1>3 DEF IsAll
    <2>2. x \in S
      BY <1>3, <2>1
    <2>3. PICK i \in 1 .. Len(t) : at[i] = x
      BY <2>2 DEF Picks
    <2> QED BY <1>1, <2>1, <2>3
  <1> QED BY <1>2, <1>3 DEF Shows

\* The order in which sorting leaves all documents is that of the table.
LEMMA ArrangedAbove ==
    ASSUME kind \in Kinds, NEW rows \in Seq(Rows), Climbs(rows),
           NEW a \in 1 .. Len(rows), NEW b \in 1 .. Len(rows),
           Precedes(rows[a], rows[b]) \/ (~Precedes(rows[b], rows[a]) /\ a < b)
    PROVE  AboveOn(kind, rows[a], rows[b]) \/ a = b
  <1>1. /\ rows[a] \in Rows /\ rows[b] \in Rows /\ rows[a].id \in Int /\ rows[b].id \in Int
        /\ rows[a].id \in Photos /\ rows[b].id \in Photos
    BY RowTypes
  <1>2. /\ a < b => rows[a].id < rows[b].id
        /\ b < a => rows[b].id < rows[a].id
    BY DEF Climbs
  <1>3. CASE kind = "VC_Events"
    <2>1. Precedes(rows[a], rows[b]) <=> rows[a].id < rows[b].id
      BY <1>3 DEF Precedes, GalleryScreens, EditScreens
    <2> QED BY <1>2, <1>3, <2>1 DEF AboveOn, GalleryScreens, EditScreens
  <1>4. CASE kind \in GalleryScreens
    <2>1. /\ Precedes(rows[a], rows[b]) <=> rows[a].id > rows[b].id
          /\ Precedes(rows[b], rows[a]) <=> rows[b].id > rows[a].id
      BY <1>4 DEF Precedes, GalleryScreens, EditScreens
    <2>2. rows[a].id > rows[b].id
      BY <1>1, <1>2, <2>1
    <2> QED BY <1>4, <2>2 DEF AboveOn, GalleryScreens, EditScreens
  <1>5. CASE kind = "VC_FoodMenu"
    <2>1. /\ Precedes(rows[a], rows[b]) <=> Category[rows[a].id] < Category[rows[b].id]
          /\ Precedes(rows[b], rows[a]) <=> Category[rows[b].id] < Category[rows[a].id]
      BY <1>5 DEF Precedes, GalleryScreens, EditScreens
    <2>2. Category[rows[a].id] \in Int /\ Category[rows[b].id] \in Int
      BY <1>1, ListingAssumption
    <2>3. \/ Category[rows[a].id] < Category[rows[b].id]
          \/ Category[rows[a].id] = Category[rows[b].id] /\ rows[a].id < rows[b].id
      BY <1>2, <2>1, <2>2
    <2> QED BY <1>5, <2>3 DEF AboveOn, GalleryScreens, EditScreens
  <1> QED BY <1>3, <1>4, <1>5 DEF Kinds, GalleryScreens, EditScreens

\* What the notify block makes of all documents is what the table is to show.
LEMMA LoadShows ==
    ASSUME kind \in Kinds, NEW rows \in Seq(Rows), NEW e, IsAll(rows, e)
    PROVE  Shows(kind, IF Filters THEN Filteritems(Sorted(rows)) ELSE Sorted(rows), e)
  <1>1. DOMAIN rows = 1 .. Len(rows) /\ Len(rows) \in Nat /\ Climbs(rows)
    BY DEF IsAll
  <1>2. ASSUME NEW S \in SUBSET (1 .. Len(rows))
        PROVE  /\ Arranged(rows, S) \in Seq(Rows)
               /\ \E at \in Seq(S) :
                     /\ Picks(Arranged(rows, S), rows, S, at)
                     /\ \A i, j \in 1 .. Len(Arranged(rows, S)) : i < j =>
                          AboveOn(kind, Arranged(rows, S)[i], Arranged(rows, S)[j])
    <2> DEFINE t == Arranged(rows, S)
    <2>1. t \in Seq(Rows)
      BY ArrangedPicks
    <2>2. PICK at \in Seq(S) :
             /\ Picks(t, rows, S, at)
             /\ \A i, j \in 1 .. Len(t) : i < j =>
                   Precedes(t[i], t[j]) \/ (~Precedes(t[j], t[i]) /\ at[i] < at[j])
      BY ArrangedPicks
    <2> HIDE DEF t
    <2>3. ASSUME NEW i \in 1 .. Len(t), NEW j \in 1 .. Len(t), i < j
          PROVE  AboveOn(kind, t[i], t[j])
      <3>1. /\ at[i] \in 1 .. Len(rows) /\ at[j] \in 1 .. Len(rows)
            /\ t[i] = rows[at[i]] /\ t[j] = rows[at[j]] /\ at[i] # at[j]
        <4>1. /\ at[i] \in S /\ at[j] \in S /\ (at[i] = at[j] => i = j)
              /\ t[i] = rows[at[i]] /\ t[j] = rows[at[j]]
          BY <2>2 DEF Picks
        <4>2. i # j
          BY <2>1, <2>3
        <4> QED BY <4>1, <4>2
      <3>2. \/ Precedes(rows[at[i]], rows[at[j]])
            \/ ~Precedes(rows[at[j]], rows[at[i]]) /\ at[i] < at[j]
        BY <2>2, <2>3, <3>1
      <3> QED BY <1>1, <3>1, <3>2, ArrangedAbove
    <2> QED BY <2>1, <2>2, <2>3 DEF t
  <1>3. CASE kind = "VC_FoodMenu"
    <2> DEFINE S == {i \in DOMAIN rows : Category[rows[i].id] \in Sections}
    <2>1. S \in SUBSET (1 .. Len(rows))
      BY <1>1
    <2>2. S = {i \in 1 .. Len(rows) : BelongsOn(kind, rows[i].id)}
      BY <1>1, <1>3 DEF BelongsOn
    <2>3. Filters /\ Filteritems(Sorted(rows)) = Arranged(rows, S)
      BY <1>3 DEF Filters, Filteritems, Sorted
    <2> HIDE DEF S
    <2> QED BY <1>2, <2>1, <2>2, <2>3, PickedShow
  <1>4. CASE kind # "VC_FoodMenu"
    <2> DEFINE S == 1 .. Len(rows)
               t == Arranged(rows, S)
    <2>1. Sorted(rows) = t
      BY <1>1, <1>4 DEF Sorted
    <2>2. /\ t \in Seq(Rows)
          /\ \E at \in Seq(S) :
                /\ Picks(t, rows, S, at)
                /\ \A i, j \in 1 .. Len(t) : i < j => AboveOn(kind, t[i], t[j])
      BY <1>2
    <2>3. PICK at \in Seq(S) :
             /\ Picks(t, rows, S, at)
             /\ \A i, j \in 1 .. Len(t) : i < j => AboveOn(kind, t[i], t[j])
      BY <2>2
    <2> HIDE DEF t
    <2>4. CASE kind # "VC_GalleryEdits"
      <3>1. S = {i \in 1 .. Len(rows) : BelongsOn(kind, rows[i].id)}
        BY <1>4, <2>4 DEF BelongsOn
      <3>2. ~Filters
        BY <1>4, <2>4 DEF Filters
      <3> HIDE DEF S
      <3> QED BY <2>1, <2>2, <2>3, <3>1, <3>2, PickedShow
    <2>5. CASE kind = "VC_GalleryEdits"
      <3> DEFINE U == {i \in DOMAIN t : t[i].id \in Mine}
                 own == RowsAt(t, Ascending(U))
                 up == Ascending(U)
      <3>1. Filters /\ Filteritems(Sorted(rows)) = own
        BY <2>1, <2>5 DEF Filters, Filteritems
      <3>2. U \in SUBSET (1 .. Len(t))
        BY <2>2
      <3>3. /\ own \in Seq(Rows) /\ Picks(own, t, U, up)
            /\ \A i, j \in 1 .. Len(own) : i < j => up[i] < up[j]
        <4> HIDE DEF U
        <4> QED BY <2>2, <3>2, AscendingPicks
      <3> HIDE DEF own, up
      <3>4. /\ \A i \in 1 .. Len(own) :
                  up[i] \in 1 .. Len(t) /\ t[up[i]].id \in Mine /\ own[i] = t[up[i]]
            /\ \A x \in 1 .. Len(t) : t[x].id \in Mine =>
                  \E i \in 1 .. Len(own) : up[i] = x
        <4>1. /\ \A i \in 1 .. Len(own) : up[i] \in U /\ own[i] = t[up[i]]
              /\ \A x \in U : \E i \in 1 .. Len(own) : up[i] = x
          <5> HIDE DEF U
          <5> QED BY <3>3 DEF Picks
        <4>2. \A x : x \in U <=> x \in 1 .. Len(t) /\ t[x].id \in Mine
          BY <2>2
        <4> HIDE DEF U
        <4> QED BY <4>1, <4>2
      <3> HIDE DEF U, S
      <3>5. \A x \in 1 .. Len(t) : at[x] \in 1 .. Len(rows) /\ t[x] = rows[at[x]]
        BY <2>3 DEF Picks, S
      <3>6. \A i \in 1 .. Len(own) : e[own[i].id] # {} /\ BelongsOn(kind, own[i].id)
        <4>1. \A i \in 1 .. Len(rows) : e[rows[i].id] # {}
          BY DEF IsAll
        <4>2. \A i \in 1 .. Len(own) :
                  own[i] = rows[at[up[i]]] /\ at[up[i]] \in 1 .. Len(rows)
                  /\ own[i].id \in Mine
          BY <3>4, <3>5
        <4> QED BY <2>5, <4>1, <4>2 DEF BelongsOn
      <3>7. ASSUME NEW p \in Photos, e[p] # {}, BelongsOn(kind, p)
            PROVE  \E i \in 1 .. Len(own) : own[i].id = p
        <4>1. PICK y \in 1 .. Len(rows) : rows[y].id = p
          BY <3>7 DEF IsAll
        <4>2. PICK x \in 1 .. Len(t) : at[x] = y
          BY <2>3 DEF Picks, S
        <4>3. t[x] = rows[at[x]] /\ t[x].id = p
          BY <3>5, <4>1, <4>2
        <4>4. p \in Mine
          BY <2>5, <3>7 DEF BelongsOn
        <4>5. \E i \in 1 .. Len(own) : up[i] = x /\ own[i] = t[x]
          BY <3>4, <4>3, <4>4
        <4> QED BY <4>3, <4>5
      <3>8. ASSUME NEW i \in 1 .. Len(own), NEW j \in 1 .. Len(own), i < j
            PROVE  AboveOn(kind, own[i], own[j])
        <4>1. up[i] \in 1 .. Len(t) /\ up[j] \in 1 .. Len(t) /\ up[i] < up[j]
          BY <3>3, <3>4, <3>8
        <4>2. AboveOn(kind, t[up[i]], t[up[j]])
          BY <2>3, <4>1
        <4>3. own[i] = t[up[i]] /\ own[j] = t[up[j]]
          BY <3>4
        <4> QED BY <4>2, <4>3
      <3>9. Shows(kind, own, e)
        BY <3>6, <3>7, <3>8 DEF Shows
      <3> QED BY <3>1, <3>9
    <2> QED BY <2>4, <2>5
  <1> QED BY <1>3, <1>4

\* Rows taken out leave the others shown, as their documents are gone.
LEMMA RowsOut ==
    ASSUME NEW rows \in Seq(Rows), NEW gone
    PROVE  /\ Without(rows, gone) \in Seq(Rows)
           /\ \A p : Cardinality(Placed(Without(rows, gone), p))
                        <= Cardinality(Placed(rows, p))
           /\ \A k \in Kinds : \A e, f \in [Photos -> SUBSET Halves] :
                 /\ Shows(k, rows, e)
                 /\ f = [p \in Photos |-> IF \E i \in gone \cap (1 .. Len(rows)) :
                                                rows[i].id = p
                                          THEN {} ELSE e[p]]
                 => Shows(k, Without(rows, gone), f)
  <1> DEFINE S == (1 .. Len(rows)) \ gone
             t == Without(rows, gone)
             at == Ascending(S)
  <1>1. t = RowsAt(rows, at) /\ S \in SUBSET (1 .. Len(rows)) /\ Len(rows) \in Nat
    BY DEF Without
  <1>2. /\ t \in Seq(Rows) /\ Picks(t, rows, S, at)
        /\ \A i, j \in 1 .. Len(t) : i < j => at[i] < at[j]
    <2> HIDE DEF S
    <2> QED BY <1>1, AscendingPicks
  <1>3. \A p : Cardinality(Placed(t, p)) <= Cardinality(Placed(rows, p))
    BY <1>1, <1>2, PicksNoMore
  <1>4. /\ \A i \in 1 .. Len(t) :
              at[i] \in 1 .. Len(rows) /\ at[i] \notin gone /\ t[i] = rows[at[i]]
        /\ \A x \in 1 .. Len(rows) : x \notin gone => \E i \in 1 .. Len(t) : at[i] = x
    BY <1>2 DEF Picks
  <1> HIDE DEF S, t, at
  <1>5. ASSUME NEW k \in Kinds, NEW e \in [Photos -> SUBSET Halves],
               NEW f \in [Photos -> SUBSET Halves], Shows(k, rows, e),
               f = [p \in Photos |-> IF \E i \in gone \cap (1 .. Len(rows)) :
                                            rows[i].id = p
                                     THEN {} ELSE e[p]]
        PROVE  Shows(k, t, f)
    <2>1. \A i, j \in 1 .. Len(rows) : rows[i].id = rows[j].id => i = j
      <3>1. ASSUME NEW i \in 1 .. Len(rows), NEW j \in 1 .. Len(rows), i < j,
                   rows[i].id = rows[j].id
            PROVE  FALSE
        <4>1. AboveOn(k, rows[i], rows[j])
          BY <1>5, <3>1 DEF Shows
        <4>2. rows[i].id \in Int /\ rows[j].id \in Int /\ rows[i].id \in Photos
          BY RowTypes
        <4>3. Category[rows[i].id] \in Int
          BY <4>2, ListingAssumption
        <4> QED BY <3>1, <4>1, <4>2, <4>3 DEF AboveOn, Kinds, GalleryScreens, EditScreens
      <3>2. \A i, j \in 1 .. Len(rows) : i = j \/ i < j \/ j < i
        BY <1>1
      <3> QED BY <3>1, <3>2
    <2>2. \A i \in 1 .. Len(rows) : rows[i].id \in Photos
      BY RowTypes
    <2>3. \A i \in 1 .. Len(t) : f[t[i].id] # {} /\ BelongsOn(k, t[i].id)
      <3> SUFFICES ASSUME NEW i \in 1 .. Len(t)
                   PROVE  f[t[i].id] # {} /\ BelongsOn(k, t[i].id)
        OBVIOUS
      <3>1. /\ at[i] \in 1 .. Len(rows) /\ at[i] \notin gone /\ t[i] = rows[at[i]]
            /\ t[i].id \in Photos
        BY <1>4, <2>2
      <3>2. ~\E j \in gone \cap (1 .. Len(rows)) : rows[j].id = t[i].id
        BY <2>1, <3>1
      <3>3. f[t[i].id] = e[t[i].id]
        BY <1>5, <3>1, <3>2
      <3> QED BY <1>5, <3>1, <3>3 DEF Shows
    <2>4. ASSUME NEW p \in Photos, f[p] # {}, BelongsOn(k, p)
          PROVE  \E i \in 1 .. Len(t) : t[i].id = p
      <3>1. /\ ~\E j \in gone \cap (1 .. Len(rows)) : rows[j].id = p
            /\ e[p] # {}
        BY <1>5, <2>4
      <3>2. PICK x \in 1 .. Len(rows) : rows[x].id = p
        BY <1>5, <2>4, <3>1 DEF Shows
      <3>3. x \notin gone
        BY <3>1, <3>2
      <3> QED BY <1>4, <3>2, <3>3
    <2>5. ASSUME NEW i \in 1 .. Len(t), NEW j \in 1 .. Len(t), i < j
          PROVE  AboveOn(k, t[i], t[j])
      <3>1. \A x, y \in 1 .. Len(rows) : x < y => AboveOn(k, rows[x], rows[y])
        BY <1>5 DEF Shows
      <3>2. at[i] \in 1 .. Len(rows) /\ at[j] \in 1 .. Len(rows) /\ at[i] < at[j]
        BY <1>2, <1>4, <2>5
      <3>3. AboveOn(k, rows[at[i]], rows[at[j]])
        BY <3>1, <3>2
      <3>4. t[i] = rows[at[i]] /\ t[j] = rows[at[j]]
        BY <1>4
      <3> QED BY <3>3, <3>4
    <2> QED BY <2>3, <2>4, <2>5 DEF Shows
  <1> QED BY <1>2, <1>3, <1>5 DEF t

-----------------------------------------------------------------------------
(* The invariant holds at first and is kept by every action                 *)

Appends == Blocks \ {Notify}

LEMMA NoRows ==
    /\ <<>> \in Seq(Rows) /\ <<>> \in Seq(Blocks) /\ Len(<<>>) = 0
    /\ Climbs(<<>>)
    /\ \A p : Cardinality(Placed(<<>>, p)) = 0
    /\ \A S : Cardinality(Places(<<>>, S)) = 0
  <1>1. <<>> \in Seq(Rows) /\ <<>> \in Seq(Blocks) /\ Len(<<>>) = 0
    OBVIOUS
  <1>2. \A p : Placed(<<>>, p) = {}
    BY DEF Placed
  <1>3. \A S : Places(<<>>, S) = {}
    BY DEF Places
  <1>4. Climbs(<<>>)
    BY DEF Climbs
  <1> QED BY <1>1, <1>2, <1>3, <1>4, FS_EmptySet

LEMMA OneQuery == <<Query>> \in Seq(Blocks) /\ Len(<<Query>>) = 1 /\ <<Query>>[1] = Query
                  /\ <<Query>> # <<>> /\ Cardinality(Places(<<Query>>, Appends)) = 1
  <1>1. Query \in Blocks /\ Query \in Appends
    BY BlockKinds DEF Appends
  <1>2. /\ <<Query>> \in Seq(Blocks) /\ Len(<<Query>>) = 1 /\ <<Query>>[1] = Query
        /\ <<Query>> # <<>>
    BY <1>1
  <1>3. Places(<<Query>>, Appends) = {1}
    BY <1>1, <1>2 DEF Places
  <1> QED BY <1>2, <1>3, FS_Singleton

LEMMA NoneLeft == ASSUME NEW T, NEW s \in Seq(T), Len(s) = 0 PROVE s = <<>>
  OBVIOUS

LEMMA CountedIs ==
    ASSUME NEW rows, NEW m, NEW a, NEW b
    PROVE  Counted(rows, m, a, b) <=>
             /\ \A i \in 1 .. Len(m) : m[i].block = "append" => Climbs(m[i].rows)
             /\ \A p \in Photos :
                   Cardinality(Placed(rows, p)) + Cardinality(Places(m, Appends)) + a <= b
  BY DEF Counted, Appends

LEMMA InitHolds == ASSUME Init PROVE IInv
  <1>1. /\ kind \in Kinds /\ entry \in Library!Entries
        /\ items = <<>> /\ filtered = <<>> /\ drawn = <<>> /\ question = {}
        /\ burst = 1 /\ clean = FALSE /\ ended = "no"
    BY DEF Init
  <1>2. \/ main = <<>> /\ asked = 1
        \/ main = <<Query>> /\ asked = 0
    BY DEF Init
  <1>3. /\ main \in Seq(Blocks) /\ asked \in Nat /\ Len(main) + asked = 1
        /\ Cardinality(Places(main, Appends)) + asked = 1
        /\ \A i \in 1 .. Len(main) : main[i].block # "append"
        /\ main # <<>> \/ asked > 0
    <2>1. CASE main = <<>> /\ asked = 1
      BY <2>1, NoRows
    <2>2. CASE main = <<Query>> /\ asked = 0
      <3>1. Cardinality(Places(main, Appends)) = 1 /\ main \in Seq(Blocks)
        BY <2>2, OneQuery
      <3>2. Len(main) = 1 /\ main[1].block = "query" /\ main # <<>>
        BY <2>2, OneQuery, BlockKinds
      <3> QED BY <2>2, <3>1, <3>2
    <2> QED BY <1>2, <2>1, <2>2
  <1>4. Typed
    <2>1. spent \in [loads : 0 .. MaxLoads, changes : 0 .. MaxChanges,
                     failures : 0 .. MaxFailures] /\ spent.loads = 1 /\ burst \in 0 .. MaxLoads
      BY ListingAssumption DEF Init
    <2>2. large \in [row : Photos \cup {None}, image : Photos \cup {None}]
      BY DEF Init
    <2>3. /\ items \in Seq(Rows) /\ filtered \in Seq(Rows) /\ drawn \in Seq(Rows)
          /\ question \subseteq 1 .. Len(drawn)
          /\ clean \in BOOLEAN
          /\ ended \in Traps \cup {"no"} /\ ended \notin Traps
      BY <1>1, NoRows DEF Traps
    <2>4. TypeOK
      BY <1>1, <1>3, <2>1, <2>2, <2>3 DEF TypeOK, Traps
    <2>5. 1 <= burst /\ burst <= spent.loads
      BY <1>1, <2>1
    <2> QED BY <2>4, <2>5 DEF Typed
  <1>5. TableIsSource
    BY <1>1 DEF TableIsSource, Source
  <1>6. ByKind(kind, drawn, main, asked, burst, question)
    BY <1>1 DEF ByKind
  <1>7. Counted(items, main, asked, burst)
    <2>1. \A p \in Photos : Cardinality(Placed(items, p)) = 0
      BY <1>1, NoRows
    <2>2. \A p \in Photos : Cardinality(Placed(items, p))
                                + Cardinality(Places(main, Appends)) + asked <= burst
      <3>1. Cardinality(Places(main, Appends)) \in Nat
        BY <1>3, PlacesFinite
      <3> QED BY <1>1, <1>3, <2>1, <3>1
    <2> QED BY <1>3, <2>2, CountedIs
  <1>8. Loads(kind, entry, items, drawn, main, asked, burst, clean)
    BY <1>1, <1>3 DEF Loads, OneLoad
  <1> QED BY <1>4, <1>5, <1>6, <1>7, <1>8 DEF IInv

LEMMA TypeFacts ==
    ASSUME IInv
    PROVE  /\ kind \in Kinds /\ entry \in [Photos -> SUBSET Halves]
           /\ items \in Seq(Rows) /\ filtered \in Seq(Rows) /\ drawn \in Seq(Rows)
           /\ main \in Seq(Blocks) /\ Len(main) \in Nat /\ asked \in Nat
           /\ burst \in Nat /\ 1 <= burst /\ burst <= spent.loads
           /\ question \subseteq 1 .. Len(drawn)
           /\ Source \in Seq(Rows)
           /\ \A p : Cardinality(Placed(items, p)) \in Nat
           /\ Cardinality(Places(main, Appends)) \in Nat
  <1>1. /\ kind \in Kinds /\ entry \in [Photos -> SUBSET Halves]
        /\ items \in Seq(Rows) /\ filtered \in Seq(Rows) /\ drawn \in Seq(Rows)
        /\ main \in Seq(Blocks) /\ asked \in Nat /\ burst \in 0 .. MaxLoads
        /\ question \subseteq 1 .. Len(drawn)
    BY DEF IInv, Typed, TypeOK, Library!Entries, Halves
  <1>2. burst \in Nat
    BY <1>1, ListingAssumption
  <1>3. Len(main) \in Nat /\ Source \in Seq(Rows)
    BY <1>1 DEF Source
  <1>4. 1 <= burst /\ burst <= spent.loads
    BY DEF IInv, Typed
  <1> QED BY <1>1, <1>2, <1>3, <1>4, PlacedFinite, PlacesFinite

\* A block leaves the main queue.
LEMMA BlockRuns ==
    ASSUME IInv, main # <<>>
    PROVE  /\ Tail(main) \in Seq(Blocks) /\ Head(main) \in Blocks
           /\ Len(Tail(main)) = Len(main) - 1 /\ Len(main) \in Nat \ {0}
           /\ \A i \in 1 .. Len(Tail(main)) :
                 Tail(main)[i].block = "append" => Climbs(Tail(main)[i].rows)
           /\ Cardinality(Places(Tail(main), Appends)) =
                 Cardinality(Places(main, Appends))
                    - (IF Head(main) = Notify THEN 0 ELSE 1)
           /\ burst = 1 => /\ asked = 0 /\ Tail(main) = <<>>
                           /\ Head(main) # Notify => items = <<>>
           /\ 1 \in 1 .. Len(main) /\ Head(main) = main[1]
           /\ Loading
  <1>1. /\ Tail(main) \in Seq(Blocks) /\ Head(main) \in Blocks /\ Head(main) = main[1]
        /\ Len(Tail(main)) = Len(main) - 1 /\ Len(main) \in Nat \ {0}
        /\ \A i \in 1 .. Len(main) - 1 : Tail(main)[i] = main[i + 1]
    BY TypeFacts, Taken
  <1>2. \A i \in 1 .. Len(main) - 1 : i + 1 \in 1 .. Len(main)
    BY <1>1
  <1>3. \A i \in 1 .. Len(main) : main[i].block = "append" => Climbs(main[i].rows)
    BY CountedIs DEF IInv
  <1>4. \A i \in 1 .. Len(Tail(main)) :
            Tail(main)[i].block = "append" => Climbs(Tail(main)[i].rows)
    BY <1>1, <1>2, <1>3
  <1>5. Cardinality(Places(Tail(main), Appends)) =
            Cardinality(Places(main, Appends)) - (IF Head(main) \in Appends THEN 1 ELSE 0)
    BY TypeFacts, PlacesTaken
  <1>6. Head(main) \in Appends <=> Head(main) # Notify
    BY <1>1 DEF Appends
  <1>7. ASSUME burst = 1
        PROVE  asked = 0 /\ Tail(main) = <<>> /\ (Head(main) # Notify => items = <<>>)
    <2>1. OneLoad(main, asked, items)
      BY <1>7 DEF IInv, Loads
    <2>2. Len(main) = 1 /\ asked = 0
      BY <1>1, <2>1, TypeFacts DEF OneLoad
    <2>3. Tail(main) = <<>>
      <3>1. Len(Tail(main)) = 0
        BY <1>1, <2>2
      <3> QED BY <1>1, <3>1, NoneLeft
    <2>4. Head(main) # Notify => items = <<>>
      BY <1>1, <2>1, <2>2 DEF OneLoad
    <2> QED BY <2>2, <2>3, <2>4
  <1>8. 1 \in 1 .. Len(main)
    BY <1>1
  <1> QED BY <1>1, <1>4, <1>5, <1>6, <1>7, <1>8, TypeFacts DEF Loading

LEMMA ReloadGalleryKeeps == ASSUME IInv, ReloadGallery PROVE IInv'
  <1>1. /\ kind = "VC_Gallery" /\ spent.loads < MaxLoads
        /\ spent' = [spent EXCEPT !.loads = @ + 1]
        /\ items' = <<>> /\ main' = Append(main, Query)
        /\ burst' = (IF Loading THEN burst + 1 ELSE 1) /\ clean' = FALSE
        /\ UNCHANGED <<kind, entry, filtered, drawn, asked, question, large, ended>>
    BY DEF ReloadGallery
  <1>2. /\ main' \in Seq(Blocks) /\ main' # <<>> /\ Len(main') = Len(main) + 1
        /\ main'[Len(main) + 1] = Query
        /\ \A i \in 1 .. Len(main) : main'[i] = main[i]
    <2>1. main \in Seq(Blocks) /\ Query \in Blocks
      BY TypeFacts, BlockKinds
    <2>2. /\ Append(main, Query) \in Seq(Blocks) /\ Append(main, Query) # <<>>
          /\ Len(Append(main, Query)) = Len(main) + 1
          /\ Append(main, Query)[Len(main) + 1] = Query
          /\ \A i \in 1 .. Len(main) : Append(main, Query)[i] = main[i]
      <3> HIDE DEF Query, Blocks
      <3> QED BY <2>1, Appended
    <2> QED BY <1>1, <2>2
  <1>3. Cardinality(Places(main', Appends)) = Cardinality(Places(main, Appends)) + 1
    <2>1. Query \in Blocks /\ Query \in Appends
      BY BlockKinds DEF Appends
    <2>2. Cardinality(Places(Append(main, Query), Appends)) =
             Cardinality(Places(main, Appends)) + 1
      BY <2>1, TypeFacts, PlacesAppended
    <2> QED BY <1>1, <2>2
  <1>4. Typed'
    <2>1. spent.loads \in 0 .. MaxLoads /\ spent \in [loads : 0 .. MaxLoads,
                 changes : 0 .. MaxChanges, failures : 0 .. MaxFailures]
      BY DEF IInv, Typed, TypeOK
    <2>2. spent.loads + 1 \in 0 .. MaxLoads
      BY <1>1, <2>1, ListingAssumption
    <2>3. /\ spent' \in [loads : 0 .. MaxLoads, changes : 0 .. MaxChanges,
                         failures : 0 .. MaxFailures]
          /\ spent'.loads = spent.loads + 1
      BY <1>1, <2>1, <2>2
    <2>4. burst' \in 0 .. MaxLoads /\ 1 <= burst' /\ burst' <= spent'.loads
      <3>1. /\ burst \in Nat /\ burst <= spent.loads /\ spent.loads \in Nat
            /\ MaxLoads \in Nat /\ spent.loads + 1 <= MaxLoads
            /\ spent'.loads = spent.loads + 1
        BY <2>1, <2>2, <2>3, TypeFacts, ListingAssumption
      <3>2. burst' = burst + 1 \/ burst' = 1
        BY <1>1
      <3> QED BY <3>1, <3>2
    <2>5. items' \in Seq(Rows)
      BY <1>1, NoRows
    <2> QED BY <1>1, <1>2, <2>3, <2>4, <2>5 DEF IInv, Typed, TypeOK
  <1>5. TableIsSource'
    BY <1>2 DEF TableIsSource, Loading
  <1>6. ByKind(kind', drawn', main', asked', burst', question')
    <2>1. question = {}
      BY <1>1 DEF IInv, ByKind, EditScreens
    <2> QED BY <1>1, <2>1 DEF ByKind
  <1>7. Counted(items', main', asked', burst')
    <2>1. \A i \in 1 .. Len(main') : main'[i].block = "append" => Climbs(main'[i].rows)
      <3>1. \A i \in 1 .. Len(main) : main[i].block = "append" => Climbs(main[i].rows)
        BY CountedIs DEF IInv
      <3>2. \A i \in 1 .. Len(main') : i \in 1 .. Len(main) \/ i = Len(main) + 1
        BY <1>2, TypeFacts
      <3> QED BY <1>2, <3>1, <3>2, BlockKinds
    <2>2. ASSUME NEW p \in Photos
          PROVE  Cardinality(Placed(items', p)) + Cardinality(Places(main', Appends))
                    + asked' <= burst'
      <3>1. Cardinality(Placed(items', p)) = 0
        BY <1>1, NoRows
      <3>2. CASE Loading
        <4>1. Cardinality(Placed(items, p)) + Cardinality(Places(main, Appends)) + asked
                 <= burst
          BY CountedIs DEF IInv
        <4> QED BY <1>1, <1>3, <3>1, <3>2, <4>1, TypeFacts
      <3>3. CASE ~Loading
        <4>1. main = <<>> /\ asked = 0
          BY <3>3, TypeFacts DEF Loading
        <4>2. Cardinality(Places(main, Appends)) = 0
          BY <4>1, NoRows
        <4> QED BY <1>1, <1>3, <3>1, <3>3, <4>1, <4>2
      <3> QED BY <3>2, <3>3
    <2> QED BY <2>1, <2>2, CountedIs
  <1>8. Loads(kind', entry', items', drawn', main', asked', burst', clean')
    <2> SUFFICES ASSUME burst' = 1
                 PROVE  OneLoad(main', asked', items')
      BY <1>1 DEF Loads
    <2>1. ~Loading
      BY <1>1, TypeFacts
    <2>2. main = <<>> /\ asked' = 0
      BY <1>1, <2>1, TypeFacts DEF Loading
    <2>3. Len(main') = 1
      BY <1>2, <2>2, NoRows
    <2> QED BY <1>1, <2>2, <2>3 DEF OneLoad
  <1> QED BY <1>4, <1>5, <1>6, <1>7, <1>8 DEF IInv

LEMMA AnswerKeeps == ASSUME IInv, Answer PROVE IInv'
  <1>1. PICK rows \in Seq(Rows) :
            /\ main' = Append(main, [block |-> "append", rows |-> rows])
            /\ clean' = TRUE => IsAll(rows, entry)
            /\ Climbs(rows)
    <2>1. Documents \in Seq(Rows) /\ IsAll(Documents, entry) /\ Climbs(Documents)
      BY TypeFacts, DocumentsAre DEF IsAll
    <2>2. CASE main' = Append(main, [block |-> "append", rows |-> Documents])
      BY <2>1, <2>2
    <2>3. CASE main' = Append(main, [block |-> "append", rows |-> <<>>]) /\ clean' = FALSE
      BY <2>3, NoRows
    <2> QED BY <2>2, <2>3 DEF Answer
  <1>2. /\ asked > 0 /\ asked' = asked - 1 /\ clean' \in BOOLEAN
        /\ UNCHANGED <<kind, entry, items, filtered, drawn, burst, question, large, ended>>
    BY DEF Answer, table
  <1> DEFINE b == [block |-> "append", rows |-> rows]
  <1>3. b \in Blocks /\ b.block = "append" /\ b.rows = rows /\ b # Notify
    BY BlockKinds
  <1>4. main' = Append(main, b)
    BY <1>1
  <1> HIDE DEF b
  <1>5. /\ main' \in Seq(Blocks) /\ main' # <<>> /\ Len(main') = Len(main) + 1
        /\ main'[Len(main) + 1] = b
        /\ \A i \in 1 .. Len(main) : main'[i] = main[i]
    <2>1. main \in Seq(Blocks) /\ b \in Blocks
      BY <1>3, TypeFacts
    <2>2. /\ Append(main, b) \in Seq(Blocks) /\ Append(main, b) # <<>>
          /\ Len(Append(main, b)) = Len(main) + 1
          /\ Append(main, b)[Len(main) + 1] = b
          /\ \A i \in 1 .. Len(main) : Append(main, b)[i] = main[i]
      BY <2>1, Appended
    <2> QED BY <1>4, <2>2
  <1>6. Cardinality(Places(main', Appends)) = Cardinality(Places(main, Appends)) + 1
    <2>1. b \in Appends
      BY <1>3 DEF Appends
    <2>2. Cardinality(Places(Append(main, b), Appends)) =
             Cardinality(Places(main, Appends)) + 1
      BY <1>3, <2>1, TypeFacts, PlacesAppended
    <2> QED BY <1>4, <2>2
  <1>7. Typed'
    <2>1. spent.failures \in 0 .. MaxFailures /\ spent \in [loads : 0 .. MaxLoads,
                 changes : 0 .. MaxChanges, failures : 0 .. MaxFailures]
      BY DEF IInv, Typed, TypeOK
    <2>2. \/ spent' = spent
          \/ /\ spent.failures < MaxFailures
             /\ spent' = [spent EXCEPT !.failures = @ + 1]
      BY DEF Answer
    <2>3. spent.failures < MaxFailures => spent.failures + 1 \in 0 .. MaxFailures
      BY <2>1, ListingAssumption
    <2>4. /\ spent' \in [loads : 0 .. MaxLoads, changes : 0 .. MaxChanges,
                         failures : 0 .. MaxFailures]
          /\ spent'.loads = spent.loads
      BY <2>1, <2>2, <2>3
    <2>5. asked' \in Nat
      BY <1>2, TypeFacts
    <2> QED BY <1>2, <1>5, <2>4, <2>5 DEF IInv, Typed, TypeOK
  <1>8. TableIsSource'
    BY <1>5 DEF TableIsSource, Loading
  <1>9. ByKind(kind', drawn', main', asked', burst', question')
    BY <1>2, TypeFacts DEF IInv, ByKind
  <1>10. Counted(items', main', asked', burst')
    <2>1. \A i \in 1 .. Len(main') : main'[i].block = "append" => Climbs(main'[i].rows)
      <3>1. \A i \in 1 .. Len(main) : main[i].block = "append" => Climbs(main[i].rows)
        BY CountedIs DEF IInv
      <3>2. \A i \in 1 .. Len(main') : i \in 1 .. Len(main) \/ i = Len(main) + 1
        BY <1>5, TypeFacts
      <3> QED BY <1>1, <1>3, <1>5, <3>1, <3>2
    <2>2. ASSUME NEW p \in Photos
          PROVE  Cardinality(Placed(items', p)) + Cardinality(Places(main', Appends))
                    + asked' <= burst'
      <3>1. Cardinality(Placed(items, p)) + Cardinality(Places(main, Appends)) + asked
                 <= burst
        BY CountedIs DEF IInv
      <3>2. items' = items /\ burst' = burst
        BY <1>2
      <3> QED BY <1>2, <1>6, <3>1, <3>2, TypeFacts
    <2> QED BY <2>1, <2>2, CountedIs
  <1>11. Loads(kind', entry', items', drawn', main', asked', burst', clean')
    <2> SUFFICES ASSUME burst = 1
                 PROVE  /\ OneLoad(main', asked', items')
                        /\ clean' => Fresh(kind, entry, items, drawn, main', asked')
      BY <1>2 DEF Loads
    <2>1. OneLoad(main, asked, items)
      BY DEF IInv, Loads
    <2>2. Len(main) = 0 /\ asked' = 0 /\ items = <<>>
      BY <1>2, <2>1, TypeFacts DEF OneLoad
    <2>3. Len(main') = 1 /\ main'[1] = b
      BY <1>5, <2>2
    <2>4. OneLoad(main', asked', items')
      BY <1>2, <2>2, <2>3 DEF OneLoad
    <2>5. ASSUME clean'
          PROVE  Fresh(kind, entry, items, drawn, main', asked')
      <3>1. \A i \in 1 .. Len(main') : main'[i] = b
        BY <2>3
      <3> QED BY <1>1, <1>2, <1>3, <1>5, <2>5, <3>1 DEF Fresh
    <2> QED BY <2>4, <2>5
  <1> QED BY <1>7, <1>8, <1>9, <1>10, <1>11 DEF IInv

LEMMA RunQueryKeeps == ASSUME IInv, main # <<>>, RunQuery PROVE IInv'
  <1>1. /\ Head(main) = Query /\ main' = Tail(main) /\ asked' = asked + 1
        /\ UNCHANGED <<kind, entry, items, filtered, drawn, burst, clean, question,
                       large, ended, spent>>
    BY DEF RunQuery, table
  <1>2. /\ main' \in Seq(Blocks) /\ asked' \in Nat /\ asked' > 0
        /\ Cardinality(Places(main', Appends)) = Cardinality(Places(main, Appends)) - 1
    BY <1>1, BlockRuns, BlockKinds, TypeFacts
  <1>3. Typed'
    BY <1>1, <1>2 DEF IInv, Typed, TypeOK
  <1>4. TableIsSource'
    BY <1>2 DEF TableIsSource, Loading
  <1>5. ByKind(kind', drawn', main', asked', burst', question')
    BY <1>1 DEF IInv, ByKind
  <1>6. Counted(items', main', asked', burst')
    <2>1. \A i \in 1 .. Len(main') : main'[i].block = "append" => Climbs(main'[i].rows)
      BY <1>1, BlockRuns
    <2>2. ASSUME NEW p \in Photos
          PROVE  Cardinality(Placed(items', p)) + Cardinality(Places(main', Appends))
                    + asked' <= burst'
      <3>1. Cardinality(Placed(items, p)) + Cardinality(Places(main, Appends)) + asked
                 <= burst
        BY CountedIs DEF IInv
      <3>2. items' = items /\ burst' = burst
        BY <1>1
      <3> QED BY <1>1, <1>2, <3>1, <3>2, TypeFacts
    <2> QED BY <2>1, <2>2, CountedIs
  <1>7. Loads(kind', entry', items', drawn', main', asked', burst', clean')
    <2> SUFFICES ASSUME burst = 1
                 PROVE  /\ OneLoad(main', asked', items')
                        /\ Fresh(kind, entry, items, drawn, main', asked')
      BY <1>1 DEF Loads
    <2>1. main' = <<>> /\ asked' = 1 /\ items' = <<>>
      BY <1>1, BlockRuns, BlockKinds
    <2> QED BY <2>1, NoRows DEF OneLoad, Fresh
  <1> QED BY <1>3, <1>4, <1>5, <1>6, <1>7 DEF IInv

LEMMA RunAppendKeeps ==
    ASSUME IInv, main # <<>>, RunAppend,
           ~(kind = "VC_Events" /\ Unreadable(Head(main).rows))
    PROVE  IInv'
  <1> DEFINE more == Head(main).rows
  <1>1. /\ Head(main).block = "append" /\ items' = items \o more
        /\ main' = Append(Tail(main), Notify)
        /\ UNCHANGED <<kind, entry, filtered, drawn, asked, burst, clean, question,
                       large, ended, spent>>
    BY DEF RunAppend
  <1>2. more \in Seq(Rows) /\ Head(main) # Notify
    BY <1>1, BlockRuns, BlockKinds
  <1>3. Climbs(more)
    BY <1>1, BlockRuns, CountedIs DEF IInv
  <1> HIDE DEF more
  <1>4. /\ items' \in Seq(Rows)
        /\ \A p : Cardinality(Placed(items', p)) <= Cardinality(Placed(items, p)) + 1
    <2>1. items \in Seq(Rows)
      BY TypeFacts
    <2>2. /\ items \o more \in Seq(Rows)
          /\ \A p : Cardinality(Placed(items \o more, p))
                        <= Cardinality(Placed(items, p)) + 1
      BY <1>2, <1>3, <2>1, PlacedJoined
    <2> QED BY <1>1, <2>2
  <1> DEFINE rest == Tail(main)
  <1>5. /\ rest \in Seq(Blocks) /\ Len(rest) \in Nat
        /\ \A i \in 1 .. Len(rest) : rest[i].block = "append" => Climbs(rest[i].rows)
        /\ Cardinality(Places(rest, Appends)) = Cardinality(Places(main, Appends)) - 1
        /\ main' = Append(rest, Notify)
    <2>1. /\ rest \in Seq(Blocks) /\ Len(rest) \in Nat
          /\ \A i \in 1 .. Len(rest) : rest[i].block = "append" => Climbs(rest[i].rows)
      BY BlockRuns
    <2>2. Cardinality(Places(rest, Appends)) = Cardinality(Places(main, Appends)) - 1
      BY <1>2, BlockRuns
    <2> QED BY <1>1, <2>1, <2>2
  <1> HIDE DEF rest
  <1>6. /\ main' \in Seq(Blocks) /\ main' # <<>> /\ Len(main') = Len(rest) + 1
        /\ main'[Len(rest) + 1] = Notify
        /\ \A i \in 1 .. Len(rest) : main'[i] = rest[i]
    <2>1. Notify \in Blocks
      BY BlockKinds
    <2>2. /\ Append(rest, Notify) \in Seq(Blocks) /\ Append(rest, Notify) # <<>>
          /\ Len(Append(rest, Notify)) = Len(rest) + 1
          /\ Append(rest, Notify)[Len(rest) + 1] = Notify
          /\ \A i \in 1 .. Len(rest) : Append(rest, Notify)[i] = rest[i]
      <3> HIDE DEF Notify, Blocks
      <3> QED BY <1>5, <2>1, Appended
    <2> QED BY <1>5, <2>2
  <1>7. Cardinality(Places(main', Appends)) = Cardinality(Places(main, Appends)) - 1
    <2>1. Notify \in Blocks /\ Notify \notin Appends
      BY BlockKinds DEF Appends
    <2>2. Cardinality(Places(Append(rest, Notify), Appends)) =
             Cardinality(Places(rest, Appends)) + (IF Notify \in Appends THEN 1 ELSE 0)
      <3> HIDE DEF Notify, Blocks, Appends
      <3> QED BY <1>5, <2>1, PlacesAppended
    <2> QED BY <1>5, <2>1, <2>2, TypeFacts
  <1>8. Typed'
    BY <1>1, <1>4, <1>6 DEF IInv, Typed, TypeOK
  <1>9. TableIsSource'
    BY <1>6 DEF TableIsSource, Loading
  <1>10. ByKind(kind', drawn', main', asked', burst', question')
    BY <1>1 DEF IInv, ByKind
  <1>11. Counted(items', main', asked', burst')
    <2>1. \A i \in 1 .. Len(main') : main'[i].block = "append" => Climbs(main'[i].rows)
      <3>1. \A i \in 1 .. Len(main') : i \in 1 .. Len(rest) \/ i = Len(rest) + 1
        BY <1>5, <1>6
      <3> QED BY <1>5, <1>6, <3>1, BlockKinds
    <2>2. ASSUME NEW p \in Photos
          PROVE  Cardinality(Placed(items', p)) + Cardinality(Places(main', Appends))
                    + asked' <= burst'
      <3>1. Cardinality(Placed(items, p)) + Cardinality(Places(main, Appends)) + asked
                 <= burst
        BY CountedIs DEF IInv
      <3>2. /\ Cardinality(Placed(items', p)) <= Cardinality(Placed(items, p)) + 1
            /\ Cardinality(Placed(items', p)) \in Nat
        BY <1>4, PlacedFinite
      <3>3. asked' = asked /\ burst' = burst
        BY <1>1
      <3>4. /\ Cardinality(Placed(items, p)) \in Nat
            /\ Cardinality(Places(main, Appends)) \in Nat
            /\ asked \in Nat /\ burst \in Nat
        BY TypeFacts
      <3> QED BY <1>7, <3>1, <3>2, <3>3, <3>4
    <2> QED BY <2>1, <2>2, CountedIs
  <1>12. Loads(kind', entry', items', drawn', main', asked', burst', clean')
    <2> SUFFICES ASSUME burst = 1
                 PROVE  /\ OneLoad(main', asked', items')
                        /\ clean => Fresh(kind, entry, items', drawn, main', asked')
      BY <1>1 DEF Loads
    <2>1. rest = <<>> /\ items = <<>> /\ asked' = 0
      BY <1>1, <1>2, BlockRuns DEF rest
    <2>2. Len(main') = 1 /\ \A i \in 1 .. Len(main') : main'[i] = Notify
      BY <1>6, <2>1, NoRows
    <2>3. OneLoad(main', asked', items')
      BY <2>1, <2>2 DEF OneLoad
    <2>4. ASSUME clean
          PROVE  Fresh(kind, entry, items', drawn, main', asked')
      <3>1. Fresh(kind, entry, items, drawn, main, asked)
        BY <2>4 DEF IInv, Loads
      <3>2. IsAll(more, entry)
        BY <1>1, <3>1, BlockRuns DEF Fresh, more
      <3>3. items' = more
        BY <1>1, <1>2, <2>1
      <3> QED BY <1>6, <2>2, <3>2, <3>3, BlockKinds DEF Fresh
    <2> QED BY <2>3, <2>4
  <1> QED BY <1>8, <1>9, <1>10, <1>11, <1>12 DEF IInv

LEMMA RunNotifyKeeps == ASSUME IInv, main # <<>>, RunNotify PROVE IInv'
  <1>1. /\ Head(main) = Notify /\ main' = Tail(main) /\ items' = Sorted(items)
        /\ filtered' = (IF Filters THEN Filteritems(Sorted(items)) ELSE filtered)
        /\ drawn' = (IF Filters THEN Filteritems(Sorted(items)) ELSE Sorted(items))
        /\ UNCHANGED <<kind, entry, asked, burst, clean, question, large, ended, spent>>
    BY DEF RunNotify
  <1>2. /\ items' \in Seq(Rows) /\ filtered' \in Seq(Rows) /\ drawn' \in Seq(Rows)
        /\ \A p : Cardinality(Placed(items', p)) <= Cardinality(Placed(items, p))
    <2>1. kind \in Kinds /\ items \in Seq(Rows) /\ filtered \in Seq(Rows)
      BY TypeFacts
    <2>2. /\ Sorted(items) \in Seq(Rows)
          /\ \A p : Cardinality(Placed(Sorted(items), p)) <= Cardinality(Placed(items, p))
      BY <2>1, SortedTypes
    <2>3. Filteritems(Sorted(items)) \in Seq(Rows)
      BY <2>1, <2>2, SortedTypes
    <2> QED BY <1>1, <2>1, <2>2, <2>3
  <1>3. /\ main' \in Seq(Blocks)
        /\ Cardinality(Places(main', Appends)) = Cardinality(Places(main, Appends))
        /\ \A i \in 1 .. Len(main') : main'[i].block = "append" => Climbs(main'[i].rows)
    BY <1>1, BlockRuns, TypeFacts
  <1>4. question' = {}
    <2>1. CASE kind = "VC_Gallery"
      BY <1>1, <2>1 DEF IInv, ByKind, EditScreens
    <2>2. CASE kind # "VC_Gallery"
      <3>1. drawn = <<>>
        BY <2>2 DEF IInv, ByKind
      <3> QED BY <1>1, <3>1, NoRows, TypeFacts
    <2> QED BY <2>1, <2>2
  <1>5. Typed'
    BY <1>1, <1>2, <1>3, <1>4 DEF IInv, Typed, TypeOK
  <1>6. TableIsSource'
    BY <1>1 DEF TableIsSource, Source, Filters
  <1>7. ByKind(kind', drawn', main', asked', burst', question')
    <2>1. burst = 1 => main' = <<>> /\ asked' = 0
      BY <1>1, BlockRuns
    <2> QED BY <1>1, <1>4, <2>1 DEF IInv, ByKind
  <1>8. Counted(items', main', asked', burst')
    <2>1. ASSUME NEW p \in Photos
          PROVE  Cardinality(Placed(items', p)) + Cardinality(Places(main', Appends))
                    + asked' <= burst'
      <3>1. Cardinality(Placed(items, p)) + Cardinality(Places(main, Appends)) + asked
                 <= burst
        BY CountedIs DEF IInv
      <3>2. /\ Cardinality(Placed(items', p)) <= Cardinality(Placed(items, p))
            /\ Cardinality(Placed(items', p)) \in Nat
        BY <1>2, PlacedFinite
      <3>3. asked' = asked /\ burst' = burst
        BY <1>1
      <3>4. /\ Cardinality(Placed(items, p)) \in Nat
            /\ Cardinality(Places(main, Appends)) \in Nat
            /\ asked \in Nat /\ burst \in Nat
        BY TypeFacts
      <3> QED BY <1>3, <3>1, <3>2, <3>3, <3>4
    <2> QED BY <1>3, <2>1, CountedIs
  <1>9. Loads(kind', entry', items', drawn', main', asked', burst', clean')
    <2> SUFFICES ASSUME burst = 1
                 PROVE  /\ OneLoad(main', asked', items')
                        /\ clean => Fresh(kind, entry, items', drawn', main', asked')
      BY <1>1 DEF Loads
    <2>1. main' = <<>> /\ asked' = 0
      BY <1>1, BlockRuns
    <2>2. OneLoad(main', asked', items')
      BY <2>1, NoRows DEF OneLoad
    <2>3. ASSUME clean
          PROVE  Fresh(kind, entry, items', drawn', main', asked')
      <3>1. IsAll(items, entry)
        <4>1. Fresh(kind, entry, items, drawn, main, asked)
          BY <2>3 DEF IInv, Loads
        <4> QED BY <1>1, <4>1, BlockRuns DEF Fresh
      <3>2. Shows(kind, drawn', entry)
        <4>1. kind \in Kinds /\ items \in Seq(Rows)
          BY TypeFacts
        <4>2. Shows(kind, IF Filters THEN Filteritems(Sorted(items)) ELSE Sorted(items),
                    entry)
          BY <3>1, <4>1, LoadShows
        <4> QED BY <1>1, <4>2
      <3> QED BY <2>1, <3>2, NoRows DEF Fresh
    <2> QED BY <2>2, <2>3
  <1> QED BY <1>5, <1>6, <1>7, <1>8, <1>9 DEF IInv

\* The screens but the gallery draw nothing while they load: a row of theirs is
\* there once the table is what the array holds.
LEMMA RowDrawn ==
    ASSUME IInv, NEW i \in 1 .. Len(drawn)
    PROVE  /\ kind # "VC_Gallery" => ~Loading
           /\ ~Loading => drawn = Source
           /\ drawn[i].id \in Photos
  <1>1. kind # "VC_Gallery" => ~Loading
    <2> SUFFICES ASSUME kind # "VC_Gallery", Loading PROVE FALSE
      OBVIOUS
    <2>1. drawn = <<>>
      BY TypeFacts DEF IInv, ByKind, Loading
    <2> QED BY <2>1, NoRows
  <1>2. ~Loading => drawn = Source
    BY DEF IInv, TableIsSource
  <1>3. drawn[i] \in Rows
    BY TypeFacts
  <1> QED BY <1>1, <1>2, <1>3, RowTypes

\* What an alert asks to delete is in the table and in the array.
LEMMA QuestionShown ==
    ASSUME IInv, question # {}
    PROVE  /\ kind \in EditScreens /\ ~Loading /\ drawn = Source
           /\ question \in SUBSET (1 .. Len(drawn))
  <1>1. kind \in EditScreens /\ kind # "VC_Gallery"
    BY DEF IInv, ByKind, EditScreens
  <1>2. PICK i \in question : i \in 1 .. Len(drawn)
    BY TypeFacts
  <1> QED BY <1>1, <1>2, RowDrawn, TypeFacts

\* Which screens a trap can end.
Ends(trap, k) ==
    /\ trap \in Traps \cup {"no"}
    /\ trap \in Traps \ {"date"} => k \in GalleryScreens
    /\ trap = "date" => k \in EditScreens \cup {"VC_Events"}

\* A step that changes neither the arrays nor what is under way.
LEMMA SameKeeps ==
    ASSUME IInv, UNCHANGED <<kind, entry, table, loading, spent>>,
           question' \subseteq 1 .. Len(drawn), kind \notin EditScreens => question' = {},
           large' \in [row : Photos \cup {None}, image : Photos \cup {None}],
           Ends(ended', kind)
    PROVE  IInv'
  <1>1. UNCHANGED <<kind, entry, items, filtered, drawn, main, asked, burst, clean, spent>>
    BY DEF table, loading
  <1>2. Typed'
    BY <1>1 DEF IInv, Typed, TypeOK, Ends
  <1>3. TableIsSource'
    BY <1>1 DEF IInv, TableIsSource, Loading, Source, Filters
  <1>4. ByKind(kind', drawn', main', asked', burst', question')
    BY <1>1 DEF IInv, ByKind
  <1>5. Counted(items', main', asked', burst')
    BY <1>1 DEF IInv
  <1>6. Loads(kind', entry', items', drawn', main', asked', burst', clean')
    BY <1>1 DEF IInv
  <1> QED BY <1>2, <1>3, <1>4, <1>5, <1>6 DEF IInv

\* A row of the table is missing from the array only on the gallery, while it
\* is being loaded; else the array's row is the one shown.
LEMMA RowShown ==
    ASSUME IInv, NEW i \in 1 .. Len(drawn)
    PROVE  /\ Missing(i) => Loading /\ kind = "VC_Gallery"
           /\ ~(Loading /\ kind = "VC_Gallery") => drawn = Source /\ i \in DOMAIN drawn
  <1>1. ~(Loading /\ kind = "VC_Gallery") => drawn = Source
    BY RowDrawn
  <1>2. DOMAIN drawn = 1 .. Len(drawn)
    BY TypeFacts
  <1> QED BY <1>1, <1>2 DEF Missing

LEMMA CrashKeeps ==
    ASSUME IInv, NEW trap, Ends(trap, kind), Crash(trap) PROVE IInv'
  <1>1. /\ ended' = trap
        /\ UNCHANGED <<kind, entry, table, loading, question, large, spent>>
    BY DEF Crash
  <1>2. /\ question' \subseteq 1 .. Len(drawn) /\ (kind \notin EditScreens => question' = {})
        /\ large' \in [row : Photos \cup {None}, image : Photos \cup {None}]
    BY <1>1 DEF IInv, Typed, TypeOK, ByKind
  <1>3. Ends(ended', kind)
    BY <1>1
  <1> QED BY <1>1, <1>2, <1>3, SameKeeps

LEMMA CellForItemKeeps ==
    ASSUME IInv, NEW i \in 1 .. Len(drawn), CellForItem(i) PROVE IInv'
  <1>1. CASE Missing(i) /\ Crash("row")
    <2>1. Ends("row", kind)
      BY <1>1, RowShown DEF Ends, Traps, GalleryScreens
    <2> QED BY <1>1, <2>1, CrashKeeps
  <1>2. CASE kind \in GalleryScreens /\ Crash("thumbnail")
    <2>1. Ends("thumbnail", kind)
      BY <1>2 DEF Ends, Traps
    <2> QED BY <1>2, <2>1, CrashKeeps
  <1>3. CASE kind \in EditScreens /\ Crash("date")
    <2>1. Ends("date", kind)
      BY <1>3 DEF Ends, Traps
    <2> QED BY <1>3, <2>1, CrashKeeps
  <1> QED BY <1>1, <1>2, <1>3 DEF CellForItem

LEMMA DidSelectKeeps ==
    ASSUME IInv, NEW i \in 1 .. Len(drawn), DidSelect(i) PROVE IInv'
  <1>1. CASE Crash("row") \/ Crash("image")
    <2>1. Ends("row", kind) /\ Ends("image", kind)
      BY DEF Ends, Traps, DidSelect, Free
    <2> QED BY <1>1, <2>1, CrashKeeps
  <1>2. ASSUME ~Missing(i), NEW image \in {None} \cup {p \in {Source[i].id} : Has(i, "photo")},
               large' = [row |-> drawn[i].id, image |-> image],
               UNCHANGED <<kind, entry, table, loading, question, ended, spent>>
        PROVE  IInv'
    <2>1. drawn[i].id \in Photos /\ Source[i].id \in Photos
      <3>1. drawn[i] \in Rows /\ Source[i] \in Rows
        BY <1>2, TypeFacts DEF Missing
      <3> QED BY <3>1, RowTypes
    <2>2. large' \in [row : Photos \cup {None}, image : Photos \cup {None}]
      BY <1>2, <2>1
    <2>3. /\ question' \subseteq 1 .. Len(drawn) /\ (kind \notin EditScreens => question' = {})
          /\ Ends(ended', kind)
      BY <1>2 DEF IInv, Typed, TypeOK, ByKind, Ends
    <2> QED BY <1>2, <2>2, <2>3, SameKeeps
  <1> QED BY <1>1, <1>2 DEF DidSelect

\* A deletion takes the rows out of the array and the table, and no more.
LEMMA DeleteKeeps ==
    ASSUME IInv, kind \in EditScreens, NEW rows \in SUBSET (1 .. Len(drawn)),
           rows # {}, Delete(rows)
    PROVE  IInv'
  <1>1. ~Loading /\ drawn = Source
    <2>1. PICK i \in rows : i \in 1 .. Len(drawn)
      OBVIOUS
    <2> QED BY <2>1, RowDrawn DEF EditScreens
  <1> DEFINE gone == Gone(rows)
             left == Without(Source, gone)
  <1>2. /\ entry' = [p \in Photos |->
                        IF \E i \in gone : Source[i].id = p THEN {} ELSE entry[p]]
        /\ items' = (IF Filters THEN items ELSE left)
        /\ filtered' = (IF Filters THEN left ELSE filtered)
        /\ drawn' = left /\ question' = {}
        /\ UNCHANGED <<kind, main, asked, burst, clean, large, ended, spent>>
    <2>1. \A i \in Gone(rows) : ~Missing(i)
      BY <1>1 DEF Gone, Missing
    <2> QED BY <2>1 DEF Delete, Remove, Source
  <1>3. gone \cap (1 .. Len(Source)) = gone
    BY <1>1 DEF Gone
  <1>4. Source \in Seq(Rows) /\ entry \in [Photos -> SUBSET Halves] /\ kind \in Kinds
    BY TypeFacts
  <1> HIDE DEF gone
  <1>5. entry' \in [Photos -> SUBSET Halves]
    BY <1>2, <1>4
  <1>6. /\ left \in Seq(Rows)
        /\ \A p : Cardinality(Placed(left, p)) <= Cardinality(Placed(Source, p))
        /\ Shows(kind, Source, entry) => Shows(kind, left, entry')
    <2>1. /\ left \in Seq(Rows)
          /\ \A p : Cardinality(Placed(left, p)) <= Cardinality(Placed(Source, p))
      BY <1>4, RowsOut
    <2>2. Shows(kind, Source, entry) => Shows(kind, left, entry')
      BY <1>2, <1>3, <1>4, <1>5, RowsOut
    <2> QED BY <2>1, <2>2
  <1> HIDE DEF left
  <1>7. /\ items' \in Seq(Rows) /\ filtered' \in Seq(Rows) /\ drawn' \in Seq(Rows)
        /\ \A p : Cardinality(Placed(items', p)) <= Cardinality(Placed(items, p))
    <2>1. CASE Filters
      BY <1>2, <1>6, <2>1, TypeFacts
    <2>2. CASE ~Filters
      BY <1>2, <1>6, <2>2, TypeFacts DEF Source
    <2> QED BY <2>1, <2>2
  <1>8. Typed'
    BY <1>2, <1>5, <1>7 DEF IInv, Typed, TypeOK, Library!Entries, Halves
  <1>9. TableIsSource'
    BY <1>2 DEF TableIsSource, Source, Filters
  <1>10. main' = <<>> /\ asked' = 0
    BY <1>1, <1>2, TypeFacts DEF Loading
  <1>11. ByKind(kind', drawn', main', asked', burst', question')
    BY <1>2, <1>10 DEF IInv, ByKind
  <1>12. Counted(items', main', asked', burst')
    <2>1. \A i \in 1 .. Len(main') : main'[i].block = "append" => Climbs(main'[i].rows)
      BY <1>10, NoRows
    <2>2. ASSUME NEW p \in Photos
          PROVE  Cardinality(Placed(items', p)) + Cardinality(Places(main', Appends))
                    + asked' <= burst'
      <3>1. Cardinality(Placed(items, p)) + Cardinality(Places(main, Appends)) + asked
                 <= burst
        BY CountedIs DEF IInv
      <3>2. /\ Cardinality(Placed(items', p)) <= Cardinality(Placed(items, p))
            /\ Cardinality(Placed(items', p)) \in Nat
        BY <1>7, PlacedFinite
      <3>3. main' = main /\ asked' = asked /\ burst' = burst
        BY <1>2
      <3>4. /\ Cardinality(Placed(items, p)) \in Nat
            /\ Cardinality(Places(main, Appends)) \in Nat
            /\ asked \in Nat /\ burst \in Nat
        BY TypeFacts
      <3> QED BY <3>1, <3>2, <3>3, <3>4
    <2> QED BY <2>1, <2>2, CountedIs
  <1>13. Loads(kind', entry', items', drawn', main', asked', burst', clean')
    <2> SUFFICES ASSUME burst = 1
                 PROVE  /\ OneLoad(main', asked', items')
                        /\ clean => Fresh(kind, entry', items', drawn', main', asked')
      BY <1>2 DEF Loads
    <2>1. OneLoad(main', asked', items')
      BY <1>10, NoRows DEF OneLoad
    <2>2. ASSUME clean
          PROVE  Fresh(kind, entry', items', drawn', main', asked')
      <3>1. Shows(kind, drawn, entry)
        <4>1. Fresh(kind, entry, items, drawn, main, asked)
          BY <2>2 DEF IInv, Loads
        <4> QED BY <1>2, <1>10, <4>1 DEF Fresh
      <3>2. Shows(kind, drawn', entry')
        BY <1>1, <1>2, <1>6, <3>1
      <3> QED BY <1>10, <3>2, NoRows DEF Fresh
    <2> QED BY <2>1, <2>2
  <1> QED BY <1>8, <1>9, <1>11, <1>12, <1>13 DEF IInv

LEMMA OthersChangeKeeps == ASSUME IInv, OthersChange PROVE IInv'
  <1>1. /\ spent.changes < MaxChanges /\ spent' = [spent EXCEPT !.changes = @ + 1]
        /\ clean' = FALSE
        /\ UNCHANGED <<kind, items, filtered, drawn, main, asked, burst, question,
                       large, ended>>
    BY DEF OthersChange, table
  <1>2. entry' \in [Photos -> SUBSET Halves]
    <2>1. entry \in [Photos -> SUBSET Halves]
      BY TypeFacts
    <2>2. PICK p \in Photos :
              Library!Delete(p) \/ \E halves \in SUBSET Halves : Library!Save(p, halves)
      BY DEF OthersChange, Library!Next, Halves
    <2>3. \E halves \in SUBSET Halves : entry' = [entry EXCEPT ![p] = halves]
      BY <2>2 DEF Library!Delete, Library!Save
    <2> QED BY <2>1, <2>3
  <1>3. Typed'
    <2>1. spent.changes \in 0 .. MaxChanges /\ spent \in [loads : 0 .. MaxLoads,
                 changes : 0 .. MaxChanges, failures : 0 .. MaxFailures]
      BY DEF IInv, Typed, TypeOK
    <2>2. spent.changes + 1 \in 0 .. MaxChanges
      BY <1>1, <2>1, ListingAssumption
    <2>3. /\ spent' \in [loads : 0 .. MaxLoads, changes : 0 .. MaxChanges,
                         failures : 0 .. MaxFailures]
          /\ spent'.loads = spent.loads
      BY <1>1, <2>1, <2>2
    <2> QED BY <1>1, <1>2, <2>3 DEF IInv, Typed, TypeOK, Library!Entries, Halves
  <1>4. TableIsSource'
    BY <1>1 DEF IInv, TableIsSource, Loading, Source, Filters
  <1>5. ByKind(kind', drawn', main', asked', burst', question')
    BY <1>1 DEF IInv, ByKind
  <1>6. Counted(items', main', asked', burst')
    BY <1>1 DEF IInv
  <1>7. Loads(kind', entry', items', drawn', main', asked', burst', clean')
    BY <1>1 DEF IInv, Loads
  <1> QED BY <1>3, <1>4, <1>5, <1>6, <1>7 DEF IInv

LEMMA NextKeeps == ASSUME IInv, [Next]_vars PROVE IInv'
  <1>1. CASE ReloadGallery
    BY <1>1, ReloadGalleryKeeps
  <1>2. CASE Answer
    BY <1>2, AnswerKeeps
  <1>3. CASE RunMain
    <2>1. CASE kind = "VC_Events" /\ Crash("date")
      <3>1. Ends("date", kind)
        BY <2>1 DEF Ends, Traps
      <3> QED BY <2>1, <3>1, CrashKeeps
    <2>2. CASE RunAppend /\ ~(kind = "VC_Events" /\ Unreadable(Head(main).rows))
      BY <1>3, <2>2, RunAppendKeeps DEF RunMain
    <2>3. CASE RunAppend /\ kind = "VC_Events" /\ Unreadable(Head(main).rows)
      BY <2>1, <2>3 DEF RunAppend
    <2> QED BY <1>3, <2>2, <2>3, RunQueryKeeps, RunNotifyKeeps DEF RunMain
  <1>4. CASE Confirm
    BY <1>4, QuestionShown, DeleteKeeps DEF Confirm
  <1>5. CASE Cancel
    <2>1. /\ question' = {} /\ UNCHANGED <<kind, entry, table, loading, large, ended, spent>>
      BY <1>5 DEF Cancel
    <2>2. /\ large' \in [row : Photos \cup {None}, image : Photos \cup {None}]
          /\ Ends(ended', kind)
      BY <2>1 DEF IInv, Typed, TypeOK, Ends
    <2> QED BY <2>1, <2>2, SameKeeps
  <1>6. CASE OthersChange
    BY <1>6, OthersChangeKeeps
  <1>7. ASSUME NEW i \in 1 .. Len(drawn), CellForItem(i) \/ DidSelect(i) \/ SwipeRow(i)
        PROVE  IInv'
    <2>1. CASE CellForItem(i)
      BY <2>1, CellForItemKeeps
    <2>2. CASE DidSelect(i)
      BY <2>2, DidSelectKeeps
    <2>3. CASE SwipeRow(i)
      <3>1. kind \in EditScreens /\ Delete({i})
        BY <2>3 DEF SwipeRow, EditScreens
      <3>2. {i} \in SUBSET (1 .. Len(drawn)) /\ {i} # {}
        OBVIOUS
      <3> QED BY <3>1, <3>2, DeleteKeeps
    <2> QED BY <1>7, <2>1, <2>2, <2>3
  <1>8. ASSUME NEW rows \in SUBSET (1 .. Len(drawn)), AskToDelete(rows)
        PROVE  IInv'
    <2>1. /\ kind \in EditScreens /\ question' = rows
          /\ UNCHANGED <<kind, entry, table, loading, large, ended, spent>>
      BY <1>8 DEF AskToDelete
    <2>2. /\ large' \in [row : Photos \cup {None}, image : Photos \cup {None}]
          /\ Ends(ended', kind)
      BY <2>1 DEF IInv, Typed, TypeOK, Ends
    <2> QED BY <2>1, <2>2, SameKeeps
  <1>9. CASE UNCHANGED vars
    <2>1. UNCHANGED <<kind, entry, table, loading, question, large, ended, spent>>
      BY <1>9 DEF vars
    <2>2. /\ question' \subseteq 1 .. Len(drawn) /\ (kind \notin EditScreens => question' = {})
          /\ large' \in [row : Photos \cup {None}, image : Photos \cup {None}]
          /\ Ends(ended', kind)
      BY <2>1 DEF IInv, Typed, TypeOK, ByKind, Ends
    <2> QED BY <2>1, <2>2, SameKeeps
  <1> QED BY <1>1, <1>2, <1>3, <1>4, <1>5, <1>6, <1>7, <1>8, <1>9 DEF Next

LEMMA Invariance == Spec => []IInv
  <1>1. Init => IInv
    BY InitHolds
  <1>2. IInv /\ [Next]_vars => IInv'
    BY NextKeeps
  <1> QED BY <1>1, <1>2, PTL DEF Spec

-----------------------------------------------------------------------------
(* The theorems                                                             *)

\* Every variable has its type; the application ends on gallery screens only.
THEOREM TypeCorrect == Spec => []TypeOK
  <1>1. IInv => TypeOK
    BY DEF IInv, Typed
  <1> QED BY <1>1, Invariance, PTL

\* Overlapping loads do not list a photo more often than there are loads; the
\* table is what its array holds once they are over, and after a single load it
\* shows the documents that belong there, in order.
THEOREM TableShowsTheCollection == Spec => []TableShowsCollection
  <1>1. ASSUME IInv PROVE ListedOncePerLoad
    <2> SUFFICES ASSUME NEW p \in Photos
                 PROVE  Cardinality({i \in DOMAIN items : items[i].id = p}) <= burst
      BY DEF ListedOncePerLoad
    <2>1. DOMAIN items = 1 .. Len(items)
      BY <1>1, TypeFacts
    <2>2. {i \in DOMAIN items : items[i].id = p} = Placed(items, p)
      BY <2>1 DEF Placed
    <2>3. Cardinality(Placed(items, p)) + Cardinality(Places(main, Appends)) + asked
             <= burst
      BY <1>1, CountedIs DEF IInv
    <2>4. /\ Cardinality(Placed(items, p)) \in Nat
          /\ Cardinality(Places(main, Appends)) \in Nat
          /\ asked \in Nat /\ burst \in Nat
      BY <1>1, TypeFacts
    <2>5. Cardinality(Placed(items, p)) <= burst
      BY <2>3, <2>4
    <2> QED BY <2>2, <2>5
  <1>2. ASSUME IInv PROVE LoadShowsCollection
    <2> SUFFICES ASSUME ~Loading, clean, burst = 1
                 PROVE  /\ {drawn[i].id : i \in DOMAIN drawn} = {p \in Listed : Belongs(p)}
                        /\ \A i, j \in DOMAIN drawn : i < j => Above(drawn[i], drawn[j])
      BY DEF LoadShowsCollection
    <2>1. kind \in Kinds /\ DOMAIN drawn = 1 .. Len(drawn)
      BY <1>2, TypeFacts
    <2>2. Shows(kind, drawn, entry)
      <3>1. main = <<>> /\ asked = 0
        BY <1>2, TypeFacts DEF Loading
      <3> QED BY <1>2, <3>1 DEF IInv, Loads, Fresh
    <2>3. \A i \in 1 .. Len(drawn) : drawn[i].id \in Photos
      <3>1. \A i \in 1 .. Len(drawn) : drawn[i] \in Rows
        BY <1>2, TypeFacts
      <3> QED BY <3>1, RowTypes
    <2>4. \A p \in Photos : Belongs(p) <=> BelongsOn(kind, p)
      BY DEF Belongs, BelongsOn
    <2>5. {drawn[i].id : i \in DOMAIN drawn} = {p \in Listed : Belongs(p)}
      BY <2>1, <2>2, <2>3, <2>4 DEF Shows, Listed
    <2>6. \A r, s : AboveOn(kind, r, s) => Above(r, s)
      BY <2>1 DEF AboveOn, Above, Kinds, GalleryScreens, EditScreens
    <2>7. \A i, j \in DOMAIN drawn : i < j => Above(drawn[i], drawn[j])
      BY <2>1, <2>2, <2>6 DEF Shows
    <2> QED BY <2>5, <2>7
  <1>3. IInv => TableShowsCollection
    BY <1>1, <1>2 DEF TableShowsCollection, IInv
  <1> QED BY <1>3, Invariance, PTL

\* But for a gallery that is loading, the application ends for a flaw in a
\* document only: one in a row of the table, or an event just read. It never
\* ends for a row that the array does not have.
THEOREM CrashesHaveCause == Spec => CrashHasCause
  <1> DEFINE rows == IF kind = "VC_Events" THEN Head(main).rows ELSE drawn
             Cause == (Loading /\ kind = "VC_Gallery") \/ Flaw(ended', rows)
  <1>1. ASSUME IInv, Next, ended' # ended, ~(Loading /\ kind = "VC_Gallery")
        PROVE  Flaw(ended', rows)
    <2>1. CASE RunMain
      <3>1. RunAppend
        BY <1>1, <2>1 DEF RunMain, RunQuery, RunNotify
      <3>2. kind = "VC_Events" /\ Unreadable(Head(main).rows) /\ ended' = "date"
        BY <1>1, <3>1 DEF RunAppend, Crash
      <3> QED BY <3>2 DEF Flaw
    <2>2. ASSUME NEW i \in 1 .. Len(drawn), CellForItem(i) PROVE Flaw(ended', rows)
      <3>1. ~Missing(i) /\ drawn = Source /\ i \in DOMAIN drawn
        BY <1>1, RowShown
      <3>2. kind # "VC_Events"
        BY <2>2, <3>1 DEF CellForItem, GalleryScreens, EditScreens
      <3>3. \/ "thumbnail" \notin drawn[i].urls /\ ended' = "thumbnail"
            \/ drawn[i].id \notin Dated /\ ended' = "date"
        BY <2>2, <3>1 DEF CellForItem, Has, Crash
      <3> QED BY <3>1, <3>2, <3>3 DEF Flaw, Unreadable
    <2>3. ASSUME NEW i \in 1 .. Len(drawn), DidSelect(i) PROVE Flaw(ended', rows)
      <3>1. ~Missing(i) /\ drawn = Source /\ i \in DOMAIN drawn
        BY <1>1, RowShown
      <3>2. kind # "VC_Events"
        BY <2>3 DEF DidSelect, Free, GalleryScreens, EditScreens
      <3>3. "photo" \in drawn[i].urls /\ ended' = "image"
        BY <1>1, <2>3, <3>1 DEF DidSelect, Has, Crash
      <3> QED BY <3>1, <3>2, <3>3 DEF Flaw
    <2>4. ASSUME NEW i \in 1 .. Len(drawn), SwipeRow(i) PROVE FALSE
      <3>1. \A k \in Gone({i}) : ~Missing(k)
        BY <1>1, RowShown DEF Gone
      <3> QED BY <1>1, <2>4, <3>1 DEF SwipeRow, Delete, Remove
    <2>5. CASE Confirm
      <3>1. drawn = Source /\ question \in SUBSET (1 .. Len(drawn))
        BY <1>1, <2>5, QuestionShown DEF Confirm
      <3>2. \A k \in Gone(question) : ~Missing(k)
        BY <3>1 DEF Gone, Missing
      <3> QED BY <1>1, <2>5, <3>2 DEF Confirm, Delete, Remove
    <2>6. ~ReloadGallery /\ ~Answer /\ ~Cancel /\ ~OthersChange
      BY <1>1 DEF ReloadGallery, Answer, Cancel, OthersChange
    <2>7. ~\E chosen \in SUBSET (1 .. Len(drawn)) : AskToDelete(chosen)
      BY <1>1 DEF AskToDelete
    <2> HIDE DEF rows
    <2> QED BY <1>1, <2>1, <2>2, <2>3, <2>4, <2>5, <2>6, <2>7 DEF Next
  <1>2. IInv /\ [Next]_vars => [ended' # ended => Cause]_vars
    BY <1>1
  <1> QED BY <1>2, Invariance, PTL DEF Spec, CrashHasCause

\* Deleting rows deletes the photos that the table showed in them, and a tap
\* opens the photo of its cell or none, unless the gallery is loading.
THEOREM RowsMeanWhatTheyShow == Spec => RowsActOnWhatTheyShow
  <1> DEFINE shown == {drawn[i].id : i \in question}
             Deletes == question # {} /\ drawn' # drawn =>
                entry' = [p \in Photos |-> IF p \in shown THEN {} ELSE entry[p]]
             Opens == large' # large /\ ~(Loading /\ kind = "VC_Gallery") =>
                large'.image \in {large'.row, None}
  <1>1. ASSUME IInv, Next, question # {}, drawn' # drawn
        PROVE  entry' = [p \in Photos |-> IF p \in shown THEN {} ELSE entry[p]]
    <2>1. /\ kind \in EditScreens /\ ~Loading /\ drawn = Source
          /\ question \in SUBSET (1 .. Len(drawn))
      BY <1>1, QuestionShown
    <2>2. Delete(question)
      <3>1. ASSUME NEW i \in 1 .. Len(drawn),
                   CellForItem(i) \/ DidSelect(i) \/ SwipeRow(i)
            PROVE  FALSE
        BY <1>1, <3>1 DEF CellForItem, Crash, DidSelect, SwipeRow, Free, table
      <3>2. ~ReloadGallery /\ ~Answer /\ ~Cancel /\ ~OthersChange
        BY <1>1 DEF ReloadGallery, Answer, Cancel, OthersChange, table
      <3>3. ~RunMain
        BY <2>1 DEF RunMain, Loading
      <3>4. ~\E rows \in SUBSET (1 .. Len(drawn)) : AskToDelete(rows)
        BY <1>1 DEF AskToDelete, table
      <3> QED BY <1>1, <3>1, <3>2, <3>3, <3>4 DEF Next, Confirm
    <2>3. Gone(question) = question /\ \A i \in Gone(question) : ~Missing(i)
      BY <2>1 DEF Gone, Missing
    <2>4. entry' = [p \in Photos |->
                       IF \E i \in question : Source[i].id = p THEN {} ELSE entry[p]]
      BY <2>2, <2>3 DEF Delete, Remove
    <2>5. \A p \in Photos : p \in shown <=> \E i \in question : Source[i].id = p
      BY <2>1
    <2> HIDE DEF shown
    <2> QED BY <2>4, <2>5
  <1>2. ASSUME IInv, Next, large' # large, ~(Loading /\ kind = "VC_Gallery")
        PROVE  large'.image \in {large'.row, None}
    <2>1. PICK i \in 1 .. Len(drawn) : DidSelect(i)
      <3>1. ASSUME NEW i \in 1 .. Len(drawn), CellForItem(i) \/ SwipeRow(i)
            PROVE  FALSE
        BY <1>2, <3>1 DEF CellForItem, Crash, SwipeRow, Delete, Remove
      <3>2. ~ReloadGallery /\ ~Answer /\ ~Confirm /\ ~Cancel /\ ~OthersChange
        BY <1>2 DEF ReloadGallery, Answer, Confirm, Delete, Remove, Crash, Cancel,
           OthersChange
      <3>3. ~RunMain
        BY <1>2 DEF RunMain, RunQuery, RunAppend, RunNotify, Crash
      <3>4. ~\E rows \in SUBSET (1 .. Len(drawn)) : AskToDelete(rows)
        BY <1>2 DEF AskToDelete
      <3> QED BY <1>2, <3>1, <3>2, <3>3, <3>4 DEF Next
    <2>2. drawn = Source
      BY <1>2, RowDrawn
    <2>3. PICK image \in {None} \cup {p \in {Source[i].id} : Has(i, "photo")} :
            large' = [row |-> drawn[i].id, image |-> image]
      BY <1>2, <2>1 DEF DidSelect, Crash
    <2> QED BY <2>2, <2>3
  <1>3. IInv /\ [Next]_vars => [Deletes]_vars /\ [Opens]_vars
    BY <1>1, <1>2
  <1> QED BY <1>3, Invariance, PTL
          DEF Spec, RowsActOnWhatTheyShow, DeletesTheRowsShown, OpensTheTappedPhoto

=============================================================================
