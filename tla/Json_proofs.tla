----------------------------- MODULE Json_proofs -----------------------------
(***************************************************************************)
(* That the accessors of yyjson.h, which go from cell to cell by lengths   *)
(* and offsets, find in a document what its text says, for every text.     *)
(*                                                                         *)
(* What a loop or a recursive function does is shown by induction, in the  *)
(* form: a set of numbers that is not empty has a least element.           *)
(***************************************************************************)
EXTENDS Json, FiniteSetTheorems, WellFoundedInduction, TLAPS

LEMMA LeastNatural ==
  ASSUME NEW T \in SUBSET Nat, T # {}
  PROVE  \E m \in T : \A k \in T : m <= k
<1> DEFINE Less == {pair \in Nat \X Nat : pair[1] < pair[2]}
<1>1. IsWellFoundedOn(Less, Nat)
  BY NatLessThanWellFounded DEF OpToRel
<1>2. PICK m \in T : \A k \in T : <<k, m>> \notin Less
  BY <1>1, WFMin, Zenon
<1>3. ASSUME NEW k \in T PROVE m <= k
  <2>1. <<k, m>> \notin Less /\ k \in Nat /\ m \in Nat
    BY <1>2
  <2>2. ~ (k < m)
    BY <2>1
  <2>3. QED
    BY <2>1, <2>2
<1>4. QED
  BY <1>3

\* An interval of numbers has as many elements as it is long.
LEMMA IntervalCardinality ==
  ASSUME NEW a \in Int, NEW b \in Int, a <= b + 1
  PROVE  IsFiniteSet(a .. b) /\ Cardinality(a .. b) = b - a + 1
BY FS_Interval

-----------------------------------------------------------------------------
(***************************************************************************)
(* Texts.  An item and all that is in it lie one behind the other, up to   *)
(* the place After it.                                                     *)
(***************************************************************************)

Depth(items, i) == items[i].depth
After(items, i) == i + Extent(items, i)

LEMMA Depths ==
  ASSUME NEW items, IsText(items)
  PROVE  /\ Len(items) \in Nat
         /\ \A i \in 1 .. Len(items) : Depth(items, i) \in Nat /\ (Depth(items, i) = 0 <=> i = 1)
         /\ \A i \in 1 .. Len(items) : i > 1 /\ Depth(items, i) > Depth(items, i - 1) =>
                Depth(items, i) = Depth(items, i - 1) + 1 /\ items[i - 1].type \in Containers
BY DEF IsText, Depth

LEMMA AfterIs ==
  ASSUME NEW items, IsText(items), NEW i \in 1 .. Len(items)
  PROVE  /\ Extent(items, i) \in Nat \ {0}
         /\ After(items, i) \in i + 1 .. Len(items) + 1
         /\ \A k \in i + 1 .. After(items, i) - 1 : Depth(items, k) > Depth(items, i)
         /\ After(items, i) <= Len(items) => Depth(items, After(items, i)) <= Depth(items, i)
<1> DEFINE n == Len(items)
           E == {j \in i .. n : \A k \in i + 1 .. j : Depth(items, k) > Depth(items, i)}
           T == {k \in i + 1 .. n : ~ (Depth(items, k) > Depth(items, i))}
<1>1. n \in Nat /\ \A k \in 1 .. n : Depth(items, k) \in Nat
  BY Depths
<1>2. Extent(items, i) = Cardinality(E)
  BY DEF Extent, Depth
<1>3. i \in Int /\ 1 <= i /\ i <= n /\ T \in SUBSET Nat
  BY <1>1
<1>4. CASE T = {}
  <2>1. E = i .. n
    BY <1>4, <1>1
  <2>2. Cardinality(i .. n) = n - i + 1
    BY <1>3, <1>1, IntervalCardinality
  <2>3. Extent(items, i) = n - i + 1
    BY <1>2, <2>1, <2>2
  <2>4. \A k \in i + 1 .. n : Depth(items, k) > Depth(items, i)
    BY <1>4
  <2>5. After(items, i) = n + 1
    BY <2>3, <1>1, <1>3 DEF After
  <2>6. QED
    BY <1>1, <1>3, <2>3, <2>4, <2>5
<1>5. CASE T # {}
  <2> HIDE DEF T
  <2>1. PICK m \in T : \A k \in T : m <= k
    BY <1>3, <1>5, LeastNatural
  <2> USE DEF T
  <2>2. m \in i + 1 .. n
    BY <2>1
  <2>3. E = i .. m - 1
    <3>1. ASSUME NEW j \in E PROVE j \in i .. m - 1
      BY <2>1, <1>1
    <3>2. ASSUME NEW j \in i .. m - 1 PROVE j \in E
      BY <2>1, <1>1
    <3>3. QED
      BY <3>1, <3>2
  <2>4. Cardinality(i .. m - 1) = m - 1 - i + 1
    BY <2>2, <1>3, <1>1, IntervalCardinality
  <2>5. Extent(items, i) = m - i
    <3>1. Extent(items, i) = Cardinality(i .. m - 1)
      BY <1>2, <2>3, Zenon
    <3>2. QED
      BY <3>1, <2>2, <2>4, <1>3, <1>1
  <2>6. After(items, i) = m
    BY <2>5, <2>2, <1>1, <1>3 DEF After
  <2>7. \A k \in i + 1 .. m - 1 : Depth(items, k) > Depth(items, i)
    BY <2>1, <2>2, <1>1
  <2>8. Depth(items, m) <= Depth(items, i)
    BY <2>1, <2>2, <1>1
  <2>9. QED
    BY <1>1, <1>3, <2>2, <2>5, <2>6, <2>7, <2>8
<1>6. QED
  BY <1>4, <1>5

\* What is no container has nothing in it.
LEMMA AfterLeaf ==
  ASSUME NEW items, IsText(items), NEW i \in 1 .. Len(items), items[i].type \notin Containers
  PROVE  After(items, i) = i + 1
<1>1. CASE i = Len(items)
  BY <1>1, AfterIs, Depths
<1>2. CASE i < Len(items)
  <2>1. ~ (Depth(items, i + 1) > Depth(items, i))
    BY <1>2, Depths
  <2>2. QED
    BY <1>2, <2>1, AfterIs, Depths
<1>3. QED
  BY <1>1, <1>2, Depths

\* yyjson_get_next.
LEMMA NextOfIs ==
  ASSUME NEW items, IsText(items), NEW i \in 1 .. Len(items)
  PROVE  NextOf(Laid(items), i) = After(items, i)
<1>1. i # Null
  BY Depths DEF Null
<1>2. Laid(items)[i].type = items[i].type
  BY DEF Laid
<1>3. CASE items[i].type \in Containers
  <2>1. Laid(items)[i].uni = Extent(items, i)
    BY <1>3 DEF Laid
  <2>2. QED
    BY <1>1, <1>2, <1>3, <2>1 DEF NextOf, IsCtn, After
<1>4. CASE items[i].type \notin Containers
  BY <1>1, <1>2, <1>4, AfterLeaf DEF NextOf, IsCtn
<1>5. QED
  BY <1>3, <1>4

-----------------------------------------------------------------------------
(***************************************************************************)
(* The children of an item follow each other: behind one and what is in it *)
(* is the next, or the end of the item.                                    *)
(***************************************************************************)

LEMMA ChildIs ==
  ASSUME NEW items, IsText(items), NEW i \in 1 .. Len(items)
  PROVE  Children(items, i) =
           {j \in i + 1 .. After(items, i) - 1 : Depth(items, j) = Depth(items, i) + 1}
<1>1. i + 1 .. After(items, i) - 1 = i + 1 .. i + Extent(items, i) - 1
  BY AfterIs, Depths DEF After
<1>2. QED
  BY <1>1 DEF Children, Depth

LEMMA ChildBounds ==
  ASSUME NEW items, IsText(items), NEW i \in 1 .. Len(items), NEW j \in Children(items, i)
  PROVE  /\ i \in Nat /\ j \in 1 .. Len(items) /\ j > i /\ j < After(items, i)
         /\ Depth(items, j) = Depth(items, i) + 1
         /\ After(items, i) \in Nat /\ After(items, j) \in Nat /\ After(items, j) > j
<1>1. After(items, i) \in i + 1 .. Len(items) + 1 /\ Len(items) \in Nat
  BY AfterIs, Depths
<1>2. j \in i + 1 .. After(items, i) - 1 /\ Depth(items, j) = Depth(items, i) + 1
  BY ChildIs
<1>3. j \in 1 .. Len(items)
  BY <1>1, <1>2
<1>4. After(items, j) \in j + 1 .. Len(items) + 1
  BY <1>3, AfterIs
<1>5. QED
  BY <1>1, <1>2, <1>3, <1>4

LEMMA ChildSpan ==
  ASSUME NEW items, IsText(items), NEW i \in 1 .. Len(items), NEW j \in Children(items, i)
  PROVE  /\ After(items, j) <= After(items, i)
         /\ After(items, j) # After(items, i) => After(items, j) \in Children(items, i)
         /\ \A k \in Children(items, i) : k < After(items, j) => k <= j
<1> DEFINE a == After(items, j)
           e == After(items, i)
<1>1. /\ Len(items) \in Nat /\ i \in Nat /\ j \in 1 .. Len(items) /\ j > i /\ j < e
      /\ Depth(items, j) = Depth(items, i) + 1 /\ a \in Nat /\ e \in Nat /\ a > j
  BY ChildBounds, Depths
<1>2. /\ e <= Len(items) => Depth(items, e) <= Depth(items, i)
      /\ a <= Len(items) => Depth(items, a) <= Depth(items, j)
      /\ a <= Len(items) + 1
      /\ \A k \in i + 1 .. e - 1 : Depth(items, k) > Depth(items, i)
      /\ \A k \in j + 1 .. a - 1 : Depth(items, k) > Depth(items, j)
  BY <1>1, AfterIs
<1>3. \A k \in 1 .. Len(items) : Depth(items, k) \in Nat
  BY Depths
<1>4. a <= e
  <2>1. SUFFICES ASSUME a > e PROVE FALSE
    BY <1>1
  <2>2. e \in j + 1 .. a - 1 /\ e \in 1 .. Len(items)
    BY <2>1, <1>1, <1>2
  <2>3. QED
    BY <2>2, <1>1, <1>2, <1>3
<1>5. a # e => a \in Children(items, i)
  <2>1. SUFFICES ASSUME a # e PROVE a \in Children(items, i)
    OBVIOUS
  <2>2. a \in i + 1 .. e - 1 /\ a \in 1 .. Len(items)
    BY <2>1, <1>1, <1>4, AfterIs
  <2>3. Depth(items, a) = Depth(items, i) + 1
    BY <2>2, <1>1, <1>2, <1>3
  <2>4. QED
    BY <2>2, <2>3, ChildIs
<1>6. ASSUME NEW k \in Children(items, i), k < a PROVE k <= j
  <2>1. k \in 1 .. Len(items) /\ Depth(items, k) = Depth(items, i) + 1
    BY ChildBounds
  <2>2. QED
    BY <2>1, <1>1, <1>2, <1>3, <1>6
<1>7. QED
  BY <1>4, <1>5, <1>6

LEMMA ChildFirst ==
  ASSUME NEW items, IsText(items), NEW i \in 1 .. Len(items)
  PROVE  /\ After(items, i) # i + 1 => i + 1 \in Children(items, i)
         /\ IsFiniteSet(Children(items, i))
         /\ Children(items, i) \in SUBSET Nat
<1>1. After(items, i) \in i + 1 .. Len(items) + 1 /\ Len(items) \in Nat /\ i \in Nat
  BY AfterIs, Depths
<1>2. ASSUME After(items, i) # i + 1 PROVE i + 1 \in Children(items, i)
  <2>1. i + 1 \in 1 .. Len(items) /\ i + 1 \in i + 1 .. After(items, i) - 1
    BY <1>1, <1>2
  <2>2. Depth(items, i + 1) > Depth(items, i)
    BY <2>1, AfterIs
  <2>3. Depth(items, i + 1) = Depth(items, (i + 1) - 1) + 1
    BY <2>1, <2>2, <1>1, Depths
  <2>4. Depth(items, i + 1) = Depth(items, i) + 1
    BY <2>3, <1>1
  <2>5. QED
    BY <2>1, <2>4, ChildIs
<1>3. IsFiniteSet(i + 1 .. After(items, i) - 1) /\ Children(items, i) \subseteq i + 1 .. After(items, i) - 1
  <2>1. IsFiniteSet(i + 1 .. After(items, i) - 1)
    BY <1>1, IntervalCardinality
  <2>2. QED
    BY <2>1, ChildIs
<1>4. IsFiniteSet(Children(items, i))
  BY <1>3, FS_Subset
<1>5. Children(items, i) \in SUBSET Nat
  BY <1>1, <1>3
<1>6. QED
  BY <1>2, <1>4, <1>5

-----------------------------------------------------------------------------
(* Their numbers.  The places of an item are its children and its end; the *)
(* number of a place is that of the children before it.                    *)

Rank(items, i, n) == Cardinality({k \in Children(items, i) : k < n})
PlacesOf(items, i)  == Children(items, i) \union {After(items, i)}
NumberOf(items, i)   == Cardinality(Children(items, i))

LEMMA RankNext ==
  ASSUME NEW items, IsText(items), NEW i \in 1 .. Len(items)
  PROVE  /\ NumberOf(items, i) \in Nat
         /\ \A n \in Nat : Rank(items, i, n) \in Nat /\ Rank(items, i, n) <= NumberOf(items, i)
         /\ \A n, o \in Nat : n <= o => Rank(items, i, n) <= Rank(items, i, o)
         /\ Rank(items, i, i + 1) = 0
         /\ Rank(items, i, After(items, i)) = NumberOf(items, i)
         /\ \A j \in Children(items, i) :
                Rank(items, i, After(items, j)) = Rank(items, i, j) + 1
<1> DEFINE C == Children(items, i)
           B(n) == {k \in C : k < n}
<1>1. IsFiniteSet(C) /\ C \in SUBSET Nat /\ Cardinality(C) \in Nat
  BY ChildFirst, FS_CardinalityType
<1>2. ASSUME NEW n \in Nat PROVE IsFiniteSet(B(n)) /\ Cardinality(B(n)) \in Nat /\ Cardinality(B(n)) <= Cardinality(C)
  <2>1. B(n) \subseteq C
    OBVIOUS
  <2>2. QED
    BY <2>1, <1>1, FS_Subset, FS_CardinalityType
<1>3. ASSUME NEW n \in Nat, NEW o \in Nat, n <= o PROVE Cardinality(B(n)) <= Cardinality(B(o))
  <2>1. B(n) \subseteq B(o)
    BY <1>3, <1>1
  <2>2. QED
    BY <2>1, <1>2, FS_Subset
<1>4. Cardinality(B(i + 1)) = 0
  <2>1. B(i + 1) = {}
    BY ChildBounds
  <2>2. QED
    BY <2>1, FS_EmptySet
<1>5. B(After(items, i)) = C
  BY ChildBounds
<1>6. ASSUME NEW j \in C PROVE Cardinality(B(After(items, j))) = Cardinality(B(j)) + 1
  <2>1. j \in Nat /\ After(items, j) \in Nat /\ j < After(items, j)
    BY ChildBounds, <1>1
  <2>2. B(After(items, j)) = B(j) \union {j}
    BY <2>1, <1>1, ChildSpan
  <2>3. j \notin B(j)
    BY <2>1
  <2>4. IsFiniteSet(B(j))
    BY <1>2, <2>1
  <2>5. QED
    BY <2>2, <2>3, <2>4, FS_AddElement
<1>7. QED
  BY <1>1, <1>2, <1>3, <1>4, <1>5, <1>6 DEF Rank, NumberOf

LEMMA RankOrder ==
  ASSUME NEW items, IsText(items), NEW i \in 1 .. Len(items),
         NEW p \in PlacesOf(items, i), NEW q \in PlacesOf(items, i)
  PROVE  /\ p \in Nat /\ q \in Nat
         /\ p < q => Rank(items, i, p) < Rank(items, i, q)
         /\ p # q => Rank(items, i, p) # Rank(items, i, q)
<1>1. /\ After(items, i) \in Nat /\ i \in Nat /\ Children(items, i) \in SUBSET Nat
      /\ \A j \in Children(items, i) : j < After(items, i) /\ After(items, j) \in Nat
  BY AfterIs, Depths, ChildFirst, ChildBounds
<1>2. ASSUME NEW r \in PlacesOf(items, i), NEW s \in PlacesOf(items, i), r < s
      PROVE  Rank(items, i, r) < Rank(items, i, s)
  <2>1. r \in Nat /\ s \in Nat /\ r \in Children(items, i)
    BY <1>1, <1>2 DEF PlacesOf
  <2>2. After(items, r) \in Nat /\ After(items, r) <= s
    <3>1. CASE s = After(items, i)
      BY <3>1, <2>1, <1>1, ChildSpan
    <3>2. CASE s \in Children(items, i)
      BY <3>2, <2>1, <1>1, <1>2, ChildSpan
    <3>3. QED
      BY <3>1, <3>2 DEF PlacesOf
  <2>3. Rank(items, i, After(items, r)) = Rank(items, i, r) + 1
    BY <2>1, RankNext
  <2>4. Rank(items, i, After(items, r)) <= Rank(items, i, s)
    BY <2>1, <2>2, RankNext
  <2>5. Rank(items, i, r) \in Nat /\ Rank(items, i, s) \in Nat
    BY <2>1, RankNext
  <2>6. QED
    BY <2>3, <2>4, <2>5
<1>3. p \in Nat /\ q \in Nat
  BY <1>1 DEF PlacesOf
<1>4. Rank(items, i, p) \in Nat /\ Rank(items, i, q) \in Nat
  BY <1>3, RankNext
<1>5. QED
  BY <1>2, <1>3, <1>4

Nth(items, i, m) == CHOOSE p \in PlacesOf(items, i) : Rank(items, i, p) = m

\* There is a place for every number up to that of the children.
LEMMA NthExists ==
  ASSUME NEW items, IsText(items), NEW i \in 1 .. Len(items),
         NEW m \in 0 .. NumberOf(items, i)
  PROVE  \E p \in PlacesOf(items, i) : Rank(items, i, p) = m
<1> DEFINE Without == {n \in 0 .. NumberOf(items, i) : ~ \E p \in PlacesOf(items, i) : Rank(items, i, p) = n}
<1>1. NumberOf(items, i) \in Nat /\ Without \in SUBSET Nat
  BY RankNext
<1>2. SUFFICES ASSUME Without # {} PROVE FALSE
  OBVIOUS
<1> HIDE DEF Without
<1>3. PICK n \in Without : \A k \in Without : n <= k
  BY <1>1, <1>2, LeastNatural
<1> USE DEF Without
<1>4. CASE n = 0
  <2>1. i + 1 \in PlacesOf(items, i)
    BY ChildFirst DEF PlacesOf
  <2>2. QED
    BY <2>1, <1>3, <1>4, RankNext
<1>5. CASE n # 0
  <2>1. n \in Nat /\ n - 1 \in 0 .. NumberOf(items, i) /\ n - 1 \notin Without
    BY <1>1, <1>3, <1>5
  <2>2. PICK p \in PlacesOf(items, i) : Rank(items, i, p) = n - 1
    BY <2>1
  <2>3. n - 1 # NumberOf(items, i)
    BY <1>1, <1>3, <2>1
  <2>4. p \in Children(items, i)
    BY <2>2, <2>3, RankNext DEF PlacesOf
  <2>5. After(items, p) \in PlacesOf(items, i)
    BY <2>4, ChildSpan DEF PlacesOf
  <2>6. Rank(items, i, After(items, p)) = n
    BY <2>1, <2>2, <2>4, RankNext
  <2>7. QED
    BY <2>5, <2>6, <1>3
<1>6. QED
  BY <1>4, <1>5

LEMMA NthIs ==
  ASSUME NEW items, IsText(items), NEW i \in 1 .. Len(items),
         NEW m \in 0 .. NumberOf(items, i)
  PROVE  /\ Nth(items, i, m) \in PlacesOf(items, i)
         /\ Rank(items, i, Nth(items, i, m)) = m
         /\ \A p \in PlacesOf(items, i) : Rank(items, i, p) = m => p = Nth(items, i, m)
<1>1. Nth(items, i, m) \in PlacesOf(items, i) /\ Rank(items, i, Nth(items, i, m)) = m
  BY NthExists, Zenon DEF Nth
<1>2. ASSUME NEW p \in PlacesOf(items, i), Rank(items, i, p) = m PROVE p = Nth(items, i, m)
  BY <1>1, <1>2, RankOrder
<1>3. QED
  BY <1>1, <1>2

\* From one to the next.
LEMMA NthNext ==
  ASSUME NEW items, IsText(items), NEW i \in 1 .. Len(items),
         NEW m \in Nat, m < NumberOf(items, i)
  PROVE  /\ Nth(items, i, 0) = i + 1
         /\ Nth(items, i, m) \in Children(items, i)
         /\ After(items, Nth(items, i, m)) = Nth(items, i, m + 1)
<1>1. NumberOf(items, i) \in Nat /\ m \in 0 .. NumberOf(items, i) /\ m + 1 \in 0 .. NumberOf(items, i)
      /\ 0 \in 0 .. NumberOf(items, i)
  BY RankNext
<1>2. Nth(items, i, m) \in Children(items, i)
  BY <1>1, NthIs, RankNext DEF PlacesOf
<1>3. Rank(items, i, After(items, Nth(items, i, m))) = m + 1
  <2>1. Rank(items, i, Nth(items, i, m)) = m
    BY <1>1, NthIs
  <2>2. QED
    BY <1>2, <2>1, RankNext
<1>4. After(items, Nth(items, i, m)) \in PlacesOf(items, i)
  BY <1>2, ChildSpan DEF PlacesOf
<1>5. After(items, Nth(items, i, m)) = Nth(items, i, m + 1)
  BY <1>1, <1>3, <1>4, NthIs
<1>6. i + 1 \in PlacesOf(items, i)
  BY ChildFirst DEF PlacesOf
<1>7. i + 1 = Nth(items, i, 0)
  BY <1>1, <1>6, NthIs, RankNext
<1>8. QED
  BY <1>2, <1>5, <1>7

\* Every child has its number.
LEMMA NthOfRank ==
  ASSUME NEW items, IsText(items), NEW i \in 1 .. Len(items), NEW j \in Children(items, i)
  PROVE  /\ Rank(items, i, j) \in Nat /\ Rank(items, i, j) < NumberOf(items, i)
         /\ Nth(items, i, Rank(items, i, j)) = j
<1>1. j \in Nat /\ After(items, i) \in Nat /\ j < After(items, i)
  BY ChildBounds
<1>2. j \in PlacesOf(items, i) /\ After(items, i) \in PlacesOf(items, i)
  BY DEF PlacesOf
<1>3. Rank(items, i, j) < NumberOf(items, i) /\ Rank(items, i, j) \in Nat /\ NumberOf(items, i) \in Nat
  BY <1>1, <1>2, RankOrder, RankNext
<1>4. QED
  BY <1>2, <1>3, NthIs

-----------------------------------------------------------------------------
(***************************************************************************)
(* yyjson_arr_get: the loop over the elements is at the n-th one after n   *)
(* steps.                                                                  *)
(***************************************************************************)

Walk(doc, a, idx) ==
    CHOOSE w : w = [n \in 0 .. idx |-> IF n = 0 THEN a ELSE NextOf(doc, w[n - 1])]

LEMMA NextOfNth ==
  ASSUME NEW items, IsText(items), NEW i \in 1 .. Len(items),
         NEW m \in Nat, m < NumberOf(items, i)
  PROVE  NextOf(Laid(items), Nth(items, i, m)) = Nth(items, i, m + 1)
<1>1. Nth(items, i, m) \in 1 .. Len(items)
  BY NthNext, ChildBounds
<1>2. QED
  BY <1>1, NextOfIs, NthNext

LEMMA WalkIs ==
  ASSUME NEW items, IsText(items), NEW i \in 1 .. Len(items),
         NEW idx \in Nat, idx < NumberOf(items, i)
  PROVE  Walk(Laid(items), i + 1, idx)[idx] = Nth(items, i, idx)
<1> DEFINE doc == Laid(items)
           h == [n \in 0 .. idx |-> Nth(items, i, n)]
           w == Walk(doc, i + 1, idx)
           Off == {n \in 0 .. idx : w[n] # Nth(items, i, n)}
<1>1. NumberOf(items, i) \in Nat /\ Nth(items, i, 0) = i + 1
  BY RankNext, NthNext
<1>2. ASSUME NEW n \in 0 .. idx PROVE h[n] = IF n = 0 THEN i + 1 ELSE NextOf(doc, h[n - 1])
  <2>1. CASE n = 0
    BY <2>1, <1>1
  <2>2. CASE n # 0
    <3>1. n - 1 \in Nat /\ n - 1 \in 0 .. idx /\ n - 1 < NumberOf(items, i)
      BY <2>2, <1>1
    <3>2. NextOf(doc, Nth(items, i, n - 1)) = Nth(items, i, (n - 1) + 1)
      BY <3>1, NextOfNth
    <3>3. (n - 1) + 1 = n
      OBVIOUS
    <3>4. QED
      BY <2>2, <3>1, <3>2, <3>3
  <2>3. QED
    BY <2>1, <2>2
<1>3. h = [n \in 0 .. idx |-> IF n = 0 THEN i + 1 ELSE NextOf(doc, h[n - 1])]
  <2> HIDE DEF doc
  <2>1. QED
    BY <1>2
<1>4. w = [n \in 0 .. idx |-> IF n = 0 THEN i + 1 ELSE NextOf(doc, w[n - 1])]
  <2> HIDE DEF h, doc
  <2>1. QED
    BY <1>3, Zenon DEF Walk
<1>5. Off = {}
  <2>1. SUFFICES ASSUME Off # {} PROVE FALSE
    OBVIOUS
  <2>2. Off \in SUBSET Nat
    OBVIOUS
  <2> HIDE DEF Off
  <2>3. PICK n \in Off : \A k \in Off : n <= k
    BY <2>1, <2>2, LeastNatural
  <2> USE DEF Off
  <2> HIDE DEF w, doc
  <2>4. n \in 0 .. idx /\ w[n] # Nth(items, i, n) /\ n # 0
    BY <2>3, <1>1, <1>4
  <2>5. n - 1 \in 0 .. idx /\ n - 1 \notin Off
    BY <2>3, <2>4
  <2>6. w[n - 1] = Nth(items, i, n - 1)
    BY <2>5
  <2>7. w[n] = NextOf(doc, Nth(items, i, n - 1))
    BY <1>4, <2>4, <2>6
  <2>8. n - 1 \in Nat /\ n - 1 < NumberOf(items, i) /\ (n - 1) + 1 = n
    BY <2>4, <1>1
  <2>9. NextOf(Laid(items), Nth(items, i, n - 1)) = Nth(items, i, (n - 1) + 1)
    BY <2>8, NextOfNth
  <2>10. QED
    BY <2>4, <2>7, <2>8, <2>9 DEF doc
<1>6. QED
  <2> HIDE DEF w
  <2>1. idx \in 0 .. idx /\ idx \notin Off
    BY <1>5
  <2>2. w[idx] = Nth(items, i, idx)
    BY <2>1
  <2>3. QED
    BY <2>2 DEF w

\* In a flat array the elements are one beside the other.
LEMMA FlatNth ==
  ASSUME NEW items, IsText(items), NEW i \in 1 .. Len(items),
         Extent(items, i) = NumberOf(items, i) + 1,
         NEW m \in Nat, m < NumberOf(items, i)
  PROVE  Nth(items, i, m) = i + 1 + m
<1> DEFINE In == i + 1 .. After(items, i) - 1
<1>1. /\ i \in Nat /\ NumberOf(items, i) \in Nat
      /\ After(items, i) = i + 1 + NumberOf(items, i)
  <2>1. i \in Nat /\ NumberOf(items, i) \in Nat
    BY Depths, RankNext
  <2>2. After(items, i) = i + (NumberOf(items, i) + 1)
    BY DEF After
  <2>3. QED
    BY <2>1, <2>2
<1>2. Cardinality(In) = NumberOf(items, i) /\ IsFiniteSet(In)
  <2>1. In = i + 1 .. i + NumberOf(items, i)
    BY <1>1
  <2>2. IsFiniteSet(i + 1 .. i + NumberOf(items, i))
        /\ Cardinality(i + 1 .. i + NumberOf(items, i)) = (i + NumberOf(items, i)) - (i + 1) + 1
    <3> DEFINE a == i + 1
               b == i + NumberOf(items, i)
    <3>1. a \in Int /\ b \in Int /\ a <= b + 1
      BY <1>1
    <3> HIDE DEF a, b
    <3>2. IsFiniteSet(a .. b) /\ Cardinality(a .. b) = b - a + 1
      BY <3>1, IntervalCardinality
    <3>3. QED
      BY <3>2 DEF a, b
  <2>3. QED
    BY <2>1, <2>2, <1>1
<1>3. Children(items, i) = In
  <2>1. Children(items, i) \in SUBSET In
    BY ChildIs
  <2>2. QED
    BY <2>1, <1>2, FS_Subset DEF NumberOf
<1>4. i + 1 + m \in Children(items, i)
  BY <1>1, <1>3
<1>5. Rank(items, i, i + 1 + m) = m
  <2>1. {k \in Children(items, i) : k < i + 1 + m} = i + 1 .. i + m
    BY <1>1, <1>3
  <2>2. Cardinality(i + 1 .. i + m) = (i + m) - (i + 1) + 1
    <3> DEFINE a == i + 1
               b == i + m
    <3>1. a \in Int /\ b \in Int /\ a <= b + 1
      BY <1>1
    <3> HIDE DEF a, b
    <3>2. Cardinality(a .. b) = b - a + 1
      BY <3>1, IntervalCardinality
    <3>3. QED
      BY <3>2 DEF a, b
  <2>3. Rank(items, i, i + 1 + m) = Cardinality(i + 1 .. i + m)
    BY <2>1, Zenon DEF Rank
  <2>4. QED
    BY <2>2, <2>3, <1>1
<1>6. QED
  BY <1>4, <1>5, NthOfRank

\* An element of an array is found whether the array is flat or not.
\* (yyjson_arr_get, unsafe_yyjson_arr_is_flat.)
THEOREM ArrGetIsElement ==
  ASSUME NEW items, IsText(items), NEW i \in 1 .. Len(items), items[i].type = "arr",
         NEW idx \in Nat
  PROVE  /\ GetLen(Laid(items), i) = Cardinality(Children(items, i))
         /\ ArrGet(Laid(items), i, idx) =
                IF idx < Cardinality(Children(items, i)) THEN Nth(items, i, idx) ELSE Null
<1> DEFINE doc == Laid(items)
<1>1. i \in Nat /\ i # Null /\ NumberOf(items, i) \in Nat
  BY Depths, RankNext DEF Null
<1>2. doc[i].type = "arr" /\ doc[i].len = NumberOf(items, i) /\ doc[i].uni = Extent(items, i)
  BY DEF Laid, NumberOf, Containers
<1>3. IsArr(doc, i) /\ GetLen(doc, i) = NumberOf(items, i)
  BY <1>1, <1>2 DEF IsArr, GetLen
<1>4. CASE ~ (idx < NumberOf(items, i))
  BY <1>1, <1>3, <1>4 DEF ArrGet, NumberOf
<1>5. CASE idx < NumberOf(items, i)
  <2> HIDE DEF doc
  <2>1. ~ (idx >= GetLen(doc, i))
    BY <1>1, <1>3, <1>5
  <2>2. CASE ArrIsFlat(doc, i)
    <3>1. Extent(items, i) = NumberOf(items, i) + 1
      BY <2>2, <1>2 DEF ArrIsFlat
    <3>2. ArrGet(doc, i, idx) = i + 1 + idx
      BY <1>3, <2>1, <2>2 DEF ArrGet, First
    <3>3. QED
      BY <3>1, <3>2, <1>3, <1>5, FlatNth DEF doc, NumberOf
  <2>3. CASE ~ ArrIsFlat(doc, i)
    <3>1. ArrGet(doc, i, idx) = Walk(doc, First(i), idx)[idx]
      BY <1>3, <2>1, <2>3 DEF ArrGet, Walk
    <3>2. QED
      BY <3>1, <1>3, <1>5, WalkIs DEF doc, NumberOf, First
  <2>4. QED
    BY <2>2, <2>3
<1>6. QED
  BY <1>3, <1>4, <1>5 DEF NumberOf

-----------------------------------------------------------------------------
(***************************************************************************)
(* yyjson_obj_getn: in an object the children with an even number are the  *)
(* names, and each is followed by its value.                               *)
(***************************************************************************)

MembersIn(items, i) == NumberOf(items, i) \div 2

LEMMA ObjectIs ==
  ASSUME NEW items, IsText(items), NEW i \in 1 .. Len(items), items[i].type = "obj"
  PROVE  /\ MembersIn(items, i) \in Nat /\ NumberOf(items, i) = 2 * MembersIn(items, i)
         /\ GetLen(Laid(items), i) = MembersIn(items, i)
         /\ IsObj(Laid(items), i)
<1>1. NumberOf(items, i) \in Nat /\ i \in Nat /\ i # Null
  BY RankNext, Depths DEF Null
<1>2. NumberOf(items, i) % 2 = 0
  BY DEF IsText, NumberOf
<1>3. Laid(items)[i].type = "obj" /\ Laid(items)[i].len = MembersIn(items, i)
  BY DEF Laid, MembersIn, NumberOf
<1>4. QED
  BY <1>1, <1>2, <1>3 DEF GetLen, IsObj, MembersIn

LEMMA NamesAre ==
  ASSUME NEW items, IsText(items), NEW i \in 1 .. Len(items), items[i].type = "obj"
  PROVE  NamesOf(items, i) = {j \in Children(items, i) : Rank(items, i, j) % 2 = 0}
BY DEF NamesOf, Rank

LEMMA NameIs ==
  ASSUME NEW items, IsText(items), NEW i \in 1 .. Len(items), items[i].type = "obj",
         NEW j \in NamesOf(items, i)
  PROVE  /\ j \in 1 .. Len(items) /\ j \in Children(items, i)
         /\ items[j].type = "str" /\ Laid(items)[j].uni = items[j].uni
         /\ Rank(items, i, j) \div 2 \in Nat /\ Rank(items, i, j) \div 2 < MembersIn(items, i)
         /\ Rank(items, i, j) = 2 * (Rank(items, i, j) \div 2)
         /\ j = Nth(items, i, 2 * (Rank(items, i, j) \div 2))
         /\ j + 1 = Nth(items, i, 2 * (Rank(items, i, j) \div 2) + 1)
         /\ j + 1 \in 1 .. Len(items)
<1> DEFINE r == Rank(items, i, j)
           m == r \div 2
<1>1. j \in Children(items, i) /\ r % 2 = 0
  BY NamesAre
<1>2. j \in 1 .. Len(items) /\ j \in Nat
  BY <1>1, ChildBounds
<1>3. items[j].type = "str"
  BY DEF IsText
<1>4. Laid(items)[j].uni = items[j].uni
  BY <1>2, <1>3 DEF Laid, Containers
<1>5. r \in Nat /\ r < NumberOf(items, i) /\ Nth(items, i, r) = j
  BY <1>1, NthOfRank
<1>6. NumberOf(items, i) = 2 * MembersIn(items, i) /\ MembersIn(items, i) \in Nat
  BY ObjectIs
<1>7. m \in Nat /\ r = 2 * m /\ m < MembersIn(items, i) /\ r + 1 < NumberOf(items, i)
  <2> HIDE DEF r
  <2>1. QED
    BY <1>1, <1>5, <1>6
<1>8. j + 1 = Nth(items, i, r + 1)
  <2>1. items[j].type \notin Containers
    BY <1>3 DEF Containers
  <2>2. After(items, j) = j + 1
    BY <1>2, <2>1, AfterLeaf
  <2>3. QED
    BY <2>2, <1>5, NthNext
<1>9. j + 1 \in 1 .. Len(items)
  <2>1. r + 1 \in Nat
    BY <1>5
  <2>2. j + 1 \in Children(items, i)
    BY <2>1, <1>7, <1>8, NthNext
  <2>3. QED
    BY <2>2, ChildBounds
<1>10. QED
  BY <1>1, <1>2, <1>3, <1>4, <1>5, <1>7, <1>8, <1>9

LEMMA MemberIs ==
  ASSUME NEW items, IsText(items), NEW i \in 1 .. Len(items), items[i].type = "obj",
         NEW m \in Nat, m < MembersIn(items, i)
  PROVE  /\ Nth(items, i, 2 * m) \in NamesOf(items, i)
         /\ Rank(items, i, Nth(items, i, 2 * m)) = 2 * m
         /\ NextOf(Laid(items), Nth(items, i, 2 * m) + 1) = Nth(items, i, 2 * (m + 1))
<1> DEFINE r == 2 * m
           j == Nth(items, i, r)
<1>1. NumberOf(items, i) = 2 * MembersIn(items, i) /\ MembersIn(items, i) \in Nat
  BY ObjectIs
<1>2. r \in Nat /\ r + 1 \in Nat /\ r < NumberOf(items, i) /\ r + 1 < NumberOf(items, i)
      /\ r % 2 = 0 /\ r \div 2 = m /\ r \in 0 .. NumberOf(items, i) /\ (r + 1) + 1 = 2 * (m + 1)
  BY <1>1
<1>3. j \in Children(items, i) /\ Rank(items, i, j) = r
  <2> HIDE DEF r
  <2>1. QED
    BY <1>2, NthNext, NthIs
<1>4. j \in NamesOf(items, i)
  BY <1>2, <1>3, NamesAre
<1>5. j + 1 = Nth(items, i, r + 1)
  <2>1. j + 1 = Nth(items, i, 2 * (Rank(items, i, j) \div 2) + 1)
    BY <1>4, NameIs
  <2>2. 2 * (Rank(items, i, j) \div 2) = r
    BY <1>2, <1>3
  <2>3. QED
    BY <2>1, <2>2
<1>6. NextOf(Laid(items), Nth(items, i, r + 1)) = Nth(items, i, (r + 1) + 1)
  <2> HIDE DEF r
  <2>1. QED
    BY <1>2, NextOfNth
<1>7. QED
  BY <1>2, <1>3, <1>4, <1>5, <1>6

Keys(doc, a, size) ==
    CHOOSE w : w = [n \in 1 .. size |-> IF n = 1 THEN a ELSE NextOf(doc, w[n - 1] + 1)]

LEMMA ObjGetNone ==
  ASSUME NEW doc, NEW obj \in Int, NEW name, NEW size, NEW w, IsObj(doc, obj),
         size = GetLen(doc, obj), w = Keys(doc, obj + 1, size),
         \A n \in 1 .. size : doc[w[n]].uni # name
  PROVE  ObjGet(doc, obj, name) = Null
BY SMTT(20) DEF ObjGet, Keys, First

\* Number n is the first of the keys with that name.
FirstNamed(doc, w, size, name, n) ==
    /\ n \in 1 .. size /\ doc[w[n]].uni = name
    /\ \A m \in 1 .. size : doc[w[m]].uni = name => n <= m

LEMMA ObjGetFirst ==
  ASSUME NEW doc, NEW obj \in Int, NEW name, NEW size \in Nat, NEW w, NEW n, IsObj(doc, obj),
         size = GetLen(doc, obj), w = Keys(doc, obj + 1, size),
         FirstNamed(doc, w, size, name, n)
  PROVE  ObjGet(doc, obj, name) = w[n] + 1
<1> DEFINE named == {m \in 1 .. size : doc[w[m]].uni = name}
<1>1. ObjGet(doc, obj, name) =
        IF named = {} THEN Null ELSE w[CHOOSE m \in named : \A o \in named : m <= o] + 1
  BY SMT DEF ObjGet, Keys, First
<1>2. n \in named /\ \A m \in named : m \in Nat /\ n <= m
  BY DEF FirstNamed
<1> HIDE DEF named
<1>3. \A m \in named : (\A o \in named : m <= o) => m = n
  BY <1>2
<1>4. (CHOOSE m \in named : \A o \in named : m <= o) = n
  BY <1>2, <1>3
<1>5. QED
  BY <1>1, <1>2, <1>4

LEMMA KeysAre ==
  ASSUME NEW items, IsText(items), NEW i \in 1 .. Len(items), items[i].type = "obj",
         NEW n \in 1 .. MembersIn(items, i)
  PROVE  Keys(Laid(items), i + 1, MembersIn(items, i))[n] = Nth(items, i, 2 * (n - 1))
<1> DEFINE doc == Laid(items)
           size == MembersIn(items, i)
           name(o) == Nth(items, i, 2 * (o - 1))
           h == [o \in 1 .. size |-> name(o)]
           w == Keys(doc, i + 1, size)
           Off == {o \in 1 .. size : w[o] # name(o)}
<1>1. size \in Nat /\ 0 < NumberOf(items, i) /\ name(1) = i + 1
  <2>1. size \in Nat /\ NumberOf(items, i) = 2 * size
    BY ObjectIs
  <2>2. 0 < NumberOf(items, i) /\ 0 \in Nat
    BY <2>1
  <2>3. Nth(items, i, 0) = i + 1
    BY <2>2, NthNext
  <2>4. 2 * (1 - 1) = 0
    OBVIOUS
  <2>5. QED
    BY <2>1, <2>2, <2>3, <2>4
<1>2. ASSUME NEW o \in 1 .. size, o # 1 PROVE NextOf(doc, name(o - 1) + 1) = name(o)
  <2>1. (o - 1) - 1 \in Nat /\ (o - 1) - 1 < size /\ ((o - 1) - 1) + 1 = o - 1
    BY <1>1, <1>2
  <2>2. QED
    BY <2>1, MemberIs
<1>3. ASSUME NEW o \in 1 .. size
      PROVE  h[o] = IF o = 1 THEN i + 1 ELSE NextOf(doc, h[o - 1] + 1)
  <2>1. CASE o = 1
    BY <2>1, <1>1
  <2>2. CASE o # 1
    <3>1. o - 1 \in 1 .. size
      BY <2>2, <1>1
    <3>2. h[o - 1] = name(o - 1) /\ h[o] = name(o)
      BY <3>1
    <3>3. QED
      BY <3>2, <2>2, <1>2
  <2>3. QED
    BY <2>1, <2>2
<1>4. h = [o \in 1 .. size |-> IF o = 1 THEN i + 1 ELSE NextOf(doc, h[o - 1] + 1)]
  <2> HIDE DEF doc, size, name
  <2>1. QED
    BY <1>3
<1>5. w = [o \in 1 .. size |-> IF o = 1 THEN i + 1 ELSE NextOf(doc, w[o - 1] + 1)]
  <2> HIDE DEF h, doc, size, name
  <2>1. QED
    BY <1>4, Zenon DEF Keys
<1>6. Off = {}
  <2>1. SUFFICES ASSUME Off # {} PROVE FALSE
    OBVIOUS
  <2>2. Off \in SUBSET Nat
    OBVIOUS
  <2> HIDE DEF Off
  <2>3. PICK o \in Off : \A k \in Off : o <= k
    BY <2>1, <2>2, LeastNatural
  <2> USE DEF Off
  <2> HIDE DEF w, doc, size, name
  <2>4. o \in 1 .. size /\ w[o] # name(o) /\ o # 1
    BY <2>3, <1>1, <1>5
  <2>5. o - 1 \in 1 .. size /\ o - 1 \notin Off
    BY <2>3, <2>4, <1>1
  <2>6. w[o - 1] = name(o - 1)
    BY <2>5
  <2>7. w[o] = NextOf(doc, name(o - 1) + 1)
    BY <1>5, <2>4, <2>6
  <2>8. QED
    BY <2>4, <2>7, <1>2
<1>7. QED
  <2> HIDE DEF w, size, name
  <2>1. n \in 1 .. size
    BY DEF size
  <2>2. w[n] = name(n)
    BY <1>6, <2>1
  <2>3. QED
    BY <2>2 DEF w, name, size, doc

\* The names stand in the order of their numbers.
LEMMA NamesOrder ==
  ASSUME NEW items, IsText(items), NEW i \in 1 .. Len(items), items[i].type = "obj",
         NEW m \in 1 .. MembersIn(items, i), NEW n \in 1 .. MembersIn(items, i)
  PROVE  Nth(items, i, 2 * (m - 1)) <= Nth(items, i, 2 * (n - 1)) <=> m <= n
<1> DEFINE p == Nth(items, i, 2 * (m - 1))
           q == Nth(items, i, 2 * (n - 1))
<1>1. /\ m - 1 \in Nat /\ m - 1 < MembersIn(items, i)
      /\ n - 1 \in Nat /\ n - 1 < MembersIn(items, i)
  BY ObjectIs
<1>2. /\ p \in NamesOf(items, i) /\ Rank(items, i, p) = 2 * (m - 1)
      /\ q \in NamesOf(items, i) /\ Rank(items, i, q) = 2 * (n - 1)
  BY <1>1, MemberIs
<1>3. p \in PlacesOf(items, i) /\ q \in PlacesOf(items, i)
  BY <1>2, NamesAre DEF PlacesOf
<1> HIDE DEF p, q
<1>4. p \in Nat /\ q \in Nat /\ (p < q => 2 * (m - 1) < 2 * (n - 1)) /\ (q < p => 2 * (n - 1) < 2 * (m - 1))
  BY <1>2, <1>3, RankOrder
<1>5. p = q => 2 * (m - 1) = 2 * (n - 1)
  BY <1>2
<1>6. p <= q <=> m <= n
  BY <1>4, <1>5
<1>7. QED
  BY <1>6 DEF p, q

\* A member of an object is found by its name, the first of that name, wherever
\* it stands and whatever the values before it have in them.  (yyjson_obj_getn,
\* and the reader's layout it relies on.)
THEOREM ObjGetIsSaid ==
  ASSUME NEW items, IsText(items), NEW i \in 0 .. Len(items), NEW name
  PROVE  /\ ObjGet(Laid(items), i, name) = Said(items, i, name)
         /\ Said(items, i, name) \in 0 .. Len(items)
<1> DEFINE doc == Laid(items)
<1>0. Len(items) \in Nat
  BY Depths
<1>1. CASE i = 0 \/ items[i].type # "obj"
  <2>1. Said(items, i, name) = 0
    BY <1>1 DEF Said
  <2>2. ~ IsObj(doc, i)
    BY <1>1 DEF IsObj, Laid, Null
  <2>3. QED
    BY <2>1, <2>2, <1>0 DEF ObjGet, Null
<1>2. CASE i # 0 /\ items[i].type = "obj"
  <2> DEFINE size == MembersIn(items, i)
             w == Keys(doc, i + 1, size)
             named == {n \in 1 .. size : doc[w[n]].uni = name}
             said == {j \in NamesOf(items, i) : items[j].uni = name}
             place(n) == Nth(items, i, 2 * (n - 1))
             index(j) == Rank(items, i, j) \div 2 + 1
  <2>1. i \in 1 .. Len(items) /\ size \in Nat /\ GetLen(doc, i) = size /\ IsObj(doc, i)
    <3>1. i \in 1 .. Len(items)
      BY <1>2, <1>0
    <3>2. QED
      BY <3>1, <1>2, ObjectIs
  <2>3. Said(items, i, name) =
            IF said = {} THEN 0 ELSE (CHOOSE j \in said : \A k \in said : j <= k) + 1
    BY <1>2 DEF Said
  <2>4. ASSUME NEW n \in 1 .. size
        PROVE  /\ w[n] = place(n) /\ place(n) \in NamesOf(items, i)
               /\ place(n) \in 1 .. Len(items) /\ place(n) + 1 \in 1 .. Len(items)
               /\ doc[place(n)].uni = items[place(n)].uni
    <3>1. w[n] = place(n)
      BY <1>2, <2>1, KeysAre
    <3>2. n - 1 \in Nat /\ n - 1 < size
      BY <2>1
    <3>3. place(n) \in NamesOf(items, i)
      BY <1>2, <2>1, <3>2, MemberIs
    <3>4. QED
      BY <1>2, <2>1, <3>1, <3>3, NameIs
  <2>5. ASSUME NEW j \in NamesOf(items, i) PROVE index(j) \in 1 .. size /\ place(index(j)) = j
    <3> DEFINE m == Rank(items, i, j) \div 2
    <3>1. m \in Nat /\ m < size /\ j = Nth(items, i, 2 * m)
      BY <1>2, <2>1, NameIs
    <3> HIDE DEF m
    <3>2. m + 1 \in 1 .. size /\ (m + 1) - 1 = m
      BY <3>1, <2>1
    <3>3. QED
      BY <3>1, <3>2 DEF m
  <2>6. ASSUME NEW m \in 1 .. size, NEW n \in 1 .. size PROVE place(m) <= place(n) <=> m <= n
    BY <1>2, <2>1, NamesOrder
  <2> HIDE DEF w, doc, size, place, index
  <2>7. \A n \in 1 .. size : n \in named <=> place(n) \in said
    BY <2>4
  <2>8. \A j \in said : index(j) \in named /\ place(index(j)) = j
    BY <2>5, <2>7
  <2>9. CASE named = {}
    <3>1. said = {}
      BY <2>8, <2>9
    <3>2. \A n \in 1 .. size : doc[w[n]].uni # name
      BY <2>9
    <3>3. w = Keys(doc, i + 1, size)
      BY DEF w
    <3>4. ObjGet(doc, i, name) = Null
      BY <2>1, <3>2, <3>3, ObjGetNone
    <3>5. QED
      BY <2>3, <3>1, <3>4, <1>0 DEF doc, Null
  <2>10. CASE named # {}
    <3>1. named \in SUBSET Nat
      BY <2>1
    <3> HIDE DEF named
    <3>2. PICK n \in named : \A m \in named : n <= m
      BY <3>1, <2>10, LeastNatural
    <3>5. n \in 1 .. size /\ place(n) \in said
      BY <3>2, <2>7 DEF named
    <3>6. \A j \in said : place(n) <= j
      <4>1. ASSUME NEW j \in said PROVE place(n) <= j
        <5>1. index(j) \in named /\ place(index(j)) = j /\ n <= index(j)
          BY <2>8, <3>2
        <5>2. index(j) \in 1 .. size
          BY <5>1 DEF named
        <5>3. place(n) <= place(index(j))
          BY <5>1, <5>2, <3>5, <2>6
        <5>4. QED
          BY <5>1, <5>3
      <4>2. QED
        BY <4>1
    <3>7. place(n) \in 1 .. Len(items) /\ place(n) + 1 \in 1 .. Len(items) /\ w[n] = place(n)
      BY <3>5, <2>4
    <3>8. \A j \in said : j \in Nat
      <4>1. ASSUME NEW j \in said PROVE j \in Nat
        BY <2>1, <1>2, NameIs
      <4>2. QED
        BY <4>1
    <3>9. (CHOOSE j \in said : \A k \in said : j <= k) = place(n)
      <4> HIDE DEF said
      <4>1. \A j \in said : (\A k \in said : j <= k) => j = place(n)
        BY <3>5, <3>6, <3>7, <3>8
      <4>2. QED
        BY <4>1, <3>5, <3>6
    <3>10. said # {}
      BY <3>5
    <3>11. ObjGet(doc, i, name) = place(n) + 1
      <4> HIDE DEF said
      <4>1. FirstNamed(doc, w, size, name, n)
        BY <3>2 DEF named, FirstNamed
      <4>2. w = Keys(doc, i + 1, size)
        BY DEF w
      <4>3. ObjGet(doc, i, name) = w[n] + 1
        BY <2>1, <4>1, <4>2, ObjGetFirst
      <4>4. QED
        BY <3>7, <4>3
    <3>12. Said(items, i, name) = place(n) + 1
      BY <2>3, <3>9, <3>10
    <3>13. QED
      BY <3>7, <3>11, <3>12, <1>0 DEF doc
  <2>11. QED
    BY <2>9, <2>10
<1>3. QED
  BY <1>1, <1>2

\* The values of members: what is missing, or of another type, reads 0 and NULL.
LEMMA ValuesAreSaid ==
  ASSUME NEW items, IsText(items), NEW i \in 0 .. Len(items)
  PROVE  /\ GetInt(Laid(items), i) = SaidInt(items, i)
         /\ GetStr(Laid(items), i) = SaidStr(items, i)
         /\ IsStr(Laid(items), i) <=> i # 0 /\ items[i].type = "str"
         /\ SaidInt(items, i) \in Numerals
<1>1. Len(items) \in Nat /\ 0 \in Numerals
  <2>1. Len(items) \in Nat
    BY Depths
  <2>2. IntMax \in Nat
    BY DEF IntMax
  <2>3. 0 \in Numerals
    BY <2>2 DEF Numerals
  <2>4. QED
    BY <2>1, <2>3
<1>2. CASE i = 0
  BY <1>1, <1>2 DEF GetInt, GetStr, IsInt, IsStr, SaidInt, SaidStr, Null
<1>3. CASE i # 0
  <2>1. i \in 1 .. Len(items)
    BY <1>1, <1>3
  <2>2. Laid(items)[i].type = items[i].type /\ Laid(items)[i].sub = items[i].sub
    BY <2>1 DEF Laid
  <2>3. items[i].type \notin Containers => Laid(items)[i].uni = items[i].uni
    BY <2>1 DEF Laid
  <2>4. items[i].type = "num" =>
            items[i].sub \in {"uint", "sint", "real"} /\ items[i].uni \in Numerals
    BY <2>1 DEF IsText
  <2>5. QED
    BY <1>1, <1>3, <2>2, <2>3, <2>4 DEF GetInt, GetStr, IsInt, IsStr, SaidInt, SaidStr, Null, Containers
<1>4. QED
  BY <1>2, <1>3

\* yyjson_doc_get_root.
LEMMA RootIs ==
  ASSUME NEW items, IsText(items)
  PROVE  /\ Root(Laid(items)) = IF items = <<>> THEN 0 ELSE 1
         /\ Root(Laid(items)) \in 0 .. Len(items)
<1>1. Len(items) \in Nat /\ items = [i \in 1 .. Len(items) |-> items[i]]
  BY DEF IsText
<1>2. CASE Len(items) = 0
  BY <1>1, <1>2 DEF Root, Laid, Null
<1>3. CASE Len(items) # 0
  <2>1. DOMAIN Laid(items) = 1 .. Len(items) /\ 1 \in 1 .. Len(items) /\ DOMAIN items = 1 .. Len(items)
    BY <1>1, <1>3 DEF Laid
  <2>2. Laid(items) # <<>> /\ items # <<>>
    BY <2>1
  <2>3. QED
    BY <2>1, <2>2 DEF Root
<1>4. QED
  BY <1>2, <1>3
=============================================================================
