-------------------------- MODULE Listings_proofs ---------------------------
(***************************************************************************)
(* Theorems about reading a list page by page, for every page size, fetch  *)
(* cap and number of rows and changes: how often a reader sees a row again,*)
(* how many rows it misses, and that it may open what a search showed it.  *)
(***************************************************************************)
EXTENDS Listings, FiniteSetTheorems, TLAPS

----------------------------------------------------------------------------
(* Places in an order *)

\* before orders the rows of I, a finite set, one after the other.
Orders(before, I) ==
  /\ IsFiniteSet(I)
  /\ \A i \in I : <<i, i>> \notin before
  /\ \A i, j \in I : i = j \/ <<i, j>> \in before \/ <<j, i>> \in before
  /\ \A i, j, k \in I : <<i, j>> \in before /\ <<j, k>> \in before => <<i, k>> \in before

Preceding(I, before, i) == {j \in I : <<j, i>> \in before}

\* The first n rows of I.
First(I, before, n) == {i \in I : Place(I, before, i) <= n}

LEMMA Places ==
  ASSUME NEW I, NEW R, Orders(R, I)
  PROVE  /\ Cardinality(I) \in Nat
         /\ \A i \in I : /\ IsFiniteSet(Preceding(I, R, i))
                         /\ Cardinality(Preceding(I, R, i)) \in Nat
                         /\ Place(I, R, i) = Cardinality(Preceding(I, R, i)) + 1
                         /\ Place(I, R, i) \in 1 .. Cardinality(I)
<1>1. IsFiniteSet(I) /\ Cardinality(I) \in Nat
  BY FS_CardinalityType DEF Orders
<1>2. ASSUME NEW i \in I
      PROVE  /\ IsFiniteSet(Preceding(I, R, i))
             /\ Cardinality(Preceding(I, R, i)) \in Nat
             /\ Cardinality(Preceding(I, R, i)) < Cardinality(I)
  <2>1. Preceding(I, R, i) \in SUBSET I /\ i \notin Preceding(I, R, i)
    BY DEF Preceding, Orders
  <2>2. /\ IsFiniteSet(Preceding(I, R, i))
        /\ Cardinality(Preceding(I, R, i)) <= Cardinality(I)
        /\ Cardinality(I) # Cardinality(Preceding(I, R, i))
    BY <1>1, <2>1, FS_Subset
  <2>3. Cardinality(Preceding(I, R, i)) \in Nat
    BY <2>2, FS_CardinalityType
  <2> QED BY <1>1, <2>2, <2>3
<1>3. \A i \in I : Place(I, R, i) = Cardinality(Preceding(I, R, i)) + 1
  BY DEF Place, Preceding
<1> QED BY <1>1, <1>2, <1>3

\* A row before another has the smaller place.
LEMMA PlacesIncrease ==
  ASSUME NEW I, NEW R, Orders(R, I), NEW i \in I, NEW j \in I, <<i, j>> \in R
  PROVE  Place(I, R, i) < Place(I, R, j)
<1>1. Preceding(I, R, i) \in SUBSET Preceding(I, R, j)
  BY DEF Preceding, Orders
<1>2. i \in Preceding(I, R, j) /\ i \notin Preceding(I, R, i)
  BY DEF Preceding, Orders
<1>3. /\ IsFiniteSet(Preceding(I, R, j))
      /\ Cardinality(Preceding(I, R, i)) \in Nat
      /\ Cardinality(Preceding(I, R, j)) \in Nat
      /\ Place(I, R, i) = Cardinality(Preceding(I, R, i)) + 1
      /\ Place(I, R, j) = Cardinality(Preceding(I, R, j)) + 1
  BY Places
<1>4. /\ Cardinality(Preceding(I, R, i)) <= Cardinality(Preceding(I, R, j))
      /\ Cardinality(Preceding(I, R, j)) # Cardinality(Preceding(I, R, i))
  BY <1>1, <1>2, <1>3, FS_Subset
<1> QED BY <1>3, <1>4

\* Each place up to the number of rows is that of one row.
LEMMA PlacesTaken ==
  ASSUME NEW I, NEW R, Orders(R, I)
  PROVE  /\ \A i, j \in I : Place(I, R, i) = Place(I, R, j) => i = j
         /\ \A k \in 1 .. Cardinality(I) : \E i \in I : Place(I, R, i) = k
<1> DEFINE N == Cardinality(I)
           place == [i \in I |-> Place(I, R, i)]
<1>1. N \in Nat /\ \A i \in I : Place(I, R, i) \in 1 .. N
  BY Places
<1>2. ASSUME NEW i \in I, NEW j \in I, Place(I, R, i) = Place(I, R, j)
      PROVE  i = j
  <2>1. i = j \/ <<i, j>> \in R \/ <<j, i>> \in R
    BY DEF Orders
  <2>2. /\ <<i, j>> \in R => Place(I, R, i) < Place(I, R, j)
        /\ <<j, i>> \in R => Place(I, R, j) < Place(I, R, i)
    BY PlacesIncrease
  <2>3. Place(I, R, i) \in Int
    BY <1>1
  <2> QED BY <1>2, <2>1, <2>2, <2>3
<1>3. place \in Injection(I, 1 .. N)
  <2>1. place \in [I -> 1 .. N]
    BY <1>1
  <2>2. \A i, j \in I : place[i] = place[j] => i = j
    BY <1>2
  <2> HIDE DEF place
  <2> QED BY <2>1, <2>2 DEF Injection, IsInjective
<1>4. IsFiniteSet(1 .. N) /\ Cardinality(1 .. N) = N
  <2>1. IsFiniteSet(1 .. N) /\ Cardinality(1 .. N) = IF 1 > N THEN 0 ELSE N - 1 + 1
    <3> HIDE DEF N
    <3> QED BY <1>1, FS_Interval
  <2> QED BY <1>1, <2>1
<1>5. place \in Surjection(I, 1 .. N)
  <2>1. place \in Injection(I, 1 .. N) => 
          (Cardinality(I) = Cardinality(1 .. N) <=> place \in Surjection(I, 1 .. N))
    BY <1>4, FS_Injection
  <2> QED BY <1>3, <1>4, <2>1
<1>6. \A k \in 1 .. N : \E i \in I : place[i] = k
  <2> HIDE DEF place, N
  <2> QED BY <1>5 DEF Surjection
<1> QED BY <1>2, <1>6

\* InOrder lists every row once, each at its place.
LEMMA InOrderLists ==
  ASSUME NEW I, NEW R, Orders(R, I)
  PROVE  /\ InOrder(I, R) \in Seq(I)
         /\ Len(InOrder(I, R)) = Cardinality(I)
         /\ \A k \in 1 .. Cardinality(I) : /\ InOrder(I, R)[k] \in I
                                           /\ Place(I, R, InOrder(I, R)[k]) = k
<1> DEFINE N == Cardinality(I)
           At(k) == CHOOSE i \in I : Place(I, R, i) = k
<1>1. N \in Nat
  BY Places
<1>2. InOrder(I, R) = [k \in 1 .. N |-> At(k)]
  BY Zenon DEF InOrder
<1>3. \A k \in 1 .. N : At(k) \in I /\ Place(I, R, At(k)) = k
  <2> SUFFICES ASSUME NEW k \in 1 .. N PROVE At(k) \in I /\ Place(I, R, At(k)) = k
    OBVIOUS
  <2>1. \E i \in I : Place(I, R, i) = k
    BY PlacesTaken
  <2> QED BY <2>1, Zenon
<1> HIDE DEF At, N
<1>4. InOrder(I, R) \in [1 .. N -> I]
  BY <1>2, <1>3
<1>5. InOrder(I, R) \in Seq(I) /\ Len(InOrder(I, R)) = N
  BY <1>1, <1>4
<1> QED BY <1>2, <1>3, <1>5 DEF N

\* There are n first rows, or all.
LEMMA FirstCounted ==
  ASSUME NEW I, NEW R, Orders(R, I), NEW n \in Nat
  PROVE  /\ First(I, R, n) \in SUBSET I
         /\ IsFiniteSet(First(I, R, n))
         /\ Cardinality(First(I, R, n)) = Smaller(n, Cardinality(I))
<1> DEFINE N == Cardinality(I)
           m == Smaller(n, N)
           F == First(I, R, n)
           place == [i \in F |-> Place(I, R, i)]
<1>1. N \in Nat /\ \A i \in I : Place(I, R, i) \in 1 .. N
  BY Places
<1>2. m \in Nat /\ m <= N /\ m <= n /\ (m = n \/ m = N)
  BY <1>1 DEF Smaller
<1>3. F \in SUBSET I /\ IsFiniteSet(F)
  <2>1. F \in SUBSET I
    BY DEF First
  <2> QED BY <2>1, FS_Subset DEF Orders
<1>4. \A i \in I : i \in F <=> Place(I, R, i) \in 1 .. m
  BY <1>1, <1>2 DEF First
<1>5. place \in Bijection(F, 1 .. m)
  <2>1. place \in [F -> 1 .. m]
    BY <1>3, <1>4
  <2>2. \A i, j \in F : place[i] = place[j] => i = j
    BY <1>3, PlacesTaken
  <2>3. \A k \in 1 .. m : \E i \in F : place[i] = k
    <3> SUFFICES ASSUME NEW k \in 1 .. m PROVE \E i \in F : place[i] = k
      OBVIOUS
    <3>1. k \in 1 .. N
      BY <1>1, <1>2
    <3>2. PICK i \in I : Place(I, R, i) = k
      BY <3>1, PlacesTaken
    <3>3. i \in F
      BY <1>4, <3>2
    <3> QED BY <3>2, <3>3
  <2> HIDE DEF place, F, m
  <2> QED BY <2>1, <2>2, <2>3 DEF Bijection, Injection, Surjection, IsInjective
<1>6. Cardinality(1 .. m) = m
  <2>1. Cardinality(1 .. m) = IF 1 > m THEN 0 ELSE m - 1 + 1
    <3> HIDE DEF m
    <3> QED BY <1>2, FS_Interval
  <2> QED BY <1>2, <2>1
<1>7. Cardinality(1 .. m) = Cardinality(F)
  <2>1. ExistsBijection(F, 1 .. m)
    BY <1>5 DEF ExistsBijection
  <2> HIDE DEF F, m
  <2> QED BY <1>3, <2>1, FS_Bijection
<1> QED BY <1>3, <1>6, <1>7

----------------------------------------------------------------------------
(* Pages *)

LEMMA SeqOfMore ==
  ASSUME NEW S, NEW T, S \subseteq T, NEW s \in Seq(S)
  PROVE  s \in Seq(T)
<1>1. s \in [1 .. Len(s) -> S] /\ Len(s) \in Nat
  OBVIOUS
<1>2. s \in [1 .. Len(s) -> T]
  BY <1>1
<1> QED BY <1>1, <1>2

\* What SubSeq cuts out.
LEMMA Cut ==
  ASSUME NEW T, NEW s \in Seq(T), NEW a \in Nat, NEW b \in Nat, a <= b, b <= Len(s)
  PROVE  /\ SubSeq(s, a + 1, b) \in Seq(T)
         /\ Len(SubSeq(s, a + 1, b)) = b - a
         /\ \A k \in 1 .. b - a : SubSeq(s, a + 1, b)[k] = s[a + k]
OBVIOUS

\* A page holds the rows that come after the first offset rows, each once, and
\* a short one the last of them.
LEMMA PageOfPlaces ==
  ASSUME NEW I, NEW R, Orders(R, I), NEW offset \in Nat
  PROVE  LET page == Slice(InOrder(I, R), offset)
         IN  /\ page \in Seq(I)
             /\ ToSet(page) = First(I, R, offset + Limit) \ First(I, R, offset)
             /\ Len(page) = Cardinality(ToSet(page))
             /\ Len(page) < Limit => First(I, R, offset + Limit) = I
<1> DEFINE all == InOrder(I, R)
           N == Cardinality(I)
           last == Smaller(offset + Limit, N)
           page == Slice(all, offset)
           read == First(I, R, offset)
           next == First(I, R, offset + Limit)
<1>1. N \in Nat /\ Limit \in Nat \ {0}
  BY Places, ListingsAssumption
<1>2. all \in Seq(I) /\ Len(all) = N
  BY InOrderLists
<1>3. \A k \in 1 .. N : all[k] \in I /\ Place(I, R, all[k]) = k
  BY InOrderLists
<1>4. last \in Nat /\ last <= N /\ last <= offset + Limit /\ (last = N \/ last = offset + Limit)
  BY <1>1 DEF Smaller
<1>5. page = SubSeq(all, offset + 1, last)
  BY <1>2 DEF Slice
<1>6. \A i \in I : Place(I, R, i) \in 1 .. N
  BY Places
<1>7. \A i \in I : \A k \in 1 .. N : Place(I, R, i) = k => all[k] = i
  <2> SUFFICES ASSUME NEW i \in I, NEW k \in 1 .. N, Place(I, R, i) = k
               PROVE  all[k] = i
    OBVIOUS
  <2>1. all[k] \in I /\ Place(I, R, all[k]) = Place(I, R, i)
    BY <1>3
  <2> QED BY <2>1, PlacesTaken
<1>8. \A i \in I : i \in next \ read <=> Place(I, R, i) \in offset + 1 .. last
  BY <1>1, <1>4, <1>6 DEF First
<1>9. /\ page \in Seq(I)
      /\ Len(page) = IF offset <= last THEN last - offset ELSE 0
      /\ \A k \in 1 .. Len(page) : page[k] = all[offset + k]
  <2> HIDE DEF all, last, page, N
  <2>1. CASE offset <= last
    <3>1. /\ page \in Seq(I)
          /\ Len(page) = last - offset
          /\ \A k \in 1 .. last - offset : page[k] = all[offset + k]
      BY <1>2, <1>4, <1>5, <2>1, Cut
    <3> QED BY <2>1, <3>1
  <2>2. CASE ~ (offset <= last)
    <3>1. page = <<>>
      BY <1>1, <1>2, <1>4, <1>5, <2>2
    <3> QED BY <3>1, <2>2
  <2> QED BY <2>1, <2>2
<1>10. ToSet(page) = next \ read
  <2>1. ToSet(page) = {page[k] : k \in 1 .. Len(page)}
    BY <1>9 DEF ToSet
  <2>2. ASSUME NEW k \in 1 .. Len(page)
        PROVE  page[k] \in next \ read
    <3>1. offset + k \in 1 .. N /\ offset + k \in offset + 1 .. last /\ page[k] = all[offset + k]
      <4> HIDE DEF all, last, page, N
      <4> QED BY <1>1, <1>4, <1>9
    <3>2. all[offset + k] \in I /\ Place(I, R, all[offset + k]) = offset + k
      BY <1>3, <3>1
    <3> QED BY <1>8, <3>1, <3>2
  <2>3. ASSUME NEW i \in next \ read
        PROVE  \E k \in 1 .. Len(page) : page[k] = i
    <3>1. i \in I
      BY DEF First
    <3> DEFINE k == Place(I, R, i)
    <3>2. k \in offset + 1 .. last /\ k \in 1 .. N
      BY <1>6, <1>8, <3>1
    <3>3. all[k] = i
      BY <1>7, <3>1, <3>2
    <3>4. k - offset \in 1 .. Len(page) /\ offset + (k - offset) = k
      <4> HIDE DEF all, last, page, N, k
      <4> QED BY <1>1, <1>4, <1>9, <3>2
    <3>5. page[k - offset] = i
      <4> HIDE DEF all, last, page, N, k
      <4> QED BY <1>9, <3>3, <3>4
    <3> QED BY <3>4, <3>5
  <2> HIDE DEF page, next, read
  <2> QED BY <2>1, <2>2, <2>3
<1>11. /\ IsFiniteSet(next)
       /\ Cardinality(next) = last
       /\ next \in SUBSET I
       /\ read \in SUBSET I
       /\ Cardinality(read) = Smaller(offset, N)
  BY <1>1, FirstCounted
<1>12. read \subseteq next
  BY <1>1, <1>6 DEF First
<1>13. Len(page) = Cardinality(ToSet(page))
  <2>1. Cardinality(next \ read) = Cardinality(next) - Cardinality(next \cap read)
    <3> HIDE DEF next, read
    <3> QED BY <1>11, FS_Difference
  <2>2. next \cap read = read
    BY <1>12
  <2>3. Cardinality(ToSet(page)) = last - Smaller(offset, N)
    <3> HIDE DEF next, read, page, last, N
    <3> QED BY <1>10, <1>11, <2>1, <2>2
  <2> HIDE DEF page
  <2> QED BY <1>1, <1>4, <1>9, <2>3 DEF Smaller
<1>14. Len(page) < Limit => next = I
  <2> SUFFICES ASSUME Len(page) < Limit PROVE next = I
    OBVIOUS
  <2>1. last = N
    <3> HIDE DEF page
    <3> QED BY <1>1, <1>4, <1>9 DEF Smaller
  <2>2. IsFiniteSet(I)
    BY DEF Orders
  <2> HIDE DEF next
  <2> QED BY <1>11, <2>1, <2>2, FS_Subset
<1> QED BY <1>9, <1>10, <1>13, <1>14

----------------------------------------------------------------------------
(* How the first rows change with the rows and their order *)

\* A set's rows not among its first n.
Rest(I, before, n) == I \ First(I, before, n)

Agree(R, S, I) == \A i, j \in I : <<i, j>> \in R <=> <<i, j>> \in S

LEMMA SameOrder ==
  ASSUME NEW I, NEW R, NEW S, Orders(R, I), Agree(R, S, I)
  PROVE  /\ Orders(S, I)
         /\ \A n : First(I, S, n) = First(I, R, n)
<1>1. Orders(S, I)
  BY DEF Orders, Agree
<1>2. ASSUME NEW i \in I PROVE Place(I, S, i) = Place(I, R, i)
  <2>1. Preceding(I, R, i) = Preceding(I, S, i)
    BY DEF Preceding, Agree
  <2> QED BY <2>1 DEF Place, Preceding
<1> QED BY <1>1, <1>2 DEF First

\* With fewer rows no row comes later.
LEMMA FewerRows ==
  ASSUME NEW I, NEW R, Orders(R, I), NEW J \in SUBSET I
  PROVE  /\ Orders(R, J)
         /\ \A j \in J : Place(J, R, j) <= Place(I, R, j)
<1>1. Orders(R, J)
  <2>1. IsFiniteSet(J)
    BY FS_Subset DEF Orders
  <2> QED BY <2>1 DEF Orders
<1>2. ASSUME NEW j \in J PROVE Place(J, R, j) <= Place(I, R, j)
  <2>1. Preceding(J, R, j) \in SUBSET Preceding(I, R, j)
    BY DEF Preceding
  <2>2. /\ IsFiniteSet(Preceding(I, R, j))
        /\ Cardinality(Preceding(I, R, j)) \in Nat
        /\ Place(I, R, j) = Cardinality(Preceding(I, R, j)) + 1
    BY Places
  <2>3. /\ Cardinality(Preceding(J, R, j)) \in Nat
        /\ Place(J, R, j) = Cardinality(Preceding(J, R, j)) + 1
    BY <1>1, Places
  <2>4. Cardinality(Preceding(J, R, j)) <= Cardinality(Preceding(I, R, j))
    BY <2>1, <2>2, FS_Subset
  <2> QED BY <2>2, <2>3, <2>4
<1> QED BY <1>1, <1>2

\* What the first n rows and the rest lose and gain when rows come or go.
LEMMA FirstOfFewer ==
  ASSUME NEW I, NEW R, Orders(R, I), NEW J \in SUBSET I, NEW n \in Nat
  PROVE  /\ First(I, R, n) \subseteq First(J, R, n) \cup (I \ J)
         /\ Rest(J, R, n) \subseteq Rest(I, R, n)
         /\ Cardinality(First(J, R, n) \ First(I, R, n)) <= Cardinality(I \ J)
         /\ Cardinality(Rest(I, R, n) \ Rest(J, R, n)) <= Cardinality(I \ J)
<1> DEFINE F == First(I, R, n)
           G == First(J, R, n)
           X == I \ J
<1>1. Orders(R, J) /\ \A j \in J : Place(J, R, j) <= Place(I, R, j)
  BY FewerRows
<1>2. /\ \A i \in I : Place(I, R, i) \in Nat
      /\ \A j \in J : Place(J, R, j) \in Nat
  BY <1>1, Places
<1>3. F \cap J \subseteq G
  BY <1>1, <1>2 DEF First
<1>4. F \in SUBSET I /\ G \in SUBSET J
  BY DEF First
<1>5. /\ Cardinality(I) \in Nat /\ Cardinality(J) \in Nat
      /\ Cardinality(J) <= Cardinality(I)
      /\ IsFiniteSet(I) /\ IsFiniteSet(X)
  BY <1>1, FS_CardinalityType, FS_Subset, FS_Difference DEF Orders
<1>6. /\ Cardinality(F) = Smaller(n, Cardinality(I))
      /\ Cardinality(G) = Smaller(n, Cardinality(J))
      /\ IsFiniteSet(F) /\ IsFiniteSet(G)
  BY <1>1, FirstCounted
<1>7. Cardinality(G) <= Cardinality(F) /\ Cardinality(F) \in Nat /\ Cardinality(G) \in Nat
  BY <1>5, <1>6 DEF Smaller
<1>8. Cardinality(G \ F) <= Cardinality(X)
  <2>1. Cardinality(G \ F) = Cardinality(G) - Cardinality(G \cap F)
    <3> HIDE DEF F, G
    <3> QED BY <1>6, FS_Difference
  <2>2. Cardinality(F \ X) = Cardinality(F) - Cardinality(F \cap X)
    <3> HIDE DEF F, G, X
    <3> QED BY <1>6, FS_Difference
  <2>3. F \ X = G \cap F
    <3> HIDE DEF F, G
    <3> QED BY <1>3, <1>4
  <2>4. Cardinality(F \cap X) <= Cardinality(X)
    <3> HIDE DEF F, X
    <3> QED BY <1>5, FS_Intersection
  <2>5. /\ Cardinality(F \cap X) \in Nat
        /\ Cardinality(X) \in Nat
        /\ Cardinality(G \cap F) \in Nat
    <3> HIDE DEF F, X, G
    <3> QED BY <1>5, <1>6, FS_Intersection, FS_CardinalityType
  <2>6. Cardinality(G \cap F) = Cardinality(F) - Cardinality(F \cap X)
    BY <2>2, <2>3, Zenon
  <2> HIDE DEF F, G, X
  <2> QED BY <1>7, <2>1, <2>4, <2>5, <2>6
<1>9. Cardinality(Rest(I, R, n) \ Rest(J, R, n)) <= Cardinality(X)
  <2>1. Rest(I, R, n) \ Rest(J, R, n) = (G \cup X) \ F
    <3>1. Rest(I, R, n) = I \ F /\ Rest(J, R, n) = J \ G
      BY DEF Rest
    <3> HIDE DEF F, G
    <3> QED BY <1>3, <1>4, <3>1
  <2>2. F \subseteq G \cup X
    <3> HIDE DEF F, G
    <3> QED BY <1>3, <1>4
  <2> HIDE DEF F, G, X
  <2>3. /\ IsFiniteSet(G \cup X)
        /\ Cardinality(G \cup X) = Cardinality(G) + Cardinality(X) - Cardinality(G \cap X)
    BY <1>5, <1>6, FS_Union
  <2>4. G \cap X = {} /\ (G \cup X) \cap F = F
    BY <1>4, <2>2 DEF X
  <2>5. Cardinality((G \cup X) \ F) = Cardinality(G \cup X) - Cardinality((G \cup X) \cap F)
    BY <2>3, FS_Difference
  <2>6. Cardinality(X) \in Nat /\ Cardinality(G \cap X) = 0
    BY <1>5, <2>4, FS_CardinalityType, FS_EmptySet
  <2>7. Cardinality(Rest(I, R, n) \ Rest(J, R, n)) = Cardinality(G \cup X) - Cardinality(F)
    BY <2>1, <2>4, <2>5, Zenon
  <2> QED BY <1>7, <2>3, <2>6, <2>7
<1>10. F \subseteq G \cup X
  <2> HIDE DEF F, G
  <2> QED BY <1>3, <1>4
<1>11. Rest(J, R, n) \subseteq Rest(I, R, n)
  BY <1>3 DEF Rest
<1> QED BY <1>8, <1>9, <1>10, <1>11

LEMMA AtMostOne ==
  ASSUME NEW x, NEW S, S \subseteq {x}
  PROVE  Cardinality(S) \in 0 .. 1
<1>1. IsFiniteSet({x}) /\ Cardinality({x}) = 1
  BY FS_Singleton
<1>2. S \in SUBSET {x}
  OBVIOUS
<1>3. IsFiniteSet(S) /\ Cardinality(S) <= Cardinality({x})
  BY <1>1, <1>2, FS_Subset
<1>4. Cardinality(S) \in Nat
  BY <1>3, FS_CardinalityType
<1> QED BY <1>1, <1>3, <1>4

\* When rows go that others were not among the first because of, and rows come.
LEMMA FirstOfMore ==
  ASSUME NEW I, NEW R, Orders(R, I), NEW K, NEW S, Orders(S, K),
         NEW J, J \in SUBSET I, J \in SUBSET K, Agree(R, S, J),
         NEW n \in Nat, First(J, R, n) \subseteq First(I, R, n)
  PROVE  /\ First(K, S, n) \subseteq First(I, R, n) \cup (K \ J)
         /\ Cardinality(Rest(K, S, n) \ Rest(I, R, n)) <= Cardinality(K \ J)
<1>1. First(J, S, n) = First(J, R, n)
  <2>1. Orders(R, J)
    BY FewerRows
  <2> QED BY <2>1, SameOrder
<1>2. First(K, S, n) \subseteq First(J, S, n) \cup (K \ J)
  BY FirstOfFewer, Zenon
<1>3. Rest(J, S, n) \subseteq Rest(I, R, n)
  <2>1. Rest(J, R, n) \subseteq Rest(I, R, n)
    BY FirstOfFewer, Zenon
  <2> QED BY <1>1, <2>1 DEF Rest
<1>4. Cardinality(Rest(K, S, n) \ Rest(J, S, n)) <= Cardinality(K \ J)
  BY FirstOfFewer, Zenon
<1> DEFINE less == Rest(K, S, n) \ Rest(I, R, n)
           more == Rest(K, S, n) \ Rest(J, S, n)
<1>5. less \in SUBSET more /\ more \in SUBSET K /\ IsFiniteSet(K)
  BY <1>3 DEF Rest, Orders
<1>6. IsFiniteSet(more) /\ IsFiniteSet(K \ J)
  <2> HIDE DEF less, more
  <2> QED BY <1>5, FS_Subset, FS_Difference
<1>7. /\ Cardinality(less) <= Cardinality(more)
      /\ Cardinality(less) \in Nat /\ Cardinality(more) \in Nat
      /\ Cardinality(K \ J) \in Nat
  <2> HIDE DEF less, more
  <2> QED BY <1>5, <1>6, FS_Subset, FS_CardinalityType
<1>8. Cardinality(less) <= Cardinality(K \ J)
  <2>1. Cardinality(more) <= Cardinality(K \ J)
    BY <1>4
  <2> HIDE DEF less, more
  <2> QED BY <1>7, <2>1
<1> QED BY <1>1, <1>2, <1>8

\* When one row moves and the others keep their order.
LEMMA FirstOfMoved ==
  ASSUME NEW I, NEW R, NEW S, Orders(R, I), Orders(S, I),
         NEW x \in I, Agree(R, S, I \ {x}), NEW n \in Nat
  PROVE  /\ Cardinality(First(I, S, n) \ First(I, R, n)) <= 1
         /\ Cardinality(Rest(I, S, n) \ Rest(I, R, n)) <= 1
<1> DEFINE F == First(I, R, n)
           G == First(I, S, n)
           J == I \ {x}
<1>1. Cardinality(I \ J) = 1
  <2>1. I \ J = {x}
    OBVIOUS
  <2> QED BY <2>1, FS_Singleton
<1>2. J \in SUBSET I /\ Orders(R, J) /\ Orders(S, J)
  <2>1. J \in SUBSET I
    OBVIOUS
  <2> QED BY <2>1, FewerRows
<1>3. First(J, S, n) = First(J, R, n)
  BY <1>2, SameOrder
<1>4. Rest(J, R, n) \subseteq Rest(I, R, n)
  <2> HIDE DEF J
  <2> QED BY <1>2, FirstOfFewer, Zenon
<1>5. Cardinality(Rest(I, S, n) \ Rest(J, S, n)) <= 1
  <2>1. Cardinality(Rest(I, S, n) \ Rest(J, S, n)) <= Cardinality(I \ J)
    <3> HIDE DEF J
    <3> QED BY <1>2, FirstOfFewer, Zenon
  <2> QED BY <1>1, <2>1
<1>6. /\ IsFiniteSet(F) /\ IsFiniteSet(G)
      /\ Cardinality(F) = Cardinality(G)
      /\ F \in SUBSET I /\ G \in SUBSET I
  BY FirstCounted
<1>7. Rest(I, S, n) \ Rest(I, R, n) = F \ G
  BY <1>6 DEF Rest
<1>8. Cardinality(F \ G) <= 1
  <2>1. F \ G \in SUBSET (Rest(I, S, n) \ Rest(J, S, n))
    <3>1. F \ G \subseteq Rest(I, S, n) /\ F \cap Rest(I, R, n) = {}
      BY <1>6 DEF Rest
    <3>2. Rest(J, S, n) = Rest(J, R, n)
      BY <1>3 DEF Rest
    <3> QED BY <1>4, <3>1, <3>2
  <2>2. IsFiniteSet(Rest(I, S, n) \ Rest(J, S, n))
    <3>1. IsFiniteSet(I)
      BY DEF Orders
    <3>2. Rest(I, S, n) \ Rest(J, S, n) \in SUBSET I
      BY DEF Rest
    <3> QED BY <3>1, <3>2, FS_Subset
  <2>3. Cardinality(F \ G) <= Cardinality(Rest(I, S, n) \ Rest(J, S, n))
    BY <2>1, <2>2, FS_Subset
  <2>4. /\ Cardinality(F \ G) \in Nat
        /\ Cardinality(Rest(I, S, n) \ Rest(J, S, n)) \in Nat
    <3>1. IsFiniteSet(F \ G)
      BY <2>1, <2>2, FS_Subset
    <3> QED BY <2>2, <3>1, FS_CardinalityType
  <2> HIDE DEF F, G
  <2> QED BY <1>5, <2>3, <2>4
<1>9. Cardinality(G \ F) = Cardinality(F \ G)
  <2> HIDE DEF F, G
  <2>1. /\ Cardinality(F \ G) = Cardinality(F) - Cardinality(F \cap G)
        /\ Cardinality(G \ F) = Cardinality(G) - Cardinality(G \cap F)
    BY <1>6, FS_Difference
  <2>2. F \cap G = G \cap F
    OBVIOUS
  <2> QED BY <1>6, <2>1, <2>2
<1> QED BY <1>7, <1>8, <1>9

\* Without the last row the others keep their places.
LEMMA FirstWithoutLast ==
  ASSUME NEW I, NEW R, Orders(R, I), NEW z,
         \A i \in I \ {z} : z \in I => <<i, z>> \in R, NEW n \in Nat
  PROVE  First(I \ {z}, R, n) \subseteq First(I, R, n)
<1>1. ASSUME NEW i \in I \ {z} PROVE Place(I \ {z}, R, i) = Place(I, R, i)
  <2>1. ASSUME z \in I PROVE <<z, i>> \notin R
    BY <2>1 DEF Orders
  <2>2. Preceding(I \ {z}, R, i) = Preceding(I, R, i)
    BY <2>1 DEF Preceding
  <2> QED BY <2>2 DEF Place, Preceding
<1> QED BY <1>1 DEF First

----------------------------------------------------------------------------
(* The rows a reader pages through *)

Row == IF list = "rfps"
       THEN [organization_id : Organizations, visibility : {"public", "invite_only"}]
       ELSE IF list \in Feed THEN [hidden : BOOLEAN, likes : Nat] ELSE [matches : BOOLEAN]

TypeInv ==
  /\ list \in Lists
  /\ caller \in {"user", "anonymous"}
  /\ rows \in Seq(Row)
  /\ memberships \in [Organizations -> 0 .. 2]
  /\ reader \in [step : {"reading", "done", "failed"}, offset : Nat, shown : Seq(Nat)]
  /\ changes \in [inserted : Nat, revealed : Nat, hidden : Nat, restored : Nat, likes : Nat]

Order == IF list = "top" THEN MostLiked ELSE IF list = "comments" THEN Oldest ELSE Newest
Listing == Showable \cap Reach

LEMMA RowsAre ==
  ASSUME TypeInv
  PROVE  \A i \in DOMAIN rows : rows[i] \in Row
<1>1. rows \in Seq(Row)
  BY DEF TypeInv
<1> QED BY <1>1

RowsInOrder == Orders(Order, DOMAIN rows)

LEMMA RowsOrdered == TypeInv => RowsInOrder
<1> SUFFICES ASSUME TypeInv PROVE Orders(Order, DOMAIN rows)
  BY DEF RowsInOrder
<1>1. DOMAIN rows = 1 .. Len(rows) /\ Len(rows) \in Nat /\ rows \in Seq(Row)
  BY DEF TypeInv
<1>2. IsFiniteSet(DOMAIN rows)
  BY <1>1, FS_Interval
<1>3. CASE Order = Newest
  BY <1>1, <1>2, <1>3 DEF Orders, Newest
<1>4. CASE Order = Oldest
  BY <1>1, <1>2, <1>4 DEF Orders, Oldest
<1>5. CASE list = "top"
  <2>1. Order = MostLiked
    BY <1>5 DEF Order
  <2>2. \A i \in DOMAIN rows : rows[i].likes \in Nat
    <3>1. Row = [hidden : BOOLEAN, likes : Nat]
      BY <1>5 DEF Row, Feed
    <3>2. \A i \in 1 .. Len(rows) : rows[i] \in Row
      BY <1>1
    <3> QED BY <1>1, <3>1, <3>2
  <2>3. \A i, j \in DOMAIN rows :
           <<i, j>> \in MostLiked <=> \/ rows[i].likes > rows[j].likes
                                      \/ rows[i].likes = rows[j].likes /\ i > j
    BY DEF MostLiked
  <2> QED BY <1>1, <1>2, <2>1, <2>2, <2>3 DEF Orders
<1> QED BY <1>3, <1>4, <1>5 DEF Order

\* The rows there are, the rows listed, and their order.
ListingInOrder ==
  /\ DOMAIN rows = 1 .. Len(rows) /\ Len(rows) \in Nat
  /\ Listing \in SUBSET (DOMAIN rows)
  /\ IsFiniteSet(DOMAIN rows)
  /\ Orders(Order, DOMAIN rows)
  /\ Orders(Order, Listing)

LEMMA ListingOrdered == TypeInv => ListingInOrder
<1> SUFFICES ASSUME TypeInv PROVE ListingInOrder
  OBVIOUS
<1>1. DOMAIN rows = 1 .. Len(rows) /\ Len(rows) \in Nat
  BY DEF TypeInv
<1>2. Listing \in SUBSET (DOMAIN rows)
  BY DEF Listing, Showable
<1>3. Orders(Order, DOMAIN rows)
  BY RowsOrdered DEF RowsInOrder
<1>4. Orders(Order, Listing)
  BY <1>2, <1>3, FewerRows
<1>5. IsFiniteSet(DOMAIN rows)
  BY <1>3 DEF Orders
<1> QED BY <1>1, <1>2, <1>3, <1>4, <1>5 DEF ListingInOrder

\* Whatever the list, a page is a slice of its rows in its order.
LEMMA PageRead ==
  ASSUME TypeInv, ~ SearchFails, NEW offset \in Nat
  PROVE  Page(offset) = Slice(InOrder(Listing, Order), offset)
<1>1. list \in {"problems", "rfps", "solutions", "new", "top", "comments"}
  BY ListingsAssumption DEF TypeInv
<1>2. CASE list = "problems"
  <2>1. Listing = {i \in DOMAIN rows : rows[i].matches} /\ Order = Newest
    BY <1>2 DEF Listing, Showable, Reach, Order, Feed
  <2>2. Page(offset) = SearchProblems(offset)
    BY <1>2 DEF Page
  <2> QED BY <2>1, <2>2 DEF SearchProblems
<1>3. CASE list = "solutions"
  <2>1. Listing = {i \in Fetched : rows[i].matches} /\ Order = Newest
    BY <1>3 DEF Listing, Showable, Reach, Order, Feed, Fetched
  <2>2. Page(offset) = SearchSolutions(offset)
    BY <1>3 DEF Page
  <2> QED BY <2>1, <2>2 DEF SearchSolutions
<1>4. CASE list = "rfps"
  <2>1. Listing = {i \in Fetched : VisibleToCaller(i)} /\ Order = Newest
    BY <1>4 DEF Listing, Showable, Reach, Order, Fetched
  <2>2. ASSUME NEW i \in Fetched PROVE VisibleToCaller(i) <=> Listed(i)
    <3>1. i \in DOMAIN rows /\ i \in 1 .. Len(rows)
      BY DEF Fetched, TypeInv
    <3>2. rows[i] \in [organization_id : Organizations, visibility : {"public", "invite_only"}]
      <4>1. Row = [organization_id : Organizations, visibility : {"public", "invite_only"}]
        BY <1>4 DEF Row
      <4>2. rows[i] \in Row
        BY <3>1 DEF TypeInv
      <4> QED BY <4>1, <4>2
    <3>3. memberships[rows[i].organization_id] \in 0 .. 2
      BY <3>2 DEF TypeInv
    <3>4. ~ LookupFails(i)
      BY <1>4 DEF SearchFails
    <3> QED BY <3>3, <3>4 DEF LookupFails, VisibleToCaller, Listed
  <2>3. Listing = {i \in Fetched : Listed(i)}
    BY <2>1, <2>2
  <2>4. Page(offset) = SearchRfps(offset)
    BY <1>4 DEF Page
  <2> QED BY <2>1, <2>3, <2>4 DEF SearchRfps
<1>5. CASE list = "comments"
  <2>1. Listing = {i \in DOMAIN rows : ~ rows[i].hidden} /\ Order = Oldest
    BY <1>5 DEF Listing, Showable, Reach, Order, Feed
  <2>2. Page(offset) = ListComments(offset)
    BY <1>5 DEF Page
  <2> QED BY <2>1, <2>2 DEF ListComments
<1>6. CASE list \in {"new", "top"}
  <2>1. /\ Listing = {i \in DOMAIN rows : ~ rows[i].hidden}
        /\ Order = IF list = "top" THEN MostLiked ELSE Newest
    BY <1>6 DEF Listing, Showable, Reach, Order, Feed
  <2>2. Page(offset) = ListPosts(offset)
    BY <1>6 DEF Page
  <2> QED BY <2>1, <2>2 DEF ListPosts
<1> QED BY <1>1, <1>2, <1>3, <1>4, <1>5, <1>6

LEMMA ListingKept ==
  ASSUME rows' = rows, memberships' = memberships, list' = list, caller' = caller
  PROVE  Listing' = Listing /\ Order' = Order /\ Showable' = Showable
<1>1. Showable' = Showable
  BY DEF Showable, VisibleToCaller, Feed
<1>2. Reach' = Reach
  BY DEF Reach, Fetched
<1>3. Order' = Order
  BY DEF Order, Newest, Oldest, MostLiked
<1> QED BY <1>1, <1>2, <1>3 DEF Listing

\* What every change leaves alone.
LEMMA ChangeIs ==
  ASSUME NEW kind, NEW n, Change(kind, n)
  PROVE  /\ reader.step = "reading" /\ reader.offset > 0
         /\ changes' = [changes EXCEPT ![kind] = @ + n]
         /\ list' = list /\ caller' = caller /\ reader' = reader
BY Zenon DEF Change

\* What each change does to the rows and the memberships.
LEMMA InsertIs ==
  ASSUME TypeInv, Insert
  PROVE  /\ \E row \in Insertable : rows' = Append(rows, row)
         /\ Len(rows') = Len(rows) + 1
         /\ DOMAIN rows' = DOMAIN rows \cup {Len(rows) + 1}
         /\ Len(rows) + 1 \notin DOMAIN rows
         /\ \A i \in DOMAIN rows : rows'[i] = rows[i]
         /\ rows' \in Seq(Row)
         /\ memberships' = memberships /\ lasting' = lasting
         /\ changes' = [changes EXCEPT !.inserted = @ + 1]
<1>1. PICK row \in Insertable : rows' = Append(rows, row)
  BY DEF Insert
<1>2. row \in Row
  <2>1. CASE list \in Feed
    <3>1. list # "rfps"
      BY <2>1 DEF Feed
    <3>2. row \in [hidden : {FALSE}, likes : {0}]
      BY <2>1, <3>1 DEF Insertable
    <3>3. row \in [hidden : BOOLEAN, likes : Nat]
      <4>1. \A b \in {FALSE} : b \in BOOLEAN
        OBVIOUS
      <4>2. {FALSE} \subseteq BOOLEAN /\ {0} \subseteq Nat
        BY <4>1
      <4> QED BY <3>2, <4>2
    <3> QED BY <2>1, <3>1, <3>3 DEF Row
  <2>2. CASE list \notin Feed
    BY <2>2 DEF Insertable, Row
  <2> QED BY <2>1, <2>2
<1>3. rows \in Seq(Row)
  BY DEF TypeInv
<1>4. /\ Len(rows') = Len(rows) + 1
      /\ DOMAIN rows = 1 .. Len(rows) /\ Len(rows) \in Nat
      /\ rows' \in Seq(Row)
      /\ \A i \in 1 .. Len(rows) : rows'[i] = rows[i]
  BY <1>1, <1>2, <1>3
<1>5. DOMAIN rows' = 1 .. Len(rows) + 1
  BY <1>4
<1>6. memberships' = memberships /\ lasting' = lasting
  BY DEF Insert
<1>7. changes' = [changes EXCEPT !.inserted = @ + 1]
  BY ChangeIs DEF Insert
<1> QED BY <1>1, <1>4, <1>5, <1>6, <1>7

LEMMA AdmitIs ==
  ASSUME TypeInv, NEW o \in Organizations, Admit(o)
  PROVE  LET revealed == {i \in DOMAIN rows : /\ rows[i].visibility = "invite_only"
                                              /\ rows[i].organization_id = o}
         IN  /\ list = "rfps"
             /\ memberships' = [memberships EXCEPT ![o] = @ + 1]
             /\ memberships' \in [Organizations -> 0 .. 2]
             /\ rows' = rows /\ lasting' = lasting
             /\ changes' = [changes EXCEPT !.revealed = @ + Cardinality(revealed)]
<1> DEFINE revealed == {i \in DOMAIN rows : /\ rows[i].visibility = "invite_only"
                                            /\ rows[i].organization_id = o}
<1>1. /\ list = "rfps" /\ memberships[o] < 2
      /\ memberships' = [memberships EXCEPT ![o] = @ + 1]
      /\ rows' = rows /\ lasting' = lasting
      /\ Change("revealed", Cardinality(revealed))
  BY DEF Admit
<1>2. memberships' \in [Organizations -> 0 .. 2]
  <2>1. memberships \in [Organizations -> 0 .. 2]
    BY DEF TypeInv
  <2> QED BY <1>1, <2>1
<1>3. changes' = [changes EXCEPT !.revealed = @ + Cardinality(revealed)]
  <2> HIDE DEF revealed
  <2> QED BY <1>1, ChangeIs
<1> QED BY <1>1, <1>2, <1>3

LEMMA SetHiddenIs ==
  ASSUME TypeInv, NEW i \in DOMAIN rows, NEW hidden \in BOOLEAN, SetHidden(i, hidden)
  PROVE  /\ list \in Feed /\ rows[i].hidden # hidden
         /\ rows' = [rows EXCEPT ![i].hidden = hidden]
         /\ rows' \in Seq(Row)
         /\ DOMAIN rows' = DOMAIN rows
         /\ \A j \in DOMAIN rows : rows'[j].likes = rows[j].likes
         /\ \A j \in DOMAIN rows : rows'[j].hidden = IF j = i THEN hidden ELSE rows[j].hidden
         /\ memberships' = memberships /\ lasting' = lasting \ {i}
         /\ changes' = IF hidden THEN [changes EXCEPT !.hidden = @ + 1]
                       ELSE [changes EXCEPT !.restored = @ + 1]
<1>1. /\ list \in Feed /\ rows[i].hidden # hidden
      /\ rows' = [rows EXCEPT ![i].hidden = hidden]
      /\ memberships' = memberships /\ lasting' = lasting \ {i}
      /\ Change(IF hidden THEN "hidden" ELSE "restored", 1)
  BY DEF SetHidden
<1>2. rows \in Seq([hidden : BOOLEAN, likes : Nat]) /\ Row = [hidden : BOOLEAN, likes : Nat]
  <2>1. Row = [hidden : BOOLEAN, likes : Nat]
    BY <1>1 DEF Row, Feed
  <2> QED BY <2>1 DEF TypeInv
<1>3. DOMAIN rows = 1 .. Len(rows) /\ Len(rows) \in Nat
  BY <1>2
<1>4. \A j \in DOMAIN rows : rows[j] \in [hidden : BOOLEAN, likes : Nat]
  BY <1>2, RowsAre
<1>5. /\ DOMAIN rows' = DOMAIN rows
      /\ \A j \in DOMAIN rows : rows'[j] = IF j = i THEN [rows[i] EXCEPT !.hidden = hidden]
                                           ELSE rows[j]
  BY <1>1
<1>6. \A j \in DOMAIN rows : /\ rows'[j] \in [hidden : BOOLEAN, likes : Nat]
                             /\ rows'[j].likes = rows[j].likes
                             /\ rows'[j].hidden = IF j = i THEN hidden ELSE rows[j].hidden
  <2> SUFFICES ASSUME NEW j \in DOMAIN rows
               PROVE  /\ rows'[j] \in [hidden : BOOLEAN, likes : Nat]
                      /\ rows'[j].likes = rows[j].likes
                      /\ rows'[j].hidden = IF j = i THEN hidden ELSE rows[j].hidden
    OBVIOUS
  <2>1. rows[j] \in [hidden : BOOLEAN, likes : Nat]
    BY <1>4
  <2>2. CASE j = i
    <3>1. rows'[j] = [rows[i] EXCEPT !.hidden = hidden]
      BY <1>5, <2>2
    <3> QED BY <2>1, <2>2, <3>1
  <2>3. CASE j # i
    <3>1. rows'[j] = rows[j]
      BY <1>5, <2>3
    <3> QED BY <2>1, <2>3, <3>1
  <2> QED BY <2>2, <2>3
<1>7. rows' \in Seq(Row)
  <2>1. rows' \in [1 .. Len(rows) -> [hidden : BOOLEAN, likes : Nat]]
    <3>1. rows' = [j \in 1 .. Len(rows) |-> rows'[j]]
      BY <1>1, <1>3
    <3>2. \A j \in 1 .. Len(rows) : rows'[j] \in [hidden : BOOLEAN, likes : Nat]
      BY <1>3, <1>6
    <3> QED BY <3>1, <3>2
  <2> QED BY <1>2, <1>3, <2>1
<1>8. changes' = IF hidden THEN [changes EXCEPT !.hidden = @ + 1]
                 ELSE [changes EXCEPT !.restored = @ + 1]
  <2>1. CASE hidden
    BY <1>1, <2>1, ChangeIs
  <2>2. CASE ~ hidden
    BY <1>1, <2>2, ChangeIs
  <2> QED BY <2>1, <2>2
<1> QED BY <1>1, <1>5, <1>6, <1>7, <1>8

LEMMA ToggleLikeIs ==
  ASSUME TypeInv, NEW i \in DOMAIN rows, ToggleLike(i)
  PROVE  /\ list = "top"
         /\ rows' \in Seq(Row)
         /\ DOMAIN rows' = DOMAIN rows
         /\ \A j \in DOMAIN rows \ {i} : rows'[j] = rows[j]
         /\ rows'[i].hidden = rows[i].hidden
         /\ memberships' = memberships /\ lasting' = lasting
         /\ changes' = [changes EXCEPT !.likes = @ + 1]
<1>1. /\ list = "top"
      /\ memberships' = memberships /\ lasting' = lasting
      /\ Change("likes", 1)
  BY DEF ToggleLike
<1>2. PICK d \in {-1, 1} : /\ rows[i].likes + d >= 0
                           /\ rows' = [rows EXCEPT ![i].likes = @ + d]
  BY DEF ToggleLike
<1>3. rows \in Seq([hidden : BOOLEAN, likes : Nat]) /\ Row = [hidden : BOOLEAN, likes : Nat]
  <2>1. Row = [hidden : BOOLEAN, likes : Nat]
    BY <1>1 DEF Row, Feed
  <2> QED BY <2>1 DEF TypeInv
<1>4. DOMAIN rows = 1 .. Len(rows) /\ Len(rows) \in Nat
  BY <1>3
<1>5. \A j \in DOMAIN rows : rows[j] \in [hidden : BOOLEAN, likes : Nat]
  BY <1>3, RowsAre
<1>6. /\ DOMAIN rows' = DOMAIN rows
      /\ rows'[i] = [rows[i] EXCEPT !.likes = @ + d]
      /\ \A j \in DOMAIN rows \ {i} : rows'[j] = rows[j]
  BY <1>2
<1>7. rows'[i] \in [hidden : BOOLEAN, likes : Nat] /\ rows'[i].hidden = rows[i].hidden
  <2>1. rows[i].likes \in Nat /\ rows[i] \in [hidden : BOOLEAN, likes : Nat]
    BY <1>5
  <2>2. rows[i].likes + d \in Nat
    BY <1>2, <2>1
  <2> QED BY <1>6, <2>1, <2>2
<1>8. rows' \in Seq(Row)
  <2>1. \A j \in DOMAIN rows : rows'[j] \in [hidden : BOOLEAN, likes : Nat]
    BY <1>5, <1>6, <1>7
  <2>2. rows' \in [1 .. Len(rows) -> [hidden : BOOLEAN, likes : Nat]]
    <3>1. rows' = [j \in DOMAIN rows |-> rows'[j]]
      BY <1>2
    <3> QED BY <1>4, <2>1, <3>1
  <2> QED BY <1>3, <1>4, <2>2
<1>9. changes' = [changes EXCEPT !.likes = @ + 1]
  BY <1>1, ChangeIs
<1> QED BY <1>1, <1>6, <1>7, <1>8, <1>9

\* A page read, or a search failed.
LEMMA ReadPageIs ==
  ASSUME TypeInv, ReadPage
  PROVE  /\ reader.step = "reading"
         /\ rows' = rows /\ memberships' = memberships /\ changes' = changes
         /\ list' = list /\ caller' = caller
         /\ lasting' = IF reader.offset = 0 THEN Showable ELSE lasting
         /\ \/ /\ reader'.step = "failed"
               /\ reader'.offset = reader.offset /\ reader'.shown = reader.shown
            \/ LET page == Slice(InOrder(Listing, Order), reader.offset)
               IN  /\ page \in Seq(Nat)
                   /\ reader'.step = IF Len(page) < Limit THEN "done" ELSE "reading"
                   /\ reader'.offset = reader.offset + Limit
                   /\ reader'.shown = reader.shown \o page
         /\ reader' \in [step : {"reading", "done", "failed"}, offset : Nat, shown : Seq(Nat)]
<1> DEFINE page == Slice(InOrder(Listing, Order), reader.offset)
<1>1. /\ reader.step \in {"reading", "done", "failed"}
      /\ reader.offset \in Nat /\ reader.shown \in Seq(Nat)
      /\ reader = [step |-> reader.step, offset |-> reader.offset, shown |-> reader.shown]
  BY DEF TypeInv
<1>2. page \in Seq(Nat)
  <2>1. Orders(Order, Listing) /\ Listing \in SUBSET Nat
    BY ListingOrdered DEF ListingInOrder
  <2>2. page \in Seq(Listing)
    BY <1>1, <2>1, PageOfPlaces
  <2> HIDE DEF page
  <2> QED BY <2>1, <2>2, SeqOfMore
<1>3. /\ reader.step = "reading"
      /\ rows' = rows /\ memberships' = memberships /\ changes' = changes
      /\ list' = list /\ caller' = caller
      /\ lasting' = IF reader.offset = 0 THEN Showable ELSE lasting
      /\ reader' = IF SearchFails THEN [reader EXCEPT !.step = "failed"]
                   ELSE [step |-> IF Len(Page(reader.offset)) < Limit THEN "done" ELSE "reading",
                         offset |-> reader.offset + Limit,
                         shown |-> reader.shown \o Page(reader.offset)]
  BY DEF ReadPage
<1>4. CASE SearchFails
  BY <1>1, <1>3, <1>4
<1>5. CASE ~ SearchFails
  <2>1. Page(reader.offset) = page
    BY <1>1, <1>5, PageRead
  <2> HIDE DEF page
  <2>2. reader' = [step |-> IF Len(page) < Limit THEN "done" ELSE "reading",
                   offset |-> reader.offset + Limit, shown |-> reader.shown \o page]
    BY <1>3, <1>5, <2>1
  <2>3. reader.shown \o page \in Seq(Nat) /\ reader.offset + Limit \in Nat
    BY <1>1, <1>2, ListingsAssumption
  <2>4. /\ reader'.step = IF Len(page) < Limit THEN "done" ELSE "reading"
        /\ reader'.offset = reader.offset + Limit
        /\ reader'.shown = reader.shown \o page
    BY <2>2
  <2>5. reader' \in [step : {"reading", "done", "failed"}, offset : Nat, shown : Seq(Nat)]
    BY <2>2, <2>3
  <2> QED BY <1>2, <1>3, <2>4, <2>5 DEF page
<1> QED BY <1>3, <1>4, <1>5

LEMMA TypeInit == Init => TypeInv
<1> SUFFICES ASSUME Init PROVE TypeInv
  OBVIOUS
<1>1. /\ list \in Lists
      /\ caller \in IF list = "rfps" THEN {"user", "anonymous"} ELSE {"user"}
      /\ memberships \in [Organizations -> IF caller = "user" THEN 0 .. 1 ELSE {0}]
      /\ reader = [step |-> "reading", offset |-> 0, shown |-> <<>>]
      /\ changes = NoChange
  BY DEF Init
<1>2. caller \in {"user", "anonymous"} /\ memberships \in [Organizations -> 0 .. 2]
  BY <1>1
<1>3. reader \in [step : {"reading", "done", "failed"}, offset : Nat, shown : Seq(Nat)]
  BY <1>1
<1>4. changes \in [inserted : Nat, revealed : Nat, hidden : Nat, restored : Nat, likes : Nat]
  BY <1>1 DEF NoChange
<1>5. rows \in Seq(Row)
  <2> DEFINE T == IF list \in Feed THEN [hidden : BOOLEAN, likes : 0 .. 1] ELSE Insertable
  <2>1. PICK n \in 0 .. FirstRows : rows \in [1 .. n -> T]
    BY DEF Init
  <2>2. T \subseteq Row
    <3>1. CASE list \in Feed
      <4>1. 0 .. 1 \subseteq Nat /\ list # "rfps"
        BY <3>1 DEF Feed
      <4>2. [hidden : BOOLEAN, likes : 0 .. 1] \subseteq [hidden : BOOLEAN, likes : Nat]
        BY <4>1
      <4> QED BY <3>1, <4>1, <4>2 DEF Row
    <3>2. CASE list \notin Feed
      BY <3>2 DEF Row, Insertable
    <3> QED BY <3>1, <3>2
  <2>3. n \in Nat
    BY ListingsAssumption
  <2> HIDE DEF T
  <2>4. rows \in [1 .. n -> Row]
    BY <2>1, <2>2
  <2> QED BY <2>3, <2>4
<1> QED BY <1>1, <1>2, <1>3, <1>4, <1>5 DEF TypeInv

LEMMA TypeNext == TypeInv /\ [Next]_vars => TypeInv'
<1> SUFFICES ASSUME TypeInv, [Next]_vars PROVE TypeInv'
  OBVIOUS
<1> DEFINE Readers == [step : {"reading", "done", "failed"}, offset : Nat, shown : Seq(Nat)]
           Counts == [inserted : Nat, revealed : Nat, hidden : Nat, restored : Nat, likes : Nat]
<1>1. /\ list \in Lists /\ caller \in {"user", "anonymous"}
      /\ memberships \in [Organizations -> 0 .. 2]
      /\ reader \in Readers /\ changes \in Counts
  BY DEF TypeInv
<1>2. list' = list => Row' = Row
  BY DEF Row, Feed
<1>3. ASSUME ReadPage PROVE TypeInv'
  <2>1. /\ rows' = rows /\ memberships' = memberships /\ changes' = changes
        /\ list' = list /\ caller' = caller /\ reader' \in Readers
    BY <1>3, ReadPageIs
  <2> QED BY <1>2, <2>1 DEF TypeInv
<1>4. ASSUME NEW kind, NEW n, Change(kind, n), memberships' \in [Organizations -> 0 .. 2],
             rows' \in Seq(Row), changes' \in Counts
      PROVE  TypeInv'
  <2>1. list' = list /\ caller' = caller /\ reader' = reader
    BY <1>4, ChangeIs
  <2> QED BY <1>1, <1>2, <1>4, <2>1 DEF TypeInv
<1>5. ASSUME Insert PROVE TypeInv'
  <2>1. rows' \in Seq(Row) /\ memberships' = memberships
        /\ changes' = [changes EXCEPT !.inserted = @ + 1]
    BY <1>5, InsertIs
  <2>2. changes' \in Counts
    <3>1. changes \in Counts /\ changes' = [changes EXCEPT !.inserted = @ + 1]
      BY <1>1, <2>1
    <3> QED BY <3>1
  <2>3. Change("inserted", 1)
    BY <1>5 DEF Insert
  <2> QED BY <1>1, <1>4, <2>1, <2>2, <2>3
<1>6. ASSUME NEW o \in Organizations, Admit(o) PROVE TypeInv'
  <2> DEFINE revealed == {i \in DOMAIN rows : /\ rows[i].visibility = "invite_only"
                                              /\ rows[i].organization_id = o}
  <2>1. /\ memberships' \in [Organizations -> 0 .. 2] /\ rows' = rows
        /\ changes' = [changes EXCEPT !.revealed = @ + Cardinality(revealed)]
    BY <1>6, AdmitIs
  <2>2. Cardinality(revealed) \in Nat
    <3>1. IsFiniteSet(DOMAIN rows) /\ revealed \in SUBSET (DOMAIN rows)
      BY ListingOrdered DEF ListingInOrder
    <3> HIDE DEF revealed
    <3> QED BY <3>1, FS_Subset, FS_CardinalityType
  <2>3. Change("revealed", Cardinality(revealed))
    BY <1>6 DEF Admit
  <2> HIDE DEF revealed
  <2>4. changes' \in Counts
    BY <1>1, <2>1, <2>2
  <2>5. rows' \in Seq(Row)
    BY <2>1 DEF TypeInv
  <2> QED BY <1>4, <2>1, <2>3, <2>4, <2>5
<1>7. ASSUME NEW i \in DOMAIN rows, ToggleLike(i) PROVE TypeInv'
  <2>1. rows' \in Seq(Row) /\ memberships' = memberships
        /\ changes' = [changes EXCEPT !.likes = @ + 1]
    BY <1>7, ToggleLikeIs
  <2>2. changes' \in Counts
    BY <1>1, <2>1
  <2>3. Change("likes", 1)
    BY <1>7 DEF ToggleLike
  <2> QED BY <1>1, <1>4, <2>1, <2>2, <2>3
<1>8. ASSUME NEW i \in DOMAIN rows, NEW hidden \in BOOLEAN, SetHidden(i, hidden) PROVE TypeInv'
  <2>1. rows' \in Seq(Row) /\ memberships' = memberships
        /\ changes' = IF hidden THEN [changes EXCEPT !.hidden = @ + 1]
                      ELSE [changes EXCEPT !.restored = @ + 1]
    BY <1>8, SetHiddenIs
  <2>2. changes' \in Counts
    BY <1>1, <2>1
  <2>3. Change(IF hidden THEN "hidden" ELSE "restored", 1)
    BY <1>8 DEF SetHidden
  <2> QED BY <1>1, <1>4, <2>1, <2>2, <2>3
<1>9. CASE UNCHANGED vars
  BY <1>9 DEF TypeInv, vars, Row, Feed
<1> QED BY <1>3, <1>5, <1>6, <1>7, <1>8, <1>9 DEF Next

LEMMA Types == Spec => []TypeInv
  BY TypeInit, TypeNext, PTL DEF Spec

----------------------------------------------------------------------------
(* How a change changes the rows listed *)

\* The row pushed out of the fetch cap by a row inserted.
Pushed == Len(rows) + 1 - Cap

LEMMA InsertLists ==
  ASSUME TypeInv, Insert
  PROVE  LET z == Len(rows) + 1
         IN  /\ Showable' \subseteq Showable \cup {z}
             /\ Showable \subseteq Showable'
             /\ \/ Listing \subseteq Listing' /\ Listing' \subseteq Listing \cup {z}
                \/ /\ list \in {"rfps", "solutions"}
                   /\ Listing \ {Pushed} \subseteq Listing'
                   /\ Listing' \subseteq (Listing \ {Pushed}) \cup {z}
                   /\ \A i \in Listing : i >= Pushed
<1> DEFINE z == Len(rows) + 1
<1>1. /\ DOMAIN rows = 1 .. Len(rows) /\ Len(rows) \in Nat
      /\ DOMAIN rows' = DOMAIN rows \cup {z}
      /\ Len(rows') = z /\ z \notin DOMAIN rows
      /\ \A i \in DOMAIN rows : rows'[i] = rows[i]
      /\ memberships' = memberships
  BY InsertIs, ListingOrdered DEF ListingInOrder
<1>2. list' = list /\ caller' = caller
  BY ChangeIs DEF Insert
<1>3. ASSUME NEW i \in DOMAIN rows PROVE i \in Showable' <=> i \in Showable
  BY <1>1, <1>2 DEF Showable, VisibleToCaller, Feed
<1>4. Showable' \subseteq DOMAIN rows'
  BY DEF Showable
<1>5. Showable \subseteq DOMAIN rows
  BY DEF Showable
<1>6. Showable' \subseteq Showable \cup {z} /\ Showable \subseteq Showable'
  BY <1>1, <1>3, <1>4, <1>5
<1>7. Cap \in Nat \ {0}
  BY ListingsAssumption
<1>8. CASE list \in {"rfps", "solutions"}
  <2>1. Reach = Fetched /\ Reach' = Fetched'
    BY <1>2, <1>8 DEF Reach
  <2>2. Fetched = {i \in 1 .. Len(rows) : i > Len(rows) - Cap}
    BY <1>1 DEF Fetched
  <2>3. Fetched' = {i \in (1 .. Len(rows)) \cup {z} : i > z - Cap}
    BY <1>1 DEF Fetched
  <2>4. \A i \in Reach : i >= Pushed
    BY <1>1, <1>7, <2>1, <2>2 DEF Pushed
  <2>5. \A i \in 1 .. Len(rows) : i \in Reach' <=> i \in Reach /\ i # Pushed
    BY <1>1, <1>7, <2>1, <2>2, <2>3 DEF Pushed
  <2>6. Reach' \subseteq (1 .. Len(rows)) \cup {z} /\ Reach \subseteq 1 .. Len(rows)
    BY <2>1, <2>2, <2>3
  <2>7. Listing = Showable \cap Reach /\ Listing' = Showable' \cap Reach'
    BY DEF Listing
  <2>8. /\ Listing \ {Pushed} \subseteq Listing'
        /\ Listing' \subseteq (Listing \ {Pushed}) \cup {z}
        /\ \A i \in Listing : i >= Pushed
    <3> HIDE DEF z
    <3> QED BY <1>1, <1>3, <1>6, <2>4, <2>5, <2>6, <2>7
  <2> QED BY <1>6, <1>8, <2>8
<1>9. CASE list \notin {"rfps", "solutions"}
  <2>1. Reach = DOMAIN rows /\ Reach' = DOMAIN rows'
    BY <1>2, <1>9 DEF Reach
  <2>2. Listing = Showable /\ Listing' = Showable'
    BY <1>4, <1>5, <2>1 DEF Listing
  <2> QED BY <1>6, <2>2
<1> QED BY <1>8, <1>9

LEMMA AdmitLists ==
  ASSUME TypeInv, NEW o \in Organizations, Admit(o)
  PROVE  LET revealed == {i \in DOMAIN rows : /\ rows[i].visibility = "invite_only"
                                              /\ rows[i].organization_id = o}
         IN  /\ Showable \subseteq Showable'
             /\ Listing \subseteq Listing'
             /\ Listing' \ Listing \subseteq Showable' \ Showable
             /\ Listing' \ Listing \subseteq revealed
<1> DEFINE revealed == {i \in DOMAIN rows : /\ rows[i].visibility = "invite_only"
                                            /\ rows[i].organization_id = o}
<1>1. /\ list = "rfps" /\ rows' = rows
      /\ memberships' = [memberships EXCEPT ![o] = @ + 1]
      /\ memberships \in [Organizations -> 0 .. 2]
  BY AdmitIs DEF TypeInv
<1>2. list' = list /\ caller' = caller
  BY ChangeIs DEF Admit
<1>3. ASSUME NEW i \in DOMAIN rows
      PROVE  /\ i \in Showable => i \in Showable'
             /\ i \in Showable' => i \in Showable \/ i \in revealed
  <2>1. rows[i].organization_id \in Organizations
    <3>1. Row = [organization_id : Organizations, visibility : {"public", "invite_only"}]
      BY <1>1 DEF Row
    <3>2. rows[i] \in Row
      BY RowsAre
    <3> QED BY <3>1, <3>2
  <2>2. /\ i \in Showable <=> VisibleToCaller(i)
        /\ i \in Showable' <=> VisibleToCaller(i)'
    BY <1>1, <1>2 DEF Showable
  <2>3. CASE rows[i].organization_id = o
    <3>1. memberships[o] >= 0 /\ memberships'[o] = memberships[o] + 1
      BY <1>1
    <3> QED BY <1>1, <1>2, <2>2, <2>3, <3>1 DEF VisibleToCaller
  <2>4. CASE rows[i].organization_id # o
    <3>1. memberships'[rows[i].organization_id] = memberships[rows[i].organization_id]
      BY <1>1, <2>1, <2>4
    <3> QED BY <1>1, <1>2, <2>2, <3>1 DEF VisibleToCaller
  <2> QED BY <2>3, <2>4
<1>4. Reach' = Reach /\ Showable \subseteq DOMAIN rows /\ Showable' \subseteq DOMAIN rows
  BY <1>1, <1>2 DEF Reach, Fetched, Showable
<1> QED BY <1>3, <1>4 DEF Listing

LEMMA SetHiddenLists ==
  ASSUME TypeInv, NEW i \in DOMAIN rows, NEW hidden \in BOOLEAN, SetHidden(i, hidden)
  PROVE  /\ hidden => Showable' = Showable \ {i} /\ Listing' = Listing \ {i}
         /\ ~ hidden => /\ Showable' = Showable \cup {i} /\ i \notin Showable
                        /\ Listing' = Listing \cup {i} /\ i \notin Listing
<1>1. /\ list \in Feed /\ rows[i].hidden # hidden
      /\ DOMAIN rows' = DOMAIN rows
      /\ \A j \in DOMAIN rows : rows'[j].hidden = IF j = i THEN hidden ELSE rows[j].hidden
  BY SetHiddenIs
<1>2. list' = list
  BY ChangeIs DEF SetHidden
<1>3. list # "rfps" /\ list \notin {"rfps", "solutions"}
  BY <1>1 DEF Feed
<1>4. /\ Showable = {j \in DOMAIN rows : ~ rows[j].hidden}
      /\ Showable' = {j \in DOMAIN rows : ~ rows'[j].hidden}
  BY <1>1, <1>2, <1>3 DEF Showable
<1>5. Listing = Showable /\ Listing' = Showable'
  BY <1>1, <1>2, <1>3, <1>4 DEF Listing, Reach
<1>6. /\ hidden => Showable' = Showable \ {i}
      /\ ~ hidden => Showable' = Showable \cup {i} /\ i \notin Showable
  <2>1. rows[i].hidden \in BOOLEAN
    <3>1. Row = [hidden : BOOLEAN, likes : Nat]
      BY <1>1, <1>3 DEF Row
    <3>2. rows[i] \in Row
      BY RowsAre
    <3> QED BY <3>1, <3>2
  <2>2. \A j \in DOMAIN rows \ {i} : j \in Showable' <=> j \in Showable
    BY <1>1, <1>4
  <2>3. i \in Showable' <=> ~ hidden
    BY <1>1, <1>4
  <2>4. i \in Showable <=> hidden
    BY <1>1, <1>4, <2>1
  <2>5. Showable \subseteq DOMAIN rows /\ Showable' \subseteq DOMAIN rows
    BY <1>4
  <2> QED BY <2>2, <2>3, <2>4, <2>5
<1> QED BY <1>5, <1>6

LEMMA ToggleLikeLists ==
  ASSUME TypeInv, NEW i \in DOMAIN rows, ToggleLike(i)
  PROVE  Showable' = Showable /\ Listing' = Listing
<1>1. /\ list = "top" /\ DOMAIN rows' = DOMAIN rows
      /\ \A j \in DOMAIN rows : rows'[j].hidden = rows[j].hidden
  BY ToggleLikeIs
<1>2. list' = list
  BY ChangeIs DEF ToggleLike
<1>3. /\ Showable = {j \in DOMAIN rows : ~ rows[j].hidden}
      /\ Showable' = {j \in DOMAIN rows : ~ rows'[j].hidden}
  BY <1>1, <1>2 DEF Showable, Feed
<1>4. Listing = Showable /\ Listing' = Showable'
  BY <1>1, <1>2, <1>3 DEF Listing, Reach
<1>5. Showable' = Showable
  BY <1>1, <1>3
<1> QED BY <1>4, <1>5

----------------------------------------------------------------------------
(* What a reader was shown *)

Seen == ToSet(reader.shown)

\* What was shown or lasts is still there: of the RFPs, none was withdrawn.
StillThere ==
  /\ Seen \subseteq DOMAIN rows
  /\ list = "rfps" => Seen \subseteq Showable
  /\ lasting \subseteq Showable

LEMMA SeenAppended ==
  ASSUME NEW s \in Seq(Nat), NEW t \in Seq(Nat)
  PROVE  ToSet(s \o t) = ToSet(s) \cup ToSet(t)
<1>1. /\ DOMAIN s = 1 .. Len(s) /\ DOMAIN t = 1 .. Len(t)
      /\ DOMAIN (s \o t) = 1 .. Len(s) + Len(t)
      /\ Len(s) \in Nat /\ Len(t) \in Nat
  OBVIOUS
<1>2. ASSUME NEW k \in 1 .. Len(s) + Len(t)
      PROVE  (s \o t)[k] \in ToSet(s) \cup ToSet(t)
  <2>1. CASE k <= Len(s)
    <3>1. (s \o t)[k] = s[k] /\ k \in DOMAIN s
      BY <1>1, <2>1
    <3> QED BY <3>1 DEF ToSet
  <2>2. CASE ~ (k <= Len(s))
    <3>1. (s \o t)[k] = t[k - Len(s)] /\ k - Len(s) \in DOMAIN t
      BY <1>1, <2>2
    <3> QED BY <3>1 DEF ToSet
  <2> QED BY <2>1, <2>2
<1>3. ASSUME NEW k \in DOMAIN s PROVE s[k] \in ToSet(s \o t)
  <2>1. (s \o t)[k] = s[k] /\ k \in DOMAIN (s \o t)
    BY <1>1
  <2> QED BY <2>1 DEF ToSet
<1>4. ASSUME NEW k \in DOMAIN t PROVE t[k] \in ToSet(s \o t)
  <2>1. (s \o t)[k + Len(s)] = t[k] /\ k + Len(s) \in DOMAIN (s \o t)
    BY <1>1
  <2> QED BY <2>1 DEF ToSet
<1> QED BY <1>1, <1>2, <1>3, <1>4 DEF ToSet

\* What reading a page shows.
LEMMA ReadPageShows ==
  ASSUME TypeInv, ReadPage
  PROVE  /\ Listing' = Listing /\ Order' = Order /\ Showable' = Showable
         /\ \/ Seen' = Seen /\ reader'.step = "failed" /\ reader'.offset = reader.offset
               /\ reader'.shown = reader.shown
            \/ LET page == First(Listing, Order, reader.offset + Limit)
                             \ First(Listing, Order, reader.offset)
               IN  /\ Seen' = Seen \cup page
                   /\ Len(reader'.shown) = Len(reader.shown) + Cardinality(page)
                   /\ reader'.offset = reader.offset + Limit
                   /\ reader'.step = "done" =>
                        First(Listing, Order, reader.offset + Limit) = Listing
<1> DEFINE cut == Slice(InOrder(Listing, Order), reader.offset)
           page == First(Listing, Order, reader.offset + Limit)
                     \ First(Listing, Order, reader.offset)
<1>1. reader.offset \in Nat /\ reader.shown \in Seq(Nat)
  BY DEF TypeInv
<1>2. Orders(Order, Listing)
  BY ListingOrdered DEF ListingInOrder
<1>3. /\ ToSet(cut) = page
      /\ Len(cut) = Cardinality(ToSet(cut))
      /\ Len(cut) < Limit => First(Listing, Order, reader.offset + Limit) = Listing
  BY <1>1, <1>2, PageOfPlaces, Zenon
<1>4. /\ rows' = rows /\ memberships' = memberships
      /\ list' = list /\ caller' = caller
  BY ReadPageIs
<1>5. Listing' = Listing /\ Order' = Order /\ Showable' = Showable
  BY <1>4, ListingKept
<1>6. CASE reader'.step = "failed" /\ reader'.offset = reader.offset
             /\ reader'.shown = reader.shown
  BY <1>5, <1>6 DEF Seen
<1>7. CASE /\ cut \in Seq(Nat)
           /\ reader'.step = IF Len(cut) < Limit THEN "done" ELSE "reading"
           /\ reader'.offset = reader.offset + Limit
           /\ reader'.shown = reader.shown \o cut
  <2> HIDE DEF cut, page
  <2>1. Seen' = Seen \cup page
    BY <1>1, <1>3, <1>7, SeenAppended DEF Seen
  <2>2. Len(reader'.shown) = Len(reader.shown) + Len(cut)
    BY <1>1, <1>7
  <2>3. reader'.step = "done" => First(Listing, Order, reader.offset + Limit) = Listing
    BY <1>3, <1>7
  <2> QED BY <1>3, <1>5, <1>7, <2>1, <2>2, <2>3 DEF page
<1>8. \/ reader'.step = "failed" /\ reader'.offset = reader.offset
           /\ reader'.shown = reader.shown
      \/ /\ cut \in Seq(Nat)
         /\ reader'.step = IF Len(cut) < Limit THEN "done" ELSE "reading"
         /\ reader'.offset = reader.offset + Limit
         /\ reader'.shown = reader.shown \o cut
  BY ReadPageIs
<1> QED BY <1>6, <1>7, <1>8

LEMMA StillThereNext == TypeInv /\ StillThere /\ [Next]_vars => StillThere'
<1> SUFFICES ASSUME TypeInv, StillThere, [Next]_vars PROVE StillThere'
  OBVIOUS
<1>1. ASSUME ReadPage PROVE StillThere'
  <2>1. /\ Listing' = Listing /\ Showable' = Showable
        /\ rows' = rows /\ list' = list
        /\ lasting' = IF reader.offset = 0 THEN Showable ELSE lasting
    BY <1>1, ReadPageIs, ReadPageShows
  <2>2. Seen' \subseteq Seen \cup Listing
    <3>1. First(Listing, Order, reader.offset + Limit) \subseteq Listing
      BY DEF First
    <3> QED BY <1>1, <3>1, ReadPageShows
  <2>3. Listing \subseteq Showable /\ Showable \subseteq DOMAIN rows
    BY DEF Listing, Showable
  <2> QED BY <2>1, <2>2, <2>3 DEF StillThere
<1>2. ASSUME NEW kind, NEW n, Change(kind, n), DOMAIN rows \subseteq DOMAIN rows',
             list = "rfps" => Showable \subseteq Showable', lasting' \subseteq Showable'
      PROVE  StillThere'
  <2>1. Seen' = Seen /\ list' = list
    BY <1>2, ChangeIs DEF Seen
  <2> QED BY <1>2, <2>1 DEF StillThere
<1>3. ASSUME Insert PROVE StillThere'
  <2>1. DOMAIN rows \subseteq DOMAIN rows' /\ lasting' = lasting /\ Showable \subseteq Showable'
    BY <1>3, InsertIs, InsertLists
  <2>2. Change("inserted", 1) /\ lasting' \subseteq Showable'
    BY <1>3, <2>1 DEF Insert, StillThere
  <2> QED BY <1>2, <2>1, <2>2
<1>4. ASSUME NEW o \in Organizations, Admit(o) PROVE StillThere'
  <2>1. rows' = rows /\ lasting' = lasting /\ Showable \subseteq Showable'
    BY <1>4, AdmitIs, AdmitLists
  <2>2. \E n : Change("revealed", n)
    BY <1>4 DEF Admit
  <2>3. lasting' \subseteq Showable'
    BY <2>1 DEF StillThere
  <2> QED BY <1>2, <2>1, <2>2, <2>3
<1>5. ASSUME NEW i \in DOMAIN rows, ToggleLike(i) PROVE StillThere'
  <2>1. DOMAIN rows' = DOMAIN rows /\ lasting' = lasting /\ Showable' = Showable
    BY <1>5, ToggleLikeIs, ToggleLikeLists
  <2>2. Change("likes", 1) /\ lasting' \subseteq Showable'
    BY <1>5, <2>1 DEF ToggleLike, StillThere
  <2> QED BY <1>2, <2>1, <2>2
<1>6. ASSUME NEW i \in DOMAIN rows, NEW hidden \in BOOLEAN, SetHidden(i, hidden)
      PROVE  StillThere'
  <2>1. /\ DOMAIN rows' = DOMAIN rows /\ lasting' = lasting \ {i} /\ list \in Feed
        /\ hidden => Showable' = Showable \ {i}
        /\ ~ hidden => Showable' = Showable \cup {i}
    BY <1>6, SetHiddenIs, SetHiddenLists
  <2>2. lasting' \subseteq Showable' /\ list # "rfps"
    BY <2>1 DEF StillThere, Feed
  <2>3. \E kind : Change(kind, 1)
    BY <1>6 DEF SetHidden
  <2> QED BY <1>2, <2>1, <2>2, <2>3
<1>7. CASE UNCHANGED vars
  <2>1. Showable' = Showable
    BY <1>7, ListingKept DEF vars
  <2> QED BY <1>7, <2>1 DEF StillThere, vars, Seen
<1> QED BY <1>1, <1>3, <1>4, <1>5, <1>6, <1>7 DEF Next

LEMMA AllStillThere == Spec => []StillThere
<1>1. Init => StillThere
  <2> SUFFICES ASSUME Init PROVE StillThere
    OBVIOUS
  <2>1. reader.shown = <<>> /\ lasting = {}
    BY DEF Init
  <2>2. Seen = {}
    BY <2>1 DEF Seen, ToSet
  <2> QED BY <2>1, <2>2 DEF StillThere
<1> QED BY <1>1, StillThereNext, Types, PTL DEF Spec

\* An RFP that a search showed its caller can be opened by that caller from then
\* on, unless an admin added the user to its organization a second time, when
\* get_membership fails.
THEOREM ShownCanBeRead == Spec => []ShownIsReadable
<1>1. TypeInv /\ StillThere => ShownIsReadable
  <2> SUFFICES ASSUME TypeInv, StillThere, list = "rfps", NEW i \in Seen
               PROVE  GetRfp(i) = "found" \/ memberships[rows[i].organization_id] > 1
    BY DEF ShownIsReadable, Seen
  <2>1. VisibleToCaller(i)
    BY DEF StillThere, Showable
  <2> QED BY <2>1 DEF GetRfp, LookupFails
<1> QED BY <1>1, Types, AllStillThere, PTL

----------------------------------------------------------------------------
(* How far a change moves rows *)

\* The rows a change moves up among the first n, and those it moves down, or
\* puts, behind them.
MovedUp(n) == First(Listing', Order', n) \ First(Listing, Order, n)
MovedDown(n) == Rest(Listing', Order', n) \ Rest(Listing, Order, n)

LEMMA ListingOrderedNext ==
  ASSUME TypeInv'
  PROVE  /\ Listing' \in SUBSET (DOMAIN rows')
         /\ Orders(Order', Listing')
<1>1. ListingInOrder'
  BY ListingOrdered, PTL
<1> QED BY <1>1 DEF ListingInOrder

LEMMA OrderKept ==
  ASSUME list' = list, NEW D, D \subseteq DOMAIN rows, D \subseteq DOMAIN rows',
         list = "top" => \A i \in D : rows'[i].likes = rows[i].likes
  PROVE  Agree(Order, Order', D)
<1> SUFFICES ASSUME NEW i \in D, NEW j \in D
             PROVE  <<i, j>> \in Order <=> <<i, j>> \in Order'
  BY DEF Agree
<1>1. /\ i \in DOMAIN rows /\ j \in DOMAIN rows
      /\ i \in DOMAIN rows' /\ j \in DOMAIN rows'
  OBVIOUS
<1>2. CASE list = "top"
  <2>1. Order = MostLiked /\ Order' = MostLiked'
    BY <1>2 DEF Order
  <2> QED BY <1>1, <1>2, <2>1 DEF MostLiked
<1>3. CASE list = "comments"
  <2>1. Order = Oldest /\ Order' = Oldest'
    BY <1>3 DEF Order
  <2> QED BY <1>1, <2>1 DEF Oldest
<1>4. CASE list # "top" /\ list # "comments"
  <2>1. Order = Newest /\ Order' = Newest'
    BY <1>4 DEF Order
  <2> QED BY <1>1, <2>1 DEF Newest
<1> QED BY <1>2, <1>3, <1>4

LEMMA InsertMoves ==
  ASSUME TypeInv, TypeInv', Insert, NEW n \in Nat
  PROVE  /\ MovedUp(n) \cap Showable = {}
         /\ Cardinality(MovedDown(n)) <= 1
<1> DEFINE z == Len(rows) + 1
           J == Listing \cap Listing'
<1>1. /\ DOMAIN rows \subseteq DOMAIN rows' /\ z \notin DOMAIN rows
      /\ \A i \in DOMAIN rows : rows'[i] = rows[i]
  BY InsertIs
<1>2. list' = list
  BY ChangeIs DEF Insert
<1>3. /\ Listing \in SUBSET (DOMAIN rows) /\ Orders(Order, Listing)
      /\ Orders(Order', Listing')
      /\ DOMAIN rows = 1 .. Len(rows)
  BY ListingOrdered, ListingOrderedNext DEF ListingInOrder
<1>4. Agree(Order, Order', J)
  BY <1>1, <1>2, <1>3, OrderKept
<1>5. /\ Listing' \ J \subseteq {z}
      /\ First(J, Order, n) \subseteq First(Listing, Order, n)
  <2>1. CASE Listing \subseteq Listing' /\ Listing' \subseteq Listing \cup {z}
    <3>1. J = Listing
      BY <2>1
    <3> QED BY <2>1, <3>1
  <2>2. CASE /\ list \in {"rfps", "solutions"}
             /\ Listing \ {Pushed} \subseteq Listing'
             /\ Listing' \subseteq (Listing \ {Pushed}) \cup {z}
             /\ \A i \in Listing : i >= Pushed
    <3>1. CASE Pushed \in Listing'
      <4>1. Pushed \notin Listing
        BY <1>1, <1>3, <2>2, <3>1
      <4>2. J = Listing
        BY <2>2, <4>1
      <4> QED BY <2>2, <4>2
    <3>2. CASE Pushed \notin Listing'
      <4>1. J = Listing \ {Pushed}
        BY <2>2, <3>2
      <4>2. \A i \in Listing \ {Pushed} : Pushed \in Listing => <<i, Pushed>> \in Order
        <5>1. Order = Newest
          BY <2>2 DEF Order
        <5>2. Listing \subseteq 1 .. Len(rows)
          BY <1>3
        <5> SUFFICES ASSUME NEW i \in Listing \ {Pushed}, Pushed \in Listing
                     PROVE  <<i, Pushed>> \in Newest
          BY <5>1
        <5>3. i >= Pushed /\ i # Pushed /\ i \in Int /\ Pushed \in Int
          BY <2>2, <5>2
        <5>4. i > Pushed /\ i \in DOMAIN rows /\ Pushed \in DOMAIN rows
          BY <1>3, <5>3
        <5> QED BY <5>4 DEF Newest
      <4>3. First(Listing \ {Pushed}, Order, n) \subseteq First(Listing, Order, n)
        BY <1>3, <4>2, FirstWithoutLast
      <4> QED BY <2>2, <4>1, <4>3
    <3> QED BY <3>1, <3>2
  <2> QED BY <2>1, <2>2, InsertLists
<1>6. J \in SUBSET Listing /\ J \in SUBSET Listing'
  OBVIOUS
<1> HIDE DEF J, z
<1>7. /\ First(Listing', Order', n) \subseteq First(Listing, Order, n) \cup (Listing' \ J)
      /\ Cardinality(MovedDown(n)) <= Cardinality(Listing' \ J)
  BY <1>3, <1>4, <1>5, <1>6, FirstOfMore, Zenon DEF MovedDown
<1>8. Cardinality(Listing' \ J) \in 0 .. 1
  BY <1>5, AtMostOne, Zenon
<1>9. MovedUp(n) \subseteq {z} /\ Showable \subseteq DOMAIN rows
  BY <1>5, <1>7 DEF MovedUp, Showable
<1>10. Cardinality(MovedDown(n)) \in Nat
  <2>1. MovedDown(n) \in SUBSET Listing' /\ IsFiniteSet(Listing')
    BY <1>3 DEF MovedDown, Rest, Orders
  <2> QED BY <2>1, FS_Subset, FS_CardinalityType
<1> QED BY <1>1, <1>7, <1>8, <1>9, <1>10

LEMMA MovedDownFinite ==
  ASSUME TypeInv', NEW n
  PROVE  IsFiniteSet(MovedDown(n)) /\ Cardinality(MovedDown(n)) \in Nat
<1>1. MovedDown(n) \in SUBSET Listing' /\ IsFiniteSet(Listing')
  BY ListingOrderedNext DEF MovedDown, Rest, Orders
<1> QED BY <1>1, FS_Subset, FS_CardinalityType

LEMMA AdmitMoves ==
  ASSUME TypeInv, TypeInv', NEW o \in Organizations, Admit(o), NEW n \in Nat
  PROVE  LET revealed == {i \in DOMAIN rows : /\ rows[i].visibility = "invite_only"
                                              /\ rows[i].organization_id = o}
         IN  /\ MovedUp(n) \cap Showable = {}
             /\ Cardinality(revealed) \in Nat
             /\ Cardinality(MovedDown(n)) <= Cardinality(revealed)
<1> DEFINE revealed == {i \in DOMAIN rows : /\ rows[i].visibility = "invite_only"
                                            /\ rows[i].organization_id = o}
<1>1. list' = list /\ rows' = rows
  BY AdmitIs, ChangeIs DEF Admit
<1>2. /\ Listing \subseteq Listing'
      /\ Listing' \ Listing \subseteq Showable' \ Showable
      /\ Listing' \ Listing \subseteq revealed
  BY AdmitLists
<1>3. /\ Listing \in SUBSET (DOMAIN rows) /\ Orders(Order, Listing)
      /\ Orders(Order', Listing')
      /\ IsFiniteSet(DOMAIN rows)
  BY ListingOrdered, ListingOrderedNext DEF ListingInOrder
<1>4. Agree(Order, Order', Listing)
  BY <1>1, <1>3, OrderKept
<1>5. IsFiniteSet(revealed) /\ revealed \in SUBSET (DOMAIN rows)
  <2>1. revealed \in SUBSET (DOMAIN rows)
    OBVIOUS
  <2> HIDE DEF revealed
  <2> QED BY <1>3, <2>1, FS_Subset
<1> HIDE DEF revealed
<1>6. /\ First(Listing', Order', n) \subseteq First(Listing, Order, n) \cup (Listing' \ Listing)
      /\ Cardinality(MovedDown(n)) <= Cardinality(Listing' \ Listing)
  <2>1. Listing \in SUBSET Listing /\ Listing \in SUBSET Listing'
    BY <1>2
  <2> QED BY <1>3, <1>4, <2>1, FirstOfMore DEF MovedDown
<1>7. MovedUp(n) \cap Showable = {}
  BY <1>2, <1>6 DEF MovedUp
<1>8. /\ Cardinality(Listing' \ Listing) <= Cardinality(revealed)
      /\ Cardinality(Listing' \ Listing) \in Nat /\ Cardinality(revealed) \in Nat
  BY <1>2, <1>5, FS_Subset, FS_CardinalityType
<1>9. Cardinality(MovedDown(n)) <= Cardinality(revealed)
  BY <1>6, <1>8, MovedDownFinite
<1> QED BY <1>7, <1>8, <1>9 DEF revealed

LEMMA RestoreMoves ==
  ASSUME TypeInv, TypeInv', NEW i \in DOMAIN rows, SetHidden(i, FALSE), NEW n \in Nat
  PROVE  /\ MovedUp(n) \cap Showable = {}
         /\ Cardinality(MovedDown(n)) <= 1
<1>1. /\ list' = list /\ DOMAIN rows' = DOMAIN rows
      /\ \A j \in DOMAIN rows : rows'[j].likes = rows[j].likes
  <2>1. list' = list
    BY ChangeIs DEF SetHidden
  <2>2. FALSE \in BOOLEAN
    OBVIOUS
  <2> QED BY <2>1, <2>2, SetHiddenIs
<1>2. /\ Listing' = Listing \cup {i}
      /\ i \notin Showable
  <2>1. FALSE \in BOOLEAN
    OBVIOUS
  <2> QED BY <2>1, SetHiddenLists
<1>3. /\ Listing \in SUBSET (DOMAIN rows) /\ Orders(Order, Listing)
      /\ Orders(Order', Listing')
  BY ListingOrdered, ListingOrderedNext DEF ListingInOrder
<1>4. Agree(Order, Order', Listing)
  BY <1>1, <1>3, OrderKept
<1>5. /\ First(Listing', Order', n) \subseteq First(Listing, Order, n) \cup (Listing' \ Listing)
      /\ Cardinality(MovedDown(n)) <= Cardinality(Listing' \ Listing)
  <2>1. Listing \in SUBSET Listing /\ Listing \in SUBSET Listing'
    BY <1>2
  <2> QED BY <1>3, <1>4, <2>1, FirstOfMore DEF MovedDown
<1>6. Cardinality(Listing' \ Listing) \in 0 .. 1 /\ Listing' \ Listing \subseteq {i}
  <2>1. Listing' \ Listing \subseteq {i}
    BY <1>2
  <2> QED BY <2>1, AtMostOne, Zenon
<1>7. MovedUp(n) \cap Showable = {}
  BY <1>2, <1>5, <1>6 DEF MovedUp
<1>8. Cardinality(MovedDown(n)) <= 1
  BY <1>5, <1>6, MovedDownFinite
<1> QED BY <1>7, <1>8

LEMMA HideMoves ==
  ASSUME TypeInv, TypeInv', NEW i \in DOMAIN rows, SetHidden(i, TRUE), NEW n \in Nat
  PROVE  /\ IsFiniteSet(MovedUp(n)) /\ Cardinality(MovedUp(n)) <= 1
         /\ MovedDown(n) = {}
<1>1. /\ list' = list /\ DOMAIN rows' = DOMAIN rows
      /\ \A j \in DOMAIN rows : rows'[j].likes = rows[j].likes
  <2>1. list' = list
    BY ChangeIs DEF SetHidden
  <2>2. TRUE \in BOOLEAN
    OBVIOUS
  <2> QED BY <2>1, <2>2, SetHiddenIs
<1>2. Listing' = Listing \ {i}
  <2>1. TRUE \in BOOLEAN
    OBVIOUS
  <2> QED BY <2>1, SetHiddenLists
<1>3. /\ Listing \in SUBSET (DOMAIN rows) /\ Orders(Order, Listing)
      /\ Orders(Order', Listing')
  BY ListingOrdered, ListingOrderedNext DEF ListingInOrder
<1>4. Agree(Order, Order', Listing') /\ Listing' \in SUBSET Listing /\ Orders(Order, Listing')
  <2>1. Listing' \in SUBSET Listing
    BY <1>2
  <2>2. Agree(Order, Order', Listing')
    BY <1>1, <1>3, <2>1, OrderKept
  <2> QED BY <1>3, <2>1, <2>2, FewerRows
<1>5. First(Listing', Order', n) = First(Listing', Order, n)
  BY <1>4, SameOrder
<1>6. /\ Cardinality(First(Listing', Order, n) \ First(Listing, Order, n))
           <= Cardinality(Listing \ Listing')
      /\ Rest(Listing', Order, n) \subseteq Rest(Listing, Order, n)
  BY <1>3, <1>4, FirstOfFewer, Zenon
<1>7. Cardinality(Listing \ Listing') \in 0 .. 1
  <2>1. Listing \ Listing' \subseteq {i}
    BY <1>2
  <2> QED BY <2>1, AtMostOne, Zenon
<1>8. MovedUp(n) = First(Listing', Order, n) \ First(Listing, Order, n)
  BY <1>5 DEF MovedUp
<1>9. IsFiniteSet(MovedUp(n)) /\ Cardinality(MovedUp(n)) \in Nat
  <2>1. MovedUp(n) \in SUBSET Listing /\ IsFiniteSet(Listing)
    BY <1>3, <1>4, <1>8 DEF First, Orders
  <2> QED BY <2>1, FS_Subset, FS_CardinalityType
<1>10. Cardinality(MovedUp(n)) <= 1
  BY <1>6, <1>7, <1>8, <1>9
<1>11. MovedDown(n) = {}
  BY <1>5, <1>6 DEF MovedDown, Rest
<1> QED BY <1>9, <1>10, <1>11

LEMMA ToggleLikeMoves ==
  ASSUME TypeInv, TypeInv', NEW i \in DOMAIN rows, ToggleLike(i), NEW n \in Nat
  PROVE  /\ IsFiniteSet(MovedUp(n)) /\ Cardinality(MovedUp(n)) <= 1
         /\ Cardinality(MovedDown(n)) <= 1
<1>1. /\ list' = list /\ DOMAIN rows' = DOMAIN rows
      /\ \A j \in DOMAIN rows \ {i} : rows'[j] = rows[j]
  BY ToggleLikeIs, ChangeIs DEF ToggleLike
<1>2. Listing' = Listing
  BY ToggleLikeLists
<1>3. /\ Listing \in SUBSET (DOMAIN rows) /\ Orders(Order, Listing)
      /\ Orders(Order', Listing)
  <2>1. Orders(Order', Listing')
    BY ListingOrderedNext
  <2> QED BY <1>2, <2>1, ListingOrdered DEF ListingInOrder
<1>4. Agree(Order, Order', Listing \ {i})
  <2>1. Listing \ {i} \subseteq DOMAIN rows /\ Listing \ {i} \subseteq DOMAIN rows'
    BY <1>1, <1>3
  <2>2. \A j \in Listing \ {i} : rows'[j].likes = rows[j].likes
    BY <1>1, <2>1
  <2> QED BY <1>1, <2>1, <2>2, OrderKept
<1>5. IsFiniteSet(MovedUp(n))
  <2>1. MovedUp(n) \in SUBSET Listing /\ IsFiniteSet(Listing)
    BY <1>2, <1>3 DEF First, Orders, MovedUp
  <2> QED BY <2>1, FS_Subset
<1>6. CASE i \in Listing
  <2>1. /\ Cardinality(First(Listing, Order', n) \ First(Listing, Order, n)) <= 1
        /\ Cardinality(Rest(Listing, Order', n) \ Rest(Listing, Order, n)) <= 1
    BY <1>3, <1>4, <1>6, FirstOfMoved, Zenon
  <2> QED BY <1>2, <1>5, <2>1 DEF MovedUp, MovedDown
<1>7. CASE i \notin Listing
  <2>1. Listing \ {i} = Listing
    BY <1>7
  <2>2. First(Listing, Order', n) = First(Listing, Order, n)
    BY <1>3, <1>4, <2>1, SameOrder
  <2>3. MovedUp(n) = {} /\ MovedDown(n) = {}
    BY <1>2, <2>2 DEF MovedUp, MovedDown, Rest
  <2> QED BY <1>5, <2>3, FS_EmptySet
<1> QED BY <1>6, <1>7

----------------------------------------------------------------------------
(* Rows shown again *)

Liked == IF list = "top" THEN changes.likes ELSE 0
Repeatable == changes.inserted + changes.restored + changes.revealed + Liked
Missable == changes.hidden + Liked

\* The rows shown again so far, and those that were shown and are still to come,
\* are no more than the changes that can move a row back.
RepeatsFollow ==
  Len(reader.shown) - Cardinality(Seen)
    + Cardinality(Seen \cap Rest(Listing, Order, reader.offset)) <= Repeatable

LEMMA CountsAre ==
  ASSUME TypeInv
  PROVE  /\ Repeatable \in Nat /\ Missable \in Nat
         /\ Len(reader.shown) \in Nat /\ reader.offset \in Nat
BY DEF TypeInv, Repeatable, Missable, Liked

\* A union is no larger than its parts together.
LEMMA UnionBound ==
  ASSUME NEW S, NEW T, NEW U, IsFiniteSet(S), IsFiniteSet(T), U \subseteq S \cup T
  PROVE  /\ IsFiniteSet(U)
         /\ Cardinality(U) \in Nat /\ Cardinality(S) \in Nat /\ Cardinality(T) \in Nat
         /\ Cardinality(U) <= Cardinality(S) + Cardinality(T)
<1>1. /\ IsFiniteSet(S \cup T)
      /\ Cardinality(S \cup T) = Cardinality(S) + Cardinality(T) - Cardinality(S \cap T)
  BY FS_Union
<1>2. IsFiniteSet(S \cap T)
  BY FS_Intersection
<1>3. U \in SUBSET (S \cup T)
  OBVIOUS
<1>4. IsFiniteSet(U) /\ Cardinality(U) <= Cardinality(S \cup T)
  BY <1>1, <1>3, FS_Subset
<1>5. /\ Cardinality(U) \in Nat /\ Cardinality(S) \in Nat /\ Cardinality(T) \in Nat
      /\ Cardinality(S \cap T) \in Nat /\ Cardinality(S \cup T) \in Nat
  BY <1>1, <1>2, <1>4, FS_CardinalityType
<1> QED BY <1>1, <1>4, <1>5

LEMMA SeenFinite ==
  ASSUME TypeInv, StillThere
  PROVE  IsFiniteSet(Seen) /\ Cardinality(Seen) \in Nat
<1>1. Seen \in SUBSET (DOMAIN rows) /\ IsFiniteSet(DOMAIN rows)
  BY ListingOrdered DEF StillThere, ListingInOrder
<1> QED BY <1>1, FS_Subset, FS_CardinalityType

\* A change that moves d rows back at most, and counts for as many repeats.
LEMMA RepeatsMoved ==
  ASSUME TypeInv, TypeInv', StillThere, RepeatsFollow, reader' = reader,
         NEW d \in Nat, Cardinality(MovedDown(reader.offset)) <= d,
         Repeatable' = Repeatable + d
  PROVE  RepeatsFollow'
<1> DEFINE a == Seen \cap Rest(Listing, Order, reader.offset)
           b == Seen \cap Rest(Listing', Order', reader.offset)
           m == MovedDown(reader.offset)
<1>1. IsFiniteSet(Seen) /\ Cardinality(Seen) \in Nat
  BY SeenFinite
<1>2. IsFiniteSet(a) /\ IsFiniteSet(m)
  BY <1>1, FS_Intersection, MovedDownFinite
<1>3. b \subseteq a \cup m
  BY DEF MovedDown
<1>4. Cardinality(a) \in Nat /\ Cardinality(b) \in Nat /\ Cardinality(m) \in Nat
      /\ Cardinality(b) <= Cardinality(a) + Cardinality(m)
  <2> HIDE DEF a, b, m
  <2> QED BY <1>2, <1>3, UnionBound
<1>5. Len(reader.shown) \in Nat /\ Repeatable \in Nat
  BY CountsAre
<1>6. Len(reader.shown) - Cardinality(Seen) + Cardinality(a) <= Repeatable
  BY DEF RepeatsFollow
<1>7. Cardinality(m) <= d
  OBVIOUS
<1>8. Len(reader.shown) - Cardinality(Seen) + Cardinality(b) <= Repeatable'
  <2> HIDE DEF a, b, m
  <2> QED BY <1>1, <1>4, <1>5, <1>6, <1>7
<1>9. Seen' = Seen
  BY DEF Seen
<1> QED BY <1>8, <1>9 DEF RepeatsFollow

\* Reading a page shows again what was shown and was still to come in it.
LEMMA RepeatsRead ==
  ASSUME TypeInv, StillThere, RepeatsFollow, ReadPage
  PROVE  RepeatsFollow'
<1>1. Listing' = Listing /\ Order' = Order /\ Repeatable' = Repeatable
  BY ReadPageIs, ReadPageShows DEF Repeatable, Liked
<1> DEFINE n == reader.offset
           page == First(Listing, Order, n + Limit) \ First(Listing, Order, n)
           a == Seen \cap Rest(Listing, Order, n)
           b == (Seen \cup page) \cap Rest(Listing, Order, n + Limit)
           c == Seen \cap page
<1>2. CASE Seen' = Seen /\ reader'.offset = n /\ reader'.shown = reader.shown
  BY <1>1, <1>2 DEF RepeatsFollow
<1>3. CASE /\ Seen' = Seen \cup page
           /\ Len(reader'.shown) = Len(reader.shown) + Cardinality(page)
           /\ reader'.offset = n + Limit
  <2>1. n \in Nat /\ Limit \in Nat /\ Len(reader.shown) \in Nat /\ Repeatable \in Nat
    BY ListingsAssumption, CountsAre
  <2>2. Orders(Order, Listing)
    BY ListingOrdered DEF ListingInOrder
  <2>3. IsFiniteSet(page)
    <3>1. page \in SUBSET Listing /\ IsFiniteSet(Listing)
      BY <2>2 DEF First, Orders
    <3> HIDE DEF page
    <3> QED BY <3>1, FS_Subset
  <2>4. IsFiniteSet(Seen) /\ Cardinality(Seen) \in Nat
    BY SeenFinite
  <2>5. First(Listing, Order, n) \subseteq First(Listing, Order, n + Limit)
    <3>1. \A i \in Listing : Place(Listing, Order, i) \in Nat
      BY <2>2, Places
    <3> QED BY <2>1, <3>1 DEF First
  <2>6. a = b \cup c /\ b \cap c = {}
    BY <2>5 DEF Rest, First
  <2> HIDE DEF page
  <2>7. IsFiniteSet(b) /\ IsFiniteSet(c) /\ IsFiniteSet(Seen \cup page)
    BY <2>3, <2>4, FS_Union, FS_Intersection
  <2>8. Cardinality(Seen \cup page) = Cardinality(Seen) + Cardinality(page) - Cardinality(c)
    BY <2>3, <2>4, FS_Union
  <2>9. Cardinality(a) = Cardinality(b) + Cardinality(c)
    <3> HIDE DEF a, b, c
    <3>1. Cardinality(b \cup c) = Cardinality(b) + Cardinality(c) - Cardinality(b \cap c)
      BY <2>7, FS_Union
    <3>2. Cardinality(b \cap c) = 0 /\ Cardinality(b) \in Nat /\ Cardinality(c) \in Nat
      BY <2>6, <2>7, FS_EmptySet, FS_CardinalityType
    <3> QED BY <2>6, <3>1, <3>2
  <2>10. /\ Cardinality(a) \in Nat /\ Cardinality(b) \in Nat /\ Cardinality(c) \in Nat
         /\ Cardinality(page) \in Nat
    <3> HIDE DEF a, b, c
    <3>1. Cardinality(b) \in Nat /\ Cardinality(c) \in Nat /\ Cardinality(page) \in Nat
      BY <2>3, <2>7, FS_CardinalityType
    <3> QED BY <2>9, <3>1
  <2>11. Len(reader.shown) - Cardinality(Seen) + Cardinality(a) <= Repeatable
    BY DEF RepeatsFollow
  <2>12. Len(reader'.shown) - Cardinality(Seen \cup page) + Cardinality(b) <= Repeatable
    <3> HIDE DEF a, b, c, n
    <3> QED BY <1>3, <2>1, <2>4, <2>8, <2>9, <2>10, <2>11
  <2> QED BY <1>1, <1>3, <2>12 DEF RepeatsFollow
<1>4. \/ Seen' = Seen /\ reader'.offset = n /\ reader'.shown = reader.shown
      \/ /\ Seen' = Seen \cup page
         /\ Len(reader'.shown) = Len(reader.shown) + Cardinality(page)
         /\ reader'.offset = n + Limit
  BY ReadPageShows
<1> QED BY <1>2, <1>3, <1>4

LEMMA RepeatsNext ==
  TypeInv /\ TypeInv' /\ StillThere /\ RepeatsFollow /\ [Next]_vars => RepeatsFollow'
<1> SUFFICES ASSUME TypeInv, TypeInv', StillThere, RepeatsFollow, [Next]_vars
             PROVE  RepeatsFollow'
  OBVIOUS
<1>1. changes \in [inserted : Nat, revealed : Nat, hidden : Nat, restored : Nat, likes : Nat]
      /\ reader.offset \in Nat
  BY DEF TypeInv
<1>2. ASSUME Insert PROVE RepeatsFollow'
  <2>1. list' = list /\ reader' = reader /\ changes' = [changes EXCEPT !.inserted = @ + 1]
    BY <1>2, ChangeIs, InsertIs DEF Insert
  <2>2. Repeatable' = Repeatable + 1
    BY <1>1, <2>1 DEF Repeatable, Liked
  <2> QED BY <1>1, <1>2, <2>1, <2>2, InsertMoves, RepeatsMoved
<1>3. ASSUME NEW o \in Organizations, Admit(o) PROVE RepeatsFollow'
  <2> DEFINE revealed == {i \in DOMAIN rows : /\ rows[i].visibility = "invite_only"
                                              /\ rows[i].organization_id = o}
             d == Cardinality(revealed)
  <2>1. list' = list /\ reader' = reader
    BY <1>3, ChangeIs DEF Admit
  <2>2. changes' = [changes EXCEPT !.revealed = @ + d]
    BY <1>3, AdmitIs
  <2>3. d \in Nat /\ Cardinality(MovedDown(reader.offset)) <= d
    BY <1>1, <1>3, AdmitMoves
  <2> HIDE DEF d
  <2>4. Repeatable' = Repeatable + d
    BY <1>1, <2>1, <2>2, <2>3 DEF Repeatable, Liked
  <2> QED BY <2>1, <2>3, <2>4, RepeatsMoved
<1>4. ASSUME NEW i \in DOMAIN rows, ToggleLike(i) PROVE RepeatsFollow'
  <2>1. list = "top" /\ list' = list /\ reader' = reader
        /\ changes' = [changes EXCEPT !.likes = @ + 1]
    BY <1>4, ChangeIs, ToggleLikeIs DEF ToggleLike
  <2>2. Repeatable' = Repeatable + 1
    BY <1>1, <2>1 DEF Repeatable, Liked
  <2> QED BY <1>1, <1>4, <2>1, <2>2, ToggleLikeMoves, RepeatsMoved
<1>5. ASSUME NEW i \in DOMAIN rows, SetHidden(i, TRUE) PROVE RepeatsFollow'
  <2>1. list' = list /\ reader' = reader
    BY <1>5, ChangeIs DEF SetHidden
  <2>2. changes' = [changes EXCEPT !.hidden = @ + 1]
    <3>1. TRUE \in BOOLEAN
      OBVIOUS
    <3> QED BY <1>5, <3>1, SetHiddenIs
  <2>3. Repeatable' = Repeatable + 0
    BY <1>1, <2>1, <2>2 DEF Repeatable, Liked
  <2>4. Cardinality(MovedDown(reader.offset)) <= 0
    <3>1. MovedDown(reader.offset) = {}
      BY <1>1, <1>5, HideMoves
    <3>2. Cardinality(MovedDown(reader.offset)) = 0
      BY <3>1, FS_EmptySet
    <3> QED BY <3>2
  <2>5. 0 \in Nat
    OBVIOUS
  <2> QED BY <2>1, <2>3, <2>4, <2>5, RepeatsMoved
<1>6. ASSUME NEW i \in DOMAIN rows, SetHidden(i, FALSE) PROVE RepeatsFollow'
  <2>1. list' = list /\ reader' = reader
    BY <1>6, ChangeIs DEF SetHidden
  <2>2. changes' = [changes EXCEPT !.restored = @ + 1]
    <3>1. FALSE \in BOOLEAN
      OBVIOUS
    <3> QED BY <1>6, <3>1, SetHiddenIs
  <2>3. Repeatable' = Repeatable + 1
    BY <1>1, <2>1, <2>2 DEF Repeatable, Liked
  <2> QED BY <1>1, <1>6, <2>1, <2>3, RestoreMoves, RepeatsMoved
<1>7. CASE UNCHANGED vars
  <2>1. Listing' = Listing /\ Order' = Order
    BY <1>7, ListingKept DEF vars
  <2> QED BY <1>7, <2>1 DEF RepeatsFollow, vars, Seen, Repeatable, Liked
<1>8. CASE ReadPage
  BY <1>8, RepeatsRead
<1>9. ASSUME NEW i \in DOMAIN rows, NEW hidden \in BOOLEAN, SetHidden(i, hidden)
      PROVE  RepeatsFollow'
  <2>1. CASE hidden = TRUE
    BY <1>5, <1>9, <2>1
  <2>2. CASE hidden = FALSE
    BY <1>6, <1>9, <2>2
  <2> QED BY <2>1, <2>2
<1> QED BY <1>2, <1>3, <1>4, <1>7, <1>8, <1>9 DEF Next

LEMMA RepeatsInit == Init => RepeatsFollow
<1> SUFFICES ASSUME Init PROVE RepeatsFollow
  OBVIOUS
<1>1. reader.shown = <<>> /\ changes = NoChange
  BY DEF Init
<1>2. Seen = {}
  BY <1>1 DEF Seen, ToSet
<1>3. Seen \cap Rest(Listing, Order, reader.offset) = {}
  BY <1>2
<1>4. Cardinality(Seen) = 0 /\ Cardinality(Seen \cap Rest(Listing, Order, reader.offset)) = 0
  BY <1>2, <1>3, FS_EmptySet
<1>5. Len(reader.shown) = 0 /\ Repeatable = 0
  BY <1>1 DEF Repeatable, Liked, NoChange
<1> QED BY <1>4, <1>5 DEF RepeatsFollow

\* Paging by limit and offset shows a row again at most once for each row that was
\* inserted, restored or revealed by a membership and, in the order of likes, each
\* like set or taken back while the client read, whatever the size of a page.
THEOREM RepeatsAreBounded == Spec => []RepeatsBounded
<1>1. TypeInv /\ StillThere /\ RepeatsFollow => RepeatsBounded
  <2> SUFFICES ASSUME TypeInv, StillThere, RepeatsFollow
               PROVE  Len(reader.shown) - Cardinality(Seen) <= Repeatable
    BY DEF RepeatsBounded, Repeatable, Liked, Seen
  <2>1. IsFiniteSet(Seen) /\ Cardinality(Seen) \in Nat
    BY SeenFinite
  <2>2. Cardinality(Seen \cap Rest(Listing, Order, reader.offset)) \in Nat
    BY <2>1, FS_Intersection, FS_CardinalityType
  <2>3. Len(reader.shown) \in Nat /\ Repeatable \in Nat
    BY CountsAre
  <2> QED BY <2>1, <2>2, <2>3 DEF RepeatsFollow
<1> QED BY <1>1, RepeatsInit, RepeatsNext, Types, AllStillThere, PTL DEF Spec

----------------------------------------------------------------------------
(* Rows missed *)

\* The lasting rows that are among those read past, but were not shown, are no more
\* than the changes that can move a row forward; a reader is done at the end only.
MissesFollow ==
  /\ Cardinality((lasting \cap First(Listing, Order, reader.offset)) \ Seen) <= Missable
  /\ reader.step = "done" => First(Listing, Order, reader.offset) = Listing

\* A change that moves d lasting rows forward at most, and counts for as many misses.
LEMMA MissesMoved ==
  ASSUME TypeInv, StillThere, MissesFollow, reader' = reader,
         reader.step = "reading", lasting' \subseteq lasting,
         NEW d \in Nat, IsFiniteSet(lasting' \cap MovedUp(reader.offset)),
         Cardinality(lasting' \cap MovedUp(reader.offset)) <= d,
         Missable' = Missable + d
  PROVE  MissesFollow'
<1> DEFINE a == (lasting \cap First(Listing, Order, reader.offset)) \ Seen
           b == (lasting' \cap First(Listing', Order', reader.offset)) \ Seen
           m == lasting' \cap MovedUp(reader.offset)
<1>1. b \subseteq a \cup m
  BY DEF MovedUp
<1>2. IsFiniteSet(a)
  <2>1. a \in SUBSET (DOMAIN rows)
    BY DEF StillThere, Showable
  <2>2. IsFiniteSet(DOMAIN rows)
    BY ListingOrdered DEF ListingInOrder
  <2> HIDE DEF a
  <2> QED BY <2>1, <2>2, FS_Subset
<1>3. Cardinality(a) \in Nat /\ Cardinality(b) \in Nat /\ Cardinality(m) \in Nat
      /\ Cardinality(b) <= Cardinality(a) + Cardinality(m)
  <2>1. IsFiniteSet(m)
    OBVIOUS
  <2> HIDE DEF a, b, m
  <2> QED BY <1>1, <1>2, <2>1, UnionBound
<1>4. Cardinality(a) <= Missable /\ Cardinality(m) <= d /\ Missable \in Nat
  BY CountsAre DEF MissesFollow
<1>5. Cardinality(b) <= Missable'
  <2> HIDE DEF a, b, m
  <2> QED BY <1>3, <1>4
<1>6. Seen' = Seen /\ reader'.step # "done"
  BY DEF Seen
<1> QED BY <1>5, <1>6 DEF MissesFollow

\* A page shows all the rows it passes.
LEMMA MissesRead ==
  ASSUME TypeInv, StillThere, MissesFollow, ReadPage
  PROVE  MissesFollow'
<1> DEFINE n == reader.offset
           old == First(Listing, Order, n)
           new == First(Listing, Order, n + Limit)
           a == (lasting \cap old) \ Seen
<1>1. Listing' = Listing /\ Order' = Order /\ Missable' = Missable
      /\ lasting' = IF n = 0 THEN Showable ELSE lasting
  BY ReadPageIs, ReadPageShows DEF Missable, Liked
<1>2. n \in Nat /\ Limit \in Nat /\ Missable \in Nat
  BY CountsAre, ListingsAssumption
<1>3. Orders(Order, Listing) /\ Listing \in SUBSET (DOMAIN rows) /\ IsFiniteSet(DOMAIN rows)
  BY ListingOrdered DEF ListingInOrder
<1>4. n = 0 => old = {}
  <2>1. \A i \in Listing : Place(Listing, Order, i) \in 1 .. Cardinality(Listing)
        /\ Cardinality(Listing) \in Nat
    BY <1>3, Places
  <2> QED BY <2>1 DEF First
<1>5. IsFiniteSet(a) /\ Cardinality(a) \in Nat /\ Cardinality(a) <= Missable
  <2>1. a \in SUBSET (DOMAIN rows) /\ Cardinality(a) <= Missable
    BY <1>3 DEF First, MissesFollow
  <2> HIDE DEF a
  <2> QED BY <1>3, <2>1, FS_Subset, FS_CardinalityType
<1>6. CASE Seen' = Seen /\ reader'.step = "failed" /\ reader'.offset = n
  <2> DEFINE b == (lasting' \cap old) \ Seen
  <2>1. b \in SUBSET a
    BY <1>1, <1>4
  <2>2. Cardinality(b) \in Nat /\ Cardinality(b) <= Cardinality(a)
    <3> HIDE DEF a, b
    <3> QED BY <1>5, <2>1, FS_Subset, FS_CardinalityType
  <2>3. Cardinality(b) <= Missable
    <3> HIDE DEF a, b
    <3> QED BY <1>2, <1>5, <2>2
  <2> QED BY <1>1, <1>6, <2>3 DEF MissesFollow
<1>7. CASE /\ Seen' = Seen \cup (new \ old)
           /\ reader'.offset = n + Limit
           /\ reader'.step = "done" => new = Listing
  <2> DEFINE b == (lasting' \cap new) \ (Seen \cup (new \ old))
  <2>1. b \in SUBSET a
    BY <1>1, <1>4
  <2>2. Cardinality(b) \in Nat /\ Cardinality(b) <= Cardinality(a)
    <3> HIDE DEF a, b
    <3> QED BY <1>5, <2>1, FS_Subset, FS_CardinalityType
  <2>3. Cardinality(b) <= Missable
    <3> HIDE DEF a, b
    <3> QED BY <1>2, <1>5, <2>2
  <2> QED BY <1>1, <1>7, <2>3 DEF MissesFollow
<1>8. \/ Seen' = Seen /\ reader'.step = "failed" /\ reader'.offset = n
      \/ /\ Seen' = Seen \cup (new \ old)
         /\ reader'.offset = n + Limit
         /\ reader'.step = "done" => new = Listing
  BY ReadPageShows
<1> QED BY <1>6, <1>7, <1>8

LEMMA MissesNext ==
  TypeInv /\ TypeInv' /\ StillThere /\ MissesFollow /\ [Next]_vars => MissesFollow'
<1> SUFFICES ASSUME TypeInv, TypeInv', StillThere, MissesFollow, [Next]_vars
             PROVE  MissesFollow'
  OBVIOUS
<1> DEFINE n == reader.offset
           m == lasting' \cap MovedUp(n)
<1>1. changes \in [inserted : Nat, revealed : Nat, hidden : Nat, restored : Nat, likes : Nat]
      /\ n \in Nat
  BY DEF TypeInv
<1>2. ASSUME NEW kind, NEW k, Change(kind, k), lasting' \subseteq lasting,
             MovedUp(n) \cap Showable = {}, Missable' = Missable
      PROVE  MissesFollow'
  <2>1. m = {}
    BY <1>2 DEF StillThere
  <2>2. IsFiniteSet(m) /\ Cardinality(m) = 0
    BY <2>1, FS_EmptySet
  <2>3. reader.step = "reading" /\ reader' = reader
    BY <1>2, ChangeIs
  <2>4. Missable' = Missable + 0 /\ 0 \in Nat /\ Cardinality(m) <= 0
    BY <1>2, <2>2, CountsAre
  <2> QED BY <1>2, <2>2, <2>3, <2>4, MissesMoved
<1>3. ASSUME NEW kind, NEW k, Change(kind, k), lasting' \subseteq lasting,
             IsFiniteSet(MovedUp(n)), Cardinality(MovedUp(n)) <= 1, Missable' = Missable + 1
      PROVE  MissesFollow'
  <2>1. IsFiniteSet(m) /\ Cardinality(m) <= Cardinality(MovedUp(n))
    <3>1. m \in SUBSET MovedUp(n)
      OBVIOUS
    <3> HIDE DEF m
    <3> QED BY <1>3, <3>1, FS_Subset
  <2>2. Cardinality(m) \in Nat /\ Cardinality(MovedUp(n)) \in Nat
    <3> HIDE DEF m
    <3> QED BY <1>3, <2>1, FS_CardinalityType
  <2>3. Cardinality(m) <= 1 /\ 1 \in Nat
    <3> HIDE DEF m
    <3> QED BY <1>3, <2>1, <2>2
  <2>4. reader.step = "reading" /\ reader' = reader
    BY <1>3, ChangeIs
  <2> QED BY <1>3, <2>1, <2>3, <2>4, MissesMoved
<1>4. ASSUME Insert PROVE MissesFollow'
  <2>1. /\ list' = list /\ lasting' = lasting /\ Change("inserted", 1)
        /\ changes' = [changes EXCEPT !.inserted = @ + 1]
    BY <1>4, ChangeIs, InsertIs DEF Insert
  <2>2. Missable' = Missable
    BY <1>1, <2>1 DEF Missable, Liked
  <2>3. MovedUp(n) \cap Showable = {}
    BY <1>1, <1>4, InsertMoves
  <2> QED BY <1>2, <2>1, <2>2, <2>3
<1>5. ASSUME NEW o \in Organizations, Admit(o) PROVE MissesFollow'
  <2>1. /\ list' = list /\ lasting' = lasting /\ \E k : Change("revealed", k)
        /\ \E k : changes' = [changes EXCEPT !.revealed = k]
    BY <1>5, ChangeIs, AdmitIs DEF Admit
  <2>2. Missable' = Missable
    BY <1>1, <2>1 DEF Missable, Liked
  <2>3. MovedUp(n) \cap Showable = {}
    BY <1>1, <1>5, AdmitMoves
  <2> QED BY <1>2, <2>1, <2>2, <2>3
<1>6. ASSUME NEW i \in DOMAIN rows, ToggleLike(i) PROVE MissesFollow'
  <2>1. /\ list = "top" /\ list' = list /\ lasting' = lasting /\ Change("likes", 1)
        /\ changes' = [changes EXCEPT !.likes = @ + 1]
    BY <1>6, ChangeIs, ToggleLikeIs DEF ToggleLike
  <2>2. Missable' = Missable + 1
    BY <1>1, <2>1 DEF Missable, Liked
  <2>3. IsFiniteSet(MovedUp(n)) /\ Cardinality(MovedUp(n)) <= 1
    BY <1>1, <1>6, ToggleLikeMoves
  <2> QED BY <1>3, <2>1, <2>2, <2>3
<1>7. ASSUME NEW i \in DOMAIN rows, SetHidden(i, TRUE) PROVE MissesFollow'
  <2>1. list' = list /\ Change("hidden", 1)
    BY <1>7, ChangeIs DEF SetHidden
  <2>2. changes' = [changes EXCEPT !.hidden = @ + 1] /\ lasting' \subseteq lasting
    <3>1. TRUE \in BOOLEAN
      OBVIOUS
    <3> QED BY <1>7, <3>1, SetHiddenIs
  <2>3. Missable' = Missable + 1
    BY <1>1, <2>1, <2>2 DEF Missable, Liked
  <2>4. IsFiniteSet(MovedUp(n)) /\ Cardinality(MovedUp(n)) <= 1
    BY <1>1, <1>7, HideMoves
  <2> QED BY <1>3, <2>1, <2>2, <2>3, <2>4
<1>8. ASSUME NEW i \in DOMAIN rows, SetHidden(i, FALSE) PROVE MissesFollow'
  <2>1. list' = list /\ Change("restored", 1)
    BY <1>8, ChangeIs DEF SetHidden
  <2>2. changes' = [changes EXCEPT !.restored = @ + 1] /\ lasting' \subseteq lasting
    <3>1. FALSE \in BOOLEAN
      OBVIOUS
    <3> QED BY <1>8, <3>1, SetHiddenIs
  <2>3. Missable' = Missable
    BY <1>1, <2>1, <2>2 DEF Missable, Liked
  <2>4. MovedUp(n) \cap Showable = {}
    BY <1>1, <1>8, RestoreMoves
  <2> QED BY <1>2, <2>1, <2>2, <2>3, <2>4
<1>9. CASE UNCHANGED vars
  <2>1. Listing' = Listing /\ Order' = Order
    BY <1>9, ListingKept DEF vars
  <2> QED BY <1>9, <2>1 DEF MissesFollow, vars, Seen, Missable, Liked
<1>10. ASSUME NEW i \in DOMAIN rows, NEW hidden \in BOOLEAN, SetHidden(i, hidden)
       PROVE  MissesFollow'
  <2>1. CASE hidden = TRUE
    BY <1>7, <1>10, <2>1
  <2>2. CASE hidden = FALSE
    BY <1>8, <1>10, <2>2
  <2> QED BY <2>1, <2>2
<1> QED BY <1>4, <1>5, <1>6, <1>9, <1>10, MissesRead DEF Next

LEMMA MissesInit == Init => MissesFollow
<1> SUFFICES ASSUME Init PROVE MissesFollow
  OBVIOUS
<1>1. lasting = {} /\ changes = NoChange /\ reader.step = "reading"
  BY DEF Init
<1>2. (lasting \cap First(Listing, Order, reader.offset)) \ Seen = {}
  BY <1>1
<1>3. Cardinality((lasting \cap First(Listing, Order, reader.offset)) \ Seen) = 0
  BY <1>2, FS_EmptySet
<1>4. Missable = 0
  BY <1>1 DEF Missable, Liked, NoChange
<1> QED BY <1>1, <1>3, <1>4 DEF MissesFollow

\* A client that reads on to a short page misses, of the rows within the fetch cap
\* that were listed all the time, one at most for each row hidden and, in the order
\* of likes, each like set or taken back meanwhile; rows inserted, restored or
\* revealed, and rows pushed out of the cap, make it miss none.
THEOREM SkipsAreBounded == Spec => []SkipsBounded
<1>1. TypeInv /\ StillThere /\ MissesFollow => SkipsBounded
  <2> SUFFICES ASSUME TypeInv, StillThere, MissesFollow, reader.step = "done"
               PROVE  Cardinality((lasting \cap Reach) \ Seen) <= Missable
    BY DEF SkipsBounded, Missable, Liked, Seen
  <2>1. lasting \cap Reach = lasting \cap First(Listing, Order, reader.offset)
    BY DEF MissesFollow, StillThere, Listing
  <2> QED BY <2>1 DEF MissesFollow
<1> QED BY <1>1, MissesInit, MissesNext, Types, AllStillThere, PTL DEF Spec

=============================================================================
