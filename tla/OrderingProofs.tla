--------------------------- MODULE OrderingProofs ---------------------------
(***************************************************************************)
(* What retain and sort_by of Ordering leave of any finite set of places   *)
(* or members: all of them, each once, in order.                           *)
(***************************************************************************)
EXTENDS Ordering, FiniteSetTheorems, WellFoundedInduction, TLAPS

-----------------------------------------------------------------------------
(* Places *)

Places(I) == I \subseteq Nat /\ IsFiniteSet(I)
Upto(I, i) == {k \in I : k <= i}

\* Some place is the first.
LEMMA HasFirst ==
    ASSUME NEW S, S \subseteq Nat, S # {}
    PROVE  \E m \in S : \A k \in S : m <= k
<1>1. PICK m \in S : \A k \in S : ~(<<k, m>> \in OpToRel(<, Nat))
    BY NatLessThanWellFounded, WFMin, Zenon
<1>2. \A k \in S : ~(k < m)
    BY <1>1 DEF OpToRel
<1>3. \A k \in S : k \in Nat /\ m \in Nat
    OBVIOUS
<1> QED BY <1>2, <1>3

\* How many places there are up to one.
LEMMA UptoIs ==
    ASSUME NEW I, Places(I), NEW i \in Int
    PROVE  /\ IsFiniteSet(Upto(I, i)) /\ Cardinality(Upto(I, i)) \in Nat /\ Cardinality(I) \in Nat
           /\ Cardinality(Upto(I, i)) <= Cardinality(I)
           /\ i \in I => Cardinality(Upto(I, i)) >= 1
<1> DEFINE A == Upto(I, i)
<1>1. A \in SUBSET I /\ (i \in I => i \in A) /\ IsFiniteSet(I)
    BY DEF Upto, Places
<1> HIDE DEF A
<1>2. /\ IsFiniteSet(A) /\ Cardinality(A) \in Nat
      /\ Cardinality(I) \in Nat /\ Cardinality(A) <= Cardinality(I)
    BY <1>1, FS_Subset, FS_CardinalityType
<1>3. i \in I => Cardinality(A) # 0
    BY <1>1, <1>2, FS_EmptySet
<1>4. i \in I => Cardinality(A) >= 1
    BY <1>2, <1>3
<1> QED BY <1>2, <1>4 DEF A

\* Each further place counts one more.
LEMMA UptoGrows ==
    ASSUME NEW I, Places(I), NEW i \in I, NEW j \in I, i < j
    PROVE  Cardinality(Upto(I, i)) < Cardinality(Upto(I, j))
<1> DEFINE A == Upto(I, i)
           B == Upto(I, j)
<1>0. i \in Nat /\ j \in Nat /\ \A k \in I : k \in Nat
    BY DEF Places
<1>1. A \in SUBSET B /\ j \in B /\ j \notin A
    <2>1. \A k \in Nat : k <= i => k <= j
        BY <1>0
    <2>2. j <= j /\ ~(j <= i)
        BY <1>0
    <2> QED BY <1>0, <2>1, <2>2 DEF Upto
<1>2. IsFiniteSet(B) /\ Cardinality(A) \in Nat /\ Cardinality(B) \in Nat
    BY <1>0, UptoIs
<1> HIDE DEF A, B
<1>3. Cardinality(A) <= Cardinality(B) /\ (Cardinality(B) = Cardinality(A) => B = A)
    BY <1>1, <1>2, FS_Subset
<1>4. Cardinality(A) < Cardinality(B)
    BY <1>1, <1>2, <1>3
<1> QED BY <1>4 DEF A, B

\* Some place is the last.
LEMMA HasLast ==
    ASSUME NEW I, Places(I), I # {}
    PROVE  \E m \in I : \A k \in I : k <= m
<1> DEFINE Left(i) == Cardinality(I) - Cardinality(Upto(I, i))
           R == {Left(i) : i \in I}
<1>0. \A k \in I : k \in Nat
    BY DEF Places
<1>1. \A i \in I : Left(i) \in Nat
    BY <1>0, UptoIs
<1>2. R \subseteq Nat /\ R # {}
    BY <1>1
<1>3. PICK r \in R : \A q \in R : r <= q
    <2> HIDE DEF R
    <2> QED BY <1>2, HasFirst
<1>4. PICK m \in I : r = Left(m)
    OBVIOUS
<1>5. ASSUME NEW k \in I, k > m PROVE FALSE
    <2>1. Cardinality(Upto(I, m)) < Cardinality(Upto(I, k))
        BY <1>0, <1>5, UptoGrows
    <2>2. r <= Left(k)
        BY <1>3
    <2>3. /\ Cardinality(I) \in Nat
          /\ Cardinality(Upto(I, m)) \in Nat /\ Cardinality(Upto(I, k)) \in Nat
        BY <1>0, UptoIs
    <2> QED BY <1>4, <2>1, <2>2, <2>3
<1> QED BY <1>0, <1>5

\* There is an n-th place.
LEMMA NthIs ==
    ASSUME NEW I, Places(I), NEW n \in 1..Cardinality(I)
    PROVE  Nth(I, n) \in I /\ Cardinality(Upto(I, Nth(I, n))) = n
<1> DEFINE J == {i \in I : Cardinality(Upto(I, i)) >= n}
<1>0. IsFiniteSet(I) /\ Cardinality(I) \in Nat /\ \A k \in I : k \in Nat
    BY FS_CardinalityType DEF Places
<1>1. n \in Nat /\ n >= 1 /\ n <= Cardinality(I)
    BY <1>0
<1>2. I # {}
    BY <1>0, <1>1, FS_EmptySet
<1>3. PICK m \in I : \A k \in I : k <= m
    BY <1>2, HasLast
<1>4. Upto(I, m) = I
    BY <1>3 DEF Upto
<1>5. J \subseteq Nat /\ m \in J
    BY <1>0, <1>1, <1>4
<1>6. PICK i \in J : \A k \in J : i <= k
    <2> HIDE DEF J
    <2> QED BY <1>5, HasFirst
<1>7. i \in I /\ i \in Nat /\ Cardinality(Upto(I, i)) >= n
    BY <1>0
<1>8. ASSUME Cardinality(Upto(I, i)) > n PROVE FALSE
    <2> DEFINE A == Upto(I, i)
               B == {k \in I : k < i}
    <2>1. IsFiniteSet(A) /\ Cardinality(A) \in Nat
        BY <1>7, UptoIs
    <2>2. i \in A /\ A \ {i} = B
        <3>1. \A k \in Nat : k < i <=> k <= i /\ k # i
            BY <1>7
        <3>2. i <= i
            BY <1>7
        <3> QED BY <1>0, <1>7, <3>1, <3>2 DEF Upto
    <2>3. IsFiniteSet(B) /\ Cardinality(B) = Cardinality(A) - 1
        <3> HIDE DEF A, B
        <3>1. IsFiniteSet(A \ {i}) /\ Cardinality(A \ {i}) = Cardinality(A) - 1
            BY <2>1, <2>2, FS_RemoveElement
        <3> QED BY <2>2, <3>1
    <2>4. Cardinality(B) >= n /\ Cardinality(B) # 0
        BY <1>1, <1>8, <2>1, <2>3
    <2>5. Places(B) /\ B # {}
        <3>1. B \subseteq Nat
            BY <1>0
        <3> HIDE DEF B
        <3> QED BY <2>3, <2>4, <3>1, FS_EmptySet DEF Places
    <2>6. PICK j \in B : \A k \in B : k <= j
        <3> HIDE DEF B
        <3> QED BY <2>5, HasLast
    <2>7. j \in I /\ j \in Nat /\ j < i
        BY <1>0
    <2>8. Upto(I, j) = B
        <3>1. \A k \in Nat : k <= j => k < i
            BY <1>7, <2>7
        <3> QED BY <1>0, <2>6, <3>1 DEF Upto
    <2>9. j \in J
        BY <2>4, <2>7, <2>8
    <2> QED BY <1>6, <1>7, <2>7, <2>9
<1>9. Cardinality(Upto(I, i)) = n
    BY <1>1, <1>7, <1>8, UptoIs
<1>10. \E k \in I : Cardinality({l \in I : l <= k}) = n
    BY <1>7, <1>9 DEF Upto
<1> QED BY <1>10 DEF Nth, Upto

\* The places in their order are all of them, each once.
LEMMA NthInOrder ==
    ASSUME NEW I, Places(I)
    PROVE  /\ \A m, n \in 1..Cardinality(I) : m < n => Nth(I, m) < Nth(I, n)
           /\ \A i \in I : \E n \in 1..Cardinality(I) : i = Nth(I, n)
<1>0. \A k \in I : k \in Nat
    BY DEF Places
<1>1. ASSUME NEW m \in 1..Cardinality(I), NEW n \in 1..Cardinality(I), m < n
      PROVE  Nth(I, m) < Nth(I, n)
    <2>1. /\ Nth(I, m) \in I /\ Cardinality(Upto(I, Nth(I, m))) = m
          /\ Nth(I, n) \in I /\ Cardinality(Upto(I, Nth(I, n))) = n
        BY NthIs
    <2> DEFINE a == Nth(I, m)
               b == Nth(I, n)
    <2>2. m \in Int /\ n \in Int /\ a \in Nat /\ b \in Nat /\ a # b
        BY <1>0, <1>1, <2>1
    <2> HIDE DEF a, b
    <2>3. a \in I /\ b \in I /\ Cardinality(Upto(I, a)) = m /\ Cardinality(Upto(I, b)) = n
        BY <2>1 DEF a, b
    <2>4. ~(b < a)
        BY <1>1, <2>2, <2>3, UptoGrows
    <2>5. a < b
        BY <2>2, <2>4
    <2> QED BY <2>5 DEF a, b
<1>2. ASSUME NEW i \in I PROVE \E n \in 1..Cardinality(I) : i = Nth(I, n)
    <2> DEFINE n == Cardinality(Upto(I, i))
               a == Nth(I, n)
    <2>1. n \in 1..Cardinality(I)
        BY <1>0, UptoIs
    <2>2. a \in I /\ Cardinality(Upto(I, a)) = n
        BY <2>1, NthIs
    <2>3. a \in Nat /\ i \in Nat /\ n \in Int
        BY <1>0, <2>1, <2>2
    <2> HIDE DEF a
    <2>4. ~(a < i) /\ ~(i < a)
        BY <2>2, <2>3, UptoGrows
    <2>5. a = i
        BY <2>3, <2>4
    <2> QED BY <2>1, <2>5 DEF a
<1> QED BY <1>1, <1>2

-----------------------------------------------------------------------------
(* Orders *)

\* B orders the members of the finite S: of two one comes before the other.
Orders(B, S) ==
    /\ IsFiniteSet(S)
    /\ \A x, y \in S : x # y => <<x, y>> \in B \/ <<y, x>> \in B
    /\ \A x \in S : <<x, x>> \notin B
    /\ \A x, y, z \in S : <<x, y>> \in B /\ <<y, z>> \in B => <<x, z>> \in B

Before(B, S, x) == {y \in S : <<y, x>> \in B}

\* What comes later has more before it, and never all of S.
LEMMA BeforeGrows ==
    ASSUME NEW S, NEW B, Orders(B, S), NEW x \in S
    PROVE  /\ Cardinality(S) \in Nat /\ Cardinality(Before(B, S, x)) \in 0..(Cardinality(S) - 1)
           /\ \A y \in S : <<x, y>> \in B =>
                Cardinality(Before(B, S, x)) < Cardinality(Before(B, S, y))
<1>1. /\ IsFiniteSet(S) /\ Cardinality(S) \in Nat
      /\ \A y \in S : IsFiniteSet(Before(B, S, y)) /\ Cardinality(Before(B, S, y)) \in Nat
    <2>1. IsFiniteSet(S)
        BY DEF Orders
    <2>2. ASSUME NEW y \in S PROVE IsFiniteSet(Before(B, S, y))
        <3> DEFINE A == Before(B, S, y)
        <3>1. A \in SUBSET S
            BY DEF Before
        <3> HIDE DEF A
        <3> QED BY <2>1, <3>1, FS_Subset DEF A
    <2> QED BY <2>1, <2>2, FS_CardinalityType
<1>2. ASSUME NEW T, IsFiniteSet(T), Before(B, S, x) \subseteq T, x \in T
      PROVE  Cardinality(Before(B, S, x)) < Cardinality(T)
    <2> DEFINE A == Before(B, S, x)
    <2>1. A \in SUBSET T /\ x \notin A
        BY <1>2 DEF Before, Orders
    <2>2. Cardinality(A) \in Nat /\ Cardinality(T) \in Nat
        BY <1>1, <1>2, FS_CardinalityType
    <2> HIDE DEF A
    <2>3. Cardinality(A) <= Cardinality(T) /\ (Cardinality(T) = Cardinality(A) => T = A)
        BY <1>2, <2>1, FS_Subset
    <2>4. Cardinality(A) < Cardinality(T)
        BY <1>2, <2>1, <2>2, <2>3
    <2> QED BY <2>4 DEF A
<1>3. Cardinality(Before(B, S, x)) < Cardinality(S)
    <2>1. Before(B, S, x) \subseteq S
        BY DEF Before
    <2> QED BY <1>1, <1>2, <2>1
<1>4. ASSUME NEW y \in S, <<x, y>> \in B
      PROVE  Cardinality(Before(B, S, x)) < Cardinality(Before(B, S, y))
    <2>1. Before(B, S, x) \subseteq Before(B, S, y) /\ x \in Before(B, S, y)
        BY <1>4 DEF Before, Orders
    <2> QED BY <1>1, <1>2, <2>1
<1> QED BY <1>1, <1>3, <1>4

\* Sorting gives all of S, each once, each after what comes before it.
LEMMA SortGives ==
    ASSUME NEW S, NEW B, Orders(B, S)
    PROVE  /\ SortBy(S, B) \in [1..Cardinality(S) -> S] /\ Cardinality(S) \in Nat
           /\ \A x \in S : \E n \in 1..Cardinality(S) : SortBy(S, B)[n] = x
           /\ \A m, n \in 1..Cardinality(S) : m < n => <<SortBy(S, B)[m], SortBy(S, B)[n]>> \in B
           /\ \A m, n \in 1..Cardinality(S) : SortBy(S, B)[m] = SortBy(S, B)[n] => m = n
<1> DEFINE N == Cardinality(S)
           T == 1..N
           rank == [x \in S |-> Cardinality(Before(B, S, x)) + 1]
           r == SortBy(S, B)
<1>0. IsFiniteSet(S) /\ N \in Nat
    BY FS_CardinalityType DEF Orders
<1>1. \A x \in S : rank[x] = Cardinality(Before(B, S, x)) + 1 /\ rank[x] \in T
    <2> TAKE x \in S
    <2>1. Cardinality(Before(B, S, x)) \in 0..(N - 1)
        BY BeforeGrows
    <2> QED BY <1>0, <2>1
<1>2. \A x, y \in S : <<x, y>> \in B => rank[x] < rank[y]
    <2> SUFFICES ASSUME NEW x \in S, NEW y \in S, <<x, y>> \in B PROVE rank[x] < rank[y]
        OBVIOUS
    <2>1. Cardinality(Before(B, S, x)) < Cardinality(Before(B, S, y))
        BY BeforeGrows
    <2>2. Cardinality(Before(B, S, x)) \in Int /\ Cardinality(Before(B, S, y)) \in Int
        BY <1>0, BeforeGrows
    <2> QED BY <2>1, <2>2
<1>3. IsFiniteSet(T) /\ Cardinality(T) = N
    BY <1>0, FS_Interval
<1>4. rank \in [S -> T]
    BY <1>1
<1> HIDE DEF rank
<1>5. \A x, y \in S : rank[x] = rank[y] => x = y
    <2> SUFFICES ASSUME NEW x \in S, NEW y \in S, rank[x] = rank[y] PROVE x = y
        OBVIOUS
    <2>1. rank[x] \in Int
        BY <1>0, <1>1
    <2>2. ~(<<x, y>> \in B) /\ ~(<<y, x>> \in B)
        BY <1>2, <2>1
    <2> QED BY <2>2 DEF Orders
<1> HIDE DEF T, N
<1>6. \A n \in T : \E x \in S : rank[x] = n
    <2>1. rank \in Injection(S, T)
        BY <1>4, <1>5 DEF Injection, IsInjective
    <2>2. rank \in Surjection(S, T)
        BY <1>0, <1>3, <2>1, FS_Injection DEF N
    <2> QED BY <2>2 DEF Surjection
<1>7. ASSUME NEW n \in T PROVE r[n] \in S /\ rank[r[n]] = n
    <2>1. n \in Int
        BY <1>0 DEF T
    <2>2. \A x \in S : Cardinality({y \in S : <<y, x>> \in B}) = n - 1 <=> rank[x] = n
        <3> TAKE x \in S
        <3>1. Cardinality(Before(B, S, x)) \in Int
            BY <1>0, BeforeGrows
        <3> QED BY <1>1, <2>1, <3>1 DEF Before
    <2>3. r[n] = CHOOSE x \in S : Cardinality({y \in S : <<y, x>> \in B}) = n - 1
        BY DEF SortBy, T, N
    <2> HIDE DEF r
    <2> QED BY <1>6, <2>2, <2>3
<1>8. r \in [T -> S]
    <2> DEFINE at(n) == CHOOSE x \in S : Cardinality({y \in S : <<y, x>> \in B}) = n - 1
    <2>1. r = [n \in T |-> at(n)]
        BY DEF SortBy, T, N
    <2>2. ASSUME NEW n \in T PROVE at(n) \in S
        <3>1. r[n] = at(n)
            BY <2>1
        <3> HIDE DEF at, r
        <3> QED BY <1>7, <3>1
    <2> HIDE DEF at, r
    <2> QED BY <2>1, <2>2
<1> HIDE DEF r
<1>9. \A x \in S : \E n \in T : r[n] = x
    <2> TAKE x \in S
    <2>1. rank[x] \in T /\ r[rank[x]] = x
        BY <1>1, <1>5, <1>7
    <2> QED BY <2>1
<1>10. \A m, n \in T : r[m] = r[n] => m = n
    BY <1>7
<1>11. \A m, n \in T : m < n => <<r[m], r[n]>> \in B
    <2> SUFFICES ASSUME NEW m \in T, NEW n \in T, m < n PROVE <<r[m], r[n]>> \in B
        OBVIOUS
    <2>1. r[m] \in S /\ r[n] \in S /\ rank[r[m]] = m /\ rank[r[n]] = n /\ m \in Int /\ n \in Int
        BY <1>0, <1>7 DEF T
    <2>2. r[m] # r[n]
        BY <2>1
    <2>3. ~(<<r[n], r[m]>> \in B)
        BY <1>2, <2>1
    <2> QED BY <2>1, <2>2, <2>3 DEF Orders
<1> QED BY <1>0, <1>8, <1>9, <1>10, <1>11 DEF T, N, r
=============================================================================
