--------------------------- MODULE TimelineProofs ---------------------------
(***************************************************************************)
(* The Vec of a timeline, with its indices and clamps, keeps what the      *)
(* session needs of a history (HistorySpec), for any ring, window, number  *)
(* of frames and clock.                                                    *)
(***************************************************************************)
EXTENDS Timeline, OrderingProofs

-----------------------------------------------------------------------------
(* A Vec in time order *)

\* HistorySpec counts as Timeline does.
LEMMA SameCount == \A S : Promised!Cardinality(S) = Cardinality(S)
BY DEF Promised!Cardinality, Cardinality

Sorted(s) == s \in Seq(Ids) /\ \A i, j \in 1..Len(s) : i < j => s[i].t < s[j].t

\* What a sorted Vec holds, place by place.
LEMMA SortedIs ==
    ASSUME NEW s, Sorted(s)
    PROVE  /\ Len(s) \in Nat /\ DOMAIN s = 1..Len(s)
           /\ \A i \in 1..Len(s) : s[i] \in Ids /\ s[i].t \in Int /\ i \in Nat
           /\ \A i, j \in 1..Len(s) : s[i].t = s[j].t => i = j
           /\ \A i, j \in 1..Len(s) : s[i].t < s[j].t => i < j
           /\ \A i, j \in 1..Len(s) : i < j => s[i].t < s[j].t
           /\ ToSet(s) = {s[i] : i \in 1..Len(s)}
           /\ ToSet(s) \subseteq Ids
<1>1. Len(s) \in Nat /\ DOMAIN s = 1..Len(s)
    BY DEF Sorted
<1>2. \A i \in 1..Len(s) : s[i] \in Ids /\ s[i].t \in Int /\ i \in Nat
    <2>1. \A i \in 1..Len(s) : s[i] \in Ids /\ i \in Nat
        BY DEF Sorted
    <2>2. \A f \in Ids : f.t \in Int
        BY TimelineBounds DEF Ids, Times
    <2> QED BY <2>1, <2>2
<1>3. \A i, j \in 1..Len(s) : i < j => s[i].t < s[j].t
    BY DEF Sorted
<1>4. ASSUME NEW i \in 1..Len(s), NEW j \in 1..Len(s), ~(i < j) PROVE ~(s[i].t < s[j].t)
    <2>1. s[i].t \in Int /\ s[j].t \in Int /\ i \in Int /\ j \in Int
        BY <1>2
    <2>2. CASE i = j
        BY <2>1, <2>2
    <2>3. CASE j < i
        <3>1. s[j].t < s[i].t
            BY <1>3, <2>3
        <3> QED BY <2>1, <3>1
    <2> QED BY <1>4, <2>1, <2>2, <2>3
<1>5. ASSUME NEW i \in 1..Len(s), NEW j \in 1..Len(s), s[i].t = s[j].t PROVE i = j
    <2>1. s[i].t \in Int /\ s[j].t \in Int /\ i \in Int /\ j \in Int
        BY <1>2
    <2>2. ~(i < j) /\ ~(j < i)
        BY <1>3, <1>5, <2>1
    <2> QED BY <2>1, <2>2
<1>6. ToSet(s) = {s[i] : i \in 1..Len(s)}
    BY <1>1 DEF ToSet
<1> QED BY <1>1, <1>2, <1>3, <1>4, <1>5, <1>6

\* As many entries as places.
LEMMA CountPlaces ==
    ASSUME NEW s, Sorted(s), NEW J \in SUBSET (1..Len(s))
    PROVE  /\ Places(J)
           /\ IsFiniteSet({s[j] : j \in J})
           /\ Cardinality({s[j] : j \in J}) = Cardinality(J)
<1> DEFINE T == {s[j] : j \in J}
           at == [j \in J |-> s[j]]
<1>1. Len(s) \in Nat /\ IsFiniteSet(1..Len(s))
    BY SortedIs, FS_Interval
<1>2. IsFiniteSet(J) /\ J \subseteq Nat
    <2> DEFINE all == 1..Len(s)
    <2>1. J \in SUBSET all /\ IsFiniteSet(all) /\ J \subseteq Nat
        BY <1>1
    <2> HIDE DEF all
    <2> QED BY <2>1, FS_Subset
<1>3. at \in [J -> T] /\ \A t \in T : \E j \in J : at[j] = t
    OBVIOUS
<1>4. \A i, j \in J : at[i] = at[j] => i = j
    BY SortedIs
<1> HIDE DEF at, T
<1>5. at \in Bijection(J, T)
    <2>1. at \in Injection(J, T)
        BY <1>3, <1>4 DEF Injection, IsInjective
    <2>2. at \in Surjection(J, T)
        BY <1>3 DEF Surjection
    <2> QED BY <2>1, <2>2 DEF Bijection
<1>6. ExistsBijection(J, T)
    BY <1>5 DEF ExistsBijection
<1>7. IsFiniteSet(T) /\ Cardinality(T) = Cardinality(J)
    BY <1>2, <1>6, FS_Bijection
<1> QED BY <1>2, <1>7 DEF T, Places

\* retain leaves the entries of the places that stay, in their order.
LEMMA RetainGives ==
    ASSUME NEW s, Sorted(s), NEW I \in SUBSET (1..Len(s))
    PROVE  Sorted(Retain(s, I)) /\ ToSet(Retain(s, I)) = {s[i] : i \in I}
<1>1. Places(I) /\ Cardinality(I) \in Nat
    BY CountPlaces, FS_CardinalityType DEF Places
<1> DEFINE r == Retain(s, I)
<1>2. \A n \in 1..Cardinality(I) : Nth(I, n) \in I
    BY <1>1, NthIs
<1>3. r \in [1..Cardinality(I) -> Ids] /\ \A n \in 1..Cardinality(I) : r[n] = s[Nth(I, n)]
    BY <1>2, SortedIs DEF Retain
<1>4. r \in Seq(Ids) /\ Len(r) = Cardinality(I)
    <2> HIDE DEF r
    <2> QED BY <1>1, <1>3
<1>5. \A m, n \in 1..Cardinality(I) : m < n => Nth(I, m) < Nth(I, n)
    BY <1>1, NthInOrder
<1>6. \A i \in I : \E n \in 1..Cardinality(I) : i = Nth(I, n)
    BY <1>1, NthInOrder
<1>7. Sorted(r)
    <2> HIDE DEF r
    <2>1. ASSUME NEW m \in 1..Len(r), NEW n \in 1..Len(r), m < n PROVE r[m].t < r[n].t
        <3>1. m \in 1..Cardinality(I) /\ n \in 1..Cardinality(I)
            BY <1>4
        <3>2. Nth(I, m) < Nth(I, n) /\ Nth(I, m) \in 1..Len(s) /\ Nth(I, n) \in 1..Len(s)
            BY <1>2, <1>5, <2>1, <3>1
        <3>3. s[Nth(I, m)].t < s[Nth(I, n)].t
            BY <3>2, SortedIs
        <3> QED BY <1>3, <3>1, <3>3
    <2> QED BY <1>4, <2>1 DEF Sorted
<1>8. ToSet(r) = {r[n] : n \in 1..Cardinality(I)}
    <2> HIDE DEF r
    <2> QED BY <1>4, <1>7, SortedIs
<1>9. {r[n] : n \in 1..Cardinality(I)} = {s[i] : i \in I}
    <2> HIDE DEF r
    <2>1. \A n \in 1..Cardinality(I) : \E i \in I : r[n] = s[i]
        BY <1>2, <1>3
    <2>2. \A i \in I : \E n \in 1..Cardinality(I) : r[n] = s[i]
        BY <1>3, <1>6
    <2> QED BY <2>1, <2>2
<1> QED BY <1>7, <1>8, <1>9

\* The first entry is the earliest, and the last the latest.
LEMMA EndsAre ==
    ASSUME NEW s, Sorted(s), Len(s) # 0
    PROVE  /\ Promised!EarliestOf(ToSet(s)) = s[1] /\ 1 \in 1..Len(s)
           /\ Promised!LatestOf(ToSet(s)) = s[Len(s)] /\ Len(s) \in 1..Len(s)
<1>1. Len(s) \in Nat /\ 1 \in 1..Len(s) /\ Len(s) \in 1..Len(s)
    BY SortedIs
<1>2. \A i \in 1..Len(s) : s[1].t <= s[i].t /\ s[i].t <= s[Len(s)].t
    <2> TAKE i \in 1..Len(s)
    <2>1. s[1].t \in Int /\ s[i].t \in Int /\ s[Len(s)].t \in Int /\ i \in Nat
        BY <1>1, SortedIs
    <2>2. i = 1 \/ 1 < i
        BY <1>1
    <2>3. i = Len(s) \/ i < Len(s)
        BY <1>1
    <2>4. s[1].t <= s[i].t
        BY <1>1, <2>1, <2>2, SortedIs
    <2>5. s[i].t <= s[Len(s)].t
        BY <1>1, <2>1, <2>3, SortedIs
    <2> QED BY <2>4, <2>5
<1>3. s[1] \in ToSet(s) /\ s[Len(s)] \in ToSet(s)
    BY <1>1, SortedIs
<1>4. \A f \in ToSet(s) : s[1].t <= f.t /\ f.t <= s[Len(s)].t /\ f.t \in Int
    BY <1>2, SortedIs
<1>5. \A f, g \in ToSet(s) : f.t = g.t => f = g
    BY SortedIs
<1>6. Promised!EarliestOf(ToSet(s)) = s[1]
    <2>1. ASSUME NEW f \in ToSet(s), \A g \in ToSet(s) : f.t <= g.t PROVE f = s[1]
        <3>1. f.t <= s[1].t /\ s[1].t <= f.t /\ f.t \in Int /\ s[1].t \in Int
            BY <1>3, <1>4, <2>1
        <3> QED BY <1>3, <1>5, <3>1
    <2>2. \E f \in ToSet(s) : \A g \in ToSet(s) : f.t <= g.t
        BY <1>3, <1>4
    <2> QED BY <2>1, <2>2 DEF Promised!EarliestOf
<1>7. Promised!LatestOf(ToSet(s)) = s[Len(s)]
    <2>1. ASSUME NEW f \in ToSet(s), \A g \in ToSet(s) : g.t <= f.t PROVE f = s[Len(s)]
        <3>1. f.t <= s[Len(s)].t /\ s[Len(s)].t <= f.t /\ f.t \in Int /\ s[Len(s)].t \in Int
            BY <1>3, <1>4, <2>1
        <3> QED BY <1>3, <1>5, <3>1
    <2>2. \E f \in ToSet(s) : \A g \in ToSet(s) : g.t <= f.t
        BY <1>3, <1>4
    <2> QED BY <2>1, <2>2 DEF Promised!LatestOf
<1> QED BY <1>1, <1>6, <1>7

\* How many are newer than the one at a place.
LEMMA NewerAre ==
    ASSUME NEW s, Sorted(s), NEW i \in 1..Len(s)
    PROVE  Cardinality({g \in ToSet(s) : g.t > s[i].t}) = Len(s) - i
<1> DEFINE J == (i + 1)..Len(s)
           newer == {g \in ToSet(s) : g.t > s[i].t}
<1>1. i \in Nat /\ Len(s) \in Nat /\ i <= Len(s)
    BY SortedIs
<1>2. J \in SUBSET (1..Len(s)) /\ \A j \in 1..Len(s) : j \in J <=> i < j
    BY <1>1
<1>3. \A j \in 1..Len(s) : s[j].t > s[i].t <=> i < j
    <2> TAKE j \in 1..Len(s)
    <2>1. s[j].t \in Int /\ s[i].t \in Int
        BY SortedIs
    <2>2. s[i].t < s[j].t <=> i < j
        BY SortedIs
    <2> QED BY <2>1, <2>2
<1>4. newer = {s[j] : j \in J}
    <2> HIDE DEF J
    <2>1. ToSet(s) = {s[j] : j \in 1..Len(s)}
        BY SortedIs
    <2> QED BY <1>2, <1>3, <2>1
<1>5. Cardinality(J) = Len(s) - i
    BY <1>1, FS_Interval
<1>6. Cardinality({s[j] : j \in J}) = Cardinality(J)
    <2> HIDE DEF J
    <2> QED BY <1>2, CountPlaces
<1>7. Cardinality(newer) = Len(s) - i
    <2> HIDE DEF newer, J
    <2> QED BY <1>4, <1>5, <1>6
<1> QED BY <1>7

\* Draining the front leaves the newest.
LEMMA DrainGives ==
    ASSUME NEW s, Sorted(s), NEW n \in Nat
    PROVE  /\ Sorted(DrainFront(s, n))
           /\ ToSet(DrainFront(s, n)) = Promised!NewestOf(ToSet(s), n)
<1> DEFINE k == IF Len(s) > n THEN Len(s) - n ELSE 0
           d == DrainFront(s, n)
<1>1. Len(s) \in Nat /\ k \in Nat /\ k <= Len(s) /\ s \in Seq(Ids)
    BY SortedIs DEF Sorted
<1>2. d = SubSeq(s, k + 1, Len(s))
    BY DEF DrainFront
<1>3. d \in Seq(Ids) /\ Len(d) = Len(s) - k /\ \A i \in 1..Len(d) : d[i] = s[i + k]
    <2> HIDE DEF k, d
    <2> QED BY <1>1, <1>2
<1>4. \A i \in 1..Len(d) : i \in Nat /\ i + k \in 1..Len(s)
    <2> HIDE DEF k, d
    <2> QED BY <1>1, <1>3
<1>5. Sorted(d)
    <2> HIDE DEF k, d
    <2>1. ASSUME NEW i \in 1..Len(d), NEW j \in 1..Len(d), i < j PROVE d[i].t < d[j].t
        <3>1. i + k \in 1..Len(s) /\ j + k \in 1..Len(s) /\ i + k < j + k
            BY <1>1, <1>4, <2>1
        <3> QED BY <1>3, <3>1, SortedIs
    <2> QED BY <1>3, <2>1 DEF Sorted
<1>6. \A j \in 1..Len(s) : j > k <=> Len(s) - j < n
    BY <1>1
<1>7. ASSUME NEW f \in ToSet(d) PROVE f \in Promised!NewestOf(ToSet(s), n)
    <2> HIDE DEF k, d
    <2>1. PICK i \in 1..Len(d) : f = d[i]
        BY <1>5, SortedIs
    <2>2. i + k \in 1..Len(s) /\ i + k > k /\ f = s[i + k]
        BY <1>1, <1>3, <1>4, <2>1
    <2>3. Len(s) - (i + k) < n
        BY <1>6, <2>2
    <2>4. Cardinality({g \in ToSet(s) : g.t > f.t}) < n
        BY <2>2, <2>3, NewerAre
    <2>5. f \in ToSet(s)
        BY <2>2, SortedIs
    <2> QED BY <2>4, <2>5, SameCount DEF Promised!NewestOf
<1>8. ASSUME NEW f \in Promised!NewestOf(ToSet(s), n) PROVE f \in ToSet(d)
    <2> HIDE DEF k, d
    <2>1. f \in ToSet(s) /\ Cardinality({g \in ToSet(s) : g.t > f.t}) < n
        BY SameCount DEF Promised!NewestOf
    <2>2. PICK j \in 1..Len(s) : f = s[j]
        BY <2>1, SortedIs
    <2>3. Len(s) - j < n
        BY <2>1, <2>2, NewerAre
    <2>4. j > k /\ j \in Nat
        BY <1>6, <2>3
    <2>5. j - k \in 1..Len(d)
        BY <1>1, <1>3, <2>2, <2>4
    <2>6. d[j - k] = s[j]
        BY <1>1, <1>3, <2>4, <2>5
    <2> QED BY <1>5, <2>2, <2>5, <2>6, SortedIs
<1> QED BY <1>5, <1>7, <1>8

\* The partition point parts what began up to a time from what began later.
LEMMA PointIs ==
    ASSUME NEW s, Sorted(s), NEW t \in Int
    PROVE  /\ PartitionPoint(s, t) \in 0..Len(s)
           /\ \A i \in 1..Len(s) : i <= PartitionPoint(s, t) <=> s[i].t <= t
<1> DEFINE I == {i \in 1..Len(s) : s[i].t <= t}
<1>1. Len(s) \in Nat /\ \A i \in 1..Len(s) : i \in Nat /\ s[i].t \in Int
    BY SortedIs
<1>2. Places(I)
    BY CountPlaces
<1>3. CASE I = {}
    <2>1. PartitionPoint(s, t) = 0
        BY <1>3, FS_EmptySet DEF PartitionPoint
    <2>2. \A i \in 1..Len(s) : ~(i <= 0) /\ ~(s[i].t <= t)
        BY <1>1, <1>3
    <2> QED BY <1>1, <2>1, <2>2
<1>4. CASE I # {}
    <2>1. PICK m \in I : \A k \in I : k <= m
        <3> HIDE DEF I
        <3> QED BY <1>2, <1>4, HasLast
    <2>2. m \in 1..Len(s) /\ s[m].t <= t /\ m \in Nat /\ s[m].t \in Int
        BY <1>1
    <2>3. ASSUME NEW i \in 1..Len(s) PROVE i <= m <=> s[i].t <= t
        <3>1. i \in Nat /\ s[i].t \in Int
            BY <1>1
        <3>2. s[i].t <= t => i <= m
            BY <2>1
        <3>3. i < m => s[i].t < s[m].t
            BY <2>2, SortedIs
        <3>4. i <= m => s[i].t <= t
            BY <2>2, <3>1, <3>3
        <3> QED BY <3>2, <3>4
    <2>4. I = 1..m
        <3>1. \A i \in 1..Len(s) : i \in I <=> i \in 1..m
            BY <2>2, <2>3
        <3>2. \A i \in 1..m : i \in 1..Len(s)
            BY <1>1, <2>2
        <3> QED BY <3>1, <3>2
    <2>5. PartitionPoint(s, t) = m
        <3>1. Cardinality(1..m) = m
            BY <2>2, FS_Interval
        <3> QED BY <2>4, <3>1 DEF PartitionPoint
    <2> QED BY <1>1, <2>2, <2>3, <2>5
<1> QED BY <1>3, <1>4

\* Inserting at the partition point keeps the order.
LEMMA InsertGives ==
    ASSUME NEW s, Sorted(s), NEW f \in Ids, \A i \in 1..Len(s) : s[i].t # f.t
    PROVE  /\ Sorted(InsertAt(s, PartitionPoint(s, f.t) + 1, f))
           /\ ToSet(InsertAt(s, PartitionPoint(s, f.t) + 1, f)) = ToSet(s) \cup {f}
<1> DEFINE p == PartitionPoint(s, f.t)
           r == InsertAt(s, p + 1, f)
           L == Len(s)
<1>0. f.t \in Int
    BY TimelineBounds DEF Ids, Times
<1>1. L \in Nat /\ s \in Seq(Ids) /\ p \in Nat /\ p <= L
    BY <1>0, SortedIs, PointIs DEF Sorted
<1>2. ASSUME NEW i \in 1..L
      PROVE  i \in Nat /\ s[i].t \in Int /\ (i <= p => s[i].t < f.t) /\ (i > p => s[i].t > f.t)
    <2> HIDE DEF p
    <2>1. i \in Nat /\ s[i].t \in Int
        BY SortedIs
    <2>2. i <= p <=> s[i].t <= f.t
        BY <1>0, PointIs DEF p
    <2> QED BY <1>0, <1>1, <2>1, <2>2
<1>3. r = SubSeq(s, 1, p) \o <<f>> \o SubSeq(s, p + 1, L)
    <2>1. r = SubSeq(s, 1, (p + 1) - 1) \o <<f>> \o SubSeq(s, p + 1, L)
        BY DEF InsertAt
    <2> HIDE DEF p, r
    <2>2. (p + 1) - 1 = p
        BY <1>1
    <2> QED BY <2>1, <2>2
<1>4. /\ r \in Seq(Ids) /\ Len(r) = L + 1
      /\ \A i \in 1..(L + 1) : r[i] = IF i <= p THEN s[i] ELSE IF i = p + 1 THEN f ELSE s[i - 1]
    <2> HIDE DEF p, r, L
    <2> DEFINE a == SubSeq(s, 1, p)
               b == SubSeq(s, p + 1, L)
    <2>1. a \in Seq(Ids) /\ Len(a) = p /\ \A i \in 1..p : a[i] = s[i]
        BY <1>1 DEF L
    <2>2. b \in Seq(Ids) /\ Len(b) = L - p /\ \A i \in 1..(L - p) : b[i] = s[i + p]
        BY <1>1 DEF L
    <2>3. r = (a \o <<f>>) \o b
        BY <1>3
    <2> HIDE DEF a, b
    <2>4. /\ a \o <<f>> \in Seq(Ids) /\ Len(a \o <<f>>) = p + 1
          /\ \A i \in 1..(p + 1) : (a \o <<f>>)[i] = IF i <= p THEN a[i] ELSE f
        BY <1>1, <2>1
    <2> DEFINE c == a \o <<f>>
    <2> HIDE DEF c
    <2>5. c \in Seq(Ids) /\ Len(c) = p + 1 /\ \A i \in 1..(p + 1) : c[i] = IF i <= p THEN a[i] ELSE f
        BY <2>4 DEF c
    <2>6. r = c \o b
        BY <2>3 DEF c
    <2>7. r \in Seq(Ids) /\ Len(r) = L + 1
        BY <1>1, <2>2, <2>5, <2>6
    <2>8. ASSUME NEW i \in 1..(L + 1), i <= p + 1 PROVE r[i] = IF i <= p THEN s[i] ELSE f
        <3>1. i \in 1..(p + 1) /\ (i <= p => i \in 1..p)
            BY <1>1, <2>8
        <3>2. r[i] = c[i]
            BY <1>1, <2>2, <2>5, <2>6, <3>1
        <3> QED BY <2>1, <2>5, <3>1, <3>2
    <2>9. ASSUME NEW i \in 1..(L + 1), i > p + 1 PROVE r[i] = s[i - 1]
        <3>1. i - (p + 1) \in 1..(L - p)
            BY <1>1, <2>9
        <3>2. r[i] = b[i - (p + 1)]
            BY <1>1, <2>2, <2>5, <2>6, <2>9, <3>1
        <3>3. (i - (p + 1)) + p = i - 1
            BY <1>1
        <3> QED BY <2>2, <3>1, <3>2, <3>3
    <2> QED BY <1>1, <2>7, <2>8, <2>9
<1>5. Sorted(r)
    <2> HIDE DEF p, r
    <2>1. ASSUME NEW i \in 1..Len(r), NEW j \in 1..Len(r), i < j PROVE r[i].t < r[j].t
        <3>1. i \in Nat /\ j \in Nat /\ i \in 1..(L + 1) /\ j \in 1..(L + 1)
            BY <1>1, <1>4
        <3>2. CASE j <= p
            <4>1. i \in 1..L /\ j \in 1..L
                BY <1>1, <2>1, <3>1, <3>2
            <4> QED BY <1>1, <1>4, <2>1, <3>1, <3>2, <4>1, SortedIs
        <3>3. CASE j = p + 1
            <4>1. i \in 1..L /\ i <= p
                BY <1>1, <2>1, <3>1, <3>3
            <4>2. r[i] = s[i] /\ r[j] = f
                BY <1>1, <1>4, <3>1, <3>3, <4>1
            <4> QED BY <1>2, <4>1, <4>2
        <3>4. CASE j > p + 1 /\ i <= p
            <4>1. i \in 1..L /\ j - 1 \in 1..L /\ i < j - 1
                BY <1>1, <3>1, <3>4
            <4>2. r[i] = s[i] /\ r[j] = s[j - 1]
                BY <1>1, <1>4, <3>1, <3>4
            <4> QED BY <4>1, <4>2, SortedIs
        <3>5. CASE j > p + 1 /\ i = p + 1
            <4>1. j - 1 \in 1..L /\ j - 1 > p
                BY <1>1, <3>1, <3>5
            <4>2. r[i] = f /\ r[j] = s[j - 1]
                BY <1>1, <1>4, <3>1, <3>5
            <4> QED BY <1>0, <1>2, <4>1, <4>2
        <3>6. CASE j > p + 1 /\ i > p + 1
            <4>1. i - 1 \in 1..L /\ j - 1 \in 1..L /\ i - 1 < j - 1
                BY <1>1, <2>1, <3>1, <3>6
            <4>2. r[i] = s[i - 1] /\ r[j] = s[j - 1]
                BY <1>1, <1>4, <3>1, <3>6
            <4> QED BY <4>1, <4>2, SortedIs
        <3> QED BY <1>1, <2>1, <3>1, <3>2, <3>3, <3>4, <3>5, <3>6
    <2> QED BY <1>4, <2>1 DEF Sorted
<1>6. ToSet(r) = ToSet(s) \cup {f}
    <2> HIDE DEF p, r
    <2>1. ToSet(r) = {r[i] : i \in 1..(L + 1)} /\ ToSet(s) = {s[i] : i \in 1..L}
        BY <1>4, <1>5, SortedIs
    <2> HIDE DEF L
    <2>2. ASSUME NEW i \in 1..(L + 1) PROVE r[i] = f \/ \E j \in 1..L : r[i] = s[j]
        <3>1. i \in Nat /\ (i <= p => i \in 1..L) /\ (i > p + 1 => i - 1 \in 1..L)
            BY <1>1
        <3>2. CASE i <= p
            <4>1. r[i] = s[i] /\ i \in 1..L
                BY <1>4, <3>1, <3>2
            <4> QED BY <4>1
        <3>3. CASE i = p + 1
            <4>1. r[i] = f
                BY <1>1, <1>4, <3>3
            <4> QED BY <4>1
        <3>4. CASE i > p + 1
            <4>1. r[i] = s[i - 1] /\ i - 1 \in 1..L
                BY <1>1, <1>4, <3>1, <3>4
            <4> QED BY <4>1
        <3> QED BY <1>1, <3>1, <3>2, <3>3, <3>4
    <2>3. p + 1 \in 1..(L + 1) /\ r[p + 1] = f
        BY <1>1, <1>4
    <2>4. ASSUME NEW j \in 1..L PROVE \E i \in 1..(L + 1) : r[i] = s[j]
        <3>1. CASE j <= p
            <4>1. j \in 1..(L + 1) /\ r[j] = s[j]
                BY <1>1, <1>4, <3>1
            <4> QED BY <4>1
        <3>2. CASE j > p
            <4>1. j + 1 \in 1..(L + 1) /\ ~(j + 1 <= p) /\ j + 1 # p + 1 /\ (j + 1) - 1 = j
                BY <1>1, <3>2
            <4>2. r[j + 1] = s[j]
                BY <1>4, <4>1
            <4> QED BY <4>1, <4>2
        <3> QED BY <1>1, <3>1, <3>2
    <2> QED BY <2>1, <2>2, <2>3, <2>4
<1> QED BY <1>5, <1>6

\* insert: the frame takes the place of the one of its id, or a place of its
\* own, and the ring drops the oldest.
LEMMA InsertedGives ==
    ASSUME Sorted(stored), NEW f \in Ids
    PROVE  /\ Sorted(Inserted(f))
           /\ ToSet(Inserted(f)) = Promised!NewestOf(ToSet(stored) \cup {f}, Ring)
<1> DEFINE I == {i \in 1..Len(stored) : stored[i] # f}
           others == Retain(stored, I)
           r == InsertAt(others, PartitionPoint(others, f.t) + 1, f)
<1>1. Sorted(others) /\ ToSet(others) = {stored[i] : i \in I}
    <2>1. I \in SUBSET (1..Len(stored))
        OBVIOUS
    <2> HIDE DEF I
    <2> QED BY <2>1, RetainGives
<1>2. ToSet(others) \cup {f} = ToSet(stored) \cup {f}
    <2>1. ToSet(stored) = {stored[i] : i \in 1..Len(stored)}
        BY SortedIs
    <2> QED BY <1>1, <2>1
<1>3. \A i \in 1..Len(others) : others[i].t # f.t
    <2>1. \A e \in {stored[j] : j \in I} : e # f
        OBVIOUS
    <2> HIDE DEF others, I
    <2>2. \A i \in 1..Len(others) : others[i] \in ToSet(others) /\ others[i] \in Ids
        <3>1. \A i \in 1..Len(others) : others[i] \in {others[j] : j \in 1..Len(others)}
            OBVIOUS
        <3>2. ToSet(others) = {others[j] : j \in 1..Len(others)} /\ ToSet(others) \subseteq Ids
            BY <1>1, SortedIs
        <3> QED BY <3>1, <3>2
    <2>3. \A e \in Ids : e # f => e.t # f.t
        BY DEF Ids
    <2> QED BY <1>1, <2>1, <2>2, <2>3
<1>4. Sorted(r) /\ ToSet(r) = ToSet(stored) \cup {f}
    <2> HIDE DEF others
    <2> QED BY <1>1, <1>2, <1>3, InsertGives
<1>5. Inserted(f) = DrainFront(r, Ring)
    BY DEF Inserted
<1> HIDE DEF r
<1>6. Ring \in Nat
    BY TimelineBounds
<1> QED BY <1>4, <1>5, <1>6, DrainGives

-----------------------------------------------------------------------------
(* Entries and their indices *)

HistOf(s, p, x, l) == [stored |-> ToSet(s), partial |-> p, shown |-> x, loopStart |-> l]

Frames == Ids \cup {NoFrame}

\* No id is None.
LEMMA NoFrameIsNoId == NoFrame \notin Ids
<1>1. Times \subseteq 0..MaxTime
    BY TimelineBounds DEF Times
<1> QED BY <1>1, TimelineBounds DEF Ids

\* The fields of an entry.
LEMMA EntryIs ==
    ASSUME NEW s, Sorted(s), NEW p, NEW i \in 1..Length(s, p)
    PROVE  /\ i \in Nat /\ Length(s, p) \in Nat /\ Length(s, p) >= Len(s) /\ Len(s) \in Nat
           /\ i <= Len(s) => /\ i \in 1..Len(s) /\ EntryAt(i, s, p).frame = s[i]
                             /\ EntryAt(i, s, p).painting = FALSE
                             /\ EntryAt(i, s, p) = [frame |-> s[i], painting |-> FALSE]
           /\ ~(i <= Len(s)) => /\ i = Len(s) + 1 /\ i = Length(s, p) /\ p # NoFrame
                                /\ EntryAt(i, s, p).frame = p
                                /\ EntryAt(i, s, p).painting = TRUE
                                /\ EntryAt(i, s, p) = [frame |-> p, painting |-> TRUE]
<1>1. Len(s) \in Nat
    BY SortedIs
<1>2. /\ p = NoFrame => Length(s, p) = Len(s)
      /\ p # NoFrame => Length(s, p) = Len(s) + 1
    BY <1>1 DEF Length
<1>3. i \in Nat /\ Length(s, p) \in Nat /\ Length(s, p) >= Len(s)
    BY <1>1, <1>2
<1>4. i <= Len(s) => i \in 1..Len(s)
    BY <1>1, <1>3
<1>5. ~(i <= Len(s)) => i = Len(s) + 1 /\ i = Length(s, p) /\ p # NoFrame
    BY <1>1, <1>2, <1>3
<1>6. /\ i <= Len(s) => EntryAt(i, s, p) = [frame |-> s[i], painting |-> FALSE]
      /\ ~(i <= Len(s)) => EntryAt(i, s, p) = [frame |-> p, painting |-> TRUE]
    BY DEF EntryAt
<1> QED BY <1>1, <1>3, <1>4, <1>5, <1>6

\* The entries are those of the indices.
LEMMA EntriesAre ==
    ASSUME NEW s, Sorted(s), NEW p, NEW x, NEW l
    PROVE  Promised!Entries(HistOf(s, p, x, l)) = {EntryAt(i, s, p) : i \in 1..Length(s, p)}
<1> DEFINE all == {EntryAt(i, s, p) : i \in 1..Length(s, p)}
           E == Promised!Entries(HistOf(s, p, x, l))
<1>1. E = [frame : ToSet(s), painting : {FALSE}] \cup [frame : {p} \ {NoFrame}, painting : {TRUE}]
    BY DEF Promised!Entries, HistOf
<1>2. Len(s) \in Nat /\ ToSet(s) = {s[i] : i \in 1..Len(s)}
    BY SortedIs
<1>3. ASSUME NEW i \in 1..Length(s, p) PROVE EntryAt(i, s, p) \in E
    <2>1. CASE i <= Len(s)
        <3>1. i \in 1..Len(s) /\ EntryAt(i, s, p) = [frame |-> s[i], painting |-> FALSE]
            BY <2>1, EntryIs
        <3>2. s[i] \in ToSet(s)
            BY <1>2, <3>1
        <3> HIDE DEF E
        <3> QED BY <1>1, <3>1, <3>2
    <2>2. CASE ~(i <= Len(s))
        <3>1. p # NoFrame /\ EntryAt(i, s, p) = [frame |-> p, painting |-> TRUE]
            BY <2>2, EntryIs
        <3> HIDE DEF E
        <3> QED BY <1>1, <3>1
    <2> QED BY <2>1, <2>2
<1>4. ASSUME NEW e \in E PROVE e \in all
    <2>1. CASE e \in [frame : ToSet(s), painting : {FALSE}]
        <3>1. PICK i \in 1..Len(s) : e = [frame |-> s[i], painting |-> FALSE]
            BY <1>2, <2>1
        <3>2. i \in 1..Length(s, p) /\ i <= Len(s)
            BY <1>2 DEF Length
        <3>3. e = EntryAt(i, s, p)
            BY <3>1, <3>2 DEF EntryAt
        <3> QED BY <3>2, <3>3
    <2>2. CASE e \in [frame : {p} \ {NoFrame}, painting : {TRUE}]
        <3>1. p # NoFrame /\ e = [frame |-> p, painting |-> TRUE]
            BY <2>2
        <3>2. Len(s) + 1 \in 1..Length(s, p) /\ ~(Len(s) + 1 <= Len(s))
            BY <1>2, <3>1 DEF Length
        <3>3. e = EntryAt(Len(s) + 1, s, p)
            BY <3>1, <3>2 DEF EntryAt
        <3> QED BY <3>2, <3>3
    <2> HIDE DEF E
    <2> QED BY <1>1, <2>1, <2>2
<1> HIDE DEF E
<1>5. E = all
    BY <1>3, <1>4
<1> QED BY <1>5 DEF E

\* Two indices are two entries.
LEMMA EntriesDiffer ==
    ASSUME NEW s, Sorted(s), NEW p,
           NEW i \in 1..Length(s, p), NEW j \in 1..Length(s, p),
           EntryAt(i, s, p) = EntryAt(j, s, p)
    PROVE  i = j
<1>1. CASE i <= Len(s) /\ j <= Len(s)
    <2>1. i \in 1..Len(s) /\ EntryAt(i, s, p).frame = s[i]
        BY <1>1, EntryIs
    <2>2. j \in 1..Len(s) /\ EntryAt(j, s, p).frame = s[j]
        BY <1>1, EntryIs
    <2>3. s[i] = s[j]
        BY <2>1, <2>2
    <2> QED BY <2>1, <2>2, <2>3, SortedIs
<1>2. CASE ~(i <= Len(s)) /\ ~(j <= Len(s))
    BY <1>2, EntryIs
<1>3. CASE i <= Len(s) /\ ~(j <= Len(s))
    <2>1. EntryAt(i, s, p).painting = FALSE /\ EntryAt(j, s, p).painting = TRUE
        BY <1>3, EntryIs
    <2> QED BY <2>1
<1>4. CASE ~(i <= Len(s)) /\ j <= Len(s)
    <2>1. EntryAt(i, s, p).painting = TRUE /\ EntryAt(j, s, p).painting = FALSE
        BY <1>4, EntryIs
    <2> QED BY <2>1
<1> QED BY <1>1, <1>2, <1>3, <1>4

\* As many entries as indices up to one.
LEMMA CountEntries ==
    ASSUME NEW s, Sorted(s), NEW p, NEW n \in Nat, n <= Length(s, p)
    PROVE  Cardinality({EntryAt(i, s, p) : i \in 1..n}) = n
<1> DEFINE T == {EntryAt(i, s, p) : i \in 1..n}
           J == 1..n
           at == [i \in J |-> EntryAt(i, s, p)]
<1>1. Length(s, p) \in Nat
    BY SortedIs DEF Length
<1>2. IsFiniteSet(J) /\ Cardinality(J) = n
    BY FS_Interval
<1>3. \A i, j \in J : EntryAt(i, s, p) = EntryAt(j, s, p) => i = j
    <2>1. \A i \in J : i \in 1..Length(s, p)
        BY <1>1
    <2> QED BY <2>1, EntriesDiffer
<1>4. at \in [J -> T] /\ \A t \in T : \E j \in J : at[j] = t
    OBVIOUS
<1>5. \A i, j \in J : at[i] = at[j] => i = j
    BY <1>3
<1> HIDE DEF at, T, J
<1>6. at \in Bijection(J, T)
    <2>1. at \in Injection(J, T)
        BY <1>4, <1>5 DEF Injection, IsInjective
    <2>2. at \in Surjection(J, T)
        BY <1>4 DEF Surjection
    <2> QED BY <2>1, <2>2 DEF Bijection
<1>7. ExistsBijection(J, T)
    BY <1>6 DEF ExistsBijection
<1>8. Cardinality(T) = n
    BY <1>2, <1>7, FS_Bijection
<1> QED BY <1>8 DEF T

\* The index of an id, when it is listed, is that of the entry a seek lands on.
LEMMA IndexIs ==
    ASSUME NEW s, Sorted(s), NEW p \in Frames, NEW id \in Ids
    PROVE  /\ IndexOf(id, s, p) = 0 <=> id \notin ToSet(s) /\ p # id
           /\ IndexOf(id, s, p) # 0 => IndexOf(id, s, p) \in 1..Length(s, p)
           /\ id \in ToSet(s) => IndexOf(id, s, p) \in 1..Len(s) /\ s[IndexOf(id, s, p)] = id
           /\ id \notin ToSet(s) /\ p = id => IndexOf(id, s, p) = Len(s) + 1
<1> DEFINE n == IndexOf(id, s, p)
<1>0. Len(s) \in Nat /\ ToSet(s) = {s[i] : i \in 1..Len(s)} /\ Length(s, p) \in Nat
      /\ Length(s, p) >= Len(s) /\ (p # NoFrame => Length(s, p) = Len(s) + 1)
    BY SortedIs DEF Length
<1>1. CASE id \in ToSet(s)
    <2>1. \E i \in 1..Len(s) : s[i] = id
        BY <1>0, <1>1
    <2>2. n \in 1..Len(s) /\ s[n] = id
        BY <2>1 DEF IndexOf
    <2> HIDE DEF n
    <2>3. n # 0 /\ n \in 1..Length(s, p)
        BY <1>0, <2>2
    <2> QED BY <1>1, <2>2, <2>3 DEF n
<1>2. CASE id \notin ToSet(s)
    <2>1. ~\E i \in 1..Len(s) : s[i] = id
        BY <1>0, <1>2
    <2>2. p # NoFrame /\ p = id => n = Len(s) + 1
        BY <2>1 DEF IndexOf
    <2>3. ~(p # NoFrame /\ p = id) => n = 0
        BY <2>1 DEF IndexOf
    <2> HIDE DEF n
    <2>4. p = id => p # NoFrame
        BY NoFrameIsNoId
    <2>5. p = id => n = Len(s) + 1 /\ n \in 1..Length(s, p) /\ n # 0
        BY <1>0, <2>2, <2>4
    <2>6. p # id => n = 0
        BY <2>3
    <2> QED BY <1>2, <2>5, <2>6 DEF n
<1> QED BY <1>1, <1>2

-----------------------------------------------------------------------------
(* The position *)

\* The Vec is in time order, and what is named are ids.
TimelineInv ==
    /\ Sorted(stored)
    /\ partial \in Frames /\ shown \in Frames /\ loopStart \in Frames

Now == HistOf(stored, partial, shown, loopStart)
All == 1..Length(stored, partial)
Entry(i) == EntryAt(i, stored, partial)

\* The entry a seek of a listed id lands on.
LEMMA SoughtIs ==
    ASSUME NEW s, Sorted(s), NEW p \in Frames, NEW id \in Ids, NEW i \in 1..Length(s, p)
    PROVE  /\ EntryAt(i, s, p).frame = id
           /\ EntryAt(i, s, p).painting => id \notin ToSet(s)
        <=> i = IndexOf(id, s, p)
<1> DEFINE n == IndexOf(id, s, p)
           e == EntryAt(i, s, p)
<1>0. ToSet(s) = {s[j] : j \in 1..Len(s)} /\ Len(s) \in Nat
    BY SortedIs
<1>1. CASE i <= Len(s)
    <2>1. i \in 1..Len(s) /\ e.frame = s[i] /\ e.painting = FALSE
        BY <1>1, EntryIs
    <2> HIDE DEF e, n
    <2>2. s[i] = id => i = n
        <3>1. ASSUME s[i] = id PROVE i = n
            <4>1. id \in ToSet(s)
                BY <1>0, <2>1, <3>1
            <4>2. n \in 1..Len(s) /\ s[n] = id
                BY <4>1, IndexIs DEF n
            <4> QED BY <2>1, <3>1, <4>2, SortedIs
        <3> QED BY <3>1
    <2>3. ASSUME i = n PROVE s[i] = id
        <3>1. n # 0 /\ n # Len(s) + 1
            BY <1>0, <2>1, <2>3
        <3>2. id \in ToSet(s)
            BY <3>1, IndexIs DEF n
        <3> QED BY <2>3, <3>2, IndexIs DEF n
    <2>4. ~e.painting
        BY <2>1
    <2> QED BY <2>1, <2>2, <2>3, <2>4 DEF e, n
<1>2. CASE ~(i <= Len(s))
    <2>1. i = Len(s) + 1 /\ e.frame = p /\ e.painting = TRUE
        BY <1>2, EntryIs
    <2> HIDE DEF e, n
    <2>2. p = id /\ id \notin ToSet(s) => i = n
        BY <2>1, IndexIs DEF n
    <2>3. ASSUME i = n PROVE p = id /\ id \notin ToSet(s)
        <3>1. n # 0 /\ n \notin 1..Len(s)
            BY <1>0, <2>1, <2>3
        <3> QED BY <3>1, IndexIs DEF n
    <2> QED BY <2>1, <2>2, <2>3 DEF e, n
<1> QED BY <1>1, <1>2

\* The last index is that of the last entry.
LEMMA LastIs ==
    ASSUME TimelineInv, NEW i \in All
    PROVE  Promised!IsLast(Now, Entry(i)) <=> i = Length(stored, partial)
<1>0. Sorted(stored) /\ i \in 1..Length(stored, partial)
    BY DEF TimelineInv, All
<1>1. Promised!IsLast(Now, Entry(i)) <=>
        \/ Entry(i).painting
        \/ partial = NoFrame /\ Entry(i).frame = Promised!LatestOf(ToSet(stored))
    BY DEF Promised!IsLast, Now, HistOf
<1>2. Len(stored) \in Nat
    BY <1>0, SortedIs
<1>3. CASE i <= Len(stored)
    <2>1. i \in 1..Len(stored) /\ Entry(i).frame = stored[i] /\ Entry(i).painting = FALSE
        BY <1>0, <1>3, EntryIs DEF Entry
    <2>2. Len(stored) # 0
        BY <1>2, <2>1
    <2>3. Promised!LatestOf(ToSet(stored)) = stored[Len(stored)] /\ Len(stored) \in 1..Len(stored)
        BY <1>0, <2>2, EndsAre
    <2>4. stored[i] = stored[Len(stored)] <=> i = Len(stored)
        BY <1>0, <2>1, <2>3, SortedIs
    <2>5. partial = NoFrame => Length(stored, partial) = Len(stored)
        BY <1>2 DEF Length
    <2>6. partial # NoFrame => Length(stored, partial) = Len(stored) + 1
        BY DEF Length
    <2>7. i # Len(stored) + 1
        BY <1>2, <1>3, <2>1
    <2>8. Promised!IsLast(Now, Entry(i)) <=> partial = NoFrame /\ i = Len(stored)
        BY <1>1, <2>1, <2>3, <2>4
    <2> QED BY <2>5, <2>6, <2>7, <2>8
<1>4. CASE ~(i <= Len(stored))
    <2>1. i = Length(stored, partial) /\ Entry(i).painting = TRUE
        BY <1>0, <1>4, EntryIs DEF Entry
    <2> QED BY <1>1, <2>1
<1> QED BY <1>3, <1>4

\* The position is an index, or 0 when what is pinned or followed is not listed.
LEMMA PositionIs ==
    ASSUME TimelineInv
    PROVE  /\ Position # 0 => Position \in All /\ Promised!Position(Now) = {Entry(Position)}
           /\ Position = 0 => Promised!Position(Now) = {}
<1> DEFINE E == {Entry(i) : i \in All}
           n == Length(stored, partial)
<1>0. /\ Sorted(stored) /\ partial \in Frames /\ shown \in Frames
      /\ Len(stored) \in Nat /\ n \in Nat
    BY SortedIs DEF TimelineInv, Length
<1>1. Promised!Entries(Now) = E
    BY <1>0, EntriesAre DEF Now, Entry, All
<1>2. CASE shown # NoFrame
    <2> DEFINE m == IndexOf(shown, stored, partial)
    <2>1. shown \in Ids /\ Position = m
        BY <1>0, <1>2 DEF Frames, Position
    <2>2. Promised!Position(Now) =
            {e \in E : e.frame = shown /\ (e.painting => shown \notin ToSet(stored))}
        BY <1>1, <1>2 DEF Promised!Position, Promised!Following, Now, HistOf
    <2>3. \A i \in All : /\ Entry(i).frame = shown
                         /\ Entry(i).painting => shown \notin ToSet(stored)
                      <=> i = m
        BY <1>0, <2>1, SoughtIs DEF Entry, All
    <2>4. m # 0 => m \in All
        BY <1>0, <2>1, IndexIs DEF All
    <2>5. 0 \notin All
        BY <1>0 DEF All
    <2> HIDE DEF m
    <2>6. ASSUME m # 0 PROVE Promised!Position(Now) = {Entry(m)}
        BY <2>2, <2>3, <2>4, <2>6
    <2>7. ASSUME m = 0 PROVE Promised!Position(Now) = {}
        BY <2>2, <2>3, <2>5, <2>7
    <2> QED BY <2>1, <2>4, <2>6, <2>7
<1>3. CASE shown = NoFrame
    <2>1. Position = n
        BY <1>3 DEF Position
    <2>2. Promised!Position(Now) = {e \in E : Promised!IsLast(Now, e)}
        <3>1. CASE partial # NoFrame
            <4>1. Promised!Position(Now) = {e \in E : e.painting}
                BY <1>1, <1>3, <3>1 DEF Promised!Position, Promised!Following, Now, HistOf
            <4>2. \A e \in E : Promised!IsLast(Now, e) <=> e.painting
                BY <3>1 DEF Promised!IsLast, Now, HistOf
            <4> QED BY <4>1, <4>2
        <3>2. CASE partial = NoFrame
            <4>1. Promised!Position(Now) = {e \in E : e.frame = Promised!LatestOf(ToSet(stored))}
                BY <1>1, <1>3, <3>2 DEF Promised!Position, Promised!Following, Now, HistOf
            <4>2. \A i \in All : ~Entry(i).painting
                <5> TAKE i \in All
                <5>1. i <= Len(stored) => Entry(i).painting = FALSE
                    BY <1>0, EntryIs DEF Entry, All
                <5>2. ~(i <= Len(stored)) => partial # NoFrame
                    BY <1>0, EntryIs DEF Entry, All
                <5> QED BY <3>2, <5>1, <5>2
            <4>3. \A e \in E : Promised!IsLast(Now, e) <=> e.frame = Promised!LatestOf(ToSet(stored))
                BY <3>2, <4>2 DEF Promised!IsLast, Now, HistOf
            <4> QED BY <4>1, <4>3
        <3> QED BY <3>1, <3>2
    <2>3. \A i \in All : Promised!IsLast(Now, Entry(i)) <=> i = n
        BY LastIs
    <2>4. n # 0 => n \in All
        BY <1>0 DEF All
    <2>5. n = 0 => \A i \in All : i # n
        BY <1>0 DEF All
    <2> HIDE DEF n
    <2>6. ASSUME n # 0 PROVE Promised!Position(Now) = {Entry(n)}
        BY <2>2, <2>3, <2>4, <2>6
    <2>7. ASSUME n = 0 PROVE Promised!Position(Now) = {}
        BY <2>2, <2>3, <2>5, <2>7
    <2> QED BY <2>1, <2>4, <2>6, <2>7
<1> QED BY <1>2, <1>3

-----------------------------------------------------------------------------
(* Commands and playback *)

\* Before the entry at an index there are as many as there are indices.
LEMMA RankIs ==
    ASSUME TimelineInv, NEW i \in All
    PROVE  Promised!Rank(Entry(i)) = i - 1
<1> DEFINE before == {d \in Promised!Entries(Now) :
                        ~d.painting /\ (Entry(i).painting \/ d.frame.t < Entry(i).frame.t)}
           first == 1..(i - 1)
           T == {Entry(j) : j \in first}
<1>0. /\ Sorted(stored) /\ i \in 1..Length(stored, partial)
      /\ Len(stored) \in Nat /\ Length(stored, partial) \in Nat
      /\ Length(stored, partial) >= Len(stored) /\ i \in Nat
    BY SortedIs DEF TimelineInv, Length, All
<1>1. Promised!Entries(Now) = {Entry(j) : j \in All}
    BY <1>0, EntriesAre DEF Now, Entry, All
<1>2. \A j \in All : ~Entry(j).painting /\ (Entry(i).painting \/ Entry(j).frame.t < Entry(i).frame.t)
                        <=> j \in first
    <2> TAKE j \in All
    <2>0. j \in 1..Length(stored, partial) /\ j \in Nat
        BY <1>0 DEF All
    <2>1. CASE ~(j <= Len(stored))
        <3>1. Entry(j).painting = TRUE /\ j = Length(stored, partial)
            BY <1>0, <2>0, <2>1, EntryIs DEF Entry
        <3>2. j \notin first
            BY <1>0, <3>1
        <3> QED BY <3>1, <3>2
    <2>2. CASE j <= Len(stored) /\ ~(i <= Len(stored))
        <3>1. Entry(j).painting = FALSE
            BY <1>0, <2>0, <2>2, EntryIs DEF Entry
        <3>2. Entry(i).painting = TRUE /\ i = Len(stored) + 1
            BY <1>0, <2>2, EntryIs DEF Entry
        <3>3. j \in first
            BY <1>0, <2>0, <2>2, <3>2
        <3> QED BY <3>1, <3>2, <3>3
    <2>3. CASE j <= Len(stored) /\ i <= Len(stored)
        <3>1. Entry(j).painting = FALSE /\ Entry(j).frame = stored[j] /\ j \in 1..Len(stored)
            BY <1>0, <2>0, <2>3, EntryIs DEF Entry
        <3>2. Entry(i).painting = FALSE /\ Entry(i).frame = stored[i] /\ i \in 1..Len(stored)
            BY <1>0, <2>3, EntryIs DEF Entry
        <3>3. stored[j].t < stored[i].t <=> j < i
            BY <1>0, <3>1, <3>2, SortedIs
        <3>4. j < i <=> j \in first
            BY <1>0, <2>0
        <3> HIDE DEF first
        <3> QED BY <3>1, <3>2, <3>3, <3>4
    <2> QED BY <2>1, <2>2, <2>3
<1>3. \A j \in first : j \in All
    BY <1>0 DEF All
<1>4. before = T
    <2> HIDE DEF first
    <2>1. \A d \in Promised!Entries(Now) : \E j \in All : d = Entry(j)
        BY <1>1
    <2>2. \A j \in All : Entry(j) \in Promised!Entries(Now)
        BY <1>1
    <2> QED BY <1>2, <1>3, <2>1, <2>2
<1>5. Cardinality(T) = i - 1
    <2>1. i - 1 \in Nat /\ i - 1 <= Length(stored, partial)
        BY <1>0
    <2> QED BY <1>0, <2>1, CountEntries DEF Entry
<1>6. Promised!Rank(Entry(i)) = Cardinality(before)
    BY SameCount DEF Promised!Rank, Now, HistOf
<1> QED BY <1>4, <1>5, <1>6

\* What Pin does to an index, the history does to its entry.
LEMMA PinLands ==
    ASSUME TimelineInv, NEW i \in All, Pin(i), UNCHANGED <<stored, partial, loopStart>>
    PROVE  Promised!LandsOn(Entry(i)) /\ shown' \in Frames
<1>0. Sorted(stored) /\ i \in 1..Length(stored, partial) /\ partial \in Frames
    BY DEF TimelineInv, All
<1>1. shown' = IF i = Length(stored, partial) THEN NoFrame ELSE IdAt(i)
    BY DEF Pin
<1>2. IdAt(i) = Entry(i).frame /\ IdAt(i) \in Frames
    <2>1. CASE i <= Len(stored)
        <3>1. i \in 1..Len(stored) /\ Entry(i).frame = stored[i]
            BY <1>0, <2>1, EntryIs DEF Entry
        <3>2. stored[i] \in Ids
            BY <1>0, <3>1, SortedIs
        <3> QED BY <2>1, <3>1, <3>2 DEF IdAt, Frames
    <2>2. CASE ~(i <= Len(stored))
        <3>1. Entry(i).frame = partial
            BY <1>0, <2>2, EntryIs DEF Entry
        <3> QED BY <1>0, <2>2, <3>1 DEF IdAt
    <2> QED BY <2>1, <2>2
<1>3. shown' = IF Promised!IsLast(Now, Entry(i)) THEN NoFrame ELSE Entry(i).frame
    BY <1>1, <1>2, LastIs
<1>4. HistOf(stored', partial', shown', loopStart') = Promised!Pin(Now, Entry(i))
    BY <1>3 DEF Promised!Pin, Now, HistOf
<1>5. landed' = {Entry(i)} \ Promised!Position(Now)
    <2>1. landed' = IF Position = i THEN {} ELSE {Entry(i)}
        BY DEF Pin, Entry
    <2>2. CASE Position = 0
        <3>1. i # 0
            BY <1>0, EntryIs
        <3> QED BY <2>1, <2>2, <3>1, PositionIs
    <2>3. CASE Position # 0
        <3>1. Position \in All /\ Promised!Position(Now) = {Entry(Position)}
            BY <2>3, PositionIs
        <3>2. Entry(i) = Entry(Position) => i = Position
            BY <1>0, <3>1, EntriesDiffer DEF Entry, All
        <3> QED BY <2>1, <3>1, <3>2
    <2> QED BY <2>2, <2>3
<1>6. Promised!LandsOn(Entry(i))
    BY <1>4, <1>5 DEF Promised!LandsOn, Now, HistOf
<1>7. shown' \in Frames
    BY <1>1, <1>2 DEF Frames
<1> QED BY <1>6, <1>7

\* A step of the indices, clamped, is a step of the entries.
LEMMA StepSteps ==
    ASSUME TimelineInv, NEW delta \in -MaxTime..MaxTime, Step(delta)
    PROVE  Promised!Steps(delta) /\ shown' \in Frames
<1> DEFINE n == Length(stored, partial)
           i == Clamp(Position + delta, 1, n)
<1>0. Position # 0 /\ Pin(i) /\ UNCHANGED <<stored, partial, loopStart>> /\ call' = <<"step", delta>>
    BY DEF Step
<1>1. Position \in All /\ Promised!Position(Now) = {Entry(Position)}
    BY <1>0, PositionIs
<1>2. n \in Nat /\ Position \in 1..n /\ delta \in Int /\ Sorted(stored)
    BY <1>1, TimelineBounds, SortedIs DEF TimelineInv, All, Length
<1>3. i \in 1..n
    <2> HIDE DEF n
    <2> QED BY <1>2 DEF Clamp
<1>4. i \in All
    BY <1>3 DEF All
<1>5. Promised!LandsOn(Entry(i)) /\ shown' \in Frames
    BY <1>0, <1>4, PinLands
<1>6. Promised!Rank(Entry(i)) = i - 1 /\ Promised!Rank(Entry(Position)) = Position - 1
    BY <1>1, <1>4, RankIs
<1>7. Promised!Entries(Now) = {Entry(j) : j \in 1..n}
    BY <1>2, EntriesAre DEF Now, Entry
<1>8. Cardinality(Promised!Entries(Now)) = n
    <2>1. n <= n
        BY <1>2
    <2> QED BY <1>2, <1>7, <2>1, CountEntries DEF Entry
<1>9. i - 1 = Promised!Nearest(Promised!Rank(Entry(Position)) + delta)
    <2>1. Promised!Cardinality(Promised!Entries(Now)) = n
        BY <1>8, SameCount
    <2> HIDE DEF n
    <2>2. Promised!Nearest(Position - 1 + delta) =
            IF Position - 1 + delta < 0 THEN 0
            ELSE IF Position - 1 + delta > n - 1 THEN n - 1 ELSE Position - 1 + delta
        BY <2>1 DEF Promised!Nearest, Now, HistOf
    <2>3. i = IF Position + delta < 1 THEN 1 ELSE IF Position + delta > n THEN n ELSE Position + delta
        BY DEF Clamp
    <2>4. i - 1 = IF Position - 1 + delta < 0 THEN 0
                  ELSE IF Position - 1 + delta > n - 1 THEN n - 1 ELSE Position - 1 + delta
        BY <1>2, <2>3
    <2> QED BY <1>6, <2>2, <2>4
<1>10. Entry(Position) \in Promised!Position(Now) /\ Entry(i) \in Promised!Entries(Now)
    BY <1>1, <1>3, <1>7
<1> HIDE DEF i, n
<1>11. \E from \in Promised!Position(Now), e \in Promised!Entries(Now) :
        Promised!Rank(e) = Promised!Nearest(Promised!Rank(from) + delta) /\ Promised!LandsOn(e)
    BY <1>5, <1>6, <1>9, <1>10
<1> QED BY <1>0, <1>5, <1>11 DEF Promised!Steps, Now, HistOf

\* A seek lands on the entry of the id.
LEMMA SeekSeeks ==
    ASSUME TimelineInv, NEW f \in Ids, Seek(f)
    PROVE  Promised!Seeks(f) /\ shown' \in Frames
<1> DEFINE i == IndexOf(f, stored, partial)
<1>0. i # 0 /\ Pin(i) /\ UNCHANGED <<stored, partial, loopStart>> /\ call' = <<"seek", f>>
    BY DEF Seek
<1>1. Sorted(stored) /\ partial \in Frames
    BY DEF TimelineInv
<1>2. i \in All
    BY <1>0, <1>1, IndexIs DEF All
<1>3. Entry(i).frame = f /\ (Entry(i).painting => f \notin ToSet(stored))
    BY <1>1, <1>2, SoughtIs DEF Entry, All
<1>4. Entry(i) \in Promised!Entries(Now)
    BY <1>1, <1>2, EntriesAre DEF Now, Entry, All
<1> HIDE DEF i
<1>5. Promised!LandsOn(Entry(i)) /\ shown' \in Frames
    BY <1>0, <1>2, PinLands
<1>6. \E e \in Promised!Entries(Now) :
        /\ e.frame = f
        /\ e.painting => f \notin ToSet(stored)
        /\ Promised!LandsOn(e)
    BY <1>3, <1>4, <1>5
<1> QED BY <1>0, <1>5, <1>6 DEF Promised!Seeks, Now, HistOf

\* Of what is newer than the one at a place, the next is the earliest.
LEMMA NextIs ==
    ASSUME NEW s, Sorted(s), NEW k \in 1..Len(s)
    PROVE  /\ k < Len(s) => /\ {g \in ToSet(s) : g.t > s[k].t} # {}
                            /\ Promised!EarliestOf({g \in ToSet(s) : g.t > s[k].t}) = s[k + 1]
           /\ ~(k < Len(s)) => {g \in ToSet(s) : g.t > s[k].t} = {}
<1> DEFINE later == {g \in ToSet(s) : g.t > s[k].t}
<1>0. k \in Nat /\ Len(s) \in Nat /\ k <= Len(s) /\ ToSet(s) = {s[j] : j \in 1..Len(s)}
    BY SortedIs
<1>1. \A j \in 1..Len(s) : j \in Nat /\ s[j].t \in Int /\ (s[j].t > s[k].t <=> k < j)
    <2> TAKE j \in 1..Len(s)
    <2>1. j \in Nat /\ s[j].t \in Int /\ s[k].t \in Int
        BY SortedIs
    <2>2. s[k].t < s[j].t <=> k < j
        BY SortedIs
    <2> QED BY <2>1, <2>2
<1>2. ASSUME k < Len(s) PROVE later # {} /\ Promised!EarliestOf(later) = s[k + 1]
    <2>1. k + 1 \in 1..Len(s) /\ k < k + 1
        BY <1>0, <1>2
    <2>2. s[k + 1] \in later
        BY <1>0, <1>1, <2>1
    <2>3. ASSUME NEW g \in later PROVE s[k + 1].t <= g.t /\ (g.t <= s[k + 1].t => g = s[k + 1])
        <3>1. PICK j \in 1..Len(s) : g = s[j]
            BY <1>0
        <3>2. k < j /\ j \in Nat
            BY <1>1, <3>1
        <3>3. j = k + 1 \/ k + 1 < j
            BY <1>0, <3>2
        <3>4. CASE j = k + 1
            BY <1>1, <2>1, <3>1, <3>4
        <3>5. CASE k + 1 < j
            <4>1. s[k + 1].t < s[j].t /\ s[k + 1].t \in Int /\ s[j].t \in Int
                BY <2>1, <3>5, SortedIs
            <4> QED BY <3>1, <4>1
        <3> QED BY <3>3, <3>4, <3>5
    <2> HIDE DEF later
    <2>4. \E f \in later : \A g \in later : f.t <= g.t
        BY <2>2, <2>3
    <2>5. \A f \in later : (\A g \in later : f.t <= g.t) => f = s[k + 1]
        BY <2>2, <2>3
    <2>6. Promised!EarliestOf(later) = s[k + 1]
        BY <2>4, <2>5 DEF Promised!EarliestOf
    <2> QED BY <2>2, <2>6
<1>3. ASSUME ~(k < Len(s)) PROVE later = {}
    <2>1. \A j \in 1..Len(s) : ~(k < j)
        BY <1>0, <1>3
    <2> QED BY <1>0, <1>1, <2>1
<1> QED BY <1>2, <1>3

\* A tick goes to the index of the frame that is next in the loop.
LEMMA AdvanceTicks ==
    ASSUME TimelineInv, Advance
    PROVE  Promised!Ticks /\ shown' \in Frames
<1> DEFINE n == Len(stored)
           from == IF Position = 0 THEN 1 ELSE Position
           i == IF from >= n THEN LoopIndex ELSE from + 1
           fromAbs == IF Promised!Position(Now) = {} THEN {Promised!EarliestOf(ToSet(stored))}
                      ELSE {e.frame : e \in {p \in Promised!Position(Now) : ~p.painting}}
           later == {g \in ToSet(stored) : \E f \in fromAbs : g.t > f.t}
<1>0. call' = <<"advance", 0>> /\ n >= 2 /\ Pin(i) /\ UNCHANGED <<stored, partial, loopStart>>
    BY DEF Advance
<1>1. Sorted(stored) /\ partial \in Frames /\ loopStart \in Frames
    BY DEF TimelineInv
<1>2. n \in Nat /\ n # 0
    BY <1>0, <1>1, SortedIs
<1>3. Promised!EarliestOf(ToSet(stored)) = stored[1] /\ 1 \in 1..n
    BY <1>1, <1>2, EndsAre
<1>4. LoopIndex \in 1..n
      /\ stored[LoopIndex] = IF loopStart \in ToSet(stored) THEN loopStart
                             ELSE Promised!EarliestOf(ToSet(stored))
    <2>1. ToSet(stored) \subseteq Ids
        BY <1>1, SortedIs
    <2> DEFINE m == IndexOf(loopStart, stored, NoFrame)
    <2>2. LoopIndex = IF m = 0 THEN 1 ELSE m
        BY DEF LoopIndex
    <2>3. CASE loopStart \in ToSet(stored)
        <3>1. loopStart \in Ids /\ NoFrame \in Frames
            BY <2>1, <2>3 DEF Frames
        <3>2. m \in 1..n /\ stored[m] = loopStart
            BY <1>1, <2>3, <3>1, IndexIs
        <3> HIDE DEF m
        <3>3. m # 0
            BY <1>2, <3>2
        <3> QED BY <2>2, <2>3, <3>2, <3>3
    <2>4. CASE loopStart \notin ToSet(stored)
        <3>1. m = 0
            <4>1. ~\E j \in 1..n : stored[j] = loopStart
                BY <1>1, <2>4, SortedIs
            <4> QED BY <4>1 DEF IndexOf
        <3> QED BY <1>3, <2>2, <2>4, <3>1
    <2> QED BY <2>3, <2>4
<1>5. i \in 1..n /\ stored[i] = IF later # {} THEN Promised!EarliestOf(later)
                                ELSE IF loopStart \in ToSet(stored) THEN loopStart
                                ELSE Promised!EarliestOf(ToSet(stored))
    <2>1. CASE Position # 0 /\ ~(Position <= n)
        <3>1. /\ Position \in 1..Length(stored, partial)
              /\ Promised!Position(Now) = {Entry(Position)}
            BY <2>1, PositionIs DEF All
        <3>2. Entry(Position).painting = TRUE /\ Position \in Nat
            BY <1>1, <2>1, <3>1, EntryIs DEF Entry
        <3>3. later = {}
            BY <3>1, <3>2
        <3>4. i = LoopIndex
            BY <1>2, <2>1, <3>2
        <3> HIDE DEF i, later
        <3> QED BY <1>4, <3>3, <3>4
    <2>2. CASE Position = 0 \/ Position <= n
        <3>1. from \in 1..n /\ fromAbs = {stored[from]}
            <4>1. CASE Position = 0
                <5>1. Promised!Position(Now) = {}
                    BY <4>1, PositionIs
                <5> QED BY <1>3, <4>1, <5>1
            <4>2. CASE Position # 0 /\ Position <= n
                <5>1. /\ Position \in 1..Length(stored, partial)
                      /\ Promised!Position(Now) = {Entry(Position)}
                    BY <4>2, PositionIs DEF All
                <5>2. /\ Entry(Position).painting = FALSE /\ Entry(Position).frame = stored[Position]
                      /\ Position \in 1..n
                    <6>1. Position \in 1..n
                        BY <1>1, <4>2, <5>1, EntryIs
                    <6>2. Entry(Position) = [frame |-> stored[Position], painting |-> FALSE]
                        BY <4>2 DEF Entry, EntryAt
                    <6> QED BY <6>1, <6>2
                <5> QED BY <4>2, <5>1, <5>2
            <4> QED BY <2>2, <4>1, <4>2
        <3>2. later = {g \in ToSet(stored) : g.t > stored[from].t}
            BY <3>1
        <3> HIDE DEF from, later, fromAbs
        <3>3. from \in Nat
            BY <1>2, <3>1
        <3>4. CASE from < n
            <4>1. i = from + 1 /\ from + 1 \in 1..n
                BY <1>2, <3>3, <3>4
            <4>2. later # {} /\ Promised!EarliestOf(later) = stored[from + 1]
                BY <1>1, <3>1, <3>2, <3>4, NextIs
            <4> HIDE DEF i
            <4> QED BY <4>1, <4>2
        <3>5. CASE ~(from < n)
            <4>1. i = LoopIndex
                BY <1>2, <3>3, <3>5
            <4>2. later = {}
                BY <1>1, <3>1, <3>2, <3>5, NextIs
            <4> HIDE DEF i
            <4> QED BY <1>4, <4>1, <4>2
        <3> QED BY <3>4, <3>5
    <2> QED BY <2>1, <2>2
<1>6. stored[i] = Promised!NextInLoop(Now)
    <2> HIDE DEF i
    <2>1. Promised!NextInLoop(Now) = IF later # {} THEN Promised!EarliestOf(later)
                                     ELSE IF loopStart \in ToSet(stored) THEN loopStart
                                     ELSE Promised!EarliestOf(ToSet(stored))
        BY DEF Promised!NextInLoop, Now, HistOf
    <2> HIDE DEF later
    <2> QED BY <1>5, <2>1
<1>7. i \in All /\ Entry(i) = [frame |-> stored[i], painting |-> FALSE]
    <2> HIDE DEF i
    <2>1. i \in 1..Length(stored, partial) /\ i <= Len(stored)
        BY <1>2, <1>5 DEF Length
    <2> QED BY <1>1, <2>1, EntryIs DEF Entry, All
<1>8. Promised!LandsOn(Entry(i)) /\ shown' \in Frames
    <2> HIDE DEF i
    <2> QED BY <1>0, <1>7, PinLands
<1>9. Promised!Cardinality(ToSet(stored)) >= 2
    <2> DEFINE J == 1..n
               T == {stored[j] : j \in J}
    <2>1. J \in SUBSET (1..Len(stored)) /\ Cardinality(J) = n
        BY <1>2, FS_Interval
    <2>2. ToSet(stored) = T
        BY <1>1, SortedIs
    <2>3. Cardinality(T) = Cardinality(J)
        <3> HIDE DEF J
        <3> QED BY <1>1, <2>1, CountPlaces
    <2> QED BY <1>0, <2>1, <2>2, <2>3, SameCount
<1> HIDE DEF i, later, fromAbs, n
<1>10. Promised!LandsOn([frame |-> Promised!NextInLoop(Now), painting |-> FALSE])
    BY <1>6, <1>7, <1>8
<1> QED BY <1>0, <1>8, <1>9, <1>10 DEF Promised!Ticks, Now, HistOf

\* A loop starts where the history says.
LEMMA PlayPlays ==
    ASSUME TimelineInv, Play
    PROVE  Promised!Plays /\ loopStart' \in Frames
<1> DEFINE n == Len(stored)
           P == Promised!Position(Now)
           starts == {e \in P : ~e.painting /\ e.frame # Promised!LatestOf(ToSet(stored))}
           start == IF Position # 0 /\ Position < n THEN stored[Position] ELSE NoFrame
<1>0. call' = <<"play", 0>> /\ landed' = {} /\ loopStart' = start
      /\ UNCHANGED <<stored, partial, shown>>
    BY DEF Play
<1>1. Sorted(stored) /\ n \in Nat
    BY SortedIs DEF TimelineInv
<1>2. start = (IF starts = {} THEN NoFrame ELSE (CHOOSE e \in starts : TRUE).frame) /\ start \in Frames
    <2>1. CASE Position = 0
        <3>1. P = {}
            BY <2>1, PositionIs
        <3> HIDE DEF P
        <3> QED BY <2>1, <3>1 DEF Frames
    <2>2. CASE Position # 0
        <3>1. Position \in 1..Length(stored, partial) /\ P = {Entry(Position)}
            BY <2>2, PositionIs DEF All
        <3>2. CASE ~(Position <= n)
            <4>1. Entry(Position).painting = TRUE /\ Position \in Nat
                BY <1>1, <3>1, <3>2, EntryIs DEF Entry
            <4>2. starts = {}
                BY <3>1, <4>1
            <4>3. start = NoFrame
                BY <1>1, <3>2, <4>1
            <4> HIDE DEF starts, start
            <4> QED BY <4>2, <4>3 DEF Frames
        <3>3. CASE Position <= n
            <4>1. /\ Entry(Position).painting = FALSE /\ Entry(Position).frame = stored[Position]
                  /\ Position \in 1..n /\ Position \in Nat
                <5>1. Position \in 1..n /\ Position \in Nat
                    BY <1>1, <3>1, <3>3, EntryIs
                <5>2. Entry(Position) = [frame |-> stored[Position], painting |-> FALSE]
                    BY <3>3 DEF Entry, EntryAt
                <5> QED BY <5>1, <5>2
            <4>2. n # 0
                BY <1>1, <4>1
            <4>3. Promised!LatestOf(ToSet(stored)) = stored[n] /\ n \in 1..n
                BY <1>1, <4>2, EndsAre
            <4>4. stored[Position] = stored[n] => Position = n
                BY <1>1, <4>1, <4>3, SortedIs
            <4>5. CASE Position = n
                <5>1. starts = {}
                    BY <3>1, <4>1, <4>3, <4>5
                <5>2. start = NoFrame
                    BY <1>1, <4>5
                <5> HIDE DEF starts, start
                <5> QED BY <5>1, <5>2 DEF Frames
            <4>6. CASE Position # n
                <5>1. starts = {Entry(Position)}
                    BY <3>1, <4>1, <4>3, <4>4, <4>6
                <5>2. start = stored[Position]
                    BY <1>1, <3>3, <4>1, <4>6, <2>2
                <5>3. stored[Position] \in Frames
                    BY <1>1, <4>1, SortedIs DEF Frames
                <5> HIDE DEF starts, start
                <5>4. (CHOOSE e \in starts : TRUE) = Entry(Position) /\ starts # {}
                    BY <5>1
                <5> QED BY <4>1, <5>2, <5>3, <5>4
            <4> QED BY <4>5, <4>6
        <3> QED BY <3>2, <3>3
    <2> QED BY <2>1, <2>2
<1>3. Promised!StartPlayback(Now) =
        HistOf(stored, partial, shown,
               IF starts = {} THEN NoFrame ELSE (CHOOSE e \in starts : TRUE).frame)
    BY DEF Promised!StartPlayback, Now, HistOf
<1> HIDE DEF start, starts, P
<1>4. HistOf(stored', partial', shown', loopStart') = Promised!StartPlayback(Now)
    BY <1>0, <1>2, <1>3
<1> QED BY <1>0, <1>2, <1>4 DEF Promised!Plays, Now, HistOf

-----------------------------------------------------------------------------
(* Arrivals and retention *)

\* After entries left or came, the pin goes where the history's goes.
LEMMA RepinRepins ==
    ASSUME TimelineInv, Sorted(stored'), partial' \in Frames, loopStart' = loopStart,
           Repin(stored', partial')
    PROVE  /\ HistOf(stored', partial', shown', loopStart') =
                    Promised!Repin(HistOf(stored', partial', shown, loopStart))
           /\ Promised!Shows(Now, HistOf(stored', partial', shown', loopStart'))
           /\ shown' \in Frames
<1> DEFINE s == stored'
           p == partial'
           before == HistOf(s, p, shown, loopStart)
           after == HistOf(s, p, shown', loopStart)
           gone == shown # NoFrame /\ IndexOf(shown, s, p) = 0
           to == IF s = <<>> THEN NoFrame ELSE s[1]
           at == IF s = <<>> THEN {e \in Promised!Entries(after) : e.painting}
                 ELSE {e \in Promised!Entries(after) :
                        ~e.painting /\ e.frame = Promised!EarliestOf(ToSet(s))}
<1>0. Sorted(s) /\ p \in Frames /\ shown \in Frames /\ Len(s) \in Nat
    BY SortedIs DEF TimelineInv
<1>1. /\ gone => shown' = to /\ landed' = IF Length(s, p) = 0 THEN {} ELSE {EntryAt(1, s, p)}
      /\ ~gone => shown' = shown /\ landed' = {}
    BY DEF Repin
<1> HIDE DEF s, p
<1>2. gone <=> ~(shown = NoFrame \/ shown \in ToSet(s) \cup ({p} \ {NoFrame}))
    <2>1. CASE shown = NoFrame
        BY <2>1
    <2>2. CASE shown # NoFrame
        <3>1. shown \in Ids
            BY <1>0, <2>2 DEF Frames
        <3>2. IndexOf(shown, s, p) = 0 <=> shown \notin ToSet(s) /\ p # shown
            BY <1>0, <3>1, IndexIs
        <3> QED BY <2>2, <3>2
    <2> QED BY <2>1, <2>2
<1>3. s = <<>> <=> Len(s) = 0
    BY <1>0 DEF Sorted
<1>4. ToSet(s) = {} <=> s = <<>>
    <2>1. ToSet(s) = {s[i] : i \in 1..Len(s)}
        BY <1>0, SortedIs
    <2>2. Len(s) # 0 => 1 \in 1..Len(s)
        BY <1>0
    <2>3. Len(s) = 0 => 1..Len(s) = {}
        BY <1>0
    <2> QED BY <1>3, <2>1, <2>2, <2>3
<1>5. s # <<>> => /\ Promised!EarliestOf(ToSet(s)) = s[1] /\ s[1] \in ToSet(s)
                  /\ s[1] \in Ids /\ 1 \in 1..Len(s)
    <2>1. ASSUME s # <<>> PROVE Promised!EarliestOf(ToSet(s)) = s[1] /\ 1 \in 1..Len(s)
        BY <1>0, <1>3, <2>1, EndsAre
    <2> QED BY <1>0, <2>1, SortedIs
<1>6. Promised!Repin(before) = HistOf(s, p, IF gone THEN to ELSE shown, loopStart)
    <2>1. Promised!Repin(before) =
            IF shown = NoFrame \/ shown \in ToSet(s) \cup ({p} \ {NoFrame}) THEN before
            ELSE HistOf(s, p, IF ToSet(s) = {} THEN NoFrame ELSE Promised!EarliestOf(ToSet(s)),
                        loopStart)
        BY DEF Promised!Repin, Promised!Following, Promised!Listed, HistOf
    <2>2. to = IF ToSet(s) = {} THEN NoFrame ELSE Promised!EarliestOf(ToSet(s))
        BY <1>4, <1>5
    <2> HIDE DEF gone, to
    <2> QED BY <1>2, <2>1, <2>2
<1>7. gone => to # shown
    BY <1>2, <1>5
<1>8. Promised!Entries(after) = {EntryAt(i, s, p) : i \in 1..Length(s, p)}
    BY <1>0, EntriesAre
<1>9. at = IF Length(s, p) = 0 THEN {} ELSE {EntryAt(1, s, p)}
    <2>1. CASE s = <<>>
        <3>1. Len(s) = 0
            BY <1>3, <2>1
        <3>2. CASE p = NoFrame
            <4>1. Length(s, p) = 0
                BY <3>1, <3>2 DEF Length
            <4>2. Promised!Entries(after) = {}
                <5>1. 1..Length(s, p) = {}
                    BY <4>1
                <5> QED BY <1>8, <5>1
            <4> QED BY <2>1, <4>1, <4>2
        <3>3. CASE p # NoFrame
            <4>1. Length(s, p) = 1
                BY <3>1, <3>3 DEF Length
            <4>2. 1..Length(s, p) = {1}
                BY <4>1
            <4>3. EntryAt(1, s, p) = [frame |-> p, painting |-> TRUE]
                BY <3>1 DEF EntryAt
            <4>4. Promised!Entries(after) = {EntryAt(1, s, p)} /\ EntryAt(1, s, p).painting = TRUE
                BY <1>8, <4>2, <4>3
            <4> QED BY <2>1, <4>1, <4>4
        <3> QED BY <3>2, <3>3
    <2>2. CASE s # <<>>
        <3>1. Promised!EarliestOf(ToSet(s)) = s[1] /\ 1 \in 1..Len(s) /\ s[1] \in Ids
            BY <1>5, <2>2
        <3>2. Length(s, p) # 0 /\ 1 \in 1..Length(s, p) /\ 1 <= Len(s)
            BY <1>0, <3>1 DEF Length
        <3>3. EntryAt(1, s, p).painting = FALSE /\ EntryAt(1, s, p).frame = s[1]
            BY <3>2 DEF EntryAt
        <3>4. ASSUME NEW i \in 1..Length(s, p), ~EntryAt(i, s, p).painting, EntryAt(i, s, p).frame = s[1]
              PROVE  i = 1
            <4>1. i <= Len(s)
                BY <1>0, <3>4, EntryIs
            <4>2. i \in 1..Len(s) /\ EntryAt(i, s, p).frame = s[i]
                BY <1>0, <4>1, EntryIs
            <4> QED BY <1>0, <3>1, <3>4, <4>2, SortedIs
        <3>5. at = {e \in Promised!Entries(after) : ~e.painting /\ e.frame = s[1]}
            BY <2>2, <3>1
        <3> HIDE DEF at
        <3>6. EntryAt(1, s, p) \in at
            BY <1>8, <3>2, <3>3, <3>5
        <3>7. \A e \in at : e = EntryAt(1, s, p)
            BY <1>8, <3>4, <3>5
        <3> QED BY <3>2, <3>6, <3>7
    <2> QED BY <2>1, <2>2
<1>10. shown' = (IF gone THEN to ELSE shown) /\ landed' = (IF gone THEN at ELSE {})
    <2> HIDE DEF gone, at, to
    <2> QED BY <1>1, <1>9
<1>11. Promised!Shows(Now, after)
    <2>1. (gone <=> shown' # shown) /\ landed' = (IF gone THEN at ELSE {})
        <3> HIDE DEF gone, at, to
        <3> QED BY <1>7, <1>10
    <2>2. at = {e \in Promised!Entries(after) :
                    IF ToSet(s) = {} THEN e.painting
                    ELSE ~e.painting /\ e.frame = Promised!EarliestOf(ToSet(s))}
        BY <1>4
    <2> HIDE DEF gone, at
    <2>3. landed' = IF ~(shown # shown') THEN {}
                    ELSE {e \in Promised!Entries(after) :
                            IF ToSet(s) = {} THEN e.painting
                            ELSE ~e.painting /\ e.frame = Promised!EarliestOf(ToSet(s))}
        BY <2>1, <2>2
    <2> QED BY <2>3 DEF Promised!Shows, Promised!Repinned, Now, HistOf
<1>12. shown' \in Frames
    <2>1. to \in Frames
        BY <1>5 DEF Frames
    <2> HIDE DEF gone, to
    <2> QED BY <1>0, <1>10, <2>1
<1>13. HistOf(s, p, shown', loopStart) = Promised!Repin(before)
    <2> HIDE DEF gone, to
    <2> QED BY <1>6, <1>10
<1>14. HistOf(stored', partial', shown', loopStart') = after
    BY DEF s, p
<1> HIDE DEF after, before
<1>15. before = HistOf(stored', partial', shown, loopStart)
    BY DEF s, p, before
<1>16. Promised!Repin(before) = after
    BY <1>13 DEF after
<1> QED BY <1>11, <1>12, <1>14, <1>15, <1>16

\* A frame inserted joins the history, and the pin goes where it says.
LEMMA InsertJoins ==
    ASSUME TimelineInv, NEW f \in Ids, Insert(f)
    PROVE  Promised!Joins(f) /\ TimelineInv'
<1>0. call' = <<"insert", f>> /\ stored' = Inserted(f) /\ Repin(stored', partial)
      /\ UNCHANGED <<partial, loopStart>>
    BY DEF Insert
<1>1. Sorted(stored') /\ ToSet(stored') = Promised!NewestOf(ToSet(stored) \cup {f}, Ring)
    BY <1>0, InsertedGives DEF TimelineInv
<1>2. Repin(stored', partial') /\ partial' \in Frames /\ loopStart' \in Frames
    BY <1>0 DEF TimelineInv
<1>3. /\ HistOf(stored', partial', shown', loopStart') =
            Promised!Repin(HistOf(stored', partial', shown, loopStart))
      /\ Promised!Shows(Now, HistOf(stored', partial', shown', loopStart'))
      /\ shown' \in Frames
    BY <1>0, <1>1, <1>2, RepinRepins
<1>4. Promised!Insert(Now, f, Ring) = Promised!Repin(HistOf(stored', partial', shown, loopStart))
    BY <1>0, <1>1 DEF Promised!Insert, Now, HistOf
<1>5. Promised!Joins(f)
    BY <1>0, <1>3, <1>4 DEF Promised!Joins, Now, HistOf
<1> QED BY <1>1, <1>2, <1>3, <1>5 DEF TimelineInv

\* A sweep that completes leaves its place after the last for one in time order.
LEMMA CompleteCompletes ==
    ASSUME TimelineInv, NEW f \in Ids, Complete(f)
    PROVE  Promised!Completes(f) /\ TimelineInv'
<1>0. call' = <<"complete", f>> /\ partial' = NoFrame /\ stored' = Inserted(f)
      /\ Repin(stored', NoFrame) /\ loopStart' = loopStart
    BY DEF Complete
<1>1. Sorted(stored') /\ ToSet(stored') = Promised!NewestOf(ToSet(stored) \cup {f}, Ring)
    BY <1>0, InsertedGives DEF TimelineInv
<1>2. Repin(stored', partial') /\ partial' \in Frames /\ loopStart' \in Frames
    BY <1>0 DEF TimelineInv, Frames
<1>3. /\ HistOf(stored', partial', shown', loopStart') =
            Promised!Repin(HistOf(stored', partial', shown, loopStart))
      /\ Promised!Shows(Now, HistOf(stored', partial', shown', loopStart'))
      /\ shown' \in Frames
    BY <1>0, <1>1, <1>2, RepinRepins
<1>4. Promised!Complete(Now, f, Ring) = Promised!Repin(HistOf(stored', partial', shown, loopStart))
    <2>1. Promised!Complete(Now, f, Ring) =
                Promised!Insert(HistOf(stored, NoFrame, shown, loopStart), f, Ring)
        BY DEF Promised!Complete, Now, HistOf
    <2>2. Promised!Insert(HistOf(stored, NoFrame, shown, loopStart), f, Ring) =
                Promised!Repin(HistOf(stored', NoFrame, shown, loopStart))
        BY <1>1 DEF Promised!Insert, HistOf
    <2> QED BY <1>0, <2>1, <2>2
<1>5. Promised!Completes(f)
    BY <1>0, <1>3, <1>4 DEF Promised!Completes, Now, HistOf
<1> QED BY <1>1, <1>2, <1>3, <1>5 DEF TimelineInv

\* What began before the cutoff leaves, as it does from the history.
LEMMA ExpireExpires ==
    ASSUME TimelineInv, NEW cutoff \in Times, Expire(cutoff)
    PROVE  Promised!Expires(cutoff) /\ TimelineInv'
<1> DEFINE I == {i \in 1..Len(stored) : stored[i].t >= cutoff}
<1>0. call' = <<"expire", cutoff>> /\ stored' = Retain(stored, I) /\ Repin(stored', partial)
      /\ UNCHANGED <<partial, loopStart>>
    BY DEF Expire
<1>1. Sorted(stored') /\ ToSet(stored') = {stored[i] : i \in I}
    <2>1. I \in SUBSET (1..Len(stored)) /\ Sorted(stored)
        BY DEF TimelineInv
    <2> HIDE DEF I
    <2> QED BY <1>0, <2>1, RetainGives
<1>2. ToSet(stored') = Promised!Since(ToSet(stored), cutoff)
    <2>1. ToSet(stored) = {stored[i] : i \in 1..Len(stored)}
        BY SortedIs DEF TimelineInv
    <2> QED BY <1>1, <2>1 DEF Promised!Since
<1> HIDE DEF I
<1>3. Repin(stored', partial') /\ partial' \in Frames /\ loopStart' \in Frames
    BY <1>0 DEF TimelineInv
<1>4. /\ HistOf(stored', partial', shown', loopStart') =
            Promised!Repin(HistOf(stored', partial', shown, loopStart))
      /\ Promised!Shows(Now, HistOf(stored', partial', shown', loopStart'))
      /\ shown' \in Frames
    BY <1>0, <1>1, <1>3, RepinRepins
<1>5. Promised!Expire(Now, cutoff) = Promised!Repin(HistOf(stored', partial', shown, loopStart))
    BY <1>0, <1>2 DEF Promised!Expire, Now, HistOf
<1>6. Promised!Expires(cutoff)
    BY <1>0, <1>4, <1>5 DEF Promised!Expires, Now, HistOf
<1> QED BY <1>1, <1>3, <1>4, <1>6 DEF TimelineInv

\* What is outside the window or beyond the count leaves, as it does from the history.
LEMMA RetainRetains ==
    ASSUME TimelineInv, NEW newest \in Times, RetainHistory(newest)
    PROVE  Promised!Retains(newest) /\ TimelineInv'
<1> DEFINE I == {i \in 1..Len(stored) : WithinWindow(stored[i].t, newest)}
           r == Retain(stored, I)
<1>0. call' = <<"retain", newest>> /\ stored' = DrainFront(r, MaxFrames) /\ Repin(stored', partial)
      /\ UNCHANGED <<partial, loopStart>>
    BY DEF RetainHistory
<1>1. Sorted(stored) /\ \A i \in 1..Len(stored) : stored[i].t \in Int
    BY SortedIs DEF TimelineInv
<1>2. Sorted(r) /\ ToSet(r) = {stored[i] : i \in I}
    <2>1. I \in SUBSET (1..Len(stored))
        OBVIOUS
    <2> HIDE DEF I
    <2> QED BY <1>1, <2>1, RetainGives
<1>3. ToSet(r) = Promised!Within(ToSet(stored), newest, Window)
    <2>1. ToSet(stored) = {stored[i] : i \in 1..Len(stored)}
        BY <1>1, SortedIs
    <2>2. \A i \in 1..Len(stored) :
            WithinWindow(stored[i].t, newest) <=> Promised!InWindow(stored[i].t, newest, Window)
        BY <1>1, TimelineBounds DEF WithinWindow, Promised!InWindow, Times
    <2> HIDE DEF r
    <2> QED BY <1>2, <2>1, <2>2 DEF Promised!Within
<1> HIDE DEF r, I
<1>4. Sorted(stored') /\ ToSet(stored') = Promised!NewestOf(ToSet(r), MaxFrames)
    BY <1>0, <1>2, TimelineBounds, DrainGives
<1>5. Repin(stored', partial') /\ partial' \in Frames /\ loopStart' \in Frames
    BY <1>0 DEF TimelineInv
<1>6. /\ HistOf(stored', partial', shown', loopStart') =
            Promised!Repin(HistOf(stored', partial', shown, loopStart))
      /\ Promised!Shows(Now, HistOf(stored', partial', shown', loopStart'))
      /\ shown' \in Frames
    BY <1>0, <1>4, <1>5, RepinRepins
<1>7. Promised!RetainHistory(Now, newest, Window, MaxFrames) =
            Promised!Repin(HistOf(stored', partial', shown, loopStart))
    BY <1>0, <1>3, <1>4 DEF Promised!RetainHistory, Now, HistOf
<1>8. Promised!Retains(newest)
    BY <1>0, <1>6, <1>7 DEF Promised!Retains, Now, HistOf
<1> QED BY <1>4, <1>5, <1>6, <1>8 DEF TimelineInv

-----------------------------------------------------------------------------
\* A new timeline, in time order, is a history of its ring's newest frames.
LEMMA InitIsPromised ==
    ASSUME Init
    PROVE  Promised!Init /\ TimelineInv
<1> DEFINE all == [t \in Times |-> [src |-> Source, t |-> t]]
<1>0. PICK T \in SUBSET Times : Cardinality(T) <= Ring /\ stored = Retain(all, T)
    BY DEF Init
<1>1. partial = NoFrame /\ shown = NoFrame /\ loopStart = NoFrame /\ landed = {} /\ call = <<"new", 0>>
    BY DEF Init
<1>2. MaxTime \in Nat /\ Times = 1..MaxTime
    BY TimelineBounds DEF Times
<1>3. all \in [1..MaxTime -> Ids] /\ \A t \in 1..MaxTime : all[t].t = t
    BY <1>2 DEF Ids
<1> HIDE DEF all
<1>4. all \in Seq(Ids) /\ Len(all) = MaxTime
    BY <1>2, <1>3
<1>5. Sorted(all)
    BY <1>3, <1>4 DEF Sorted
<1>6. T \in SUBSET (1..Len(all))
    BY <1>2, <1>4
<1>7. Sorted(stored) /\ ToSet(stored) = {all[t] : t \in T}
    BY <1>0, <1>5, <1>6, RetainGives
<1>8. Cardinality({all[t] : t \in T}) = Cardinality(T)
    BY <1>5, <1>6, CountPlaces
<1>9. ToSet(stored) \subseteq Ids
    BY <1>7, SortedIs
<1>10. Promised!Frame = Ids
    BY DEF Promised!Frame, Promised!Times, Ids, Times
<1>11. Promised!Cardinality(ToSet(stored)) <= Ring
    BY <1>0, <1>7, <1>8, SameCount
<1>12. Now = Promised!NewHistory(ToSet(stored))
    BY <1>1 DEF Now, HistOf, Promised!NewHistory
<1>13. Now \in {Promised!NewHistory(S) :
                    S \in {R \in SUBSET Promised!Frame : Promised!Cardinality(R) <= Ring}}
    BY <1>9, <1>10, <1>11, <1>12
<1>14. Promised!Init
    BY <1>1, <1>13 DEF Promised!Init, Now, HistOf
<1> QED BY <1>1, <1>7, <1>14 DEF TimelineInv, Frames

\* Every operation is the promised one, and keeps the order of the Vec.
LEMMA NextIsPromised ==
    ASSUME TimelineInv, Next
    PROVE  Promised!Next /\ TimelineInv'
<1>0. Promised!Frame = Ids /\ Promised!Times = Times
    BY DEF Promised!Frame, Promised!Times, Ids, Times
<1>1. CASE \E delta \in -MaxTime..MaxTime : Step(delta)
    <2>1. PICK delta \in -MaxTime..MaxTime : Step(delta)
        BY <1>1
    <2>2. Promised!Steps(delta) /\ shown' \in Frames /\ UNCHANGED <<stored, partial, loopStart>>
        BY <2>1, StepSteps DEF Step
    <2>3. Promised!Next
        BY <2>2 DEF Promised!Next
    <2>4. TimelineInv'
        BY <2>2 DEF TimelineInv
    <2> QED BY <2>3, <2>4
<1>2. CASE \E f \in Ids : Seek(f)
    <2>1. PICK f \in Ids : Seek(f)
        BY <1>2
    <2>2. Promised!Seeks(f) /\ shown' \in Frames /\ UNCHANGED <<stored, partial, loopStart>>
        BY <2>1, SeekSeeks DEF Seek
    <2>3. Promised!Next
        BY <1>0, <2>2 DEF Promised!Next
    <2>4. TimelineInv'
        BY <2>2 DEF TimelineInv
    <2> QED BY <2>3, <2>4
<1>3. CASE Play
    <2>1. Promised!Plays /\ loopStart' \in Frames /\ UNCHANGED <<stored, partial, shown>>
        BY <1>3, PlayPlays DEF Play
    <2>2. Promised!Next
        BY <2>1 DEF Promised!Next
    <2>3. TimelineInv'
        BY <2>1 DEF TimelineInv
    <2> QED BY <2>2, <2>3
<1>4. CASE Advance
    <2>1. Promised!Ticks /\ shown' \in Frames /\ UNCHANGED <<stored, partial, loopStart>>
        BY <1>4, AdvanceTicks DEF Advance
    <2>2. Promised!Next
        BY <2>1 DEF Promised!Next
    <2>3. TimelineInv'
        BY <2>1 DEF TimelineInv
    <2> QED BY <2>2, <2>3
<1>5. CASE \E f \in Ids : Begin(f)
    <2>1. PICK f \in Ids : Begin(f)
        BY <1>5
    <2>2. /\ call' = <<"begin", f>> /\ partial' = f /\ landed' = {}
          /\ UNCHANGED <<stored, shown, loopStart>>
        BY <2>1 DEF Begin
    <2>3. Promised!Grows(f)
        BY <2>2 DEF Promised!Grows, Promised!Begin
    <2>4. Promised!Next
        BY <1>0, <2>3 DEF Promised!Next
    <2>5. TimelineInv'
        BY <2>2 DEF TimelineInv, Frames
    <2> QED BY <2>4, <2>5
<1>6. CASE \E f \in Ids : Complete(f)
    <2>1. PICK f \in Ids : Complete(f)
        BY <1>6
    <2>2. Promised!Completes(f) /\ TimelineInv'
        BY <2>1, CompleteCompletes
    <2> QED BY <1>0, <2>2 DEF Promised!Next
<1>7. CASE \E f \in Ids : Insert(f)
    <2>1. PICK f \in Ids : Insert(f)
        BY <1>7
    <2>2. Promised!Joins(f) /\ TimelineInv'
        BY <2>1, InsertJoins
    <2> QED BY <1>0, <2>2 DEF Promised!Next
<1>8. CASE \E t \in Times : Expire(t)
    <2>1. PICK t \in Times : Expire(t)
        BY <1>8
    <2>2. Promised!Expires(t) /\ TimelineInv'
        BY <2>1, ExpireExpires
    <2> QED BY <1>0, <2>2 DEF Promised!Next
<1>9. CASE \E t \in Times : RetainHistory(t)
    <2>1. PICK t \in Times : RetainHistory(t)
        BY <1>9
    <2>2. Promised!Retains(t) /\ TimelineInv'
        BY <2>1, RetainRetains
    <2> QED BY <1>0, <2>2 DEF Promised!Next
<1> QED BY <1>1, <1>2, <1>3, <1>4, <1>5, <1>6, <1>7, <1>8, <1>9 DEF Next

\* The Vec, with its indices, clamps, partition points and drains (struct
\* Timeline of main.rs), lands a tick, a step, a seek or a repin on the frame
\* that the set of listed frames says, whatever was inserted or dropped.
THEOREM VecKeepsItsPromise == Spec => ImplementsHistory
<1>1. Init => Promised!Init /\ TimelineInv
    BY InitIsPromised
<1>2. TimelineInv /\ [Next]_vars => TimelineInv' /\ [Promised!Next]_<<
            [stored |-> ToSet(stored), partial |-> partial, shown |-> shown, loopStart |-> loopStart],
            landed, call>>
    <2>1. CASE Next
        BY <2>1, NextIsPromised
    <2>2. CASE UNCHANGED vars
        BY <2>2 DEF vars, TimelineInv
    <2> QED BY <2>1, <2>2
<1> QED BY <1>1, <1>2, PTL DEF Spec, ImplementsHistory, Promised!Spec

\* The entries stay in time order, each id once: what partition_point and the
\* drain of the ring rely on.
THEOREM VecStaysSorted == Spec => []Sorted(stored)
<1>1. Init => TimelineInv
    BY InitIsPromised
<1>2. TimelineInv /\ [Next]_vars => TimelineInv'
    <2>1. CASE Next
        BY <2>1, NextIsPromised
    <2>2. CASE UNCHANGED vars
        BY <2>2 DEF vars, TimelineInv
    <2> QED BY <2>1, <2>2
<1>3. TimelineInv => Sorted(stored)
    BY DEF TimelineInv
<1> QED BY <1>1, <1>2, <1>3, PTL DEF Spec
=============================================================================
