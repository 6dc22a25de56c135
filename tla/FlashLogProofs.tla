--------------------------- MODULE FlashLogProofs ---------------------------
(***************************************************************************)
(* Proofs about FlashLog, for every geometry of the partition, every set   *)
(* of entry sizes, every queue and any number of events, with a restart at *)
(* any point.  LogInv holds until a scan does not find the head, which     *)
(* cannot be before the ring was full; the types hold ever after.          *)
(***************************************************************************)
EXTENDS FlashLog, FiniteSetTheorems, SequenceTheorems, WellFoundedInduction, TLAPS

Start(x) == SectorEnd(x) - SectorCells

(***************************************************************************)
(* SECTORS.  Every address lies in one sector, between its first cell and  *)
(* its end.                                                                *)
(***************************************************************************)
LEMMA Geometry ==
  /\ SectorCells \in Nat /\ SectorCells > 0
  /\ NumSectors \in Nat /\ NumSectors > 0
  /\ Size \in Nat /\ Size > 0
  /\ \A size \in Sizes : size \in Nat /\ 2 <= size /\ size < SectorCells
<1>1. \A n, d \in Nat : n > 0 /\ d > 0 => n * d \in Nat /\ n * d > 0
  OBVIOUS
<1>2. QED
  BY <1>1, GeometryAssumption DEF Size

LEMMA Multiples ==
  ASSUME NEW p \in Nat, NEW q \in Nat, NEW d \in Nat, d > 0
  PROVE  /\ p * d \in Nat
         /\ p < q <=> p * d + d <= q * d
         /\ p = q <=> p * d = q * d
         /\ (p + 1) * d = p * d + d
<1>1. p < q => p * d + d <= q * d
  OBVIOUS
<1>2. q < p => q * d + d <= p * d
  OBVIOUS
<1>3. p * d \in Nat /\ q * d \in Nat /\ (p + 1) * d = p * d + d
  OBVIOUS
<1>4. QED
  BY <1>1, <1>2, <1>3

LEMMA Division ==
  ASSUME NEW x \in Nat, NEW d \in Nat, d > 0
  PROVE  \E s \in Nat : s = x \div d /\ s * d <= x /\ x < s * d + d
<1>1. x \div d \in Nat
  OBVIOUS
<1>2. x % d \in 0..(d - 1) /\ x = d * (x \div d) + (x % d)
  OBVIOUS
<1>3. d * (x \div d) = (x \div d) * d /\ d * (x \div d) \in Nat
  BY <1>1
<1>4. QED
  BY <1>1, <1>2, <1>3

LEMMA SectorOf ==
  ASSUME NEW x \in Nat
  PROVE  \E s \in Nat :
           /\ s = x \div SectorCells
           /\ s * SectorCells \in Nat /\ s * SectorCells <= x
           /\ x < s * SectorCells + SectorCells
           /\ SectorEnd(x) = s * SectorCells + SectorCells
           /\ Start(x) = s * SectorCells
<1>1. PICK s \in Nat : s = x \div SectorCells /\ s * SectorCells <= x
                         /\ x < s * SectorCells + SectorCells
  BY Division, Geometry
<1>2. s * SectorCells \in Nat /\ (s + 1) * SectorCells = s * SectorCells + SectorCells
  BY Multiples, Geometry
<1>3. QED
  BY <1>1, <1>2, Geometry DEF SectorEnd, Start

LEMMA SectorBounds ==
  ASSUME NEW x \in Nat
  PROVE  /\ Start(x) \in Nat /\ SectorEnd(x) \in Nat
         /\ Start(x) <= x /\ x < SectorEnd(x)
         /\ SectorEnd(x) = Start(x) + SectorCells
<1>1. PICK s \in Nat : /\ s * SectorCells \in Nat /\ s * SectorCells <= x
                       /\ x < s * SectorCells + SectorCells
                       /\ SectorEnd(x) = s * SectorCells + SectorCells
                       /\ Start(x) = s * SectorCells
  BY SectorOf
<1>2. QED
  BY <1>1, Geometry

LEMMA SectorInside ==
  ASSUME NEW x \in Cells
  PROVE  /\ x \in Nat /\ SectorEnd(x) <= Size /\ Start(x) \in Cells
<1>1. x \in Nat /\ x < Size
  BY Geometry DEF Cells
<1>2. PICK s \in Nat : /\ s * SectorCells \in Nat /\ s * SectorCells <= x
                       /\ SectorEnd(x) = s * SectorCells + SectorCells
                       /\ Start(x) = s * SectorCells
  BY <1>1, SectorOf
<1>3. ~(NumSectors <= s)
  <2> SUFFICES ASSUME NumSectors <= s PROVE FALSE
    OBVIOUS
  <2>1. NumSectors * SectorCells <= s * SectorCells
    BY Multiples, Geometry
  <2>2. QED
    BY <2>1, <1>1, <1>2, Geometry DEF Size
<1>4. s * SectorCells + SectorCells <= NumSectors * SectorCells
  BY <1>3, Multiples, Geometry
<1>5. QED
  BY <1>1, <1>2, <1>4, Geometry DEF Size, Cells

LEMMA SectorUnique ==
  ASSUME NEW x \in Nat, NEW s \in Nat,
         s * SectorCells <= x, x < s * SectorCells + SectorCells
  PROVE  Start(x) = s * SectorCells
<1>1. PICK t \in Nat : /\ t * SectorCells \in Nat /\ t * SectorCells <= x
                       /\ x < t * SectorCells + SectorCells
                       /\ Start(x) = t * SectorCells
  BY SectorOf
<1>2. s * SectorCells \in Nat
  BY Multiples, Geometry
<1>3. ~(s < t) /\ ~(t < s)
  BY <1>1, <1>2, Multiples, Geometry
<1>4. QED
  BY <1>1, <1>3

LEMMA SameSector ==
  ASSUME NEW x \in Nat, NEW y \in Nat, Start(x) <= y, y < SectorEnd(x)
  PROVE  Start(y) = Start(x) /\ SectorEnd(y) = SectorEnd(x)
<1>1. PICK s \in Nat : Start(x) = s * SectorCells /\ SectorEnd(x) = s * SectorCells + SectorCells
  BY SectorOf
<1>2. Start(y) = Start(x)
  BY <1>1, SectorUnique
<1>3. QED
  BY <1>2, SectorBounds

LEMMA LaterSector ==
  ASSUME NEW x \in Nat, NEW y \in Nat, SectorEnd(x) <= y
  PROVE  SectorEnd(x) <= Start(y)
<1>1. PICK s \in Nat : /\ s * SectorCells \in Nat
                       /\ SectorEnd(x) = s * SectorCells + SectorCells
  BY SectorOf
<1>2. PICK t \in Nat : /\ t * SectorCells \in Nat /\ y < t * SectorCells + SectorCells
                       /\ Start(y) = t * SectorCells
  BY SectorOf
<1>3. ~(t <= s)
  BY <1>1, <1>2, Multiples, Geometry
<1>4. s * SectorCells + SectorCells <= t * SectorCells
  BY <1>3, Multiples, Geometry
<1>5. QED
  BY <1>1, <1>2, <1>4

LEMMA NextSector ==
  ASSUME NEW x \in Nat
  PROVE  Start(SectorEnd(x)) = SectorEnd(x) /\ Start(0) = 0
<1>1. SectorEnd(x) <= Start(SectorEnd(x))
  BY SectorBounds, LaterSector
<1>2. Start(0) \in Nat /\ Start(0) <= 0
  BY SectorBounds
<1>3. QED
  BY <1>1, <1>2, SectorBounds

LEMMA FirstOfSector ==
  ASSUME NEW x \in Nat
  PROVE  Start(Start(x)) = Start(x) /\ SectorEnd(Start(x)) = SectorEnd(x)
<1>1. Start(x) \in Nat /\ Start(x) < SectorEnd(x) /\ Start(x) <= Start(x)
  BY SectorBounds, Geometry
<1>2. QED
  BY <1>1, SameSector

-----------------------------------------------------------------------------
(***************************************************************************)
(* COUNTING.  A finite set of numbers has a k-th smallest for every k up   *)
(* to its size, and how it moves when a number is added at the end or all  *)
(* numbers move down.                                                      *)
(***************************************************************************)
LEMMA RankRange ==
  ASSUME NEW S \in SUBSET Nat, IsFiniteSet(S), NEW i \in S
  PROVE  /\ IsFiniteSet({j \in S : j <= i})
         /\ Cardinality(S) \in Nat
         /\ Rank(S, i) \in 1..Cardinality(S)
<1> DEFINE A == {j \in S : j <= i}
<1>1. A \in SUBSET S /\ A # {}
  OBVIOUS
<1>2. IsFiniteSet(A) /\ Cardinality(A) <= Cardinality(S)
  BY <1>1, FS_Subset
<1>3. Cardinality(A) \in Nat /\ Cardinality(S) \in Nat /\ Cardinality(A) # 0
  BY <1>1, <1>2, FS_CardinalityType, FS_EmptySet
<1>4. QED
  BY <1>2, <1>3 DEF Rank

LEMMA RankGrows ==
  ASSUME NEW S \in SUBSET Nat, IsFiniteSet(S), NEW i \in S, NEW j \in S, i < j
  PROVE  Rank(S, i) < Rank(S, j)
<1> DEFINE A == {n \in S : n <= i}
           B == {n \in S : n <= j}
<1>1. i \in Nat /\ j \in Nat /\ \A k \in S : k \in Nat
  OBVIOUS
<1>2. A \in SUBSET B
  <2>1. \A k \in Nat : k <= i => k <= j
    BY <1>1
  <2>2. QED
    BY <2>1, <1>1
<1>3. j \in B /\ j \notin A
  BY <1>1
<1>4. IsFiniteSet(B) /\ IsFiniteSet(A)
  BY RankRange
<1>5. Cardinality(A) <= Cardinality(B) /\ Cardinality(B) # Cardinality(A)
  BY <1>2, <1>3, <1>4, FS_Subset
<1>6. Cardinality(A) \in Nat /\ Cardinality(B) \in Nat
  BY <1>4, FS_CardinalityType
<1>7. QED
  BY <1>5, <1>6 DEF Rank

LEMMA NthIs ==
  ASSUME NEW S \in SUBSET Nat, IsFiniteSet(S), NEW k \in 1..Cardinality(S)
  PROVE  /\ Nth(S, k) \in S
         /\ Rank(S, Nth(S, k)) = k
         /\ \A i \in S : Rank(S, i) = k => Nth(S, k) = i
<1> DEFINE n == Cardinality(S)
           f == [i \in S |-> Rank(S, i)]
<1>1. n \in Nat
  BY FS_CardinalityType
<1>2. f \in [S -> 1..n]
  BY RankRange
<1>3. \A i, j \in S : i # j => Rank(S, i) # Rank(S, j)
  <2> SUFFICES ASSUME NEW i \in S, NEW j \in S, i # j PROVE Rank(S, i) # Rank(S, j)
    OBVIOUS
  <2>1. i < j \/ j < i
    OBVIOUS
  <2>2. Rank(S, i) \in 1..n /\ Rank(S, j) \in 1..n
    BY RankRange
  <2>3. QED
    BY <1>1, <2>1, <2>2, RankGrows
<1>4. f \in Injection(S, 1..n)
  BY <1>2, <1>3 DEF Injection, IsInjective
<1>5. IsFiniteSet(1..n) /\ Cardinality(1..n) = n
  BY <1>1, FS_Interval
<1>6. f \in Surjection(S, 1..n)
  BY <1>4, <1>5, FS_Injection
<1>7. PICK i \in S : Rank(S, i) = k
  BY <1>6 DEF Surjection
<1>8. Nth(S, k) \in S /\ Rank(S, Nth(S, k)) = k
  BY <1>7 DEF Nth
<1>9. QED
  BY <1>3, <1>8

\* A larger number is added.
LEMMA NthOfLonger ==
  ASSUME NEW S \in SUBSET Nat, IsFiniteSet(S), NEW p \in Nat, \A i \in S : i < p
  PROVE  /\ IsFiniteSet(S \union {p})
         /\ Cardinality(S) \in Nat
         /\ Cardinality(S \union {p}) = Cardinality(S) + 1
         /\ Nth(S \union {p}, Cardinality(S) + 1) = p
         /\ \A k \in 1..Cardinality(S) : Nth(S \union {p}, k) = Nth(S, k)
<1> DEFINE T == S \union {p}
           n == Cardinality(S)
<1>1. p \notin S
  OBVIOUS
<1>2. n \in Nat /\ IsFiniteSet(T) /\ Cardinality(T) = n + 1
  BY <1>1, FS_AddElement, FS_CardinalityType
<1>3. {j \in T : j <= p} = T
  <2>1. \A j \in T : j <= p
    OBVIOUS
  <2>2. QED
    BY <2>1
<1>4. Rank(T, p) = n + 1
  BY <1>2, <1>3 DEF Rank
<1>5. \A i \in S : Rank(T, i) = Rank(S, i)
  <2> SUFFICES ASSUME NEW i \in S PROVE Rank(T, i) = Rank(S, i)
    OBVIOUS
  <2>1. {j \in T : j <= i} = {j \in S : j <= i}
    OBVIOUS
  <2>2. QED
    BY <2>1 DEF Rank
<1>6. T \in SUBSET Nat /\ p \in T /\ S \subseteq T
  OBVIOUS
<1> HIDE DEF T
<1>7. Nth(T, n + 1) = p
  BY <1>2, <1>4, <1>6, NthIs
<1>8. ASSUME NEW k \in 1..n PROVE Nth(T, k) = Nth(S, k)
  <2>1. k \in 1..Cardinality(T)
    BY <1>2
  <2>2. Nth(S, k) \in S /\ Rank(S, Nth(S, k)) = k
    BY NthIs
  <2>3. Rank(T, Nth(S, k)) = k
    BY <2>2, <1>5
  <2>4. \A i \in T : Rank(T, i) = k => Nth(T, k) = i
    BY <2>1, <1>2, <1>6, NthIs
  <2>5. QED
    BY <2>2, <2>3, <2>4, <1>6
<1>9. QED
  BY <1>2, <1>7, <1>8 DEF T

\* All numbers move down by d, and those up to d are lost.
MovedDown(T, S, d) == \A i \in Nat : i \in T <=> i > 0 /\ i + d \in S

LEMMA NthOfShifted ==
  ASSUME NEW S \in SUBSET Nat, IsFiniteSet(S), NEW T \in SUBSET Nat, NEW d \in Nat,
         MovedDown(T, S, d)
  PROVE  \E n \in Nat :
           /\ n = Cardinality({i \in S : i <= d})
           /\ IsFiniteSet(T) /\ Cardinality(T) \in Nat
           /\ Cardinality(S) = n + Cardinality(T)
           /\ \A k \in 1..Cardinality(T) : Nth(T, k) + d = Nth(S, k + n)
<1> DEFINE Low  == {i \in S : i <= d}
           High == {i \in S : i > d}
           n    == Cardinality(Low)
<1> USE DEF MovedDown
<1>1. Low \in SUBSET S /\ High \in SUBSET S /\ Low \cap High = {} /\ Low \union High = S
  <2>1. \A i \in S : (i <= d /\ ~(i > d)) \/ (i > d /\ ~(i <= d))
    OBVIOUS
  <2>2. QED
    BY <2>1
<1>2. IsFiniteSet(Low) /\ IsFiniteSet(High)
  BY <1>1, FS_Subset
<1>3. /\ n \in Nat /\ Cardinality(High) \in Nat /\ Cardinality(S) \in Nat
      /\ Cardinality(S) = n + Cardinality(High)
  <2>1. Cardinality(Low \cap High) = 0
    BY <1>1, FS_EmptySet
  <2>2. Cardinality(S) = n + Cardinality(High) - 0
    BY <1>1, <1>2, <2>1, FS_Union
  <2>3. QED
    BY <1>2, <2>2, FS_CardinalityType
\* Moving down is a bijection, of all of High and of the part up to any number.
<1>4. ASSUME NEW A \in SUBSET High, NEW B \in SUBSET T,
             \A i \in T : i \in B <=> i + d \in A
      PROVE  IsFiniteSet(B) /\ Cardinality(B) = Cardinality(A)
  <2> DEFINE f == [i \in A |-> i - d]
  <2>1. IsFiniteSet(A)
    BY <1>2, FS_Subset
  <2>2. \A i \in A : i \in Nat /\ i > d /\ i - d \in Nat /\ i - d > 0 /\ (i - d) + d = i
    OBVIOUS
  <2>3. f \in [A -> B]
    BY <2>2, <1>4, <1>1
  <2>4. \A i, j \in A : f[i] = f[j] => i = j
    BY <2>2
  <2>5. \A b \in B : \E a \in A : f[a] = b
    <3> SUFFICES ASSUME NEW b \in B PROVE \E a \in A : f[a] = b
      OBVIOUS
    <3>1. b + d \in A /\ b \in Nat
      BY <1>4
    <3>2. f[b + d] = b
      BY <3>1
    <3>3. QED
      BY <3>1, <3>2
  <2>6. f \in Bijection(A, B)
    BY <2>3, <2>4, <2>5 DEF Bijection, Injection, Surjection, IsInjective
  <2>7. QED
    BY <2>1, <2>6, FS_Bijection DEF ExistsBijection
<1>5. IsFiniteSet(T) /\ Cardinality(T) = Cardinality(High)
  <2>1. \A i \in T : i + d \in High
    OBVIOUS
  <2>2. High \in SUBSET High /\ T \in SUBSET T /\ \A i \in T : i \in T <=> i + d \in High
    BY <2>1
  <2> HIDE DEF High
  <2>3. QED
    BY <2>2, <1>4, Zenon
<1>6. ASSUME NEW i \in T PROVE i + d \in S /\ Rank(S, i + d) = Rank(T, i) + n
  <2> DEFINE A == {j \in High : j <= i + d}
             B == {j \in T : j <= i}
  <2>1. i \in Nat /\ i > 0 /\ i + d \in S
    OBVIOUS
  <2>2. \A j \in T : j \in B <=> j + d \in A
    BY <2>1
  <2>3. IsFiniteSet(B) /\ Cardinality(B) = Cardinality(A)
    BY <2>2, <1>4
  <2>4. {j \in S : j <= i + d} = Low \union A /\ Low \cap A = {}
    <3>1. \A j \in S : j <= d => j <= i + d
      BY <2>1
    <3>2. \A j \in S : (j <= d /\ ~(j > d)) \/ (j > d /\ ~(j <= d))
      OBVIOUS
    <3>3. QED
      BY <3>1, <3>2
  <2>5. IsFiniteSet(A)
    BY <1>2, FS_Subset
  <2>6. Cardinality(Low \cap A) = 0
    BY <2>4, FS_EmptySet
  <2>7. Cardinality(Low \union A) = n + Cardinality(A) - 0
    BY <1>2, <2>5, <2>6, FS_Union
  <2>8. Cardinality(A) \in Nat
    BY <2>5, FS_CardinalityType
  <2>9. Rank(S, i + d) = Cardinality(Low \union A) /\ Rank(T, i) = Cardinality(B)
    BY <2>4 DEF Rank
  <2>10. QED
    BY <2>1, <2>3, <2>7, <2>8, <2>9, <1>3
<1>7. ASSUME NEW k \in 1..Cardinality(T) PROVE Nth(T, k) + d = Nth(S, k + n)
  <2>1. Nth(T, k) \in T /\ Rank(T, Nth(T, k)) = k
    BY <1>5, NthIs
  <2>2. Nth(T, k) + d \in S /\ Rank(S, Nth(T, k) + d) = k + n
    BY <2>1, <1>6
  <2>3. k + n \in 1..Cardinality(S)
    BY <1>3, <1>5
  <2>4. \A i \in S : Rank(S, i) = k + n => Nth(S, k + n) = i
    BY <2>3, NthIs
  <2>5. QED
    BY <2>2, <2>4
<1>8. QED
  BY <1>3, <1>5, <1>7

-----------------------------------------------------------------------------
(***************************************************************************)
(* SEARCHING.  The loops of log_init as recursive functions: they exist,   *)
(* and they return what they look for.                                     *)
(***************************************************************************)
LEMMA LeastNumber ==
  ASSUME NEW S \in SUBSET Nat, S # {}
  PROVE  \E least \in S : \A k \in S : least <= k
<1>1. PICK m \in S : \A k \in S : ~(<<k, m>> \in OpToRel(<, Nat))
  BY NatLessThanWellFounded, WFMin
<1>2. ASSUME NEW k \in S PROVE ~(k < m)
  BY <1>1 DEF OpToRel
<1>3. QED
  BY <1>2

(***************************************************************************)
(* A function that recurses to ever smaller places until it stops: it      *)
(* exists, and what it gives is what it gives where it stops.              *)
(***************************************************************************)
Recurses(f, S, stop, val, next) ==
  f = [x \in S |-> IF x \in stop THEN val[x] ELSE f[next[x]]]

LEMMA RecursionExists ==
  ASSUME NEW S, NEW stop, NEW val, NEW next, NEW far, NEW bound \in Nat,
         \A x \in S : far[x] \in Nat /\ far[x] < bound,
         \A x \in S : x \in stop \/ (next[x] \in S /\ far[next[x]] < far[x])
  PROVE  \E f : Recurses(f, S, stop, val, next)
<1> DEFINE Near(m) == {x \in S : far[x] < m}
           Good == {m \in Nat : \E f : Recurses(f, Near(m), stop, val, next)}
           Bad == {m \in Nat : m \notin Good}
<1>1. 0 \in Good
  <2>1. Near(0) = {}
    OBVIOUS
  <2> DEFINE f == [x \in {} |-> 0]
  <2>2. f = [x \in Near(0) |-> IF x \in stop THEN val[x] ELSE f[next[x]]]
    BY <2>1
  <2>3. Recurses(f, Near(0), stop, val, next)
    BY <2>2 DEF Recurses
  <2>4. QED
    BY <2>3
<1>2. ASSUME NEW m \in Nat, m \in Good PROVE m + 1 \in Good
  <2>1. PICK f : Recurses(f, Near(m), stop, val, next)
    BY <1>2
  <2> DEFINE g == [x \in Near(m + 1) |-> IF x \in stop THEN val[x] ELSE f[next[x]]]
  <2>2. \A x \in Near(m) : f[x] = IF x \in stop THEN val[x] ELSE f[next[x]]
    BY <2>1 DEF Recurses
  <2>3. \A x \in Near(m) : x \in Near(m + 1) /\ g[x] = f[x]
    BY <2>2
  <2>4. \A x \in Near(m + 1) : x \notin stop => next[x] \in Near(m)
    OBVIOUS
  <2>5. ASSUME NEW x \in Near(m + 1)
        PROVE  g[x] = IF x \in stop THEN val[x] ELSE g[next[x]]
    <3>1. x \notin stop => g[next[x]] = f[next[x]]
      BY <2>3, <2>4
    <3> HIDE DEF Near
    <3>2. QED
      BY <3>1
  <2>6. g = [x \in Near(m + 1) |-> IF x \in stop THEN val[x] ELSE g[next[x]]]
    BY <2>5
  <2> HIDE DEF g
  <2>7. Recurses(g, Near(m + 1), stop, val, next)
    BY <2>6 DEF Recurses
  <2>8. \E h : Recurses(h, Near(m + 1), stop, val, next)
    BY <2>7
  <2>9. m + 1 \in Nat
    OBVIOUS
  <2> HIDE DEF Near
  <2>10. QED
    BY <2>8, <2>9
<1> HIDE DEF Good
<1>3. ASSUME Bad # {} PROVE FALSE
  <2>1. PICK m \in Bad : \A k \in Bad : m <= k
    BY <1>3, LeastNumber
  <2>2. m # 0
    BY <1>1, <2>1
  <2>3. PICK p \in Nat : m = p + 1
    <3>1. m - 1 \in Nat /\ m = (m - 1) + 1
      BY <2>1, <2>2
    <3>2. QED
      BY <3>1
  <2>4. p \in Good
    BY <2>1, <2>3
  <2>5. QED
    BY <1>2, <2>1, <2>3, <2>4
<1>4. bound \in Good
  BY <1>3
<1>5. Near(bound) = S
  OBVIOUS
<1>6. QED
  BY <1>4, <1>5 DEF Good

LEMMA RecursionGives ==
  ASSUME NEW S, NEW stop, NEW val, NEW next, NEW far, NEW V, NEW T \in SUBSET S,
         \A x \in T : far[x] \in Nat,
         \A x \in T : IF x \in stop THEN val[x] \in V
                                    ELSE next[x] \in T /\ far[next[x]] < far[x],
         NEW f, Recurses(f, S, stop, val, next)
  PROVE  \A x \in T : f[x] \in V
<1> DEFINE Wrong == {d \in Nat : \E x \in T : d = far[x] /\ f[x] \notin V}
<1>1. ASSUME Wrong # {} PROVE FALSE
  <2>1. PICK d \in Wrong : \A e \in Wrong : d <= e
    BY <1>1, LeastNumber
  <2>2. PICK x \in T : d = far[x] /\ f[x] \notin V
    BY <2>1
  <2>3. f[x] = IF x \in stop THEN val[x] ELSE f[next[x]]
    BY DEF Recurses
  <2>4. x \notin stop /\ next[x] \in T /\ far[next[x]] < far[x] /\ f[next[x]] \notin V
    BY <2>2, <2>3
  <2>5. far[next[x]] \in Wrong
    BY <2>4
  <2>6. QED
    BY <2>1, <2>2, <2>4, <2>5
<1>2. QED
  BY <1>1

LEMMA Midpoint ==
  ASSUME NEW l \in Nat, NEW r \in Nat, l <= r
  PROVE  /\ (l + r) \div 2 \in Nat
         /\ l <= (l + r) \div 2 /\ (l + r) \div 2 <= r
         /\ l < r => (l + r) \div 2 < r
  OBVIOUS

\* The bisection for the first place that is not full.
Bisects(f, n, full) ==
  f = [i \in (0..n) \X (0..n) |->
         IF i[1] >= i[2] THEN i[1]
         ELSE IF (i[1] + i[2]) \div 2 \in full THEN f[<<(i[1] + i[2]) \div 2 + 1, i[2]>>]
                                               ELSE f[<<i[1], (i[1] + i[2]) \div 2>>]]

LEMMA BisectionExists ==
  ASSUME NEW n \in Nat, NEW k \in Nat,
         NEW full, \A s \in 0..(n - 1) : s \in full <=> s < k
  PROVE  \E f : Bisects(f, n, full)
<1> DEFINE f == [i \in (0..n) \X (0..n) |->
                   IF i[1] >= i[2] \/ k < i[1] THEN i[1] ELSE IF k > i[2] THEN i[2] ELSE k]
<1>1. ASSUME NEW i \in (0..n) \X (0..n)
      PROVE  f[i] = IF i[1] >= i[2] THEN i[1]
                    ELSE IF (i[1] + i[2]) \div 2 \in full
                         THEN f[<<(i[1] + i[2]) \div 2 + 1, i[2]>>]
                         ELSE f[<<i[1], (i[1] + i[2]) \div 2>>]
  <2> DEFINE l == i[1]
             r == i[2]
             m == (l + r) \div 2
  <2>1. l \in 0..n /\ r \in 0..n
    OBVIOUS
  <2>2. \A a, b \in 0..n : f[<<a, b>>] =
          IF a >= b \/ k < a THEN a ELSE IF k > b THEN b ELSE k
    OBVIOUS
  <2>3. f[i] = IF l >= r \/ k < l THEN l ELSE IF k > r THEN r ELSE k
    OBVIOUS
  <2> HIDE DEF f, l, r
  <2>4. CASE l >= r
    BY <2>3, <2>4 DEF l, r
  <2>5. CASE l < r
    <3>1. m \in Nat /\ l <= m /\ m < r
      BY <2>1, <2>5, Midpoint
    <3>2. m \in 0..(n - 1) /\ m \in 0..n /\ m + 1 \in 0..n
      BY <2>1, <3>1
    <3>3. m \in full <=> m < k
      BY <3>2
    <3> HIDE DEF m
    <3>4. CASE m < k
      <4>1. f[<<m + 1, r>>] = IF m + 1 >= r \/ k < m + 1 THEN m + 1 ELSE IF k > r THEN r ELSE k
        BY <2>1, <2>2, <3>2
      <4>2. f[<<m + 1, r>>] = f[i]
        BY <2>1, <2>3, <2>5, <3>1, <3>2, <3>4, <4>1
      <4>3. QED
        BY <2>5, <3>3, <3>4, <4>2 DEF m, l, r
    <3>5. CASE ~(m < k)
      <4>1. f[<<l, m>>] = IF l >= m \/ k < l THEN l ELSE IF k > m THEN m ELSE k
        BY <2>1, <2>2, <3>2
      <4>2. f[<<l, m>>] = f[i]
        BY <2>1, <2>3, <2>5, <3>1, <3>2, <3>5, <4>1
      <4>3. QED
        BY <2>5, <3>3, <3>5, <4>2 DEF m, l, r
    <3>6. QED
      BY <3>4, <3>5
  <2>6. QED
    BY <2>1, <2>4, <2>5
<1>2. Bisects(f, n, full)
  BY <1>1 DEF Bisects
<1>3. QED
  BY <1>2

LEMMA BisectionFinds ==
  ASSUME NEW n \in Nat, NEW k \in Nat, k < n,
         NEW full, \A s \in 0..(n - 1) : s \in full <=> s < k,
         NEW f, Bisects(f, n, full)
  PROVE  f[<<0, n - 1>>] = k
<1> DEFINE Wrong == {d \in Nat : \E l, r \in 0..n :
                       d = r - l /\ l <= k /\ k <= r /\ f[<<l, r>>] # k}
<1>1. ASSUME NEW l \in 0..n, NEW r \in 0..n
      PROVE  f[<<l, r>>] = IF l >= r THEN l
                           ELSE IF (l + r) \div 2 \in full THEN f[<<(l + r) \div 2 + 1, r>>]
                                                           ELSE f[<<l, (l + r) \div 2>>]
  BY DEF Bisects
<1>2. ASSUME Wrong # {} PROVE FALSE
  <2>1. PICK d \in Wrong : \A e \in Wrong : d <= e
    BY <1>2, LeastNumber
  <2>2. PICK l \in 0..n, r \in 0..n : d = r - l /\ l <= k /\ k <= r /\ f[<<l, r>>] # k
    BY <2>1
  <2>3. l < r
    <3>1. l >= r => l = k
      BY <2>2
    <3>2. l >= r => f[<<l, r>>] = l
      BY <1>1
    <3>3. QED
      BY <2>2, <3>1, <3>2
  <2> DEFINE m == (l + r) \div 2
  <2>4. m \in Nat /\ l <= m /\ m < r
    BY <2>3, Midpoint
  <2>5. m \in 0..(n - 1) /\ m \in 0..n /\ m + 1 \in 0..n
    BY <2>4
  <2>6. m \in full <=> m < k
    BY <2>5
  <2>7. f[<<l, r>>] = IF m \in full THEN f[<<m + 1, r>>] ELSE f[<<l, m>>]
    BY <1>1, <2>3
  <2> HIDE DEF m
  <2>8. CASE m < k
    <3>1. PICK a \in 0..n : a = m + 1
      BY <2>5
    <3>2. r - a \in Nat /\ r - a < d /\ a <= k /\ d \in Nat
      BY <2>2, <2>4, <2>8, <3>1
    <3>3. f[<<a, r>>] # k
      BY <2>2, <2>6, <2>7, <2>8, <3>1
    <3>4. r - a \in Wrong
      <4>1. k <= r
        BY <2>2
      <4>2. \E x, y \in 0..n : r - a = y - x /\ x <= k /\ k <= y /\ f[<<x, y>>] # k
        BY <3>2, <3>3, <4>1
      <4>3. QED
        BY <3>2, <4>2
    <3> HIDE DEF Wrong
    <3>5. d <= r - a
      BY <2>1, <3>4
    <3>6. QED
      BY <3>2, <3>5
  <2>9. CASE ~(m < k)
    <3>1. m - l \in Nat /\ m - l < d /\ k <= m /\ d \in Nat
      BY <2>2, <2>4, <2>9
    <3>2. m - l \in Wrong
      BY <2>2, <2>5, <2>6, <2>7, <2>9, <3>1
    <3> HIDE DEF Wrong
    <3>3. d <= m - l
      BY <2>1, <3>2
    <3>4. QED
      BY <3>1, <3>3
  <2>10. QED
    BY <2>8, <2>9
<1>3. ~(f[<<0, n - 1>>] # k)
  <2>1. 0 \in 0..n /\ n - 1 \in 0..n /\ (n - 1) - 0 \in Nat /\ 0 <= k /\ k <= n - 1
    OBVIOUS
  <2>2. f[<<0, n - 1>>] # k => (n - 1) - 0 \in Wrong
    BY <2>1
  <2>3. QED
    BY <1>2, <2>2
<1>4. QED
  BY <1>3

\* The bisection for the first full place from 1 on, at[m] being the sector at m.
Seeks(f, n, at, full) ==
  f = [i \in (1..n) \X (0..(n - 1)) \X Nat |->
         IF i[1] > i[2] THEN i[3]
         ELSE IF at[(i[1] + i[2]) \div 2] \in full
              THEN f[<<i[1], (i[1] + i[2]) \div 2 - 1, at[(i[1] + i[2]) \div 2]>>]
              ELSE f[<<(i[1] + i[2]) \div 2 + 1, i[2], i[3]>>]]

LEMMA SeekExists ==
  ASSUME NEW n \in Nat, NEW t \in 1..n, NEW at \in [1..(n - 1) -> Nat],
         NEW full, \A m \in 1..(n - 1) : at[m] \in full <=> t <= m
  PROVE  \E f : Seeks(f, n, at, full)
<1> DEFINE D == (1..n) \X (0..(n - 1)) \X Nat
           f == [i \in D |-> IF i[1] > i[2] \/ i[2] < t THEN i[3]
                             ELSE IF i[1] < t THEN at[t] ELSE at[i[1]]]
<1>1. ASSUME NEW i \in D
      PROVE  f[i] = IF i[1] > i[2] THEN i[3]
                    ELSE IF at[(i[1] + i[2]) \div 2] \in full
                         THEN f[<<i[1], (i[1] + i[2]) \div 2 - 1, at[(i[1] + i[2]) \div 2]>>]
                         ELSE f[<<(i[1] + i[2]) \div 2 + 1, i[2], i[3]>>]
  <2> DEFINE l == i[1]
             r == i[2]
             m == (l + r) \div 2
  <2>1. l \in 1..n /\ r \in 0..(n - 1) /\ i[3] \in Nat
    OBVIOUS
  <2>2. \A a \in 1..n, b \in 0..(n - 1), c \in Nat :
          f[<<a, b, c>>] = IF a > b \/ b < t THEN c ELSE IF a < t THEN at[t] ELSE at[a]
    OBVIOUS
  <2>3. f[i] = IF l > r \/ r < t THEN i[3] ELSE IF l < t THEN at[t] ELSE at[l]
    OBVIOUS
  <2> HIDE DEF f, l, r
  <2>4. CASE l > r
    BY <2>3, <2>4 DEF l, r
  <2>5. CASE l <= r
    <3>1. m \in Nat /\ l <= m /\ m <= r
      BY <2>1, <2>5, Midpoint
    <3>2. m \in 1..(n - 1) /\ m + 1 \in 1..n /\ m - 1 \in 0..(n - 1)
      BY <2>1, <3>1
    <3>3. (at[m] \in full <=> t <= m) /\ at[m] \in Nat
      BY <3>2
    <3> HIDE DEF m
    <3>4. CASE t <= m
      <4>1. f[<<l, m - 1, at[m]>>] = IF l > m - 1 \/ m - 1 < t THEN at[m]
                                     ELSE IF l < t THEN at[t] ELSE at[l]
        BY <2>1, <2>2, <3>2, <3>3
      <4>2. m - 1 < t => t = m
        BY <2>1, <3>2, <3>4
      <4>3. l > m - 1 => l = m
        BY <2>1, <3>1
      <4>4. f[i] = IF l < t THEN at[t] ELSE at[l]
        BY <2>1, <2>3, <2>5, <3>1, <3>4
      <4>5. f[<<l, m - 1, at[m]>>] = f[i]
        BY <2>1, <3>1, <3>4, <4>1, <4>2, <4>3, <4>4
      <4>6. QED
        BY <2>1, <2>5, <3>3, <3>4, <4>5 DEF m, l, r
    <3>5. CASE ~(t <= m)
      <4>1. f[<<m + 1, r, i[3]>>] = IF m + 1 > r \/ r < t THEN i[3]
                                    ELSE IF m + 1 < t THEN at[t] ELSE at[m + 1]
        BY <2>1, <2>2, <3>2
      <4>2. m + 1 > r => r < t
        BY <2>1, <3>1, <3>5
      <4>3. ~(m + 1 < t) => m + 1 = t
        BY <2>1, <3>1, <3>5
      <4>4. l < t
        BY <2>1, <3>1, <3>5
      <4>5. f[<<m + 1, r, i[3]>>] = f[i]
        BY <2>1, <2>3, <2>5, <4>1, <4>2, <4>3, <4>4
      <4>6. QED
        BY <2>1, <2>5, <3>3, <3>5, <4>5 DEF m, l, r
    <3>6. QED
      BY <3>4, <3>5
  <2>6. QED
    BY <2>1, <2>4, <2>5
<1>2. Seeks(f, n, at, full)
  BY <1>1 DEF Seeks
<1>3. QED
  BY <1>2

LEMMA SeekFinds ==
  ASSUME NEW n \in Nat, NEW t \in 1..n, NEW at \in [1..(n - 1) -> Nat],
         NEW full, \A m \in 1..(n - 1) : at[m] \in full <=> t <= m,
         t < n => at[t] = 0,
         NEW f, Seeks(f, n, at, full)
  PROVE  f[<<1, n - 1, 0>>] = 0
<1> DEFINE Bad(d, l, r, c) ==
             /\ d = r - l + 1 /\ l <= t /\ t - 1 <= r /\ (r = t - 1 => c = 0)
             /\ f[<<l, r, c>>] # 0
           Wrong == {d \in Nat : \E l \in 1..n, r \in 0..(n - 1), c \in Nat : Bad(d, l, r, c)}
<1>1. ASSUME NEW l \in 1..n, NEW r \in 0..(n - 1), NEW c \in Nat
      PROVE  f[<<l, r, c>>] = IF l > r THEN c
                              ELSE IF at[(l + r) \div 2] \in full
                                   THEN f[<<l, (l + r) \div 2 - 1, at[(l + r) \div 2]>>]
                                   ELSE f[<<(l + r) \div 2 + 1, r, c>>]
  BY DEF Seeks
<1>2. ASSUME Wrong # {} PROVE FALSE
  <2>1. PICK d \in Wrong : \A e \in Wrong : d <= e
    BY <1>2, LeastNumber
  <2>2. PICK l \in 1..n, r \in 0..(n - 1), c \in Nat : Bad(d, l, r, c)
    BY <2>1
  <2>3. l <= r
    <3>1. l > r => r = t - 1
      BY <2>2
    <3>2. l > r => f[<<l, r, c>>] = c
      BY <1>1
    <3>3. QED
      BY <2>2, <3>1, <3>2
  <2> DEFINE m == (l + r) \div 2
  <2>4. m \in Nat /\ l <= m /\ m <= r
    BY <2>3, Midpoint
  <2>5. m \in 1..(n - 1) /\ m + 1 \in 1..n /\ m - 1 \in 0..(n - 1)
    BY <2>4
  <2>6. (at[m] \in full <=> t <= m) /\ at[m] \in Nat
    BY <2>5
  <2>7. /\ at[m] \in full => f[<<l, r, c>>] = f[<<l, m - 1, at[m]>>]
        /\ at[m] \notin full => f[<<l, r, c>>] = f[<<m + 1, r, c>>]
    <3>1. PICK a : a = f[<<l, r, c>>]
      OBVIOUS
    <3>2. ~(l > r)
      BY <2>3
    <3>3. a = IF at[m] \in full THEN f[<<l, m - 1, at[m]>>] ELSE f[<<m + 1, r, c>>]
      BY <1>1, <3>1, <3>2
    <3> HIDE DEF m, Wrong
    <3>4. QED
      BY <3>1, <3>3
  <2>8. d \in Nat /\ d = r - l + 1
    BY <2>1, <2>2
  <2> HIDE DEF m
  <2>9. CASE t <= m
    <3>1. PICK a \in 0..(n - 1), e \in Nat, g \in Nat :
            a = m - 1 /\ e = a - l + 1 /\ e < d /\ g = at[m]
      <4>1. (m - 1) - l + 1 \in Nat /\ (m - 1) - l + 1 < d
        BY <2>4, <2>8
      <4>2. QED
        BY <2>5, <2>6, <4>1
    <3>2. a = t - 1 => g = 0
      BY <2>5, <2>9, <3>1
    <3>3. Bad(e, l, a, g)
      <4>1. f[<<l, a, g>>] # 0
        <5>1. f[<<l, r, c>>] # 0
          BY <2>2
        <5>2. f[<<l, r, c>>] = f[<<l, a, g>>]
          BY <2>6, <2>7, <2>9, <3>1
        <5>3. QED
          BY <5>1, <5>2
      <4>2. e = a - l + 1 /\ l <= t /\ t - 1 <= a
        BY <2>2, <2>5, <2>9, <3>1
      <4>3. QED
        BY <3>2, <4>1, <4>2
    <3>4. e \in Wrong
      BY <3>3
    <3> HIDE DEF Wrong
    <3>5. QED
      BY <2>1, <2>8, <3>1, <3>4
  <2>10. CASE ~(t <= m)
    <3>1. PICK a \in 1..n, e \in Nat : a = m + 1 /\ e = r - a + 1 /\ e < d
      <4>1. r - (m + 1) + 1 \in Nat /\ r - (m + 1) + 1 < d
        BY <2>4, <2>8
      <4>2. QED
        BY <2>5, <4>1
    <3>2. Bad(e, a, r, c)
      BY <2>2, <2>4, <2>6, <2>7, <2>10, <3>1
    <3>3. e \in Wrong
      BY <3>2
    <3> HIDE DEF Wrong
    <3>4. QED
      BY <2>1, <2>8, <3>1, <3>3
  <2>11. QED
    BY <2>9, <2>10
<1>3. ~(f[<<1, n - 1, 0>>] # 0)
  <2>1. 1 \in 1..n /\ n - 1 \in 0..(n - 1) /\ n - 1 \in Nat /\ 1 <= t /\ t - 1 <= n - 1 /\ 0 \in Nat
    OBVIOUS
  <2>2. f[<<1, n - 1, 0>>] # 0 => Bad(n - 1, 1, n - 1, 0)
    BY <2>1
  <2>3. f[<<1, n - 1, 0>>] # 0 => n - 1 \in Wrong
    BY <2>1, <2>2
  <2>4. QED
    BY <1>2, <2>3
<1>4. QED
  BY <1>3

(***************************************************************************)
(* A walk that goes on from c to next[c], which is further on, until it    *)
(* stops.                                                                  *)
(***************************************************************************)
Walks(f, n, stop, next) == f = [c \in 0..n |-> IF c \in stop THEN c ELSE f[next[c]]]

LEMMA WalkExists ==
  ASSUME NEW n \in Nat, NEW stop, NEW next,
         \A c \in 0..n : c \in stop \/ (next[c] \in 0..n /\ c < next[c])
  PROVE  \E f : Walks(f, n, stop, next)
<1> DEFINE Partly(m, f) ==
             f = [c \in m..n |-> IF c \in stop THEN c ELSE f[next[c]]]
           Good == {m \in Nat : m <= n + 1 /\ \E f : Partly(m, f)}
<1>1. n + 1 \in Good
  <2> DEFINE f == [c \in (n + 1)..n |-> 0]
  <2>1. \A c \in (n + 1)..n : FALSE
    OBVIOUS
  <2>2. f = [c \in (n + 1)..n |-> IF c \in stop THEN c ELSE f[next[c]]]
    BY <2>1
  <2>3. QED
    BY <2>2
<1>2. PICK m \in Good : \A k \in Good : m <= k
  BY <1>1, LeastNumber
<1>3. PICK f : Partly(m, f)
  BY <1>2
<1>4. m \in Nat /\ m <= n + 1
  BY <1>2
<1>5. CASE m = 0
  BY <1>3, <1>5 DEF Walks
<1>6. CASE m > 0
  <2>1. PICK p \in Nat : m = p + 1 /\ p \in 0..n
    <3>1. m - 1 \in Nat /\ m = (m - 1) + 1 /\ m - 1 \in 0..n
      BY <1>4, <1>6
    <3>2. QED
      BY <3>1
  <2> DEFINE g == [c \in p..n |-> IF c = p THEN (IF p \in stop THEN p ELSE f[next[p]]) ELSE f[c]]
  <2>2. \A c \in m..n : f[c] = IF c \in stop THEN c ELSE f[next[c]]
    BY <1>3
  <2>3. ASSUME NEW c \in p..n
        PROVE  g[c] = IF c \in stop THEN c ELSE g[next[c]]
    <3>1. c \in 0..n /\ p \in p..n
      BY <2>1
    <3>2. c \notin stop => next[c] \in 0..n /\ c < next[c]
      BY <3>1
    <3>3. c \notin stop => next[c] \in m..n /\ next[c] \in p..n /\ next[c] # p
      BY <2>1, <3>1, <3>2
    <3>4. c \notin stop => g[next[c]] = f[next[c]]
      BY <3>3
    <3>5. CASE c = p
      BY <3>1, <3>4, <3>5
    <3>6. CASE c # p
      <4>1. c \in m..n
        BY <2>1, <3>1, <3>6
      <4>2. g[c] = f[c]
        BY <3>6
      <4>3. QED
        BY <2>2, <3>4, <4>1, <4>2
    <3>7. QED
      BY <3>5, <3>6
  <2>4. g = [c \in p..n |-> IF c \in stop THEN c ELSE g[next[c]]]
    BY <2>3
  <2>5. p \in Good
    <3> HIDE DEF g
    <3>1. Partly(p, g)
      BY <2>4
    <3>2. QED
      BY <2>1, <3>1
  <2> HIDE DEF Good
  <2>6. m <= p
    BY <1>2, <2>5
  <2>7. QED
    BY <2>1, <2>6
<1>7. QED
  BY <1>4, <1>5, <1>6

\* A chain that leads to goal, where a walk along it stops.
LeadsTo(chain, goal, stop, next) ==
  /\ goal \in stop
  /\ \A c \in chain : c \in 0..goal
  /\ \A c \in chain \ {goal} : c \notin stop /\ next[c] \in chain /\ c < next[c]

LEMMA WalkFinds ==
  ASSUME NEW n \in Nat, NEW stop, NEW next, NEW goal \in 0..n,
         NEW chain, LeadsTo(chain, goal, stop, next),
         NEW f, Walks(f, n, stop, next)
  PROVE  \A c \in chain : f[c] = goal
<1> DEFINE Wrong == {d \in Nat : \E c \in chain : d = goal - c /\ f[c] # goal}
<1>1. \A c \in 0..n : f[c] = IF c \in stop THEN c ELSE f[next[c]]
  BY DEF Walks
<1>2. /\ chain \subseteq 0..n /\ goal \in Nat /\ goal \in stop /\ chain \subseteq 0..goal
      /\ \A c \in chain : c = goal \/ (c \notin stop /\ next[c] \in chain /\ c < next[c])
  BY DEF LeadsTo
<1>3. ASSUME Wrong # {} PROVE FALSE
  <2>1. PICK d \in Wrong : \A e \in Wrong : d <= e
    BY <1>3, LeastNumber
  <2>2. PICK c \in chain : d = goal - c /\ f[c] # goal
    BY <2>1
  <2>3. c # goal
    BY <1>1, <1>2, <2>2
  <2>4. c \notin stop /\ next[c] \in chain /\ c < next[c]
    BY <1>2, <2>2, <2>3
  <2>5. f[next[c]] # goal
    BY <1>1, <1>2, <2>2, <2>4
  <2>6. goal - next[c] \in Nat /\ goal - next[c] < d
    <3>1. next[c] \in 0..goal /\ c \in 0..goal
      BY <1>2, <2>2, <2>4
    <3>2. QED
      BY <1>2, <2>2, <2>4, <3>1
  <2>7. goal - next[c] \in Wrong
    BY <2>4, <2>5, <2>6
  <2>8. d \in Nat
    BY <2>1
  <2> HIDE DEF Wrong
  <2>9. d <= goal - next[c]
    BY <2>1, <2>7
  <2>10. QED
    BY <2>6, <2>8, <2>9
<1>4. ASSUME NEW c \in chain, f[c] # goal PROVE FALSE
  <2>1. goal - c \in Nat
    BY <1>2
  <2>2. goal - c \in Wrong
    BY <1>4, <2>1
  <2>3. QED
    BY <1>3, <2>2
<1>5. QED
  BY <1>4

-----------------------------------------------------------------------------
IsLength(c) == flash[c].kind = "length"

\* The types of a log that is not astray.
Typed ==
  /\ \A c \in Cells :
       flash[c] \in {Erased, Zero, Data, Type} \union {Length(e) : e \in Entry}
  /\ head \in Cells /\ tail \in Cells
  /\ queue \in Seq(Entry) /\ Len(queue) <= QueueLen
  /\ pc \in {"idle", "pad", "turn", "length", "data", "type"}
  /\ entry \in Entry
  /\ sent \in 0..MaxSent /\ filled \in BOOLEAN

\* The writer's entry leaves a cell of its sector free.
FitsInv ==
  /\ pc # "idle" => entry.size \in Sizes
  /\ pc \in {"length", "data", "type"} => head + entry.size < SectorEnd(head)
  /\ pc = "turn" => head = Start(head)

\* An entry lies in one sector, and no two entries overlap.
LengthInv ==
  /\ \A c \in Cells : IsLength(c) =>
       flash[c].size \in Sizes /\ c + flash[c].size < SectorEnd(c)
  /\ \A c, d \in Cells :
       IsLength(c) /\ IsLength(d) /\ c < d => c + flash[c].size <= d

\* A sector is written from its first cell on, so that it is erased if that is.
BeginInv == \A c \in Cells : flash[Start(c)] = Erased => flash[c] = Erased

\* In the head's sector: entries end before the head, what comes after it is erased
\* but for what the writer has begun.
FrontInv ==
  pc # "turn" =>
    /\ \A c \in Start(head)..(head - 1) :
         IsLength(c) => c + flash[c].size <= head
    /\ flash[Start(head)] = Erased => head = Start(head)
    /\ Begun => flash[head] = Length(entry)
    /\ \A c \in head..(SectorEnd(head) - 1) :
         \/ flash[c] = Erased
         \/ Begun /\ c = head
         \/ pc = "type" /\ flash[c] = Data /\ c < head + entry.size - 1

LayoutInv == FitsInv /\ LengthInv /\ BeginInv /\ FrontInv

\* A cell at which the recovery scan goes on.
OnWalk(c) == IsLength(c) \/ flash[c] = Zero

\* Before the ring is full: what is behind the head is a chain of entries from
\* the first cell on, sector by sector, each sector closed; the rest is erased.
FillInv ==
  ~filled =>
    /\ tail = 0
    /\ \A c \in Cells : c >= Limit => flash[c] = Erased
    /\ \A c \in Cells : c < Start(head) /\ c + 1 = SectorEnd(c) => flash[c] # Erased
    /\ \A c \in Cells : c < Limit /\ c = Start(c) => OnWalk(c)
    /\ \A c \in Cells : IsLength(c) =>
         c + flash[c].size = Limit \/ (c + flash[c].size < Limit /\ OnWalk(c + flash[c].size))
    /\ \A c \in Cells : flash[c] = Zero => SectorEnd(c) <= Start(head)

\* Entries are numbered in the order in which they reach flash.
OrderInv ==
  /\ \A c \in Cells : IsLength(c) => flash[c].id <= sent
  /\ \A c \in Cells : IsLength(c) /\ pc # "idle" =>
       flash[c].id < entry.id \/ (Begun /\ c = head)
  /\ pc # "idle" => entry.id \in 1..sent
  /\ \A i \in 1..Len(queue) :
       /\ queue[i].id \in 1..sent /\ queue[i].size \in Sizes
       /\ pc # "idle" => entry.id < queue[i].id
       /\ \A c \in Cells : IsLength(c) => flash[c].id < queue[i].id
  /\ \A i, j \in 1..Len(queue) : i < j => queue[i].id < queue[j].id

LogInv == Typed /\ LayoutInv /\ FillInv /\ OrderInv

-----------------------------------------------------------------------------
(***************************************************************************)
(* THE SCAN OF A RESTART, until the ring is full: head and tail are found  *)
(* where the writer would have put them.                                   *)
(***************************************************************************)
LEMMA LimitInside ==
  ASSUME Typed, FitsInv
  PROVE  /\ head \in Nat /\ head < Size /\ SectorEnd(head) <= Size
         /\ SectorEnd(head) \in Nat
         /\ Limit \in Nat /\ head <= Limit /\ Limit < SectorEnd(head) /\ Limit < Size
<1>1. /\ head \in Nat /\ head < Size /\ SectorEnd(head) <= Size /\ head < SectorEnd(head)
      /\ SectorEnd(head) \in Nat /\ Size \in Nat
  <2>1. head \in Cells
    BY DEF Typed
  <2>2. QED
    BY <2>1, SectorInside, SectorBounds, Geometry DEF Cells
<1>2. CASE Begun
  <2>1. entry.size \in Sizes /\ head + entry.size < SectorEnd(head)
    BY <1>2 DEF Begun, FitsInv
  <2>2. entry.size \in Nat
    BY <2>1, Geometry
  <2>3. QED
    BY <1>1, <1>2, <2>1, <2>2 DEF Limit
<1>3. CASE ~Begun
  BY <1>1, <1>3 DEF Limit
<1>4. QED
  BY <1>2, <1>3

LEMMA FullSectors ==
  ASSUME LogInv, ~filled
  PROVE  \E h \in Nat :
           /\ h < NumSectors
           /\ h * SectorCells = Start(head) /\ h * SectorCells \in Nat
           /\ \A s \in 0..(NumSectors - 1) : IsSectorFull(s) <=> s < h
<1>1. /\ head \in Nat /\ head < Size /\ SectorEnd(head) <= Size
      /\ Limit \in Nat /\ head <= Limit /\ Limit < SectorEnd(head)
  BY LimitInside DEF LogInv, LayoutInv
<1>2. PICK h \in Nat : /\ h * SectorCells \in Nat /\ h * SectorCells <= head
                       /\ SectorEnd(head) = h * SectorCells + SectorCells
                       /\ Start(head) = h * SectorCells
  BY <1>1, SectorOf
<1>3. h < NumSectors
  <2>1. ~(NumSectors * SectorCells <= h * SectorCells)
    BY <1>1, <1>2, Geometry DEF Size
  <2>2. QED
    BY <2>1, Multiples, Geometry
<1>4. ASSUME NEW s \in 0..(NumSectors - 1)
      PROVE  IsSectorFull(s) <=> s < h
  <2>1. /\ s \in Nat /\ s < NumSectors
        /\ s * SectorCells \in Nat
        /\ (s + 1) * SectorCells = s * SectorCells + SectorCells
        /\ s * SectorCells + SectorCells <= NumSectors * SectorCells
    BY Multiples, Geometry
  <2>2. PICK c \in Cells : c = (s + 1) * SectorCells - 1
    BY <2>1, Geometry DEF Cells, Size
  <2>3. c \in Nat /\ Start(c) = s * SectorCells /\ c + 1 = SectorEnd(c)
    <3>1. c \in Nat /\ s * SectorCells <= c /\ c < s * SectorCells + SectorCells
      BY <2>1, <2>2, Geometry DEF Cells
    <3>2. QED
      BY <2>1, <2>2, <3>1, SectorUnique, SectorBounds, Geometry
  <2>4. CASE s < h
    <3>1. c < Start(head)
      BY <1>2, <2>1, <2>2, <2>4, Multiples, Geometry
    <3>2. flash[c] # Erased
      BY <2>3, <3>1 DEF LogInv, FillInv
    <3>3. QED
      BY <2>2, <2>4, <3>2 DEF IsSectorFull
  <2>5. CASE ~(s < h)
    <3>1. h * SectorCells <= s * SectorCells
      BY <2>1, <2>5, Multiples, Geometry
    <3>2. c >= Limit
      BY <1>1, <1>2, <2>1, <2>2, <3>1, Geometry
    <3>3. flash[c] = Erased
      BY <3>2 DEF LogInv, FillInv
    <3>4. QED
      BY <2>2, <2>5, <3>3 DEF IsSectorFull
  <2>6. QED
    BY <2>4, <2>5
<1>5. QED
  BY <1>2, <1>3, <1>4

LEMMA HeadSectorFound ==
  ASSUME LogInv, ~filled
  PROVE  /\ HeadSector \in Nat /\ HeadSector < NumSectors
         /\ HeadSector * SectorCells = Start(head) /\ HeadSector * SectorCells \in Nat
         /\ \A s \in 0..(NumSectors - 1) : IsSectorFull(s) <=> s < HeadSector
<1>1. PICK h \in Nat :
        /\ h < NumSectors
        /\ h * SectorCells = Start(head) /\ h * SectorCells \in Nat
        /\ \A s \in 0..(NumSectors - 1) : IsSectorFull(s) <=> s < h
  BY FullSectors
<1> DEFINE Full == {s \in Nat : IsSectorFull(s)}
           Search(f) ==
             f = [i \in (0..NumSectors) \X (0..NumSectors) |->
                    IF i[1] >= i[2] THEN i[1]
                    ELSE IF IsSectorFull((i[1] + i[2]) \div 2)
                         THEN f[<<(i[1] + i[2]) \div 2 + 1, i[2]>>]
                         ELSE f[<<i[1], (i[1] + i[2]) \div 2>>]]
<1>2. \A s \in 0..(NumSectors - 1) : s \in Full <=> s < h
  BY <1>1, Geometry
<1>3. ASSUME NEW f PROVE Search(f) <=> Bisects(f, NumSectors, Full)
  <2>1. ASSUME NEW i \in (0..NumSectors) \X (0..NumSectors)
        PROVE  IsSectorFull((i[1] + i[2]) \div 2) <=> (i[1] + i[2]) \div 2 \in Full
    <3>1. i[1] \in Nat /\ i[2] \in Nat
      BY Geometry
    <3>2. (i[1] + i[2]) \div 2 \in Nat
      BY <3>1
    <3>3. QED
      BY <3>2
  <2> HIDE DEF Full
  <2>2. QED
    BY <2>1 DEF Bisects
<1> HIDE DEF Full
<1>4. \E f : Search(f)
  <2> HIDE DEF Search
  <2>1. PICK f : Bisects(f, NumSectors, Full)
    BY <1>1, <1>2, BisectionExists, Geometry
  <2>2. QED
    BY <1>3, <2>1
<1>5. Search(CHOOSE f : Search(f))
  BY <1>4
<1>6. (CHOOSE f : Search(f))[<<0, NumSectors - 1>>] = h
  <2>1. ASSUME NEW f, Search(f) PROVE f[<<0, NumSectors - 1>>] = h
    <3>1. Bisects(f, NumSectors, Full)
      BY <1>3, <2>1
    <3> HIDE DEF Search
    <3>2. NumSectors \in Nat /\ h \in Nat /\ h < NumSectors
      BY <1>1, Geometry
    <3>3. QED
      BY <1>2, <3>1, <3>2, BisectionFinds
  <2> HIDE DEF Search
  <2>2. QED
    BY <1>5, <2>1
<1>7. HeadSector = (CHOOSE f : Search(f))[<<0, NumSectors - 1>>]
  BY DEF HeadSector
<1>8. QED
  BY <1>1, <1>6, <1>7

LEMMA Remainder ==
  ASSUME NEW n \in Nat, n > 0, NEW a \in Nat, a < n + n
  PROVE  a % n = (IF a < n THEN a ELSE a - n)
<1> DEFINE q == a \div n
<1>1. q \in Nat /\ a % n \in 0..(n - 1) /\ a = n * q + (a % n)
  OBVIOUS
<1>2. a % n \in Nat /\ a % n < n
  BY <1>1
<1>3. q * n \in Nat /\ n * q = q * n
  BY <1>1
<1> HIDE DEF q
<1>4. CASE q = 0
  <2>1. n * q = 0
    BY <1>4
  <2>2. QED
    BY <1>1, <1>2, <2>1
<1>5. CASE q = 1
  <2>1. n * q = n
    BY <1>5
  <2>2. QED
    BY <1>1, <1>2, <2>1
<1>6. ~(q > 1)
  <2> SUFFICES ASSUME q > 1 PROVE FALSE
    OBVIOUS
  <2>1. 1 * n + n <= q * n
    BY <1>1, Multiples
  <2>2. QED
    BY <1>1, <1>2, <1>3, <2>1
<1>7. QED
  BY <1>1, <1>4, <1>5, <1>6

LEMMA TailSectorFound ==
  ASSUME LogInv, ~filled
  PROVE  TailSector = 0
<1> DEFINE n == NumSectors
           h == HeadSector
           Full == {s \in Nat : IsSectorFull(s)}
           At == [m \in 1..(n - 1) |-> (h + m) % n]
           Search(f) ==
             f = [i \in (1..NumSectors) \X (0..(NumSectors - 1)) \X Nat |->
                    IF i[1] > i[2] THEN i[3]
                    ELSE IF IsSectorFull((HeadSector + (i[1] + i[2]) \div 2) % NumSectors)
                         THEN f[<<i[1], (i[1] + i[2]) \div 2 - 1,
                                  (HeadSector + (i[1] + i[2]) \div 2) % NumSectors>>]
                         ELSE f[<<(i[1] + i[2]) \div 2 + 1, i[2], i[3]>>]]
<1>1. /\ h \in Nat /\ h < n /\ n \in Nat /\ n > 0
      /\ \A s \in 0..(n - 1) : IsSectorFull(s) <=> s < h
  BY HeadSectorFound, Geometry
<1>2. PICK t \in 1..n : t = n - h
  BY <1>1
<1> HIDE DEF n, h
<1>3. \A m \in 1..(n - 1) :
        /\ (h + m) % n \in 0..(n - 1)
        /\ (h + m) % n = (IF t <= m THEN m - t ELSE h + m)
  BY <1>1, <1>2, Remainder
<1>4. At \in [1..(n - 1) -> Nat]
  BY <1>3
<1>5. \A m \in 1..(n - 1) : At[m] \in Full <=> t <= m
  <2> SUFFICES ASSUME NEW m \in 1..(n - 1) PROVE At[m] \in Full <=> t <= m
    OBVIOUS
  <2>1. At[m] \in 0..(n - 1) /\ At[m] = (IF t <= m THEN m - t ELSE h + m)
    BY <1>3
  <2>2. At[m] < h <=> t <= m
    BY <1>1, <1>2, <2>1
  <2>3. At[m] \in Full <=> IsSectorFull(At[m])
    BY <1>1, <2>1
  <2>4. QED
    BY <1>1, <2>1, <2>2, <2>3
<1>6. t < n => At[t] = 0
  BY <1>1, <1>3
<1>7. ASSUME NEW f PROVE Search(f) <=> Seeks(f, n, At, Full)
  <2>1. ASSUME NEW i \in (1..n) \X (0..(n - 1)) \X Nat, i[1] <= i[2]
        PROVE  /\ At[(i[1] + i[2]) \div 2] = (h + (i[1] + i[2]) \div 2) % n
               /\ IsSectorFull((h + (i[1] + i[2]) \div 2) % n)
                    <=> At[(i[1] + i[2]) \div 2] \in Full
    <3>1. i[1] \in 1..n /\ i[2] \in 0..(n - 1) /\ i[1] \in Nat /\ i[2] \in Nat
      BY <1>1
    <3>2. (i[1] + i[2]) \div 2 \in 1..(n - 1)
      BY <1>1, <2>1, <3>1, Midpoint
    <3>3. At[(i[1] + i[2]) \div 2] \in Nat
      BY <1>4, <3>2
    <3>4. QED
      BY <3>2, <3>3
  <2> HIDE DEF At, Full
  <2>2. ASSUME NEW i \in (1..n) \X (0..(n - 1)) \X Nat
        PROVE  (IF i[1] > i[2] THEN i[3]
                ELSE IF IsSectorFull((h + (i[1] + i[2]) \div 2) % n)
                     THEN f[<<i[1], (i[1] + i[2]) \div 2 - 1, (h + (i[1] + i[2]) \div 2) % n>>]
                     ELSE f[<<(i[1] + i[2]) \div 2 + 1, i[2], i[3]>>])
             = (IF i[1] > i[2] THEN i[3]
                ELSE IF At[(i[1] + i[2]) \div 2] \in Full
                     THEN f[<<i[1], (i[1] + i[2]) \div 2 - 1, At[(i[1] + i[2]) \div 2]>>]
                     ELSE f[<<(i[1] + i[2]) \div 2 + 1, i[2], i[3]>>])
    <3>1. CASE i[1] > i[2]
      BY <3>1
    <3>2. CASE ~(i[1] > i[2])
      <4>1. i[1] \in Nat /\ i[2] \in Nat
        BY <1>1
      <4>2. i[1] <= i[2]
        BY <3>2, <4>1
      <4>3. QED
        BY <2>1, <3>2, <4>2, Zenon
    <3>3. QED
      BY <3>1, <3>2
  <2>3. QED
    BY <2>2 DEF Seeks, n, h
<1> HIDE DEF At, Full
<1>8. \E f : Search(f)
  <2>1. \E f : Seeks(f, n, At, Full)
    BY <1>1, <1>4, <1>5, SeekExists
  <2>2. QED
    BY <1>7, <2>1
<1>9. ASSUME NEW f, Search(f) PROVE f[<<1, n - 1, 0>>] = 0
  <2>1. Seeks(f, n, At, Full)
    BY <1>7, <1>9
  <2> HIDE DEF Search
  <2>2. QED
    BY <1>1, <1>4, <1>5, <1>6, <2>1, SeekFinds
<1>10. TailSector = (CHOOSE f : Search(f))[<<1, NumSectors - 1, 0>>]
  BY DEF TailSector
<1> HIDE DEF Search
<1>11. Search(CHOOSE f : Search(f))
  BY <1>8
<1>12. QED
  BY <1>9, <1>10, <1>11 DEF n

\* What an entry's cells say of their size.
LEMMA CellSizes ==
  ASSUME Typed, LengthInv, NEW c \in Cells, flash[c] # Erased, flash[c] # Zero
  PROVE  /\ flash[c].size \in Nat /\ flash[c].size > 0
         /\ c + flash[c].size \in 0..Size
<1>1. /\ c \in Nat /\ c < Size /\ c < SectorEnd(c) /\ SectorEnd(c) <= Size
      /\ SectorEnd(c) \in Nat
  BY SectorInside, SectorBounds, Geometry DEF Cells
<1>2. CASE flash[c] = Data \/ flash[c] = Type
  <2>1. flash[c].size = 1
    BY <1>2 DEF Data, Type, Cell
  <2>2. QED
    BY <1>1, <2>1, Geometry
<1>3. CASE flash[c] # Data /\ flash[c] # Type
  <2>1. \E e \in Entry : flash[c] = Length(e)
    BY <1>3 DEF Typed
  <2>2. IsLength(c)
    BY <2>1 DEF IsLength, Length, Cell
  <2>3. flash[c].size \in Sizes /\ c + flash[c].size < SectorEnd(c)
    BY <2>2 DEF LengthInv
  <2>4. QED
    BY <1>1, <2>3, Geometry
<1>4. QED
  BY <1>2, <1>3

LEMMA HeadOffsetFound ==
  ASSUME LogInv, ~filled
  PROVE  HeadOffset = Limit
<1> DEFINE last  == (HeadSector + 1) * SectorCells
           first == IF HeadSector > 0 THEN (HeadSector - 1) * SectorCells ELSE 0
           Walk(f) ==
             f = [c \in 0..Size |->
                    IF c >= last \/ flash[c] = Erased THEN c
                    ELSE f[IF flash[c] = Zero THEN SectorEnd(c) ELSE c + flash[c].size]]
           Stop == {c \in 0..Size : c >= last \/ flash[c] = Erased}
           Further == [c \in 0..Size |-> IF flash[c] = Zero THEN SectorEnd(c) ELSE c + flash[c].size]
           Chain == {c \in 0..Limit : c = Limit \/ OnWalk(c)}
<1>1. /\ head \in Nat /\ head < Size /\ SectorEnd(head) <= Size
      /\ Limit \in Nat /\ head <= Limit /\ Limit < SectorEnd(head)
      /\ SectorEnd(head) \in Nat /\ Limit < Size /\ Size \in Nat
  BY LimitInside, Geometry DEF LogInv, LayoutInv
<1>2. /\ HeadSector \in Nat /\ HeadSector < NumSectors
      /\ HeadSector * SectorCells = Start(head) /\ HeadSector * SectorCells \in Nat
  BY HeadSectorFound
<1>3. /\ last = SectorEnd(head) /\ last \in Nat /\ last <= Size
      /\ Start(head) \in Nat /\ Start(head) <= head
  BY <1>1, <1>2, SectorBounds, Multiples, Geometry
<1> HIDE DEF last, first
<1>4. \A c \in 0..Size : c \notin Stop => c \in Cells /\ flash[c] # Erased /\ c < last
  BY <1>1, <1>3, Geometry DEF Cells
<1>5. ASSUME NEW c \in 0..Size, c \notin Stop
      PROVE  Further[c] \in 0..Size /\ c < Further[c]
  <2>1. c \in Cells /\ flash[c] # Erased /\ c \in Nat
    BY <1>4, <1>5
  <2>2. CASE flash[c] = Zero
    <3>1. SectorEnd(c) \in Nat /\ SectorEnd(c) <= Size /\ c < SectorEnd(c)
      BY <2>1, SectorInside, SectorBounds
    <3>2. QED
      BY <1>1, <2>2, <3>1
  <2>3. CASE flash[c] # Zero
    <3>1. /\ flash[c].size \in Nat /\ flash[c].size > 0
          /\ c + flash[c].size \in 0..Size
      BY <2>1, <2>3, CellSizes DEF LogInv, LayoutInv
    <3>2. Further[c] = c + flash[c].size
      BY <2>3
    <3>3. QED
      BY <2>1, <3>1, <3>2
  <2>4. QED
    BY <2>2, <2>3
<1>6. Limit \in 0..Size /\ Limit \in Stop /\ Limit \in Chain
  <2>1. Limit \in Cells /\ Limit \in 0..Size /\ Limit >= Limit
    BY <1>1 DEF Cells
  <2>2. flash[Limit] = Erased
    BY <2>1 DEF LogInv, FillInv
  <2>3. QED
    BY <1>1, <2>1, <2>2
<1>7. ASSUME NEW c \in Chain, c # Limit
      PROVE  c \notin Stop /\ Further[c] \in Chain /\ c < Further[c]
  <2>1. c \in 0..Limit /\ c \in Nat /\ c < Limit /\ OnWalk(c) /\ c \in Cells /\ c \in 0..Size
    BY <1>1, <1>7 DEF Cells
  <2>2. flash[c] # Erased
    BY <2>1 DEF OnWalk, IsLength, Erased, Zero, Cell
  <2>3. c \notin Stop
    BY <1>1, <1>3, <2>1, <2>2
  <2>4. Further[c] \in 0..Size /\ c < Further[c]
    BY <1>5, <2>1, <2>3
  <2>5. CASE flash[c] = Zero
    <3>1. SectorEnd(c) <= Start(head) /\ SectorEnd(c) \in Nat /\ Start(SectorEnd(c)) = SectorEnd(c)
      BY <2>1, <2>5, SectorBounds, NextSector DEF LogInv, FillInv
    <3>2. Further[c] = SectorEnd(c) /\ SectorEnd(c) <= Limit
      BY <1>1, <1>3, <2>1, <2>5, <3>1
    <3>3. CASE SectorEnd(c) = Limit
      BY <1>1, <2>3, <2>4, <3>2, <3>3
    <3>4. CASE SectorEnd(c) < Limit
      <4>1. SectorEnd(c) \in Cells
        BY <1>1, <3>1, <3>4 DEF Cells
      <4>2. OnWalk(SectorEnd(c))
        BY <3>1, <3>4, <4>1 DEF LogInv, FillInv
      <4>3. SectorEnd(c) \in 0..Limit
        BY <3>1, <3>2
      <4>4. QED
        BY <2>3, <2>4, <3>2, <4>2, <4>3
    <3>5. QED
      BY <1>1, <3>1, <3>2, <3>3, <3>4
  <2>6. CASE flash[c] # Zero
    <3>1. IsLength(c)
      BY <2>1, <2>6 DEF OnWalk
    <3>2. PICK b : b = c + flash[c].size
      OBVIOUS
    <3>3. b = Limit \/ (b < Limit /\ OnWalk(b))
      BY <2>1, <3>1, <3>2 DEF LogInv, FillInv
    <3>4. Further[c] = b
      BY <2>1, <2>6, <3>2
    <3>5. b \in 0..Limit
      BY <1>1, <2>4, <3>3, <3>4
    <3>6. QED
      BY <2>3, <2>4, <3>3, <3>4, <3>5
  <2>7. QED
    BY <2>5, <2>6
<1>8. ASSUME NEW f PROVE Walk(f) <=> Walks(f, Size, Stop, Further)
  <2>1. ASSUME NEW c \in 0..Size
        PROVE  (IF c >= last \/ flash[c] = Erased THEN c
                ELSE f[IF flash[c] = Zero THEN SectorEnd(c) ELSE c + flash[c].size])
               = (IF c \in Stop THEN c ELSE f[Further[c]])
    <3>1. c \in Stop <=> c >= last \/ flash[c] = Erased
      OBVIOUS
    <3>2. Further[c] = IF flash[c] = Zero THEN SectorEnd(c) ELSE c + flash[c].size
      OBVIOUS
    <3> HIDE DEF Stop, Further
    <3>3. QED
      BY <3>1, <3>2
  <2> HIDE DEF Stop, Further
  <2>2. QED
    BY <2>1 DEF Walks
<1>9. first \in Chain
  <2>1. CASE HeadSector > 0
    <3>1. PICK p \in Nat : p + 1 = HeadSector
      <4>1. HeadSector - 1 \in Nat /\ (HeadSector - 1) + 1 = HeadSector
        BY <1>2, <2>1
      <4>2. QED
        BY <4>1
    <3>2. /\ p * SectorCells \in Nat
          /\ (p + 1) * SectorCells = p * SectorCells + SectorCells
      BY Multiples, Geometry
    <3>3. first = p * SectorCells
      <4>1. HeadSector - 1 = p
        BY <3>1
      <4>2. QED
        BY <2>1, <4>1 DEF first
    <3>4. first \in Cells /\ first < Limit
      BY <1>1, <1>2, <1>3, <3>1, <3>2, <3>3, Geometry DEF Cells
    <3>5. Start(first) = first
      BY <3>2, <3>3, SectorUnique, Geometry
    <3>6. OnWalk(first)
      BY <3>4, <3>5 DEF LogInv, FillInv
    <3>7. QED
      BY <1>1, <3>2, <3>3, <3>4, <3>6
  <2>2. CASE ~(HeadSector > 0)
    <3>1. first = 0
      BY <2>2 DEF first
    <3>2. CASE Limit = 0
      BY <3>1, <3>2
    <3>3. CASE Limit # 0
      <4>1. 0 \in Cells /\ Limit > 0 /\ Start(0) = 0
        BY <1>1, <3>3, Geometry, NextSector DEF Cells
      <4>2. OnWalk(0)
        BY <4>1 DEF LogInv, FillInv
      <4>3. QED
        BY <1>1, <3>1, <4>2
    <3>4. QED
      BY <3>2, <3>3
  <2>3. QED
    BY <2>1, <2>2
<1>10. Chain \in SUBSET (0..Limit)
  OBVIOUS
<1> HIDE DEF Stop, Further, Chain
<1>11. \E f : Walk(f)
  <2>1. \E f : Walks(f, Size, Stop, Further)
    BY <1>1, <1>5, WalkExists
  <2>2. QED
    BY <1>8, <2>1
<1>12. ASSUME NEW f, Walk(f) PROVE f[first] = Limit
  <2>1. Walks(f, Size, Stop, Further)
    BY <1>8, <1>12
  <2> HIDE DEF Walk
  <2>2. LeadsTo(Chain, Limit, Stop, Further)
    BY <1>6, <1>7, <1>10 DEF LeadsTo
  <2>3. \A c \in Chain : f[c] = Limit
    BY <1>1, <1>6, <2>1, <2>2, WalkFinds
  <2>4. QED
    BY <1>9, <2>3
<1>13. HeadOffset = (CHOOSE f : Walk(f))[first]
  BY DEF HeadOffset, first, last
<1> HIDE DEF Walk
<1>14. QED
  BY <1>11, <1>12, <1>13

(***************************************************************************)
(* Whatever the flash holds, the scan ends and finds places in the         *)
(* partition, or its end.                                                  *)
(***************************************************************************)
LEMMA HeadSectorInside == HeadSector \in 0..(NumSectors - 1)
<1> DEFINE n == NumSectors
           V == 0..(n - 1)
           S == (0..n) \X (0..n)
           T == V \X V
           mid(i) == (i[1] + i[2]) \div 2
           stop == {i \in S : i[1] >= i[2]}
           val == [i \in S |-> i[1]]
           next == [i \in S |-> IF IsSectorFull(mid(i)) THEN <<mid(i) + 1, i[2]>>
                                                        ELSE <<i[1], mid(i)>>]
           far == [i \in S |-> IF i[1] >= i[2] THEN 0 ELSE i[2] - i[1]]
           Search(f) ==
             f = [i \in S |->
                    IF i[1] >= i[2] THEN i[1]
                    ELSE IF IsSectorFull(mid(i)) THEN f[<<mid(i) + 1, i[2]>>]
                                                 ELSE f[<<i[1], mid(i)>>]]
<1>1. n \in Nat /\ n > 0
  BY Geometry
<1>2. ASSUME NEW i \in S, i \notin stop
      PROVE  /\ mid(i) \in Nat /\ i[1] <= mid(i) /\ mid(i) < i[2]
             /\ i[1] \in 0..n /\ i[2] \in 0..n
  <2>1. i[1] \in 0..n /\ i[2] \in 0..n /\ i[1] < i[2]
    BY <1>1, <1>2
  <2>2. QED
    BY <1>1, <2>1, Midpoint
<1> HIDE DEF mid
<1>3. ASSUME NEW i \in S
      PROVE  /\ far[i] \in Nat /\ far[i] < n + 1
             /\ i \in stop \/ (next[i] \in S /\ far[next[i]] < far[i])
  <2>1. i[1] \in 0..n /\ i[2] \in 0..n
    BY <1>1
  <2>2. far[i] \in Nat /\ far[i] < n + 1
    BY <1>1, <2>1
  <2>3. CASE i \notin stop /\ IsSectorFull(mid(i))
    <3>1. next[i] = <<mid(i) + 1, i[2]>> /\ next[i] \in S
      BY <1>1, <1>2, <2>3
    <3>2. far[next[i]] = IF mid(i) + 1 >= i[2] THEN 0 ELSE i[2] - (mid(i) + 1)
      BY <3>1
    <3>3. far[i] = i[2] - i[1]
      BY <2>3
    <3>4. QED
      BY <1>1, <1>2, <2>2, <2>3, <3>1, <3>2, <3>3
  <2>4. CASE i \notin stop /\ ~IsSectorFull(mid(i))
    <3>1. next[i] = <<i[1], mid(i)>> /\ next[i] \in S
      BY <1>1, <1>2, <2>4
    <3>2. far[next[i]] = IF i[1] >= mid(i) THEN 0 ELSE mid(i) - i[1]
      BY <3>1
    <3>3. far[i] = i[2] - i[1]
      BY <2>4
    <3>4. QED
      BY <1>1, <1>2, <2>2, <2>4, <3>1, <3>2, <3>3
  <2>5. QED
    BY <2>2, <2>3, <2>4
<1>4. ASSUME NEW i \in T
      PROVE  i \in S /\ IF i \in stop THEN val[i] \in V ELSE next[i] \in T
  <2>1. i[1] \in 0..(n - 1) /\ i[2] \in 0..(n - 1) /\ i \in S
    BY <1>1
  <2>2. i \in stop => val[i] \in V
    BY <2>1
  <2>3. i \notin stop => mid(i) \in 0..(n - 1) /\ mid(i) + 1 \in 0..(n - 1)
    BY <1>1, <1>2, <2>1
  <2>4. i \notin stop => next[i] \in T
    BY <2>1, <2>3
  <2>5. QED
    BY <2>1, <2>2, <2>4
<1>5. ASSUME NEW f PROVE Search(f) <=> Recurses(f, S, stop, val, next)
  <2>1. ASSUME NEW i \in S
        PROVE  (IF i[1] >= i[2] THEN i[1]
                ELSE IF IsSectorFull(mid(i)) THEN f[<<mid(i) + 1, i[2]>>] ELSE f[<<i[1], mid(i)>>])
             = (IF i \in stop THEN val[i] ELSE f[next[i]])
    <3>1. i \in stop <=> i[1] >= i[2]
      OBVIOUS
    <3>2. val[i] = i[1] /\ next[i] = IF IsSectorFull(mid(i)) THEN <<mid(i) + 1, i[2]>>
                                                             ELSE <<i[1], mid(i)>>
      OBVIOUS
    <3> HIDE DEF stop, val, next, S
    <3>3. QED
      BY <3>1, <3>2
  <2> HIDE DEF stop, val, next, S
  <2>2. QED
    BY <2>1 DEF Recurses
<1>6. <<0, n - 1>> \in T /\ T \in SUBSET S
  BY <1>1
<1>7. HeadSector = (CHOOSE f : Search(f))[<<0, n - 1>>]
  BY DEF HeadSector, mid
<1> HIDE DEF stop, val, next, S, T, V, far, n
<1>8. \E f : Search(f)
  <2>1. n + 1 \in Nat
    BY <1>1
  <2>2. \E f : Recurses(f, S, stop, val, next)
    BY <1>3, <2>1, RecursionExists
  <2> HIDE DEF Search
  <2>3. QED
    BY <1>5, <2>2
<1>9. ASSUME NEW f, Search(f) PROVE f[<<0, n - 1>>] \in V
  <2>1. Recurses(f, S, stop, val, next)
    BY <1>5, <1>9
  <2> HIDE DEF Search
  <2>2. \A x \in T : far[x] \in Nat
    BY <1>3, <1>4
  <2>3. \A x \in T : IF x \in stop THEN val[x] \in V
                                   ELSE next[x] \in T /\ far[next[x]] < far[x]
    BY <1>3, <1>4
  <2>4. \A x \in T : f[x] \in V
    BY <1>6, <2>1, <2>2, <2>3, RecursionGives
  <2>5. QED
    BY <1>6, <2>4
<1> HIDE DEF Search
<1>10. QED
  BY <1>7, <1>8, <1>9 DEF n, V

LEMMA TailSectorInside == TailSector \in 0..(NumSectors - 1)
<1> DEFINE n == NumSectors
           V == 0..(n - 1)
           S == (1..n) \X V \X Nat
           T == (1..n) \X V \X V
           mid(i) == (i[1] + i[2]) \div 2
           at(i) == (HeadSector + mid(i)) % n
           stop == {i \in S : i[1] > i[2]}
           val == [i \in S |-> i[3]]
           next == [i \in S |-> IF IsSectorFull(at(i)) THEN <<i[1], mid(i) - 1, at(i)>>
                                                       ELSE <<mid(i) + 1, i[2], i[3]>>]
           far == [i \in S |-> IF i[1] > i[2] THEN 0 ELSE i[2] - i[1] + 1]
           Search(f) ==
             f = [i \in S |->
                    IF i[1] > i[2] THEN i[3]
                    ELSE IF IsSectorFull(at(i)) THEN f[<<i[1], mid(i) - 1, at(i)>>]
                                                ELSE f[<<mid(i) + 1, i[2], i[3]>>]]
<1>1. n \in Nat /\ n > 0 /\ HeadSector \in 0..(n - 1)
  BY Geometry, HeadSectorInside
<1>2. ASSUME NEW i \in S
      PROVE  /\ i[1] \in 1..n /\ i[2] \in V /\ i[3] \in Nat
             /\ i \notin stop => /\ mid(i) \in Nat /\ i[1] <= mid(i) /\ mid(i) <= i[2]
                                 /\ at(i) \in V
  <2>1. i[1] \in 1..n /\ i[2] \in V /\ i[3] \in Nat
    BY <1>1
  <2>2. CASE i \notin stop
    <3>1. i[1] <= i[2] /\ i[1] \in Nat /\ i[2] \in Nat
      BY <1>1, <2>1, <2>2
    <3>2. mid(i) \in Nat /\ i[1] <= mid(i) /\ mid(i) <= i[2]
      BY <3>1, Midpoint
    <3>3. HeadSector + mid(i) \in Nat
      BY <1>1, <3>2
    <3>4. at(i) \in V
      BY <1>1, <3>3
    <3>5. QED
      BY <2>1, <3>2, <3>4
  <2>3. QED
    BY <2>1, <2>2
<1> HIDE DEF mid, at
<1>3. ASSUME NEW i \in S
      PROVE  /\ far[i] \in Nat /\ far[i] < n + 1
             /\ i \in stop \/ (next[i] \in S /\ far[next[i]] < far[i])
  <2>2. far[i] \in Nat /\ far[i] < n + 1
    BY <1>1, <1>2
  <2>3. CASE i \notin stop /\ IsSectorFull(at(i))
    <3>1. next[i] = <<i[1], mid(i) - 1, at(i)>> /\ next[i] \in S
      BY <1>1, <1>2, <2>3
    <3>2. far[next[i]] = IF i[1] > mid(i) - 1 THEN 0 ELSE mid(i) - 1 - i[1] + 1
      BY <3>1
    <3>3. far[i] = i[2] - i[1] + 1 /\ i[1] <= i[2]
      BY <1>1, <1>2, <2>3
    <3>4. QED
      BY <1>1, <1>2, <2>2, <2>3, <3>1, <3>2, <3>3
  <2>4. CASE i \notin stop /\ ~IsSectorFull(at(i))
    <3>1. next[i] = <<mid(i) + 1, i[2], i[3]>> /\ next[i] \in S
      BY <1>1, <1>2, <2>4
    <3>2. far[next[i]] = IF mid(i) + 1 > i[2] THEN 0 ELSE i[2] - (mid(i) + 1) + 1
      BY <3>1
    <3>3. far[i] = i[2] - i[1] + 1 /\ i[1] <= i[2]
      BY <1>1, <1>2, <2>4
    <3>4. QED
      BY <1>1, <1>2, <2>2, <2>4, <3>1, <3>2, <3>3
  <2>5. QED
    BY <2>2, <2>3, <2>4
<1>4. ASSUME NEW i \in T
      PROVE  i \in S /\ IF i \in stop THEN val[i] \in V ELSE next[i] \in T
  <2>1. i[1] \in 1..n /\ i[2] \in V /\ i[3] \in V /\ i \in S
    BY <1>1
  <2>2. i \in stop => val[i] \in V
    BY <2>1
  <2>3. i \notin stop => mid(i) - 1 \in V /\ mid(i) + 1 \in 1..n /\ at(i) \in V
    BY <1>1, <1>2, <2>1
  <2>4. i \notin stop => next[i] \in T
    BY <2>1, <2>3
  <2>5. QED
    BY <2>1, <2>2, <2>4
<1>5. ASSUME NEW f PROVE Search(f) <=> Recurses(f, S, stop, val, next)
  <2>1. ASSUME NEW i \in S
        PROVE  (IF i[1] > i[2] THEN i[3]
                ELSE IF IsSectorFull(at(i)) THEN f[<<i[1], mid(i) - 1, at(i)>>]
                                            ELSE f[<<mid(i) + 1, i[2], i[3]>>])
             = (IF i \in stop THEN val[i] ELSE f[next[i]])
    <3>1. i \in stop <=> i[1] > i[2]
      OBVIOUS
    <3>2. val[i] = i[3] /\ next[i] = IF IsSectorFull(at(i)) THEN <<i[1], mid(i) - 1, at(i)>>
                                                            ELSE <<mid(i) + 1, i[2], i[3]>>
      OBVIOUS
    <3> HIDE DEF stop, val, next, S
    <3>3. QED
      BY <3>1, <3>2
  <2> HIDE DEF stop, val, next, S
  <2>2. QED
    BY <2>1 DEF Recurses
<1>6. <<1, n - 1, 0>> \in T /\ T \in SUBSET S
  BY <1>1
<1>7. TailSector = (CHOOSE f : Search(f))[<<1, n - 1, 0>>]
  BY DEF TailSector, mid, at
<1> HIDE DEF stop, val, next, S, T, V, far, n
<1>8. \E f : Search(f)
  <2>1. n + 1 \in Nat
    BY <1>1
  <2>2. \E f : Recurses(f, S, stop, val, next)
    BY <1>3, <2>1, RecursionExists
  <2> HIDE DEF Search
  <2>3. QED
    BY <1>5, <2>2
<1>9. ASSUME NEW f, Search(f) PROVE f[<<1, n - 1, 0>>] \in V
  <2>1. Recurses(f, S, stop, val, next)
    BY <1>5, <1>9
  <2> HIDE DEF Search
  <2>2. \A x \in T : far[x] \in Nat
    BY <1>3, <1>4
  <2>3. \A x \in T : IF x \in stop THEN val[x] \in V
                                   ELSE next[x] \in T /\ far[next[x]] < far[x]
    BY <1>3, <1>4
  <2>4. \A x \in T : f[x] \in V
    BY <1>6, <2>1, <2>2, <2>3, RecursionGives
  <2>5. QED
    BY <1>6, <2>4
<1> HIDE DEF Search
<1>10. QED
  BY <1>7, <1>8, <1>9 DEF n, V

-----------------------------------------------------------------------------
(***************************************************************************)
(* EVERY STEP KEEPS LogInv.                                                *)
(***************************************************************************)
LEMMA Kinds ==
  /\ Erased.kind # "length" /\ Zero.kind # "length" /\ Data.kind # "length" /\ Type.kind # "length"
  /\ Erased # Zero /\ Erased # Data /\ Erased # Type /\ Zero # Data /\ Zero # Type /\ Data # Type
  /\ \A e : /\ Length(e).kind = "length" /\ Length(e).id = e.id /\ Length(e).size = e.size
            /\ Length(e) # Erased /\ Length(e) # Zero /\ Length(e) # Data /\ Length(e) # Type
  BY DEF Erased, Zero, Data, Type, Length, Cell

LEMMA EarlierSector ==
  ASSUME NEW x \in Nat, NEW y \in Nat, x < Start(y)
  PROVE  SectorEnd(x) <= Start(y)
<1>1. /\ Start(x) \in Nat /\ SectorEnd(x) \in Nat /\ Start(x) <= x
      /\ Start(y) \in Nat /\ Start(Start(y)) = Start(y)
  BY SectorBounds, FirstOfSector
<1>2. Start(y) < SectorEnd(x) => Start(Start(y)) = Start(x)
  BY <1>1, SameSector
<1>3. QED
  BY <1>1, <1>2

\* Where the head's sector is.
LEMMA HeadBounds ==
  ASSUME Typed, FitsInv
  PROVE  /\ head \in Nat /\ head \in Cells /\ Start(head) \in Nat /\ SectorEnd(head) \in Nat
         /\ Start(head) <= head /\ head < SectorEnd(head) /\ SectorEnd(head) <= Size
         /\ Size \in Nat /\ Size > 0 /\ SectorEnd(head) = Start(head) + SectorCells
         /\ Start(Start(head)) = Start(head) /\ Start(head) \in Cells
         /\ pc # "idle" => entry.size \in Nat /\ entry.size >= 2
         /\ pc \in {"length", "data", "type"} => head + entry.size < SectorEnd(head)
         /\ \A c \in Nat : Start(head) <= c /\ c < SectorEnd(head) =>
              c \in Cells /\ Start(c) = Start(head) /\ SectorEnd(c) = SectorEnd(head)
<1>1. head \in Cells
  BY DEF Typed
<1>2. /\ head \in Nat /\ Start(head) \in Nat /\ SectorEnd(head) \in Nat
      /\ Start(head) <= head /\ head < SectorEnd(head) /\ SectorEnd(head) <= Size
      /\ Size \in Nat /\ Size > 0 /\ SectorEnd(head) = Start(head) + SectorCells
      /\ Start(Start(head)) = Start(head) /\ Start(head) \in Cells
  BY <1>1, SectorInside, SectorBounds, FirstOfSector, Geometry
<1>3. \A c \in Nat : Start(head) <= c /\ c < SectorEnd(head) =>
        c \in Cells /\ Start(c) = Start(head) /\ SectorEnd(c) = SectorEnd(head)
  BY <1>2, SameSector DEF Cells
<1>4. pc # "idle" => entry.size \in Nat /\ entry.size >= 2
  BY Geometry DEF FitsInv
<1>5. QED
  BY <1>1, <1>2, <1>3, <1>4 DEF FitsInv

\* A cell's own sector.
LEMMA CellBounds ==
  ASSUME NEW c \in Cells
  PROVE  /\ c \in Nat /\ c < Size /\ Size \in Nat
         /\ Start(c) \in Nat /\ Start(c) \in Cells /\ Start(c) <= c
         /\ SectorEnd(c) \in Nat /\ c < SectorEnd(c) /\ SectorEnd(c) <= Size
         /\ Start(Start(c)) = Start(c) /\ SectorEnd(Start(c)) = SectorEnd(c)
  BY SectorInside, SectorBounds, FirstOfSector, Geometry DEF Cells

LEMMA WrapsInside ==
  ASSUME NEW x \in Nat
  PROVE  Wrap(x) \in Cells
  BY Geometry DEF Wrap, Cells

LEMMA InitHolds == Init => LogInv
<1> SUFFICES ASSUME Init PROVE LogInv
  OBVIOUS
<1>1. /\ \A c \in Cells : flash[c] = Erased /\ ~IsLength(c)
      /\ head = 0 /\ tail = 0 /\ pc = "idle" /\ queue = <<>> /\ sent = 0 /\ filled = FALSE
      /\ entry = NoEntry
  BY Kinds DEF Init, IsLength
<1>2. Start(0) = 0 /\ 0 \in Cells /\ Size > 0 /\ SectorEnd(0) \in Nat /\ SectorEnd(0) <= Size
  <2>1. 0 \in Cells /\ 0 \in Nat
    BY Geometry DEF Cells
  <2>2. QED
    BY <2>1, Geometry, NextSector, CellBounds
<1>3. Typed
  <2>1. queue \in Seq(Entry) /\ Len(queue) <= QueueLen
    BY <1>1, GeometryAssumption
  <2>2. entry \in Entry /\ sent \in 0..MaxSent
    BY <1>1, GeometryAssumption DEF Entry, NoEntry
  <2>3. QED
    BY <1>1, <1>2, <2>1, <2>2 DEF Typed
<1>4. LayoutInv
  <2>1. \A c \in 0..(SectorEnd(head) - 1) : c \in Cells
    BY <1>1, <1>2, Geometry DEF Cells
  <2>2. FrontInv
    BY <1>1, <1>2, <2>1 DEF FrontInv, Begun
  <2>3. QED
    BY <1>1, <2>2 DEF LayoutInv, FitsInv, LengthInv, BeginInv
<1>5. FillInv
  <2>1. Limit = 0
    BY <1>1 DEF Limit, Begun
  <2>2. \A c \in Cells : c \in Nat /\ ~(c < 0) /\ flash[c] # Zero
    BY <1>1, Geometry, Kinds DEF Cells
  <2>3. QED
    BY <1>1, <1>2, <2>1, <2>2 DEF FillInv
<1>6. OrderInv
  BY <1>1 DEF OrderInv
<1>7. QED
  BY <1>3, <1>4, <1>5, <1>6 DEF LogInv

\* Logging an event touches nothing but the queue and the count of events.
LEMMA LogWriteKeeps ==
  ASSUME LogInv, NEW size \in Sizes, LogWrite(size)
  PROVE  LogInv'
<1>1. /\ sent \in Nat /\ sent' = sent + 1 /\ sent' \in 1..MaxSent /\ MaxSent \in Nat
      /\ UNCHANGED <<flash, head, tail, pc, entry, filled>>
  BY GeometryAssumption DEF LogInv, Typed, LogWrite
<1> DEFINE new == [id |-> sent + 1, size |-> size]
<1>2. CASE UNCHANGED queue
  <2>1. Typed' /\ LayoutInv' /\ FillInv'
    BY <1>1, <1>2 DEF LogInv, Typed, LayoutInv, FitsInv, LengthInv, BeginInv, FrontInv, FillInv,
                      Limit, Begun, OnWalk, IsLength
  <2>2. OrderInv'
    <3>1. \A c \in Cells : IsLength(c) => flash[c].id \in Nat
      BY Kinds DEF LogInv, Typed, IsLength, Entry
    <3>2. \A c \in Cells : IsLength(c) => flash[c].id <= sent + 1
      BY <1>1, <3>1 DEF LogInv, OrderInv
    <3>3. \A i \in 1..Len(queue) : queue[i].id \in 1..(sent + 1)
      BY <1>1 DEF LogInv, OrderInv
    <3>4. pc # "idle" => entry.id \in 1..(sent + 1)
      BY <1>1 DEF LogInv, OrderInv
    <3>5. QED
      BY <1>1, <1>2, <3>2, <3>3, <3>4 DEF LogInv, OrderInv, IsLength, Begun
  <2>3. QED
    BY <2>1, <2>2 DEF LogInv
<1>3. CASE Len(queue) < QueueLen /\ queue' = Append(queue, new)
  <2>1. /\ queue \in Seq(Entry) /\ Len(queue) \in Nat /\ new \in Entry
        /\ queue' \in Seq(Entry) /\ Len(queue') = Len(queue) + 1 /\ Len(queue') <= QueueLen
        /\ \A i \in 1..Len(queue) : queue'[i] = queue[i]
        /\ queue'[Len(queue) + 1] = new
    <3>1. queue \in Seq(Entry) /\ new \in Entry
      BY <1>1 DEF LogInv, Typed, Entry
    <3>2. QED
      BY <1>3, <3>1, GeometryAssumption
  <2>2. Typed' /\ LayoutInv' /\ FillInv'
    BY <1>1, <2>1 DEF LogInv, Typed, LayoutInv, FitsInv, LengthInv, BeginInv, FrontInv, FillInv,
                      Limit, Begun, OnWalk, IsLength
  <2>3. OrderInv'
    <3>1. \A c \in Cells : IsLength(c) => flash[c].id \in Nat
      BY Kinds DEF LogInv, Typed, IsLength, Entry
    <3>2. \A c \in Cells : IsLength(c) => flash[c].id < sent + 1 /\ flash[c].id <= sent + 1
      BY <1>1, <3>1 DEF LogInv, OrderInv
    <3>3. \A i \in 1..Len(queue) :
            queue[i].id \in 1..(sent + 1) /\ queue[i].id < sent + 1 /\ queue[i].size \in Sizes
      BY <1>1 DEF LogInv, OrderInv
    <3>4. pc # "idle" => entry.id \in 1..(sent + 1) /\ entry.id < sent + 1
      BY <1>1 DEF LogInv, OrderInv
    <3>5. \A i \in 1..Len(queue') : i \in 1..Len(queue) \/ i = Len(queue) + 1
      BY <2>1
    <3>6. new.id = sent + 1 /\ new.size = size /\ sent + 1 \in 1..(sent + 1)
      BY <1>1
    <3> HIDE DEF new
    <3>7. ASSUME NEW i \in 1..Len(queue')
          PROVE  /\ queue'[i].id \in 1..(sent + 1) /\ queue'[i].size \in Sizes
                 /\ pc # "idle" => entry.id < queue'[i].id
                 /\ \A c \in Cells : IsLength(c) => flash[c].id < queue'[i].id
      <4>1. CASE i \in 1..Len(queue)
        BY <2>1, <3>3, <4>1 DEF LogInv, OrderInv
      <4>2. CASE i = Len(queue) + 1
        BY <2>1, <3>2, <3>4, <3>6, <4>2
      <4>3. QED
        BY <3>5, <4>1, <4>2
    <3>8. ASSUME NEW i \in 1..Len(queue'), NEW j \in 1..Len(queue'), i < j
          PROVE  queue'[i].id < queue'[j].id
      <4>1. i \in 1..Len(queue)
        BY <2>1, <3>8
      <4>2. CASE j \in 1..Len(queue)
        BY <2>1, <3>8, <4>1, <4>2 DEF LogInv, OrderInv
      <4>3. CASE j = Len(queue) + 1
        BY <2>1, <3>3, <3>6, <4>1, <4>3
      <4>4. QED
        BY <3>5, <4>2, <4>3
    <3>9. QED
      BY <1>1, <3>2, <3>4, <3>7, <3>8 DEF LogInv, OrderInv, IsLength, Begun
  <2>4. QED
    BY <2>2, <2>3 DEF LogInv
<1>4. QED
  BY <1>2, <1>3 DEF LogWrite

LEMMA TakeKeeps ==
  ASSUME LogInv, Take
  PROVE  LogInv'
<1> DEFINE first == Head(queue)
           rest  == Tail(queue)
<1>1. /\ queue \in Seq(Entry) /\ queue # <<>> /\ Len(queue) \in Nat /\ Len(queue) > 0
      /\ first = queue[1] /\ first \in Entry /\ 1 \in 1..Len(queue)
      /\ rest \in Seq(Entry) /\ Len(rest) = Len(queue) - 1
      /\ \A i \in 1..Len(rest) : rest[i] = queue[i + 1] /\ i + 1 \in 1..Len(queue)
  <2>1. queue \in Seq(Entry) /\ queue # <<>>
    BY DEF LogInv, Typed, Take
  <2>2. QED
    BY <2>1
<1>2. /\ pc = "idle" /\ entry' = first /\ queue' = rest
      /\ pc' = (IF Overruns(first.size) THEN "pad" ELSE "length")
      /\ UNCHANGED <<flash, head, tail, sent, filled>>
  BY DEF Take
<1>3. /\ first.id \in 1..sent /\ first.size \in Sizes
      /\ \A c \in Cells : IsLength(c) => flash[c].id < first.id
  BY <1>1 DEF LogInv, OrderInv
<1> HIDE DEF first, rest
<1>4. Typed'
  BY <1>1, <1>2, GeometryAssumption DEF LogInv, Typed
<1>5. LayoutInv'
  <2>1. FitsInv'
    <3>1. pc' = "length" => head' + entry'.size < SectorEnd(head')
      <4>1. first.size \in Nat /\ head \in Nat /\ SectorEnd(head) \in Nat
        BY <1>3, Geometry, HeadBounds DEF LogInv, LayoutInv
      <4>2. QED
        BY <1>2, <4>1 DEF Overruns
    <3>2. QED
      BY <1>2, <1>3, <3>1 DEF FitsInv
  <2>2. FrontInv'
    BY <1>2 DEF LogInv, LayoutInv, FrontInv, Begun, IsLength
  <2>3. QED
    BY <1>2, <2>1, <2>2 DEF LogInv, LayoutInv, LengthInv, BeginInv, IsLength
<1>6. FillInv'
  BY <1>2 DEF LogInv, FillInv, Limit, Begun, OnWalk, IsLength
<1>7. OrderInv'
  <2>1. ASSUME NEW i \in 1..Len(rest)
        PROVE  /\ rest[i].id \in 1..sent /\ rest[i].size \in Sizes
               /\ first.id < rest[i].id
               /\ \A c \in Cells : IsLength(c) => flash[c].id < rest[i].id
    <3>1. PICK k \in 1..Len(queue) : k = i + 1 /\ rest[i] = queue[k] /\ 1 < k
      BY <1>1
    <3>2. QED
      BY <1>1, <3>1 DEF LogInv, OrderInv
  <2>2. ASSUME NEW i \in 1..Len(rest), NEW j \in 1..Len(rest), i < j
        PROVE  rest[i].id < rest[j].id
    <3>1. PICK k \in 1..Len(queue), l \in 1..Len(queue) :
            k < l /\ rest[i] = queue[k] /\ rest[j] = queue[l]
      BY <1>1, <2>2
    <3>2. QED
      BY <3>1 DEF LogInv, OrderInv
  <2>3. QED
    BY <1>2, <1>3, <2>1, <2>2 DEF LogInv, OrderInv, IsLength
<1>8. QED
  BY <1>4, <1>5, <1>6, <1>7 DEF LogInv

LEMMA PadSectorKeeps ==
  ASSUME LogInv, PadSector
  PROVE  LogInv'
<1>1. /\ pc = "pad" /\ pc' = "turn" /\ head' = Wrap(SectorEnd(head))
      /\ filled' = (filled \/ SectorEnd(head) >= Size)
      /\ UNCHANGED <<tail, queue, entry, sent>>
      /\ \A c \in Cells : flash'[c] = IF c \in head..(SectorEnd(head) - 1) THEN Zero ELSE flash[c]
  BY DEF PadSector, Programmed
<1>2. /\ head \in Nat /\ head \in Cells /\ Start(head) \in Nat /\ SectorEnd(head) \in Nat
      /\ Start(head) <= head /\ head < SectorEnd(head) /\ SectorEnd(head) <= Size
      /\ Size \in Nat /\ Size > 0 /\ Start(Start(head)) = Start(head) /\ Start(head) \in Cells
      /\ \A c \in Nat : Start(head) <= c /\ c < SectorEnd(head) =>
           c \in Cells /\ Start(c) = Start(head) /\ SectorEnd(c) = SectorEnd(head)
  BY HeadBounds DEF LogInv, LayoutInv
<1>3. \A c \in Cells : c \in Nat /\ Start(c) \in Nat /\ Start(c) \in Cells /\ Start(c) <= c
  BY CellBounds
<1>4. \A c \in Cells : IsLength(c)' => IsLength(c) /\ flash'[c] = flash[c]
  BY <1>1, Kinds DEF IsLength
<1>5. Typed'
  <2>1. head' \in Cells
    BY <1>1, <1>2, WrapsInside
  <2>2. filled' \in BOOLEAN
    BY <1>1 DEF LogInv, Typed
  <2>3. QED
    BY <1>1, <2>1, <2>2 DEF LogInv, Typed
<1>6. LayoutInv'
  <2>1. FitsInv'
    <3>1. head' = Start(head')
      BY <1>1, <1>2, NextSector DEF Wrap
    <3>2. QED
      BY <1>1, <3>1 DEF LogInv, LayoutInv, FitsInv
  <2>2. LengthInv'
    BY <1>4 DEF LogInv, LayoutInv, LengthInv
  <2>3. BeginInv'
    <3> SUFFICES ASSUME NEW c \in Cells, flash'[Start(c)] = Erased
                 PROVE  flash'[c] = Erased
      BY DEF BeginInv
    <3>1. Start(c) \notin head..(SectorEnd(head) - 1) /\ flash[Start(c)] = Erased
      BY <1>1, <1>3, Kinds
    <3>2. flash[c] = Erased
      BY <3>1 DEF LogInv, LayoutInv, BeginInv
    <3>3. c \notin head..(SectorEnd(head) - 1)
      <4> SUFFICES ASSUME c \in head..(SectorEnd(head) - 1) PROVE FALSE
        OBVIOUS
      <4>1. Start(c) = Start(head)
        BY <1>2, <1>3
      <4>2. Start(head) = head
        BY <1>1, <3>1, <4>1 DEF LogInv, LayoutInv, FrontInv
      <4>3. QED
        BY <1>2, <3>1, <4>1, <4>2
    <3>4. QED
      BY <1>1, <3>2, <3>3
  <2>4. FrontInv'
    BY <1>1 DEF FrontInv
  <2>5. QED
    BY <2>1, <2>2, <2>3, <2>4 DEF LayoutInv
<1>7. FillInv'
  <2> SUFFICES ASSUME ~filled' PROVE FillInv'
    BY DEF FillInv
  <2>1. /\ ~filled /\ head' = SectorEnd(head) /\ Start(head') = SectorEnd(head)
        /\ Limit = head /\ Limit' = SectorEnd(head)
    BY <1>1, <1>2, NextSector DEF Wrap, Limit, Begun
  <2>2. \A c \in Cells : c >= Limit' => flash'[c] = Erased
    <3> SUFFICES ASSUME NEW c \in Cells, c >= Limit' PROVE flash'[c] = Erased
      OBVIOUS
    <3>1. c >= Limit /\ c \notin head..(SectorEnd(head) - 1)
      BY <1>2, <1>3, <2>1
    <3>2. QED
      BY <1>1, <2>1, <3>1 DEF LogInv, FillInv
  <2>3. \A c \in Cells : c < Start(head') /\ c + 1 = SectorEnd(c) => flash'[c] # Erased
    <3> SUFFICES ASSUME NEW c \in Cells, c < SectorEnd(head), c + 1 = SectorEnd(c)
                 PROVE  flash'[c] # Erased
      BY <2>1
    <3>1. CASE c < Start(head)
      BY <1>1, <1>2, <1>3, <2>1, <3>1, Kinds DEF LogInv, FillInv
    <3>2. CASE ~(c < Start(head))
      <4>1. c \in Nat /\ SectorEnd(c) = SectorEnd(head)
        BY <1>2, <1>3, <3>2
      <4>2. c \in head..(SectorEnd(head) - 1)
        BY <1>2, <4>1
      <4>3. QED
        BY <1>1, <4>2, Kinds
    <3>3. QED
      BY <3>1, <3>2
  <2>4. ASSUME NEW c \in Cells, OnWalk(c) PROVE OnWalk(c)'
    BY <1>1, <2>4, Kinds DEF OnWalk, IsLength
  <2>5. \A c \in Cells : c < Limit' /\ c = Start(c) => OnWalk(c)'
    <3> SUFFICES ASSUME NEW c \in Cells, c < SectorEnd(head), c = Start(c)
                 PROVE  OnWalk(c)'
      BY <2>1
    <3>1. CASE c < head
      BY <2>1, <2>4, <3>1 DEF LogInv, FillInv
    <3>2. CASE ~(c < head)
      BY <1>1, <1>2, <1>3, <3>2 DEF OnWalk
    <3>3. QED
      BY <3>1, <3>2
  <2>6. ASSUME NEW c \in Cells, IsLength(c)'
        PROVE  \/ c + flash'[c].size = Limit'
               \/ c + flash'[c].size < Limit' /\ OnWalk(c + flash[c].size)'
    <3>1. PICK b : b = c + flash[c].size
      OBVIOUS
    <3>2. b = head \/ (b < head /\ OnWalk(b))
      BY <1>4, <2>1, <2>6, <3>1 DEF LogInv, FillInv
    <3>3. b \in Nat
      <4>1. flash[c].size \in Nat
        BY <1>4, <2>6, Geometry DEF LogInv, LayoutInv, LengthInv
      <4>2. QED
        BY <1>3, <3>1, <4>1
    <3>4. b \in Cells /\ b < SectorEnd(head)
      BY <1>2, <3>2, <3>3 DEF Cells
    <3>5. OnWalk(b)'
      <4>1. CASE b = head
        BY <1>1, <1>2, <4>1 DEF OnWalk
      <4>2. CASE OnWalk(b)
        BY <2>4, <3>4, <4>2
      <4>3. QED
        BY <3>2, <4>1, <4>2
    <3>6. b' = b
      BY <1>4, <2>6, <3>1
    <3>7. QED
      BY <1>4, <2>1, <2>6, <3>1, <3>4, <3>5
  <2>7. \A c \in Cells : flash'[c] = Zero => SectorEnd(c) <= Start(head')
    <3> SUFFICES ASSUME NEW c \in Cells, flash'[c] = Zero PROVE SectorEnd(c) <= SectorEnd(head)
      BY <2>1
    <3>1. CASE c \in head..(SectorEnd(head) - 1)
      BY <1>2, <1>3, <3>1
    <3>2. CASE flash[c] = Zero
      <4>1. SectorEnd(c) <= Start(head) /\ SectorEnd(c) \in Nat
        BY <2>1, <3>2, CellBounds DEF LogInv, FillInv
      <4>2. QED
        BY <1>2, <4>1
    <3>3. QED
      BY <1>1, <3>1, <3>2
  <2>8. QED
    BY <1>1, <2>1, <2>2, <2>3, <2>5, <2>6, <2>7 DEF LogInv, FillInv
<1>8. OrderInv'
  BY <1>1, <1>4 DEF LogInv, OrderInv, Begun
<1>9. QED
  BY <1>5, <1>6, <1>7, <1>8 DEF LogInv

\* What the turn leaves in flash, whether or not the sector has to be erased.
LEMMA TurnCells ==
  ASSUME LogInv, TurnSector
  PROVE  /\ head = Start(head)
         /\ \A c \in Cells : flash'[c] = IF c \in head..(SectorEnd(head) - 1) THEN Erased ELSE flash[c]
<1>1. head = Start(head)
  BY DEF LogInv, LayoutInv, FitsInv, TurnSector
<1>2. /\ head \in Nat /\ SectorEnd(head) \in Nat
      /\ head + SectorCells - 1 = SectorEnd(head) - 1
      /\ \A c \in Nat : head <= c /\ c < SectorEnd(head) => Start(c) = head
  BY <1>1, HeadBounds, Geometry DEF LogInv, LayoutInv
<1>3. CASE flash[head] = Erased
  <2>1. ASSUME NEW c \in Cells, c \in head..(SectorEnd(head) - 1) PROVE flash[c] = Erased
    <3>1. Start(c) = head
      BY <1>2, <2>1, CellBounds
    <3>2. QED
      BY <1>3, <3>1 DEF LogInv, LayoutInv, BeginInv
  <2>2. QED
    BY <1>1, <1>3, <2>1 DEF TurnSector
<1>4. CASE flash[head] # Erased
  <2>1. flash' = ErasedSector(head)
    BY <1>4 DEF TurnSector
  <2>2. QED
    BY <1>1, <1>2, <2>1 DEF ErasedSector
<1>5. QED
  BY <1>3, <1>4

LEMMA TurnSectorKeeps ==
  ASSUME LogInv, TurnSector
  PROVE  LogInv'
<1>1. /\ pc = "turn" /\ pc' = "length" /\ tail' = Wrap(NewTail)
      /\ UNCHANGED <<head, queue, entry, sent, filled>>
  BY DEF TurnSector
<1>2. /\ head = Start(head)
      /\ \A c \in Cells : flash'[c] = IF c \in head..(SectorEnd(head) - 1) THEN Erased ELSE flash[c]
  BY TurnCells
<1>3. /\ head \in Nat /\ head \in Cells /\ SectorEnd(head) \in Nat
      /\ head < SectorEnd(head) /\ SectorEnd(head) <= Size /\ Size \in Nat /\ Size > 0
      /\ SectorEnd(head) = head + SectorCells
      /\ \A c \in Nat : head <= c /\ c < SectorEnd(head) =>
           c \in Cells /\ Start(c) = head /\ SectorEnd(c) = SectorEnd(head)
  BY <1>2, HeadBounds DEF LogInv, LayoutInv
<1>4. \A c \in Cells : c \in Nat /\ Start(c) \in Nat /\ Start(c) \in Cells /\ Start(c) <= c
  BY CellBounds
<1>5. \A c \in Cells : IsLength(c)' => IsLength(c) /\ flash'[c] = flash[c]
  BY <1>2, Kinds DEF IsLength
<1>6. Typed'
  <2>1. tail' \in Cells
    <3>1. NewTail \in Nat
      BY <1>3, Geometry DEF NewTail, LogInv, Typed, Cells
    <3>2. QED
      BY <1>1, <3>1, WrapsInside
  <2>2. QED
    BY <1>1, <1>2, <2>1 DEF LogInv, Typed
<1>7. LayoutInv'
  <2>1. FitsInv'
    <3>1. entry.size \in Sizes /\ entry.size \in Nat /\ entry.size < SectorCells
      BY <1>1, Geometry DEF LogInv, LayoutInv, FitsInv
    <3>2. head + entry.size < SectorEnd(head)
      BY <1>3, <3>1, Geometry
    <3>3. QED
      BY <1>1, <3>1, <3>2 DEF FitsInv
  <2>2. LengthInv'
    BY <1>5 DEF LogInv, LayoutInv, LengthInv
  <2>3. BeginInv'
    <3> SUFFICES ASSUME NEW c \in Cells, flash'[Start(c)] = Erased
                 PROVE  flash'[c] = Erased
      BY DEF BeginInv
    <3>1. CASE Start(c) \in head..(SectorEnd(head) - 1)
      <4>1. /\ c \in Nat /\ Start(c) = head /\ Start(c) <= c
            /\ c < SectorEnd(c) /\ SectorEnd(c) = SectorEnd(head)
        <5>1. Start(Start(c)) = Start(c) /\ SectorEnd(Start(c)) = SectorEnd(c) /\ c < SectorEnd(c)
          BY CellBounds
        <5>2. QED
          BY <1>3, <1>4, <3>1, <5>1
      <4>2. QED
        BY <1>2, <1>3, <4>1
    <3>2. CASE Start(c) \notin head..(SectorEnd(head) - 1)
      <4>1. flash[Start(c)] = Erased
        BY <1>2, <1>4, <3>2
      <4>2. QED
        BY <1>2, <4>1 DEF LogInv, LayoutInv, BeginInv
    <3>3. QED
      BY <3>1, <3>2
  <2>4. FrontInv'
    <3>1. \A c \in Start(head)..(head - 1) : FALSE
      BY <1>2, <1>3
    <3>2. \A c \in head..(SectorEnd(head) - 1) : c \in Cells /\ flash'[c] = Erased
      BY <1>2, <1>3
    <3>3. QED
      BY <1>1, <1>2, <3>1, <3>2 DEF FrontInv, Begun
  <2>5. QED
    BY <2>1, <2>2, <2>3, <2>4 DEF LayoutInv
<1>8. FillInv'
  <2> SUFFICES ASSUME ~filled PROVE FillInv'
    BY <1>1 DEF FillInv
  <2>1. Limit = head /\ Limit' = head
    BY <1>1 DEF Limit, Begun
  <2>2. \A c \in Cells : flash'[c] = flash[c]
    <3> SUFFICES ASSUME NEW c \in Cells, c \in head..(SectorEnd(head) - 1) PROVE flash[c] = Erased
      BY <1>2
    <3>1. c >= Limit
      BY <1>3, <2>1
    <3>2. QED
      BY <3>1 DEF LogInv, FillInv
  <2>3. tail' = 0
    <3>1. tail = 0 /\ NewTail = 0
      BY <1>3, Geometry DEF NewTail, LogInv, FillInv
    <3>2. QED
      BY <1>1, <1>3, <3>1 DEF Wrap
  <2>4. \A c \in Cells : IsLength(c)' => c + flash[c].size \in Cells
    <3> SUFFICES ASSUME NEW c \in Cells, IsLength(c) PROVE c + flash[c].size \in Cells
      BY <1>5
    <3>1. /\ flash[c].size \in Nat /\ c + flash[c].size < SectorEnd(c)
          /\ SectorEnd(c) \in Nat /\ SectorEnd(c) <= Size /\ c \in Nat
      BY Geometry, CellBounds DEF LogInv, LayoutInv, LengthInv
    <3>2. QED
      BY <1>3, <3>1 DEF Cells
  <2>5. \A c \in Cells : (OnWalk(c)' <=> OnWalk(c)) /\ (IsLength(c)' <=> IsLength(c))
    BY <2>2 DEF OnWalk, IsLength
  <2>6. ASSUME NEW c \in Cells, IsLength(c)'
        PROVE  \/ c + flash'[c].size = Limit'
               \/ c + flash'[c].size < Limit' /\ OnWalk(c + flash[c].size)'
    <3>1. PICK b \in Cells : b = c + flash[c].size /\ b = c + flash'[c].size
      BY <2>2, <2>4, <2>6
    <3>2. b = head \/ (b < head /\ OnWalk(b))
      BY <2>1, <2>5, <2>6, <3>1 DEF LogInv, FillInv
    <3>3. OnWalk(c + flash[c].size)' <=> OnWalk(b)'
      BY <3>1
    <3>4. QED
      BY <2>1, <2>5, <3>1, <3>2, <3>3
  <2>7. QED
    BY <1>1, <2>1, <2>2, <2>3, <2>5, <2>6 DEF LogInv, FillInv
<1>9. OrderInv'
  BY <1>1, <1>5 DEF LogInv, OrderInv, Begun
<1>10. QED
  BY <1>6, <1>7, <1>8, <1>9 DEF LogInv

\* A write always lies inside the partition, so that it does not fail.
LEMMA WritesInside ==
  ASSUME LogInv
  PROVE  /\ WriteLength =>
              /\ pc = "length" /\ pc' = "data" /\ head' = head
              /\ \A c \in Cells : flash'[c] = IF c = head THEN Length(entry) ELSE flash[c]
         /\ WriteData =>
              /\ pc = "data" /\ pc' = "type" /\ head' = head
              /\ \A c \in Cells : flash'[c] = IF head < c /\ c < head + entry.size - 1
                                              THEN Data ELSE flash[c]
         /\ WriteType =>
              /\ pc = "type" /\ pc' = "idle" /\ head' = head + entry.size
              /\ \A c \in Cells : flash'[c] = IF c = head + entry.size - 1 THEN Type ELSE flash[c]
         /\ WriteLength \/ WriteData \/ WriteType =>
              UNCHANGED <<tail, queue, entry, sent, filled>>
<1>1. /\ head \in Nat /\ Size \in Nat /\ SectorEnd(head) \in Nat /\ SectorEnd(head) <= Size
      /\ pc # "idle" => entry.size \in Nat /\ entry.size >= 2
      /\ pc \in {"length", "data", "type"} => head + entry.size < SectorEnd(head)
      /\ \A c \in Cells : c \in Nat
  BY HeadBounds, CellBounds DEF LogInv, LayoutInv
<1>2. ASSUME WriteLength
      PROVE  /\ pc = "length" /\ pc' = "data" /\ head' = head
             /\ \A c \in Cells : flash'[c] = IF c = head THEN Length(entry) ELSE flash[c]
  <2>1. pc = "length" /\ head + 1 <= Size
    BY <1>1, <1>2 DEF WriteLength, WritePart
  <2>2. pc' = "data" /\ head' = head /\ flash' = Programmed(head, head + 1, Length(entry))
    BY <1>2, <2>1 DEF WriteLength, WritePart
  <2>3. \A c \in Cells : flash'[c] = IF c \in head..(head + 1 - 1) THEN Length(entry) ELSE flash[c]
    BY <1>1, <2>1, <2>2 DEF Programmed
  <2>4. \A c \in Cells : c \in head..(head + 1 - 1) <=> c = head
    BY <1>1
  <2>5. QED
    BY <2>1, <2>2, <2>3, <2>4, Zenon
<1>3. ASSUME WriteData
      PROVE  /\ pc = "data" /\ pc' = "type" /\ head' = head
             /\ \A c \in Cells : flash'[c] = IF head < c /\ c < head + entry.size - 1
                                             THEN Data ELSE flash[c]
  <2>1. pc = "data" /\ head + entry.size - 1 <= Size
    BY <1>1, <1>3 DEF WriteData, WritePart
  <2>2. pc' = "type" /\ head' = head /\ flash' = Programmed(head + 1, head + entry.size - 1, Data)
    BY <1>3, <2>1 DEF WriteData, WritePart
  <2>3. \A c \in Cells : flash'[c] = IF c \in (head + 1)..(head + entry.size - 1 - 1)
                                     THEN Data ELSE flash[c]
    BY <1>1, <2>1, <2>2 DEF Programmed
  <2>4. \A c \in Cells : c \in (head + 1)..(head + entry.size - 1 - 1)
                           <=> head < c /\ c < head + entry.size - 1
    BY <1>1, <2>1
  <2>5. QED
    BY <2>1, <2>2, <2>3, <2>4, Zenon
<1>4. ASSUME WriteType
      PROVE  /\ pc = "type" /\ pc' = "idle" /\ head' = head + entry.size
             /\ \A c \in Cells : flash'[c] = IF c = head + entry.size - 1 THEN Type ELSE flash[c]
  <2>1. pc = "type" /\ head + entry.size <= Size
    BY <1>1, <1>4 DEF WriteType, WritePart
  <2>2. /\ pc' = "idle" /\ head' = head + entry.size
        /\ flash' = Programmed(head + entry.size - 1, head + entry.size, Type)
    BY <1>4, <2>1 DEF WriteType, WritePart
  <2>3. \A c \in Cells : flash'[c] = IF c \in (head + entry.size - 1)..(head + entry.size - 1)
                                     THEN Type ELSE flash[c]
    BY <1>1, <2>1, <2>2 DEF Programmed
  <2>4. \A c \in Cells : c \in (head + entry.size - 1)..(head + entry.size - 1)
                           <=> c = head + entry.size - 1
    BY <1>1, <2>1
  <2>5. QED
    BY <2>1, <2>2, <2>3, <2>4, Zenon
<1>5. WriteLength \/ WriteData \/ WriteType => UNCHANGED <<tail, queue, entry, sent, filled>>
  BY DEF WriteLength, WriteData, WriteType, WritePart
<1>6. QED
  BY <1>2, <1>3, <1>4, <1>5

\* Nothing but what the writer has begun is in the cells from the head on.
LEMMA Front ==
  ASSUME LogInv, pc # "turn", NEW c \in Cells, head <= c, c < SectorEnd(head)
  PROVE  /\ ~Begun \/ c # head => ~IsLength(c) /\ flash[c] # Zero
         /\ pc # "type" /\ (~Begun \/ c # head) => flash[c] = Erased
<1>1. c \in head..(SectorEnd(head) - 1)
  BY HeadBounds, CellBounds DEF LogInv, LayoutInv
<1>2. \/ flash[c] = Erased
      \/ Begun /\ c = head
      \/ pc = "type" /\ flash[c] = Data /\ c < head + entry.size - 1
  BY <1>1 DEF LogInv, LayoutInv, FrontInv
<1>3. QED
  BY <1>2, Kinds DEF IsLength

LEMMA WriteLengthKeeps ==
  ASSUME LogInv, WriteLength
  PROVE  LogInv'
<1>1. /\ pc = "length" /\ pc' = "data" /\ head' = head
      /\ \A c \in Cells : flash'[c] = IF c = head THEN Length(entry) ELSE flash[c]
      /\ UNCHANGED <<tail, queue, entry, sent, filled>>
  BY WritesInside
<1>2. /\ head \in Nat /\ head \in Cells /\ Start(head) \in Nat /\ SectorEnd(head) \in Nat
      /\ Start(head) <= head /\ head < SectorEnd(head) /\ SectorEnd(head) <= Size
      /\ Size \in Nat /\ Start(Start(head)) = Start(head) /\ Start(head) \in Cells
      /\ entry.size \in Nat /\ entry.size >= 2 /\ head + entry.size < SectorEnd(head)
      /\ \A c \in Nat : Start(head) <= c /\ c < SectorEnd(head) =>
           c \in Cells /\ Start(c) = Start(head) /\ SectorEnd(c) = SectorEnd(head)
  BY <1>1, HeadBounds DEF LogInv, LayoutInv
<1>3. \A c \in Cells : /\ c \in Nat /\ Start(c) \in Nat /\ Start(c) \in Cells /\ Start(c) <= c
                       /\ SectorEnd(c) \in Nat /\ SectorEnd(c) <= Size
  BY CellBounds
<1>4. ~Begun /\ Begun' /\ entry.size \in Sizes /\ entry \in Entry /\ entry' = entry
  BY <1>1 DEF Begun, LogInv, LayoutInv, FitsInv, Typed
<1>5. \A c \in Cells : head <= c /\ c < SectorEnd(head) => flash[c] = Erased /\ ~IsLength(c)
  BY <1>1, <1>4, Front
<1>6. /\ flash'[head] = Length(entry) /\ flash'[head].kind = "length" /\ flash'[head].size = entry.size
      /\ flash'[head].id = entry.id /\ flash'[head] # Erased /\ flash'[head] # Zero
  BY <1>1, <1>2, Kinds DEF IsLength
<1>7. \A c \in Cells : c # head => flash'[c] = flash[c] /\ (IsLength(c)' <=> IsLength(c))
  BY <1>1 DEF IsLength
<1>8. ASSUME NEW c \in Cells, IsLength(c), c < head
      PROVE  flash[c].size \in Nat /\ c + flash[c].size <= head
  <2>1. flash[c].size \in Sizes /\ c + flash[c].size < SectorEnd(c)
    BY <1>8 DEF LogInv, LayoutInv, LengthInv
  <2>2. flash[c].size \in Nat
    BY <2>1, Geometry
  <2>3. CASE c < Start(head)
    <3>1. SectorEnd(c) <= Start(head)
      BY <1>2, <1>3, <2>3, EarlierSector
    <3>2. QED
      BY <1>2, <1>3, <2>1, <2>2, <3>1
  <2>4. CASE ~(c < Start(head))
    <3>1. c \in Start(head)..(head - 1)
      BY <1>2, <1>3, <1>8, <2>4
    <3>2. QED
      BY <1>1, <1>8, <2>2, <3>1 DEF LogInv, LayoutInv, FrontInv
  <2>5. QED
    BY <2>3, <2>4
<1>9. Typed'
  BY <1>1, <1>4 DEF LogInv, Typed
<1>10. LayoutInv'
  <2>1. FitsInv'
    BY <1>1, <1>2, <1>4 DEF FitsInv
  <2>2. LengthInv'
    <3>1. ASSUME NEW c \in Cells, IsLength(c)'
          PROVE  flash'[c].size \in Sizes /\ c + flash'[c].size < SectorEnd(c)
      BY <1>2, <1>4, <1>6, <1>7, <3>1 DEF LogInv, LayoutInv, LengthInv
    <3>2. ASSUME NEW c \in Cells, NEW d \in Cells, IsLength(c)', IsLength(d)', c < d
          PROVE  c + flash'[c].size <= d
      <4>1. CASE c = head
        <5>1. d >= SectorEnd(head)
          BY <1>2, <1>3, <1>5, <1>7, <3>2, <4>1
        <5>2. c + flash'[c].size = head + entry.size /\ d \in Nat
          BY <1>3, <1>6, <4>1
        <5>3. QED
          BY <1>2, <5>1, <5>2
      <4>2. CASE d = head
        BY <1>3, <1>7, <1>8, <3>2, <4>2
      <4>3. CASE c # head /\ d # head
        BY <1>7, <3>2, <4>3 DEF LogInv, LayoutInv, LengthInv
      <4>4. QED
        BY <4>1, <4>2, <4>3
    <3>3. QED
      BY <3>1, <3>2 DEF LengthInv
  <2>3. BeginInv'
    <3> SUFFICES ASSUME NEW c \in Cells, flash'[Start(c)] = Erased
                 PROVE  flash'[c] = Erased
      BY DEF BeginInv
    <3>1. Start(c) # head /\ flash[Start(c)] = Erased
      BY <1>3, <1>6, <1>7
    <3>2. c # head
      <4>1. Start(head) # head => flash[Start(head)] # Erased
        BY <1>1 DEF LogInv, LayoutInv, FrontInv
      <4>2. QED
        BY <3>1, <4>1
    <3>3. QED
      BY <1>7, <3>1, <3>2 DEF LogInv, LayoutInv, BeginInv
  <2>4. FrontInv'
    <3>1. ASSUME NEW c \in Start(head)..(head - 1), IsLength(c)'
          PROVE  c + flash'[c].size <= head
      <4>1. c \in Cells /\ c < head /\ c # head
        BY <1>2
      <4>2. QED
        BY <1>7, <1>8, <3>1, <4>1
    <3>2. flash'[Start(head)] = Erased => head = Start(head)
      BY <1>1, <1>2, <1>7 DEF LogInv, LayoutInv, FrontInv
    <3>3. ASSUME NEW c \in head..(SectorEnd(head) - 1), c # head
          PROVE  flash'[c] = Erased
      <4>1. c \in Cells /\ head <= c /\ c < SectorEnd(head)
        BY <1>2
      <4>2. QED
        BY <1>5, <1>7, <3>3, <4>1
    <3>4. QED
      BY <1>1, <1>4, <1>6, <3>1, <3>2, <3>3 DEF FrontInv
  <2>5. QED
    BY <2>1, <2>2, <2>3, <2>4 DEF LayoutInv
<1>11. FillInv'
  <2> SUFFICES ASSUME ~filled PROVE FillInv'
    BY <1>1 DEF FillInv
  <2>1. Limit = head /\ Limit' = head + entry.size
    BY <1>1, <1>4 DEF Limit
  <2>2. \A c \in Cells : c >= Limit' => flash'[c] = Erased
    <3> SUFFICES ASSUME NEW c \in Cells, c >= Limit' PROVE flash'[c] = Erased
      OBVIOUS
    <3>1. c # head /\ c >= Limit
      BY <1>2, <1>3, <2>1
    <3>2. QED
      BY <1>7, <3>1 DEF LogInv, FillInv
  <2>3. ASSUME NEW c \in Cells, c < Start(head), c + 1 = SectorEnd(c) PROVE flash'[c] # Erased
    <3>1. c # head
      BY <1>2, <2>3
    <3>2. flash[c] # Erased
      BY <2>3 DEF LogInv, FillInv
    <3>3. QED
      BY <1>7, <3>1, <3>2
  <2>4. ASSUME NEW c \in Cells, OnWalk(c) PROVE OnWalk(c)'
    BY <1>6, <1>7, <2>4 DEF OnWalk, IsLength
  <2>5. \A c \in Cells : c < Limit' /\ c = Start(c) => OnWalk(c)'
    <3> SUFFICES ASSUME NEW c \in Cells, c < Limit', c = Start(c) PROVE OnWalk(c)'
      OBVIOUS
    <3>1. CASE c < head
      BY <2>1, <2>4, <3>1 DEF LogInv, FillInv
    <3>2. CASE ~(c < head)
      <4>1. c \in Nat /\ head <= c /\ c < SectorEnd(head) /\ Start(head) <= c
        BY <1>2, <1>3, <2>1, <3>2
      <4>2. c = Start(head)
        BY <1>2, <4>1
      <4>3. c = head
        BY <1>2, <4>1, <4>2
      <4>4. QED
        BY <1>6, <4>3 DEF OnWalk, IsLength
    <3>3. QED
      BY <3>1, <3>2
  <2>6. ASSUME NEW c \in Cells, IsLength(c)'
        PROVE  \/ c + flash'[c].size = Limit'
               \/ c + flash'[c].size < Limit' /\ OnWalk(c + flash[c].size)'
    <3>1. CASE c = head
      BY <1>6, <2>1, <3>1
    <3>2. CASE c # head
      <4>1. PICK b : b = c + flash[c].size
        OBVIOUS
      <4>2. b = head \/ (b < head /\ OnWalk(b))
        BY <1>7, <2>1, <2>6, <3>2, <4>1 DEF LogInv, FillInv
      <4>3. b \in Nat
        <5>1. flash[c].size \in Nat
          BY <1>7, <2>6, <3>2, Geometry DEF LogInv, LayoutInv, LengthInv
        <5>2. QED
          BY <1>3, <4>1, <5>1
      <4>4. b \in Cells /\ b < Limit'
        BY <1>2, <2>1, <4>2, <4>3 DEF Cells
      <4>5. OnWalk(b)'
        <5>1. b = head => OnWalk(b)'
          BY <1>6 DEF OnWalk, IsLength
        <5>2. OnWalk(b) => OnWalk(b)'
          BY <2>4, <4>4
        <5>3. QED
          BY <4>2, <5>1, <5>2
      <4>6. c + flash'[c].size = b
        BY <1>7, <3>2, <4>1
      <4>7. OnWalk(c + flash[c].size)'
        BY <4>5, <4>6
      <4>8. QED
        BY <4>4, <4>6, <4>7
    <3>3. QED
      BY <3>1, <3>2
  <2>7. \A c \in Cells : flash'[c] = Zero => SectorEnd(c) <= Start(head)
    BY <1>6, <1>7 DEF LogInv, FillInv
  <2>8. QED
    BY <1>1, <2>1, <2>2, <2>3, <2>5, <2>6, <2>7 DEF LogInv, FillInv
<1>12. OrderInv'
  <2>1. entry.id \in 1..sent /\ sent \in Nat
    BY <1>1 DEF LogInv, OrderInv, Typed
  <2>2. ASSUME NEW c \in Cells, IsLength(c)'
        PROVE  flash'[c].id <= sent /\ (flash'[c].id < entry.id \/ c = head)
    BY <1>1, <1>4, <1>6, <1>7, <2>1, <2>2 DEF LogInv, OrderInv
  <2>3. ASSUME NEW i \in 1..Len(queue), NEW c \in Cells, IsLength(c)'
        PROVE  flash'[c].id < queue[i].id
    BY <1>1, <1>6, <1>7, <2>3 DEF LogInv, OrderInv
  <2>4. QED
    BY <1>1, <1>4, <2>1, <2>2, <2>3 DEF LogInv, OrderInv
<1>13. QED
  BY <1>9, <1>10, <1>11, <1>12 DEF LogInv

\* The cells that the data and the type of an entry are written to: erased, and
\* behind the length in the sector of the head.
LEMMA EntryCells ==
  ASSUME LogInv, Begun, NEW c \in Cells, head < c, c < head + entry.size
  PROVE  /\ c \in Nat /\ Start(c) = Start(head) /\ Start(head) <= head /\ c # Start(c)
         /\ c < SectorEnd(head) /\ Start(c) \in Cells /\ flash[Start(c)] # Erased
         /\ ~IsLength(c) /\ flash[c] # Zero /\ ~OnWalk(c)
         /\ pc = "data" \/ c = head + entry.size - 1 => flash[c] = Erased
<1>1. /\ head \in Nat /\ Start(head) \in Nat /\ Start(head) <= head /\ SectorEnd(head) \in Nat
      /\ pc \in {"data", "type"} /\ entry.size \in Nat /\ head + entry.size < SectorEnd(head)
      /\ Start(head) \in Cells
      /\ \A x \in Nat : Start(head) <= x /\ x < SectorEnd(head) => Start(x) = Start(head)
  BY HeadBounds DEF LogInv, LayoutInv, Begun
<1>2. c \in Nat /\ Start(c) = Start(head) /\ c # Start(c) /\ c < SectorEnd(head)
  BY <1>1, CellBounds
<1>3. ~IsLength(c) /\ flash[c] # Zero
  BY <1>1, <1>2, Front
<1>4. flash[Start(head)] # Erased
  <2>1. flash[head] # Erased /\ (flash[Start(head)] = Erased => head = Start(head))
    BY <1>1, Kinds DEF LogInv, LayoutInv, FrontInv
  <2>2. QED
    BY <2>1
<1>5. pc = "data" \/ c = head + entry.size - 1 => flash[c] = Erased
  <2>1. c \in head..(SectorEnd(head) - 1) /\ c # head
    BY <1>1, <1>2
  <2>2. \/ flash[c] = Erased
        \/ pc = "type" /\ flash[c] = Data /\ c < head + entry.size - 1
    BY <1>1, <2>1 DEF LogInv, LayoutInv, FrontInv
  <2>3. QED
    BY <1>1, <1>2, <2>2
<1>6. QED
  BY <1>1, <1>2, <1>3, <1>4, <1>5 DEF OnWalk

\* What the data and the type of an entry leave as it was.
LEMMA EntryKeeps ==
  ASSUME LogInv, Begun, filled' = filled, tail' = tail, Limit' = Limit, Start(head)' = Start(head),
         \A c \in Cells : \/ flash'[c] = flash[c]
                          \/ /\ head < c /\ c < head + entry.size
                             /\ flash'[c] \in {Data, Type}
  PROVE  /\ \A c \in Cells : flash'[c] \in {flash[c], Data, Type}
         /\ \A c \in Cells : IsLength(c)' <=> IsLength(c)
         /\ \A c \in Cells : IsLength(c) => flash'[c] = flash[c]
         /\ LengthInv' /\ BeginInv' /\ FillInv'
<1>1. \A c \in Cells : \/ flash'[c] = flash[c]
                       \/ /\ ~IsLength(c) /\ flash[c] # Zero /\ ~OnWalk(c) /\ flash'[c] \in {Data, Type}
                          /\ Start(c) # c /\ flash[Start(c)] # Erased
                          /\ Start(c) = Start(head) /\ c < Limit
  BY EntryCells DEF Limit
<1>2. \A c \in Cells : /\ IsLength(c)' <=> IsLength(c)
                       /\ IsLength(c) => flash'[c] = flash[c]
                       /\ flash[c] # Erased => flash'[c] # Erased
                       /\ flash'[c] = Zero <=> flash[c] = Zero
                       /\ OnWalk(c)' <=> OnWalk(c)
  BY <1>1, Kinds DEF IsLength, OnWalk
<1>3. LengthInv'
  BY <1>2 DEF LogInv, LayoutInv, LengthInv
<1>4. BeginInv'
  <2> SUFFICES ASSUME NEW c \in Cells, flash'[Start(c)] = Erased PROVE flash'[c] = Erased
    BY DEF BeginInv
  <2>1. Start(c) \in Cells
    BY CellBounds
  <2>2. flash[Start(c)] = Erased
    BY <1>2, <2>1
  <2>3. flash[c] = Erased
    BY <2>2 DEF LogInv, LayoutInv, BeginInv
  <2>4. QED
    BY <1>1, <2>2, <2>3
<1>5. FillInv'
  <2> SUFFICES ASSUME ~filled PROVE FillInv'
    BY DEF FillInv
  <2>1. ASSUME NEW c \in Cells, c >= Limit PROVE flash'[c] = Erased
    <3>1. ~(c < Limit)
      BY <2>1, CellBounds, LimitInside DEF LogInv, LayoutInv
    <3>2. flash[c] = Erased
      BY <2>1 DEF LogInv, FillInv
    <3>3. QED
      BY <1>1, <3>1, <3>2
  <2>2. ASSUME NEW c \in Cells, IsLength(c)'
        PROVE  \/ c + flash'[c].size = Limit
               \/ c + flash'[c].size < Limit /\ OnWalk(c + flash[c].size)'
    <3>1. IsLength(c) /\ flash'[c] = flash[c]
      BY <1>2, <2>2
    <3>2. PICK b : b = c + flash[c].size
      OBVIOUS
    <3>3. b = Limit \/ (b < Limit /\ OnWalk(b))
      BY <3>1, <3>2 DEF LogInv, FillInv
    <3>4. b \in Nat
      <4>1. flash[c].size \in Nat /\ c \in Nat
        BY <3>1, Geometry, CellBounds DEF LogInv, LayoutInv, LengthInv
      <4>2. QED
        BY <3>2, <4>1
    <3>5. b < Limit => b \in Cells
      BY <3>4, LimitInside, Geometry DEF Cells, LogInv, LayoutInv
    <3>6. OnWalk(c + flash[c].size)' <=> OnWalk(b)'
      BY <3>1, <3>2
    <3>7. QED
      BY <1>2, <3>1, <3>2, <3>3, <3>5, <3>6
  <2>3. QED
    BY <1>2, <2>1, <2>2 DEF LogInv, FillInv
<1>6. QED
  BY <1>1, <1>2, <1>3, <1>4, <1>5

LEMMA WriteDataKeeps ==
  ASSUME LogInv, WriteData
  PROVE  LogInv'
<1>1. /\ pc = "data" /\ pc' = "type" /\ head' = head /\ Begun /\ Begun'
      /\ \A c \in Cells : flash'[c] = IF head < c /\ c < head + entry.size - 1 THEN Data ELSE flash[c]
      /\ UNCHANGED <<tail, queue, entry, sent, filled>>
  BY WritesInside DEF Begun
<1>2. /\ head \in Nat /\ head \in Cells /\ Start(head) \in Nat /\ SectorEnd(head) \in Nat
      /\ Start(head) \in Cells /\ Start(head) <= head /\ head < SectorEnd(head)
      /\ entry.size \in Nat /\ entry.size >= 2 /\ head + entry.size < SectorEnd(head)
      /\ \A c \in Nat : Start(head) <= c /\ c < SectorEnd(head) => c \in Cells
  BY <1>1, HeadBounds DEF LogInv, LayoutInv
<1>3. \A c \in Cells : c \in Nat
  BY CellBounds
<1>4. /\ \A c \in Cells : flash'[c] \in {flash[c], Data, Type}
      /\ \A c \in Cells : IsLength(c)' <=> IsLength(c)
      /\ \A c \in Cells : IsLength(c) => flash'[c] = flash[c]
      /\ LengthInv' /\ BeginInv' /\ FillInv'
  <2>1. \A c \in Cells : \/ flash'[c] = flash[c]
                         \/ /\ head < c /\ c < head + entry.size
                            /\ flash'[c] \in {Data, Type}
    BY <1>1, <1>2, <1>3
  <2>2. Limit' = Limit /\ Start(head)' = Start(head)
    BY <1>1 DEF Limit
  <2>3. QED
    BY <1>1, <2>1, <2>2, EntryKeeps
<1>5. Typed'
  BY <1>1, <1>4 DEF LogInv, Typed
<1>6. FitsInv'
  BY <1>1 DEF LogInv, LayoutInv, FitsInv
<1>7. FrontInv'
  <2>1. ASSUME NEW c \in Start(head)..(head - 1), IsLength(c)'
        PROVE  c + flash'[c].size <= head
    <3>1. c \in Cells
      BY <1>2
    <3>2. QED
      BY <1>1, <1>4, <2>1, <3>1 DEF LogInv, LayoutInv, FrontInv
  <2>2. flash'[head] = Length(entry) /\ flash'[Start(head)] = flash[Start(head)]
    <3>1. ~(head < head) /\ ~(head < Start(head))
      BY <1>2
    <3>2. QED
      BY <1>1, <1>2, <3>1 DEF LogInv, LayoutInv, FrontInv
  <2>3. ASSUME NEW c \in head..(SectorEnd(head) - 1)
        PROVE  \/ flash'[c] = Erased
               \/ c = head
               \/ flash'[c] = Data /\ c < head + entry.size - 1
    <3>1. c \in Cells
      BY <1>2
    <3>2. flash[c] = Erased \/ c = head
      BY <1>1, <2>3 DEF LogInv, LayoutInv, FrontInv
    <3>3. QED
      BY <1>1, <3>1, <3>2
  <2>4. QED
    BY <1>1, <2>1, <2>2, <2>3 DEF LogInv, LayoutInv, FrontInv
<1>8. OrderInv'
  BY <1>1, <1>4 DEF LogInv, OrderInv
<1>9. QED
  BY <1>4, <1>5, <1>6, <1>7, <1>8 DEF LogInv, LayoutInv

LEMMA WriteTypeKeeps ==
  ASSUME LogInv, WriteType
  PROVE  LogInv'
<1>1. /\ pc = "type" /\ pc' = "idle" /\ head' = head + entry.size /\ Begun /\ ~Begun'
      /\ \A c \in Cells : flash'[c] = IF c = head + entry.size - 1 THEN Type ELSE flash[c]
      /\ UNCHANGED <<tail, queue, entry, sent, filled>>
  BY WritesInside DEF Begun
<1>2. /\ head \in Nat /\ head \in Cells /\ Start(head) \in Nat /\ SectorEnd(head) \in Nat
      /\ Start(head) \in Cells /\ Start(head) <= head /\ head < SectorEnd(head)
      /\ entry.size \in Nat /\ entry.size >= 2 /\ head + entry.size < SectorEnd(head)
      /\ \A c \in Nat : Start(head) <= c /\ c < SectorEnd(head) =>
           c \in Cells /\ Start(c) = Start(head) /\ SectorEnd(c) = SectorEnd(head)
  BY <1>1, HeadBounds DEF LogInv, LayoutInv
<1>3. /\ \A c \in Cells : c \in Nat
      /\ head' \in Nat /\ head' \in Cells /\ Start(head') = Start(head)
      /\ SectorEnd(head') = SectorEnd(head)
      /\ head + entry.size - 1 \in Nat
  <2>1. head + entry.size \in Nat /\ Start(head) <= head + entry.size /\ head + entry.size - 1 \in Nat
    BY <1>2
  <2>2. QED
    BY <1>1, <1>2, <2>1, CellBounds
<1>4. /\ \A c \in Cells : flash'[c] \in {flash[c], Data, Type}
      /\ \A c \in Cells : IsLength(c)' <=> IsLength(c)
      /\ \A c \in Cells : IsLength(c) => flash'[c] = flash[c]
      /\ LengthInv' /\ BeginInv' /\ FillInv'
  <2>1. \A c \in Cells : \/ flash'[c] = flash[c]
                         \/ /\ head < c /\ c < head + entry.size
                            /\ flash'[c] \in {Data, Type}
    <3>1. head < head + entry.size - 1 /\ head + entry.size - 1 < head + entry.size
      BY <1>2
    <3>2. \A c \in Cells : c # head + entry.size - 1 => flash'[c] = flash[c]
      BY <1>1
    <3>3. \A c \in Cells : c = head + entry.size - 1 => flash'[c] = Type
      BY <1>1
    <3>4. QED
      BY <3>1, <3>2, <3>3, Zenon
  <2>2. Limit' = Limit /\ Start(head)' = Start(head)
    BY <1>1, <1>3 DEF Limit
  <2>3. QED
    BY <1>1, <2>1, <2>2, EntryKeeps
<1>5. Typed'
  BY <1>1, <1>3, <1>4 DEF LogInv, Typed
<1>6. FitsInv'
  BY <1>1 DEF FitsInv
<1>7. FrontInv'
  <2>1. ASSUME NEW c \in Start(head)..(head + entry.size - 1), IsLength(c)'
        PROVE  c + flash'[c].size <= head + entry.size
    <3>1. c \in Nat /\ c \in Cells /\ c < SectorEnd(head)
      BY <1>2
    <3>2. IsLength(c) /\ flash'[c] = flash[c]
      BY <1>4, <2>1, <3>1
    <3>3. CASE c = head
      <4>1. flash[c].size = entry.size
        BY <1>1, <3>3, Kinds DEF LogInv, LayoutInv, FrontInv
      <4>2. QED
        BY <1>2, <3>2, <3>3, <4>1
    <3>4. CASE c < head
      <4>1. c \in Start(head)..(head - 1)
        BY <1>2, <2>1, <3>1, <3>4
      <4>2. c + flash[c].size <= head
        BY <1>1, <3>2, <4>1 DEF LogInv, LayoutInv, FrontInv
      <4>3. flash[c].size \in Nat
        BY <3>1, <3>2, Geometry DEF LogInv, LayoutInv, LengthInv
      <4>4. QED
        BY <1>2, <3>1, <3>2, <4>2, <4>3
    <3>5. CASE head < c
      <4>1. c < head + entry.size
        BY <1>2, <2>1, <3>1
      <4>2. QED
        BY <1>1, <3>1, <3>2, <3>5, <4>1, EntryCells
    <3>6. QED
      BY <1>2, <3>1, <3>3, <3>4, <3>5
  <2>2. flash'[Start(head)] # Erased
    <3>1. flash[Start(head)] # Erased
      BY <1>1, Kinds DEF LogInv, LayoutInv, FrontInv
    <3>2. QED
      BY <1>1, <1>2, <3>1, Kinds
  <2>3. ASSUME NEW c \in (head + entry.size)..(SectorEnd(head) - 1)
        PROVE  flash'[c] = Erased
    <3>1. c \in Nat /\ c \in Cells /\ c # head + entry.size - 1 /\ c \in head..(SectorEnd(head) - 1)
          /\ ~(c < head + entry.size - 1) /\ c # head
      BY <1>2
    <3>2. \/ flash[c] = Erased
          \/ flash[c] = Data /\ c < head + entry.size - 1
      BY <1>1, <3>1 DEF LogInv, LayoutInv, FrontInv
    <3>3. flash'[c] = flash[c]
      BY <1>1, <3>1
    <3>4. QED
      BY <3>1, <3>2, <3>3
  <2>4. ASSUME NEW c \in Start(head')..(head' - 1), IsLength(c)'
        PROVE  c + flash'[c].size <= head'
    <3>1. c \in Start(head)..(head + entry.size - 1)
      BY <1>1, <1>2, <1>3
    <3>2. c + flash'[c].size <= head + entry.size
      BY <2>1, <2>4, <3>1
    <3>3. QED
      BY <1>1, <3>2
  <2>5. \A c \in head'..(SectorEnd(head') - 1) : flash'[c] = Erased
    BY <1>1, <1>3, <2>3
  <2>6. flash'[Start(head')] # Erased
    BY <1>3, <2>2
  <2>7. QED
    BY <1>1, <2>4, <2>5, <2>6 DEF FrontInv
<1>8. OrderInv'
  BY <1>1, <1>4 DEF LogInv, OrderInv
<1>9. QED
  BY <1>4, <1>5, <1>6, <1>7, <1>8 DEF LogInv, LayoutInv

LEMMA RestartKeeps ==
  ASSUME LogInv, Restart, ScanFinds
  PROVE  LogInv'
<1>1. /\ head' = Limit /\ queue' = <<>> /\ pc' = "idle" /\ entry' = NoEntry
      /\ UNCHANGED <<flash, sent, filled>> /\ ~Begun' /\ Limit' = Limit
      /\ flash[Limit] = Erased
  BY DEF Restart, ScanFinds, Limit, Begun
<1>a. tail' \in Cells /\ (~filled => tail' = 0)
  <2>1. tail' = TailSector * SectorCells
    BY DEF Restart
  <2>2. TailSector \in Nat /\ TailSector < NumSectors
    BY TailSectorInside, Geometry
  <2>3. TailSector * SectorCells \in Nat /\ TailSector * SectorCells < Size
    BY <2>2, Multiples, Geometry DEF Size
  <2>4. 0 * SectorCells = 0
    BY Geometry
  <2>5. QED
    BY <2>1, <2>3, <2>4, TailSectorFound, Geometry DEF Cells
<1>2. /\ head \in Nat /\ head <= Limit /\ Limit \in Nat /\ Limit < SectorEnd(head) /\ Limit < Size
      /\ Start(head) \in Nat /\ Start(head) <= head /\ SectorEnd(head) \in Nat /\ Size \in Nat
      /\ SectorEnd(head) <= Size
      /\ \A c \in Nat : Start(head) <= c /\ c < SectorEnd(head) =>
           c \in Cells /\ Start(c) = Start(head) /\ SectorEnd(c) = SectorEnd(head)
  BY LimitInside, HeadBounds DEF LogInv, LayoutInv
<1>3. Limit \in Cells /\ Start(Limit) = Start(head) /\ SectorEnd(Limit) = SectorEnd(head)
  BY <1>2
<1>4. Typed'
  <2>1. queue' \in Seq(Entry) /\ Len(queue') <= QueueLen
    BY <1>1, GeometryAssumption
  <2>2. entry' \in Entry
    BY <1>1, GeometryAssumption DEF Entry, NoEntry
  <2>3. QED
    BY <1>1, <1>a, <1>3, <2>1, <2>2 DEF LogInv, Typed
<1>5. FitsInv' /\ LengthInv' /\ BeginInv'
  BY <1>1 DEF FitsInv, LogInv, LayoutInv, LengthInv, BeginInv, IsLength
<1>6. FrontInv'
  <2>1. ASSUME NEW c \in Start(head)..(Limit - 1), IsLength(c)
        PROVE  c + flash[c].size <= Limit
    <3>1. c \in Cells /\ c \in Nat /\ Start(c) = Start(head) /\ Start(head) <= c /\ c < Limit
      BY <1>2
    <3>2. flash[c].size \in Nat
      BY <2>1, <3>1, Geometry DEF LogInv, LayoutInv, LengthInv
    <3>a. flash[Start(head)] # Erased
      <4>1. flash[c] # Erased
        BY <2>1, Kinds DEF IsLength
      <4>2. QED
        BY <3>1, <4>1 DEF LogInv, LayoutInv, BeginInv
    <3>b. pc # "turn"
      <4> SUFFICES ASSUME pc = "turn" PROVE FALSE
        OBVIOUS
      <4>1. Limit = head /\ head = Start(head)
        BY DEF Limit, Begun, LogInv, LayoutInv, FitsInv
      <4>2. QED
        BY <1>1, <3>a, <4>1
    <3>3. CASE c < head
      <4>1. c \in Start(head)..(head - 1)
        BY <1>2, <3>1, <3>3
      <4>2. c + flash[c].size <= head
        BY <2>1, <3>b, <4>1 DEF LogInv, LayoutInv, FrontInv
      <4>3. QED
        BY <1>2, <3>1, <3>2, <4>2
    <3>4. CASE ~(c < head)
      <4>1. c \in head..(SectorEnd(head) - 1) /\ Begun /\ Limit = head + entry.size
        BY <1>2, <3>1, <3>4 DEF Limit
      <4>2. \/ flash[c] = Erased
            \/ c = head
            \/ flash[c] = Data
        BY <3>b, <4>1 DEF LogInv, LayoutInv, FrontInv
      <4>3. c = head
        BY <2>1, <4>2, Kinds DEF IsLength
      <4>4. flash[c] = Length(entry)
        BY <3>b, <4>1, <4>3 DEF LogInv, LayoutInv, FrontInv
      <4>5. flash[c].size = entry.size
        BY <4>4, Kinds
      <4>6. QED
        BY <1>2, <4>1, <4>3, <4>5
    <3>5. QED
      BY <3>3, <3>4
  <2>2. flash[Start(head)] = Erased => Limit = Start(head)
    <3> SUFFICES ASSUME Start(head) # Limit PROVE flash[Start(head)] # Erased
      OBVIOUS
    <3>1. pc # "turn"
      BY DEF Limit, Begun, LogInv, LayoutInv, FitsInv
    <3>2. CASE head # Start(head)
      BY <3>1, <3>2 DEF LogInv, LayoutInv, FrontInv
    <3>3. CASE head = Start(head)
      <4>1. Begun
        BY <3>3 DEF Limit
      <4>2. flash[head] = Length(entry)
        BY <3>1, <4>1 DEF LogInv, LayoutInv, FrontInv
      <4>3. QED
        BY <3>3, <4>2, Kinds
    <3>4. QED
      BY <3>2, <3>3
  <2>3. ASSUME NEW c \in Limit..(SectorEnd(head) - 1) PROVE flash[c] = Erased
    <3>1. c \in Cells /\ c >= Limit /\ c \in head..(SectorEnd(head) - 1) /\ c \in Nat
          /\ Start(c) = Start(head)
      BY <1>2
    <3>2. CASE pc = "turn"
      <4>1. Limit = head /\ head = Start(head)
        BY <3>2 DEF Limit, Begun, LogInv, LayoutInv, FitsInv
      <4>2. QED
        BY <1>1, <3>1, <4>1 DEF LogInv, LayoutInv, BeginInv
    <3>3. CASE pc # "turn"
      <4>1. \/ flash[c] = Erased
            \/ Begun /\ c = head
            \/ pc = "type" /\ flash[c] = Data /\ c < head + entry.size - 1
        BY <3>1, <3>3 DEF LogInv, LayoutInv, FrontInv
      <4>2. Begun => Limit = head + entry.size /\ entry.size \in Nat /\ entry.size >= 2
        BY HeadBounds DEF Limit, Begun, LogInv, LayoutInv
      <4>3. pc = "type" => Begun
        BY DEF Begun
      <4>4. ~(Begun /\ c = head)
        BY <1>2, <3>1, <4>2
      <4>5. ~(pc = "type" /\ c < head + entry.size - 1)
        BY <1>2, <3>1, <4>2, <4>3
      <4>6. QED
        BY <4>1, <4>4, <4>5
    <3>4. QED
      BY <3>2, <3>3
  <2>4. QED
    BY <1>1, <1>3, <2>1, <2>2, <2>3 DEF FrontInv, IsLength
<1>7. FillInv'
  BY <1>1, <1>a, <1>3 DEF LogInv, FillInv, OnWalk, IsLength
<1>8. OrderInv'
  BY <1>1 DEF LogInv, OrderInv, IsLength
<1>9. QED
  BY <1>4, <1>5, <1>6, <1>7, <1>8 DEF LogInv, LayoutInv

-----------------------------------------------------------------------------
(***************************************************************************)
(* THE RING.  Listed reads a ring off any content f of the flash, so that  *)
(* what a step reads and what it leaves can be compared.                   *)
(***************************************************************************)
Whole(f, c) == f[c].kind = "length" /\ f[c + f[c].size - 1] = Type

Entries(f, from, n) == {i \in 1..n : Whole(f, Around(from + i - 1))}

Listed(f, from, n) ==
  [k \in 1..Cardinality(Entries(f, from, n)) |->
     f[Around(from + Nth(Entries(f, from, n), k) - 1)].id]

LEMMA NumbersIs ==
  ASSUME NEW from, NEW n
  PROVE  /\ Numbers(from, n) = Listed(flash, from, n)
         /\ Numbers(from, n)' = Listed(flash', from, n)
<1>1. Starts(from, n) = Entries(flash, from, n) /\ Starts(from, n)' = Entries(flash', from, n)
  BY DEF Starts, Entries, IsWhole, Whole
<1>2. Entries(flash, from, n) \in SUBSET (1..n) /\ Entries(flash', from, n) \in SUBSET (1..n)
  BY DEF Entries
<1>3. Numbers(from, n) = Listed(flash, from, n)
  BY <1>1, <1>2 DEF Numbers, Listed
<1>4. Numbers(from, n)' = Listed(flash', from, n)
  BY <1>1, <1>2 DEF Numbers, Listed
<1>5. QED
  BY <1>3, <1>4

LEMMA RingIs ==
  /\ Ring = Listed(flash, Oldest, Size)
  /\ Ring' = Listed(flash', Oldest', Size)
<1>1. PICK o, p : o = Oldest /\ p = Oldest'
  OBVIOUS
<1>2. Ring = Listed(flash, Oldest, Size)
  BY NumbersIs DEF Ring
<1>3. Ring' = Listed(flash', Oldest', Size)
  BY DEF Ring, Numbers, Listed, Starts, Entries, IsWhole, Whole
<1>4. QED
  BY <1>2, <1>3

LEMMA EntriesFinite ==
  ASSUME NEW f, NEW from, NEW n \in Nat
  PROVE  /\ Entries(f, from, n) \in SUBSET Nat /\ IsFiniteSet(Entries(f, from, n))
         /\ Cardinality(Entries(f, from, n)) \in Nat
         /\ Len(Listed(f, from, n)) = Cardinality(Entries(f, from, n))
         /\ DOMAIN Listed(f, from, n) = 1..Cardinality(Entries(f, from, n))
<1>1. IsFiniteSet(1..n)
  BY FS_Interval
<1>2. Entries(f, from, n) \in SUBSET (1..n)
  BY DEF Entries
<1>3. IsFiniteSet(Entries(f, from, n)) /\ Entries(f, from, n) \in SUBSET Nat
  BY <1>1, <1>2, FS_Subset
<1>4. Cardinality(Entries(f, from, n)) \in Nat
  BY <1>3, FS_CardinalityType
<1>5. QED
  BY <1>3, <1>4 DEF Listed

\* A ring that begins d cells later, and lacks the entries up to there.
Drops(f, o, n, g, p, m, d) ==
  /\ MovedDown(Entries(g, p, m), Entries(f, o, n), d)
  /\ \A i \in Entries(g, p, m) : g[Around(p + i - 1)].id = f[Around(o + (i + d) - 1)].id

UpTo(S, d) == {i \in S : i <= d}

Without(l, k) == SubSeq(l, k + 1, Len(l))

LEMMA ListedShifted ==
  ASSUME NEW f, NEW o \in Nat, NEW n \in Nat, NEW g, NEW p \in Nat, NEW m \in Nat, NEW d \in Nat,
         Drops(f, o, n, g, p, m, d)
  PROVE  \E k \in Nat :
           /\ k = Cardinality(UpTo(Entries(f, o, n), d))
           /\ k <= Len(Listed(f, o, n))
           /\ Listed(g, p, m) = Without(Listed(f, o, n), k)
<1> DEFINE S == Entries(f, o, n)
           T == Entries(g, p, m)
<1>1. /\ S \in SUBSET Nat /\ IsFiniteSet(S) /\ T \in SUBSET Nat /\ IsFiniteSet(T)
      /\ Cardinality(S) \in Nat /\ Len(Listed(f, o, n)) = Cardinality(S)
      /\ Cardinality(T) \in Nat /\ Len(Listed(g, p, m)) = Cardinality(T)
  BY EntriesFinite
<1>2. MovedDown(T, S, d)
  BY DEF Drops
<1>3. \A i \in T : g[Around(p + i - 1)].id = f[Around(o + (i + d) - 1)].id
  BY DEF Drops
<1>4. /\ Listed(f, o, n) = [k \in 1..Cardinality(S) |-> f[Around(o + Nth(S, k) - 1)].id]
      /\ Listed(g, p, m) = [k \in 1..Cardinality(T) |-> g[Around(p + Nth(T, k) - 1)].id]
  BY DEF Listed
<1> HIDE DEF S, T
<1>5. PICK k \in Nat :
        /\ k = Cardinality({i \in S : i <= d})
        /\ Cardinality(S) = k + Cardinality(T)
        /\ \A j \in 1..Cardinality(T) : Nth(T, j) + d = Nth(S, j + k)
  <2>1. S \in SUBSET Nat /\ IsFiniteSet(S) /\ T \in SUBSET Nat /\ d \in Nat
    BY <1>1
  <2>2. \E k \in Nat :
          /\ k = Cardinality({i \in S : i <= d})
          /\ IsFiniteSet(T) /\ Cardinality(T) \in Nat
          /\ Cardinality(S) = k + Cardinality(T)
          /\ \A j \in 1..Cardinality(T) : Nth(T, j) + d = Nth(S, j + k)
    BY <1>2, <2>1, NthOfShifted
  <2>3. QED
    BY <2>2, Zenon
<1>6. ASSUME NEW j \in 1..Cardinality(T)
      PROVE  Listed(g, p, m)[j] = Listed(f, o, n)[j + k]
  <2>1. Nth(T, j) \in T
    BY <1>1, NthIs
  <2>2. j + k \in 1..Cardinality(S)
    BY <1>1, <1>5
  <2>3. g[Around(p + Nth(T, j) - 1)].id = f[Around(o + Nth(S, j + k) - 1)].id
    BY <1>3, <1>5, <2>1
  <2>4. QED
    BY <1>4, <2>2, <2>3
<1>7. SubSeq(Listed(f, o, n), k + 1, Cardinality(S))
        = [j \in 1..Cardinality(T) |-> Listed(f, o, n)[j + k]]
  <2> DEFINE l == Listed(f, o, n)
             sub == SubSeq(l, k + 1, Cardinality(S))
             V == {l[i] : i \in (k + 1)..Cardinality(S)}
  <2>1. Cardinality(S) - (k + 1) + 1 = Cardinality(T) /\ k + 1 \in Int /\ Cardinality(S) \in Int
    BY <1>1, <1>5
  <2>2. \A i \in (k + 1)..Cardinality(S) : l[i] \in V
    OBVIOUS
  <2> HIDE DEF l, V
  <2>3. /\ sub \in Seq(V)
        /\ Len(sub) = IF k + 1 <= Cardinality(S) THEN Cardinality(S) - (k + 1) + 1 ELSE 0
        /\ \A i \in 1..(Cardinality(S) - (k + 1) + 1) : sub[i] = l[k + 1 + i - 1]
    BY <2>1, <2>2, SubSeqProperties
  <2> HIDE DEF sub
  <2>4. Len(sub) = Cardinality(T)
    <3>1. /\ k + 1 <= Cardinality(S) => Cardinality(S) - (k + 1) + 1 = Cardinality(T)
          /\ ~(k + 1 <= Cardinality(S)) => 0 = Cardinality(T)
      BY <1>1, <1>5
    <3>2. Len(sub) = IF k + 1 <= Cardinality(S) THEN Cardinality(S) - (k + 1) + 1 ELSE 0
      BY <2>3
    <3>3. QED
      BY <3>1, <3>2, Zenon
  <2>5. \A j \in 1..Cardinality(T) : sub[j] = l[j + k]
    <3> SUFFICES ASSUME NEW j \in 1..Cardinality(T) PROVE sub[j] = l[j + k]
      OBVIOUS
    <3>1. k + 1 + j - 1 = j + k /\ j \in 1..(Cardinality(S) - (k + 1) + 1)
      BY <1>1, <2>1
    <3>2. sub[j] = l[k + 1 + j - 1]
      BY <2>3, <3>1
    <3>3. QED
      BY <3>1, <3>2
  <2>6. sub = [j \in 1..Cardinality(T) |-> l[j + k]]
    <3>1. sub = [j \in 1..Len(sub) |-> sub[j]]
      BY <2>3
    <3>2. QED
      BY <2>4, <2>5, <3>1
  <2>7. QED
    BY <2>6 DEF l, sub
<1>8. Listed(g, p, m) = [j \in 1..Cardinality(T) |-> Listed(f, o, n)[j + k]]
  BY <1>4, <1>6
<1>9. QED
  <2>1. k <= Cardinality(S)
    BY <1>1, <1>5
  <2>2. /\ k = Cardinality(UpTo(Entries(f, o, n), d))
        /\ k <= Len(Listed(f, o, n))
    BY <1>1, <1>5, <2>1 DEF S, UpTo
  <2>3. Listed(g, p, m) = Without(Listed(f, o, n), k)
    BY <1>1, <1>7, <1>8 DEF Without
  <2>4. QED
    BY <2>2, <2>3, Zenon

\* The same entries at the same places.
LEMMA ListedSame ==
  ASSUME NEW f, NEW o, NEW n \in Nat, NEW g, NEW p,
         \A i \in 1..n : Whole(g, Around(p + i - 1)) <=> Whole(f, Around(o + i - 1)),
         \A i \in 1..n : Whole(f, Around(o + i - 1)) =>
                           g[Around(p + i - 1)].id = f[Around(o + i - 1)].id
  PROVE  Listed(g, p, n) = Listed(f, o, n)
<1>1. Entries(g, p, n) = Entries(f, o, n)
  BY DEF Entries
<1>2. ASSUME NEW k \in 1..Cardinality(Entries(f, o, n))
      PROVE  g[Around(p + Nth(Entries(f, o, n), k) - 1)].id
               = f[Around(o + Nth(Entries(f, o, n), k) - 1)].id
  <2>1. Nth(Entries(f, o, n), k) \in Entries(f, o, n)
    BY EntriesFinite, NthIs
  <2>2. QED
    BY <2>1 DEF Entries
<1>3. QED
  BY <1>1, <1>2 DEF Listed

\* One more entry, behind all the others.
Adds(f, g, o, n, q) ==
  /\ Entries(g, o, n) = Entries(f, o, n) \union {q}
  /\ \A i \in Entries(f, o, n) : i < q /\ g[Around(o + i - 1)].id = f[Around(o + i - 1)].id

LEMMA ListedLonger ==
  ASSUME NEW f, NEW o, NEW n \in Nat, NEW g, NEW q \in Nat, Adds(f, g, o, n, q)
  PROVE  Listed(g, o, n) = Append(Listed(f, o, n), g[Around(o + q - 1)].id)
<1> DEFINE S == Entries(f, o, n)
           c == Cardinality(S)
           id == g[Around(o + q - 1)].id
<1> USE DEF Adds
<1>1. S \in SUBSET Nat /\ IsFiniteSet(S) /\ c \in Nat /\ Len(Listed(f, o, n)) = c
  BY EntriesFinite
<1>2. /\ Cardinality(S \union {q}) = c + 1
      /\ Nth(S \union {q}, c + 1) = q
      /\ \A k \in 1..c : Nth(S \union {q}, k) = Nth(S, k)
  BY <1>1, NthOfLonger
<1>3. Listed(g, o, n) = [k \in 1..(c + 1) |-> g[Around(o + Nth(S \union {q}, k) - 1)].id]
  BY <1>2 DEF Listed
<1>4. Listed(f, o, n) = [k \in 1..c |-> f[Around(o + Nth(S, k) - 1)].id]
  BY DEF Listed
<1>5. Append(Listed(f, o, n), id)
        = [k \in 1..(c + 1) |-> IF k = c + 1 THEN id ELSE Listed(f, o, n)[k]]
  BY <1>1 DEF Append
<1>6. ASSUME NEW k \in 1..(c + 1)
      PROVE  g[Around(o + Nth(S \union {q}, k) - 1)].id
               = IF k = c + 1 THEN id ELSE Listed(f, o, n)[k]
  <2>1. CASE k = c + 1
    BY <1>2, <2>1
  <2>2. CASE k # c + 1
    <3>1. k \in 1..c
      BY <1>1, <2>2
    <3>2. Nth(S, k) \in S /\ Nth(S \union {q}, k) = Nth(S, k)
      BY <1>1, <1>2, <3>1, NthIs
    <3>3. QED
      BY <1>4, <2>2, <3>1, <3>2
  <2>3. QED
    BY <2>1, <2>2
<1>7. QED
  BY <1>3, <1>5, <1>6

-----------------------------------------------------------------------------
(***************************************************************************)
(* WHAT A STEP DOES TO THE RING.                                           *)
(***************************************************************************)
LEMMA AroundInside ==
  ASSUME NEW o \in 0..Size, NEW i \in 1..Size
  PROVE  /\ Around(o + i - 1) \in Cells
         /\ Around(o + i - 1) = IF o + i - 1 >= Size THEN o + i - 1 - Size ELSE o + i - 1
<1>1. Size \in Nat /\ o + i - 1 \in Nat /\ o + i - 1 < Size + Size
  BY Geometry
<1>2. QED
  BY <1>1 DEF Around, Cells

\* The same entries, in a ring that begins at the same cell.
LEMMA RingSame ==
  ASSUME NEW f, NEW g, NEW o \in 0..Size, NEW p \in 0..Size, Around(o) = Around(p),
         \A c \in Cells : Whole(g, c) <=> Whole(f, c),
         \A c \in Cells : Whole(f, c) => g[c].id = f[c].id
  PROVE  Listed(g, p, Size) = Listed(f, o, Size)
<1>1. Size \in Nat /\ Size > 0
  BY Geometry
<1>2. \/ o = p
      \/ o = 0 /\ p = Size
      \/ o = Size /\ p = 0
  BY <1>1 DEF Around
<1>3. ASSUME NEW i \in 1..Size
      PROVE  Around(o + i - 1) \in Cells /\ Around(p + i - 1) = Around(o + i - 1)
  BY <1>1, <1>2, AroundInside
<1>4. \A i \in 1..Size : Whole(g, Around(p + i - 1)) <=> Whole(f, Around(o + i - 1))
  BY <1>3
<1>5. \A i \in 1..Size : Whole(f, Around(o + i - 1)) =>
                           g[Around(p + i - 1)].id = f[Around(o + i - 1)].id
  BY <1>3
<1>6. QED
  BY <1>1, <1>4, <1>5, ListedSame

LEMMA OldestInside ==
  ASSUME LogInv
  PROVE  Oldest \in 0..Size
  BY HeadBounds DEF Oldest, LogInv, LayoutInv

\* Where the end of an entry is.
LEMMA LengthBounds ==
  ASSUME LogInv, NEW c \in Cells, IsLength(c)
  PROVE  /\ flash[c].size \in Nat /\ flash[c].size >= 2 /\ c \in Nat
         /\ c + flash[c].size < SectorEnd(c) /\ SectorEnd(c) \in Nat
         /\ c + flash[c].size - 1 \in Cells /\ c < c + flash[c].size - 1
<1>1. flash[c].size \in Sizes /\ c + flash[c].size < SectorEnd(c)
  BY DEF LogInv, LayoutInv, LengthInv
<1>2. flash[c].size \in Nat /\ flash[c].size >= 2
  BY <1>1, Geometry
<1>3. c \in Nat /\ SectorEnd(c) \in Nat /\ SectorEnd(c) <= Size /\ Size \in Nat
  BY CellBounds
<1>4. QED
  BY <1>1, <1>2, <1>3 DEF Cells

\* Cells are programmed that complete no entry.
LEMMA RingUntouched ==
  ASSUME LogInv,
         \A c \in Cells : \/ flash'[c] = flash[c]
                          \/ flash[c] = Erased /\ flash'[c] # Type /\ ~Whole(flash', c)
  PROVE  \A c \in Cells : /\ Whole(flash', c) <=> Whole(flash, c)
                          /\ Whole(flash, c) => flash'[c].id = flash[c].id
<1> SUFFICES ASSUME NEW c \in Cells
             PROVE  /\ Whole(flash', c) <=> Whole(flash, c)
                    /\ Whole(flash, c) => flash'[c].id = flash[c].id
  OBVIOUS
<1>1. CASE flash'[c] = flash[c]
  <2>1. CASE IsLength(c)
    <3>1. PICK d \in Cells : d = c + flash[c].size - 1
      BY <2>1, LengthBounds
    <3>2. flash'[d] = Type <=> flash[d] = Type
      BY <3>1, Kinds
    <3>3. QED
      BY <1>1, <3>1, <3>2 DEF Whole
  <2>2. CASE ~IsLength(c)
    BY <1>1, <2>2 DEF Whole, IsLength
  <2>3. QED
    BY <2>1, <2>2
<1>2. CASE flash[c] = Erased /\ ~Whole(flash', c)
  BY <1>2, Kinds DEF Whole
<1>3. QED
  BY <1>1, <1>2

LEMMA RingKept ==
  ASSUME LogInv, NEW o, o = Oldest', o \in 0..Size, Around(Oldest) = Around(o),
         \A c \in Cells : \/ flash'[c] = flash[c]
                          \/ flash[c] = Erased /\ flash'[c] # Type /\ ~Whole(flash', c)
  PROVE  Ring' = Ring
<1>1. \A c \in Cells : /\ Whole(flash', c) <=> Whole(flash, c)
                       /\ Whole(flash, c) => flash'[c].id = flash[c].id
  BY RingUntouched
<1>2. PICK q : q = Oldest
  OBVIOUS
<1>3. q \in 0..Size /\ o \in 0..Size /\ Around(q) = Around(o)
  BY <1>2, OldestInside
<1>4. PICK f, g : f = flash /\ g = flash'
  OBVIOUS
<1>5. Listed(g, o, Size) = Listed(f, q, Size)
  <2>1. /\ \A c \in Cells : Whole(g, c) <=> Whole(f, c)
        /\ \A c \in Cells : Whole(f, c) => g[c].id = f[c].id
    BY <1>1, <1>4
  <2>2. QED
    BY <1>3, <2>1, RingSame
<1>6. QED
  BY <1>2, <1>4, <1>5, RingIs

LEMMA QueueKeepsRing ==
  ASSUME LogInv, (\E size \in Sizes : LogWrite(size)) \/ Take \/ UNCHANGED vars
  PROVE  Ring' = Ring
<1>1. flash' = flash /\ head' = head /\ (pc' = "turn" <=> pc = "turn")
  BY DEF LogWrite, Take, vars
<1>2. Oldest' = Oldest
  BY <1>1 DEF Oldest
<1>3. QED
  BY <1>1, <1>2, OldestInside, RingKept

LEMMA PadSectorKeepsRing ==
  ASSUME LogInv, PadSector
  PROVE  Ring' = Ring
<1>1. /\ pc = "pad" /\ pc' = "turn" /\ head' = Wrap(SectorEnd(head))
      /\ \A c \in Cells : flash'[c] = IF c \in head..(SectorEnd(head) - 1) THEN Zero ELSE flash[c]
  BY DEF PadSector, Programmed
<1>2. head \in Nat /\ SectorEnd(head) \in Nat /\ SectorEnd(head) <= Size /\ Size \in Nat /\ Size > 0
  BY HeadBounds DEF LogInv, LayoutInv
<1>3. /\ Oldest = SectorEnd(head) /\ Oldest' = Wrap(SectorEnd(head))
      /\ Wrap(SectorEnd(head)) \in 0..Size
      /\ Around(Oldest) = Around(Wrap(SectorEnd(head)))
  BY <1>1, <1>2 DEF Oldest, Around, Wrap
<1>4. ASSUME NEW c \in Cells, flash'[c] # flash[c]
      PROVE  flash[c] = Erased /\ flash'[c] # Type /\ ~Whole(flash', c)
  <2>1. c \in head..(SectorEnd(head) - 1) /\ flash'[c] = Zero
    BY <1>1, <1>4
  <2>2. flash[c] = Erased
    BY <1>1, <1>2, <2>1, Front DEF Begun
  <2>3. QED
    BY <2>1, <2>2, Kinds DEF Whole
<1>5. QED
  BY <1>3, <1>4, RingKept

LEMMA WriteLengthKeepsRing ==
  ASSUME LogInv, WriteLength
  PROVE  Ring' = Ring
<1>1. /\ pc = "length" /\ pc' = "data" /\ head' = head /\ entry' = entry
      /\ \A c \in Cells : flash'[c] = IF c = head THEN Length(entry) ELSE flash[c]
  BY WritesInside
<1>2. /\ head \in Nat /\ head \in Cells /\ SectorEnd(head) \in Nat /\ head < SectorEnd(head)
      /\ entry.size \in Nat /\ entry.size >= 2 /\ head + entry.size < SectorEnd(head)
      /\ SectorEnd(head) <= Size /\ Size \in Nat
  BY <1>1, HeadBounds DEF LogInv, LayoutInv
<1>3. Oldest = SectorEnd(head) /\ Oldest' = SectorEnd(head)
  BY <1>1 DEF Oldest
<1>4. flash[head] = Erased /\ flash'[head] = Length(entry)
  BY <1>1, <1>2, Front DEF Begun
<1>5. ~Whole(flash', head)
  <2>1. PICK d \in Cells : d = head + entry.size - 1 /\ head < d /\ d < SectorEnd(head)
    <3>1. head + entry.size - 1 \in Cells /\ head < head + entry.size - 1
          /\ head + entry.size - 1 < SectorEnd(head)
      BY <1>2 DEF Cells
    <3>2. QED
      BY <3>1
  <2>2. flash[d] = Erased
    BY <1>1, <1>2, <2>1, Front DEF Begun
  <2>3. flash'[d] = Erased
    BY <1>1, <1>2, <2>1, <2>2
  <2>4. QED
    BY <1>4, <2>1, <2>3, Kinds DEF Whole
<1>6. ASSUME NEW c \in Cells, flash'[c] # flash[c]
      PROVE  flash[c] = Erased /\ flash'[c] # Type /\ ~Whole(flash', c)
  BY <1>1, <1>4, <1>5, <1>6, Kinds
<1>7. QED
  BY <1>2, <1>3, <1>6, RingKept

LEMMA WriteDataKeepsRing ==
  ASSUME LogInv, WriteData
  PROVE  Ring' = Ring
<1>1. /\ pc = "data" /\ pc' = "type" /\ head' = head /\ Begun
      /\ \A c \in Cells : flash'[c] = IF head < c /\ c < head + entry.size - 1 THEN Data ELSE flash[c]
  BY WritesInside DEF Begun
<1>2. /\ head \in Nat /\ SectorEnd(head) \in Nat /\ SectorEnd(head) <= Size /\ Size \in Nat
      /\ entry.size \in Nat
  BY <1>1, HeadBounds DEF LogInv, LayoutInv
<1>3. Oldest = SectorEnd(head) /\ Oldest' = SectorEnd(head)
  BY <1>1 DEF Oldest
<1>4. ASSUME NEW c \in Cells, flash'[c] # flash[c]
      PROVE  flash[c] = Erased /\ flash'[c] # Type /\ ~Whole(flash', c)
  <2>1. flash'[c] = Data /\ head < c /\ c < head + entry.size - 1 /\ c \in Nat
    BY <1>1, <1>4, CellBounds
  <2>2. flash[c] = Erased
    BY <1>1, <1>2, <2>1, EntryCells
  <2>3. QED
    BY <2>1, <2>2, Kinds DEF Whole
<1>5. QED
  BY <1>2, <1>3, <1>4, RingKept

\* The type completes the writer's entry, which comes behind all others.
LEMMA WriteTypeRecords ==
  ASSUME LogInv, WriteType
  PROVE  /\ Ring' = Append(Ring, entry.id)
         /\ entry.id \in 1..MaxSent
         /\ \A i \in DOMAIN Ring : Ring[i] < entry.id
<1>1. /\ pc = "type" /\ pc' = "idle" /\ head' = head + entry.size /\ Begun
      /\ \A c \in Cells : flash'[c] = IF c = head + entry.size - 1 THEN Type ELSE flash[c]
  BY WritesInside DEF Begun
<1>2. /\ head \in Nat /\ head \in Cells /\ SectorEnd(head) \in Nat /\ head < SectorEnd(head)
      /\ SectorEnd(head) <= Size /\ Size \in Nat /\ Start(head) <= head /\ Start(head) \in Nat
      /\ entry.size \in Nat /\ entry.size >= 2 /\ head + entry.size < SectorEnd(head)
      /\ \A c \in Nat : Start(head) <= c /\ c < SectorEnd(head) =>
           c \in Cells /\ Start(c) = Start(head) /\ SectorEnd(c) = SectorEnd(head)
  BY <1>1, HeadBounds DEF LogInv, LayoutInv
<1>3. flash[head] = Length(entry) /\ IsLength(head) /\ flash[head].size = entry.size
  BY <1>1, Kinds DEF LogInv, LayoutInv, FrontInv, IsLength
<1>4. PICK d \in Cells : d = head + entry.size - 1 /\ head < d /\ d < SectorEnd(head)
  <2>1. head + entry.size - 1 \in Cells /\ head < head + entry.size - 1
        /\ head + entry.size - 1 < SectorEnd(head)
    BY <1>2 DEF Cells
  <2>2. QED
    BY <2>1
<1>5. flash[d] = Erased /\ flash'[d] = Type /\ flash'[head] = Length(entry)
  <2>1. flash[d] = Erased
    BY <1>1, <1>2, <1>4, EntryCells
  <2>2. d # head
    BY <1>2, <1>4
  <2>3. QED
    BY <1>1, <1>2, <1>3, <1>4, <2>1, <2>2
<1>6. ~Whole(flash, head) /\ Whole(flash', head)
  BY <1>3, <1>4, <1>5, Kinds DEF Whole
<1>7. ASSUME NEW c \in Cells, c # head
      PROVE  /\ Whole(flash', c) <=> Whole(flash, c)
             /\ Whole(flash, c) => flash'[c] = flash[c]
  <2>1. CASE IsLength(c)
    <3>1. c # d
      BY <1>5, <2>1, Kinds DEF IsLength
    <3>2. flash'[c] = flash[c]
      BY <1>1, <1>4, <3>1
    <3>3. PICK e \in Cells : e = c + flash[c].size - 1
      BY <2>1, LengthBounds
    <3>4. e # d
      <4>1. flash[c].size \in Nat /\ flash[c].size >= 2 /\ c \in Nat
        BY <2>1, LengthBounds
      <4>2. c < head => c + flash[c].size <= head
        BY <1>2, <1>3, <2>1 DEF LogInv, LayoutInv, LengthInv
      <4>3. head < c => head + entry.size <= c
        BY <1>2, <1>3, <2>1 DEF LogInv, LayoutInv, LengthInv
      <4>4. QED
        BY <1>2, <1>4, <1>7, <3>3, <4>1, <4>2, <4>3
    <3>5. flash'[e] = flash[e]
      BY <1>1, <1>4, <3>3, <3>4
    <3>6. QED
      BY <3>2, <3>3, <3>5 DEF Whole
  <2>2. CASE ~IsLength(c)
    <3>1. ~Whole(flash, c)
      BY <2>2 DEF Whole, IsLength
    <3>2. flash'[c].kind # "length"
      BY <1>1, <2>2, Kinds DEF IsLength
    <3>3. QED
      BY <3>1, <3>2 DEF Whole
  <2>3. QED
    BY <2>1, <2>2
<1>8. ASSUME NEW c \in Cells, Whole(flash, c)
      PROVE  c < head \/ SectorEnd(head) <= c
  <2>1. IsLength(c) /\ c # head /\ c \in Nat
    BY <1>6, <1>8, CellBounds DEF Whole, IsLength
  <2>2. head <= c /\ c < SectorEnd(head) => ~IsLength(c)
    BY <1>1, <2>1, Front
  <2>3. QED
    BY <1>2, <2>1, <2>2
<1>9. PICK o \in 0..Size : o = SectorEnd(head)
  BY <1>2
<1>10. PICK q \in 1..Size : q = head - o + 1 + Size
  <2>1. head - o + 1 + Size \in 1..Size
    BY <1>2, <1>9
  <2>2. QED
    BY <2>1
<1>11. Oldest = o /\ Oldest' = o
  <2>1. SectorEnd(head + entry.size) = SectorEnd(head)
    BY <1>2
  <2>2. QED
    BY <1>1, <1>9, <2>1 DEF Oldest
<1>12. ASSUME NEW i \in 1..Size
       PROVE  /\ Around(o + i - 1) \in Cells
              /\ Around(o + i - 1) = head <=> i = q
              /\ Around(o + i - 1) < head \/ SectorEnd(head) <= Around(o + i - 1) => i < q
  BY <1>2, <1>9, <1>10, AroundInside
<1>13. Entries(flash', o, Size) = Entries(flash, o, Size) \union {q}
  <2>1. \A i \in 1..Size : Whole(flash', Around(o + i - 1))
                             <=> Whole(flash, Around(o + i - 1)) \/ i = q
    <3> SUFFICES ASSUME NEW i \in 1..Size
                 PROVE  Whole(flash', Around(o + i - 1))
                          <=> Whole(flash, Around(o + i - 1)) \/ i = q
      OBVIOUS
    <3>1. PICK c \in Cells : c = Around(o + i - 1) /\ (c = head <=> i = q)
      BY <1>12
    <3>2. QED
      BY <1>6, <1>7, <3>1
  <2>2. QED
    BY <1>10, <2>1 DEF Entries
<1>14. \A i \in Entries(flash, o, Size) :
         /\ i \in 1..Size /\ Whole(flash, Around(o + i - 1)) /\ Around(o + i - 1) \in Cells
         /\ Around(o + i - 1) # head /\ i < q
  BY <1>6, <1>8, <1>12 DEF Entries
<1>15. Ring' = Append(Ring, entry.id)
  <2>1. PICK f, g : f = flash /\ g = flash'
    OBVIOUS
  <2>2. Adds(f, g, o, Size, q)
    BY <1>7, <1>13, <1>14, <2>1 DEF Adds
  <2>3. g[Around(o + q - 1)].id = entry.id
    BY <1>5, <1>10, <1>12, <2>1, Kinds
  <2>4. Listed(g, o, Size) = Append(Listed(f, o, Size), g[Around(o + q - 1)].id)
    <3>1. Size \in Nat /\ q \in Nat
      BY <1>2, <1>10
    <3>2. QED
      BY <2>2, <3>1, ListedLonger
  <2>5. QED
    BY <1>11, <2>1, <2>3, <2>4, RingIs
<1>16. entry.id \in 1..MaxSent
  <2>1. entry.id \in 1..sent /\ sent \in 0..MaxSent
    BY <1>1 DEF LogInv, OrderInv, Typed
  <2>2. QED
    BY <2>1, GeometryAssumption
<1>17. ASSUME NEW k \in DOMAIN Ring PROVE Ring[k] < entry.id
  <2> DEFINE S == Entries(flash, o, Size)
  <2>1. k \in 1..Cardinality(S) /\ Ring[k] = flash[Around(o + Nth(S, k) - 1)].id
    BY <1>11, <1>17, RingIs DEF Listed
  <2>2. Nth(S, k) \in S
    BY <1>2, <2>1, EntriesFinite, NthIs
  <2>3. PICK c \in Cells : c = Around(o + Nth(S, k) - 1) /\ Whole(flash, c) /\ c # head
    BY <1>14, <2>2
  <2>4. flash[c].id < entry.id
    BY <1>1, <2>3 DEF LogInv, OrderInv, Whole, IsLength
  <2>5. QED
    BY <2>1, <2>3, <2>4
<1>18. QED
  BY <1>15, <1>16, <1>17

\* No more entries fit in a sector than Most.
LEMMA FewInSector ==
  ASSUME LogInv, pc = "turn"
  PROVE  /\ Cardinality(UpTo(Entries(flash, head, Size), SectorCells))
              <= (SectorCells - 1) \div 2
         /\ (\A c \in head..(SectorEnd(head) - 1) : flash[c] = Erased) =>
              Cardinality(UpTo(Entries(flash, head, Size), SectorCells)) = 0
<1> DEFINE L == UpTo(Entries(flash, head, Size), SectorCells)
           half == (SectorCells - 1) \div 2
           place == [i \in L |-> (i + 1) \div 2]
<1>1. /\ head = Start(head) /\ head \in Nat /\ SectorEnd(head) = head + SectorCells
      /\ SectorCells \in Nat /\ SectorCells > 0 /\ SectorEnd(head) <= Size /\ Size \in Nat
      /\ \A c \in Nat : head <= c /\ c < SectorEnd(head) =>
           c \in Cells /\ SectorEnd(c) = SectorEnd(head)
  <2>1. head = Start(head)
    BY DEF LogInv, LayoutInv, FitsInv
  <2>2. QED
    BY <2>1, HeadBounds, Geometry DEF LogInv, LayoutInv
<1>2. half \in Nat
  BY <1>1
<1>3. ASSUME NEW i \in L
      PROVE  /\ i \in Nat /\ i >= 1 /\ head + i - 1 \in Cells /\ IsLength(head + i - 1)
             /\ head + i - 1 \in head..(SectorEnd(head) - 1)
             /\ flash[head + i - 1].size \in Nat /\ flash[head + i - 1].size >= 2
             /\ i + 2 <= SectorCells
  <2>1. i \in 1..Size /\ i <= SectorCells /\ Whole(flash, Around(head + i - 1))
    BY DEF UpTo, Entries
  <2>2. head + i - 1 \in Nat /\ head <= head + i - 1 /\ head + i - 1 < SectorEnd(head)
    BY <1>1, <2>1
  <2>3. Around(head + i - 1) = head + i - 1
    BY <1>1, <2>2 DEF Around
  <2>4. PICK c \in Cells : c = head + i - 1 /\ IsLength(c) /\ SectorEnd(c) = SectorEnd(head)
    BY <1>1, <2>1, <2>2, <2>3 DEF Whole, IsLength
  <2>5. flash[c].size \in Nat /\ flash[c].size >= 2 /\ c + flash[c].size < SectorEnd(head)
    BY <2>4, LengthBounds
  <2>6. i + 2 <= SectorCells
    BY <1>1, <2>1, <2>4, <2>5
  <2>7. QED
    BY <1>1, <2>1, <2>2, <2>4, <2>5, <2>6
<1>4. ASSUME NEW i \in L, NEW j \in L, i < j
      PROVE  i + 2 <= j
  <2>1. PICK c \in Cells, d \in Cells : c = head + i - 1 /\ d = head + j - 1 /\ IsLength(c) /\ IsLength(d)
                                        /\ flash[c].size \in Nat /\ flash[c].size >= 2
    BY <1>3
  <2>2. i \in Nat /\ j \in Nat
    BY <1>3
  <2>3. c + flash[c].size <= d
    BY <1>1, <1>4, <2>1, <2>2 DEF LogInv, LayoutInv, LengthInv
  <2>4. QED
    BY <1>1, <2>1, <2>2, <2>3
<1>5. \A i \in L : i \in Nat /\ i >= 1 /\ i + 2 <= SectorCells
  BY <1>3
<1>6. (\A c \in head..(SectorEnd(head) - 1) : flash[c] = Erased) => L = {}
  <2>1. L # {} => \E i \in L : TRUE
    OBVIOUS
  <2> HIDE DEF L
  <2>2. QED
    BY <1>3, <2>1, Kinds DEF IsLength
<1> HIDE DEF L
<1>7. place \in [L -> 1..half]
  <2>1. \A i \in L : (i + 1) \div 2 \in 1..half
    BY <1>1, <1>5
  <2>2. QED
    BY <2>1
<1>8. \A i, j \in L : place[i] = place[j] => i = j
  <2> SUFFICES ASSUME NEW i \in L, NEW j \in L, i < j PROVE (i + 1) \div 2 # (j + 1) \div 2
    BY <1>5
  <2>1. i + 2 <= j /\ i \in Nat /\ j \in Nat
    BY <1>4, <1>5
  <2>2. QED
    BY <2>1
<1>9. place \in Injection(L, 1..half)
  BY <1>7, <1>8 DEF Injection, IsInjective
<1>10. IsFiniteSet(1..half) /\ Cardinality(1..half) = half
  BY <1>2, FS_Interval
<1>11. Cardinality(L) <= half
  BY <1>9, <1>10, FS_Injection
<1>12. L = {} => Cardinality(L) = 0
  BY FS_EmptySet
<1>13. QED
  BY <1>6, <1>11, <1>12 DEF L

\* When the head's sector has been erased, its entries are those that are gone.
LEMMA SectorForgotten ==
  ASSUME LogInv, pc = "turn", NEW g,
         \A c \in Cells : g[c] = IF c \in head..(SectorEnd(head) - 1) THEN Erased ELSE flash[c]
  PROVE  \E k \in Nat :
           /\ k <= Len(Ring) /\ k <= (SectorCells - 1) \div 2
           /\ (\A c \in head..(SectorEnd(head) - 1) : flash[c] = Erased) => k = 0
           /\ Listed(g, SectorEnd(head), Size) = Without(Ring, k)
<1>1. /\ head = Start(head) /\ head \in Nat /\ SectorEnd(head) = head + SectorCells
      /\ SectorCells \in Nat /\ SectorCells > 0 /\ SectorEnd(head) <= Size /\ Size \in Nat
      /\ SectorEnd(head) \in Nat
  <2>1. head = Start(head)
    BY DEF LogInv, LayoutInv, FitsInv
  <2>2. QED
    BY <2>1, HeadBounds, Geometry DEF LogInv, LayoutInv
<1>a. PICK o \in 0..Size, p \in 0..Size : o = head /\ p = SectorEnd(head)
  BY <1>1
<1>b. PICK f : f = flash
  OBVIOUS
<1>2. o = head /\ p = SectorEnd(head) /\ f = flash
  BY <1>a, <1>b
<1>3. \A c \in Cells : c \in Nat /\ (o <= c /\ c < p => g[c] = Erased)
                       /\ (~(o <= c /\ c < p) => g[c] = f[c])
  BY <1>1, <1>2, CellBounds
<1>4. ASSUME NEW c \in Cells, ~(o <= c /\ c < p)
      PROVE  (Whole(g, c) <=> Whole(f, c)) /\ g[c] = f[c]
  <2>1. g[c] = f[c] /\ c \in Nat
    BY <1>3, <1>4
  <2>2. CASE IsLength(c)
    <3>1. PICK e \in Cells : e = c + flash[c].size - 1
      BY <2>2, LengthBounds
    <3>2. c < e /\ e < SectorEnd(c) /\ SectorEnd(c) \in Nat
      BY <2>2, <3>1, LengthBounds
    <3>3. c < o => SectorEnd(c) <= o
      BY <1>1, <1>2, <2>1, EarlierSector
    <3>4. ~(o <= e /\ e < p)
      BY <1>1, <1>2, <1>3, <1>4, <2>1, <3>2, <3>3
    <3>5. g[e] = f[e]
      BY <1>3, <3>4
    <3>6. QED
      BY <1>2, <2>1, <3>1, <3>5 DEF Whole
  <2>3. CASE ~IsLength(c)
    BY <1>2, <2>1, <2>3 DEF Whole, IsLength
  <2>4. QED
    BY <2>2, <2>3
<1>5. ASSUME NEW i \in 1..Size
      PROVE  \E c \in Cells :
               /\ c = Around(p + i - 1)
               /\ i + SectorCells \in 1..Size => c = Around(o + (i + SectorCells) - 1)
               /\ i + SectorCells \in 1..Size <=> ~(o <= c /\ c < p)
  <2>1. PICK c \in Cells : c = Around(p + i - 1)
    BY AroundInside
  <2>2. c = IF p + i - 1 >= Size THEN p + i - 1 - Size ELSE p + i - 1
    BY <2>1, AroundInside
  <2>3. p + i - 1 = o + (i + SectorCells) - 1
    BY <1>1, <1>2
  <2>4. i + SectorCells \in 1..Size <=> ~(o <= c /\ c < p)
    BY <1>1, <1>2, <2>2
  <2>5. QED
    BY <2>1, <2>3, <2>4
<1>6. ASSUME NEW i \in Nat
      PROVE  i \in Entries(g, p, Size) <=> i > 0 /\ i + SectorCells \in Entries(f, o, Size)
  <2>1. CASE i \in 1..Size
    <3>1. PICK c \in Cells :
            /\ c = Around(p + i - 1)
            /\ i + SectorCells \in 1..Size => c = Around(o + (i + SectorCells) - 1)
            /\ i + SectorCells \in 1..Size <=> ~(o <= c /\ c < p)
      BY <1>5, <2>1
    <3>2. CASE i + SectorCells \in 1..Size
      BY <1>4, <2>1, <3>1, <3>2 DEF Entries
    <3>3. CASE i + SectorCells \notin 1..Size
      <4>1. ~Whole(g, c)
        BY <1>3, <3>1, <3>3, Kinds DEF Whole
      <4>2. QED
        BY <3>1, <3>3, <4>1 DEF Entries
    <3>4. QED
      BY <3>2, <3>3
  <2>2. CASE i \notin 1..Size
    <3>1. ~(i > 0 /\ i + SectorCells \in 1..Size)
      BY <1>1, <2>2
    <3>2. QED
      BY <2>2, <3>1 DEF Entries
  <2>3. QED
    BY <2>1, <2>2
<1>7. \A i \in Entries(g, p, Size) :
        g[Around(p + i - 1)].id = f[Around(o + (i + SectorCells) - 1)].id
  <2> SUFFICES ASSUME NEW i \in Entries(g, p, Size)
               PROVE  g[Around(p + i - 1)].id = f[Around(o + (i + SectorCells) - 1)].id
    OBVIOUS
  <2>1. i \in 1..Size /\ Whole(g, Around(p + i - 1))
    BY DEF Entries
  <2>2. i + SectorCells \in 1..Size
    <3>1. i \in Nat
      BY <2>1
    <3>2. QED
      BY <1>6, <3>1 DEF Entries
  <2>3. PICK c \in Cells :
          /\ c = Around(p + i - 1) /\ c = Around(o + (i + SectorCells) - 1)
          /\ ~(o <= c /\ c < p)
    BY <1>5, <2>1, <2>2
  <2>4. QED
    BY <1>4, <2>3
<1>8. Drops(f, o, Size, g, p, Size, SectorCells)
  BY <1>6, <1>7 DEF MovedDown, Drops
<1>9. \E k \in Nat :
        /\ k = Cardinality(UpTo(Entries(f, o, Size), SectorCells))
        /\ k <= Len(Listed(f, o, Size))
        /\ Listed(g, p, Size) = Without(Listed(f, o, Size), k)
  <2>1. o \in Nat /\ p \in Nat /\ Size \in Nat /\ SectorCells \in Nat
    BY <1>1
  <2>2. QED
    BY <1>8, <2>1, ListedShifted
<1>10. Ring = Listed(f, o, Size)
  BY <1>2, RingIs DEF Oldest
<1>11. QED
  BY <1>2, <1>9, <1>10, FewInSector

LEMMA TurnSectorForgets ==
  ASSUME LogInv, TurnSector
  PROVE  \E k \in Nat : /\ k <= Len(Ring) /\ k <= (SectorCells - 1) \div 2
                        /\ Ring' = Without(Ring, k)
<1>1. pc = "turn" /\ pc' = "length" /\ head' = head
  BY DEF TurnSector
<1>2. PICK g : g = flash'
  OBVIOUS
<1>3. \A c \in Cells : g[c] = IF c \in head..(SectorEnd(head) - 1) THEN Erased ELSE flash[c]
  BY <1>2, TurnCells
<1>4. Ring' = Listed(g, SectorEnd(head), Size)
  BY <1>1, <1>2, RingIs DEF Oldest
<1>5. QED
  BY <1>1, <1>3, <1>4, SectorForgotten

\* A ring that is l with event e behind the others, or without the n oldest.
Record(l, longer, e) ==
  (\A i \in DOMAIN l : l[i] < e) /\ longer = Append(l, e)

Forgotten(l, shorter, n) ==
  n <= Len(l) /\ shorter = SubSeq(l, n + 1, Len(l))

LEMMA RingIsSeq ==
  ASSUME LogInv
  PROVE  \E V : Ring \in Seq(V)
<1>a. PICK n \in Nat : n = Cardinality(Entries(flash, Oldest, Size))
  BY EntriesFinite, Geometry
<1>b. PICK f : f = Ring
  OBVIOUS
<1>1. DOMAIN f = 1..n /\ f = [k \in 1..n |-> f[k]]
  BY <1>a, <1>b, RingIs DEF Listed
<1>2. f \in Seq({f[k] : k \in 1..n})
  BY <1>1
<1>3. QED
  BY <1>b, <1>2

LEMMA RestartKeepsRing ==
  ASSUME LogInv, Restart, ScanFinds
  PROVE  Ring' = Ring
<1>1. flash' = flash /\ pc' = "idle" /\ head' = Limit
  BY DEF Restart, ScanFinds
<1>2. /\ head \in Nat /\ head <= Limit /\ Limit \in Nat /\ Limit < SectorEnd(head)
      /\ SectorEnd(Limit) = SectorEnd(head) /\ SectorEnd(head) <= Size /\ Size \in Nat
      /\ SectorEnd(head) \in Nat
  BY LimitInside, HeadBounds DEF LogInv, LayoutInv
<1>3. Oldest' = SectorEnd(head)
  BY <1>1, <1>2 DEF Oldest
<1>4. CASE pc # "turn"
  <2>1. Oldest = SectorEnd(head)
    BY <1>4 DEF Oldest
  <2>2. QED
    BY <1>1, <1>2, <1>3, <2>1, RingKept
<1>5. CASE pc = "turn"
  <2>1. Limit = head
    BY <1>5 DEF Limit, Begun
  <2>2. \A c \in head..(SectorEnd(head) - 1) : c \in Cells /\ flash[c] = Erased
    <3> SUFFICES ASSUME NEW c \in head..(SectorEnd(head) - 1) PROVE c \in Cells /\ flash[c] = Erased
      OBVIOUS
    <3>1. c \in Cells /\ Start(c) = Start(head) /\ head = Start(head)
      BY <1>2, <1>5, HeadBounds DEF LogInv, LayoutInv, FitsInv
    <3>2. flash[head] = Erased
      BY <2>1 DEF ScanFinds
    <3>3. QED
      BY <3>1, <3>2 DEF LogInv, LayoutInv, BeginInv
  <2>3. PICK g : g = flash
    OBVIOUS
  <2>4. \A c \in Cells : g[c] = IF c \in head..(SectorEnd(head) - 1) THEN Erased ELSE flash[c]
    BY <2>2, <2>3
  <2>5. PICK k \in Nat :
          /\ (\A c \in head..(SectorEnd(head) - 1) : flash[c] = Erased) => k = 0
          /\ Listed(g, SectorEnd(head), Size) = Without(Ring, k)
    BY <1>5, <2>4, SectorForgotten
  <2>6. Ring' = SubSeq(Ring, 1, Len(Ring))
    <3>1. k + 1 = 1
      BY <2>2, <2>5
    <3>2. Ring' = Listed(g, SectorEnd(head), Size)
      BY <1>1, <1>3, <2>3, RingIs
    <3>3. QED
      BY <2>5, <3>1, <3>2 DEF Without
  <2>7. QED
    BY <2>6, RingIsSeq, SubSeqFull
<1>6. QED
  BY <1>4, <1>5

-----------------------------------------------------------------------------
(***************************************************************************)
(* LogInv holds until a scan does not find the head.                       *)
(***************************************************************************)
LEMMA ScanFindsUntilFull ==
  ASSUME LogInv, ~filled
  PROVE  ScanFinds
<1>1. Limit \in Cells
  BY LimitInside, Geometry DEF Cells, LogInv, LayoutInv
<1>2. Limit >= Limit
  BY LimitInside DEF LogInv, LayoutInv
<1>3. QED
  BY <1>1, <1>2, HeadOffsetFound DEF ScanFinds, LogInv, FillInv

LEMMA StepsKeep ==
  ASSUME LogInv, [Next]_vars, ~astray'
  PROVE  LogInv' /\ ~astray
<1>1. CASE \E size \in Sizes : LogWrite(size)
  BY <1>1, LogWriteKeeps DEF LogWrite
<1>2. CASE Take
  BY <1>2, TakeKeeps DEF Take
<1>3. CASE PadSector
  BY <1>3, PadSectorKeeps DEF PadSector
<1>4. CASE TurnSector
  BY <1>4, TurnSectorKeeps DEF TurnSector
<1>5. CASE WriteLength
  BY <1>5, WriteLengthKeeps DEF WriteLength, WritePart
<1>6. CASE WriteData
  BY <1>6, WriteDataKeeps DEF WriteData, WritePart
<1>7. CASE WriteType
  BY <1>7, WriteTypeKeeps DEF WriteType, WritePart
<1>8. CASE Restart
  <2>1. ScanFinds /\ ~astray
    BY <1>8 DEF Restart
  <2>2. QED
    BY <1>8, <2>1, RestartKeeps
<1>9. CASE UNCHANGED vars
  BY <1>9 DEF vars, LogInv, Typed, LayoutInv, FitsInv, LengthInv, BeginInv, FrontInv, FillInv,
              OrderInv, Limit, Begun, OnWalk, IsLength
<1>10. QED
  BY <1>1, <1>2, <1>3, <1>4, <1>5, <1>6, <1>7, <1>8, <1>9 DEF Next, Writer

(***************************************************************************)
(* What holds of a log that is astray: the types, and that no entry passes *)
(* the end of the partition.                                               *)
(***************************************************************************)
CellsOK ==
  \A c \in Cells :
    /\ flash[c] \in {Erased, Zero, Data, Type} \union {Length(e) : e \in Entry}
    /\ IsLength(c) => c + flash[c].size <= Size

QueueOK ==
  /\ queue \in Seq(Entry) /\ Len(queue) <= QueueLen
  /\ \A i \in 1..Len(queue) : queue[i].size \in Sizes

WriterOK ==
  /\ head \in 0..Size /\ tail \in Cells
  /\ pc \in {"idle", "pad", "turn", "length", "data", "type"}
  /\ entry \in Entry
  /\ pc # "idle" => entry.size \in Sizes
  /\ pc = "turn" => head = Start(head) /\ head \in Cells
  /\ pc \in {"length", "data", "type"} => head = Size \/ head + entry.size <= Size

HistoryOK ==
  /\ sent \in 0..MaxSent /\ filled \in BOOLEAN /\ astray \in BOOLEAN
  /\ astray => filled

LooseInv == CellsOK /\ QueueOK /\ WriterOK /\ HistoryOK

RingInv == LooseInv /\ (astray \/ LogInv)

LEMMA EntrySizes ==
  ASSUME NEW e \in Entry
  PROVE  e.size \in Nat /\ e.size >= 2
<1>1. e.size \in Sizes \/ e.size = 2
  BY DEF Entry
<1>2. QED
  BY <1>1, Geometry

LEMMA HeadOffsetInside ==
  ASSUME CellsOK
  PROVE  HeadOffset \in 0..Size
<1> DEFINE last  == (HeadSector + 1) * SectorCells
           first == IF HeadSector > 0 THEN (HeadSector - 1) * SectorCells ELSE 0
           Walk(f) ==
             f = [c \in 0..Size |->
                    IF c >= last \/ flash[c] = Erased THEN c
                    ELSE f[IF flash[c] = Zero THEN SectorEnd(c) ELSE c + flash[c].size]]
           S == 0..Size
           stop == {c \in S : c >= last \/ flash[c] = Erased}
           val == [c \in S |-> c]
           next == [c \in S |-> IF flash[c] = Zero THEN SectorEnd(c) ELSE c + flash[c].size]
           far == [c \in S |-> Size - c]
<1>1. HeadSector \in Nat /\ HeadSector < NumSectors /\ Size \in Nat
  BY HeadSectorInside, Geometry
<1>2. last \in Nat /\ last <= Size
  BY <1>1, Multiples, Geometry DEF Size
<1>3. first \in S
  <2>1. CASE HeadSector > 0
    <3>1. HeadSector - 1 \in Nat /\ HeadSector - 1 < NumSectors
      BY <1>1, <2>1, Geometry
    <3>2. (HeadSector - 1) * SectorCells \in Nat /\ (HeadSector - 1) * SectorCells <= NumSectors * SectorCells
      BY <3>1, Multiples, Geometry
    <3>3. QED
      BY <2>1, <3>2, <1>1 DEF Size
  <2>2. CASE ~(HeadSector > 0)
    BY <1>1, <2>2
  <2>3. QED
    BY <2>1, <2>2
<1> HIDE DEF last, first
<1>4. ASSUME NEW c \in S
      PROVE  /\ far[c] \in Nat /\ far[c] < Size + 1
             /\ c \in stop \/ (next[c] \in S /\ far[next[c]] < far[c])
             /\ val[c] \in S
  <2>1. far[c] \in Nat /\ far[c] < Size + 1 /\ val[c] \in S /\ far[c] = Size - c
    BY <1>1
  <2>2. CASE c \notin stop
    <3>1. c \in Cells /\ flash[c] # Erased /\ c \in Nat /\ c < Size
      BY <1>1, <1>2, <2>2 DEF Cells
    <3>2. c < next[c] /\ next[c] \in S
      <4>1. CASE flash[c] = Zero
        <5>1. SectorEnd(c) \in Nat /\ SectorEnd(c) <= Size /\ c < SectorEnd(c)
          BY <3>1, SectorInside, SectorBounds
        <5>2. next[c] = SectorEnd(c)
          BY <4>1
        <5>3. QED
          BY <1>1, <5>1, <5>2
      <4>2. CASE flash[c] = Data \/ flash[c] = Type
        <5>1. flash[c].size = 1
          BY <4>2 DEF Data, Type, Cell
        <5>2. next[c] = c + 1
          BY <4>2, <5>1, Kinds
        <5>3. QED
          BY <1>1, <3>1, <5>2
      <4>3. CASE flash[c] # Zero /\ flash[c] # Data /\ flash[c] # Type
        <5>1. PICK e \in Entry : flash[c] = Length(e)
          BY <3>1, <4>3 DEF CellsOK
        <5>2. IsLength(c) /\ flash[c].size = e.size
          BY <5>1, Kinds DEF IsLength
        <5>3. e.size \in Nat /\ e.size >= 2
          BY EntrySizes
        <5>4. c + flash[c].size <= Size
          BY <3>1, <5>2 DEF CellsOK
        <5>5. next[c] = c + e.size
          BY <4>3, <5>2
        <5>6. QED
          BY <1>1, <3>1, <5>2, <5>3, <5>4, <5>5
      <4>4. QED
        BY <4>1, <4>2, <4>3
    <3>3. far[next[c]] = Size - next[c]
      BY <3>2
    <3>4. QED
      BY <1>1, <2>1, <3>1, <3>2, <3>3
  <2>3. QED
    BY <2>1, <2>2
<1>5. ASSUME NEW f PROVE Walk(f) <=> Recurses(f, S, stop, val, next)
  <2>1. ASSUME NEW c \in S
        PROVE  (IF c >= last \/ flash[c] = Erased THEN c
                ELSE f[IF flash[c] = Zero THEN SectorEnd(c) ELSE c + flash[c].size])
               = (IF c \in stop THEN val[c] ELSE f[next[c]])
    <3>1. c \in stop <=> c >= last \/ flash[c] = Erased
      OBVIOUS
    <3>2. val[c] = c /\ next[c] = IF flash[c] = Zero THEN SectorEnd(c) ELSE c + flash[c].size
      OBVIOUS
    <3> HIDE DEF stop, val, next
    <3>3. QED
      BY <3>1, <3>2
  <2> HIDE DEF stop, val, next
  <2>2. QED
    BY <2>1 DEF Recurses
<1>6. HeadOffset = (CHOOSE f : Walk(f))[first]
  BY DEF HeadOffset, first, last
<1> HIDE DEF stop, val, next, S, far
<1>7. \E f : Walk(f)
  <2>1. Size + 1 \in Nat
    BY <1>1
  <2>2. \E f : Recurses(f, S, stop, val, next)
    BY <1>4, <2>1, RecursionExists
  <2> HIDE DEF Walk
  <2>3. QED
    BY <1>5, <2>2
<1>8. ASSUME NEW f, Walk(f) PROVE f[first] \in S
  <2>1. Recurses(f, S, stop, val, next)
    BY <1>5, <1>8
  <2> HIDE DEF Walk
  <2>2. S \in SUBSET S /\ \A x \in S : far[x] \in Nat
    BY <1>4
  <2>3. \A x \in S : IF x \in stop THEN val[x] \in S ELSE next[x] \in S /\ far[next[x]] < far[x]
    BY <1>4
  <2>4. \A x \in S : f[x] \in S
    BY <2>1, <2>2, <2>3, RecursionGives
  <2>5. QED
    BY <1>3, <2>4
<1> HIDE DEF Walk
<1>9. QED
  BY <1>6, <1>7, <1>8 DEF S

LEMMA AstrayStays ==
  ASSUME [Next]_vars
  PROVE  (astray => astray') /\ (~Restart => astray' = astray)
<1>1. CASE Restart
  BY <1>1 DEF Restart
<1>2. CASE UNCHANGED vars
  BY <1>2 DEF vars
<1>3. CASE \E size \in Sizes : LogWrite(size)
  BY <1>3 DEF LogWrite
<1>4. CASE Writer
  BY <1>4 DEF Writer, Take, PadSector, TurnSector, WriteLength, WriteData, WriteType, WritePart
<1>5. QED
  BY <1>1, <1>2, <1>3, <1>4 DEF Next

LEMMA LogWriteLoose ==
  ASSUME LooseInv, NEW size \in Sizes, LogWrite(size)
  PROVE  LooseInv'
<1>1. /\ sent \in Nat /\ sent' = sent + 1 /\ sent' \in 0..MaxSent /\ sent' \in 1..MaxSent
      /\ UNCHANGED <<flash, head, tail, pc, entry, filled, astray>>
  BY GeometryAssumption DEF LooseInv, HistoryOK, LogWrite
<1> DEFINE new == [id |-> sent + 1, size |-> size]
<1>2. CellsOK' /\ WriterOK' /\ HistoryOK'
  BY <1>1 DEF LooseInv, CellsOK, IsLength, WriterOK, HistoryOK
<1>3. QueueOK'
  <2>1. CASE UNCHANGED queue
    BY <2>1 DEF LooseInv, QueueOK
  <2>2. CASE Len(queue) < QueueLen /\ queue' = Append(queue, new)
    <3>1. new \in Entry /\ new.size \in Sizes
      BY <1>1 DEF Entry
    <3> HIDE DEF new
    <3>2. queue \in Seq(Entry) /\ \A i \in 1..Len(queue) : queue[i].size \in Sizes
      BY DEF LooseInv, QueueOK
    <3>3. /\ queue' \in Seq(Entry) /\ Len(queue') = Len(queue) + 1
          /\ \A i \in 1..Len(queue') : queue'[i] = IF i <= Len(queue) THEN queue[i] ELSE new
      BY <2>2, <3>1, <3>2
    <3>4. Len(queue) \in Nat /\ Len(queue') <= QueueLen
      BY <2>2, <3>2, <3>3, GeometryAssumption
    <3>5. QED
      BY <3>1, <3>2, <3>3, <3>4 DEF QueueOK
  <2>3. QED
    BY <2>1, <2>2 DEF LogWrite
<1>4. QED
  BY <1>2, <1>3 DEF LooseInv

LEMMA TakeLoose ==
  ASSUME LooseInv, Take
  PROVE  LooseInv'
<1>1. /\ pc = "idle" /\ queue # <<>> /\ entry' = Head(queue) /\ queue' = Tail(queue)
      /\ pc' = IF Overruns(Head(queue).size) THEN "pad" ELSE "length"
      /\ UNCHANGED <<flash, head, tail, sent, filled, astray>>
  BY DEF Take
<1>2. /\ queue \in Seq(Entry) /\ Len(queue) <= QueueLen
      /\ \A i \in 1..Len(queue) : queue[i].size \in Sizes
      /\ head \in 0..Size /\ tail \in Cells
  BY DEF LooseInv, QueueOK, WriterOK
<1>3. Len(queue) \in Nat /\ Len(queue) >= 1 /\ Head(queue) = queue[1]
  BY <1>1, <1>2
<1>4. QueueOK'
  <2>1. queue' \in Seq(Entry) /\ Len(queue') = Len(queue) - 1
        /\ \A i \in 1..Len(queue') : queue'[i] = queue[i + 1]
    BY <1>1, <1>2
  <2>2. QED
    BY <1>2, <1>3, <2>1, GeometryAssumption DEF QueueOK
<1>5. entry' \in Entry /\ entry'.size \in Sizes
  BY <1>1, <1>2, <1>3
<1>6. pc' = "length" => head' = Size \/ head' + entry'.size <= Size
  <2> SUFFICES ASSUME pc' = "length", head # Size PROVE head + entry'.size <= Size
    BY <1>1
  <2>1. ~(head + entry'.size >= SectorEnd(head))
    BY <1>1 DEF Overruns
  <2>2. head \in Cells /\ head \in Nat /\ Size \in Nat
    BY <1>2, Geometry DEF Cells
  <2>3. SectorEnd(head) \in Nat /\ SectorEnd(head) <= Size
    BY <2>2, CellBounds
  <2>4. entry'.size \in Nat
    BY <1>5, Geometry
  <2>5. QED
    BY <2>1, <2>2, <2>3, <2>4
<1>7. WriterOK'
  BY <1>1, <1>2, <1>5, <1>6 DEF WriterOK
<1>8. CellsOK' /\ HistoryOK'
  BY <1>1 DEF LooseInv, CellsOK, IsLength, HistoryOK
<1>9. QED
  BY <1>4, <1>7, <1>8 DEF LooseInv

\* Sector by sector, programming and erasing keeps the cells' types.
LEMMA ProgrammedLoose ==
  ASSUME CellsOK, NEW from, NEW to, NEW cell,
         cell \in {Erased, Zero, Data, Type} \union {Length(e) : e \in Entry},
         \/ cell \in {Zero, Data, Type}
         \/ to = from + 1 /\ from \in Nat /\ from + cell.size <= Size,
         flash' = Programmed(from, to, cell)
  PROVE  CellsOK'
<1> SUFFICES ASSUME NEW c \in Cells
             PROVE  /\ flash'[c] \in {Erased, Zero, Data, Type} \union {Length(e) : e \in Entry}
                    /\ flash'[c].kind = "length" => c + flash'[c].size <= Size
  BY DEF CellsOK, IsLength
<1>1. flash'[c] = IF c \in from..(to - 1) THEN cell ELSE flash[c]
  BY DEF Programmed
<1>2. CASE c \in from..(to - 1)
  <2>1. CASE cell \in {Zero, Data, Type}
    BY <1>1, <1>2, <2>1, Kinds
  <2>2. CASE to = from + 1 /\ from \in Nat /\ from + cell.size <= Size
    <3>1. c = from
      BY <1>2, <2>2
    <3>2. QED
      BY <1>1, <1>2, <2>2, <3>1
  <2>3. QED
    BY <2>1, <2>2
<1>3. CASE c \notin from..(to - 1)
  BY <1>1, <1>3 DEF CellsOK, IsLength
<1>4. QED
  BY <1>2, <1>3

LEMMA PadSectorLoose ==
  ASSUME LooseInv, PadSector
  PROVE  LooseInv'
<1>1. /\ pc = "pad" /\ pc' = "turn" /\ flash' = Programmed(head, SectorEnd(head), Zero)
      /\ head' = Wrap(SectorEnd(head)) /\ filled' = (filled \/ SectorEnd(head) >= Size)
      /\ UNCHANGED <<tail, queue, entry, sent, astray>>
  BY DEF PadSector
<1>2. CellsOK'
  BY <1>1, ProgrammedLoose DEF LooseInv
<1>3. head \in Nat /\ SectorEnd(head) \in Nat
  BY SectorBounds, Geometry DEF LooseInv, WriterOK
<1>4. head' \in Cells /\ head' = Start(head')
  <2>1. head' \in Cells
    BY <1>1, <1>3, WrapsInside
  <2>2. Start(SectorEnd(head)) = SectorEnd(head) /\ Start(0) = 0
    BY <1>3, NextSector
  <2>3. QED
    BY <1>1, <2>1, <2>2 DEF Wrap
<1>5. head' \in 0..Size
  BY <1>4, Geometry DEF Cells
<1>6. WriterOK'
  BY <1>1, <1>4, <1>5 DEF LooseInv, WriterOK
<1>7. QueueOK' /\ HistoryOK'
  BY <1>1 DEF LooseInv, QueueOK, HistoryOK
<1>8. QED
  BY <1>2, <1>6, <1>7 DEF LooseInv

LEMMA TurnSectorLoose ==
  ASSUME LooseInv, TurnSector
  PROVE  LooseInv'
<1>1. /\ pc = "turn" /\ pc' = "length"
      /\ flash' = flash \/ flash' = ErasedSector(head)
      /\ tail' = Wrap(NewTail)
      /\ UNCHANGED <<head, queue, entry, sent, filled, astray>>
  BY DEF TurnSector
<1>2. CellsOK'
  <2> SUFFICES ASSUME NEW c \in Cells
               PROVE  /\ flash'[c] \in {Erased, Zero, Data, Type} \union {Length(e) : e \in Entry}
                      /\ flash'[c].kind = "length" => c + flash'[c].size <= Size
    BY DEF CellsOK, IsLength
  <2>1. flash'[c] \in {Erased, flash[c]}
    BY <1>1 DEF ErasedSector
  <2>2. CASE flash'[c] = Erased
    BY <2>2, Kinds
  <2>3. CASE flash'[c] = flash[c]
    BY <2>3 DEF LooseInv, CellsOK, IsLength
  <2>4. QED
    BY <2>1, <2>2, <2>3
<1>3. /\ head \in Cells /\ head = Start(head) /\ head \in Nat /\ tail \in Cells /\ tail \in Nat
      /\ entry.size \in Sizes /\ entry.size \in Nat /\ entry.size < SectorCells
      /\ head \in 0..Size
  BY <1>1, Geometry DEF LooseInv, WriterOK, Cells
<1>4. tail' \in Cells
  <2>1. NewTail \in Nat
    BY <1>3, Geometry DEF NewTail
  <2>2. QED
    BY <1>1, <2>1, WrapsInside
<1>5. head + entry.size <= Size
  <2>1. SectorEnd(head) \in Nat /\ SectorEnd(head) <= Size /\ Size \in Nat
    BY <1>3, CellBounds
  <2>2. SectorEnd(head) = head + SectorCells
    BY <1>3, <2>1, Geometry DEF Start
  <2>3. QED
    BY <1>3, <2>1, <2>2, Geometry
<1>6. WriterOK'
  BY <1>1, <1>3, <1>4, <1>5 DEF LooseInv, WriterOK
<1>7. QueueOK' /\ HistoryOK'
  BY <1>1 DEF LooseInv, QueueOK, HistoryOK
<1>8. QED
  BY <1>2, <1>6, <1>7 DEF LooseInv

LEMMA WriteLoose ==
  ASSUME LooseInv, WriteLength \/ WriteData \/ WriteType
  PROVE  LooseInv'
<1>1. /\ head \in 0..Size /\ head \in Nat /\ Size \in Nat /\ tail \in Cells
      /\ pc \in {"length", "data", "type"}
      /\ entry \in Entry /\ entry.size \in Sizes /\ entry.size \in Nat /\ entry.size >= 2
      /\ head = Size \/ head + entry.size <= Size
  BY Geometry DEF LooseInv, WriterOK, WriteLength, WriteData, WriteType, WritePart
<1>2. UNCHANGED <<tail, queue, entry, sent, filled, astray>>
  BY DEF WriteLength, WriteData, WriteType, WritePart
<1>3. QueueOK' /\ HistoryOK'
  BY <1>2 DEF LooseInv, QueueOK, HistoryOK
<1>4. CASE pc' = "idle" /\ head' = Wrap(SectorEnd(head)) /\ UNCHANGED flash
  <2>1. head' \in Cells
    BY <1>1, <1>4, SectorBounds, WrapsInside
  <2>2. head' \in 0..Size
    BY <2>1, Geometry DEF Cells
  <2>3. CellsOK'
    BY <1>4 DEF LooseInv, CellsOK, IsLength
  <2>4. WriterOK'
    BY <1>1, <1>2, <1>4, <2>2 DEF WriterOK
  <2>5. QED
    BY <1>3, <2>3, <2>4 DEF LooseInv
<1>5. CASE /\ pc' = "data" /\ head' = head /\ head + 1 <= Size
           /\ flash' = Programmed(head, head + 1, Length(entry))
  <2>1. head + entry.size <= Size
    BY <1>1, <1>5
  <2>2. CellsOK'
    <3>1. Length(entry) \in {Erased, Zero, Data, Type} \union {Length(e) : e \in Entry}
      BY <1>1
    <3>2. head + Length(entry).size <= Size
      BY <2>1, Kinds
    <3>3. QED
      BY <1>1, <1>5, <3>1, <3>2, ProgrammedLoose DEF LooseInv
  <2>3. WriterOK'
    BY <1>1, <1>2, <1>5, <2>1 DEF WriterOK
  <2>4. QED
    BY <1>3, <2>2, <2>3 DEF LooseInv
<1>6. CASE /\ pc' = "type" /\ head' = head
           /\ flash' = Programmed(head + 1, head + entry.size - 1, Data)
  <2>1. CellsOK'
    BY <1>6, ProgrammedLoose DEF LooseInv
  <2>2. WriterOK'
    BY <1>1, <1>2, <1>6 DEF WriterOK
  <2>3. QED
    BY <1>3, <2>1, <2>2 DEF LooseInv
<1>7. CASE /\ pc' = "idle" /\ head' = head + entry.size /\ head + entry.size <= Size
           /\ flash' = Programmed(head + entry.size - 1, head + entry.size, Type)
  <2>1. CellsOK'
    BY <1>7, ProgrammedLoose DEF LooseInv
  <2>2. head' \in 0..Size
    BY <1>1, <1>7
  <2>3. WriterOK'
    BY <1>1, <1>2, <1>7, <2>2 DEF WriterOK
  <2>4. QED
    BY <1>3, <2>1, <2>3 DEF LooseInv
<1>8. QED
  BY <1>4, <1>5, <1>6, <1>7 DEF WriteLength, WriteData, WriteType, WritePart

LEMMA RestartLoose ==
  ASSUME RingInv, Restart
  PROVE  LooseInv'
<1>1. /\ head' = HeadOffset /\ tail' = TailSector * SectorCells
      /\ queue' = <<>> /\ pc' = "idle" /\ entry' = NoEntry
      /\ astray' = (astray \/ ~ScanFinds) /\ UNCHANGED <<flash, sent, filled>>
  BY DEF Restart
<1>2. CellsOK'
  BY <1>1 DEF RingInv, LooseInv, CellsOK, IsLength
<1>3. QueueOK'
  BY <1>1, GeometryAssumption DEF QueueOK
<1>4. tail' \in Cells
  <2>1. TailSector \in Nat /\ TailSector < NumSectors
    BY TailSectorInside, Geometry
  <2>2. TailSector * SectorCells \in Nat /\ TailSector * SectorCells < Size
    BY <2>1, Multiples, Geometry DEF Size
  <2>3. QED
    BY <1>1, <2>2, Geometry DEF Cells
<1>5. entry' \in Entry
  BY <1>1, GeometryAssumption DEF Entry, NoEntry
<1>6. WriterOK'
  BY <1>1, <1>4, <1>5, HeadOffsetInside DEF WriterOK, RingInv, LooseInv
<1>7. HistoryOK'
  <2>1. sent' \in 0..MaxSent /\ filled' \in BOOLEAN /\ astray' \in BOOLEAN
    BY <1>1 DEF RingInv, LooseInv, HistoryOK
  <2>2. astray' => filled'
    BY <1>1, ScanFindsUntilFull DEF RingInv, LooseInv, HistoryOK
  <2>3. QED
    BY <2>1, <2>2 DEF HistoryOK
<1>8. QED
  BY <1>2, <1>3, <1>6, <1>7 DEF LooseInv

LEMMA RingInvKept ==
  ASSUME RingInv, [Next]_vars
  PROVE  RingInv'
<1>1. LooseInv'
  <2>1. CASE \E size \in Sizes : LogWrite(size)
    BY <2>1, LogWriteLoose DEF RingInv
  <2>2. CASE Take
    BY <2>2, TakeLoose DEF RingInv
  <2>3. CASE PadSector
    BY <2>3, PadSectorLoose DEF RingInv
  <2>4. CASE TurnSector
    BY <2>4, TurnSectorLoose DEF RingInv
  <2>5. CASE WriteLength \/ WriteData \/ WriteType
    BY <2>5, WriteLoose DEF RingInv
  <2>6. CASE Restart
    BY <2>6, RestartLoose
  <2>7. CASE UNCHANGED vars
    BY <2>7 DEF vars, RingInv, LooseInv, CellsOK, IsLength, QueueOK, WriterOK, HistoryOK
  <2>8. QED
    BY <2>1, <2>2, <2>3, <2>4, <2>5, <2>6, <2>7 DEF Next, Writer
<1>2. CASE astray'
  BY <1>1, <1>2 DEF RingInv
<1>3. CASE ~astray'
  <2>1. ~astray
    BY <1>3, AstrayStays
  <2>2. LogInv'
    BY <1>3, <2>1, StepsKeep DEF RingInv
  <2>3. QED
    BY <1>1, <2>2 DEF RingInv
<1>4. QED
  BY <1>2, <1>3

LEMMA RingInvHolds == Spec => []RingInv
<1>1. Init => RingInv
  <2> SUFFICES ASSUME Init PROVE RingInv
    OBVIOUS
  <2>1. LogInv
    BY InitHolds
  <2>2. CellsOK
    <3> SUFFICES ASSUME NEW c \in Cells
                 PROVE  /\ flash[c] \in {Erased, Zero, Data, Type} \union {Length(e) : e \in Entry}
                        /\ flash[c].kind = "length" => c + flash[c].size <= Size
      BY DEF CellsOK, IsLength
    <3>1. flash[c] = Erased
      BY DEF Init
    <3>2. QED
      BY <3>1, Kinds
  <2>3. QueueOK
    BY <2>1 DEF LogInv, Typed, QueueOK, Init
  <2>4. WriterOK
    BY <2>1, Geometry DEF LogInv, Typed, WriterOK, Init, Cells
  <2>5. HistoryOK
    BY <2>1 DEF LogInv, Typed, HistoryOK, Init
  <2>6. QED
    BY <2>1, <2>2, <2>3, <2>4, <2>5 DEF RingInv, LooseInv
<1>2. RingInv /\ [Next]_vars => RingInv'
  BY RingInvKept
<1>3. QED
  BY <1>1, <1>2, PTL DEF Spec

(***************************************************************************)
(* The log's variables keep their types, across any restarts, which read   *)
(* head and tail off the flash: the head is in the partition, or at its    *)
(* end after a scan gone astray.                                           *)
(***************************************************************************)
THEOREM TypeCorrect == Spec => []TypeOK
<1>1. RingInv => TypeOK
  <2> SUFFICES ASSUME RingInv PROVE TypeOK
    OBVIOUS
  <2>1. head = Size => astray
    BY Geometry DEF RingInv, LogInv, Typed, Cells
  <2>2. QED
    BY <2>1 DEF RingInv, LooseInv, CellsOK, QueueOK, WriterOK, HistoryOK, TypeOK
<1>2. QED
  BY <1>1, RingInvHolds, PTL

(***************************************************************************)
(* The scan finds the head after any restarts until the ring was full.     *)
(***************************************************************************)
THEOREM HeadIsRecovered == Spec => []RecoversUntilFull
<1>1. RingInv => RecoversUntilFull
  BY DEF RingInv, LooseInv, HistoryOK, RecoversUntilFull
<1>2. QED
  BY <1>1, RingInvHolds, PTL

(***************************************************************************)
(* No cell is programmed that is not erased, round the ring and wherever a *)
(* restart cut the writer off, until a scan goes astray.                   *)
(***************************************************************************)
THEOREM OnlyErasedIsProgrammed == Spec => ProgramsErased
<1>1. ASSUME RingInv, [Next]_vars
      PROVE  [astray \/ \A c \in Cells : flash'[c] \in {flash[c], Erased} \/ flash[c] = Erased]_vars
  <2> SUFFICES ASSUME Next, LogInv, NEW c \in Cells
               PROVE  flash'[c] \in {flash[c], Erased} \/ flash[c] = Erased
    BY <1>1 DEF RingInv
  <2>1. CASE flash' = flash
    BY <2>1
  <2>2. CASE PadSector
    <3>1. /\ pc = "pad"
          /\ flash'[c] = IF c \in head..(SectorEnd(head) - 1) THEN Zero ELSE flash[c]
      BY <2>2 DEF PadSector, Programmed
    <3>2. c \in head..(SectorEnd(head) - 1) => flash[c] = Erased
      BY <1>1, <3>1, HeadBounds, CellBounds, Front DEF Begun, LogInv, LayoutInv
    <3>3. QED
      BY <3>1, <3>2
  <2>3. CASE TurnSector
    BY <1>1, <2>3, TurnCells
  <2>4. CASE WriteLength
    <3>1. pc = "length" /\ flash'[c] = IF c = head THEN Length(entry) ELSE flash[c]
      BY <1>1, <2>4, WritesInside
    <3>2. c = head => flash[c] = Erased
      BY <1>1, <3>1, HeadBounds, Front DEF Begun, LogInv, LayoutInv
    <3>3. QED
      BY <3>1, <3>2
  <2>5. CASE WriteData
    <3>1. /\ pc = "data"
          /\ flash'[c] = IF head < c /\ c < head + entry.size - 1 THEN Data ELSE flash[c]
      BY <1>1, <2>5, WritesInside
    <3>2. head < c /\ c < head + entry.size - 1 => c < head + entry.size
      BY <1>1, <3>1, HeadBounds, CellBounds DEF LogInv, LayoutInv
    <3>3. head < c /\ c < head + entry.size - 1 => flash[c] = Erased
      BY <1>1, <3>1, <3>2, EntryCells DEF Begun
    <3>4. QED
      BY <3>1, <3>3
  <2>6. CASE WriteType
    <3>1. pc = "type" /\ flash'[c] = IF c = head + entry.size - 1 THEN Type ELSE flash[c]
      BY <1>1, <2>6, WritesInside
    <3>2. c = head + entry.size - 1 => head < c /\ c < head + entry.size
      BY <1>1, <3>1, HeadBounds DEF LogInv, LayoutInv
    <3>3. c = head + entry.size - 1 => flash[c] = Erased
      BY <1>1, <3>1, <3>2, EntryCells DEF Begun
    <3>4. QED
      BY <3>1, <3>3
  <2>7. QED
    BY <2>1, <2>2, <2>3, <2>4, <2>5, <2>6 DEF Next, Writer, LogWrite, Take, Restart
<1>2. QED
  BY <1>1, RingInvHolds, PTL DEF Spec, ProgramsErased

(***************************************************************************)
(* Until the ring is full a download between two writes returns every      *)
(* whole entry, oldest first, however often the log was cut off before.    *)
(***************************************************************************)
THEOREM DownloadIsComplete == Spec => []DownloadsAll
<1>1. RingInv => DownloadsAll
  <2> SUFFICES ASSUME LogInv, pc = "idle", ~filled PROVE Download = Ring
    BY DEF DownloadsAll, RingInv, LooseInv, HistoryOK
  <2>1. /\ head \in Nat /\ head < SectorEnd(head) /\ SectorEnd(head) <= Size /\ Size \in Nat
        /\ SectorEnd(head) \in Nat
    BY HeadBounds DEF LogInv, LayoutInv
  <2>a. SectorEnd(head) \in 0..Size /\ Size - SectorEnd(head) \in Nat
    BY <2>1
  <2>b. PICK o \in 0..Size, d \in Nat : o = SectorEnd(head) /\ d = Size - SectorEnd(head)
    BY <2>a
  <2>c. PICK f : f = flash
    OBVIOUS
  <2>2. o = SectorEnd(head) /\ f = flash /\ d = Size - SectorEnd(head)
    BY <2>b, <2>c
  <2>3. tail = 0 /\ \A c \in Cells : c >= head => f[c] = Erased
    BY <2>2 DEF LogInv, FillInv, Limit, Begun
  <2>4. Download = Listed(f, 0, head) /\ Ring = Listed(f, o, Size)
    <3>1. tail <= head /\ head - tail = head
      BY <2>1, <2>3
    <3>2. Download = Numbers(0, head)
      BY <2>3, <3>1 DEF Download
    <3>3. QED
      BY <2>2, <3>2, NumbersIs, RingIs DEF Oldest
  <2>5. ASSUME NEW i \in 1..Size
        PROVE  /\ Around(0 + i - 1) \in Cells /\ Around(0 + i - 1) = i - 1
               /\ i + d <= Size => Around(o + (i + d) - 1) = i - 1
               /\ i > d => Around(o + i - 1) = i - d - 1
               /\ ~(i > d) => Around(o + i - 1) \in Cells /\ Around(o + i - 1) >= head
    <3>1. 0 \in 0..Size
      BY <2>1
    <3>2. Around(0 + i - 1) \in Cells /\ Around(0 + i - 1) = i - 1
      BY <2>1, <3>1, AroundInside
    <3>3. Around(o + i - 1) \in Cells
          /\ Around(o + i - 1) = IF o + i - 1 >= Size THEN o + i - 1 - Size ELSE o + i - 1
      BY AroundInside
    <3>4. i + d <= Size => Around(o + (i + d) - 1) = i - 1
      BY <2>1, <2>2 DEF Around
    <3>5. QED
      BY <2>1, <2>2, <3>2, <3>3, <3>4
  <2>6. \A c \in Cells : c >= head => ~Whole(f, c)
    BY <2>3, Kinds DEF Whole
  <2>7. ASSUME NEW i \in Nat
        PROVE  i \in Entries(f, 0, head) <=> i > 0 /\ i + d \in Entries(f, o, Size)
    <3>1. CASE i \in 1..Size /\ i + d <= Size
      <4>1. PICK c \in Cells : c = Around(0 + i - 1) /\ c = i - 1 /\ c = Around(o + (i + d) - 1)
        BY <2>5, <3>1
      <4>2. i \in 1..head <=> ~(c >= head)
        BY <2>1, <3>1, <4>1
      <4>3. i + d \in 1..Size
        BY <2>1, <3>1
      <4>4. QED
        BY <2>6, <3>1, <4>1, <4>2, <4>3 DEF Entries
    <3>2. CASE ~(i \in 1..Size /\ i + d <= Size)
      <4>1. i \notin 1..head /\ ~(i > 0 /\ i + d \in 1..Size)
        BY <2>1, <2>2, <3>2
      <4>2. QED
        BY <4>1 DEF Entries
    <3>3. QED
      BY <3>1, <3>2
  <2>8. \A i \in Entries(f, 0, head) :
          f[Around(0 + i - 1)].id = f[Around(o + (i + d) - 1)].id
    <3> SUFFICES ASSUME NEW i \in Entries(f, 0, head)
                 PROVE  Around(0 + i - 1) = Around(o + (i + d) - 1)
      OBVIOUS
    <3>1. i \in 1..head
      BY DEF Entries
    <3>2. i \in 1..Size /\ i + d <= Size
      BY <2>1, <2>2, <3>1
    <3>3. QED
      BY <2>5, <3>2
  <2>9. Drops(f, o, Size, f, 0, head, d)
    BY <2>7, <2>8 DEF Drops, MovedDown
  <2>10. PICK k \in Nat : /\ k = Cardinality(UpTo(Entries(f, o, Size), d))
                          /\ Listed(f, 0, head) = Without(Listed(f, o, Size), k)
    <3>1. o \in Nat /\ 0 \in Nat
      BY <2>1
    <3>2. QED
      BY <2>1, <2>9, <3>1, ListedShifted
  <2>11. UpTo(Entries(f, o, Size), d) = {}
    <3> SUFFICES ASSUME NEW i \in Entries(f, o, Size), i <= d PROVE FALSE
      BY DEF UpTo
    <3>1. i \in 1..Size /\ Whole(f, Around(o + i - 1)) /\ ~(i > d)
      BY <2>2 DEF Entries
    <3>2. QED
      BY <2>5, <2>6, <3>1
  <2>12. k = 0
    BY <2>10, <2>11, FS_EmptySet
  <2>13. Download = SubSeq(Ring, 1, Len(Ring))
    BY <2>4, <2>10, <2>12 DEF Without
  <2>14. QED
    BY <2>13, RingIsSeq, SubSeqFull
<1>2. QED
  BY <1>1, RingInvHolds, PTL

(***************************************************************************)
(* The refinement: the last write of an entry records it behind all the    *)
(* others, the turn to the next sector forgets the entries of that sector, *)
(* and nothing else changes what the ring holds, a restart that finds the  *)
(* head least of all, whether the ring has been full or not.               *)
(***************************************************************************)
THEOREM RingIsEventLog == Spec => ImplementsEventLog
<1> DEFINE shown == IF astray THEN <<>> ELSE Ring
<1>1. Init => Abstract!Init
  <2> SUFFICES ASSUME Init PROVE Ring = <<>>
    BY DEF Abstract!Init, Init
  <2>1. LogInv
    BY InitHolds
  <2>2. \A i \in 1..Size : ~Whole(flash, Around(Oldest + i - 1))
    <3> SUFFICES ASSUME NEW i \in 1..Size PROVE ~Whole(flash, Around(Oldest + i - 1))
      OBVIOUS
    <3>1. Around(Oldest + i - 1) \in Cells
      BY <2>1, OldestInside, AroundInside
    <3>2. QED
      BY <3>1, Kinds DEF Init, Whole
  <2>3. Entries(flash, Oldest, Size) = {}
    BY <2>2 DEF Entries
  <2>4. Cardinality({}) = 0
    BY FS_EmptySet
  <2>5. QED
    BY <2>3, <2>4, RingIs DEF Listed
<1>2. ASSUME LogInv, [Next]_vars, ~astray, ~astray'
      PROVE  \/ \E e \in 1..MaxSent : Record(Ring, Ring', e)
             \/ \E n \in 1..((SectorCells - 1) \div 2) : Forgotten(Ring, Ring', n)
             \/ Ring' = Ring
  <2>1. CASE (\E size \in Sizes : LogWrite(size)) \/ Take \/ UNCHANGED vars
    BY <1>2, <2>1, QueueKeepsRing
  <2>2. CASE PadSector
    BY <1>2, <2>2, PadSectorKeepsRing
  <2>3. CASE TurnSector
    <3>1. PICK k \in Nat : k <= Len(Ring) /\ k <= (SectorCells - 1) \div 2 /\ Ring' = Without(Ring, k)
      BY <1>2, <2>3, TurnSectorForgets
    <3>2. CASE k = 0
      <4>1. Ring' = SubSeq(Ring, 1, Len(Ring))
        BY <3>1, <3>2 DEF Without
      <4>2. QED
        BY <1>2, <4>1, RingIsSeq, SubSeqFull
    <3>3. CASE k # 0
      <4>1. k \in 1..((SectorCells - 1) \div 2)
        BY <3>1, <3>3, Geometry
      <4>2. Forgotten(Ring, Ring', k)
        BY <3>1 DEF Forgotten, Without
      <4>3. QED
        BY <4>1, <4>2
    <3>4. QED
      BY <3>2, <3>3
  <2>4. CASE WriteLength
    BY <1>2, <2>4, WriteLengthKeepsRing
  <2>5. CASE WriteData
    BY <1>2, <2>5, WriteDataKeepsRing
  <2>6. CASE WriteType
    <3>1. PICK e \in 1..MaxSent : /\ Ring' = Append(Ring, e)
                                  /\ \A i \in DOMAIN Ring : Ring[i] < e
      BY <1>2, <2>6, WriteTypeRecords
    <3>2. QED
      BY <3>1 DEF Record
  <2>7. CASE Restart
    <3>1. ScanFinds
      BY <1>2, <2>7 DEF Restart
    <3>2. QED
      BY <1>2, <2>7, <3>1, RestartKeepsRing
  <2>8. QED
    BY <1>2, <2>1, <2>2, <2>3, <2>4, <2>5, <2>6, <2>7 DEF Next, Writer
<1>3. RingInv /\ [Next]_vars => [Abstract!Next]_<<shown, astray>>
  <2> SUFFICES ASSUME RingInv, [Next]_vars
               PROVE  Abstract!Next \/ (shown' = shown /\ astray' = astray)
    OBVIOUS
  <2>1. astray \in BOOLEAN /\ astray' \in BOOLEAN /\ (astray => astray')
    BY RingInvKept, AstrayStays DEF RingInv, LooseInv, HistoryOK
  <2>2. CASE astray
    BY <2>1, <2>2
  <2>3. CASE ~astray /\ astray'
    BY <2>1, <2>3 DEF Abstract!Next, Abstract!Lose
  <2>4. CASE ~astray /\ ~astray'
    <3>1. LogInv /\ shown = Ring /\ shown' = Ring' /\ astray' = astray
      BY <2>1, <2>4 DEF RingInv
    <3>2. CASE \E e \in 1..MaxSent : Record(Ring, Ring', e)
      <4>1. PICK e \in 1..MaxSent : Record(Ring, Ring', e)
        BY <3>2
      <4>2. Abstract!Record(e)
        BY <2>4, <4>1 DEF Abstract!Record, Record
      <4>3. QED
        BY <2>4, <3>1, <4>2 DEF Abstract!Next
    <3>3. CASE \E n \in 1..((SectorCells - 1) \div 2) : Forgotten(Ring, Ring', n)
      <4>1. PICK n \in 1..((SectorCells - 1) \div 2) : Forgotten(Ring, Ring', n)
        BY <3>3
      <4>2. Abstract!Forget(n)
        BY <2>4, <4>1 DEF Abstract!Forget, Forgotten
      <4>3. QED
        BY <2>4, <3>1, <4>2 DEF Abstract!Next
    <3>4. CASE Ring' = Ring
      BY <3>1, <3>4
    <3>5. QED
      BY <1>2, <2>4, <3>1, <3>2, <3>3, <3>4
  <2>5. QED
    BY <2>1, <2>2, <2>3, <2>4
<1>4. QED
  BY <1>1, <1>3, RingInvHolds, PTL DEF Spec, ImplementsEventLog, Abstract!Spec
=============================================================================
