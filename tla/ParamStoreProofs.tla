--------------------------- MODULE ParamStoreProofs ---------------------------
(***************************************************************************)
(* Theorems about ParamStore, for any number of parameters, slots, tasks,  *)
(* values set and commits.                                                 *)
(***************************************************************************)
EXTENDS ParamStore, FiniteSetTheorems, TLAPS

-----------------------------------------------------------------------------
(***************************************************************************)
(* SORTING.  A set of numbers has a least one; so a schedule of any length *)
(* has an order, by inserting its last slot into the order of the others.  *)
(***************************************************************************)
LEMMA LeastNumber ==
  ASSUME NEW S \in SUBSET Nat, S # {}
  PROVE  \E m \in S : \A k \in S : m <= k
<1>1. PICK m \in S : \A k \in S : ~(<<k, m>> \in OpToRel(<, Nat))
  BY NatLessThanWellFounded, WFMin
<1>2. ASSUME NEW k \in S PROVE ~(k < m)
  BY <1>1 DEF OpToRel
<1>3. QED
  BY <1>2

\* `f` takes the places 1..n to the slots in the order of their ranks `r`.
Orders(n) == {f \in [1..n -> 1..n] : \A a, b \in 1..n : a # b => f[a] # f[b]}
Ascends(n, r, f) == \A a, b \in 1..n : a < b => r[f[a]] <= r[f[b]]

LEMMA Insertion ==
  ASSUME NEW m \in Nat, NEW r \in [1..(m + 1) -> Int],
         NEW g \in Orders(m), Ascends(m, r, g)
  PROVE  \E f \in Orders(m + 1) : Ascends(m + 1, r, f)
<1> DEFINE n == m + 1
           Later == {i \in 1..n : i = n \/ r[g[i]] > r[n]}
<1>1. PICK i \in Later : \A k \in Later : i <= k
  <2>1. n \in Later /\ Later \in SUBSET Nat
    OBVIOUS
  <2> HIDE DEF Later
  <2>2. QED
    BY <2>1, LeastNumber
<1>2. \A a \in 1..n : a < i => r[g[a]] <= r[n]
  <2>1. ASSUME NEW a \in 1..n, a < i PROVE r[g[a]] <= r[n]
    <3>1. a \notin Later /\ i \in 1..n
      BY <1>1, <2>1
    <3>2. a \in 1..m /\ ~(r[g[a]] > r[n])
      BY <3>1
    <3>3. g[a] \in 1..m
      BY <3>2 DEF Orders
    <3>4. r[g[a]] \in Int /\ r[n] \in Int
      BY <3>3
    <3>5. QED
      BY <3>2, <3>4
  <2>2. QED
    BY <2>1
<1>3. \A a \in 1..m : i <= a => r[n] <= r[g[a]]
  <2>1. ASSUME NEW a \in 1..m, i <= a PROVE r[n] <= r[g[a]]
    <3>1. i \in 1..m /\ r[g[i]] > r[n]
      BY <1>1, <2>1
    <3>2. g[i] \in 1..m /\ g[a] \in 1..m
      BY <3>1 DEF Orders
    <3>3. r[g[i]] \in Int /\ r[g[a]] \in Int /\ r[n] \in Int
      BY <3>2
    <3>4. i = a \/ r[g[i]] <= r[g[a]]
      BY <2>1, <3>1 DEF Ascends
    <3>5. QED
      BY <3>1, <3>3, <3>4
  <2>2. QED
    BY <2>1
<1> DEFINE f == [a \in 1..n |-> IF a < i THEN g[a] ELSE IF a = i THEN n ELSE g[a - 1]]
<1>4. i \in 1..n /\ n \in Nat /\ n = m + 1
  BY <1>1
<1>5. /\ \A a \in 1..n : a < i => a \in 1..m /\ f[a] = g[a]
      /\ f[i] = n
      /\ \A a \in 1..n : i < a => (a - 1) \in 1..m /\ i <= a - 1 /\ f[a] = g[a - 1]
  BY <1>4
<1>6. \A a \in 1..m : g[a] \in 1..m
  BY DEF Orders
<1> HIDE DEF f, Later, n
<1>7. f \in Orders(n)
  <2>1. f \in [1..n -> 1..n]
    <3>1. ASSUME NEW a \in 1..n PROVE f[a] \in 1..n
      <4>1. 1..m \subseteq 1..n /\ n \in 1..n /\ (a < i \/ a = i \/ i < a)
        BY <1>4
      <4>2. QED
        BY <1>5, <1>6, <4>1
    <3>2. QED
      BY <3>1 DEF f
  <2>2. \A a, b \in 1..n : a < b => f[a] # f[b]
    <3>1. ASSUME NEW a \in 1..n, NEW b \in 1..n, a < b PROVE f[a] # f[b]
      <4>1. \A c, d \in 1..m : c # d => g[c] # g[d]
        BY DEF Orders
      <4>2. \A c \in 1..m : g[c] # n
        BY <1>4, <1>6
      <4>3. CASE b < i
        BY <1>4, <1>5, <3>1, <4>1, <4>3
      <4>4. CASE b = i
        BY <1>4, <1>5, <3>1, <4>2, <4>4
      <4>5. CASE i < b /\ a < i
        <5>1. a # b - 1
          BY <1>4, <4>5
        <5>2. QED
          BY <1>5, <4>1, <4>5, <5>1
      <4>6. CASE i < b /\ a = i
        BY <1>5, <4>2, <4>6
      <4>7. CASE i < b /\ i < a
        <5>1. a - 1 # b - 1
          BY <3>1
        <5>2. QED
          BY <1>5, <4>1, <4>7, <5>1
      <4>8. QED
        BY <1>4, <4>3, <4>4, <4>5, <4>6, <4>7
    <3>2. QED
      BY <3>1
  <2>3. \A a, b \in 1..n : a # b => f[a] # f[b]
    BY <1>4, <2>2
  <2>4. QED
    BY <2>1, <2>3 DEF Orders
<1>8. Ascends(n, r, f)
  <2>1. ASSUME NEW a \in 1..n, NEW b \in 1..n, a < b PROVE r[f[a]] <= r[f[b]]
    <3>1. \A c, d \in 1..m : c <= d => r[g[c]] <= r[g[d]]
      <4>1. \A c, d \in 1..m : c < d => r[g[c]] <= r[g[d]]
        BY DEF Ascends
      <4>2. \A c \in 1..m : r[g[c]] \in Int
        <5>1. \A c \in 1..m : g[c] \in 1..(m + 1)
          BY <1>6
        <5>2. QED
          BY <5>1
      <4>3. QED
        BY <4>1, <4>2
    <3>2. CASE b < i
      <4>1. a \in 1..m /\ b \in 1..m /\ f[a] = g[a] /\ f[b] = g[b]
        BY <1>4, <1>5, <2>1, <3>2
      <4>2. QED
        BY <2>1, <3>1, <4>1
    <3>3. CASE b = i
      <4>1. f[a] = g[a] /\ f[b] = n
        BY <1>5, <2>1, <3>3
      <4>2. QED
        BY <1>2, <2>1, <3>3, <4>1
    <3>4. CASE i < b /\ a < i
      <4>1. /\ a \in 1..m /\ f[a] = g[a]
            /\ (b - 1) \in 1..m /\ f[b] = g[b - 1] /\ a <= b - 1
        BY <1>4, <1>5, <2>1, <3>4
      <4>2. QED
        BY <3>1, <4>1
    <3>5. CASE i < b /\ a = i
      <4>1. f[a] = n /\ (b - 1) \in 1..m /\ f[b] = g[b - 1] /\ i <= b - 1
        BY <1>5, <3>5
      <4>2. QED
        BY <1>3, <4>1
    <3>6. CASE i < b /\ i < a
      <4>1. /\ (a - 1) \in 1..m /\ f[a] = g[a - 1]
            /\ (b - 1) \in 1..m /\ f[b] = g[b - 1] /\ a - 1 <= b - 1
        BY <1>5, <2>1, <3>6
      <4>2. QED
        BY <3>1, <4>1
    <3>7. QED
      BY <1>4, <3>2, <3>3, <3>4, <3>5, <3>6
  <2>2. QED
    BY <2>1 DEF Ascends
<1>9. QED
  BY <1>4, <1>7, <1>8

LEMMA OrderExists ==
  ASSUME NEW n \in Nat, NEW r \in [1..n -> Int]
  PROVE  \E f \in Orders(n) : Ascends(n, r, f)
<1> DEFINE Fails == {k \in Nat : \E s \in [1..k -> Int] :
                                   ~ \E f \in Orders(k) : Ascends(k, s, f)}
<1>1. Fails = {}
  <2> SUFFICES ASSUME Fails # {} PROVE FALSE
    OBVIOUS
  <2>1. PICK k \in Fails : \A l \in Fails : k <= l
    <3> HIDE DEF Fails
    <3>1. Fails \in SUBSET Nat
      BY DEF Fails
    <3>2. QED
      BY <3>1, LeastNumber
  <2>2. PICK s \in [1..k -> Int] : ~ \E f \in Orders(k) : Ascends(k, s, f)
    BY <2>1
  <2>3. CASE k = 0
    <3>1. [a \in 1..0 |-> a] \in Orders(0) /\ Ascends(0, s, [a \in 1..0 |-> a])
      BY DEF Orders, Ascends
    <3>2. QED
      BY <2>2, <2>3, <3>1
  <2>4. CASE k > 0
    <3> DEFINE m == k - 1
               q == [a \in 1..m |-> s[a]]
    <3>1. m \in Nat /\ k = m + 1 /\ q \in [1..m -> Int]
      BY <2>4
    <3>2. m \notin Fails
      BY <2>1, <3>1
    <3>3. PICK g \in Orders(m) : Ascends(m, q, g)
      BY <3>1, <3>2
    <3>4. Ascends(m, s, g)
      <4>1. \A a \in 1..m : g[a] \in 1..m
        BY <3>3 DEF Orders
      <4>2. QED
        BY <3>3, <4>1 DEF Ascends
    <3> HIDE DEF m
    <3>5. \E f \in Orders(m + 1) : Ascends(m + 1, s, f)
      BY <3>1, <3>3, <3>4, Insertion
    <3>6. QED
      BY <2>2, <3>1, <3>5
  <2>5. QED
    BY <2>1, <2>3, <2>4
<1>2. n \notin Fails
  BY <1>1
<1>3. QED
  BY <1>2

-----------------------------------------------------------------------------
(***************************************************************************)
(* VALUES.                                                                 *)
(***************************************************************************)
LEMMA Constants ==
  /\ 1 \in Params /\ Slots \subseteq Params /\ NumSlots \in Nat
  /\ Lo \in Int /\ Hi \in Int /\ Top \in Nat /\ Hi <= Top
  /\ Default \in Lo..Hi /\ Lo..Hi \subseteq Values /\ Inputs \subseteq Values
  /\ \A v \in Values : v \in Int /\ v <= Top
  BY ParamsAssumption DEF Params, Slots, Values

LEMMA ClampedType ==
  ASSUME NEW v \in Values
  PROVE  /\ Clamped(v) \in Lo..Hi
         /\ Clamped(Clamped(v)) = Clamped(v)
         /\ v \in Lo..Hi => Clamped(v) = v
<1>1. v \in Int /\ Lo \in Int /\ Hi \in Int /\ Lo <= Hi
  BY Constants
<1>2. QED
  BY <1>1 DEF Clamped

LEMMA DefaultClamped == Default \in Values /\ Clamped(Default) = Default
<1>1. Default \in Values
  BY Constants
<1>2. QED
  BY <1>1, ParamsAssumption DEF Clamped

LEMMA RankType ==
  ASSUME NEW v \in Values
  PROVE  Rank(v) \in Int
  BY Constants DEF Rank

LEMMA NothingType == Nothing \in Table
  BY Constants DEF Nothing, Table

LEMMA CellTypes ==
  ASSUME NEW cell \in Cells
  PROVE  /\ Loaded(cell) \in Lo..Hi
         /\ cell.kind = "stored" => cell.value \in Values
<1>1. CASE cell \in {Erased, Torn}
  BY <1>1, Constants DEF Erased, Torn, Loaded
<1>2. CASE \E v \in Values : cell = Stored(v)
  BY <1>2, ClampedType DEF Stored, Loaded
<1>3. QED
  BY <1>1, <1>2 DEF Cells

LEMMA ProgrammedType ==
  ASSUME NEW cell \in Cells, NEW v \in Values
  PROVE  Programmed(cell, v) \in Cells
  BY DEF Programmed, Cells

\* The sort finds an order, and what it makes of the table is one again.
LEMMA SortedIs ==
  ASSUME NEW table \in Table
  PROVE  \E f \in Orders(NumSlots) :
           /\ Sorted(table) = [p \in Params |-> IF p \in Slots THEN table[f[p]] ELSE table[p]]
           /\ \A a, b \in Slots : a < b => Rank(table[f[a]]) <= Rank(table[f[b]])
<1> DEFINE r == [a \in 1..NumSlots |-> Rank(table[a])]
           Good(f) == \A a, b \in Slots : a < b => Rank(table[f[a]]) <= Rank(table[f[b]])
           order == CHOOSE f \in Orders(NumSlots) : Good(f)
<1>1. r \in [1..NumSlots -> Int]
  BY RankType, Constants DEF Table, Slots
<1>2. PICK g \in Orders(NumSlots) : Ascends(NumSlots, r, g)
  BY <1>1, Constants, OrderExists
<1>3. Good(g)
  <2>1. \A a \in Slots : g[a] \in Slots /\ r[g[a]] = Rank(table[g[a]])
    BY <1>2 DEF Orders, Slots
  <2>2. QED
    BY <1>2, <2>1 DEF Ascends, Slots
<1>4. order \in Orders(NumSlots) /\ Good(order)
  <2> HIDE DEF Good
  <2>1. QED
    BY <1>2, <1>3
<1>5. Sorted(table) = [p \in Params |-> IF p \in Slots THEN table[order[p]] ELSE table[p]]
  BY DEF Sorted, Orders, Slots
<1>6. QED
  BY <1>4, <1>5

LEMMA SortedType ==
  ASSUME NEW table \in Table
  PROVE  Sorted(table) \in Table
<1>1. PICK f \in Orders(NumSlots) :
        Sorted(table) = [p \in Params |-> IF p \in Slots THEN table[f[p]] ELSE table[p]]
  BY SortedIs
<1>2. \A p \in Slots : f[p] \in Params
  BY Constants DEF Orders, Slots
<1>3. QED
  BY <1>1, <1>2 DEF Table

-----------------------------------------------------------------------------
(***************************************************************************)
(* TYPES.                                                                  *)
(***************************************************************************)
LEMMA InitTypes == Init => TypeOK
  BY Constants, NothingType, ParamsAssumption DEF Init, TypeOK, Table, Cells

LEMMA InterruptedType == Interrupted \subseteq [Params -> Cells]
  BY DEF Interrupted

LEMMA RestartTypes == TypeOK /\ Restart => TypeOK'
<1> SUFFICES ASSUME TypeOK, Restart PROVE TypeOK'
  OBVIOUS
<1>1. flash' \in [Params -> Cells]
  BY InterruptedType DEF Restart
<1>2. ram' \in Table
  BY <1>1, CellTypes, Constants DEF Restart, Table
<1>3. QED
  BY <1>1, <1>2, Constants, NothingType DEF Restart, TypeOK

LEMMA TaskTypes ==
  ASSUME TypeOK, NEW t \in Tasks, Task(t)
  PROVE  TypeOK'
<1> USE DEF Goto, Hold, history
<1>1. ASSUME NEW p \in Params, NEW v \in Inputs, Set(t, p, v) PROVE TypeOK'
  <2>1. v \in Values /\ Clamped(v) \in Lo..Hi
    BY Constants, ClampedType
  <2>2. ram' \in Table /\ known' \in [Params -> SUBSET (Lo..Hi)]
    BY <1>1, <2>1 DEF Set, TypeOK, Table, Learn
  <2>3. alone' \in [Tasks -> BOOLEAN]
    BY <1>1 DEF Set, TypeOK, Meets, Undisturbed
  <2>4. sets' \in 0..MaxSets
    BY <1>1, ParamsAssumption DEF Set, TypeOK
  <2>5. QED
    BY <1>1, <2>2, <2>3, <2>4 DEF Set, TypeOK
<1>2. CASE Validate(t)
  <2>1. ram' \in Table
    BY <1>2, ClampedType, Constants DEF Validate, TypeOK, Table
  <2>2. QED
    BY <1>2, <2>1, Constants DEF Validate, TypeOK
<1>3. CASE FactoryReset(t)
  BY <1>3, Constants DEF FactoryReset, TypeOK, Table, Meets, Undisturbed
<1>4. CASE SortCopy(t)
  <2>1. commits' \in 0..MaxCommits
    BY <1>4, ParamsAssumption DEF SortCopy, TypeOK
  <2>2. held' \in [Tasks -> Table]
    BY <1>4, SortedType DEF SortCopy, TypeOK
  <2>3. QED
    BY <1>4, <2>1, <2>2 DEF SortCopy, TypeOK
<1>5. CASE SortBack(t)
  <2>1. ram' \in Table
    BY <1>5 DEF SortBack, TypeOK, Table
  <2>2. QED
    BY <1>5, <2>1, NothingType DEF SortBack, TypeOK
<1>6. CASE ErasePartition(t)
  BY <1>6, Constants DEF ErasePartition, TypeOK, Cells
<1>7. CASE Pack(t)
  <2>1. [Nothing EXCEPT ![index[t]] = ram[index[t]]] \in Table
    BY NothingType DEF TypeOK, Table
  <2>2. QED
    BY <1>7, <2>1 DEF Pack, TypeOK
<1>8. CASE WriteParam(t)
  <2>1. held[t][index[t]] \in Values /\ flash[index[t]] \in Cells
    BY DEF TypeOK, Table
  <2>2. flash' \in [Params -> Cells]
    BY <1>8, <2>1, ProgrammedType DEF WriteParam, TypeOK
  <2>3. index' \in [Tasks -> Params]
    <3>1. ~IsLast(index[t]) => index[t] + 1 \in Params
      BY ParamsAssumption DEF IsLast, TypeOK, Params
    <3>2. QED
      BY <1>8, <3>1, Constants DEF WriteParam, TypeOK
  <2>4. saved' \in BOOLEAN
    BY <1>8 DEF WriteParam, TypeOK, Undisturbed
  <2>5. pc' \in [Tasks -> {"idle", "raw", "set", "sort", "erase", "validate", "pack", "write"}]
    BY <1>8 DEF WriteParam, TypeOK
  <2>6. QED
    BY <1>8, <2>2, <2>3, <2>4, <2>5, NothingType DEF WriteParam, TypeOK
<1>9. CASE FlashError(t)
  BY <1>9, Constants, NothingType DEF FlashError, TypeOK
<1>10. QED
  BY <1>1, <1>2, <1>3, <1>4, <1>5, <1>6, <1>7, <1>8, <1>9 DEF Task

(***************************************************************************)
(* Tables, cells and loop variables keep their types: the sort finds an    *)
(* order for every table, and no commit writes past the last parameter.    *)
(***************************************************************************)
THEOREM TypeCorrect == Spec => []TypeOK
<1>1. TypeOK /\ [Next]_vars => TypeOK'
  <2> SUFFICES ASSUME TypeOK, [Next]_vars PROVE TypeOK'
    OBVIOUS
  <2>1. CASE UNCHANGED vars
    BY <2>1 DEF vars, tasks, history, TypeOK
  <2>2. QED
    BY <2>1, TaskTypes, RestartTypes DEF Next
<1>2. QED
  BY <1>1, InitTypes, PTL DEF Spec

-----------------------------------------------------------------------------
(***************************************************************************)
(* WHERE VALUES COME FROM.  Whatever stands in the table, in a task's hands *)
(* or in flash is, once validated, a value its parameter was given.        *)
(***************************************************************************)
Given(p, v) == Clamped(v) \in known[p]
GivenCell(p, cell) == cell.kind = "stored" => Given(p, cell.value)

GivenInv ==
  /\ \A p \in Params : Default \in known[p]
  /\ \A p, q \in Slots : known[p] = known[q]
  /\ \A p \in Params : Given(p, ram[p]) /\ GivenCell(p, flash[p])
  /\ \A t \in Tasks, p \in Params : Given(p, held[t][p])

LEMMA GivenLoaded ==
  ASSUME TypeOK, GivenInv, NEW p \in Params, NEW cell \in Cells, GivenCell(p, cell)
  PROVE  Loaded(cell) \in known[p] /\ Given(p, Loaded(cell))
<1>1. Default \in known[p]
  BY DEF GivenInv
<1>2. cell.kind = "stored" => cell.value \in Values
  BY CellTypes
<1>3. QED
  BY <1>1, <1>2, ClampedType, DefaultClamped DEF Loaded, Given, GivenCell

LEMMA GivenProgrammed ==
  ASSUME NEW p \in Params, NEW cell, NEW v, Given(p, v)
  PROVE  GivenCell(p, Programmed(cell, v)) /\ GivenCell(p, Erased) /\ GivenCell(p, Torn)
  BY DEF GivenCell, Programmed, Stored, Erased, Torn

LEMMA GivenInterrupted ==
  ASSUME GivenInv, NEW f \in Interrupted, NEW p \in Params
  PROVE  GivenCell(p, f[p])
<1>1. \A t \in Tasks : Given(p, held[t][p]) /\ GivenCell(p, flash[p])
  BY DEF GivenInv
<1>2. CASE f[p] = flash[p]
  BY <1>2 DEF GivenInv
<1>3. CASE f[p] \in {Erased, Torn}
  BY <1>3 DEF GivenCell, Erased, Torn
<1>4. CASE \E t \in Tasks : /\ index[t] = p
                            /\ f[p] \in {Torn, Programmed(flash[p], held[t][p])}
  BY <1>1, <1>4, GivenProgrammed
<1>5. QED
  BY <1>2, <1>3, <1>4 DEF Interrupted

LEMMA KnownGrows ==
  ASSUME TypeOK, NEW p \in Params, NEW v
  PROVE  Learn(p, v) => /\ \A q \in Params : known[q] \subseteq known'[q]
                        /\ v \in known'[p]
                        /\ (\A a, b \in Slots : known[a] = known[b])
                             => \A a, b \in Slots : known'[a] = known'[b]
  BY Constants DEF Learn, TypeOK

LEMMA TaskGives ==
  ASSUME TypeOK, GivenInv, NEW t \in Tasks, Task(t)
  PROVE  GivenInv'
<1> USE DEF Goto, Hold, history
<1>1. ASSUME NEW p \in Params, NEW v \in Inputs, Set(t, p, v) PROVE GivenInv'
  <2>1. /\ \A q \in Params : known[q] \subseteq known'[q]
        /\ Clamped(v) \in known'[p]
        /\ \A a, b \in Slots : known'[a] = known'[b]
    BY <1>1, KnownGrows DEF Set, GivenInv
  <2>2. \A q \in Params : Given(q, ram[q])'
    BY <1>1, <2>1 DEF Set, GivenInv, Given, TypeOK, Table
  <2>3. flash' = flash /\ held' = held
    BY <1>1 DEF Set
  <2>4. QED
    BY <2>1, <2>2, <2>3 DEF GivenInv, Given, GivenCell
<1>2. CASE Validate(t)
  <2>1. \A p \in Params : ram'[p] = ram[p] \/ ram'[p] = Clamped(ram[p])
    BY <1>2 DEF Validate, TypeOK, Table
  <2>2. \A p \in Params : Clamped(ram'[p]) = Clamped(ram[p])
    BY <2>1, ClampedType DEF TypeOK, Table
  <2>3. UNCHANGED <<flash, held, known>>
    BY <1>2 DEF Validate
  <2>4. QED
    BY <2>2, <2>3 DEF GivenInv, Given, GivenCell
<1>3. CASE FactoryReset(t)
  BY <1>3, DefaultClamped DEF FactoryReset, GivenInv, Given, GivenCell
<1>4. CASE SortCopy(t)
  <2>1. PICK f \in Orders(NumSlots) :
          Sorted(ram) = [p \in Params |-> IF p \in Slots THEN ram[f[p]] ELSE ram[p]]
    BY SortedIs DEF TypeOK
  <2>2. \A p \in Slots : f[p] \in Slots
    BY DEF Orders, Slots
  <2>3. \A p \in Params : Given(p, Sorted(ram)[p])
    BY <2>1, <2>2, Constants DEF GivenInv, Given
  <2>4. /\ held' = [held EXCEPT ![t] = Sorted(ram)]
        /\ UNCHANGED <<ram, flash, known>>
    BY <1>4 DEF SortCopy
  <2>5. QED
    BY <2>3, <2>4 DEF GivenInv, Given, GivenCell, TypeOK
<1>5. ASSUME NEW p \in Params, held' = [held EXCEPT ![t] = Nothing], known' = known
      PROVE  \A u \in Tasks : Given(p, held[u][p])'
  BY <1>5, DefaultClamped DEF GivenInv, Given, Nothing, TypeOK
<1>6. CASE SortBack(t)
  BY <1>5, <1>6 DEF SortBack, GivenInv, Given, GivenCell
<1>7. CASE ErasePartition(t)
  BY <1>7 DEF ErasePartition, GivenInv, Given, GivenCell, Erased
<1>8. CASE Pack(t)
  <2>1. \A p \in Params : Given(p, [Nothing EXCEPT ![index[t]] = ram[index[t]]][p])
    BY DefaultClamped DEF GivenInv, Given, Nothing
  <2>2. QED
    BY <1>8, <2>1 DEF Pack, GivenInv, Given, GivenCell, TypeOK
<1>9. CASE WriteParam(t)
  <2>1. \A p \in Params : /\ flash'[p] = flash[p]
                             \/ flash'[p] = Programmed(flash[p], held[t][p])
                          /\ GivenCell(p, Programmed(flash[p], held[t][p]))
    BY <1>9, GivenProgrammed DEF WriteParam, TypeOK, GivenInv
  <2>2. UNCHANGED <<ram, known>> /\ held' = [held EXCEPT ![t] = Nothing]
    BY <1>9 DEF WriteParam
  <2>3. QED
    BY <1>5, <2>1, <2>2 DEF GivenInv, Given, GivenCell
<1>10. CASE FlashError(t)
  BY <1>5, <1>10 DEF FlashError, GivenInv, Given, GivenCell
<1>11. QED
  BY <1>1, <1>2, <1>3, <1>4, <1>6, <1>7, <1>8, <1>9, <1>10 DEF Task

LEMMA RestartGives == TypeOK /\ GivenInv /\ Restart => GivenInv'
<1> SUFFICES ASSUME TypeOK, GivenInv, Restart PROVE GivenInv'
  OBVIOUS
<1>1. \A p \in Params : flash'[p] \in Cells /\ GivenCell(p, flash'[p])
  BY InterruptedType, GivenInterrupted DEF Restart
<1>2. \A p \in Params : Given(p, ram'[p])
  BY <1>1, GivenLoaded DEF Restart
<1>3. \A p \in Params : Given(p, Nothing[p])
  BY DefaultClamped DEF Nothing, GivenInv, Given
<1>4. QED
  BY <1>1, <1>2, <1>3 DEF Restart, GivenInv, Given, GivenCell

(***************************************************************************)
(* No restart invents a value, however many tasks sort, erase and write    *)
(* over each other and wherever the power fails or the flash errs.         *)
(***************************************************************************)
THEOREM RestartsInventNothing == Spec => []NothingInvented
<1>1. Init => GivenInv
  BY DefaultClamped, Constants
  DEF Init, GivenInv, Given, GivenCell, Erased, Nothing
<1>2. TypeOK /\ GivenInv /\ [Next]_vars => GivenInv'
  <2> SUFFICES ASSUME TypeOK, GivenInv, [Next]_vars PROVE GivenInv'
    OBVIOUS
  <2>1. CASE UNCHANGED vars
    BY <2>1 DEF vars, tasks, history, GivenInv, Given, GivenCell
  <2>2. QED
    BY <2>1, TaskGives, RestartGives DEF Next
<1>3. TypeOK /\ GivenInv => NothingInvented
  BY GivenLoaded DEF TypeOK, GivenInv, NothingInvented, Restored
<1>4. QED
  BY <1>1, <1>2, <1>3, TypeCorrect, PTL DEF Spec

-----------------------------------------------------------------------------
(***************************************************************************)
(* A COMMIT THAT MEETS NOBODY.  While it is under way nobody else has      *)
(* begun, so the table and the partition are its own: what it has written  *)
(* is the table, validated, and what it has not is still erased.           *)
(***************************************************************************)
Writing == {"validate", "pack", "write"}

Written(t) ==
  \A p \in Params :
    /\ p < index[t] => flash[p] = Stored(ram[p]) /\ ram[p] \in Lo..Hi
    /\ index[t] <= p => flash[p] = Erased

Exact(t) ==
  /\ pc[t] \in Writing => Written(t)
  /\ pc[t] \in {"pack", "write"} => ram[index[t]] \in Lo..Hi
  /\ pc[t] = "write" => held[t][index[t]] = ram[index[t]]

AloneInv == \A t \in Tasks : alone[t] /\ pc[t] # "idle" => Undisturbed(t) /\ Exact(t)

\* Who takes a step, and whom the others have met then.
LEMMA OnlyOne ==
  ASSUME TypeOK, AloneInv, NEW t \in Tasks, NEW u \in Tasks, t # u, Task(t), alone'[u]
  PROVE  pc[u] = "idle" /\ pc'[u] = "idle"
<1>1. pc'[u] = pc[u]
  BY DEF Task, Set, Validate, FactoryReset, SortCopy, SortBack, ErasePartition, Pack,
         WriteParam, FlashError, Goto, TypeOK
<1>2. CASE pc[t] = "idle"
  <2>1. Meets(t)
    BY <1>2 DEF Task, Set, Validate, FactoryReset, SortCopy, SortBack, ErasePartition,
                Pack, WriteParam, FlashError
  <2>2. QED
    BY <1>1, <2>1 DEF Meets
<1>3. CASE pc[t] # "idle"
  <2>1. alone' = alone
    BY <1>3 DEF Task, Set, Validate, FactoryReset, SortCopy, SortBack, ErasePartition,
                Pack, WriteParam, FlashError, history
  <2>2. QED
    BY <1>1, <1>3, <2>1 DEF AloneInv, Undisturbed
<1>4. QED
  BY <1>2, <1>3

LEMMA Begins ==
  ASSUME TypeOK, NEW t \in Tasks, Task(t), pc[t] = "idle"
  PROVE  /\ pc'[t] \in {"raw", "set"}
         /\ alone'[t] = Undisturbed(t)
         /\ saved' = FALSE
  BY DEF Task, Set, Validate, FactoryReset, SortCopy, SortBack, ErasePartition, Pack,
         WriteParam, FlashError, Goto, TypeOK, Meets

LEMMA GoesOn ==
  ASSUME TypeOK, NEW t \in Tasks, Task(t), pc[t] # "idle"
  PROVE  alone' = alone
  BY DEF Task, Set, Validate, FactoryReset, SortCopy, SortBack, ErasePartition, Pack,
         WriteParam, FlashError, history

LEMMA OthersStay ==
  ASSUME TypeOK, NEW t \in Tasks, Task(t), Undisturbed(t)
  PROVE  Undisturbed(t)'
<1>1. \A u \in Tasks \ {t} : pc'[u] = pc[u]
  BY DEF Task, Set, Validate, FactoryReset, SortCopy, SortBack, ErasePartition, Pack,
         WriteParam, FlashError, Goto, TypeOK
<1>2. QED
  BY <1>1 DEF Undisturbed

\* A parameter written over an erased cell reads back as it stood in the table.
LEMMA WriteExact ==
  ASSUME TypeOK, NEW t \in Tasks, Exact(t), WriteParam(t)
  PROVE  \A p \in Params :
           /\ p <= index[t] => flash'[p] = Stored(ram[p]) /\ ram[p] \in Lo..Hi
           /\ index[t] < p => flash'[p] = Erased
<1>1. /\ pc[t] = "write" /\ index[t] \in Params
      /\ flash' = [flash EXCEPT ![index[t]] = Programmed(flash[index[t]], held[t][index[t]])]
  BY DEF WriteParam, TypeOK
<1>2. Written(t) /\ ram[index[t]] \in Lo..Hi /\ held[t][index[t]] = ram[index[t]]
  BY <1>1 DEF Exact, Writing
<1>3. flash[index[t]] = Erased
  BY <1>1, <1>2, ParamsAssumption DEF Written, Params
<1>4. flash'[index[t]] = Stored(ram[index[t]])
  BY <1>1, <1>2, <1>3 DEF Programmed, TypeOK
<1>5. ASSUME NEW p \in Params
      PROVE  /\ p <= index[t] => flash'[p] = Stored(ram[p]) /\ ram[p] \in Lo..Hi
             /\ index[t] < p => flash'[p] = Erased
  <2>1. p \in Int /\ index[t] \in Int
    BY <1>1 DEF Params
  <2>2. CASE p = index[t]
    BY <1>2, <1>4, <2>1, <2>2
  <2>3. CASE p # index[t]
    <3>1. flash'[p] = flash[p]
      BY <1>1, <2>3 DEF TypeOK
    <3>2. QED
      BY <1>2, <2>1, <2>3, <3>1 DEF Written
  <2>4. QED
    BY <2>2, <2>3
<1>6. QED
  BY <1>5

LEMMA ExactKept ==
  ASSUME TypeOK, NEW t \in Tasks, Task(t), pc[t] # "idle", Exact(t)
  PROVE  Exact(t)'
<1> USE DEF Goto, Hold, history
<1>1. ASSUME NEW p \in Params, NEW v \in Inputs, Set(t, p, v) PROVE Exact(t)'
  BY <1>1 DEF Set, Exact, Writing, TypeOK
<1>2. CASE Validate(t)
  <2>1. CASE pc[t] = "raw"
    BY <1>2, <2>1 DEF Validate, Exact, Writing, TypeOK
  <2>2. CASE pc[t] = "validate"
    <3>1. /\ pc'[t] = "pack" /\ index' = index /\ flash' = flash
          /\ ram' = [ram EXCEPT ![index[t]] = Clamped(ram[index[t]])]
          /\ index[t] \in Params /\ ram[index[t]] \in Values
      BY <1>2, <2>2 DEF Validate, TypeOK, Table
    <3>2. ram'[index[t]] \in Lo..Hi
      BY <3>1, ClampedType DEF TypeOK, Table
    <3>3. \A p \in Params : p # index[t] => ram'[p] = ram[p]
      BY <3>1 DEF TypeOK, Table
    <3>4. Written(t)'
      <4>1. Written(t)
        BY <2>2 DEF Exact, Writing
      <4>2. ASSUME NEW p \in Params, p < index[t] PROVE ram'[p] = ram[p]
        BY <3>1, <3>3, <4>2 DEF Params
      <4>3. QED
        BY <3>1, <4>1, <4>2 DEF Written
    <3>5. QED
      BY <3>1, <3>2, <3>4 DEF Exact
  <2>3. QED
    BY <1>2, <2>1, <2>2 DEF Validate
<1>3. CASE SortCopy(t) \/ SortBack(t) \/ FlashError(t)
  BY <1>3 DEF SortCopy, SortBack, FlashError, Exact, Writing, TypeOK
<1>4. CASE ErasePartition(t)
  <2>1. pc'[t] = "validate" /\ index'[t] = 1 /\ flash' = [p \in Params |-> Erased]
    BY <1>4 DEF ErasePartition, TypeOK
  <2>2. Written(t)'
    BY <2>1 DEF Written, Params
  <2>3. QED
    BY <2>1, <2>2 DEF Exact
<1>5. CASE Pack(t)
  <2>1. /\ pc[t] = "pack" /\ pc'[t] = "write" /\ UNCHANGED <<ram, flash, index>>
        /\ held'[t][index[t]] = ram[index[t]]
    BY <1>5 DEF Pack, TypeOK, Nothing
  <2>2. QED
    BY <2>1 DEF Exact, Writing, Written
<1>6. CASE WriteParam(t)
  <2>1. CASE IsLast(index[t])
    BY <1>6, <2>1 DEF WriteParam, Exact, Writing, TypeOK
  <2>2. CASE ~IsLast(index[t])
    <3>1. /\ pc'[t] = "validate" /\ index'[t] = index[t] + 1 /\ ram' = ram
          /\ index[t] \in Params
      BY <1>6, <2>2 DEF WriteParam, TypeOK
    <3>2. \A p \in Params : /\ p <= index[t] => flash'[p] = Stored(ram[p]) /\ ram[p] \in Lo..Hi
                            /\ index[t] < p => flash'[p] = Erased
      BY <1>6, WriteExact
    <3>3. Written(t)'
      <4>1. \A p \in Params : /\ p < index[t] + 1 => p <= index[t]
                              /\ index[t] + 1 <= p => index[t] < p
        BY <3>1 DEF Params
      <4>2. QED
        BY <3>1, <3>2, <4>1 DEF Written
    <3>4. QED
      BY <3>1, <3>3 DEF Exact
  <2>3. QED
    BY <2>1, <2>2
<1>7. CASE FactoryReset(t)
  BY <1>7 DEF FactoryReset
<1>8. QED
  BY <1>1, <1>2, <1>3, <1>4, <1>5, <1>6, <1>7 DEF Task

LEMMA AloneHolds == Spec => []AloneInv
<1>1. Init => AloneInv
  BY DEF Init, AloneInv
<1>2. TypeOK /\ AloneInv /\ [Next]_vars => AloneInv'
  <2> SUFFICES ASSUME TypeOK, AloneInv, [Next]_vars PROVE AloneInv'
    OBVIOUS
  <2>1. CASE UNCHANGED vars
    BY <2>1 DEF vars, tasks, history, AloneInv, Undisturbed, Exact, Written
  <2>2. CASE Restart
    BY <2>2 DEF Restart, AloneInv
  <2>3. ASSUME NEW t \in Tasks, Task(t) PROVE AloneInv'
    <3>1. ASSUME NEW u \in Tasks, alone'[u], pc'[u] # "idle"
          PROVE  Undisturbed(u)' /\ Exact(u)'
      <4>1. u = t
        BY <2>3, <3>1, OnlyOne
      <4>2. CASE pc[t] = "idle"
        <5>1. pc'[t] \in {"raw", "set"} /\ Undisturbed(t)
          BY <2>3, <3>1, <4>1, <4>2, Begins
        <5>2. Exact(t)'
          BY <5>1 DEF Exact, Writing
        <5>3. QED
          BY <2>3, <4>1, <5>1, <5>2, OthersStay
      <4>3. CASE pc[t] # "idle"
        <5>1. Undisturbed(t) /\ Exact(t)
          BY <2>3, <3>1, <4>1, <4>3, GoesOn DEF AloneInv
        <5>2. QED
          BY <2>3, <4>1, <4>3, <5>1, OthersStay, ExactKept
      <4>4. QED
        BY <4>2, <4>3
    <3>2. QED
      BY <3>1 DEF AloneInv
  <2>4. QED
    BY <2>1, <2>2, <2>3 DEF Next
<1>3. QED
  BY <1>1, <1>2, TypeCorrect, PTL DEF Spec

\* While a saved table stands, nobody has begun.
SavedInv == saved => (\A t \in Tasks : pc[t] = "idle") /\ Restored = ram

\* What ends a commit that met nobody.
LEMMA EndsSaved ==
  ASSUME TypeOK, AloneInv, SavedInv, NEW t \in Tasks, Task(t), saved'
  PROVE  WriteParam(t) /\ IsLast(index[t]) /\ alone[t] /\ Undisturbed(t)
<1>1. pc[t] # "idle"
  BY Begins
<1>2. saved = FALSE
  BY <1>1 DEF SavedInv, TypeOK
<1>3. QED
  BY <1>1, <1>2
  DEF Task, Set, Validate, FactoryReset, SortCopy, SortBack, ErasePartition, Pack,
      WriteParam, FlashError, history

LEMMA TaskSaves ==
  ASSUME TypeOK, AloneInv, SavedInv, NEW t \in Tasks, Task(t), saved'
  PROVE  (\A u \in Tasks : pc'[u] = "idle") /\ Restored' = ram'
<1>1. /\ WriteParam(t) /\ IsLast(index[t]) /\ alone[t] /\ Undisturbed(t)
      /\ pc[t] = "write" /\ ram' = ram /\ index[t] \in Params
  BY EndsSaved DEF WriteParam, TypeOK
<1>2. \A u \in Tasks : pc'[u] = "idle"
  BY <1>1 DEF WriteParam, Goto, Undisturbed, TypeOK
<1>3. \A p \in Params : p <= index[t]
  BY <1>1, ParamsAssumption DEF IsLast, Params
<1>4. \A p \in Params : flash'[p] = Stored(ram[p]) /\ ram[p] \in Lo..Hi
  BY <1>1, <1>3, WriteExact DEF AloneInv
<1>5. \A p \in Params : Loaded(flash'[p]) = ram[p]
  <2>1. \A p \in Params : Clamped(ram[p]) = ram[p]
    BY <1>4, ClampedType, Constants
  <2>2. \A v : Loaded(Stored(v)) = Clamped(v)
    BY DEF Loaded, Stored
  <2>3. QED
    BY <1>4, <2>1, <2>2
<1>6. QED
  BY <1>1, <1>2, <1>5 DEF Restored, TypeOK, Table

LEMMA RestartSaves ==
  ASSUME TypeOK, SavedInv, Restart, saved'
  PROVE  saved /\ ram' = ram /\ (\A u \in Tasks : pc'[u] = "idle") /\ Restored' = ram'
<1>1. saved /\ (\A t \in Tasks : pc[t] = "idle") /\ Restored = ram
  BY DEF Restart, SavedInv
<1>2. flash' = flash
  <2>1. flash' \in [Params -> Cells] /\ \A p \in Params : flash'[p] = flash[p]
    BY <1>1 DEF Restart, Interrupted
  <2>2. QED
    BY <2>1 DEF TypeOK
<1>3. Restored' = Restored /\ ram' = Restored
  BY <1>2 DEF Restart, Restored
<1>4. QED
  BY <1>1, <1>3 DEF Restart

LEMMA SavedHolds == Spec => []SavedInv
<1>1. Init => SavedInv
  BY DEF Init, SavedInv, Restored, Loaded, Erased
<1>2. TypeOK /\ AloneInv /\ SavedInv /\ [Next]_vars => SavedInv'
  <2> SUFFICES ASSUME TypeOK, AloneInv, SavedInv, [Next]_vars PROVE SavedInv'
    OBVIOUS
  <2>1. CASE UNCHANGED vars
    BY <2>1 DEF vars, tasks, history, SavedInv, Restored
  <2>2. QED
    BY <2>1, TaskSaves, RestartSaves DEF Next, SavedInv
<1>3. QED
  BY <1>1, <1>2, TypeCorrect, AloneHolds, PTL DEF Spec

(***************************************************************************)
(* A commit that ran to its end and met no other task is durable, however  *)
(* tasks ran over each other before it and whatever the flash did.         *)
(***************************************************************************)
THEOREM CommitsAreDurable == Spec => []CommitIsDurable
<1>1. SavedInv => CommitIsDurable
  BY DEF SavedInv, CommitIsDurable
<1>2. QED
  BY <1>1, SavedHolds, PTL

-----------------------------------------------------------------------------
(***************************************************************************)
(* THE ORDER.  The sort ranks values that nobody has validated yet; their  *)
(* bounds keep the order, but for INT32_MAX itself, which ranks with the   *)
(* disabled slots.  Such a value is left in the table for a commit that    *)
(* meets nobody only where a commit stopped short of validating it.        *)
(***************************************************************************)
InOrder(table) ==
  \A a, b \in Slots : a < b => Rank(Clamped(table[a])) <= Rank(Clamped(table[b]))

Sortable(v) == v < Top \/ v <= Hi

\* The task has a validate_param of this parameter before it.
Owes(t, p) ==
  \/ pc[t] = "raw" /\ index[t] = p
  \/ pc[t] \in {"sort", "erase"}
  \/ pc[t] = "validate" /\ index[t] <= p
  \/ pc[t] \in {"pack", "write"} /\ index[t] < p

OrderInv ==
  /\ \A p \in Params : Sortable(ram[p]) \/ \E t \in Tasks : Owes(t, p)
  /\ \A t \in Tasks : alone[t] =>
       /\ pc[t] = "sort" => InOrder(held[t])
       /\ pc[t] \in Writing \union {"erase"} => InOrder(ram)
  /\ saved => InOrder(ram)

LEMMA ClampKeepsOrder ==
  ASSUME NEW v \in Values, NEW w \in Values, Lo < 0, Sortable(w), Rank(v) <= Rank(w)
  PROVE  Rank(Clamped(v)) <= Rank(Clamped(w))
<1>1. /\ v \in Int /\ w \in Int /\ v <= Top /\ w <= Top
      /\ Lo \in Int /\ Hi \in Int /\ Lo <= Hi /\ Top \in Int /\ 0 <= Top /\ Hi <= Top
  BY Constants
<1>2. QED
  BY <1>1 DEF Rank, Clamped, Sortable

LEMMA SortedInOrder ==
  ASSUME NEW table \in Table, Lo < 0, \A p \in Params : Sortable(table[p])
  PROVE  InOrder(Sorted(table))
<1>1. PICK f \in Orders(NumSlots) :
        /\ Sorted(table) = [p \in Params |-> IF p \in Slots THEN table[f[p]] ELSE table[p]]
        /\ \A a, b \in Slots : a < b => Rank(table[f[a]]) <= Rank(table[f[b]])
  BY SortedIs
<1>2. \A p \in Slots : p \in Params /\ f[p] \in Params
  BY Constants DEF Orders, Slots
<1>3. \A p \in Slots : /\ Sorted(table)[p] = table[f[p]]
                       /\ table[f[p]] \in Values /\ Sortable(table[f[p]])
  BY <1>1, <1>2 DEF Table
<1>4. QED
  BY <1>1, <1>3, ClampKeepsOrder DEF InOrder

LEMMA ClampedSortable ==
  ASSUME NEW v \in Lo..Hi
  PROVE  Sortable(v)
  BY Constants DEF Sortable

\* No error of the flash: whatever stands in the table unvalidated is owed.
LEMMA OwedKept ==
  ASSUME TypeOK, OrderInv, ~FlashFails, NEW t \in Tasks, Task(t), NEW p \in Params
  PROVE  Sortable(ram'[p]) \/ \E u \in Tasks : Owes(u, p)'
<1> USE DEF Goto, Hold, history
<1>1. \A u \in Tasks \ {t} : pc'[u] = pc[u] /\ index'[u] = index[u]
  BY DEF Task, Set, Validate, FactoryReset, SortCopy, SortBack, ErasePartition, Pack,
         WriteParam, FlashError, TypeOK
<1>2. \A u \in Tasks \ {t} : Owes(u, p) => Owes(u, p)'
  BY <1>1 DEF Owes
<1>3. CASE ram'[p] = ram[p] /\ (Owes(t, p) => Owes(t, p)')
  BY <1>2, <1>3 DEF OrderInv
<1>4. ASSUME NEW q \in Params, NEW v \in Inputs, Set(t, q, v)
      PROVE  Sortable(ram'[p]) \/ \E u \in Tasks : Owes(u, p)'
  <2>1. CASE p = q
    <3>1. pc'[t] = "raw" /\ index'[t] = p
      BY <1>4, <2>1 DEF Set, TypeOK
    <3>2. QED
      BY <3>1 DEF Owes
  <2>2. CASE p # q
    BY <1>3, <1>4, <2>2 DEF Set, TypeOK, Table, Owes
  <2>3. QED
    BY <2>1, <2>2
<1>5. CASE Validate(t)
  <2>1. CASE p = index[t]
    <3>1. ram'[p] = Clamped(ram[p]) /\ ram[p] \in Values
      BY <1>5, <2>1 DEF Validate, TypeOK, Table
    <3>2. QED
      BY <3>1, ClampedType, ClampedSortable
  <2>2. CASE p # index[t]
    <3>1. ram'[p] = ram[p]
      BY <1>5, <2>2 DEF Validate, TypeOK, Table
    <3>2. Owes(t, p) => Owes(t, p)'
      <4>1. p \in Int /\ index[t] \in Int
        BY DEF Params, TypeOK
      <4>2. CASE pc[t] = "raw"
        BY <2>2, <4>2 DEF Owes
      <4>3. CASE pc[t] = "validate"
        BY <1>5, <2>2, <4>1, <4>3 DEF Validate, Owes, TypeOK
      <4>4. QED
        BY <1>5, <4>2, <4>3 DEF Validate
    <3>3. QED
      BY <1>3, <3>1, <3>2
  <2>3. QED
    BY <2>1, <2>2
<1>6. CASE FactoryReset(t)
  BY <1>6, Constants, ClampedSortable DEF FactoryReset
<1>7. CASE SortCopy(t) \/ SortBack(t)
  <2>1. pc'[t] \in {"sort", "erase"}
    BY <1>7 DEF SortCopy, SortBack, TypeOK
  <2>2. QED
    BY <2>1 DEF Owes
<1>8. CASE ErasePartition(t)
  <2>1. pc'[t] = "validate" /\ index'[t] = 1 /\ 1 <= p
    BY <1>8 DEF ErasePartition, TypeOK, Params
  <2>2. QED
    BY <2>1 DEF Owes
<1>9. CASE Pack(t)
  BY <1>3, <1>9 DEF Pack, TypeOK, Owes
<1>10. CASE WriteParam(t)
  <2>1. ram' = ram /\ p \in Int /\ index[t] \in Int /\ p <= NumParams
    BY <1>10, ParamsAssumption DEF WriteParam, Params, TypeOK
  <2>2. Owes(t, p) => Owes(t, p)'
    <3>1. CASE IsLast(index[t])
      BY <1>10, <2>1, <3>1, ParamsAssumption DEF WriteParam, IsLast, Owes
    <3>2. CASE ~IsLast(index[t])
      BY <1>10, <2>1, <3>2 DEF WriteParam, Owes, TypeOK
    <3>3. QED
      BY <3>1, <3>2
  <2>3. QED
    BY <1>3, <2>1, <2>2
<1>11. QED
  BY <1>4, <1>5, <1>6, <1>7, <1>8, <1>9, <1>10 DEF Task, FlashError

\* A commit that meets nobody, from its sort to its last write.
LEMMA OrderKept ==
  ASSUME TypeOK, AloneInv, OrderInv, Lo < 0, NEW t \in Tasks, Task(t), alone'[t]
  PROVE  /\ pc'[t] = "sort" => InOrder(held'[t])
         /\ pc'[t] \in Writing \union {"erase"} => InOrder(ram')
<1> USE DEF Goto, Hold, history
<1>1. CASE pc[t] = "idle"
  BY <1>1, Begins DEF Writing
<1>2. CASE pc[t] # "idle"
  <2>1. alone[t] /\ Undisturbed(t)
    BY <1>2, GoesOn DEF AloneInv
  <2>2. CASE SortCopy(t)
    <3>1. pc'[t] = "sort" /\ held'[t] = Sorted(ram) /\ pc[t] = "set"
      BY <2>2 DEF SortCopy, TypeOK
    <3>2. \A u \in Tasks, p \in Params : ~Owes(u, p)
      BY <2>1, <3>1 DEF Undisturbed, Owes
    <3>3. \A p \in Params : Sortable(ram[p])
      BY <3>2 DEF OrderInv
    <3>4. QED
      BY <3>1, <3>3, SortedInOrder DEF TypeOK, Writing
  <2>3. CASE SortBack(t)
    <3>1. /\ pc[t] = "sort" /\ pc'[t] = "erase"
          /\ ram' = [p \in Params |-> IF p \in Slots THEN held[t][p] ELSE ram[p]]
      BY <2>3 DEF SortBack, TypeOK
    <3>2. \A p \in Slots : ram'[p] = held[t][p]
      BY <3>1, Constants
    <3>3. QED
      BY <2>1, <3>1, <3>2 DEF OrderInv, InOrder
  <2>4. CASE ErasePartition(t) \/ Pack(t) \/ WriteParam(t) \/ FlashError(t)
    <3>1. ram' = ram /\ pc'[t] # "sort"
          /\ (pc'[t] \in Writing \union {"erase"} => pc[t] \in Writing \union {"erase"})
      BY <2>4 DEF ErasePartition, Pack, WriteParam, FlashError, Writing, TypeOK
    <3>2. QED
      BY <2>1, <3>1 DEF OrderInv
  <2>5. CASE Validate(t)
    <3>1. /\ pc'[t] # "sort"
          /\ (pc'[t] \in Writing \union {"erase"} => pc[t] \in Writing \union {"erase"})
          /\ \A p \in Params : ram'[p] = ram[p] \/ ram'[p] = Clamped(ram[p])
      BY <2>5 DEF Validate, Writing, TypeOK, Table
    <3>2. \A p \in Slots : Clamped(ram'[p]) = Clamped(ram[p])
      BY <3>1, ClampedType, Constants DEF TypeOK, Table
    <3>3. QED
      BY <2>1, <3>1, <3>2 DEF OrderInv, InOrder
  <2>6. CASE (\E p \in Params, v \in Inputs : Set(t, p, v)) \/ FactoryReset(t)
    BY <2>6 DEF Set, FactoryReset, Writing, TypeOK
  <2>7. QED
    BY <2>2, <2>3, <2>4, <2>5, <2>6 DEF Task
<1>3. QED
  BY <1>1, <1>2

LEMMA OrderHolds ==
  ASSUME Lo < 0, FlashFails => \A v \in Inputs : Sortable(v)
  PROVE  Spec => []OrderInv
<1>1. Init => OrderInv
  <2> SUFFICES ASSUME Init PROVE OrderInv
    OBVIOUS
  <2>1. \A p \in Params : ram[p] = Default /\ Sortable(ram[p])
    BY Constants, ClampedSortable DEF Init
  <2>2. Rank(Clamped(Default)) \in Int
    BY DefaultClamped, RankType
  <2>3. InOrder(ram)
    BY <2>1, <2>2, Constants DEF InOrder
  <2>4. QED
    BY <2>1, <2>3 DEF Init, OrderInv, Writing
<1>2. TypeOK /\ AloneInv /\ SavedInv /\ OrderInv /\ [Next]_vars /\ TypeOK' => OrderInv'
  <2> SUFFICES ASSUME TypeOK, AloneInv, SavedInv, OrderInv, [Next]_vars, TypeOK'
               PROVE  OrderInv'
    OBVIOUS
  <2>1. CASE UNCHANGED vars
    BY <2>1 DEF vars, tasks, history, OrderInv, InOrder, Owes
  <2>2. CASE Restart
    <3>1. \A p \in Params : Sortable(ram'[p])
      <4>1. \A p \in Params : ram'[p] \in Lo..Hi
        BY <2>2, InterruptedType, CellTypes DEF Restart
      <4>2. QED
        BY <4>1, ClampedSortable
    <3>2. saved' => InOrder(ram')
      BY <2>2, RestartSaves DEF OrderInv
    <3>3. \A t \in Tasks : pc'[t] = "idle"
      BY <2>2 DEF Restart
    <3>4. QED
      BY <3>1, <3>2, <3>3 DEF OrderInv, Writing
  <2>3. ASSUME NEW t \in Tasks, Task(t) PROVE OrderInv'
    <3>1. ASSUME NEW p \in Params
          PROVE  Sortable(ram'[p]) \/ \E u \in Tasks : Owes(u, p)'
      <4>1. CASE \A v \in Inputs : Sortable(v)
        <5>1. ram'[p] \in (Lo..Hi) \union Inputs
          BY DEF TypeOK, Table, Values
        <5>2. QED
          BY <4>1, <5>1, ClampedSortable
      <4>2. CASE ~FlashFails
        BY <2>3, <4>2, OwedKept
      <4>3. QED
        BY <4>1, <4>2
    <3>2. ASSUME NEW u \in Tasks, alone'[u]
          PROVE  /\ pc'[u] = "sort" => InOrder(held'[u])
                 /\ pc'[u] \in Writing \union {"erase"} => InOrder(ram')
      <4>1. CASE u = t
        BY <2>3, <3>2, <4>1, OrderKept
      <4>2. CASE u # t
        BY <2>3, <3>2, <4>2, OnlyOne DEF Writing
      <4>3. QED
        BY <4>1, <4>2
    <3>3. saved' => InOrder(ram')
      <4>1. saved' => /\ WriteParam(t) /\ alone[t]
                      /\ pc[t] = "write" /\ ram' = ram
        BY <2>3, EndsSaved DEF WriteParam
      <4>2. QED
        BY <4>1 DEF OrderInv, Writing
    <3>4. QED
      BY <3>1, <3>2, <3>3 DEF OrderInv
  <2>4. QED
    BY <2>1, <2>2, <2>3 DEF Next
<1>3. QED
  BY <1>1, <1>2, TypeCorrect, AloneHolds, SavedHolds, PTL DEF Spec

(***************************************************************************)
(* What a commit that met nobody left is in order of time, the disabled    *)
(* slots last, as long as a slot may be disabled (its lower bound is -1)   *)
(* and either no flash operation errs or no value as large as INT32_MAX is *)
(* sent: after an error such a value may stand in the table unvalidated.   *)
(***************************************************************************)
THEOREM CommitsAreInOrder ==
  ASSUME Lo < 0, FlashFails => \A v \in Inputs : v < Top \/ v <= Hi
  PROVE  Spec => []CommittedInOrder
<1>1. Spec => []OrderInv
  BY OrderHolds DEF Sortable
<1>2. TypeOK /\ SavedInv /\ OrderInv => CommittedInOrder
  <2> SUFFICES ASSUME TypeOK, SavedInv, OrderInv, saved
               PROVE  \A a, b \in Slots : a < b => Rank(Restored[a]) <= Rank(Restored[b])
    BY DEF CommittedInOrder
  <2>1. Restored = ram /\ InOrder(ram)
    BY DEF SavedInv, OrderInv
  <2>2. \A p \in Slots : Restored[p] \in Lo..Hi
    BY CellTypes, Constants DEF Restored, TypeOK
  <2>3. \A p \in Slots : Clamped(Restored[p]) = Restored[p]
    BY <2>2, ClampedType, Constants
  <2>4. QED
    BY <2>1, <2>3 DEF InOrder
<1>3. QED
  BY <1>1, <1>2, TypeCorrect, SavedHolds, PTL
=============================================================================
