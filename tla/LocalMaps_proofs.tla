-------------------------- MODULE LocalMaps_proofs --------------------------
(***************************************************************************)
(* Proofs about the maps of the own process: whatever is mapped below a    *)
(* mapping that stays, Reparse leaves one object for every mapping that    *)
(* was read, keeps the ones that are still mapped and deletes none that a  *)
(* thread holds, and Find finds the mapping of a pc.                       *)
(***************************************************************************)
EXTENDS LocalMaps, FiniteSetTheorems, WellFoundedInduction, TLAPS

(***************************************************************************)
(* Induction over the natural numbers, for the two loops                   *)
(***************************************************************************)
Less == {ss \in Nat \X Nat : ss[1] < ss[2]}

\* < is well founded on the naturals.
LEMMA LessWellFounded == IsWellFoundedOn(Less, Nat)
  BY NatLessThanWellFounded, Zenon DEF OpToRel, Less

\* A set of natural numbers that is not empty has a least element.
LEMMA NatMin ==
  ASSUME NEW T \in SUBSET Nat, T # {}
  PROVE  \E x \in T : \A y \in T : x <= y
<1>1. PICK x \in T : \A y \in T : ~(<<y, x>> \in Less)
  BY LessWellFounded, WFMin, Zenon
<1>2. ASSUME NEW y \in T PROVE x <= y
  <2>1. <<y, x>> \in Nat \X Nat
    OBVIOUS
  <2> QED
    BY <1>1, <2>1 DEF Less
<1> QED
  BY <1>2

\* A set that has 0 and with a number the next one has all of them.
LEMMA Induct ==
  ASSUME NEW S, 0 \in S, \A n \in Nat : n \in S => n + 1 \in S
  PROVE  \A n \in Nat : n \in S
<1>1. SUFFICES ASSUME NEW n \in Nat, n \notin S PROVE FALSE
  OBVIOUS
<1> DEFINE T == {m \in Nat : m \notin S}
<1>2. PICK x \in T : \A y \in T : x <= y
  BY <1>1, NatMin, Zenon
<1>3. x # 0 /\ x - 1 \in Nat
  OBVIOUS
<1> QED
  BY <1>2, <1>3

(***************************************************************************)
(* Sorting by start                                                        *)
(***************************************************************************)
Before(S, start, x) == {y \in S : start[y] < start[x]}

\* An increasing sequence of all members is what sorting gives.
LEMMA SortedIs ==
  ASSUME NEW S, NEW start \in [S -> Int], NEW n \in Nat, NEW g \in [1..n -> S],
         \A x \in S : \E k \in 1..n : g[k] = x,
         \A i, j \in 1..n : i < j => start[g[i]] < start[g[j]]
  PROVE  /\ Cardinality(S) = n
         /\ Sorted(S, start) = g
<1>1. Cardinality(S) = n
  <2>1. \A i, j \in 1..n : g[i] = g[j] => i = j
    OBVIOUS
  <2>2. g \in Bijection(1..n, S)
    BY <2>1 DEF Bijection, Injection, Surjection, IsInjective
  <2>3. ExistsBijection(1..n, S)
    BY <2>2 DEF ExistsBijection
  <2> QED
    BY <2>3, FS_CountingElements
<1>2. ASSUME NEW k \in 1..n PROVE Cardinality(Before(S, start, g[k])) = k - 1
  <2> DEFINE B == Before(S, start, g[k])
             h == [i \in 1..(k - 1) |-> g[i]]
  <2>1. h \in [1..(k - 1) -> B]
    BY DEF Before
  <2>2. \A i, j \in 1..(k - 1) : h[i] = h[j] => i = j
    OBVIOUS
  <2>3. ASSUME NEW y \in B PROVE \E i \in 1..(k - 1) : h[i] = y
    <3>1. y \in S /\ start[y] < start[g[k]]
      BY DEF Before
    <3>2. PICK i \in 1..n : g[i] = y
      BY <3>1
    <3>3. i < k
      BY <3>1, <3>2
    <3> QED
      BY <3>2, <3>3
  <2> HIDE DEF B, h
  <2>4. h \in Bijection(1..(k - 1), B)
    BY <2>1, <2>2, <2>3 DEF Bijection, Injection, Surjection, IsInjective
  <2>5. ExistsBijection(1..(k - 1), B)
    BY <2>4 DEF ExistsBijection
  <2>6. k - 1 \in Nat
    OBVIOUS
  <2>7. Cardinality(B) = k - 1
    BY <2>5, <2>6, FS_CountingElements
  <2> QED
    BY <2>7 DEF B
<1>3. ASSUME NEW k \in 1..n
      PROVE  (CHOOSE x \in S : Cardinality(Before(S, start, x)) = k - 1) = g[k]
  <2> DEFINE x == CHOOSE x \in S : Cardinality(Before(S, start, x)) = k - 1
  <2>1. \E y \in S : Cardinality(Before(S, start, y)) = k - 1
    BY <1>2, Zenon
  <2>2. x \in S /\ Cardinality(Before(S, start, x)) = k - 1
    BY <2>1
  <2> HIDE DEF x
  <2>3. PICK j \in 1..n : g[j] = x
    BY <2>2
  <2>4. j = k
    BY <1>2, <2>2, <2>3
  <2> QED
    BY <2>3, <2>4 DEF x
<1>4. Sorted(S, start) = [k \in 1..n |-> CHOOSE x \in S : Cardinality(Before(S, start, x)) = k - 1]
  BY <1>1 DEF Sorted, Before
<1> QED
  BY <1>1, <1>3, <1>4

\* Sorting gives all members, in increasing order.
LEMMA SortedRight ==
  ASSUME NEW S, IsFiniteSet(S), NEW start \in [S -> Int],
         \A x, y \in S : start[x] = start[y] => x = y
  PROVE  /\ Cardinality(S) \in Nat
         /\ Sorted(S, start) \in [1..Cardinality(S) -> S]
         /\ \A x \in S : \E k \in 1..Cardinality(S) : Sorted(S, start)[k] = x
         /\ \A i, j \in 1..Cardinality(S) :
              i < j => start[Sorted(S, start)[i]] < start[Sorted(S, start)[j]]
<1> DEFINE n == Cardinality(S)
           rank == [x \in S |-> Cardinality(Before(S, start, x)) + 1]
<1>1. n \in Nat
  BY FS_CardinalityType
<1>2. ASSUME NEW x \in S
      PROVE  IsFiniteSet(Before(S, start, x)) /\ Cardinality(Before(S, start, x)) \in 0..(n - 1)
  <2> DEFINE B == Before(S, start, x)
  <2>1. B \in SUBSET S /\ x \notin B
    BY DEF Before
  <2> HIDE DEF B
  <2>2. IsFiniteSet(B) /\ Cardinality(B) <= n /\ Cardinality(B) # n
    BY <2>1, FS_Subset
  <2>3. Cardinality(B) \in Nat
    BY <2>2, FS_CardinalityType
  <2> QED
    BY <1>1, <2>2, <2>3 DEF B
<1>3. ASSUME NEW x \in S, NEW y \in S, start[x] < start[y]
      PROVE  rank[x] < rank[y]
  <2> DEFINE B == Before(S, start, x)
             C == Before(S, start, y)
  <2>1. B \in SUBSET C /\ x \in C /\ x \notin B
    BY <1>3 DEF Before
  <2>2. IsFiniteSet(C) /\ Cardinality(B) \in Nat /\ Cardinality(C) \in Nat
    BY <1>2
  <2>3. rank[x] = Cardinality(B) + 1 /\ rank[y] = Cardinality(C) + 1
    OBVIOUS
  <2> HIDE DEF B, C, rank
  <2>4. Cardinality(B) <= Cardinality(C) /\ Cardinality(B) # Cardinality(C)
    BY <2>1, <2>2, FS_Subset
  <2> QED
    BY <2>2, <2>3, <2>4
<1>4. rank \in [S -> 1..n]
  BY <1>1, <1>2
<1>5. \A x \in S : rank[x] = Cardinality(Before(S, start, x)) + 1
  OBVIOUS
<1> HIDE DEF n, rank
<1>6. ASSUME NEW x \in S, NEW y \in S, rank[x] = rank[y] PROVE x = y
  <2>1. start[x] \in Int /\ start[y] \in Int /\ rank[x] \in Int
    BY <1>1, <1>4
  <2>2. ~(start[x] < start[y]) /\ ~(start[y] < start[x])
    BY <1>3, <1>6, <2>1
  <2> QED
    BY <2>1, <2>2
<1>7. rank \in Surjection(S, 1..n)
  <2>1. rank \in Injection(S, 1..n)
    BY <1>4, <1>6 DEF Injection, IsInjective
  <2>2. IsFiniteSet(1..n) /\ Cardinality(1..n) = n
    BY <1>1, FS_Interval
  <2> QED
    BY <2>1, <2>2, FS_Injection DEF n
<1> DEFINE s == Sorted(S, start)
<1>8. ASSUME NEW k \in 1..n PROVE s[k] \in S /\ rank[s[k]] = k
  <2> DEFINE x == CHOOSE x \in S : Cardinality(Before(S, start, x)) = k - 1
  <2>1. PICK y \in S : rank[y] = k
    BY <1>7 DEF Surjection
  <2>2. Cardinality(Before(S, start, y)) = k - 1
    BY <1>1, <1>2, <1>5, <2>1
  <2>3. x \in S /\ Cardinality(Before(S, start, x)) = k - 1
    BY <2>2
  <2>4. s[k] = x
    BY Zenon DEF Sorted, Before, n
  <2> HIDE DEF x, s
  <2> QED
    BY <1>1, <1>5, <2>3, <2>4
<1>9. s = [k \in 1..n |-> s[k]]
  <2> DEFINE nth(k) == CHOOSE x \in S : Cardinality(Before(S, start, x)) = k - 1
  <2>1. s = [k \in 1..n |-> nth(k)]
    BY DEF Sorted, Before, n
  <2> HIDE DEF s, nth
  <2> QED
    BY <2>1
<1> HIDE DEF s
<1>10. s \in [1..n -> S]
  BY <1>8, <1>9
<1>11. ASSUME NEW x \in S PROVE \E k \in 1..n : s[k] = x
  BY <1>4, <1>6, <1>8
<1>12. ASSUME NEW i \in 1..n, NEW j \in 1..n, i < j PROVE start[s[i]] < start[s[j]]
  <2>1. s[i] \in S /\ s[j] \in S /\ rank[s[i]] = i /\ rank[s[j]] = j
    BY <1>8
  <2>2. start[s[i]] \in Int /\ start[s[j]] \in Int
    BY <2>1
  <2>3. ~(start[s[j]] < start[s[i]])
    BY <1>1, <1>3, <1>12, <2>1
  <2>4. start[s[j]] # start[s[i]]
    BY <1>1, <1>12, <2>1
  <2> QED
    BY <2>2, <2>3, <2>4
<1> QED
  BY <1>1, <1>10, <1>11, <1>12 DEF n, s
(***************************************************************************)
(* The mappings of a process, in order                                     *)
(***************************************************************************)
Snapshots == {S \in SUBSET Mappings : Fixed \subseteq S /\ Disjoint(S)}

\* Mappings are not empty, and Match tells them apart as SameMapping does.
LEMMA MappingFacts ==
  /\ \A m \in Mappings : m.start \in Nat /\ m.end \in Nat /\ m.start < m.end
  /\ \A m, n \in Mappings : SameMapping(m, n) <=> Match(m, n)
<1>1. \A m \in Mappings : m.start \in Nat /\ m.end \in Nat /\ m.start < m.end
  BY MappingsAssumption
<1>2. ASSUME NEW m \in Mappings, NEW n \in Mappings PROVE SameMapping(m, n) <=> Match(m, n)
  <2>1. /\ m = [start |-> m.start, end |-> m.end, kind |-> m.kind, offset |-> m.offset]
        /\ n = [start |-> n.start, end |-> n.end, kind |-> n.kind, offset |-> n.offset]
    BY MappingsAssumption
  <2>2. [m EXCEPT !.offset = 0] = [start |-> m.start, end |-> m.end, kind |-> m.kind, offset |-> 0]
    BY <2>1
  <2>3. [n EXCEPT !.offset = 0] = [start |-> n.start, end |-> n.end, kind |-> n.kind, offset |-> 0]
    BY <2>1
  <2> QED
    BY <2>2, <2>3 DEF SameMapping, Match
<1> QED
  BY <1>1, <1>2

\* Of two mappings of a process one ends before the other starts.
LEMMA Apart ==
  ASSUME NEW S \in Snapshots, NEW m \in S, NEW n \in S, m # n
  PROVE  /\ m.start # n.start
         /\ m.start < n.start => m.end <= n.start
<1>1. m \in Mappings /\ n \in Mappings /\ ~Overlap(m, n)
  BY DEF Snapshots, Disjoint
<1> QED
  BY <1>1, MappingFacts DEF Overlap

\* What Maps::Parse gives: each mapping once, in order, none overlapping.
LEMMA SnapshotInOrder ==
  ASSUME NEW S \in Snapshots
  PROVE  /\ Cardinality(S) \in Nat
         /\ InOrder(S) \in [1..Cardinality(S) -> S]
         /\ InOrder(S) \in [1..Cardinality(S) -> Mappings]
         /\ \A m \in S : \E k \in 1..Cardinality(S) : InOrder(S)[k] = m
         /\ \A i, j \in 1..Cardinality(S) :
              i < j => /\ InOrder(S)[i].start < InOrder(S)[j].start
                       /\ InOrder(S)[i].end <= InOrder(S)[j].start
<1> DEFINE start == [m \in S |-> m.start]
<1>1. S \in SUBSET Mappings
  BY DEF Snapshots
<1>2. IsFiniteSet(S)
  BY <1>1, MappingsAssumption, FS_Subset
<1>3. start \in [S -> Int]
  BY <1>1, MappingFacts
<1>4. \A x, y \in S : start[x] = start[y] => x = y
  BY Apart
<1>5. \A x \in S : start[x] = x.start
  OBVIOUS
<1>6. InOrder(S) = Sorted(S, start)
  BY DEF InOrder
<1> HIDE DEF start
<1>7. /\ Cardinality(S) \in Nat
      /\ InOrder(S) \in [1..Cardinality(S) -> S]
      /\ \A x \in S : \E k \in 1..Cardinality(S) : InOrder(S)[k] = x
      /\ \A i, j \in 1..Cardinality(S) : i < j => start[InOrder(S)[i]] < start[InOrder(S)[j]]
  BY <1>2, <1>3, <1>4, <1>6, SortedRight
<1>8. ASSUME NEW i \in 1..Cardinality(S), NEW j \in 1..Cardinality(S), i < j
      PROVE  /\ InOrder(S)[i].start < InOrder(S)[j].start
             /\ InOrder(S)[i].end <= InOrder(S)[j].start
  <2> DEFINE m == InOrder(S)[i]
             n == InOrder(S)[j]
  <2>1. m \in S /\ n \in S /\ start[m] < start[n]
    BY <1>7, <1>8
  <2> HIDE DEF m, n
  <2>2. m.start < n.start /\ m.start \in Nat /\ n.start \in Nat
    BY <1>1, <1>5, <2>1, MappingFacts
  <2>3. m # n
    BY <2>2
  <2> QED
    BY <2>1, <2>2, <2>3, Apart DEF m, n
<1> QED
  BY <1>1, <1>7, <1>8

(***************************************************************************)
(* What holds between two steps: maps_ has an object for every mapping of  *)
(* the snapshot, in order.                                                 *)
(***************************************************************************)
MapsInv ==
  /\ crashed = FALSE
  /\ kernel \in Snapshots /\ snapshot \in Snapshots
  /\ objects \in Seq([map : Mappings, prev : Nat])
  /\ maps \in Seq(1..Len(objects))
  /\ Len(maps) = Cardinality(snapshot)
  /\ \A i \in 1..Len(maps) : Match(MapOf(maps[i]), InOrder(snapshot)[i])

\* The same of maps_, through the objects.
LEMMA OldInOrder ==
  ASSUME MapsInv
  PROVE  /\ Len(maps) \in Nat /\ Len(objects) \in Nat
         /\ \A i \in 1..Len(maps) : maps[i] \in 1..Len(objects) /\ MapOf(maps[i]) \in Mappings
         /\ \A i, j \in 1..Len(maps) :
              i < j => /\ MapOf(maps[i]).start < MapOf(maps[j]).start
                       /\ MapOf(maps[i]).end <= MapOf(maps[j]).start
<1>1. Len(maps) \in Nat /\ Len(objects) \in Nat
  BY DEF MapsInv
<1>2. ASSUME NEW i \in 1..Len(maps) PROVE maps[i] \in 1..Len(objects) /\ MapOf(maps[i]) \in Mappings
  <2>1. maps[i] \in 1..Len(objects)
    BY DEF MapsInv
  <2> DEFINE R == [map : Mappings, prev : Nat]
  <2>2. objects \in Seq(R)
    BY DEF MapsInv
  <2> HIDE DEF R
  <2>3. objects[maps[i]] \in R
    BY <1>1, <2>1, <2>2
  <2> QED
    BY <2>1, <2>3 DEF MapOf, R
<1>3. ASSUME NEW i \in 1..Len(maps), NEW j \in 1..Len(maps), i < j
      PROVE  /\ MapOf(maps[i]).start < MapOf(maps[j]).start
             /\ MapOf(maps[i]).end <= MapOf(maps[j]).start
  <2> DEFINE new == InOrder(snapshot)
  <2>1. snapshot \in Snapshots /\ Len(maps) = Cardinality(snapshot)
    BY DEF MapsInv
  <2>2. new[i].start < new[j].start /\ new[i].end <= new[j].start
    BY <1>3, <2>1, SnapshotInOrder
  <2>3. Match(MapOf(maps[i]), new[i]) /\ Match(MapOf(maps[j]), new[j])
    BY DEF MapsInv
  <2> QED
    BY <2>2, <2>3 DEF Match
<1> QED
  BY <1>1, <1>2, <1>3
(***************************************************************************)
(* Maps::Find: after k passes of the loop                                  *)
(***************************************************************************)
FirstPass == [first |-> 0, last |-> Len(maps), found |-> 0]
Passes(h, n, pc) == h = [k \in 0..n |-> IF k = 0 THEN FirstPass ELSE Probe(h[k - 1], pc)]

\* Find is the result of Len(maps) passes of its loop.
LEMMA FindUnfolds ==
  ASSUME Len(maps) \in Nat, NEW pc
  PROVE  \E h : Passes(h, Len(maps), pc) /\ Find(pc) = h[Len(maps)].found
<1> DEFINE S == {n \in Nat : \E h : Passes(h, n, pc)}
<1>1. 0 \in S
  <2> DEFINE h == [k \in 0..0 |-> FirstPass]
  <2>1. Passes(h, 0, pc)
    BY DEF Passes
  <2> QED
    BY <2>1
<1>2. ASSUME NEW n \in Nat, n \in S PROVE n + 1 \in S
  <2>1. PICK h : Passes(h, n, pc)
    BY <1>2
  <2> DEFINE g == [k \in 0..(n + 1) |-> IF k = 0 THEN FirstPass ELSE Probe(h[k - 1], pc)]
  <2>2. \A k \in 0..n : g[k] = h[k]
    BY <2>1 DEF Passes
  <2>3. ASSUME NEW k \in 0..(n + 1), k # 0 PROVE Probe(h[k - 1], pc) = Probe(g[k - 1], pc)
    <3> HIDE DEF g
    <3>1. k - 1 \in 0..n
      BY <2>3
    <3>2. h[k - 1] = g[k - 1]
      BY <2>2, <3>1
    <3> QED
      BY <3>2
  <2>4. Passes(g, n + 1, pc)
    BY <2>3, Zenon DEF Passes
  <2> QED
    BY <2>4
<1> HIDE DEF S
<1>3. Len(maps) \in S
  BY <1>1, <1>2, Induct
<1>4. PICK h : Passes(h, Len(maps), pc)
  BY <1>3 DEF S
<1> QED
  BY <1>4, Zenon DEF Find, Passes, FirstPass

\* What the loop knows: the maps before first end at or before the pc, those
\* from last on start after it, and every pass leaves less between the two.
LoopInv(w, k, pc) ==
  /\ w.first \in 0..Len(maps) /\ w.last \in 0..Len(maps)
  /\ \/ \E i \in 1..Len(maps) : w.found = maps[i] /\ Hit(MapOf(maps[i]), pc)
     \/ /\ w.found = 0
        /\ w.last - w.first <= Len(maps) - k
        /\ \A i \in 1..Len(maps) :
             /\ i <= w.first => MapOf(maps[i]).end <= pc
             /\ i > w.last => pc < MapOf(maps[i]).start

\* One pass of the binary search keeps its loop invariant.
LEMMA ProbeKeeps ==
  ASSUME MapsInv, NEW pc \in Nat, NEW k \in Nat, k < Len(maps),
         NEW w \in [first : Int, last : Int, found : Nat], LoopInv(w, k, pc)
  PROVE  /\ Probe(w, pc) \in [first : Int, last : Int, found : Nat]
         /\ LoopInv(Probe(w, pc), k + 1, pc)
<1> DEFINE index == (w.first + w.last) \div 2
           cur == maps[index + 1]
           o == [i \in 1..Len(maps) |-> MapOf(maps[i])]
           L == Len(maps)
<1>1. /\ L \in Nat
      /\ \A i \in 1..L : maps[i] \in Nat \ {0} /\ o[i] = MapOf(maps[i]) /\ o[i] \in Mappings
      /\ \A i \in 1..L : o[i].start \in Nat /\ o[i].end \in Nat /\ o[i].start < o[i].end
      /\ \A i, j \in 1..L : i < j => o[i].start < o[j].start /\ o[i].end <= o[j].start
  BY OldInOrder, MappingFacts
<1>2. w.first \in 0..L /\ w.last \in 0..L /\ w.found \in Nat
  BY DEF LoopInv
<1>3. CASE w.found # 0
  <2>1. Probe(w, pc) = w
    BY <1>3 DEF Probe
  <2>2. LoopInv(w, k + 1, pc)
    BY <1>3 DEF LoopInv
  <2> QED
    BY <2>1, <2>2
<1>4. CASE w.found = 0 /\ w.first >= w.last
  <2>1. Probe(w, pc) = w
    BY <1>4 DEF Probe
  <2>2. w.last - w.first <= L - (k + 1)
    BY <1>1, <1>2, <1>4
  <2>3. ~\E i \in 1..L : w.found = maps[i]
    BY <1>1, <1>4
  <2>4. LoopInv(w, k + 1, pc)
    BY <2>2, <2>3, <1>2 DEF LoopInv
  <2> QED
    BY <2>1, <2>4
<1>5. CASE w.found = 0 /\ w.first < w.last
  <2>1. index \in w.first..(w.last - 1) /\ index + 1 \in 1..L
    BY <1>1, <1>2, <1>5
  <2>2. /\ w.last - w.first <= L - k
        /\ \A i \in 1..L : /\ i <= w.first => o[i].end <= pc
                           /\ i > w.last => pc < o[i].start
    BY <1>1, <1>5 DEF LoopInv
  <2>3. cur \in Nat \ {0} /\ MapOf(cur) = o[index + 1]
    BY <1>1, <2>1
  <2>4. Probe(w, pc) = IF Hit(MapOf(cur), pc) THEN [w EXCEPT !.found = cur]
                       ELSE IF pc < MapOf(cur).start THEN [w EXCEPT !.last = index]
                       ELSE [w EXCEPT !.first = index + 1]
    BY <1>5 DEF Probe
  <2> HIDE DEF index, o
  <2>5. CASE Hit(MapOf(cur), pc)
    <3>1. Probe(w, pc) = [w EXCEPT !.found = cur]
      BY <2>4, <2>5
    <3> DEFINE v == [w EXCEPT !.found = cur]
    <3>2. /\ v \in [first : Int, last : Int, found : Nat]
          /\ v.first = w.first /\ v.last = w.last /\ v.found = cur
      BY <2>3
    <3> HIDE DEF v
    <3> QED
      BY <1>2, <2>1, <2>5, <3>1, <3>2 DEF LoopInv, v
  <2>6. CASE ~Hit(MapOf(cur), pc) /\ pc < MapOf(cur).start
    <3>1. Probe(w, pc) = [w EXCEPT !.last = index]
      BY <2>4, <2>6
    <3> DEFINE v == [w EXCEPT !.last = index]
    <3>2. /\ v \in [first : Int, last : Int, found : Nat]
          /\ v.first = w.first /\ v.last = index /\ v.found = 0
      BY <1>5, <2>1, <1>2
    <3> HIDE DEF v
    <3>3. index - w.first <= L - (k + 1)
      BY <1>1, <1>2, <2>1, <2>2
    <3>4. ASSUME NEW i \in 1..L, i > index PROVE pc < o[i].start
      BY <1>1, <2>1, <2>3, <2>6, <3>4
    <3>5. \A i \in 1..L : MapOf(maps[i]) = o[i]
      BY <1>1
    <3>6. v.first \in 0..L /\ v.last \in 0..L
      BY <1>1, <1>2, <2>1, <3>2
    <3>7. LoopInv(v, k + 1, pc)
      BY <2>2, <3>2, <3>3, <3>4, <3>5, <3>6 DEF LoopInv
    <3> QED
      BY <3>1, <3>2, <3>7 DEF v
  <2>7. CASE ~Hit(MapOf(cur), pc) /\ ~(pc < MapOf(cur).start)
    <3>1. Probe(w, pc) = [w EXCEPT !.first = index + 1]
      BY <2>4, <2>7
    <3> DEFINE v == [w EXCEPT !.first = index + 1]
    <3>2. /\ v \in [first : Int, last : Int, found : Nat]
          /\ v.first = index + 1 /\ v.last = w.last /\ v.found = 0
      BY <1>5, <2>1, <1>2
    <3> HIDE DEF v
    <3>3. w.last - (index + 1) <= L - (k + 1)
      BY <1>1, <1>2, <2>1, <2>2
    <3>4. ASSUME NEW i \in 1..L, i <= index + 1 PROVE o[i].end <= pc
      <4>1. o[index + 1].end <= pc
        BY <1>1, <2>1, <2>3, <2>7 DEF Hit
      <4>2. i < index + 1 => o[i].end <= o[index + 1].start
        BY <1>1, <2>1
      <4>3. o[i].end \in Nat /\ o[index + 1].start \in Nat /\ o[index + 1].end \in Nat /\ o[index + 1].start <= o[index + 1].end
        BY <1>1, <2>1
      <4>4. index \in Int /\ i \in Int
        BY <1>2, <2>1
      <4>5. CASE i = index + 1
        BY <4>1, <4>5
      <4>6. CASE i < index + 1
        BY <4>1, <4>2, <4>3, <4>6
      <4> QED
        BY <3>4, <4>4, <4>5, <4>6
    <3>5. \A i \in 1..L : MapOf(maps[i]) = o[i]
      BY <1>1
    <3>6. v.first \in 0..L /\ v.last \in 0..L
      BY <1>1, <1>2, <2>1, <3>2
    <3>7. LoopInv(v, k + 1, pc)
      BY <2>2, <3>2, <3>3, <3>4, <3>5, <3>6 DEF LoopInv
    <3> QED
      BY <3>1, <3>2, <3>7 DEF v
  <2> QED
    BY <2>5, <2>6, <2>7
<1> QED
  BY <1>2, <1>3, <1>4, <1>5
\* Find gives a map that contains the pc, or there is none.
FindOk(pc) ==
  \/ \E i \in 1..Len(maps) : Find(pc) = maps[i] /\ Hit(MapOf(maps[i]), pc)
  \/ Find(pc) = 0 /\ \A i \in 1..Len(maps) : ~Hit(MapOf(maps[i]), pc)

FindAllOk == \A pc \in Nat : FindOk(pc)

\* Find gives the object of the mapping around the pc, or none.
LEMMA FindRight == MapsInv => FindAllOk
<1> SUFFICES ASSUME MapsInv, NEW pc \in Nat PROVE FindOk(pc)
  BY DEF FindAllOk
<1> DEFINE L == Len(maps)
           W == [first : Int, last : Int, found : Nat]
<1>1. /\ L \in Nat
      /\ \A i \in 1..L : maps[i] \in Nat \ {0} /\ MapOf(maps[i]) \in Mappings
  BY OldInOrder
<1>2. PICK h : Passes(h, L, pc) /\ Find(pc) = h[L].found
  BY <1>1, FindUnfolds
<1> DEFINE S == {k \in Nat : k <= L => h[k] \in W /\ LoopInv(h[k], k, pc)}
<1>3. 0 \in S
  <2>1. h[0] = FirstPass
    BY <1>1, <1>2 DEF Passes
  <2>2. FirstPass \in W /\ FirstPass.first = 0 /\ FirstPass.last = L /\ FirstPass.found = 0
    BY <1>1 DEF FirstPass
  <2>3. LoopInv(FirstPass, 0, pc)
    BY <1>1, <2>2 DEF LoopInv
  <2> QED
    BY <2>1, <2>2, <2>3
<1>4. ASSUME NEW k \in Nat, k \in S PROVE k + 1 \in S
  <2> SUFFICES ASSUME k + 1 <= L PROVE h[k + 1] \in W /\ LoopInv(h[k + 1], k + 1, pc)
    OBVIOUS
  <2>1. k < L /\ k <= L
    BY <1>1
  <2>2. h[k] \in W /\ LoopInv(h[k], k, pc)
    BY <1>4, <2>1
  <2>3. h[k + 1] = Probe(h[k], pc)
    <3>1. k + 1 \in 0..L /\ k + 1 # 0 /\ (k + 1) - 1 = k
      BY <1>1, <2>1
    <3> HIDE DEF L
    <3> QED
      BY <1>2, <3>1, Zenon DEF Passes
  <2> QED
    BY <2>1, <2>2, <2>3, ProbeKeeps
<1> HIDE DEF S
<1>5. L \in S
  BY <1>1, <1>3, <1>4, Induct
<1>6. h[L] \in W /\ LoopInv(h[L], L, pc)
  BY <1>1, <1>5 DEF S
<1> DEFINE w == h[L]
<1>7. w.first \in 0..L /\ w.last \in 0..L /\ Find(pc) = w.found
  BY <1>2, <1>6 DEF LoopInv
<1>8. CASE \E i \in 1..L : w.found = maps[i] /\ Hit(MapOf(maps[i]), pc)
  BY <1>7, <1>8 DEF FindOk
<1>9. CASE /\ w.found = 0
           /\ w.last - w.first <= L - L
           /\ \A i \in 1..L : /\ i <= w.first => MapOf(maps[i]).end <= pc
                              /\ i > w.last => pc < MapOf(maps[i]).start
  <2> HIDE DEF w, L
  <2>1. ASSUME NEW i \in 1..L PROVE ~Hit(MapOf(maps[i]), pc)
    <3> DEFINE m == MapOf(maps[i])
    <3>1. m.start \in Nat /\ m.end \in Nat
      BY <1>1, MappingFacts
    <3>2. i <= w.first \/ i > w.last
      BY <1>1, <1>7, <1>9
    <3> HIDE DEF m
    <3>3. m.end <= pc \/ pc < m.start
      BY <1>9, <3>2 DEF m
    <3> QED
      BY <3>1, <3>3 DEF Hit, m
  <2> QED
    BY <1>7, <1>9, <2>1 DEF FindOk, L
<1> QED
  BY <1>6, <1>8, <1>9 DEF LoopInv

\* The binary search finds the mapping of a pc.
LEMMA FindsSnapshot == MapsInv => FindsMapping
<1> SUFFICES ASSUME MapsInv, NEW pc \in Pcs
             PROVE  LET in == {m \in snapshot : m.start <= pc /\ pc < m.end}
                    IN  IF in = {} THEN Find(pc) = 0
                        ELSE Find(pc) # 0 /\ \E m \in in : SameMapping(MapOf(Find(pc)), m)
  BY DEF FindsMapping
<1> DEFINE in == {m \in snapshot : m.start <= pc /\ pc < m.end}
           new == InOrder(snapshot)
           L == Len(maps)
<1>1. /\ L \in Nat
      /\ \A i \in 1..L : maps[i] \in Nat \ {0} /\ MapOf(maps[i]) \in Mappings
  BY OldInOrder
<1>2. /\ new \in [1..L -> snapshot] /\ new \in [1..L -> Mappings]
      /\ \A m \in snapshot : \E i \in 1..L : new[i] = m
  BY SnapshotInOrder DEF MapsInv
<1>3. \A i \in 1..L : Match(MapOf(maps[i]), new[i])
  BY DEF MapsInv
<1> HIDE DEF new, L
<1>4. ASSUME NEW i \in 1..L PROVE Hit(MapOf(maps[i]), pc) <=> new[i] \in in
  <2>1. pc \in Nat /\ new[i].start \in Nat /\ new[i] \in snapshot
    BY <1>2, MappingFacts, MappingsAssumption
  <2>2. MapOf(maps[i]).start = new[i].start /\ MapOf(maps[i]).end = new[i].end
    BY <1>3 DEF Match
  <2> QED
    BY <2>1, <2>2 DEF Hit
<1>5. FindOk(pc)
  BY FindRight, MappingsAssumption DEF FindAllOk
<1>6. CASE \E i \in 1..L : Find(pc) = maps[i] /\ Hit(MapOf(maps[i]), pc)
  <2>1. PICK i \in 1..L : Find(pc) = maps[i] /\ Hit(MapOf(maps[i]), pc)
    BY <1>6
  <2>2. new[i] \in in /\ Find(pc) # 0
    BY <1>1, <1>4, <2>1
  <2>3. SameMapping(MapOf(maps[i]), new[i])
    BY <1>1, <1>2, <1>3, MappingFacts
  <2> QED
    BY <2>1, <2>2, <2>3
<1>7. CASE Find(pc) = 0 /\ \A i \in 1..L : ~Hit(MapOf(maps[i]), pc)
  <2>1. in = {}
    BY <1>2, <1>4, <1>7
  <2> QED
    BY <1>7, <2>1
<1> QED
  BY <1>5, <1>6, <1>7 DEF FindOk, L
(***************************************************************************)
(* Reparse: the old maps and the new ones, both in order, with the same    *)
(* mapping at the end                                                      *)
(***************************************************************************)
\* One of the mappings that stay is above all others.
HasTop == \E top \in Fixed : \A m \in Mappings \ {top} : m.start < top.start

Old == [j \in 1..Len(maps) |-> MapOf(maps[j])]
New == InOrder(kernel)

Aligned ==
  /\ Len(maps) \in Nat \ {0} /\ Len(New) \in Nat \ {0} /\ Len(New) = Cardinality(kernel)
  /\ Old \in [1..Len(maps) -> Mappings] /\ New \in [1..Len(New) -> Mappings]
  /\ \A i, j \in 1..Len(maps) : i < j => Old[i].start < Old[j].start
  /\ \A i, j \in 1..Len(New) : i < j => New[i].start < New[j].start
  /\ Match(Old[Len(maps)], New[Len(New)])

\* The topmost mapping is the last one of every snapshot.
LEMMA TopLast ==
  ASSUME NEW top \in Fixed, \A m \in Mappings \ {top} : m.start < top.start, NEW S \in Snapshots
  PROVE  Cardinality(S) \in Nat \ {0} /\ InOrder(S)[Cardinality(S)] = top
<1> DEFINE n == Cardinality(S)
           new == InOrder(S)
<1>1. /\ n \in Nat /\ new \in [1..n -> Mappings]
      /\ \A m \in S : \E k \in 1..n : new[k] = m
      /\ \A i, j \in 1..n : i < j => new[i].start < new[j].start
  BY SnapshotInOrder
<1>2. top \in S /\ top \in Mappings
  BY DEF Snapshots
<1> HIDE DEF n, new
<1>3. PICK k \in 1..n : new[k] = top
  BY <1>1, <1>2
<1>4. n # 0 /\ n \in 1..n
  BY <1>1, <1>3
<1>5. k = n
  <2>1. SUFFICES ASSUME k < n PROVE FALSE
    BY <1>1, <1>3
  <2>2. top.start < new[n].start /\ new[n] \in Mappings
    BY <1>1, <1>3, <1>4, <2>1
  <2>3. new[n].start < top.start \/ new[n] = top
    BY <2>2
  <2> QED
    BY <1>2, <2>2, <2>3, MappingFacts
<1> QED
  BY <1>1, <1>3, <1>4, <1>5 DEF n, new

\* The old and the new maps are both in order and end with the topmost mapping.
LEMMA OldNewAligned ==
  ASSUME MapsInv, HasTop
  PROVE  Aligned
<1> DEFINE L == Len(maps)
           K == Cardinality(kernel)
<1>1. PICK top \in Fixed : \A m \in Mappings \ {top} : m.start < top.start
  BY DEF HasTop
<1>2. /\ kernel \in Snapshots /\ snapshot \in Snapshots /\ L = Cardinality(snapshot)
      /\ \A i \in 1..L : Match(MapOf(maps[i]), InOrder(snapshot)[i])
  BY DEF MapsInv
<1>3. L \in Nat \ {0} /\ InOrder(snapshot)[L] = top
  BY <1>1, <1>2, TopLast
<1>4. K \in Nat \ {0} /\ New[K] = top
  BY <1>1, <1>2, TopLast DEF New
<1>5. /\ New \in [1..K -> Mappings]
      /\ \A i, j \in 1..K : i < j => New[i].start < New[j].start
  BY <1>2, SnapshotInOrder DEF New
<1> HIDE DEF K
<1>6. Len(New) = K
  BY <1>4, <1>5
<1>7. /\ Old \in [1..L -> Mappings]
      /\ \A i \in 1..L : Old[i] = MapOf(maps[i])
  BY OldInOrder DEF Old
<1>8. \A i, j \in 1..L : i < j => Old[i].start < Old[j].start
  BY <1>7, OldInOrder
<1>9. Match(Old[L], New[K])
  BY <1>2, <1>3, <1>4, <1>7
<1> HIDE DEF L
<1> QED
  BY <1>3, <1>4, <1>5, <1>6, <1>7, <1>8, <1>9 DEF Aligned, L, K

(***************************************************************************)
(* What is known after the first k of the new maps: the old ones before    *)
(* search have been moved away or are kept in place of a new one that is   *)
(* dropped, and nothing was moved away that has an equal among the new.    *)
(***************************************************************************)
ScanInv(s, k) ==
  /\ s.search \in 1..(Len(maps) + 1) /\ s.null = FALSE
  /\ IF k = Len(New) THEN s.search = Len(maps) + 1 ELSE s.search <= Len(maps)
  /\ s.moved \subseteq 1..(s.search - 1) /\ s.dropped \subseteq 1..k
  /\ Cardinality(s.dropped) + Cardinality(s.moved) = s.search - 1
  /\ \A j \in 1..(s.search - 1) : j \in s.moved \/ \E i \in s.dropped : Match(Old[j], New[i])
  /\ \A i \in s.dropped : \E j \in 1..(s.search - 1) : j \notin s.moved /\ Match(Old[j], New[i])
  /\ \A j \in s.moved, i \in 1..Len(New) : ~Match(Old[j], New[i])
  /\ \A j \in s.search..Len(maps), i \in 1..k : ~Match(Old[j], New[i])

Stop(s, m) ==
  Min({j \in s.search..Len(maps) : Match(MapOf(maps[j]), m) \/ MapOf(maps[j]).start > m.start}
        \cup {Len(maps) + 1})

\* Where the inner loop ends
LEMMA StopRight ==
  ASSUME Aligned, NEW k \in 1..Len(New), NEW s, s.search \in 1..Len(maps)
  PROVE  /\ Stop(s, New[k]) \in s.search..Len(maps)
         /\ Match(Old[Stop(s, New[k])], New[k]) \/ Old[Stop(s, New[k])].start > New[k].start
         /\ \A j \in s.search..(Stop(s, New[k]) - 1) :
              ~Match(Old[j], New[k]) /\ Old[j].start <= New[k].start
<1> DEFINE L == Len(maps)
           K == Len(New)
           m == New[k]
           T == {j \in s.search..L : Match(Old[j], m) \/ Old[j].start > m.start} \cup {L + 1}
           stop == Stop(s, m)
<1>1. /\ L \in Nat \ {0} /\ K \in Nat \ {0}
      /\ \A i \in 1..L : Old[i] \in Mappings /\ Old[i].start \in Nat
      /\ \A i \in 1..K : New[i] \in Mappings /\ New[i].start \in Nat
      /\ \A i, j \in 1..K : i < j => New[i].start < New[j].start
      /\ Match(Old[L], New[K])
  BY MappingFacts, Zenon DEF Aligned
<1>2. \A j \in s.search..L : Old[j] = MapOf(maps[j])
  BY <1>1 DEF Old
<1>3. stop = Min(T)
  BY <1>2, Zenon DEF Stop
<1>4. T \in SUBSET Nat /\ T # {}
  BY <1>1
<1> HIDE DEF stop, T
<1>5. stop \in T /\ \A j \in T : stop <= j
  <2>1. \E x \in T : \A y \in T : x <= y
    BY <1>4, NatMin
  <2> QED
    BY <1>3, <2>1 DEF Min
<1> HIDE DEF L, K, m
<1>6. L \in T
  <2>1. L \in s.search..L
    BY <1>1 DEF L
  <2>2. CASE k = K
    BY <1>1, <2>1, <2>2 DEF T, m
  <2>3. CASE k # K
    <3>1. New[k].start < New[K].start
      BY <1>1, <2>3 DEF K
    <3>2. Old[L].start = New[K].start
      BY <1>1 DEF Match
    <3>3. Old[L].start > m.start
      BY <1>1, <3>1, <3>2 DEF m, K
    <3> QED
      BY <2>1, <3>3 DEF T
  <2> QED
    BY <2>2, <2>3
<1>7. stop \in s.search..L
  BY <1>1, <1>4, <1>5, <1>6 DEF T, L
<1>8. Match(Old[stop], m) \/ Old[stop].start > m.start
  BY <1>1, <1>5, <1>7 DEF T, L
<1>9. ASSUME NEW j \in s.search..(stop - 1) PROVE ~Match(Old[j], m) /\ Old[j].start <= m.start
  <2>1. j \in s.search..L /\ j < stop /\ j \in 1..L
    BY <1>1, <1>7 DEF L
  <2>2. j \notin T
    BY <1>4, <1>5, <2>1
  <2>3. ~Match(Old[j], m) /\ ~(Old[j].start > m.start)
    BY <2>1, <2>2 DEF T
  <2>4. Old[j].start \in Nat /\ m.start \in Nat
    BY <1>1, <2>1 DEF m, K
  <2> QED
    BY <2>3, <2>4
<1> QED
  BY <1>7, <1>8, <1>9 DEF stop, m, L
\* One iteration of the loop over the new maps
LEMMA ScanKeeps ==
  ASSUME Aligned, NEW k \in 1..Len(New), NEW s, ScanInv(s, k - 1)
  PROVE  ScanInv(ScanMap(s, New[k], k), k)
<1> DEFINE L == Len(maps)
           K == Len(New)
           m == New[k]
           stop == Stop(s, m)
           same == Match(Old[stop], m)
           r == ScanMap(s, m, k)
<1>1. /\ L \in Nat \ {0} /\ K \in Nat \ {0}
      /\ \A i \in 1..L : Old[i] \in Mappings /\ Old[i].start \in Nat
      /\ \A i \in 1..K : New[i] \in Mappings /\ New[i].start \in Nat
      /\ \A i, j \in 1..L : i < j => Old[i].start < Old[j].start
      /\ \A i, j \in 1..K : i < j => New[i].start < New[j].start
      /\ Match(Old[L], New[K])
  BY MappingFacts, Zenon DEF Aligned
<1>2. s.search \in 1..L /\ s.null = FALSE /\ s.moved \subseteq 1..(s.search - 1)
      /\ s.dropped \subseteq 1..(k - 1)
  BY <1>1 DEF ScanInv
<1>3. /\ stop \in s.search..L
      /\ same \/ Old[stop].start > m.start
      /\ \A j \in s.search..(stop - 1) : ~Match(Old[j], m) /\ Old[j].start <= m.start
  BY <1>2, StopRight
<1>4. r = [search  |-> IF same THEN stop + 1 ELSE stop,
           moved   |-> s.moved \cup s.search..(stop - 1),
           dropped |-> s.dropped \cup (IF same THEN {k} ELSE {}),
           null    |-> FALSE]
  <2>1. ~(k > 1 /\ s.search > L) /\ ~(stop > L) /\ stop <= L
    BY <1>1, <1>2, <1>3
  <2>2. Match(MapOf(maps[stop]), m) <=> same
    BY <1>1, <1>2, <1>3 DEF Old
  <2>3. ~(s.search <= L /\ s.search \in s.moved)
    BY <1>1, <1>2
  <2>4. (s.null \/ (s.search <= L /\ s.search \in s.moved)) = FALSE
    BY <1>2, <2>3, SMTT(30)
  <2> HIDE DEF same
  <2>5. r = [search  |-> NextSearch(s.search, L, stop, stop <= L /\ Match(MapOf(maps[stop]), m)),
             moved   |-> s.moved \cup s.search..(stop - 1),
             dropped |-> s.dropped \cup (IF stop <= L /\ Match(MapOf(maps[stop]), m) THEN {k} ELSE {}),
             null    |-> s.null \/ (s.search <= L /\ s.search \in s.moved)]
    BY <2>1 DEF ScanMap, Stop
  <2>6. NextSearch(s.search, L, stop, stop <= L /\ Match(MapOf(maps[stop]), m))
          = IF same THEN stop + 1 ELSE stop
    BY <2>1, <2>2 DEF NextSearch
  <2> HIDE DEF r, stop, m, L
  <2>7. (IF stop <= L /\ Match(MapOf(maps[stop]), m) THEN {k} ELSE {}) = IF same THEN {k} ELSE {}
    BY <2>1, <2>2
  <2> QED
    BY <2>4, <2>5, <2>6, <2>7, Zenon
<1> HIDE DEF stop, r, same
<1>5. /\ r.search = IF same THEN stop + 1 ELSE stop
      /\ r.moved = s.moved \cup s.search..(stop - 1)
      /\ r.dropped = s.dropped \cup (IF same THEN {k} ELSE {})
      /\ r.null = FALSE
  BY <1>4
<1>6. same => Old[stop].start = m.start
  BY DEF Match, same
<1> HIDE DEF L, K, m
<1>7. k \in 1..K /\ m = New[k] /\ m.start \in Nat
  BY <1>1 DEF K, m
<1>8. r.search \in 1..(L + 1) /\ s.search <= r.search
  BY <1>1, <1>2, <1>3, <1>5
<1>9. IF k = K THEN r.search = L + 1 ELSE r.search <= L
  <2>1. CASE k = K
    <3>1. Old[L].start = m.start
      BY <1>1, <1>7, <2>1 DEF Match
    <3>2. stop = L
      <4>1. SUFFICES ASSUME stop < L PROVE FALSE
        BY <1>1, <1>2, <1>3
      <4>2. Old[stop].start < Old[L].start /\ Old[stop].start \in Nat
        BY <1>1, <1>2, <1>3, <4>1
      <4> QED
        BY <1>3, <1>6, <1>7, <3>1, <4>2
    <3>3. same
      BY <1>1, <1>7, <2>1, <3>2 DEF same
    <3> QED
      BY <1>5, <2>1, <3>2, <3>3
  <2>2. CASE k # K
    <3>1. m.start < New[K].start
      BY <1>1, <1>7, <2>2
    <3>2. Old[L].start = New[K].start
      BY <1>1 DEF Match
    <3>3. same => stop # L
      BY <1>1, <1>6, <1>7, <3>1, <3>2
    <3> QED
      BY <1>1, <1>2, <1>3, <1>5, <2>2, <3>3
  <2> QED
    BY <2>1, <2>2
<1>10. r.moved \subseteq 1..(r.search - 1) /\ r.dropped \subseteq 1..k
  BY <1>1, <1>2, <1>3, <1>5
<1>11. Cardinality(r.dropped) + Cardinality(r.moved) = r.search - 1
  <2> DEFINE I == s.search..(stop - 1)
             D == s.dropped
             M == s.moved
  <2>1. Cardinality(D) + Cardinality(M) = s.search - 1
    BY DEF ScanInv
  <2>2. IsFiniteSet(1..(k - 1)) /\ IsFiniteSet(1..(s.search - 1))
    <3>1. 1 \in Int /\ k - 1 \in Int /\ s.search - 1 \in Int
      BY <1>1, <1>2, <1>7
    <3> QED
      BY <3>1, FS_Interval, Zenon
  <2>3. D \in SUBSET (1..(k - 1)) /\ M \in SUBSET (1..(s.search - 1)) /\ M \cap I = {} /\ k \notin D
    BY <1>2
  <2>4. I = s.search..(stop - 1)
    OBVIOUS
  <2> HIDE DEF I, D, M
  <2>5. IsFiniteSet(D) /\ IsFiniteSet(M)
    BY <2>2, <2>3, FS_Subset, Zenon
  <2>6. IsFiniteSet(I) /\ Cardinality(I) = stop - s.search
    <3>1. s.search \in Int /\ stop - 1 \in Int /\ s.search <= stop
      BY <1>2, <1>3
    <3>2. /\ IsFiniteSet(I)
          /\ Cardinality(I) = IF s.search > stop - 1 THEN 0 ELSE (stop - 1) - s.search + 1
      BY <2>4, <3>1, FS_Interval, Zenon
    <3> QED
      BY <1>2, <1>3, <3>1, <3>2
  <2>7. Cardinality(M \cup I) = Cardinality(M) + Cardinality(I)
    <3>1. Cardinality(M \cap I) = 0
      BY <2>3, FS_EmptySet, Zenon
    <3>2. Cardinality(M) \in Nat /\ Cardinality(I) \in Nat
      BY <2>5, <2>6, FS_CardinalityType
    <3>3. Cardinality(M \cup I) = Cardinality(M) + Cardinality(I) - Cardinality(M \cap I)
      BY <2>5, <2>6, FS_Union
    <3> QED
      BY <3>1, <3>2, <3>3
  <2>8. Cardinality(D \cup {k}) = Cardinality(D) + 1
    BY <2>3, <2>5, FS_AddElement, Zenon
  <2>9. Cardinality(D) \in Nat /\ Cardinality(M) \in Nat
    BY <2>5, FS_CardinalityType
  <2>10. r.moved = M \cup I /\ r.dropped = IF same THEN D \cup {k} ELSE D
    BY <1>5 DEF M, D, I
  <2>11. Cardinality(r.moved) = Cardinality(M) + (stop - s.search)
    BY <2>6, <2>7, <2>10
  <2>12. stop \in Int /\ s.search \in Int
    BY <1>2, <1>3
  <2>13. CASE same
    <3>1. r.dropped = D \cup {k} /\ r.search = stop + 1
      BY <1>5, <2>10, <2>13
    <3>2. Cardinality(r.dropped) = Cardinality(D) + 1
      BY <2>8, <3>1, Zenon
    <3>3. r.search = stop + 1
      BY <3>1
    <3> QED
      BY <2>1, <2>9, <2>11, <2>12, <3>2, <3>3
  <2>14. CASE ~same
    <3>1. Cardinality(r.dropped) = Cardinality(D) /\ r.search = stop
      BY <1>5, <2>10, <2>14, Zenon
    <3> QED
      BY <1>2, <1>3, <2>1, <2>9, <2>11, <3>1
  <2> QED
    BY <2>13, <2>14
<1>12. ASSUME NEW j \in 1..(r.search - 1)
       PROVE  j \in r.moved \/ \E i \in r.dropped : Match(Old[j], New[i])
  <2>1. CASE j < s.search
    <3>1. j \in 1..(s.search - 1)
      BY <1>2, <1>8, <2>1
    <3>2. j \in s.moved \/ \E i \in s.dropped : Match(Old[j], New[i])
      BY <3>1 DEF ScanInv
    <3> QED
      BY <1>5, <3>2
  <2>2. CASE s.search <= j /\ j < stop
    BY <1>2, <1>3, <1>5, <1>8, <2>2
  <2>3. CASE same /\ j = stop
    <3>1. k \in r.dropped
      BY <1>5, <2>3
    <3>2. Match(Old[j], New[k])
      BY <1>7, <2>3 DEF same
    <3> QED
      BY <3>1, <3>2
  <2> QED
    BY <1>1, <1>2, <1>3, <1>5, <2>1, <2>2, <2>3
<1>13. ASSUME NEW i \in r.dropped
       PROVE  \E j \in 1..(r.search - 1) : j \notin r.moved /\ Match(Old[j], New[i])
  <2>1. CASE i \in s.dropped
    <3>1. PICK j \in 1..(s.search - 1) : j \notin s.moved /\ Match(Old[j], New[i])
      BY <2>1, Zenon DEF ScanInv
    <3>2. j \in 1..(r.search - 1) /\ j \notin r.moved
      BY <1>2, <1>3, <1>5, <1>8, <3>1
    <3> QED
      BY <3>1, <3>2
  <2>2. CASE same /\ i = k
    <3>1. stop \in 1..(r.search - 1) /\ stop \notin r.moved
      BY <1>1, <1>2, <1>3, <1>5, <2>2
    <3> QED
      BY <1>7, <2>2, <3>1 DEF same
  <2> QED
    BY <1>5, <2>1, <2>2
<1>14. ASSUME NEW j \in r.moved, NEW i \in 1..K PROVE ~Match(Old[j], New[i])
  <2>1. CASE j \in s.moved
    BY <2>1 DEF ScanInv, K
  <2>2. CASE j \in s.search..(stop - 1)
    <3>1. CASE i < k
      <4>1. i \in 1..(k - 1) /\ j \in s.search..L
        BY <1>1, <1>2, <1>3, <1>7, <2>2, <3>1
      <4> QED
        BY <4>1 DEF ScanInv, L
    <3>2. CASE i = k
      BY <1>3, <1>7, <2>2, <3>2
    <3>3. CASE i > k
      <4>1. m.start < New[i].start /\ New[i].start \in Nat
        BY <1>1, <1>7, <3>3
      <4>2. Old[j].start <= m.start /\ Old[j].start \in Nat
        BY <1>1, <1>2, <1>3, <2>2
      <4> QED
        BY <1>7, <4>1, <4>2 DEF Match
    <3> QED
      BY <1>1, <1>7, <3>1, <3>2, <3>3
  <2> QED
    BY <1>5, <2>1, <2>2
<1>15. ASSUME NEW j \in r.search..L, NEW i \in 1..k PROVE ~Match(Old[j], New[i])
  <2>1. j \in s.search..L /\ j \in 1..L /\ stop \in 1..L
    BY <1>1, <1>2, <1>3, <1>8
  <2>2. CASE i < k
    <3>1. i \in 1..(k - 1)
      BY <1>7, <2>2
    <3> QED
      BY <2>1, <3>1 DEF ScanInv, L
  <2>3. CASE i = k
    <3>1. Old[j].start > m.start
      <4>1. CASE same
        <5>1. stop < j
          BY <1>5, <2>1, <1>3, <1>1, <4>1
        <5> QED
          BY <1>1, <1>6, <1>7, <2>1, <4>1, <5>1
      <4>2. CASE ~same
        <5>1. j = stop \/ stop < j
          BY <1>5, <2>1, <1>3, <1>1, <4>2
        <5>2. Old[stop].start > m.start
          BY <1>3, <4>2
        <5>3. stop < j => Old[stop].start < Old[j].start
          BY <1>1, <2>1
        <5>4. Old[stop].start \in Nat /\ Old[j].start \in Nat
          BY <1>1, <2>1
        <5> QED
          BY <1>7, <5>1, <5>2, <5>3, <5>4
      <4> QED
        BY <4>1, <4>2
    <3>2. Old[j].start \in Nat
      BY <1>1, <2>1
    <3> QED
      BY <1>7, <2>3, <3>1, <3>2 DEF Match
  <2> QED
    BY <1>7, <2>2, <2>3
<1>16. ScanInv(r, k)
  BY <1>5, <1>8, <1>9, <1>10, <1>11, <1>12, <1>13, <1>14, <1>15 DEF ScanInv, L, K
<1> QED
  BY <1>16 DEF r, m
FirstScan == [search |-> 1, moved |-> {}, dropped |-> {}, null |-> FALSE]
Scans(h, n) == h = [k \in 0..n |-> IF k = 0 THEN FirstScan ELSE ScanMap(h[k - 1], New[k], k)]

\* Scan is the result of one ScanMap for each new map.
LEMMA ScanUnfolds ==
  ASSUME Len(New) \in Nat
  PROVE  \E h : Scans(h, Len(New)) /\ Scan(New) = h[Len(New)]
<1> DEFINE S == {n \in Nat : \E h : Scans(h, n)}
<1>1. 0 \in S
  <2> DEFINE h == [k \in 0..0 |-> FirstScan]
  <2>1. Scans(h, 0)
    BY DEF Scans
  <2> QED
    BY <2>1
<1>2. ASSUME NEW n \in Nat, n \in S PROVE n + 1 \in S
  <2>1. PICK h : Scans(h, n)
    BY <1>2
  <2> DEFINE g == [k \in 0..(n + 1) |-> IF k = 0 THEN FirstScan ELSE ScanMap(h[k - 1], New[k], k)]
  <2>2. \A k \in 0..n : g[k] = h[k]
    BY <2>1 DEF Scans
  <2>3. ASSUME NEW k \in 0..(n + 1), k # 0
        PROVE  ScanMap(h[k - 1], New[k], k) = ScanMap(g[k - 1], New[k], k)
    <3> HIDE DEF g
    <3>1. k - 1 \in 0..n
      BY <2>3
    <3>2. h[k - 1] = g[k - 1]
      BY <2>2, <3>1
    <3> QED
      BY <3>2
  <2>4. Scans(g, n + 1)
    BY <2>3 DEF Scans
  <2> QED
    BY <2>4
<1> HIDE DEF S
<1>3. Len(New) \in S
  BY <1>1, <1>2, Induct
<1>4. PICK h : Scans(h, Len(New))
  BY <1>3 DEF S
<1> QED
  BY <1>4, Zenon DEF Scan, Scans, FirstScan

\* The loop invariant holds after the last new map.
LEMMA ScanRight ==
  ASSUME Aligned
  PROVE  ScanInv(Scan(New), Len(New))
<1> DEFINE K == Len(New)
<1>1. Len(maps) \in Nat \ {0} /\ K \in Nat \ {0}
  BY DEF Aligned
<1>2. PICK h : Scans(h, K) /\ Scan(New) = h[K]
  BY <1>1, ScanUnfolds
<1> DEFINE S == {k \in Nat : k <= K => ScanInv(h[k], k)}
<1>3. 0 \in S
  <2>1. h[0] = FirstScan
    BY <1>1, <1>2 DEF Scans
  <2>2. FirstScan.search = 1 /\ FirstScan.moved = {} /\ FirstScan.dropped = {} /\ FirstScan.null = FALSE
    BY DEF FirstScan
  <2>3. Cardinality({}) = 0
    BY FS_EmptySet
  <2>4. ScanInv(FirstScan, 0)
    BY <1>1, <2>2, <2>3 DEF ScanInv
  <2> QED
    BY <2>1, <2>4
<1>4. ASSUME NEW k \in Nat, k \in S PROVE k + 1 \in S
  <2> SUFFICES ASSUME k + 1 <= K PROVE ScanInv(h[k + 1], k + 1)
    OBVIOUS
  <2>1. k <= K /\ k + 1 \in 1..K /\ k + 1 \in 0..K /\ k + 1 # 0 /\ (k + 1) - 1 = k
    BY <1>1
  <2>2. ScanInv(h[k], (k + 1) - 1)
    BY <1>4, <2>1
  <2> HIDE DEF K, S
  <2>3. h[k + 1] = ScanMap(h[k], New[k + 1], k + 1)
    BY <1>2, <2>1 DEF Scans
  <2>4. ScanInv(ScanMap(h[k], New[k + 1], k + 1), k + 1)
    BY <2>1, <2>2, ScanKeeps DEF K
  <2> QED
    BY <2>3, <2>4
<1> HIDE DEF S
<1>5. K \in S
  BY <1>1, <1>3, <1>4, Induct
<1> QED
  BY <1>1, <1>2, <1>5 DEF S
\* Parse appends an object for every mapping.
LEMMA ParsedRight ==
  ASSUME MapsInv, Aligned
  PROVE  /\ objects \o Parsed(New) \in Seq([map : Mappings, prev : Nat])
         /\ Len(objects \o Parsed(New)) = Len(objects) + Len(New)
         /\ \A x \in 1..Len(objects) : (objects \o Parsed(New))[x] = objects[x]
         /\ \A k \in 1..Len(New) : (objects \o Parsed(New))[Len(objects) + k].map = New[k]
<1> DEFINE R == [map : Mappings, prev : Nat]
           p == Parsed(New)
           K == Len(New)
           N == Len(objects)
           before == IF maps = <<>> THEN 0 ELSE maps[Len(maps)]
<1>1. K \in Nat /\ N \in Nat /\ New \in [1..K -> Mappings] /\ Len(maps) \in Nat \ {0}
  BY DEF Aligned, MapsInv
<1>2. before \in Nat
  BY <1>1, OldInOrder
<1>3. p = [k \in 1..K |-> [map |-> New[k], prev |-> IF k > 1 THEN N + k - 1 ELSE before]]
  BY DEF Parsed
<1> HIDE DEF p, K, N, before
<1>4. \A k \in 1..K : p[k] \in R /\ p[k].map = New[k]
  BY <1>1, <1>2, <1>3
<1>5. objects \in Seq(R) /\ N = Len(objects)
  BY DEF MapsInv, N
<1> HIDE DEF R
<1>6. p \in Seq(R) /\ Len(p) = K
  BY <1>1, <1>3, <1>4
<1>7. /\ objects \o p \in Seq(R) /\ Len(objects \o p) = N + K
      /\ \A x \in 1..N : (objects \o p)[x] = objects[x]
      /\ \A k \in 1..K : (objects \o p)[N + k] = p[k]
  BY <1>1, <1>5, <1>6
<1> QED
  BY <1>4, <1>7 DEF p, N, K, R

\* total_entries is the number of the mappings that were read.
LEMMA TotalRight ==
  ASSUME Aligned, NEW s, ScanInv(s, Len(New))
  PROVE  TotalEntries(New, s) = Len(New)
<1> DEFINE L == Len(maps)
           K == Len(New)
<1>1. L \in Nat /\ K \in Nat
  BY DEF Aligned
<1>2. /\ s.search = L + 1 /\ s.moved \in SUBSET (1..L) /\ s.dropped \in SUBSET (1..K)
      /\ Cardinality(s.dropped) + Cardinality(s.moved) = L
  BY <1>1 DEF ScanInv
<1>3. IsFiniteSet(1..L) /\ IsFiniteSet(1..K)
  BY <1>1, FS_Interval
<1>4. IsFiniteSet(s.moved) /\ IsFiniteSet(s.dropped)
  BY <1>2, <1>3, FS_Subset
<1>5. Cardinality(s.moved) \in Nat /\ Cardinality(s.dropped) \in Nat
  BY <1>4, FS_CardinalityType
<1>6. L - s.search + 1 = 0
  BY <1>1, <1>2
<1>7. Cardinality(s.dropped) + Cardinality(s.moved) = L
  BY <1>2
<1>8. TotalEntries(New, s) = L + K - Cardinality(s.dropped) - Cardinality(s.moved) - (L - s.search + 1)
  BY DEF TotalEntries
<1> HIDE DEF L, K
<1> QED
  BY <1>1, <1>5, <1>6, <1>7, <1>8 DEF K
\* What is neither moved away nor dropped: an object for each of the new maps
Kept(s) == {maps[j] : j \in 1..(s.search - 1) \ s.moved} \cup {Len(objects) + k : k \in DOMAIN New \ s.dropped}
Objects == objects \o Parsed(New)
KeptSorted(s) == Sorted(Kept(s), [x \in Kept(s) |-> Objects[x].map.start])

\* The old objects kept and the new ones, sorted, are one object for every new map.
LEMMA KeptInOrder ==
  ASSUME MapsInv, Aligned, NEW s, ScanInv(s, Len(New))
  PROVE  /\ KeptSorted(s) \in [1..Len(New) -> 1..Len(Objects)]
         /\ \A i \in 1..Len(New) : Match(Objects[KeptSorted(s)[i]].map, New[i])
         /\ \A j \in 1..Len(maps) \ s.moved : \E i \in 1..Len(New) : KeptSorted(s)[i] = maps[j]
<1> DEFINE L == Len(maps)
           K == Len(New)
           N == Len(objects)
           kept == Kept(s)
           equal(i) == CHOOSE j \in 1..L : j \notin s.moved /\ Match(Old[j], New[i])
           g == [i \in 1..K |-> IF i \in s.dropped THEN maps[equal(i)] ELSE N + i]
           start == [x \in kept |-> Objects[x].map.start]
<1>1. /\ L \in Nat /\ K \in Nat /\ N \in Nat
      /\ \A j \in 1..L : Old[j] \in Mappings /\ Old[j].start \in Nat
      /\ \A i \in 1..K : New[i] \in Mappings /\ New[i].start \in Nat
      /\ \A i, j \in 1..L : i < j => Old[i].start < Old[j].start
      /\ \A i, j \in 1..K : i < j => New[i].start < New[j].start
      /\ DOMAIN New = 1..K
  <2>1. N \in Nat
    BY OldInOrder
  <2>2. /\ L \in Nat /\ K \in Nat
        /\ Old \in [1..L -> Mappings] /\ New \in [1..K -> Mappings]
        /\ \A i, j \in 1..L : i < j => Old[i].start < Old[j].start
        /\ \A i, j \in 1..K : i < j => New[i].start < New[j].start
    BY DEF Aligned
  <2> HIDE DEF L, K, N
  <2> QED
    BY <2>1, <2>2, MappingFacts
<1>2. \A j \in 1..L : maps[j] \in 1..N /\ MapOf(maps[j]) = Old[j]
  BY OldInOrder DEF Old
<1>3. /\ Len(Objects) = N + K
      /\ \A x \in 1..N : Objects[x] = objects[x]
      /\ \A k \in 1..K : Objects[N + k].map = New[k]
  BY ParsedRight DEF Objects
<1>4. \A j \in 1..L : Objects[maps[j]].map = Old[j]
  BY <1>2, <1>3 DEF MapOf
<1>5. /\ s.search - 1 = L /\ s.dropped \subseteq 1..K
      /\ \A j \in 1..L : j \in s.moved \/ \E i \in s.dropped : Match(Old[j], New[i])
      /\ \A i \in s.dropped : \E j \in 1..L : j \notin s.moved /\ Match(Old[j], New[i])
  BY <1>1 DEF ScanInv
<1>6. kept = {maps[j] : j \in 1..L \ s.moved} \cup {N + k : k \in 1..K \ s.dropped}
  BY <1>1, <1>5, Zenon DEF Kept
<1>7. \A i \in s.dropped : equal(i) \in 1..L \ s.moved /\ Match(Old[equal(i)], New[i])
  BY <1>5
<1> HIDE DEF L, K, N, kept, equal
<1>8. ASSUME NEW i \in 1..K
      PROVE  g[i] \in kept /\ g[i] \in 1..(N + K) /\ Match(Objects[g[i]].map, New[i])
  <2>1. CASE i \in s.dropped
    <3>1. g[i] = maps[equal(i)] /\ equal(i) \in 1..L \ s.moved
      BY <1>7, <2>1
    <3>2. maps[equal(i)] \in kept /\ maps[equal(i)] \in 1..N
      BY <1>2, <1>6, <3>1
    <3>3. Match(Objects[maps[equal(i)]].map, New[i])
      BY <1>4, <1>7, <2>1, <3>1
    <3> HIDE DEF g
    <3> QED
      BY <1>1, <3>1, <3>2, <3>3
  <2>2. CASE i \notin s.dropped
    <3>1. g[i] = N + i
      BY <2>2
    <3>2. N + i \in kept /\ N + i \in 1..(N + K)
      BY <1>1, <1>6, <2>2
    <3>3. Match(Objects[N + i].map, New[i])
      BY <1>3 DEF Match
    <3> HIDE DEF g
    <3> QED
      BY <3>1, <3>2, <3>3
  <2> QED
    BY <2>1, <2>2
<1>9. ASSUME NEW j \in 1..L \ s.moved PROVE \E i \in 1..K : g[i] = maps[j]
  <2>1. PICK i \in s.dropped : Match(Old[j], New[i])
    BY <1>5
  <2>2. equal(i) \in 1..L /\ Match(Old[equal(i)], New[i]) /\ i \in 1..K
    BY <1>5, <1>7
  <2>3. Old[j].start = Old[equal(i)].start
    BY <2>1, <2>2 DEF Match
  <2>4. equal(i) = j
    BY <1>1, <2>2, <2>3
  <2> QED
    BY <2>1, <2>2, <2>4
<1>10. g = [i \in 1..K |-> g[i]]
  OBVIOUS
<1>11. \A i \in 1..K \ s.dropped : g[i] = N + i
  OBVIOUS
<1> HIDE DEF g
<1>12. g \in [1..K -> kept] /\ g \in [1..K -> 1..(N + K)]
  BY <1>8, <1>10
<1>13. \A x \in kept : \E i \in 1..K : g[i] = x
  BY <1>6, <1>9, <1>11
<1>14. \A i \in 1..K : start[g[i]] = New[i].start
  BY <1>8 DEF Match
<1>15. start \in [kept -> Int]
  <2>1. ASSUME NEW x \in kept PROVE Objects[x].map.start \in Int
    <3>1. PICK i \in 1..K : g[i] = x
      BY <1>13
    <3> QED
      BY <1>1, <1>8, <3>1 DEF Match
  <2> QED
    BY <2>1
<1>16. KeptSorted(s) = Sorted(kept, start)
  BY DEF KeptSorted, kept
<1> HIDE DEF start
<1>17. \A i, j \in 1..K : i < j => start[g[i]] < start[g[j]]
  BY <1>1, <1>14
<1>18. Sorted(kept, start) = g
  <2>1. K \in Nat /\ g \in [1..K -> kept]
    BY <1>1, <1>12
  <2> QED
    BY <2>1, <1>13, <1>15, <1>17, SortedIs, Zenon
<1>19. KeptSorted(s) = g
  BY <1>16, <1>18
<1> QED
  BY <1>3, <1>8, <1>9, <1>12, <1>19 DEF K, L
\* The whole of Reparse
LEMMA ReparseRight ==
  ASSUME MapsInv, HasTop, Reparse, kernel' = kernel
  PROVE  /\ MapsInv'
         /\ Live \subseteq Live'
         /\ \A i \in 1..Len(maps) : MapOf(maps[i]) \in snapshot' => maps[i] \in ToSet(maps')
<1> DEFINE s == Scan(New)
           L == Len(maps)
           K == Len(New)
<1>1. Aligned
  BY OldNewAligned
<1>2. ScanInv(s, K)
  BY <1>1, ScanRight
<1> HIDE DEF s
<1>3. /\ L \in Nat /\ K \in Nat /\ K = Cardinality(kernel) /\ New \in [1..K -> Mappings]
      /\ Old \in [1..L -> Mappings]
  BY <1>1 DEF Aligned
<1>4. s.search = L + 1 /\ s.null = FALSE /\ s.moved \subseteq 1..L
      /\ \A j \in s.moved, i \in 1..K : ~Match(Old[j], New[i])
  BY <1>2, <1>3 DEF ScanInv
<1>5. TotalEntries(New, s) = K
  BY <1>1, <1>2, TotalRight
<1>6. /\ crashed' = (s.null \/ TotalEntries(New, s) < 0)
      /\ IF crashed' THEN UNCHANGED <<objects, maps, saved, snapshot>>
         ELSE /\ objects' = Objects
              /\ maps' = SubSeq(KeptSorted(s), 1, TotalEntries(New, s))
              /\ saved' = Saved(s)
              /\ snapshot' = kernel
  BY Zenon DEF Reparse, New, s, Kept, Objects, KeptSorted
<1>7. crashed' = FALSE
  <2>1. ~(TotalEntries(New, s) < 0)
    BY <1>3, <1>5
  <2>2. s.null = FALSE /\ crashed' = (s.null \/ TotalEntries(New, s) < 0)
    BY <1>4, <1>6
  <2> QED
    BY <2>1, <2>2, Zenon
<1>8. /\ objects' = Objects /\ saved' = Saved(s) /\ snapshot' = kernel
      /\ maps' = SubSeq(KeptSorted(s), 1, K)
  BY <1>5, <1>6, <1>7
<1>9. /\ KeptSorted(s) \in [1..K -> 1..Len(Objects)]
      /\ \A i \in 1..K : Match(Objects[KeptSorted(s)[i]].map, New[i])
      /\ \A j \in 1..L \ s.moved : \E i \in 1..K : KeptSorted(s)[i] = maps[j]
  BY <1>1, <1>2, KeptInOrder
<1> HIDE DEF L, K
<1>10. /\ maps' = KeptSorted(s) /\ maps' \in Seq(1..Len(Objects))
       /\ Len(maps') = K /\ DOMAIN maps' = 1..K
  <2> DEFINE g == KeptSorted(s)
             T == 1..Len(Objects)
  <2>1. g \in [1..K -> T]
    BY <1>9
  <2> HIDE DEF g, T
  <2>2. g \in Seq(T) /\ Len(g) = K
    BY <1>3, <2>1
  <2>3. SubSeq(g, 1, K) = g
    BY <1>3, <2>1, <2>2
  <2> QED
    BY <1>8, <2>1, <2>2, <2>3 DEF g, T
<1>11. MapsInv'
  <2>1. kernel' \in Snapshots /\ snapshot' \in Snapshots
    BY <1>8 DEF MapsInv
  <2>2. objects' \in Seq([map : Mappings, prev : Nat])
    BY <1>1, <1>8, ParsedRight DEF Objects
  <2>3. maps' \in Seq(1..Len(objects'))
    BY <1>8, <1>10
  <2>4. Len(maps') = Cardinality(snapshot')
    BY <1>3, <1>8, <1>10
  <2>5. ASSUME NEW i \in 1..Len(maps') PROVE Match(objects'[maps'[i]].map, InOrder(snapshot')[i])
    BY <1>8, <1>9, <1>10 DEF New
  <2> QED
    BY <1>7, <2>1, <2>2, <2>3, <2>4, <2>5 DEF MapsInv, MapOf
<1>12. ASSUME NEW j \in 1..L, j \notin s.moved PROVE maps[j] \in ToSet(maps')
  <2>1. PICK i \in 1..K : KeptSorted(s)[i] = maps[j]
    BY <1>9, <1>12
  <2> QED
    BY <1>10, <2>1 DEF ToSet
<1>13. ASSUME NEW j \in 1..L, j \in s.moved PROVE maps[j] \in saved'
  BY <1>8, <1>13 DEF Saved
<1>14. DOMAIN maps = 1..L
  BY DEF MapsInv, L
<1>15. Live \subseteq Live'
  <2>1. saved \subseteq saved'
    BY <1>8 DEF Saved
  <2>2. ToSet(maps) \subseteq ToSet(maps') \cup saved'
    BY <1>12, <1>13, <1>14 DEF ToSet
  <2>3. Live' = ToSet(maps') \cup saved' /\ Live = ToSet(maps) \cup saved
    BY DEF Live, ToSet
  <2> QED
    BY <2>1, <2>2, <2>3
<1>16. ASSUME NEW j \in 1..L, MapOf(maps[j]) \in snapshot' PROVE maps[j] \in ToSet(maps')
  <2>1. Old[j] \in kernel
    BY <1>8, <1>16 DEF Old, L
  <2>2. PICK i \in 1..K : New[i] = Old[j]
    BY <1>3, <2>1, SnapshotInOrder DEF MapsInv, New
  <2>3. Match(Old[j], New[i])
    BY <2>2 DEF Match
  <2>4. j \notin s.moved
    BY <1>4, <2>3
  <2> QED
    BY <1>12, <2>4
<1> QED
  BY <1>11, <1>15, <1>16 DEF L
(***************************************************************************)
(* The inductive invariant, and what follows from it                       *)
(***************************************************************************)
IInv == MapsInv /\ held \in [Threads -> SUBSET Live]

\* The invariant holds when the maps have been read first.
LEMMA InitInv == Init => IInv
<1> SUFFICES ASSUME Init PROVE IInv
  OBVIOUS
<1> DEFINE n == Cardinality(kernel)
           R == [map : Mappings, prev : Nat]
<1>1. kernel \in Snapshots /\ snapshot = kernel
  BY DEF Init, Snapshots
<1>2. n \in Nat /\ InOrder(kernel) \in [1..n -> Mappings]
  BY <1>1, SnapshotInOrder
<1>3. /\ maps = [k \in 1..n |-> k]
      /\ objects = [k \in 1..n |-> [map |-> InOrder(kernel)[k], prev |-> k - 1]]
  BY DEF Init
<1> HIDE DEF n
<1>4. \A k \in 1..n : objects[k] \in R /\ objects[k].map = InOrder(kernel)[k]
  BY <1>2, <1>3
<1> HIDE DEF R
<1>5. objects \in Seq(R) /\ Len(objects) = n
  BY <1>2, <1>3, <1>4
<1>6. maps \in Seq(1..n) /\ Len(maps) = n /\ \A i \in 1..n : maps[i] = i
  BY <1>2, <1>3
<1>7. \A i \in 1..n : Match(MapOf(maps[i]), InOrder(snapshot)[i])
  BY <1>1, <1>4, <1>6 DEF MapOf, Match
<1>8. crashed = FALSE /\ held \in [Threads -> SUBSET Live]
  BY DEF Init
<1> QED
  BY <1>1, <1>5, <1>6, <1>7, <1>8 DEF IInv, MapsInv, n, R

\* A step that leaves the maps alone
LEMMA MapsKept ==
  ASSUME MapsInv, kernel' \in Snapshots, UNCHANGED <<snapshot, objects, maps, saved, crashed>>
  PROVE  MapsInv' /\ Live' = Live
  BY DEF MapsInv, MapOf, Live

\* Every step keeps the invariant: a re-read, a lookup, a change of the mappings, the end of an unwind.
LEMMA NextInv ==
  ASSUME IInv, HasTop, [Next]_vars
  PROVE  IInv'
<1>1. MapsInv /\ held \in [Threads -> SUBSET Live] /\ kernel \in Snapshots
  BY DEF IInv, MapsInv
<1>2. ASSUME NEW t \in Threads, NEW pc \in Pcs, Lookup(t, pc) PROVE IInv'
  <2>1. MapsInv' /\ Live' = Live
    BY <1>1, <1>2, MapsKept DEF Lookup
  <2>2. Find(pc) # 0 => Find(pc) \in Live
    <3>1. FindOk(pc)
      BY <1>1, FindRight, MappingsAssumption DEF FindAllOk
    <3>2. \A i \in 1..Len(maps) : maps[i] \in Live
      <4>1. DOMAIN maps = 1..Len(maps)
        BY <1>1 DEF MapsInv
      <4> QED
        BY <4>1 DEF Live, ToSet
    <3> QED
      BY <3>1, <3>2 DEF FindOk
  <2>3. held' = held \/ (Find(pc) # 0 /\ held' = [held EXCEPT ![t] = @ \cup {Find(pc)}])
    BY <1>2 DEF Lookup
  <2>4. held' \in [Threads -> SUBSET Live]
    BY <1>1, <2>2, <2>3
  <2> QED
    BY <2>1, <2>4 DEF IInv
<1>3. ASSUME NEW t \in Threads, NEW pc \in Pcs, LookupAgain(t, pc) PROVE IInv'
  <2>1. Reparse /\ kernel' = kernel
    BY <1>3 DEF LookupAgain
  <2>2. MapsInv' /\ Live \subseteq Live'
    BY <1>1, <2>1, ReparseRight
  <2>3. Find(pc)' # 0 => Find(pc)' \in Live'
    <3>1. MapsInv' => FindAllOk'
      BY FindRight, PTL
    <3>2. FindOk(pc)'
      BY <2>2, <3>1, MappingsAssumption DEF FindAllOk
    <3>3. \A i \in 1..Len(maps') : maps'[i] \in Live'
      <4>1. DOMAIN maps' = 1..Len(maps')
        BY <2>2 DEF MapsInv
      <4> QED
        BY <4>1 DEF Live, ToSet
    <3> QED
      BY <3>2, <3>3 DEF FindOk
  <2>4. held' = held \/ (Find(pc)' # 0 /\ held' = [held EXCEPT ![t] = @ \cup {Find(pc)'}])
    BY <1>3 DEF LookupAgain
  <2>5. held' \in [Threads -> SUBSET Live']
    BY <1>1, <2>2, <2>3, <2>4
  <2> QED
    BY <2>2, <2>5 DEF IInv
<1>4. ASSUME NEW t \in Threads, ParseFails(t) \/ Done(t) PROVE IInv'
  <2>1. MapsInv' /\ Live' = Live
    BY <1>1, <1>4, MapsKept DEF ParseFails, Done
  <2>2. held' \in [Threads -> SUBSET Live]
    BY <1>1, <1>4 DEF ParseFails, Done
  <2> QED
    BY <2>1, <2>2 DEF IInv
<1>5. ASSUME NEW m \in Mappings, MMap(m) \/ MUnmap(m) PROVE IInv'
  <2>1. kernel' \in Snapshots
    BY <1>1, <1>5 DEF MMap, MUnmap, Snapshots, Disjoint
  <2>2. MapsInv' /\ Live' = Live
    BY <1>1, <1>5, <2>1, MapsKept DEF MMap, MUnmap
  <2> QED
    BY <1>1, <1>5, <2>2 DEF IInv, MMap, MUnmap
<1>6. CASE UNCHANGED vars
  <2>1. MapsInv' /\ Live' = Live
    BY <1>1, <1>6, MapsKept DEF vars
  <2> QED
    BY <1>1, <1>6, <2>1 DEF IInv, vars
<1> QED
  BY <1>2, <1>3, <1>4, <1>5, <1>6 DEF Next

\* maps_ and its objects are at every moment what the last read of the maps has
\* seen, and the pointers that threads hold are among them or the saved ones.
THEOREM Invariance ==
  ASSUME HasTop
  PROVE  Spec => []IInv
<1>1. Init => IInv
  BY InitInv
<1>2. IInv /\ [Next]_vars => IInv'
  BY NextInv
<1> QED
  BY <1>1, <1>2, PTL DEF Spec

(***************************************************************************)
(* Reparse never deletes a MapInfo that a thread got from an earlier Find, *)
(* and still has in its frames.                                            *)
(***************************************************************************)
THEOREM InUseSafe ==
  ASSUME HasTop
  PROVE  Spec => []InUseNotDeleted
<1>1. IInv => InUseNotDeleted
  BY DEF IInv, InUseNotDeleted
<1> QED
  BY <1>1, Invariance, PTL

(***************************************************************************)
(* However the mappings change between two re-reads, Reparse leaves in     *)
(* maps_ one object for every mapping that was read, in order; its count   *)
(* of what to keep is right and it follows no pointer that it has moved.   *)
(***************************************************************************)
THEOREM ReparseCorrect ==
  ASSUME HasTop
  PROVE  Spec => []MapsAreSnapshot
<1>1. IInv => MapsAreSnapshot
  <2> SUFFICES ASSUME IInv PROVE MapsAreSnapshot
    OBVIOUS
  <2>1. /\ ~crashed /\ Len(maps) = Cardinality(snapshot) /\ snapshot \in Snapshots
        /\ DOMAIN maps = 1..Len(maps)
        /\ \A i \in 1..Len(maps) : Match(MapOf(maps[i]), InOrder(snapshot)[i])
    BY DEF IInv, MapsInv
  <2>2. \A i \in 1..Len(maps) : MapOf(maps[i]) \in Mappings
    BY OldInOrder DEF IInv
  <2>3. InOrder(snapshot) \in [1..Len(maps) -> Mappings]
    BY <2>1, SnapshotInOrder
  <2>4. \A i \in DOMAIN maps : SameMapping(MapOf(maps[i]), InOrder(snapshot)[i])
    BY <2>1, <2>2, <2>3, MappingFacts
  <2> QED
    BY <2>1, <2>4 DEF MapsAreSnapshot
<1> QED
  BY <1>1, Invariance, PTL

(***************************************************************************)
(* Find, a binary search, gives the object of the mapping that contains    *)
(* the pc, and nothing only if there is no such mapping.                   *)
(***************************************************************************)
THEOREM FindCorrect ==
  ASSUME HasTop
  PROVE  Spec => []FindsMapping
<1>1. IInv => FindsMapping
  BY FindsSnapshot DEF IInv
<1> QED
  BY <1>1, Invariance, PTL

(***************************************************************************)
(* A mapping that is still there when the maps are read again keeps its    *)
(* MapInfo, and with it the Elf that was read for it.                      *)
(***************************************************************************)
THEOREM ObjectsStay ==
  ASSUME HasTop
  PROVE  Spec => SameMappingSameObject
<1>1. ASSUME IInv, [Next]_vars
      PROVE  [\A i \in DOMAIN maps : MapOf(maps[i]) \in snapshot' => maps[i] \in ToSet(maps')]_vars
  <2>1. MapsInv /\ DOMAIN maps = 1..Len(maps)
    BY <1>1 DEF IInv, MapsInv
  <2>2. CASE \E t \in Threads, pc \in Pcs : LookupAgain(t, pc)
    <3>1. Reparse /\ kernel' = kernel
      BY <2>2 DEF LookupAgain
    <3> QED
      BY <2>1, <3>1, ReparseRight
  <2>3. CASE maps' = maps
    BY <2>3 DEF ToSet
  <2> QED
    BY <1>1, <2>2, <2>3, Zenon DEF Next, vars, Lookup, ParseFails, Done, MMap, MUnmap
<1> QED
  BY <1>1, Invariance, PTL DEF Spec, SameMappingSameObject

=============================================================================
