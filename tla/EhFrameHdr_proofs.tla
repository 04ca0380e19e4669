------------------------- MODULE EhFrameHdr_proofs --------------------------
(***************************************************************************)
(* Proofs about looking up a frame description:                            *)
(*   SearchCorrect       in a search table, the bisection of a table of    *)
(*                       any size finds the last entry not above the pc;   *)
(*   SearchShrinksAlways the range it searches shrinks with every probe;   *)
(*   IndexCorrect        without a table, in a section with any entries in *)
(*                       any order, the FDE found covers the pc, and a     *)
(*                       listing gives every FDE once;                     *)
(*   FirstFdeFound       in one whose FDEs are in the order of their first *)
(*                       pc, the first FDE with the pc is found.           *)
(* The inductive invariant of FdeIndex says that an entry of the index is  *)
(* a part of its FDE.  In a section in order it says more: where the next  *)
(* FDE will start the index has no gaps, no entry has a pc of an earlier   *)
(* FDE, and every pc of an FDE that has been read is in it.                *)
(***************************************************************************)
EXTENDS EhFrameHdr, SequenceTheorems, WellFoundedInduction, TLAPS

\* The constant and the variables of FdeIndex, which shares Pcs
CONSTANT Sections
VARIABLES ix_section, ix_next, ix_fdes, ix_result
Ix == INSTANCE FdeIndex WITH
  section <- ix_section, next <- ix_next, fdes <- ix_fdes, result <- ix_result

\* The first pc of an entry is a natural number.
LEMMA TruePcNat == ASSUME TypeOK, NEW i \in Index PROVE TruePc(i) \in Nat
<1>1. table \in [Index -> Nat]
  BY TablesAssumption DEF TypeOK
<1> QED
  BY <1>1, CountAssumption DEF TruePc

\* A sorted table is sorted by the pcs with the load bias too.
LEMMA TruePcSorted ==
  ASSUME TypeOK, Sorted, NEW i \in Index, NEW j \in Index, i <= j
  PROVE  TruePc(i) <= TruePc(j)
<1>1. table \in [Index -> Nat]
  BY TablesAssumption DEF TypeOK
<1>2. table[i] <= table[j]
  BY <1>1 DEF Sorted, Index
<1> QED
  BY <1>1, <1>2, CountAssumption DEF TruePc

\* What the search reads of an entry is the entry, cached or not.
LEMMA InfoIsTrue == ASSUME CacheIsTable, NEW i \in Index PROVE InfoPc(i) = TruePc(i)
BY DEF CacheIsTable, InfoPc

\* A probe in the middle of a range that is not empty is inside of it.
LEMMA CurrentInRange ==
  ASSUME TypeOK, first < last
  PROVE  Current \in Index /\ first <= Current /\ Current < last
<1>1. first \in Nat /\ last \in Nat /\ last <= Count
  BY CountAssumption DEF TypeOK
<1>2. (first + last) \div 2 \in Nat /\ first <= (first + last) \div 2 /\ (first + last) \div 2 < last
  BY <1>1
<1> QED
  BY <1>1, <1>2, CountAssumption DEF Current, Index

\* Caching an entry keeps the cache equal to the table.
LEMMA CacheInv ==
  ASSUME TypeOK, CacheIsTable, NEW i \in Index, Cache(i), UNCHANGED section
  PROVE  CacheIsTable' /\ fde_info' \in [cached : SUBSET Index, pc : [Index -> Nat]]
<1>1. fde_info \in [cached : SUBSET Index, pc : [Index -> Nat]]
  BY DEF TypeOK
<1>2. UNCHANGED <<table, relative>>
  BY DEF section
<1>3. \A j : TruePc(j)' = TruePc(j)
  BY <1>2 DEF TruePc
<1>4. TruePc(i) \in Nat
  BY TruePcNat
<1>5. CASE i \in fde_info.cached
  BY <1>1, <1>3, <1>5 DEF Cache, CacheIsTable
<1>6. CASE i \notin fde_info.cached
  <2>1. fde_info' = [cached |-> fde_info.cached \cup {i}, pc |-> [fde_info.pc EXCEPT ![i] = TruePc(i)]]
    BY <1>6 DEF Cache
  <2>2. fde_info.pc \in [Index -> Nat] /\ fde_info.cached \subseteq Index
    BY <1>1
  <2>3. fde_info' \in [cached : SUBSET Index, pc : [Index -> Nat]]
    BY <2>1, <2>2, <1>4
  <2>4. fde_info'.pc[i] = TruePc(i) /\ \A j \in Index \ {i} : fde_info'.pc[j] = fde_info.pc[j]
    BY <2>1, <2>2
  <2>5. fde_info'.cached = fde_info.cached \cup {i}
    BY <2>1
  <2> QED
    BY <2>2, <2>3, <2>4, <2>5, <1>3 DEF CacheIsTable
<1> QED
  BY <1>5, <1>6

-----------------------------------------------------------------------------
\* IInv holds before the first lookup.
LEMMA InitInv == Init => IInv
<1> SUFFICES ASSUME Init PROVE IInv
  OBVIOUS
<1>1. fde_info = [cached |-> {}, pc |-> [i \in Index |-> 0]]
  BY DEF Init
<1>2. fde_info \in [cached : SUBSET Index, pc : [Index -> Nat]] /\ fde_info.cached = {}
  BY <1>1
<1>3. TypeOK
  BY <1>2, CountAssumption DEF Init, TypeOK
<1>4. phase = "closed"
  BY DEF Init
<1> QED
  BY <1>2, <1>3, <1>4 DEF IInv, CacheIsTable, RangeInv, SearchFindsGreatest, ReturnedFdeCovers

\* Steps that leave the section and the cache and do not end in one of the
\* phases the invariant is about
LEMMA QuietStep ==
  ASSUME IInv, UNCHANGED <<table, relative, ends, fde_info, pc, first, last, at>>,
         unreadable' \subseteq Index, phase' \in {"unusable", "ready", "failed"}
  PROVE  IInv'
<1>1. TypeOK'
  BY DEF IInv, TypeOK
<1>2. CacheIsTable'
  BY DEF IInv, CacheIsTable, TruePc
<1> QED
  BY <1>1, <1>2 DEF IInv, RangeInv, SearchFindsGreatest, ReturnedFdeCovers

\* Steps of the search that cache an entry
LEMMA CachingStep ==
  ASSUME IInv, NEW i \in Index, Cache(i), UNCHANGED section, pc' = pc,
         phase' \in {"search", "found"}, first' \in 0..Count, last' \in 0..Count, at' \in 0..Count
  PROVE  /\ TypeOK' /\ CacheIsTable' /\ (Sorted' <=> Sorted)
         /\ \A j : TruePc(j)' = TruePc(j)
<1>1. TypeOK /\ CacheIsTable
  BY DEF IInv
<1>2. CacheIsTable' /\ fde_info' \in [cached : SUBSET Index, pc : [Index -> Nat]]
  BY <1>1, CacheInv
<1>3. UNCHANGED <<table, relative, unreadable, ends>>
  BY DEF section
<1>4. TypeOK'
  BY <1>1, <1>2, <1>3 DEF TypeOK
<1> QED
  BY <1>2, <1>3, <1>4 DEF Sorted, TruePc

\* An entry that begins at the pc ends the search.
LEMMA ProbeFoundInv == ASSUME IInv, ProbeFound PROVE IInv'
<1>1. TypeOK /\ CacheIsTable
  BY DEF IInv
<1>2. phase = "search" /\ first < last /\ pc = InfoPc(Current) /\ Cache(Current) /\ at' = Current
      /\ phase' = "found" /\ pc' = pc /\ first' = first /\ last' = last /\ UNCHANGED section
  BY DEF ProbeFound
<1>3. Current \in Index
  BY <1>1, <1>2, CurrentInRange
<1>4. Current \in 0..Count /\ first' \in 0..Count /\ last' \in 0..Count
  BY <1>1, <1>2, <1>3, CountAssumption DEF TypeOK, Index
<1>5. TypeOK' /\ CacheIsTable' /\ (Sorted' <=> Sorted) /\ \A j : TruePc(j)' = TruePc(j)
  BY <1>2, <1>3, <1>4, CachingStep
<1>6. TruePc(Current) = pc
  BY <1>1, <1>2, <1>3, InfoIsTrue
<1>7. pc \in Nat
  BY <1>1 DEF TypeOK
<1>8. SearchFindsGreatest'
  BY <1>2, <1>3, <1>5, <1>6, <1>7 DEF SearchFindsGreatest
<1> QED
  BY <1>2, <1>5, <1>8 DEF IInv, RangeInv, ReturnedFdeCovers

\* An entry above the pc: the search goes on below it.
LEMMA ProbeLowerInv == ASSUME IInv, ProbeLower PROVE IInv'
<1>1. TypeOK /\ CacheIsTable
  BY DEF IInv
<1>2. phase = "search" /\ first < last /\ pc < InfoPc(Current) /\ Cache(Current) /\ last' = Current
      /\ phase' = phase /\ pc' = pc /\ first' = first /\ at' = at /\ UNCHANGED section
  BY DEF ProbeLower
<1>3. Current \in Index /\ first <= Current
  BY <1>1, <1>2, CurrentInRange
<1>4. last' \in 0..Count /\ first' \in 0..Count /\ at' \in 0..Count
  BY <1>1, <1>2, <1>3, CountAssumption DEF TypeOK, Index
<1>5. TypeOK' /\ CacheIsTable' /\ (Sorted' <=> Sorted) /\ \A j : TruePc(j)' = TruePc(j)
  BY <1>2, <1>3, <1>4, CachingStep
<1>6. pc \in Nat /\ pc < TruePc(Current)
  BY <1>1, <1>2, <1>3, InfoIsTrue DEF TypeOK
<1>7. ASSUME Sorted, NEW i \in Index, i >= Current PROVE TruePc(i) > pc
  <2>1. TruePc(Current) <= TruePc(i)
    BY <1>1, <1>3, <1>7, TruePcSorted DEF Index
  <2> QED
    BY <2>1, <1>1, <1>3, <1>6, TruePcNat
<1>8. RangeInv'
  BY <1>2, <1>3, <1>5, <1>7 DEF IInv, RangeInv
<1> QED
  BY <1>2, <1>5, <1>8 DEF IInv, SearchFindsGreatest, ReturnedFdeCovers

\* An entry below the pc: the search goes on above it.
LEMMA ProbeHigherInv == ASSUME IInv, ProbeHigher PROVE IInv'
<1>1. TypeOK /\ CacheIsTable
  BY DEF IInv
<1>2. phase = "search" /\ first < last /\ pc > InfoPc(Current) /\ Cache(Current) /\ first' = Current + 1
      /\ phase' = phase /\ pc' = pc /\ last' = last /\ at' = at /\ UNCHANGED section
  BY DEF ProbeHigher
<1>3. Current \in Index /\ Current < last
  BY <1>1, <1>2, CurrentInRange
<1>4. last' \in 0..Count /\ first' \in 0..Count /\ at' \in 0..Count /\ first' <= last'
  BY <1>1, <1>2, <1>3, CountAssumption DEF TypeOK, Index
<1>5. TypeOK' /\ CacheIsTable' /\ (Sorted' <=> Sorted) /\ \A j : TruePc(j)' = TruePc(j)
  BY <1>2, <1>3, <1>4, CachingStep
<1>6. pc \in Nat /\ pc > TruePc(Current)
  BY <1>1, <1>2, <1>3, InfoIsTrue DEF TypeOK
<1>7. ASSUME Sorted, NEW i \in Index, i < Current + 1 PROVE TruePc(i) <= pc
  <2>1. TruePc(i) <= TruePc(Current)
    BY <1>1, <1>3, <1>7, TruePcSorted DEF Index
  <2> QED
    BY <2>1, <1>1, <1>3, <1>6, TruePcNat
<1>8. RangeInv'
  BY <1>2, <1>4, <1>5, <1>7 DEF IInv, RangeInv
<1> QED
  BY <1>2, <1>5, <1>8 DEF IInv, SearchFindsGreatest, ReturnedFdeCovers

\* The range is empty: the entry before it is taken.
LEMMA SearchEndsInv == ASSUME IInv, SearchEnds PROVE IInv'
<1>1. TypeOK /\ CacheIsTable
  BY DEF IInv
<1>2. phase = "search" /\ first >= last /\ last # 0 /\ Cache(last - 1) /\ at' = last - 1
      /\ phase' = "found" /\ pc' = pc /\ first' = first /\ last' = last /\ UNCHANGED section
  BY DEF SearchEnds
<1>3. first = last /\ last - 1 \in Index /\ first \in 0..Count /\ last \in 0..Count /\ last - 1 \in 0..Count
  BY <1>1, <1>2, CountAssumption DEF IInv, RangeInv, TypeOK, Index
<1>4. TypeOK' /\ CacheIsTable' /\ (Sorted' <=> Sorted) /\ \A j : TruePc(j)' = TruePc(j)
  BY <1>2, <1>3, CachingStep
<1>5. ASSUME Sorted
      PROVE  TruePc(last - 1) <= pc /\ \A i \in Index : TruePc(i) <= pc => TruePc(i) <= TruePc(last - 1)
  <2>1. TruePc(last - 1) <= pc
    BY <1>2, <1>3, <1>5 DEF IInv, RangeInv
  <2>2. ASSUME NEW i \in Index, TruePc(i) <= pc PROVE TruePc(i) <= TruePc(last - 1)
    <3>1. TruePc(i) \in Nat /\ pc \in Nat
      BY <1>1, TruePcNat DEF TypeOK
    <3>2. ~(i >= last)
      BY <1>2, <1>5, <2>2, <3>1 DEF IInv, RangeInv
    <3>3. i <= last - 1
      BY <1>3, <3>2, CountAssumption DEF Index
    <3> QED
      BY <1>1, <1>3, <1>5, <3>3, TruePcSorted
  <2> QED
    BY <2>1, <2>2
<1>6. SearchFindsGreatest'
  BY <1>2, <1>3, <1>4, <1>5 DEF SearchFindsGreatest
<1> QED
  BY <1>2, <1>4, <1>6 DEF IInv, RangeInv, ReturnedFdeCovers

\* The range is empty and nothing is before it.
LEMMA SearchNoneInv == ASSUME IInv, SearchNone PROVE IInv'
<1>1. phase = "search" /\ first >= last /\ last = 0 /\ phase' = "none"
      /\ UNCHANGED <<table, relative, unreadable, ends, fde_info, pc, first, last, at>>
  BY DEF SearchNone, section
<1>2. TypeOK'
  BY <1>1 DEF IInv, TypeOK
<1>3. CacheIsTable'
  BY <1>1 DEF IInv, CacheIsTable, TruePc
<1>4. Sorted => \A i \in Index : TruePc(i) > pc
  BY <1>1, CountAssumption DEF IInv, RangeInv, Index
<1>5. SearchFindsGreatest'
  BY <1>1, <1>4 DEF SearchFindsGreatest, Sorted, TruePc
<1> QED
  BY <1>1, <1>2, <1>3, <1>5 DEF IInv, RangeInv, ReturnedFdeCovers

\* The FDE of the entry found is read and its range is compared.
LEMMA ReadFdeInv == ASSUME IInv, ReadFde PROVE IInv'
<1>1. phase = "found" /\ UNCHANGED <<table, relative, unreadable, ends, fde_info, pc, first, last, at>>
      /\ phase' \in {"failed", "fde"} /\ (phase' = "fde" => pc < ends[at])
  BY DEF ReadFde, section
<1>2. TypeOK'
  BY <1>1 DEF IInv, TypeOK
<1>3. CacheIsTable'
  BY <1>1 DEF IInv, CacheIsTable, TruePc
<1>4. Sorted => at \in Index /\ TruePc(at) <= pc
  BY <1>1 DEF IInv, SearchFindsGreatest
<1>5. ReturnedFdeCovers'
  BY <1>1, <1>4 DEF ReturnedFdeCovers, Sorted, TruePc
<1> QED
  BY <1>1, <1>2, <1>3, <1>5 DEF IInv, RangeInv, SearchFindsGreatest

\* A lookup begins with the whole table.
LEMMA GetFdeFromPcInv == ASSUME IInv, NEW p \in Pcs, GetFdeFromPc(p) PROVE IInv'
<1>1. phase' = "search" /\ pc' = p /\ first' = 0 /\ last' = Count /\ at' = Count
      /\ UNCHANGED <<table, relative, unreadable, ends, fde_info>>
  BY DEF GetFdeFromPc, section
<1>2. TypeOK'
  BY <1>1, CountAssumption, PcsAssumption DEF IInv, TypeOK
<1>3. CacheIsTable'
  BY <1>1 DEF IInv, CacheIsTable, TruePc
<1>4. RangeInv'
  BY <1>1, CountAssumption DEF RangeInv, Index
<1> QED
  BY <1>1, <1>2, <1>3, <1>4 DEF IInv, SearchFindsGreatest, ReturnedFdeCovers

\* GetFdes reads all entries, with the same cache.
LEMMA GetFdesInv == ASSUME IInv, GetFdes PROVE IInv'
<1> DEFINE stop == {i \in Index : ~Readable(i) \/ ends[i] = 0}
           probed == {i \in Index : Readable(i) /\ \A j \in stop : i <= j}
<1>1. /\ phase = "ready" /\ UNCHANGED <<table, relative, unreadable, ends, phase, pc, first, last, at>>
      /\ fde_info' = [cached |-> fde_info.cached \cup probed,
                      pc |-> [i \in Index |-> IF i \in probed THEN InfoPc(i) ELSE fde_info.pc[i]]]
  BY DEF GetFdes, section
<1>2. fde_info \in [cached : SUBSET Index, pc : [Index -> Nat]] /\ TypeOK /\ CacheIsTable
  BY DEF IInv, TypeOK
<1>3. \A i \in Index : InfoPc(i) = TruePc(i) /\ TruePc(i) \in Nat
  BY <1>2, InfoIsTrue, TruePcNat
<1>4. probed \subseteq Index
  OBVIOUS
<1> HIDE DEF probed
<1>5. fde_info'.cached = fde_info.cached \cup probed
      /\ fde_info'.pc = [i \in Index |-> IF i \in probed THEN InfoPc(i) ELSE fde_info.pc[i]]
  BY <1>1
<1>6. fde_info' \in [cached : SUBSET Index, pc : [Index -> Nat]]
  BY <1>1, <1>2, <1>3, <1>4
<1>7. TypeOK'
  BY <1>1, <1>2, <1>6 DEF TypeOK
<1>8. CacheIsTable'
  <2>1. \A i \in Index : i \in probed => fde_info'.pc[i] = TruePc(i)
    BY <1>3, <1>5
  <2>2. \A i \in Index : i \notin probed => fde_info'.pc[i] = fde_info.pc[i]
    BY <1>5
  <2>3. \A i \in fde_info.cached : i \in Index /\ fde_info.pc[i] = TruePc(i)
    BY <1>2 DEF CacheIsTable
  <2>4. \A i : TruePc(i)' = TruePc(i)
    BY <1>1 DEF TruePc
  <2> QED
    BY <1>4, <1>5, <2>1, <2>2, <2>3, <2>4 DEF CacheIsTable
<1> QED
  BY <1>1, <1>7, <1>8 DEF IInv, RangeInv, SearchFindsGreatest, ReturnedFdeCovers

\* Every step keeps IInv.
LEMMA NextInv == ASSUME IInv, [Next]_vars PROVE IInv'
<1>0. unreadable \subseteq Index
  BY DEF IInv, TypeOK
<1>1. CASE \E h \in Headers : Open(h)
  BY <1>0, <1>1, QuietStep DEF Open, section
<1>2. CASE \E p \in Pcs : GetFdeFromPc(p)
  BY <1>2, GetFdeFromPcInv
<1>3. CASE ProbeFails
  BY <1>0, <1>3, QuietStep DEF ProbeFails, Unreadable, section
<1>4. CASE SearchFails
  BY <1>0, <1>4, QuietStep DEF SearchFails, Unreadable, section
<1>5. CASE Return
  BY <1>5, QuietStep DEF Return
<1>6. CASE UNCHANGED vars
  BY <1>6 DEF vars, IInv, TypeOK, CacheIsTable, RangeInv, SearchFindsGreatest, ReturnedFdeCovers,
     Sorted, TruePc
<1> QED
  BY <1>1, <1>2, <1>3, <1>4, <1>5, <1>6, ProbeFoundInv, ProbeLowerInv, ProbeHigherInv, SearchNoneInv,
     SearchEndsInv, ReadFdeInv, GetFdesInv DEF Next, SearchStep

\* For a table of any size, DwarfEhFrameWithHdr finds in a sorted table the
\* entry with the greatest first pc not above the pc, and returns an FDE only
\* if it covers the pc, whatever earlier lookups have cached.
THEOREM SearchCorrect == Spec => [](SearchFindsGreatest /\ ReturnedFdeCovers /\ CacheIsTable)
<1>1. IInv => SearchFindsGreatest /\ ReturnedFdeCovers /\ CacheIsTable
  BY DEF IInv
<1> QED
  BY <1>1, InitInv, NextInv, PTL DEF Spec

\* Every iteration of the search that goes on leaves a smaller range, so
\* there are at most as many iterations as the table has entries.
THEOREM SearchShrinksAlways == Spec => SearchShrinks
<1>1. ASSUME IInv, [Next]_vars, phase = "search", phase' = "search", vars' # vars
      PROVE  last' - first' < last - first
  <2>1. TypeOK
    BY <1>1 DEF IInv
  <2>2. ProbeLower \/ ProbeHigher
    BY <1>1 DEF Next, SearchStep, Open, GetFdeFromPc, ProbeFails, ProbeFound, SearchNone, SearchFails,
       SearchEnds, Unreadable, ReadFde, GetFdes, Return
  <2>3. first < last
    BY <2>2 DEF ProbeLower, ProbeHigher
  <2>4. Current \in Index /\ first <= Current /\ Current < last
    BY <2>1, <2>3, CurrentInRange
  <2>5. first \in Int /\ last \in Int /\ Current \in Int
    BY <2>1, <2>4, CountAssumption DEF TypeOK, Index
  <2>6. CASE ProbeLower
    BY <2>4, <2>5, <2>6 DEF ProbeLower
  <2>7. CASE ProbeHigher
    BY <2>4, <2>5, <2>7 DEF ProbeHigher
  <2> QED
    BY <2>2, <2>6, <2>7
<1>2. ASSUME IInv, [Next]_vars
      PROVE  [phase = "search" /\ phase' = "search" => last' - first' < last - first]_vars
  BY <1>1, <1>2
<1> QED
  BY <1>2, InitInv, NextInv, PTL DEF Spec, SearchShrinks

-----------------------------------------------------------------------------
(***************************************************************************)
(* Least elements of, and induction over, the natural numbers              *)
(***************************************************************************)
Less == {ss \in Nat \X Nat : ss[1] < ss[2]}

\* < is well founded on the naturals.
LEMMA LessWellFounded == IsWellFoundedOn(Less, Nat)
  BY NatLessThanWellFounded, Zenon DEF OpToRel, Less

\* Min of a set of natural numbers that is not empty
LEMMA MinIs ==
  ASSUME NEW T \in SUBSET Nat, T # {}
  PROVE  Ix!Min(T) \in T /\ \A y \in T : Ix!Min(T) <= y
<1>1. PICK x \in T : \A y \in T : ~(<<y, x>> \in Less)
  BY LessWellFounded, WFMin, Zenon
<1>2. ASSUME NEW y \in T PROVE x <= y
  <2>1. <<y, x>> \in Nat \X Nat
    OBVIOUS
  <2> QED
    BY <1>1, <2>1 DEF Less
<1>3. \E z \in T : \A y \in T : z <= y
  BY <1>2
<1> QED
  BY <1>3, Zenon DEF Ix!Min

\* A number of the set that is not above any other one is its Min.
LEMMA MinUnique ==
  ASSUME NEW T \in SUBSET Nat, NEW x \in T, \A y \in T : x <= y
  PROVE  Ix!Min(T) = x
<1>1. Ix!Min(T) \in T /\ Ix!Min(T) <= x
  BY MinIs
<1>2. x <= Ix!Min(T) /\ Ix!Min(T) \in Nat /\ x \in Nat
  BY <1>1, Zenon
<1> DEFINE y == Ix!Min(T)
<1> HIDE DEF y
<1>3. y = x
  BY <1>1, <1>2 DEF y
<1> QED
  BY <1>3 DEF y

\* A set that has 0 and with a number the next one has all of them.
LEMMA Induct ==
  ASSUME NEW S, 0 \in S, \A n \in Nat : n \in S => n + 1 \in S
  PROVE  \A n \in Nat : n \in S
<1>1. SUFFICES ASSUME NEW n \in Nat, n \notin S PROVE FALSE
  OBVIOUS
<1> DEFINE T == {m \in Nat : m \notin S}
<1>2. Ix!Min(T) \in T /\ \A y \in T : Ix!Min(T) <= y
  BY <1>1, MinIs
<1> HIDE DEF T
<1> DEFINE x == Ix!Min(T)
<1>3. x \in Nat /\ x \notin S /\ \A y \in Nat : y \notin S => x <= y
  BY <1>2 DEF T
<1> HIDE DEF x
<1>4. x # 0 /\ x - 1 \in Nat
  BY <1>3
<1> QED
  BY <1>3, <1>4

\* Max of a set of natural numbers that is not empty and has a bound
LEMMA MaxIs ==
  ASSUME NEW T \in SUBSET Nat, T # {}, NEW b \in Nat, \A y \in T : y <= b
  PROVE  Ix!Max(T) \in T /\ \A y \in T : y <= Ix!Max(T)
<1> DEFINE U == {b - y : y \in T}
<1>1. U \in SUBSET Nat /\ U # {}
  <2>1. ASSUME NEW u \in U PROVE u \in Nat
    BY <2>1
  <2>2. PICK y : y \in T
    OBVIOUS
  <2>3. b - y \in U
    BY <2>2
  <2> QED
    BY <2>1, <2>3
<1>2. Ix!Min(U) \in U /\ \A u \in U : Ix!Min(U) <= u
  BY <1>1, MinIs, Zenon
<1>3. PICK x \in T : Ix!Min(U) = b - x
  BY <1>2, Zenon
<1>4. ASSUME NEW y \in T PROVE y <= x
  <2>1. b - y \in U
    OBVIOUS
  <2>2. b - x <= b - y
    BY <1>2, <1>3, <2>1, Zenon
  <2> HIDE DEF U
  <2> QED
    BY <2>2
<1>5. \E z \in T : \A y \in T : z >= y
  BY <1>4
<1>6. Ix!Max(T) \in T /\ \A y \in T : Ix!Max(T) >= y
  BY <1>5, Zenon DEF Ix!Max
<1> DEFINE m == Ix!Max(T)
<1>7. m \in T /\ \A y \in T : m >= y
  BY <1>6
<1> HIDE DEF m
<1>8. \A y \in T : y <= m
  BY <1>7
<1> QED
  BY <1>7, <1>8 DEF m

(***************************************************************************)
(* InsertFde, for FDEs in any order: an entry of the index is a part of    *)
(* the pcs of its FDE                                                      *)
(***************************************************************************)
Entries == [kind : {"cie", "fde", "bad", "short"}, lo : Nat, hi : Nat, overrun : BOOLEAN]
Part(map, k) ==
  LET e == map[k]
  IN  e.start \in Nat /\ e.fde \in 1..Ix!Size /\ Ix!IsFde(e.fde) /\ ix_section[e.fde].lo <= e.start /\ k <= ix_section[e.fde].hi
Sound(map) ==
  /\ DOMAIN map \subseteq Nat /\ (\E b \in Nat : \A k \in DOMAIN map : k <= b)
  /\ \A k \in DOMAIN map : Part(map, k)
\* The FDE i is being inserted, and is there from lo to s.start.
Walking(s, keys, i) ==
  /\ s = Ix!Walked(s.fdes, s.start, s.add, s.done) /\ s.add \in BOOLEAN /\ s.done \in BOOLEAN
  /\ s.start \in Nat /\ ix_section[i].lo <= s.start
  /\ Sound(s.fdes) /\ keys \subseteq DOMAIN s.fdes

\* What an entry of the section has
LEMMA EntryTypes ==
  ASSUME ix_section \in Seq(Entries), NEW i \in 1..Ix!Size
  PROVE  /\ ix_section[i].lo \in Nat /\ ix_section[i].hi \in Nat /\ ix_section[i].overrun \in BOOLEAN
         /\ ix_section[i].kind \in {"cie", "fde", "bad", "short"}
<1>1. ix_section[i] \in Entries
  BY DEF Ix!Size
<1> QED
  BY <1>1 DEF Entries

\* The fields of a walk
LEMMA WalkedFields ==
  ASSUME NEW map, NEW start, NEW add, NEW done, NEW s, s = Ix!Walked(map, start, add, done)
  PROVE  s.fdes = map /\ s.start = start /\ s.add = add /\ s.done = done
  BY DEF Ix!Walked

\* A part of the FDE may be inserted anywhere.
LEMMA InsertSound ==
  ASSUME NEW map, Sound(map), NEW i \in 1..Ix!Size, Ix!IsFde(i), ix_section \in Seq(Entries),
         NEW start \in Nat, ix_section[i].lo <= start, NEW e \in Nat, e <= ix_section[i].hi
  PROVE  Sound(Ix!Insert(map, e, start, i)) /\ DOMAIN Ix!Insert(map, e, start, i) = DOMAIN map \cup {e}
<1> DEFINE m == Ix!Insert(map, e, start, i)
<1>1. DOMAIN m = DOMAIN map \cup {e} /\ m[e] = Ix!Entry(start, i) /\ \A k \in DOMAIN map : k # e => m[k] = map[k]
  BY DEF Ix!Insert
<1> HIDE DEF m
<1>2. m[e].start = start /\ m[e].fde = i
  BY <1>1 DEF Ix!Entry
<1>3. \A k \in DOMAIN m : Part(m, k)
  <2>1. SUFFICES ASSUME NEW k \in DOMAIN m PROVE Part(m, k)
    OBVIOUS
  <2>2. CASE k = e
    BY <1>2, <2>2 DEF Part
  <2>3. CASE k # e
    <3>1. k \in DOMAIN map /\ m[k] = map[k] /\ Part(map, k)
      BY <1>1, <2>1, <2>3 DEF Sound
    <3> QED
      BY <3>1 DEF Part
  <2> QED
    BY <2>2, <2>3
<1>4. PICK b \in Nat : \A k \in DOMAIN map : k <= b
  BY DEF Sound
<1>5. \A k \in DOMAIN m : k <= b + e
  BY <1>1, <1>4 DEF Sound
<1>6. b + e \in Nat /\ DOMAIN m \subseteq Nat
  BY <1>1, <1>4 DEF Sound
<1> QED
  BY <1>1, <1>3, <1>5, <1>6 DEF Sound, m

\* A walk stays one with another index that is sound.
LEMMA WalkingNext ==
  ASSUME NEW s, NEW keys, NEW i, Walking(s, keys, i), NEW map, Sound(map), keys \subseteq DOMAIN map,
         NEW start \in Nat, ix_section[i].lo <= start, NEW add \in BOOLEAN, NEW done \in BOOLEAN
  PROVE  Walking(Ix!Walked(map, start, add, done), keys, i)
<1> DEFINE t == Ix!Walked(map, start, add, done)
<1>1. t.fdes = map /\ t.start = start /\ t.add = add /\ t.done = done
  BY WalkedFields
<1>2. t = Ix!Walked(t.fdes, t.start, t.add, t.done)
  BY <1>1
<1> HIDE DEF t
<1>3. Walking(t, keys, i)
  BY <1>1, <1>2 DEF Walking
<1> QED
  BY <1>3 DEF t

\* Before an entry k of the index the walk adds only parts of the FDE.
LEMMA GapKeeps ==
  ASSUME NEW s, NEW keys, NEW i \in 1..Ix!Size, Ix!IsFde(i), ix_section \in Seq(Entries), Walking(s, keys, i), NEW k \in keys
  PROVE  Walking(Ix!Gap(s, k, ix_section[i].hi, i), keys, i)
<1> DEFINE end == ix_section[i].hi
           from == s.fdes[k].start
<1>1. end \in Nat /\ from \in Nat /\ s.start \in Nat /\ ix_section[i].lo <= s.start /\ Sound(s.fdes)
      /\ keys \subseteq DOMAIN s.fdes
  BY EntryTypes DEF Walking, Sound, Part
<1>2. ASSUME NEW e \in Nat, e <= end PROVE Sound(Ix!Put(s, e, i)) /\ keys \subseteq DOMAIN Ix!Put(s, e, i)
  <2> DEFINE map == s.fdes  start == s.start
  <2>1. Sound(map) /\ start \in Nat /\ ix_section[i].lo <= start /\ keys \subseteq DOMAIN map
    BY <1>1
  <2> HIDE DEF map, start
  <2>2. Sound(Ix!Insert(map, e, start, i))
    BY <1>2, <2>1, InsertSound, Zenon
  <2>3. DOMAIN Ix!Insert(map, e, start, i) = DOMAIN map \cup {e}
    BY DEF Ix!Insert
  <2> QED
    BY <2>1, <2>2, <2>3 DEF Ix!Put, map, start
<1>3. CASE ~s.add
  BY <1>3 DEF Ix!Gap
<1>4. CASE s.add /\ end < from
  <2> DEFINE map == IF k # end THEN Ix!Put(s, end, i) ELSE s.fdes
  <2>1. Ix!Gap(s, k, end, i) = Ix!Walked(map, s.start, FALSE, TRUE)
    BY <1>4, Zenon DEF Ix!Gap
  <2>2. Sound(map) /\ keys \subseteq DOMAIN map
    BY <1>1, <1>2
  <2> HIDE DEF map
  <2> QED
    BY <1>1, <2>1, <2>2, WalkingNext, Zenon
<1>5. CASE s.add /\ ~(end < from)
  <2> DEFINE map == IF s.start # from THEN Ix!Put(s, from, i) ELSE s.fdes
  <2>1. Ix!Gap(s, k, end, i) = Ix!Walked(map, s.start, FALSE, FALSE)
    BY <1>5, Zenon DEF Ix!Gap
  <2>2. from <= end
    BY <1>1, <1>5
  <2>3. Sound(map) /\ keys \subseteq DOMAIN map
    BY <1>1, <1>2, <2>2
  <2> HIDE DEF map
  <2> QED
    BY <1>1, <2>1, <2>3, WalkingNext, Zenon
<1> QED
  BY <1>3, <1>4, <1>5

\* At an entry k of the index too.
LEMMA OverlapKeeps ==
  ASSUME NEW s, NEW keys, NEW i \in 1..Ix!Size, Ix!IsFde(i), ix_section \in Seq(Entries), Walking(s, keys, i), NEW k \in keys
  PROVE  Walking(Ix!Overlap(s, k, ix_section[i].hi, i), keys, i)
<1> DEFINE end == ix_section[i].hi
<1>1. end \in Nat /\ s.start \in Nat /\ ix_section[i].lo <= s.start /\ Sound(s.fdes) /\ keys \subseteq DOMAIN s.fdes
      /\ s.add \in BOOLEAN
  BY EntryTypes DEF Walking
<1>2. Sound(Ix!Put(s, end, i)) /\ keys \subseteq DOMAIN Ix!Put(s, end, i)
  <2> DEFINE map == s.fdes  start == s.start
  <2>1. Sound(map) /\ start \in Nat /\ ix_section[i].lo <= start /\ keys \subseteq DOMAIN map /\ end <= ix_section[i].hi
    BY <1>1
  <2> HIDE DEF map, start, end
  <2>2. Sound(Ix!Insert(map, end, start, i))
    BY <1>1, <2>1, InsertSound, Zenon
  <2>3. DOMAIN Ix!Insert(map, end, start, i) = DOMAIN map \cup {end}
    BY DEF Ix!Insert
  <2> QED
    BY <2>1, <2>2, <2>3 DEF Ix!Put, map, start
<1>3. CASE s.done \/ s.start >= k
  BY <1>3, Zenon DEF Ix!Overlap
<1>4. CASE ~(s.done \/ s.start >= k) /\ end < s.fdes[k].start
  <2> DEFINE map == IF k # end THEN Ix!Put(s, end, i) ELSE s.fdes
  <2>1. Ix!Overlap(s, k, end, i) = Ix!Walked(map, s.start, s.add, TRUE)
    BY <1>4, Zenon DEF Ix!Overlap
  <2>2. Sound(map) /\ keys \subseteq DOMAIN map
    BY <1>1, <1>2
  <2> HIDE DEF map
  <2> QED
    BY <1>1, <2>1, <2>2, WalkingNext, Zenon
<1>5. CASE ~(s.done \/ s.start >= k) /\ ~(end < s.fdes[k].start)
  <2>1. Ix!Overlap(s, k, end, i) = Ix!Walked(s.fdes, s.start, TRUE, FALSE)
    BY <1>5, Zenon DEF Ix!Overlap
  <2> QED
    BY <1>1, <2>1, WalkingNext, Zenon
<1> QED
  BY <1>3, <1>4, <1>5

\* A turn of the loop of InsertFde
LEMMA WalkKeeps ==
  ASSUME NEW s, NEW i \in 1..Ix!Size, Ix!IsFde(i), ix_section \in Seq(Entries), NEW map,
         Walking(s, DOMAIN map, i), DOMAIN map \subseteq Nat, NEW k \in Ix!Above(map, ix_section[i].lo)
  PROVE  Walking(Ix!Walk(s, k, ix_section[i].hi, i), DOMAIN map, i)
<1> DEFINE end == ix_section[i].hi
           t == Ix!Overlap(Ix!Gap(s, k, end, i), k, end, i)
<1>0. k \in DOMAIN map /\ k \in Nat /\ ix_section[i].lo \in Nat /\ ix_section[i].lo <= k
  BY EntryTypes DEF Ix!Above
<1>1. Walking(t, DOMAIN map, i)
  BY <1>0, GapKeeps, OverlapKeeps
<1> HIDE DEF t
<1>2. Sound(t.fdes) /\ DOMAIN map \subseteq DOMAIN t.fdes /\ t.add \in BOOLEAN
  BY <1>1 DEF Walking
<1>3. Walking(Ix!Walked(t.fdes, k, t.add, FALSE), DOMAIN map, i)
  BY <1>0, <1>1, <1>2, WalkingNext, Zenon
<1>4. \/ Ix!Walk(s, k, end, i) = s
      \/ Ix!Walk(s, k, end, i) = t
      \/ Ix!Walk(s, k, end, i) = Ix!Walked(t.fdes, k, t.add, FALSE)
  BY Zenon DEF Ix!Walk, t
<1> QED
  BY <1>1, <1>3, <1>4, Zenon

\* The turns of the loop of InsertFde, as a function of the end of an entry
Begin(map, i) == Ix!Walked(map, ix_section[i].lo, FALSE, FALSE)
Turn(s, k, map, i) == IF k \in Ix!Above(map, ix_section[i].lo) THEN Ix!Walk(s, k, ix_section[i].hi, i) ELSE s
Walks(h, map, i, n) == h = [k \in 0 .. n |-> IF k = 0 THEN Begin(map, i) ELSE Turn(h[k - 1], k, map, i)]

\* One turn more
LEMMA WalksNext ==
  ASSUME NEW map, NEW i, NEW n \in Nat, NEW h, Walks(h, map, i, n)
  PROVE  \E g : Walks(g, map, i, n + 1)
<1> DEFINE g == [k \in 0 .. n + 1 |-> IF k = n + 1 THEN Turn(h[n], n + 1, map, i) ELSE h[k]]
<1>1. ASSUME NEW k \in 0 .. n + 1
      PROVE  g[k] = IF k = 0 THEN Begin(map, i) ELSE Turn(g[k - 1], k, map, i)
  <2>1. CASE k = n + 1
    BY <2>1
  <2>2. CASE k # n + 1
    <3>1. k \in 0 .. n /\ g[k] = h[k]
      BY <2>2
    <3>2. h[k] = IF k = 0 THEN Begin(map, i) ELSE Turn(h[k - 1], k, map, i)
      BY <3>1 DEF Walks
    <3>3. k # 0 => g[k - 1] = h[k - 1]
      BY <3>1
    <3> QED
      BY <3>1, <3>2, <3>3
  <2> QED
    BY <2>1, <2>2
<1>2. g = [k \in 0 .. n + 1 |-> g[k]]
  OBVIOUS
<1> HIDE DEF g
<1>3. g = [k \in 0 .. n + 1 |-> IF k = 0 THEN Begin(map, i) ELSE Turn(g[k - 1], k, map, i)]
  BY <1>1, <1>2, Zenon
<1> QED
  BY <1>3, Zenon DEF Walks

\* InsertFde is the end of such a function.
Inserted(s, i) == IF ~s.done /\ s.start < ix_section[i].hi THEN Ix!Put(s, ix_section[i].hi, i) ELSE s.fdes
LEMMA InsertUnfolds ==
  ASSUME NEW map, NEW i, Ix!Max(DOMAIN map \cup {0}) \in Nat
  PROVE  \E h : LET n == Ix!Max(DOMAIN map \cup {0}) IN
           /\ \A k \in 0 .. n : h[k] = IF k = 0 THEN Begin(map, i) ELSE Turn(h[k - 1], k, map, i)
           /\ Ix!InsertFde(map, i) = Inserted(h[n], i)
<1> DEFINE n == Ix!Max(DOMAIN map \cup {0})
           S == {m \in Nat : \E h : Walks(h, map, i, m)}
<1>1. 0 \in S
  <2> DEFINE g == [k \in 0 .. 0 |-> Begin(map, i)]
  <2>1. g = [k \in 0 .. 0 |-> IF k = 0 THEN Begin(map, i) ELSE Turn(g[k - 1], k, map, i)]
    OBVIOUS
  <2> HIDE DEF g
  <2>2. Walks(g, map, i, 0)
    BY <2>1, Zenon DEF Walks
  <2> QED
    BY <2>2
<1>2. \A m \in Nat : m \in S => m + 1 \in S
  BY WalksNext
<1> HIDE DEF S
<1>3. n \in S
  BY <1>1, <1>2, Induct, Zenon
<1> DEFINE walk == CHOOSE h : h = [k \in 0 .. n |-> IF k = 0 THEN Begin(map, i) ELSE Turn(h[k - 1], k, map, i)]
<1>4. \E h : h = [k \in 0 .. n |-> IF k = 0 THEN Begin(map, i) ELSE Turn(h[k - 1], k, map, i)]
  <2>1. PICK h : Walks(h, map, i, n)
    BY <1>3, Zenon DEF S
  <2> QED
    BY <2>1, Zenon DEF Walks
<1>5. walk = [k \in 0 .. n |-> IF k = 0 THEN Begin(map, i) ELSE Turn(walk[k - 1], k, map, i)]
  BY <1>4, Zenon
<1>6. Ix!InsertFde(map, i) = Inserted(walk[n], i)
  BY Zenon DEF Ix!InsertFde, Inserted, Begin, Turn
<1> HIDE DEF walk
<1>7. \A k \in 0 .. n : walk[k] = IF k = 0 THEN Begin(map, i) ELSE Turn(walk[k - 1], k, map, i)
  BY <1>5, Zenon
<1> QED
  BY <1>6, <1>7, Zenon

\* The last end in the index
Top(map) == Ix!Max(DOMAIN map \cup {0})

\* It is not below any other one.
LEMMA TopIs ==
  ASSUME NEW map, Sound(map)
  PROVE  Top(map) \in Nat /\ Top(map) \in DOMAIN map \cup {0} /\ \A k \in DOMAIN map : k <= Top(map)
<1> DEFINE T == DOMAIN map \cup {0}
<1>1. PICK b \in Nat : \A k \in DOMAIN map : k <= b
  BY DEF Sound
<1>2. T \in SUBSET Nat /\ T # {} /\ \A y \in T : y <= b
  BY <1>1 DEF Sound
<1>3. Ix!Max(T) \in T /\ \A y \in T : y <= Ix!Max(T)
  BY <1>1, <1>2, MaxIs, Zenon
<1> QED
  BY <1>2, <1>3 DEF Top

\* The first turn
LEMMA BeginWalks ==
  ASSUME NEW map, Sound(map), NEW i \in 1..Ix!Size, ix_section \in Seq(Entries)
  PROVE  Walking(Begin(map, i), DOMAIN map, i)
<1> DEFINE s == Begin(map, i)
<1>1. s.fdes = map /\ s.start = ix_section[i].lo /\ s.add = FALSE /\ s.done = FALSE
  BY DEF Begin, Ix!Walked
<1>2. s = Ix!Walked(s.fdes, s.start, s.add, s.done)
  BY <1>1, Zenon DEF Begin
<1>3. ix_section[i].lo \in Nat
  BY EntryTypes
<1> HIDE DEF s
<1>4. ix_section[i].lo <= s.start
  BY <1>1, <1>3
<1>5. Walking(s, DOMAIN map, i)
  BY <1>1, <1>2, <1>3, <1>4, Zenon DEF Walking
<1> QED
  BY <1>5 DEF s

\* Every turn walks, and what InsertFde leaves is sound.
LEMMA InsertKeeps ==
  ASSUME NEW map, Sound(map), NEW i \in 1..Ix!Size, Ix!IsFde(i), ix_section \in Seq(Entries)
  PROVE  Sound(Ix!InsertFde(map, i))
<1> DEFINE n == Top(map)
<1>0. n \in Nat /\ DOMAIN map \subseteq Nat
  BY TopIs DEF Sound
<1>1. PICK h : /\ \A k \in 0 .. n : h[k] = IF k = 0 THEN Begin(map, i) ELSE Turn(h[k - 1], k, map, i)
               /\ Ix!InsertFde(map, i) = Inserted(h[n], i)
  BY <1>0, InsertUnfolds, Zenon DEF Top
<1> HIDE DEF n
<1> DEFINE S == {k \in Nat : k <= n => Walking(h[k], DOMAIN map, i)}
<1>2. 0 \in S
  BY <1>0, <1>1, BeginWalks
<1>3. ASSUME NEW k \in Nat, k \in S PROVE k + 1 \in S
  <2>1. CASE k + 1 <= n
    <3>1. h[k + 1] = Turn(h[k], k + 1, map, i) /\ Walking(h[k], DOMAIN map, i)
      BY <1>0, <1>1, <1>3, <2>1
    <3>2. Walking(Turn(h[k], k + 1, map, i), DOMAIN map, i)
      <4>1. CASE k + 1 \in Ix!Above(map, ix_section[i].lo)
        <5>1. Turn(h[k], k + 1, map, i) = Ix!Walk(h[k], k + 1, ix_section[i].hi, i)
          BY <4>1 DEF Turn
        <5> QED
          BY <1>0, <3>1, <4>1, <5>1, WalkKeeps, Zenon
      <4>2. CASE k + 1 \notin Ix!Above(map, ix_section[i].lo)
        BY <3>1, <4>2 DEF Turn
      <4> QED
        BY <4>1, <4>2
    <3> QED
      BY <3>1, <3>2
  <2>2. CASE ~(k + 1 <= n)
    BY <2>2
  <2> QED
    BY <2>1, <2>2
<1> HIDE DEF S
<1>4. n \in S
  BY <1>0, <1>2, <1>3, Induct, Zenon
<1>5. Walking(h[n], DOMAIN map, i)
  BY <1>0, <1>4 DEF S
<1> DEFINE s == h[n]
<1>6. Sound(s.fdes) /\ s.start \in Nat /\ ix_section[i].lo <= s.start
  BY <1>5 DEF Walking
<1> HIDE DEF s
<1>7. ix_section[i].hi \in Nat /\ ix_section[i].hi <= ix_section[i].hi
  BY EntryTypes
<1>8. Sound(Ix!Insert(s.fdes, ix_section[i].hi, s.start, i))
  BY <1>6, <1>7, InsertSound, Zenon
<1>9. Sound(Inserted(s, i))
  BY <1>6, <1>8, Zenon DEF Inserted, Ix!Put
<1> QED
  BY <1>1, <1>9, Zenon DEF s

(***************************************************************************)
(* InsertFde, for FDEs in the order of their first pc: above the first pc  *)
(* the entries follow one another without a gap, so that only a last one   *)
(* is added                                                                *)
(***************************************************************************)
Tight(map, low) ==
  /\ \A k \in DOMAIN map : map[k].start < k
  /\ \A j, k \in DOMAIN map : j < k => j <= map[k].start
  /\ \A k \in DOMAIN map : k > low => map[k].start <= low \/ map[k].start \in DOMAIN map
\* The entries from lo up to k have been passed.
Passed(s, k, map, i) ==
  /\ s.fdes = map /\ s.done = FALSE /\ s.start \in Nat
  /\ (s.start = ix_section[i].lo /\ s.add = FALSE) \/ (s.start \in Ix!Above(map, ix_section[i].lo) /\ s.start <= k)
  /\ (s.start >= ix_section[i].hi) \/ (\A j \in Ix!Above(map, ix_section[i].lo) : j <= k => j <= s.start)

\* A turn at the entry k, in an index without gaps: it is passed.
LEMMA PassKey ==
  ASSUME NEW map, Sound(map), NEW i \in 1..Ix!Size, ix_section \in Seq(Entries), NEW low \in Nat, Tight(map, low),
         low <= ix_section[i].lo, NEW k \in Nat, k + 1 \in Ix!Above(map, ix_section[i].lo), NEW s, Passed(s, k, map, i),
         s.start < ix_section[i].hi
  PROVE  \E add : Ix!Walk(s, k + 1, ix_section[i].hi, i) = Ix!Walked(map, k + 1, add, FALSE)
<1> DEFINE lo == ix_section[i].lo
           hi == ix_section[i].hi
           from == map[k + 1].start
           a == s.start
<1>0. lo \in Nat /\ hi \in Nat /\ lo < k + 1 /\ k + 1 \in DOMAIN map /\ DOMAIN map \subseteq Nat
  BY EntryTypes DEF Ix!Above, Sound
<1>1. from \in Nat /\ from < k + 1
  BY <1>0 DEF Sound, Part, Tight
<1>2. a \in Nat /\ a < hi /\ s.fdes = map /\ s.done = FALSE
  BY DEF Passed
<1>3. \A j \in DOMAIN map : j > lo /\ j <= k => j <= a
  BY <1>0, <1>2 DEF Passed, Ix!Above
<1>4. from <= lo \/ (from \in DOMAIN map /\ from > lo)
  BY <1>0, <1>1 DEF Tight
<1>5. (a = lo /\ s.add = FALSE) \/ (a \in DOMAIN map /\ a > lo /\ a <= k)
  BY DEF Passed, Ix!Above
<1>6. a < k + 1 /\ from <= a
  BY <1>0, <1>1, <1>2, <1>3, <1>4, <1>5
<1>7. s.add # FALSE => from = a
  <2>1. ASSUME s.add # FALSE PROVE from = a
    <3>1. a \in DOMAIN map /\ a > lo /\ a <= k
      BY <1>5, <2>1, Zenon
    <3>2. a <= from
      BY <1>0, <1>2, <3>1 DEF Tight
    <3> QED
      BY <1>1, <1>2, <1>6, <3>2
  <2> QED
    BY <2>1
<1> DEFINE g == Ix!Gap(s, k + 1, hi, i)
<1>8. g.fdes = map /\ g.start = a /\ g.done = FALSE
  <2>1. CASE ~s.add
    <3>1. g = s
      BY <2>1, Zenon DEF Ix!Gap
    <3> QED
      BY <1>2, <3>1
  <2>2. CASE s.add
    <3>0. from = a
      BY <1>7, <2>2, Zenon
    <3>1. from = a /\ ~(hi < from)
      BY <1>0, <1>1, <1>2, <3>0
    <3>2. g = Ix!Walked(map, a, FALSE, FALSE)
      BY <1>2, <2>2, <3>1, Zenon DEF Ix!Gap
    <3> HIDE DEF g
    <3> QED
      BY <3>2 DEF Ix!Walked
  <2> QED
    BY <2>1, <2>2, Zenon
<1> HIDE DEF g
<1> DEFINE t == Ix!Overlap(g, k + 1, hi, i)
<1>9. t = Ix!Walked(map, a, TRUE, FALSE)
  <2>1. ~(g.done \/ g.start >= k + 1) /\ ~(hi < g.fdes[k + 1].start)
    BY <1>0, <1>1, <1>2, <1>6, <1>8
  <2> QED
    BY <1>8, <2>1, Zenon DEF Ix!Overlap
<1> HIDE DEF t
<1>10. t.fdes = map /\ t.done = FALSE
  BY <1>9 DEF Ix!Walked
<1>11. ~(s.done \/ s.start >= hi) /\ ~t.done
  BY <1>0, <1>2, <1>10
<1>12. Ix!Walk(s, k + 1, hi, i) = Ix!Walked(t.fdes, k + 1, t.add, FALSE)
  BY <1>11, Zenon DEF Ix!Walk, t, g
<1> QED
  BY <1>10, <1>12, Zenon

\* Every turn passes the entry it is at.
LEMMA TurnPasses ==
  ASSUME NEW map, Sound(map), NEW i \in 1..Ix!Size, ix_section \in Seq(Entries), NEW low \in Nat, Tight(map, low),
         low <= ix_section[i].lo, NEW k \in Nat, NEW s, Passed(s, k, map, i)
  PROVE  Passed(Turn(s, k + 1, map, i), k + 1, map, i)
<1> DEFINE keys == Ix!Above(map, ix_section[i].lo)
           t == Turn(s, k + 1, map, i)
<1>0. ix_section[i].lo \in Nat /\ ix_section[i].hi \in Nat /\ keys \subseteq Nat /\ s.start \in Nat
  BY EntryTypes DEF Ix!Above, Sound, Passed
<1>1. CASE k + 1 \in keys /\ s.start < ix_section[i].hi
  <2>1. PICK add : Ix!Walk(s, k + 1, ix_section[i].hi, i) = Ix!Walked(map, k + 1, add, FALSE)
    BY <1>1, PassKey, Zenon
  <2>2. t = Ix!Walked(map, k + 1, add, FALSE)
    BY <1>1, <2>1, Zenon DEF Turn
  <2> HIDE DEF t
  <2>3. t.fdes = map /\ t.start = k + 1 /\ t.done = FALSE
    BY <2>2 DEF Ix!Walked
  <2>4. Passed(t, k + 1, map, i)
    BY <1>0, <1>1, <2>3 DEF Passed
  <2> QED
    BY <2>4 DEF t
<1>2. CASE ~(k + 1 \in keys /\ s.start < ix_section[i].hi)
  <2>1. t = s
    <3>1. s.start >= ix_section[i].hi => Ix!Walk(s, k + 1, ix_section[i].hi, i) = s
      BY DEF Ix!Walk
    <3> QED
      BY <1>0, <1>2, <3>1 DEF Turn
  <2>2. Passed(s, k + 1, map, i)
    BY <1>0, <1>2 DEF Passed
  <2> QED
    BY <2>1, <2>2
<1> QED
  BY <1>1, <1>2

\* So InsertFde adds what is above the last end in the index, if anything is.
Free(map, i) == IF Top(map) <= ix_section[i].lo THEN ix_section[i].lo ELSE Top(map)
LEMMA InsertAscending ==
  ASSUME NEW map, Sound(map), NEW i \in 1..Ix!Size, ix_section \in Seq(Entries), NEW low \in Nat, Tight(map, low),
         low <= ix_section[i].lo
  PROVE  Ix!InsertFde(map, i) = IF ix_section[i].hi <= Free(map, i) THEN map
                             ELSE Ix!Insert(map, ix_section[i].hi, Free(map, i), i)
<1> DEFINE n == Top(map)
<1>0. n \in Nat /\ DOMAIN map \subseteq Nat /\ n \in DOMAIN map \cup {0} /\ \A k \in DOMAIN map : k <= n
  BY TopIs DEF Sound
<1>1. PICK h : /\ \A k \in 0 .. n : h[k] = IF k = 0 THEN Begin(map, i) ELSE Turn(h[k - 1], k, map, i)
               /\ Ix!InsertFde(map, i) = Inserted(h[n], i)
  BY <1>0, InsertUnfolds, Zenon DEF Top
<1>2. ix_section[i].lo \in Nat /\ ix_section[i].hi \in Nat
  BY EntryTypes
<1> HIDE DEF n
<1> DEFINE S == {k \in Nat : k <= n => Passed(h[k], k, map, i)}
<1>3. 0 \in S
  <2> DEFINE s == h[0]
  <2>1. s = Begin(map, i)
    BY <1>0, <1>1
  <2> HIDE DEF s
  <2>2. s.fdes = map /\ s.start = ix_section[i].lo /\ s.add = FALSE /\ s.done = FALSE
    BY <2>1 DEF Begin, Ix!Walked
  <2>3. Passed(s, 0, map, i)
    BY <1>0, <1>2, <2>2 DEF Passed, Ix!Above
  <2> QED
    BY <2>3 DEF s
<1>4. ASSUME NEW k \in Nat, k \in S PROVE k + 1 \in S
  <2>1. CASE k + 1 <= n
    <3>1. h[k + 1] = Turn(h[k], k + 1, map, i) /\ Passed(h[k], k, map, i)
      BY <1>0, <1>1, <1>4, <2>1
    <3>2. Passed(Turn(h[k], k + 1, map, i), k + 1, map, i)
      BY <3>1, TurnPasses, Zenon
    <3> QED
      BY <3>1, <3>2
  <2>2. CASE ~(k + 1 <= n)
    BY <2>2
  <2> QED
    BY <2>1, <2>2
<1> HIDE DEF S
<1>5. n \in S
  BY <1>0, <1>3, <1>4, Induct, Zenon
<1> DEFINE s == h[n]
<1>6. Passed(s, n, map, i)
  BY <1>0, <1>5 DEF S
<1> HIDE DEF s
<1>7. s.start < ix_section[i].hi => s.start = Free(map, i)
  BY <1>0, <1>2, <1>6 DEF Passed, Ix!Above, Free, n
<1>8. s.start <= Free(map, i)
  BY <1>0, <1>2, <1>6 DEF Passed, Ix!Above, Free, n
<1>9. Inserted(s, i) = IF s.start < ix_section[i].hi THEN Ix!Insert(map, ix_section[i].hi, s.start, i) ELSE map
  BY <1>6 DEF Passed, Inserted, Ix!Put
<1>10. Free(map, i) \in Nat /\ s.start \in Nat
  BY <1>0, <1>2, <1>6 DEF Free, n, Passed
<1> QED
  <2>1. CASE s.start < ix_section[i].hi
    BY <1>1, <1>2, <1>7, <1>9, <1>10, <2>1 DEF s
  <2>2. CASE ~(s.start < ix_section[i].hi)
    BY <1>1, <1>2, <1>8, <1>9, <1>10, <2>2 DEF s
  <2> QED
    BY <2>1, <2>2

(***************************************************************************)
(* The index after n entries of a section whose FDEs are in the order of   *)
(* their first pc                                                          *)
(***************************************************************************)
InOrder == \A i, j \in 1..Ix!Size : i < j /\ Ix!IsFde(i) /\ Ix!IsFde(j) => ix_section[i].lo <= ix_section[j].lo
Holds(map, k, p) == map[k].start <= p /\ p < k
\* A later FDE starts where the index is without gaps.
Extends(map, n) == \E low \in Nat : Tight(map, low) /\ \A j \in 1..Ix!Size : n < j /\ Ix!IsFde(j) => low <= ix_section[j].lo
\* The pcs of an entry are in no earlier FDE.
FirstAt(map) ==
  \A k \in DOMAIN map : \A p \in Nat : Holds(map, k, p) => \A j \in 1..Ix!Size : j < map[k].fde => ~Ix!Covers(j, p)
\* The pcs of the FDEs read are in the index.
Complete(map, n) ==
  \A j \in 1..Ix!Size : \A p \in Nat : j <= n /\ Ix!Covers(j, p) => \E k \in DOMAIN map : Holds(map, k, p)
Ordered(map, n) == Sound(map) /\ Extends(map, n) /\ FirstAt(map) /\ Complete(map, n)

\* A pc from low on, below the last end, is in an entry.
LEMMA NoGap ==
  ASSUME NEW map, Sound(map), NEW low \in Nat, Tight(map, low), NEW p \in Nat, low <= p, p < Top(map)
  PROVE  \E k \in DOMAIN map : Holds(map, k, p)
<1> DEFINE T == Ix!Above(map, p)
           k == Ix!Min(T)
<1>1. Top(map) \in Nat /\ Top(map) \in DOMAIN map \cup {0}
  BY TopIs
<1>2. Top(map) \in T
  BY <1>1 DEF Ix!Above
<1>3. T \in SUBSET Nat /\ T # {}
  BY <1>2 DEF Ix!Above, Sound
<1>4. k \in T /\ \A y \in T : k <= y
  BY <1>3, MinIs
<1> HIDE DEF k
<1>5. k \in DOMAIN map /\ k \in Nat /\ p < k /\ \A y \in DOMAIN map : y > p => k <= y
  BY <1>3, <1>4 DEF Ix!Above
<1>6. map[k].start \in Nat /\ map[k].start < k
  BY <1>5 DEF Sound, Part, Tight
<1>7. map[k].start <= low \/ map[k].start \in DOMAIN map
  BY <1>5 DEF Tight
<1>8. map[k].start <= p
  BY <1>5, <1>6, <1>7
<1> QED
  BY <1>5, <1>8 DEF Holds

\* The next FDE is inserted at the end.
LEMMA InsertLast ==
  ASSUME NEW map, NEW i \in 1..Ix!Size, Ix!IsFde(i), ix_section \in Seq(Entries), InOrder, Ordered(map, i - 1),
         NEW low \in Nat, Tight(map, low), low <= ix_section[i].lo,
         Free(map, i) < ix_section[i].hi, NEW m, m = Ix!Insert(map, ix_section[i].hi, Free(map, i), i), Sound(m)
  PROVE  Ordered(m, i)
<1> DEFINE lo == ix_section[i].lo
           hi == ix_section[i].hi
           free == Free(map, i)
<1>0. lo \in Nat /\ hi \in Nat /\ i \in Nat /\ DOMAIN map \subseteq Nat
  BY EntryTypes DEF Ordered, Sound
<1>1. /\ Top(map) \in Nat /\ Top(map) \in DOMAIN map \cup {0} /\ (\A k \in DOMAIN map : k <= Top(map))
      /\ (\A k \in DOMAIN map : map[k].start \in Nat)
  BY TopIs DEF Ordered, Sound, Part
<1>2. free \in Nat /\ lo <= free /\ Top(map) <= free /\ free < hi /\ (free = lo \/ free = Top(map))
  BY <1>0, <1>1 DEF Free
<1>3. DOMAIN m = DOMAIN map \cup {hi} /\ m[hi].start = free /\ m[hi].fde = i /\ \A k \in DOMAIN map : k # hi => m[k] = map[k]
  BY DEF Ix!Insert, Ix!Entry
<1> HIDE DEF free
<1>4. \A k \in DOMAIN map : k < hi /\ k # hi /\ m[k] = map[k]
  BY <1>0, <1>1, <1>2, <1>3
<1>5. Tight(m, lo)
  <2>1. \A k \in DOMAIN m : m[k].start < k
    BY <1>2, <1>3, <1>4 DEF Tight
  <2>2. ASSUME NEW j \in DOMAIN m, NEW k \in DOMAIN m, j < k PROVE j <= m[k].start
    <3>1. j \in DOMAIN map
      BY <1>0, <1>3, <1>4, <2>2
    <3>2. CASE k \in DOMAIN map
      BY <1>4, <2>2, <3>1, <3>2 DEF Tight
    <3>3. CASE k = hi
      BY <1>0, <1>1, <1>2, <1>3, <3>1, <3>3
    <3> QED
      BY <1>3, <3>2, <3>3
  <2>3. ASSUME NEW k \in DOMAIN m, k > lo PROVE m[k].start <= lo \/ m[k].start \in DOMAIN m
    <3>1. CASE k \in DOMAIN map
      BY <1>0, <1>1, <1>3, <1>4, <2>3, <3>1 DEF Tight
    <3>2. CASE k = hi
      BY <1>0, <1>1, <1>2, <1>3, <3>2
    <3> QED
      BY <1>3, <3>1, <3>2
  <2> QED
    BY <2>1, <2>2, <2>3 DEF Tight
<1>6. Extends(m, i)
  BY <1>0, <1>5 DEF Extends, InOrder
<1>7. ASSUME NEW k \in DOMAIN m, NEW p \in Nat, Holds(m, k, p), NEW j \in 1..Ix!Size, j < m[k].fde
      PROVE  ~Ix!Covers(j, p)
  <2>1. CASE k \in DOMAIN map
    <3>1. m[k] = map[k]
      BY <1>4, <2>1
    <3> QED
      BY <1>7, <2>1, <3>1 DEF Ordered, FirstAt, Holds
  <2>2. CASE k = hi
    <3>1. j <= i - 1 /\ free <= p
      BY <1>0, <1>3, <1>7, <2>2 DEF Holds
    <3>2. ASSUME Ix!Covers(j, p) PROVE FALSE
      <4>1. PICK x \in DOMAIN map : Holds(map, x, p)
        BY <3>1, <3>2 DEF Ordered, Complete
      <4> QED
        BY <1>0, <1>1, <1>2, <3>1, <4>1 DEF Holds
    <3> QED
      BY <3>2
  <2> QED
    BY <1>3, <2>1, <2>2
<1>8. ASSUME NEW j \in 1..Ix!Size, NEW p \in Nat, j <= i, Ix!Covers(j, p)
      PROVE  \E k \in DOMAIN m : Holds(m, k, p)
  <2>1. ASSUME \E k \in DOMAIN map : Holds(map, k, p) PROVE \E k \in DOMAIN m : Holds(m, k, p)
    <3>1. PICK k \in DOMAIN map : Holds(map, k, p)
      BY <2>1
    <3>2. m[k] = map[k] /\ k \in DOMAIN m
      BY <1>3, <1>4, <3>1
    <3> QED
      BY <3>1, <3>2 DEF Holds
  <2>2. CASE j <= i - 1
    <3>1. \E k \in DOMAIN map : Holds(map, k, p)
      BY <1>8, <2>2 DEF Ordered, Complete
    <3> QED
      BY <2>1, <3>1
  <2>3. CASE j = i /\ free <= p
    <3>1. Holds(m, hi, p) /\ hi \in DOMAIN m
      BY <1>3, <1>8, <2>3 DEF Holds, Ix!Covers
    <3> QED
      BY <3>1
  <2>4. CASE j = i /\ p < free
    <3>1. lo <= p /\ p < Top(map)
      BY <1>0, <1>2, <1>8, <2>4 DEF Ix!Covers
    <3>2. low <= p /\ Sound(map)
      BY <1>0, <3>1 DEF Ordered
    <3>3. \E k \in DOMAIN map : Holds(map, k, p)
      BY <3>1, <3>2, NoGap, Zenon
    <3> QED
      BY <2>1, <3>3
  <2> QED
    BY <1>0, <1>2, <1>8, <2>2, <2>3, <2>4
<1>9. FirstAt(m) /\ Complete(m, i)
  BY <1>7, <1>8 DEF FirstAt, Complete
<1> QED
  BY <1>6, <1>9 DEF Ordered

\* The next FDE keeps the index in order.
LEMMA InsertOrdered ==
  ASSUME NEW map, NEW i \in 1..Ix!Size, Ix!IsFde(i), ix_section \in Seq(Entries), InOrder, Ordered(map, i - 1)
  PROVE  Ordered(Ix!InsertFde(map, i), i)
<1>0. ix_section[i].lo \in Nat /\ ix_section[i].hi \in Nat /\ i \in Nat /\ Sound(map)
  BY EntryTypes DEF Ordered
<1>1. PICK low \in Nat : Tight(map, low) /\ \A j \in 1..Ix!Size : i - 1 < j /\ Ix!IsFde(j) => low <= ix_section[j].lo
  BY DEF Ordered, Extends
<1>2. low <= ix_section[i].lo
  BY <1>0, <1>1
<1>3. Ix!InsertFde(map, i) = IF ix_section[i].hi <= Free(map, i) THEN map
                          ELSE Ix!Insert(map, ix_section[i].hi, Free(map, i), i)
  BY <1>0, <1>1, <1>2, InsertAscending, Zenon
<1>4. Sound(Ix!InsertFde(map, i))
  BY <1>0, InsertKeeps
<1>5. Top(map) \in Nat
  BY <1>0, TopIs
<1>6. Free(map, i) \in Nat /\ (Free(map, i) = ix_section[i].lo \/ Free(map, i) = Top(map))
  BY <1>0, <1>5 DEF Free
<1>7. CASE Free(map, i) < ix_section[i].hi
  <2> DEFINE m == Ix!InsertFde(map, i)
  <2>1. m = Ix!Insert(map, ix_section[i].hi, Free(map, i), i) /\ Sound(m)
    BY <1>0, <1>3, <1>4, <1>6, <1>7
  <2> HIDE DEF m
  <2>2. Ordered(m, i)
    BY <1>1, <1>2, <1>7, <2>1, InsertLast, Zenon
  <2> QED
    BY <2>2 DEF m
<1>8. CASE ix_section[i].hi <= Free(map, i)
  <2>1. Ix!InsertFde(map, i) = map
    BY <1>3, <1>8
  <2>2. Extends(map, i)
    BY <1>0, <1>1 DEF Extends
  <2>3. ASSUME NEW j \in 1..Ix!Size, NEW p \in Nat, j <= i, Ix!Covers(j, p)
        PROVE  \E k \in DOMAIN map : Holds(map, k, p)
    <3>1. CASE j <= i - 1
      BY <2>3, <3>1 DEF Ordered, Complete
    <3>2. CASE j = i
      <4>1. low <= p /\ p < Top(map)
        BY <1>0, <1>2, <1>5, <1>6, <1>8, <2>3, <3>2 DEF Ix!Covers
      <4> QED
        BY <1>0, <1>1, <4>1, NoGap, Zenon
    <3> QED
      BY <1>0, <2>3, <3>1, <3>2
  <2>4. Complete(map, i)
    BY <2>3 DEF Complete
  <2> QED
    BY <2>1, <2>2, <2>4 DEF Ordered
<1> QED
  BY <1>0, <1>6, <1>7, <1>8

\* So does an entry that is no FDE.
LEMMA SkipOrdered ==
  ASSUME NEW map, NEW i \in 1..Ix!Size, ~Ix!IsFde(i), Ordered(map, i - 1)
  PROVE  Ordered(map, i)
<1>1. Extends(map, i)
  BY DEF Ordered, Extends
<1>2. ASSUME NEW j \in 1..Ix!Size, NEW p \in Nat, j <= i, Ix!Covers(j, p)
      PROVE  \E k \in DOMAIN map : Holds(map, k, p)
  <2>1. j <= i - 1
    BY <1>2 DEF Ix!Covers
  <2> QED
    BY <1>2, <2>1 DEF Ordered, Complete
<1> QED
  BY <1>1, <1>2 DEF Ordered, Complete

\* What GetFdeFromPc finds in the index is an entry with the pc.
LEMMA LookupHolds ==
  ASSUME NEW map, Sound(map), NEW p \in Nat, Ix!Lookup(map, p) # 0
  PROVE  \E k \in DOMAIN map : Ix!Lookup(map, p) = map[k].fde /\ Holds(map, k, p)
<1> DEFINE hits == {k \in Ix!Above(map, p) : k = Ix!Min(Ix!Above(map, p)) /\ map[k].start <= p}
<1>1. Ix!Lookup(map, p) = IF hits = {} THEN 0 ELSE map[Ix!Min(hits)].fde
  BY Zenon DEF Ix!Lookup
<1>2. hits \in SUBSET Nat
  BY DEF Ix!Above, Sound
<1>3. hits # {} /\ Ix!Lookup(map, p) = map[Ix!Min(hits)].fde
  BY <1>1
<1>4. Ix!Min(hits) \in hits
  BY <1>2, <1>3, MinIs
<1> DEFINE k == Ix!Min(hits)
<1>5. k \in DOMAIN map /\ k > p /\ map[k].start <= p
  BY <1>4 DEF Ix!Above
<1>6. Ix!Lookup(map, p) = map[k].fde
  BY <1>3
<1> HIDE DEF k
<1>7. k \in Nat
  BY <1>5 DEF Sound
<1> QED
  BY <1>5, <1>6, <1>7 DEF Holds

\* So it covers the pc.
LEMMA LookupCovers ==
  ASSUME NEW map, Sound(map), NEW p \in Nat, Ix!Lookup(map, p) # 0, ix_section \in Seq(Entries)
  PROVE  Ix!Lookup(map, p) \in 1..Ix!Size /\ Ix!Covers(Ix!Lookup(map, p), p)
<1>1. PICK k \in DOMAIN map : Ix!Lookup(map, p) = map[k].fde /\ Holds(map, k, p)
  BY LookupHolds
<1> DEFINE i == map[k].fde
           a == map[k].start
<1>2. a \in Nat /\ i \in 1..Ix!Size /\ Ix!IsFde(i) /\ ix_section[i].lo <= a /\ k <= ix_section[i].hi /\ k \in Nat
  BY DEF Sound, Part
<1>3. a <= p /\ p < k
  BY <1>1 DEF Holds
<1> HIDE DEF i, a
<1>4. ix_section[i].lo \in Nat /\ ix_section[i].hi \in Nat
  BY <1>2, EntryTypes
<1>5. Ix!Covers(i, p)
  BY <1>2, <1>3, <1>4 DEF Ix!Covers
<1> QED
  BY <1>1, <1>2, <1>5, Zenon DEF i

\* An entry with the pc is found.
LEMMA LookupFinds ==
  ASSUME NEW map, Sound(map), NEW low, Tight(map, low), NEW p \in Nat, NEW k \in DOMAIN map, Holds(map, k, p)
  PROVE  Ix!Lookup(map, p) # 0
<1> DEFINE T == Ix!Above(map, p)
           hits == {x \in T : x = Ix!Min(T) /\ map[x].start <= p}
<1>1. k \in Nat /\ map[k].start \in Nat /\ map[k].start <= p /\ p < k
  BY DEF Sound, Part, Holds
<1>2. T \in SUBSET Nat /\ k \in T
  BY <1>1 DEF Ix!Above, Sound
<1>3. ASSUME NEW y \in T PROVE k <= y
  <2>1. y \in Nat /\ y \in DOMAIN map /\ y > p
    BY <1>2 DEF Ix!Above
  <2>2. y < k => y <= map[k].start
    BY <2>1 DEF Tight
  <2> QED
    BY <1>1, <2>1, <2>2
<1> HIDE DEF T
<1>4. Ix!Min(T) = k
  BY <1>2, <1>3, MinUnique, Zenon
<1>5. hits = {k}
  BY <1>1, <1>2, <1>4
<1>6. Ix!Lookup(map, p) = IF hits = {} THEN 0 ELSE map[Ix!Min(hits)].fde
  BY Zenon DEF Ix!Lookup, T
<1> HIDE DEF hits
<1>7. Ix!Min(hits) = k
  BY <1>1, <1>5, MinUnique
<1>8. Ix!Lookup(map, p) = map[k].fde
  BY <1>5, <1>6, <1>7
<1>9. map[k].fde \in 1..Ix!Size
  BY DEF Sound, Part
<1> QED
  BY <1>8, <1>9

(***************************************************************************)
(* Reading entries                                                         *)
(***************************************************************************)
\* The turns of ReadUntil, as a function of their number
ReadBegin == Ix!Reading(ix_next, ix_fdes, <<>>, FALSE)
ReadTurn(s, wanted) == IF s.stop \/ Ix!Found(s, wanted) THEN s ELSE Ix!GetNextCieOrFde(s)
Runs(h, wanted, n) == h = [k \in 0 .. n |-> IF k = 0 THEN ReadBegin ELSE ReadTurn(h[k - 1], wanted)]

\* One entry more
LEMMA RunsNext ==
  ASSUME NEW wanted, NEW n \in Nat, NEW h, Runs(h, wanted, n)
  PROVE  \E g : Runs(g, wanted, n + 1)
<1> DEFINE g == [k \in 0 .. n + 1 |-> IF k = n + 1 THEN ReadTurn(h[n], wanted) ELSE h[k]]
<1>1. ASSUME NEW k \in 0 .. n + 1
      PROVE  g[k] = IF k = 0 THEN ReadBegin ELSE ReadTurn(g[k - 1], wanted)
  <2>1. CASE k = n + 1
    BY <2>1
  <2>2. CASE k # n + 1
    <3>1. k \in 0 .. n /\ g[k] = h[k]
      BY <2>2
    <3>2. h[k] = IF k = 0 THEN ReadBegin ELSE ReadTurn(h[k - 1], wanted)
      BY <3>1 DEF Runs
    <3>3. k # 0 => g[k - 1] = h[k - 1]
      BY <3>1
    <3> QED
      BY <3>1, <3>2, <3>3
  <2> QED
    BY <2>1, <2>2
<1>2. g = [k \in 0 .. n + 1 |-> g[k]]
  OBVIOUS
<1> HIDE DEF g
<1>3. g = [k \in 0 .. n + 1 |-> IF k = 0 THEN ReadBegin ELSE ReadTurn(g[k - 1], wanted)]
  BY <1>1, <1>2, Zenon
<1> QED
  BY <1>3, Zenon DEF Runs

\* ReadUntil is the end of such a function.
LEMMA ReadUnfolds ==
  ASSUME NEW wanted, Ix!Size - ix_next + 1 \in Nat
  PROVE  \E h : LET n == Ix!Size - ix_next + 1 IN
           /\ \A k \in 0 .. n : h[k] = IF k = 0 THEN ReadBegin ELSE ReadTurn(h[k - 1], wanted)
           /\ Ix!ReadUntil(wanted) = h[n]
<1> DEFINE n == Ix!Size - ix_next + 1
           S == {m \in Nat : \E h : Runs(h, wanted, m)}
<1>1. 0 \in S
  <2> DEFINE g == [k \in 0 .. 0 |-> ReadBegin]
  <2>1. g = [k \in 0 .. 0 |-> IF k = 0 THEN ReadBegin ELSE ReadTurn(g[k - 1], wanted)]
    OBVIOUS
  <2> HIDE DEF g
  <2>2. Runs(g, wanted, 0)
    BY <2>1, Zenon DEF Runs
  <2> QED
    BY <2>2
<1>2. \A m \in Nat : m \in S => m + 1 \in S
  BY RunsNext
<1> HIDE DEF S
<1>3. n \in S
  BY <1>1, <1>2, Induct, Zenon
<1> DEFINE run == CHOOSE h : h = [k \in 0 .. n |-> IF k = 0 THEN ReadBegin ELSE ReadTurn(h[k - 1], wanted)]
<1>4. \E h : h = [k \in 0 .. n |-> IF k = 0 THEN ReadBegin ELSE ReadTurn(h[k - 1], wanted)]
  <2>1. PICK h : Runs(h, wanted, n)
    BY <1>3, Zenon DEF S
  <2> QED
    BY <2>1, Zenon DEF Runs
<1>5. run = [k \in 0 .. n |-> IF k = 0 THEN ReadBegin ELSE ReadTurn(run[k - 1], wanted)]
  BY <1>4, Zenon
<1>6. Ix!ReadUntil(wanted) = run[n]
  BY Zenon DEF Ix!ReadUntil, ReadBegin, ReadTurn
<1> HIDE DEF run
<1>7. \A k \in 0 .. n : run[k] = IF k = 0 THEN ReadBegin ELSE ReadTurn(run[k - 1], wanted)
  BY <1>5
<1> QED
  BY <1>6, <1>7, Zenon

\* q lists the FDEs from a to b, each once and in their order.
Lists(q, a, b) ==
  /\ q \in Seq(1..Ix!Size)
  /\ \A m, n \in 1..Len(q) : m < n => q[m] < q[n]
  /\ {q[n] : n \in 1..Len(q)} = {i \in a..b : Ix!IsFde(i)}

\* One FDE more
LEMMA ListsAppend ==
  ASSUME NEW a \in Nat, NEW i \in 1..Ix!Size, a <= i, NEW q, Lists(q, a, i - 1), Ix!IsFde(i)
  PROVE  Lists(Append(q, i), a, i)
<1> DEFINE r == Append(q, i)
<1>1. q \in Seq(1..Ix!Size) /\ r \in Seq(1..Ix!Size) /\ Len(q) \in Nat
  BY DEF Lists
<1>2. Len(r) = Len(q) + 1 /\ r[Len(q) + 1] = i /\ \A n \in 1..Len(q) : r[n] = q[n]
  BY <1>1
<1> HIDE DEF r
<1>3. \A n \in 1..Len(q) : q[n] \in {j \in a .. i - 1 : Ix!IsFde(j)}
  BY DEF Lists
<1>4. ASSUME NEW m \in 1..Len(r), NEW n \in 1..Len(r), m < n PROVE r[m] < r[n]
  <2>1. CASE n <= Len(q)
    BY <1>1, <1>2, <1>4, <2>1 DEF Lists
  <2>2. CASE n = Len(q) + 1
    <3>1. m \in 1..Len(q) /\ r[n] = i /\ r[m] = q[m]
      BY <1>1, <1>2, <1>4, <2>2
    <3>2. q[m] \in a .. i - 1
      BY <1>3, <3>1
    <3> QED
      BY <3>1, <3>2
  <2> QED
    BY <1>1, <1>2, <2>1, <2>2
<1>5. ASSUME NEW n \in 1..Len(r) PROVE r[n] \in {j \in a..i : Ix!IsFde(j)}
  <2>1. CASE n <= Len(q)
    <3>1. r[n] = q[n] /\ q[n] \in a .. i - 1 /\ Ix!IsFde(q[n])
      BY <1>1, <1>2, <1>3, <2>1
    <3> QED
      BY <3>1
  <2>2. CASE n = Len(q) + 1
    BY <1>2, <2>2
  <2> QED
    BY <1>1, <1>2, <2>1, <2>2
<1>6. ASSUME NEW j \in {j \in a..i : Ix!IsFde(j)} PROVE \E n \in 1..Len(r) : r[n] = j
  <2>1. CASE j = i
    BY <1>1, <1>2, <2>1
  <2>2. CASE j # i
    <3>1. j \in {x \in a .. i - 1 : Ix!IsFde(x)}
      BY <2>2
    <3>2. PICK n \in 1..Len(q) : q[n] = j
      BY <3>1 DEF Lists
    <3> QED
      BY <1>1, <1>2, <3>2
  <2> QED
    BY <2>1, <2>2
<1>7. {r[n] : n \in 1..Len(r)} = {j \in a..i : Ix!IsFde(j)}
  BY <1>5, <1>6
<1>8. Lists(r, a, i)
  BY <1>1, <1>4, <1>7 DEF Lists
<1> QED
  BY <1>8 DEF r

\* An entry more that is no FDE
LEMMA ListsSkip ==
  ASSUME NEW a \in Nat, NEW i \in 1..Ix!Size, NEW q, Lists(q, a, i - 1), ~Ix!IsFde(i)
  PROVE  Lists(q, a, i)
<1>1. {j \in a .. i - 1 : Ix!IsFde(j)} = {j \in a..i : Ix!IsFde(j)}
  OBVIOUS
<1> QED
  BY <1>1, Zenon DEF Lists

\* Two lists, one after the other
LEMMA ListsConcat ==
  ASSUME NEW a \in Nat, NEW b \in Nat, NEW c \in Nat, a <= b, b <= c + 1, NEW q, NEW r,
         Lists(q, a, b - 1), Lists(r, b, c)
  PROVE  Lists(q \o r, a, c)
<1> DEFINE z == q \o r
<1>1. q \in Seq(1..Ix!Size) /\ r \in Seq(1..Ix!Size) /\ z \in Seq(1..Ix!Size) /\ Len(q) \in Nat /\ Len(r) \in Nat
  BY DEF Lists
<1>2. /\ Len(z) = Len(q) + Len(r) /\ (\A n \in 1..Len(q) : z[n] = q[n])
      /\ \A n \in 1..Len(r) : z[Len(q) + n] = r[n]
  BY <1>1
<1> HIDE DEF z
<1>3. \A n \in 1..Len(q) : q[n] \in {j \in a .. b - 1 : Ix!IsFde(j)}
  BY DEF Lists
<1>4. \A n \in 1..Len(r) : r[n] \in {j \in b .. c : Ix!IsFde(j)}
  BY DEF Lists
<1>5. ASSUME NEW n \in 1..Len(z), n > Len(q) PROVE n - Len(q) \in 1..Len(r) /\ z[n] = r[n - Len(q)]
  <2>1. n - Len(q) \in 1..Len(r) /\ n = Len(q) + (n - Len(q))
    BY <1>1, <1>2, <1>5
  <2> QED
    BY <1>2, <2>1
<1>6. ASSUME NEW n \in 1..Len(z), n <= Len(q) PROVE n \in 1..Len(q) /\ z[n] = q[n]
  BY <1>1, <1>2, <1>6
<1>7. ASSUME NEW m \in 1..Len(z), NEW n \in 1..Len(z), m < n PROVE z[m] < z[n]
  <2>0. m \in Nat /\ n \in Nat /\ Len(q) \in Nat
    BY <1>1
  <2>1. CASE n <= Len(q)
    <3>1. m <= Len(q)
      BY <1>7, <2>0, <2>1
    <3> QED
      BY <1>6, <1>7, <2>1, <3>1 DEF Lists
  <2>2. CASE m > Len(q)
    <3>1. n > Len(q)
      BY <1>7, <2>0, <2>2
    <3>2. n - Len(q) \in 1..Len(r) /\ m - Len(q) \in 1..Len(r) /\ z[n] = r[n - Len(q)] /\ z[m] = r[m - Len(q)]
      BY <1>5, <2>2, <3>1
    <3>3. m - Len(q) < n - Len(q)
      BY <1>7, <2>0
    <3> QED
      BY <3>2, <3>3, Zenon DEF Lists
  <2>3. CASE m <= Len(q) /\ n > Len(q)
    <3>1. z[m] \in a .. b - 1 /\ z[n] \in b .. c
      BY <1>3, <1>4, <1>5, <1>6, <2>3, Zenon
    <3> QED
      BY <3>1
  <2> QED
    BY <2>0, <2>1, <2>2, <2>3
<1>8. ASSUME NEW n \in 1..Len(z) PROVE z[n] \in {j \in a..c : Ix!IsFde(j)}
  <2>1. CASE n <= Len(q)
    <3>1. z[n] \in a .. b - 1 /\ Ix!IsFde(z[n])
      BY <1>3, <1>6, <2>1
    <3> QED
      BY <3>1
  <2>2. CASE n > Len(q)
    <3>1. z[n] \in b .. c /\ Ix!IsFde(z[n])
      BY <1>4, <1>5, <2>2
    <3> QED
      BY <3>1
  <2> QED
    BY <1>1, <2>1, <2>2
<1>9. ASSUME NEW j \in {j \in a..c : Ix!IsFde(j)} PROVE \E n \in 1..Len(z) : z[n] = j
  <2>1. CASE j < b
    <3>1. j \in {x \in a .. b - 1 : Ix!IsFde(x)}
      BY <2>1
    <3>2. PICK n \in 1..Len(q) : q[n] = j
      BY <3>1 DEF Lists
    <3> QED
      BY <1>1, <1>2, <3>2
  <2>2. CASE j >= b
    <3>1. j \in {x \in b .. c : Ix!IsFde(x)}
      BY <2>2
    <3>2. PICK n \in 1..Len(r) : r[n] = j
      BY <3>1 DEF Lists
    <3>3. Len(q) + n \in 1..Len(z) /\ z[Len(q) + n] = j
      BY <1>1, <1>2, <3>2
    <3> QED
      BY <3>3
  <2> QED
    BY <2>1, <2>2
<1>10. {z[n] : n \in 1..Len(z)} = {j \in a..c : Ix!IsFde(j)}
  BY <1>8, <1>9
<1>11. Lists(z, a, c)
  BY <1>1, <1>7, <1>10 DEF Lists
<1> QED
  BY <1>11 DEF z

\* What reading an entry does
LEMMA NextFields ==
  ASSUME NEW s, NEW i \in 1..Ix!Size, s.next = i, ix_section \in Seq(Entries), NEW t, t = Ix!GetNextCieOrFde(s)
  PROVE  /\ t.stop \in BOOLEAN /\ t.next \in {i, i + 1}
         /\ Ix!IsFde(i) => t.next = i + 1 /\ t.fdes = Ix!InsertFde(s.fdes, i) /\ t.read = Append(s.read, i)
         /\ ~Ix!IsFde(i) => t.fdes = s.fdes /\ t.read = s.read
         /\ Ix!Cached(i) => t.next = i + 1 /\ t.stop = ix_section[i].overrun
<1>0. ix_section[i].overrun \in BOOLEAN /\ ix_section[i].kind \in {"cie", "fde", "bad", "short"}
  BY EntryTypes
<1>1. CASE ix_section[i].kind = "short"
  <2>1. t = Ix!Reading(i, s.fdes, s.read, TRUE)
    BY <1>1, Zenon DEF Ix!GetNextCieOrFde
  <2>2. t.next = i /\ t.fdes = s.fdes /\ t.read = s.read /\ t.stop = TRUE
    BY <2>1 DEF Ix!Reading
  <2> QED
    BY <1>1, <2>2, Zenon DEF Ix!IsFde, Ix!Cached
<1>2. CASE ix_section[i].kind = "bad"
  <2>1. t = Ix!Reading(i + 1, s.fdes, s.read, TRUE)
    BY <1>2, Zenon DEF Ix!GetNextCieOrFde
  <2>2. t.next = i + 1 /\ t.fdes = s.fdes /\ t.read = s.read /\ t.stop = TRUE
    BY <2>1 DEF Ix!Reading
  <2> QED
    BY <1>2, <2>2, Zenon DEF Ix!IsFde, Ix!Cached
<1>3. CASE ix_section[i].kind = "cie"
  <2>1. t = Ix!Reading(i + 1, s.fdes, s.read, ix_section[i].overrun)
    BY <1>3, Zenon DEF Ix!GetNextCieOrFde
  <2>2. t.next = i + 1 /\ t.fdes = s.fdes /\ t.read = s.read /\ t.stop = ix_section[i].overrun
    BY <2>1 DEF Ix!Reading
  <2> QED
    BY <1>0, <1>3, <2>2 DEF Ix!IsFde, Ix!Cached
<1>4. CASE ix_section[i].kind = "fde"
  <2>1. t = Ix!Reading(i + 1, Ix!InsertFde(s.fdes, i), Append(s.read, i), ix_section[i].overrun)
    BY <1>4, Zenon DEF Ix!GetNextCieOrFde
  <2>2. t.next = i + 1 /\ t.fdes = Ix!InsertFde(s.fdes, i) /\ t.read = Append(s.read, i) /\ t.stop = ix_section[i].overrun
    BY <2>1 DEF Ix!Reading
  <2> QED
    BY <1>0, <1>4, <2>2 DEF Ix!IsFde, Ix!Cached
<1> QED
  BY <1>0, <1>1, <1>2, <1>3, <1>4

\* After k turns, in any section
ReadAny(s, k) ==
  /\ s.next \in Nat /\ ix_next <= s.next /\ s.next <= ix_next + k /\ s.stop \in BOOLEAN
  /\ Sound(s.fdes) /\ s.read \in Seq(1..Ix!Size)
  /\ InOrder /\ Ordered(ix_fdes, ix_next - 1) => Ordered(s.fdes, s.next - 1)
\* In one that can be read: every entry is, up to the first that is wanted.
ReadAll(s, k, wanted) ==
  /\ s.stop = FALSE /\ Lists(s.read, ix_next, s.next - 1)
  /\ Ix!Found(s, wanted) \/ s.next = ix_next + k
  /\ \A i \in ix_next .. s.next - 1 : i \in wanted => Ix!Found(s, wanted) /\ i = s.read[Len(s.read)]

\* Before the first turn
LEMMA ReadBegins ==
  ASSUME ix_next \in Nat, Sound(ix_fdes), NEW wanted, NEW s, s = ReadBegin
  PROVE  ReadAny(s, 0) /\ ReadAll(s, 0, wanted)
<1>1. s.next = ix_next /\ s.fdes = ix_fdes /\ s.read = <<>> /\ s.stop = FALSE
  BY DEF ReadBegin, Ix!Reading
<1>2. s.read \in Seq(1..Ix!Size) /\ Len(s.read) = 0
  BY <1>1
<1>3. {s.read[n] : n \in 1..Len(s.read)} = {i \in ix_next .. ix_next - 1 : Ix!IsFde(i)}
  BY <1>2
<1>4. Lists(s.read, ix_next, s.next - 1)
  BY <1>1, <1>2, <1>3 DEF Lists
<1>5. ReadAny(s, 0)
  <2>1. s.next \in Nat /\ ix_next <= s.next /\ s.next <= ix_next + 0
    BY <1>1
  <2> QED
    BY <1>1, <1>2, <2>1, Zenon DEF ReadAny
<1>6. ReadAll(s, 0, wanted)
  BY <1>1, <1>4 DEF ReadAll
<1> QED
  BY <1>5, <1>6

\* A turn, in any section
LEMMA ReadAnyNext ==
  ASSUME ix_next \in 1 .. Ix!Size + 1, ix_section \in Seq(Entries), NEW k \in Nat, k < Ix!Size - ix_next + 1, NEW wanted,
         NEW s, ReadAny(s, k), NEW t, t = ReadTurn(s, wanted)
  PROVE  ReadAny(t, k + 1)
<1>0. Ix!Size \in Nat /\ ix_next \in Nat
  BY DEF Ix!Size
<1>1. CASE s.stop \/ Ix!Found(s, wanted)
  <2>1. t = s
    BY <1>1, Zenon DEF ReadTurn
  <2> QED
    BY <1>0, <2>1 DEF ReadAny
<1>2. CASE ~(s.stop \/ Ix!Found(s, wanted))
  <2> DEFINE i == s.next
  <2>1. t = Ix!GetNextCieOrFde(s)
    BY <1>2, Zenon DEF ReadTurn
  <2>2. i \in 1..Ix!Size /\ i \in Nat
    BY <1>0 DEF ReadAny
  <2>3. /\ t.stop \in BOOLEAN /\ t.next \in {i, i + 1}
        /\ Ix!IsFde(i) => t.next = i + 1 /\ t.fdes = Ix!InsertFde(s.fdes, i) /\ t.read = Append(s.read, i)
        /\ ~Ix!IsFde(i) => t.fdes = s.fdes /\ t.read = s.read
    BY <2>1, <2>2, NextFields
  <2>4. Sound(s.fdes) /\ s.read \in Seq(1..Ix!Size) /\ ix_next <= i /\ i <= ix_next + k
    BY DEF ReadAny
  <2>5. InOrder /\ Ordered(ix_fdes, ix_next - 1) => Ordered(s.fdes, i - 1)
    BY DEF ReadAny
  <2> HIDE DEF i
  <2>6. t.next \in Nat /\ ix_next <= t.next /\ t.next <= ix_next + (k + 1)
    BY <1>0, <2>2, <2>3, <2>4
  <2>7. Sound(t.fdes)
    BY <2>2, <2>3, <2>4, InsertKeeps
  <2>8. t.read \in Seq(1..Ix!Size)
    <3>1. CASE Ix!IsFde(i)
      <4>1. Append(s.read, i) \in Seq(1..Ix!Size)
        BY <2>2, <2>4
      <4> QED
        BY <2>3, <3>1, <4>1, Zenon
    <3>2. CASE ~Ix!IsFde(i)
      BY <2>3, <2>4, <3>2, Zenon
    <3> QED
      BY <3>1, <3>2
  <2>9. ASSUME InOrder, Ordered(ix_fdes, ix_next - 1) PROVE Ordered(t.fdes, t.next - 1)
    <3>1. Ordered(s.fdes, i - 1)
      BY <2>5, <2>9
    <3>2. CASE Ix!IsFde(i)
      <4>1. Ordered(Ix!InsertFde(s.fdes, i), i)
        BY <2>2, <2>9, <3>1, <3>2, InsertOrdered
      <4>2. t.next - 1 = i /\ t.fdes = Ix!InsertFde(s.fdes, i)
        BY <2>2, <2>3, <3>2
      <4> QED
        BY <4>1, <4>2
    <3>3. CASE ~Ix!IsFde(i)
      <4>1. Ordered(s.fdes, i)
        BY <2>2, <3>1, <3>3, SkipOrdered
      <4>2. (t.next - 1 = i \/ t.next - 1 = i - 1) /\ t.fdes = s.fdes
        BY <2>2, <2>3, <3>3
      <4> QED
        BY <3>1, <4>1, <4>2
    <3> QED
      BY <3>2, <3>3
  <2> QED
    BY <2>3, <2>6, <2>7, <2>8, <2>9 DEF ReadAny
<1> QED
  BY <1>1, <1>2

\* A turn, in a section that can be read
LEMMA ReadAllNext ==
  ASSUME ix_next \in 1 .. Ix!Size + 1, ix_section \in Seq(Entries), Ix!Readable, NEW k \in Nat, k < Ix!Size - ix_next + 1,
         NEW wanted, \A i \in wanted : Ix!IsFde(i),
         NEW s, ReadAny(s, k), ReadAll(s, k, wanted), NEW t, t = ReadTurn(s, wanted)
  PROVE  ReadAll(t, k + 1, wanted)
<1>0. Ix!Size \in Nat /\ ix_next \in Nat
  BY DEF Ix!Size
<1>1. CASE Ix!Found(s, wanted)
  <2>1. t = s
    BY <1>1, Zenon DEF ReadTurn
  <2> QED
    BY <1>1, <2>1, Zenon DEF ReadAll
<1>2. CASE ~Ix!Found(s, wanted)
  <2> DEFINE i == s.next
  <2>1. t = Ix!GetNextCieOrFde(s)
    BY <1>2, Zenon DEF ReadTurn, ReadAll
  <2>2. i = ix_next + k /\ i \in 1..Ix!Size /\ i \in Nat /\ Lists(s.read, ix_next, i - 1)
    BY <1>0, <1>2 DEF ReadAll
  <2>3. Ix!Cached(i) /\ ~ix_section[i].overrun /\ ix_section[i].overrun \in BOOLEAN
    BY <2>2, EntryTypes DEF Ix!Readable
  <2>4. /\ Ix!IsFde(i) => t.read = Append(s.read, i)
        /\ ~Ix!IsFde(i) => t.read = s.read
        /\ t.next = i + 1 /\ t.stop = ix_section[i].overrun
    BY <2>1, <2>2, <2>3, NextFields
  <2>5. \A j \in ix_next .. i - 1 : j \notin wanted
    BY <1>2 DEF ReadAll
  <2>6. s.read \in Seq(1..Ix!Size)
    BY DEF ReadAny
  <2> HIDE DEF i
  <2>7. t.stop = FALSE
    BY <2>3, <2>4
  <2>8. t.next = ix_next + (k + 1) /\ t.next - 1 = i
    BY <1>0, <2>2, <2>4
  <2>9. CASE Ix!IsFde(i)
    <3>1. Lists(t.read, ix_next, i)
      <4>1. ix_next <= i
        BY <1>0, <2>2
      <4>2. Lists(Append(s.read, i), ix_next, i)
        BY <1>0, <2>2, <2>9, <4>1, ListsAppend, Zenon
      <4> QED
        BY <2>4, <2>9, <4>2, Zenon
    <3>2. t.read # <<>> /\ t.read[Len(t.read)] = i
      BY <2>2, <2>4, <2>6, <2>9
    <3>3. \A j \in ix_next .. i : j \in wanted => j = i
      BY <1>0, <2>2, <2>5
    <3> QED
      BY <2>7, <2>8, <3>1, <3>2, <3>3, Zenon DEF ReadAll, Ix!Found
  <2>10. CASE ~Ix!IsFde(i)
    <3>1. Lists(t.read, ix_next, i)
      BY <1>0, <2>2, <2>4, <2>10, ListsSkip
    <3>2. i \notin wanted
      BY <2>10
    <3>3. \A j \in ix_next .. i : j \notin wanted
      BY <1>0, <2>2, <2>5, <3>2
    <3> QED
      BY <2>7, <2>8, <3>1, <3>3, Zenon DEF ReadAll
  <2> QED
    BY <2>9, <2>10
<1> QED
  BY <1>1, <1>2

\* What ReadUntil leaves
LEMMA ReadUntilIs ==
  ASSUME ix_next \in 1 .. Ix!Size + 1, ix_section \in Seq(Entries), Sound(ix_fdes), NEW wanted, \A i \in wanted : Ix!IsFde(i)
  PROVE  /\ ReadAny(Ix!ReadUntil(wanted), Ix!Size - ix_next + 1)
         /\ Ix!Readable => ReadAll(Ix!ReadUntil(wanted), Ix!Size - ix_next + 1, wanted)
<1> DEFINE n == Ix!Size - ix_next + 1
<1>0. Ix!Size \in Nat /\ ix_next \in Nat /\ n \in Nat
  BY DEF Ix!Size
<1>1. PICK h : /\ \A k \in 0 .. n : h[k] = IF k = 0 THEN ReadBegin ELSE ReadTurn(h[k - 1], wanted)
               /\ Ix!ReadUntil(wanted) = h[n]
  BY <1>0, ReadUnfolds, Zenon
<1> HIDE DEF n
<1> DEFINE S == {k \in Nat : k <= n => ReadAny(h[k], k) /\ (Ix!Readable => ReadAll(h[k], k, wanted))}
<1>2. 0 \in S
  <2>1. h[0] = ReadBegin
    BY <1>0, <1>1
  <2>2. ReadAny(h[0], 0) /\ ReadAll(h[0], 0, wanted)
    BY <1>0, <2>1, ReadBegins
  <2> QED
    BY <2>2
<1>3. ASSUME NEW k \in Nat, k \in S PROVE k + 1 \in S
  <2>1. CASE k + 1 <= n
    <3>1. h[k + 1] = ReadTurn(h[k], wanted) /\ ReadAny(h[k], k) /\ (Ix!Readable => ReadAll(h[k], k, wanted))
      BY <1>0, <1>1, <1>3, <2>1
    <3>2. k < Ix!Size - ix_next + 1
      BY <1>0, <2>1 DEF n
    <3>3. ReadAny(h[k + 1], k + 1)
      BY <3>1, <3>2, ReadAnyNext, Zenon
    <3>4. Ix!Readable => ReadAll(h[k + 1], k + 1, wanted)
      BY <3>1, <3>2, ReadAllNext, Zenon
    <3> QED
      BY <3>3, <3>4
  <2>2. CASE ~(k + 1 <= n)
    BY <2>2
  <2> QED
    BY <2>1, <2>2
<1> HIDE DEF S
<1>4. n \in S
  BY <1>0, <1>2, <1>3, Induct, Zenon
<1>5. ReadAny(h[n], n) /\ (Ix!Readable => ReadAll(h[n], n, wanted))
  BY <1>0, <1>4 DEF S
<1> QED
  BY <1>1, <1>5, Zenon DEF n

(***************************************************************************)
(* Listing the entries already read                                        *)
(***************************************************************************)
ListTurn(q, n) == IF Ix!IsFde(n) THEN Append(q, n) ELSE q
Listing(h, n) == h = [k \in 0 .. n |-> IF k = 0 THEN <<>> ELSE ListTurn(h[k - 1], k)]

\* One entry more
LEMMA ListingNext ==
  ASSUME NEW n \in Nat, NEW h, Listing(h, n)
  PROVE  \E g : Listing(g, n + 1)
<1> DEFINE g == [k \in 0 .. n + 1 |-> IF k = n + 1 THEN ListTurn(h[n], n + 1) ELSE h[k]]
<1>1. ASSUME NEW k \in 0 .. n + 1
      PROVE  g[k] = IF k = 0 THEN <<>> ELSE ListTurn(g[k - 1], k)
  <2>1. CASE k = n + 1
    BY <2>1
  <2>2. CASE k # n + 1
    <3>1. k \in 0 .. n /\ g[k] = h[k]
      BY <2>2
    <3>2. h[k] = IF k = 0 THEN <<>> ELSE ListTurn(h[k - 1], k)
      BY <3>1 DEF Listing
    <3>3. k # 0 => g[k - 1] = h[k - 1]
      BY <3>1
    <3> QED
      BY <3>1, <3>2, <3>3
  <2> QED
    BY <2>1, <2>2
<1>2. g = [k \in 0 .. n + 1 |-> g[k]]
  OBVIOUS
<1> HIDE DEF g
<1>3. g = [k \in 0 .. n + 1 |-> IF k = 0 THEN <<>> ELSE ListTurn(g[k - 1], k)]
  BY <1>1, <1>2
<1> QED
  BY <1>3, Zenon DEF Listing

\* GetFdes lists the end of such a function, if all the entries were kept.
LEMMA ListUnfolds ==
  ASSUME ix_next - 1 \in Nat, Ix!GetFdes, {i \in 1..(ix_next - 1) : ~Ix!Cached(i)} = {}
  PROVE  \E h : LET s == Ix!ReadUntil({}) IN
           /\ \A k \in 0 .. ix_next - 1 : h[k] = IF k = 0 THEN <<>> ELSE ListTurn(h[k - 1], k)
           /\ ix_next' = s.next /\ ix_fdes' = s.fdes
           /\ ix_result' = [op |-> "GetFdes", pc |-> 0, fdes |-> h[ix_next - 1] \o s.read]
<1> DEFINE n == ix_next - 1
           S == {m \in Nat : \E h : Listing(h, m)}
<1>1. 0 \in S
  <2> DEFINE g == [k \in 0 .. 0 |-> <<>>]
  <2>1. g = [k \in 0 .. 0 |-> IF k = 0 THEN <<>> ELSE ListTurn(g[k - 1], k)]
    OBVIOUS
  <2> HIDE DEF g
  <2>2. Listing(g, 0)
    BY <2>1, Zenon DEF Listing
  <2> QED
    BY <2>2
<1>2. \A m \in Nat : m \in S => m + 1 \in S
  BY ListingNext
<1> HIDE DEF S
<1>3. n \in S
  BY <1>1, <1>2, Induct, Zenon
<1> DEFINE upTo == CHOOSE h : h = [k \in 0 .. n |-> IF k = 0 THEN <<>> ELSE ListTurn(h[k - 1], k)]
<1>4. \E h : h = [k \in 0 .. n |-> IF k = 0 THEN <<>> ELSE ListTurn(h[k - 1], k)]
  <2>1. PICK h : Listing(h, n)
    BY <1>3, Zenon DEF S
  <2> QED
    BY <2>1, Zenon DEF Listing
<1>5. upTo = [k \in 0 .. n |-> IF k = 0 THEN <<>> ELSE ListTurn(upTo[k - 1], k)]
  BY <1>4, Zenon
<1>6. LET s == Ix!ReadUntil({})
      IN  /\ ix_next' = s.next /\ ix_fdes' = s.fdes
          /\ ix_result' = [op |-> "GetFdes", pc |-> 0, fdes |-> upTo[ix_next - 1] \o s.read]
  BY Zenon DEF Ix!GetFdes, ListTurn
<1> HIDE DEF upTo
<1>7. \A k \in 0 .. n : upTo[k] = IF k = 0 THEN <<>> ELSE ListTurn(upTo[k - 1], k)
  BY <1>5
<1> QED
  BY <1>6, <1>7, Zenon

\* That function lists the FDEs.
LEMMA ListedAre ==
  ASSUME NEW n \in Nat, n <= Ix!Size, ix_section \in Seq(Entries), NEW h,
         \A k \in 0 .. n : h[k] = IF k = 0 THEN <<>> ELSE ListTurn(h[k - 1], k)
  PROVE  Lists(h[n], 1, n)
<1> DEFINE S == {k \in Nat : k <= n => Lists(h[k], 1, k)}
<1>0. Ix!Size \in Nat
  BY DEF Ix!Size
<1>1. 0 \in S
  <2> DEFINE q == h[0]
  <2>1. q = <<>>
    OBVIOUS
  <2> HIDE DEF q
  <2>2. q \in Seq(1..Ix!Size) /\ Len(q) = 0
    BY <2>1
  <2>3. {q[x] : x \in 1..Len(q)} = {i \in 1 .. 0 : Ix!IsFde(i)}
    BY <2>2
  <2>4. Lists(q, 1, 0)
    BY <2>2, <2>3 DEF Lists
  <2> QED
    BY <2>4 DEF q
<1>2. ASSUME NEW k \in Nat, k \in S PROVE k + 1 \in S
  <2>1. CASE k + 1 <= n
    <3>1. h[k + 1] = ListTurn(h[k], k + 1) /\ Lists(h[k], 1, k)
      BY <1>2, <2>1
    <3>2. k + 1 \in 1..Ix!Size /\ (k + 1) - 1 = k /\ 1 <= k + 1
      BY <1>0, <2>1
    <3>3. CASE Ix!IsFde(k + 1)
      <4>1. Lists(Append(h[k], k + 1), 1, k + 1)
        BY <3>1, <3>2, <3>3, ListsAppend
      <4> QED
        BY <3>1, <3>3, <4>1 DEF ListTurn
    <3>4. CASE ~Ix!IsFde(k + 1)
      <4>1. Lists(h[k], 1, k + 1)
        BY <3>1, <3>2, <3>4, ListsSkip
      <4> QED
        BY <3>1, <3>4, <4>1 DEF ListTurn
    <3> QED
      BY <3>3, <3>4
  <2>2. CASE ~(k + 1 <= n)
    BY <2>2
  <2> QED
    BY <2>1, <2>2
<1> HIDE DEF S
<1>3. n \in S
  BY <1>1, <1>2, Induct, Zenon
<1> QED
  BY <1>3 DEF S

(***************************************************************************)
(* The inductive invariants: one of any section, one of sections whose     *)
(* FDEs are in the order of their first pc                                 *)
(***************************************************************************)
IndexInv ==
  /\ ix_section \in Sections /\ ix_next \in 1 .. Ix!Size + 1 /\ Sound(ix_fdes)
  /\ Ix!ReturnedFdeCovers /\ Ix!ListsAll
OrderInv == Ordered(ix_fdes, ix_next - 1) /\ Ix!FindsFirst

\* A section that is known has entries of the types assumed.
LEMMA SectionTypes ==
  ASSUME Ix!FdeIndexAssumption, ix_section \in Sections
  PROVE  ix_section \in Seq(Entries) /\ Ix!Size \in Nat
  BY DEF Ix!FdeIndexAssumption, Entries, Ix!Size

\* Initially
LEMMA IndexInit ==
  ASSUME Ix!FdeIndexAssumption, Ix!Init
  PROVE  IndexInv /\ Ordered(ix_fdes, ix_next - 1) /\ Ix!FindsFirst
<1>1. ix_section \in Sections /\ ix_next = 1 /\ ix_fdes = <<>> /\ ix_result.op = "none"
  BY DEF Ix!Init
<1>2. ix_section \in Seq(Entries) /\ Ix!Size \in Nat
  BY <1>1, SectionTypes
<1>3. DOMAIN ix_fdes = {}
  BY <1>1
<1>4. Sound(ix_fdes)
  BY <1>3 DEF Sound
<1>5. Ix!ReturnedFdeCovers /\ Ix!ListsAll /\ Ix!FindsFirst
  BY <1>1 DEF Ix!ReturnedFdeCovers, Ix!ListsAll, Ix!FindsFirst
<1>6. Tight(ix_fdes, 0)
  BY <1>3 DEF Tight
<1>7. \A j \in 1..Ix!Size : 0 <= ix_section[j].lo
  BY <1>2, EntryTypes
<1>8. Extends(ix_fdes, 0)
  BY <1>6, <1>7 DEF Extends
<1>9. FirstAt(ix_fdes) /\ Complete(ix_fdes, 0)
  BY <1>2, <1>3 DEF FirstAt, Complete
<1>10. ix_next - 1 = 0 /\ ix_next \in 1 .. Ix!Size + 1
  BY <1>1, <1>2
<1>11. Ordered(ix_fdes, ix_next - 1)
  BY <1>4, <1>8, <1>9, <1>10 DEF Ordered
<1> QED
  BY <1>1, <1>4, <1>5, <1>10, <1>11 DEF IndexInv

\* The index stays what it is in a section that does not change.
LEMMA SameSection ==
  ASSUME ix_section' = ix_section
  PROVE  \A map : (Sound(map) => Sound(map)') /\ \A n : Ordered(map, n) => Ordered(map, n)'
<1>1. ASSUME NEW map PROVE Sound(map) => Sound(map)'
  BY DEF Sound, Part, Ix!IsFde, Ix!Size
<1>2. ASSUME NEW map, NEW n PROVE Extends(map, n) => Extends(map, n)'
  BY Zenon DEF Extends, Tight, Ix!IsFde, Ix!Size
<1>3. ASSUME NEW map PROVE FirstAt(map) => FirstAt(map)'
  BY Zenon DEF FirstAt, Holds, Ix!Covers, Ix!IsFde, Ix!Size
<1>4. ASSUME NEW map, NEW n PROVE Complete(map, n) => Complete(map, n)'
  BY Zenon DEF Complete, Holds, Ix!Covers, Ix!IsFde, Ix!Size
<1> QED
  BY <1>1, <1>2, <1>3, <1>4, Zenon DEF Ordered

\* What a step leaves of the index: what it was, or what was read
Kept == UNCHANGED <<ix_next, ix_fdes>>
ReadOn(wanted) == ix_next' = Ix!ReadUntil(wanted).next /\ ix_fdes' = Ix!ReadUntil(wanted).fdes

\* Either way it is sound, and in order if it was.
LEMMA IndexStep ==
  ASSUME Ix!FdeIndexAssumption, IndexInv, ix_section' = ix_section, NEW wanted, \A i \in wanted : Ix!IsFde(i),
         Kept \/ ReadOn(wanted)
  PROVE  /\ ix_section' \in Sections /\ ix_next' \in 1 .. Ix!Size' + 1 /\ Sound(ix_fdes)'
         /\ InOrder /\ Ordered(ix_fdes, ix_next - 1) => Ordered(ix_fdes, ix_next - 1)'
<1>0. ix_section \in Seq(Entries) /\ Ix!Size \in Nat /\ Ix!Size' = Ix!Size /\ ix_section \in Sections
  BY SectionTypes DEF IndexInv, Ix!Size
<1>1. Sound(ix_fdes) /\ ix_next \in 1 .. Ix!Size + 1
  BY DEF IndexInv
<1>2. ix_next' \in 1 .. Ix!Size + 1 /\ Sound(ix_fdes') /\ (InOrder /\ Ordered(ix_fdes, ix_next - 1) => Ordered(ix_fdes', ix_next' - 1))
  <2>1. CASE Kept
    BY <1>1, <2>1 DEF Kept
  <2>2. CASE ReadOn(wanted)
    <3> DEFINE s == Ix!ReadUntil(wanted)
    <3>1. ReadAny(s, Ix!Size - ix_next + 1)
      BY <1>0, <1>1, ReadUntilIs
    <3>2. ix_next' = s.next /\ ix_fdes' = s.fdes
      BY <2>2 DEF ReadOn
    <3> HIDE DEF s
    <3>3. ix_next' \in 1 .. Ix!Size + 1
      BY <1>0, <1>1, <3>1, <3>2 DEF ReadAny
    <3> QED
      BY <3>1, <3>2, <3>3, Zenon DEF ReadAny
  <2> QED
    BY <2>1, <2>2
<1>3. \A map : (Sound(map) => Sound(map)') /\ \A n : Ordered(map, n) => Ordered(map, n)'
  BY SameSection, Zenon
<1> QED
  BY <1>0, <1>2, <1>3

\* What GetFdeFromPc returns, from the index and from the section
Returned(p) ==
  LET wanted == {i \in 1..Ix!Size : Ix!Covers(i, p)}
      s == Ix!ReadUntil(wanted)
  IN  IF Ix!Lookup(ix_fdes, p) # 0 THEN <<Ix!Lookup(ix_fdes, p)>>
      ELSE IF Ix!Found(s, wanted) THEN <<s.read[Len(s.read)]>> ELSE <<>>

\* It covers the pc.
LEMMA ReturnedCovers ==
  ASSUME Ix!FdeIndexAssumption, IndexInv, NEW p \in Nat
  PROVE  \A n \in 1..Len(Returned(p)) : Ix!Covers(Returned(p)[n], p)
<1> DEFINE wanted == {i \in 1..Ix!Size : Ix!Covers(i, p)}
           s == Ix!ReadUntil(wanted)
           hit == Ix!Lookup(ix_fdes, p)
<1>1. ix_section \in Seq(Entries) /\ Sound(ix_fdes)
  BY SectionTypes DEF IndexInv
<1>2. CASE hit # 0
  <2>1. Returned(p) = <<hit>>
    BY <1>2, Zenon DEF Returned
  <2>2. Ix!Covers(hit, p)
    BY <1>1, <1>2, LookupCovers, Zenon
  <2> HIDE DEF hit
  <2> QED
    BY <2>1, <2>2
<1>3. CASE hit = 0 /\ Ix!Found(s, wanted)
  <2> DEFINE final == s.read[Len(s.read)]
  <2>1. Returned(p) = <<final>>
    BY <1>3, Zenon DEF Returned
  <2>2. Ix!Covers(final, p)
    BY <1>3, Zenon DEF Ix!Found
  <2> HIDE DEF final
  <2> QED
    BY <2>1, <2>2
<1>4. CASE hit = 0 /\ ~Ix!Found(s, wanted)
  <2>1. Returned(p) = <<>>
    BY <1>4, Zenon DEF Returned
  <2> QED
    BY <2>1
<1> QED
  BY <1>2, <1>3, <1>4, Zenon

\* In a section in order that can be read, it is the first that does.
LEMMA ReturnedFirst ==
  ASSUME Ix!FdeIndexAssumption, IndexInv, Ordered(ix_fdes, ix_next - 1), Ix!Readable, NEW p \in Nat
  PROVE  Returned(p) = IF Ix!Covering(p) = {} THEN <<>> ELSE <<Ix!Min(Ix!Covering(p))>>
<1> DEFINE wanted == {i \in 1..Ix!Size : Ix!Covers(i, p)}
           s == Ix!ReadUntil(wanted)
           hit == Ix!Lookup(ix_fdes, p)
<1>0. ix_section \in Seq(Entries) /\ Sound(ix_fdes) /\ ix_next \in 1 .. Ix!Size + 1 /\ Ix!Size \in Nat
  BY SectionTypes DEF IndexInv
<1>1. Ix!Covering(p) = wanted /\ wanted \in SUBSET Nat
  BY DEF Ix!Covering
<1>2. ASSUME NEW i \in 1..Ix!Size, Ix!Covers(i, p), \A j \in 1..Ix!Size : Ix!Covers(j, p) => i <= j, Returned(p) = <<i>>
      PROVE  Returned(p) = IF Ix!Covering(p) = {} THEN <<>> ELSE <<Ix!Min(Ix!Covering(p))>>
  <2>1. i \in wanted /\ \A j \in wanted : i <= j
    BY <1>2
  <2> HIDE DEF wanted
  <2>2. Ix!Min(wanted) = i /\ wanted # {}
    BY <1>1, <2>1, MinUnique
  <2> QED
    BY <1>1, <1>2, <2>2, Zenon
<1>3. CASE hit # 0
  <2>1. Returned(p) = <<hit>>
    BY <1>3, Zenon DEF Returned
  <2>2. hit \in 1..Ix!Size /\ Ix!Covers(hit, p)
    BY <1>0, <1>3, LookupCovers, Zenon
  <2>3. PICK k \in DOMAIN ix_fdes : hit = ix_fdes[k].fde /\ Holds(ix_fdes, k, p)
    BY <1>0, <1>3, LookupHolds, Zenon
  <2>4. \A j \in 1..Ix!Size : j < hit => ~Ix!Covers(j, p)
    BY <2>3 DEF Ordered, FirstAt
  <2> HIDE DEF hit
  <2>5. \A j \in 1..Ix!Size : Ix!Covers(j, p) => hit <= j
    BY <2>2, <2>4
  <2> QED
    BY <1>2, <2>1, <2>2, <2>5
<1>4. CASE hit = 0
  <2>1. ReadAny(s, Ix!Size - ix_next + 1) /\ ReadAll(s, Ix!Size - ix_next + 1, wanted)
    <3>1. \A i \in wanted : Ix!IsFde(i)
      BY DEF Ix!Covers
    <3> HIDE DEF wanted
    <3> QED
      BY <1>0, <3>1, ReadUntilIs
  <2>2. ASSUME NEW j \in 1..Ix!Size, j <= ix_next - 1, Ix!Covers(j, p) PROVE FALSE
    <3>1. PICK k \in DOMAIN ix_fdes : Holds(ix_fdes, k, p)
      BY <2>2 DEF Ordered, Complete
    <3>2. PICK low \in Nat : Tight(ix_fdes, low)
      BY DEF Ordered, Extends
    <3> QED
      BY <1>0, <1>4, <3>1, <3>2, LookupFinds, Zenon
  <2>3. CASE Ix!Found(s, wanted)
    <3> DEFINE final == s.read[Len(s.read)]
    <3>1. Returned(p) = <<final>>
      BY <1>4, <2>3, Zenon DEF Returned
    <3>2. final \in wanted
      BY <2>3, Zenon DEF Ix!Found
    <3>3. \A i \in ix_next .. s.next - 1 : i \in wanted => i = final
      BY <2>1 DEF ReadAll
    <3>4. s.read \in Seq(1..Ix!Size) /\ s.read # <<>> /\ Lists(s.read, ix_next, s.next - 1)
      BY <2>1, <2>3 DEF ReadAll, ReadAny, Ix!Found
    <3>5. Len(s.read) \in 1..Len(s.read)
      BY <3>4
    <3>6. final \in ix_next .. s.next - 1 /\ s.next \in Nat
      BY <2>1, <3>4, <3>5, Zenon DEF Lists, ReadAny
    <3>7. final \in 1..Ix!Size /\ Ix!Covers(final, p)
      BY <3>2
    <3> HIDE DEF final
    <3>8. ASSUME NEW j \in 1..Ix!Size, Ix!Covers(j, p) PROVE final <= j
      <4>1. j \in wanted /\ j >= ix_next
        BY <1>0, <2>2, <3>8
      <4>2. CASE j <= s.next - 1
        <5>1. j \in ix_next .. s.next - 1
          BY <1>0, <3>6, <4>1, <4>2
        <5>2. j = final
          BY <3>3, <4>1, <5>1
        <5> QED
          BY <3>7, <5>2
      <4>3. CASE ~(j <= s.next - 1)
        BY <3>6, <3>7, <4>3
      <4> QED
        BY <4>2, <4>3
    <3> QED
      BY <1>2, <3>1, <3>7, <3>8
  <2>4. CASE ~Ix!Found(s, wanted)
    <3>1. Returned(p) = <<>>
      BY <1>4, <2>4, Zenon DEF Returned
    <3>2. s.next = ix_next + (Ix!Size - ix_next + 1)
      BY <2>1, <2>4, Zenon DEF ReadAll
    <3>3. s.next - 1 = Ix!Size
      BY <1>0, <3>2
    <3>4. \A i \in ix_next .. Ix!Size : i \notin wanted
      BY <2>1, <2>4, <3>3, Zenon DEF ReadAll
    <3>5. ASSUME NEW j \in wanted PROVE FALSE
      BY <1>0, <2>2, <3>4
    <3> QED
      BY <1>1, <3>1, <3>5
  <2> QED
    BY <2>3, <2>4, Zenon
<1> QED
  BY <1>3, <1>4, Zenon

\* GetFdeFromPc keeps both invariants.
LEMMA LookupKeeps ==
  ASSUME Ix!FdeIndexAssumption, IndexInv, NEW p \in Pcs, Ix!GetFdeFromPc(p)
  PROVE  IndexInv' /\ (InOrder /\ OrderInv => OrderInv')
<1> DEFINE wanted == {i \in 1..Ix!Size : Ix!Covers(i, p)}
<1>0. p \in Nat
  BY DEF Ix!FdeIndexAssumption
<1>1. ix_section' = ix_section /\ ix_result' = [op |-> "GetFdeFromPc", pc |-> p, fdes |-> Returned(p)]
  BY Zenon DEF Ix!GetFdeFromPc, Returned
<1>2. Kept \/ ReadOn(wanted)
  BY Zenon DEF Ix!GetFdeFromPc, Kept, ReadOn
<1>3. \A i \in wanted : Ix!IsFde(i)
  BY DEF Ix!Covers
<1>4. \A n \in 1..Len(Returned(p)) : Ix!Covers(Returned(p)[n], p)
  BY <1>0, ReturnedCovers
<1> HIDE DEF wanted
<1>5. /\ ix_section' \in Sections /\ ix_next' \in 1 .. Ix!Size' + 1 /\ Sound(ix_fdes)'
      /\ InOrder /\ Ordered(ix_fdes, ix_next - 1) => Ordered(ix_fdes, ix_next - 1)'
  BY <1>1, <1>2, <1>3, IndexStep, Zenon
<1> DEFINE r == Returned(p)
<1>6. ix_result'.op = "GetFdeFromPc" /\ ix_result'.pc = p /\ ix_result'.fdes = r
  BY <1>1
<1>7. Ix!ReturnedFdeCovers' /\ Ix!ListsAll'
  BY <1>1, <1>4, <1>6 DEF Ix!ReturnedFdeCovers, Ix!ListsAll, Ix!Covers, Ix!IsFde
<1>8. ASSUME InOrder, OrderInv PROVE Ix!FindsFirst'
  <2>1. Ix!Readable => r = IF Ix!Covering(p) = {} THEN <<>> ELSE <<Ix!Min(Ix!Covering(p))>>
    BY <1>0, <1>8, ReturnedFirst DEF OrderInv
  <2> HIDE DEF r
  <2>2. Ix!Readable' = Ix!Readable /\ \A x : Ix!Covering(x)' = Ix!Covering(x)
    BY <1>1 DEF Ix!Readable, Ix!Covering, Ix!Covers, Ix!IsFde, Ix!Cached, Ix!Size
  <2> QED
    BY <1>6, <2>1, <2>2, Zenon DEF Ix!FindsFirst
<1> QED
  BY <1>5, <1>7, <1>8, Zenon DEF IndexInv, OrderInv

\* So does GetFdes.
LEMMA ListKeeps ==
  ASSUME Ix!FdeIndexAssumption, IndexInv, Ix!GetFdes
  PROVE  IndexInv' /\ (InOrder /\ OrderInv => OrderInv')
<1> DEFINE holes == {i \in 1..(ix_next - 1) : ~Ix!Cached(i)}
<1>0. ix_section \in Seq(Entries) /\ Sound(ix_fdes) /\ ix_next \in 1 .. Ix!Size + 1 /\ Ix!Size \in Nat
  BY SectionTypes DEF IndexInv
<1>1. ix_section' = ix_section /\ ix_result'.op = "GetFdes"
  <2>1. ix_section' = ix_section /\ \E q : ix_result' = [op |-> "GetFdes", pc |-> 0, fdes |-> q]
    BY Zenon DEF Ix!GetFdes
  <2> QED
    BY <2>1
<1> DEFINE none == {}
<1>2. Kept \/ ReadOn(none)
  BY Zenon DEF Ix!GetFdes, Kept, ReadOn
<1>3. /\ ix_section' \in Sections /\ ix_next' \in 1 .. Ix!Size' + 1 /\ Sound(ix_fdes)'
      /\ InOrder /\ Ordered(ix_fdes, ix_next - 1) => Ordered(ix_fdes, ix_next - 1)'
  <2>1. \A i \in none : Ix!IsFde(i)
    OBVIOUS
  <2> HIDE DEF none
  <2> QED
    BY <1>1, <1>2, <2>1, IndexStep, Zenon
<1>4. Ix!ReturnedFdeCovers' /\ Ix!FindsFirst'
  BY <1>1 DEF Ix!ReturnedFdeCovers, Ix!FindsFirst
<1>5. ASSUME Ix!Readable PROVE Lists(ix_result'.fdes, 1, Ix!Size)
  <2>1. holes = {}
    BY <1>0, <1>5 DEF Ix!Readable
  <2> DEFINE s == Ix!ReadUntil({})
  <2>2. PICK h : /\ \A k \in 0 .. ix_next - 1 : h[k] = IF k = 0 THEN <<>> ELSE ListTurn(h[k - 1], k)
                 /\ ix_result' = [op |-> "GetFdes", pc |-> 0, fdes |-> h[ix_next - 1] \o s.read]
    <3>1. ix_next - 1 \in Nat
      BY <1>0
    <3> QED
      BY <2>1, <3>1, ListUnfolds, Zenon
  <2>3. Lists(h[ix_next - 1], 1, ix_next - 1)
    <3>1. ix_next - 1 \in Nat /\ ix_next - 1 <= Ix!Size
      BY <1>0
    <3> QED
      BY <1>0, <2>2, <3>1, ListedAre, Zenon
  <2>4. ReadAny(s, Ix!Size - ix_next + 1) /\ ReadAll(s, Ix!Size - ix_next + 1, {})
    BY <1>0, <1>5, ReadUntilIs
  <2> HIDE DEF s
  <2>5. ~Ix!Found(s, {})
    BY DEF Ix!Found
  <2>6. Lists(s.read, ix_next, Ix!Size)
    <3>1. s.next = ix_next + (Ix!Size - ix_next + 1) /\ Lists(s.read, ix_next, s.next - 1)
      BY <2>4, <2>5, Zenon DEF ReadAll
    <3>2. s.next - 1 = Ix!Size
      BY <1>0, <3>1
    <3> QED
      BY <3>1, <3>2
  <2>7. Lists(h[ix_next - 1] \o s.read, 1, Ix!Size)
    <3>1. ix_next \in Nat /\ 1 <= ix_next /\ ix_next <= Ix!Size + 1
      BY <1>0
    <3> QED
      BY <1>0, <2>3, <2>6, <3>1, ListsConcat
  <2> QED
    BY <2>2, <2>7
<1>6. Ix!ListsAll'
  <2>1. Ix!Readable' = Ix!Readable /\ (\A i : Ix!IsFde(i)' = Ix!IsFde(i)) /\ Ix!Size' = Ix!Size
    BY <1>1 DEF Ix!Readable, Ix!IsFde, Ix!Cached, Ix!Size
  <2>2. ASSUME Ix!Readable
        PROVE  /\ \A m, n \in 1..Len(ix_result'.fdes) : m < n => ix_result'.fdes[m] < ix_result'.fdes[n]
               /\ {ix_result'.fdes[n] : n \in 1..Len(ix_result'.fdes)} = {i \in 1..Ix!Size : Ix!IsFde(i)}
    BY <1>5, <2>2, Zenon DEF Lists
  <2> QED
    BY <2>1, <2>2, Zenon DEF Ix!ListsAll
<1> QED
  BY <1>3, <1>4, <1>6, Zenon DEF IndexInv, OrderInv

\* Steps that change nothing
LEMMA IndexStutters ==
  ASSUME IndexInv, UNCHANGED Ix!vars
  PROVE  IndexInv' /\ (OrderInv => OrderInv')
<1>1. ix_section' = ix_section /\ ix_next' = ix_next /\ ix_fdes' = ix_fdes /\ ix_result' = ix_result
  BY DEF Ix!vars
<1>2. \A map : (Sound(map) => Sound(map)') /\ \A n : Ordered(map, n) => Ordered(map, n)'
  BY <1>1, SameSection, Zenon
<1>3. Ix!ReturnedFdeCovers' /\ Ix!ListsAll' /\ (Ix!FindsFirst => Ix!FindsFirst')
  BY <1>1 DEF IndexInv, Ix!ReturnedFdeCovers, Ix!ListsAll, Ix!FindsFirst, Ix!Readable, Ix!Covering, Ix!Covers, Ix!IsFde, Ix!Cached, Ix!Size
<1>4. Ix!Size' = Ix!Size
  BY <1>1 DEF Ix!Size
<1> QED
  BY <1>1, <1>2, <1>3, <1>4 DEF IndexInv, OrderInv

\* Every pc of an FDE that has been read is found in an index in order.
LEMMA OrderedComplete ==
  ASSUME Ix!FdeIndexAssumption, IndexInv, Ordered(ix_fdes, ix_next - 1)
  PROVE  Ix!IndexComplete
<1>1. ASSUME NEW i \in 1..(ix_next - 1), NEW p \in Pcs, Ix!Covers(i, p) PROVE Ix!Lookup(ix_fdes, p) # 0
  <2>1. p \in Nat /\ i \in 1..Ix!Size /\ i <= ix_next - 1 /\ Sound(ix_fdes)
    BY SectionTypes DEF Ix!FdeIndexAssumption, IndexInv
  <2>2. PICK k \in DOMAIN ix_fdes : Holds(ix_fdes, k, p)
    BY <1>1, <2>1 DEF Ordered, Complete
  <2>3. PICK low \in Nat : Tight(ix_fdes, low)
    BY DEF Ordered, Extends
  <2> QED
    BY <2>1, <2>2, <2>3, LookupFinds, Zenon
<1> QED
  BY <1>1 DEF Ix!IndexComplete

\* In any section, whatever can or cannot be read of it: the FDE returned for
\* a pc covers it; and where everything can be read, a listing gives every
\* FDE once and in order, whatever was looked up before.
THEOREM IndexCorrect ==
  ASSUME Ix!FdeIndexAssumption
  PROVE  Ix!Spec => [](Ix!ReturnedFdeCovers /\ Ix!ListsAll)
<1>1. Ix!Init => IndexInv
  BY IndexInit
<1>2. IndexInv /\ [Ix!Next]_(Ix!vars) => IndexInv'
  BY LookupKeeps, ListKeeps, IndexStutters DEF Ix!Next
<1>3. IndexInv => Ix!ReturnedFdeCovers /\ Ix!ListsAll
  BY DEF IndexInv
<1> QED
  BY <1>1, <1>2, <1>3, PTL DEF Ix!Spec

\* Where the FDEs are in the order of their first pc, a lookup returns the
\* first that covers the pc, and the index misses no pc of an FDE that has
\* been read, whatever was looked up and listed before.
THEOREM FirstFdeFound ==
  ASSUME Ix!FdeIndexAssumption, Ix!Ascending
  PROVE  Ix!Spec => [](Ix!FindsFirst /\ Ix!IndexComplete)
<1> DEFINE Inv == IndexInv /\ OrderInv
<1>1. Ix!Init => Inv
  BY IndexInit DEF OrderInv
<1>2. Inv /\ [Ix!Next]_(Ix!vars) => Inv'
  <2>1. IndexInv => InOrder
    BY DEF Ix!Ascending, InOrder, IndexInv, Ix!IsFde, Ix!Size
  <2> QED
    BY <2>1, LookupKeeps, ListKeeps, IndexStutters DEF Ix!Next
<1>3. Inv => Ix!FindsFirst /\ Ix!IndexComplete
  BY OrderedComplete DEF OrderInv
<1> QED
  BY <1>1, <1>2, <1>3, PTL DEF Ix!Spec
=============================================================================
