----------------------------- MODULE EhFrameHdr -----------------------------
(***************************************************************************)
(* The search table of .eh_frame_hdr (DwarfEhFrameWithHdr): a table of      *)
(* first pcs, sorted by the linker, and of the offsets of their FDEs.  A    *)
(* lookup searches it by bisection and reads the entries it probes into a   *)
(* cache; an entry may not be readable, and then it is not cached.          *)
(***************************************************************************)
EXTENDS Integers

CONSTANTS Count,          \* fde_count_
          Tables,         \* first pcs as the table has them, by index
          LoadBias,       \* added to the pcs of a table with a relative encoding
          Ends,           \* the ends that FDEs have (pc_end): 0 if one cannot be read
          Headers,        \* what Init reads, see Open
          Pcs

Index == 0..(Count - 1)

ASSUME CountAssumption == Count \in Nat /\ LoadBias \in Nat
ASSUME TablesAssumption == \A t \in Tables : t \in [Index -> Nat]
ASSUME PcsAssumption == Pcs \subseteq Nat /\ Ends \subseteq Nat

VARIABLES table, relative, unreadable, ends,    \* the section
          fde_info,                  \* fde_info_: the cached indexes, and their pcs
          phase, pc, first, last, at,
          fdes, error

section == <<table, relative, unreadable, ends>>
vars == <<table, relative, unreadable, ends, fde_info, phase, pc, first, last, at, fdes, error>>

TruePc(i) == IF relative THEN table[i] + LoadBias ELSE table[i]
-----------------------------------------------------------------------------
\* The checks of Init in their order
HeaderError(h) ==
  CASE ~h.readable -> "MEMORY_INVALID"
    [] h.readable /\ h.version # 1 -> "UNSUPPORTED_VERSION"
    [] h.readable /\ h.version = 1 /\ h.entry_size = 0 -> "ILLEGAL_VALUE"
    [] h.readable /\ h.version = 1 /\ h.entry_size # 0 /\ ~h.values -> "MEMORY_INVALID"
    [] OTHER -> IF Count = 0 THEN "NO_FDES" ELSE "NONE"
Open(h) ==
  /\ phase = "closed"
  /\ error' = HeaderError(h)
  /\ phase' = IF HeaderError(h) = "NONE" THEN "ready" ELSE "unusable"
  /\ UNCHANGED <<section, fde_info, pc, first, last, at, fdes>>

\* GetFdeInfoFromIndex: an entry that cannot be read is not kept
Readable(i) == i \in fde_info.cached \/ i \notin unreadable
InfoPc(i) == IF i \in fde_info.cached THEN fde_info.pc[i] ELSE TruePc(i)
CacheUnbiased(i) ==
  fde_info' = [cached |-> fde_info.cached \cup {i}, pc |-> [fde_info.pc EXCEPT ![i] = table[i]]]
Cache(i) ==
  fde_info' = IF i \in fde_info.cached THEN fde_info
              ELSE [cached |-> fde_info.cached \cup {i}, pc |-> [fde_info.pc EXCEPT ![i] = TruePc(i)]]
Unreadable(i) ==
  /\ ~Readable(i)
  /\ phase' = "failed" /\ error' = "MEMORY_INVALID"
  /\ UNCHANGED <<section, fde_info, pc, first, last, at, fdes>>

\* GetFdeFromPc, GetFdeOffsetFromPc: up to the loop
GetFdeFromPc(p) ==
  /\ phase = "ready"
  /\ phase' = "search" /\ pc' = p /\ first' = 0 /\ last' = Count /\ at' = Count
  /\ UNCHANGED <<section, fde_info, fdes, error>>

Current == (first + last) \div 2
ProbeFails == phase = "search" /\ first < last /\ Unreadable(Current)
ProbeFound ==
  /\ phase = "search" /\ first < last /\ Readable(Current) /\ pc = InfoPc(Current)
  /\ Cache(Current) /\ at' = Current /\ phase' = "found"
  /\ UNCHANGED <<section, pc, first, last, fdes, error>>
ProbeLower ==
  /\ phase = "search" /\ first < last /\ Readable(Current) /\ pc < InfoPc(Current)
  /\ Cache(Current) /\ last' = Current
  /\ UNCHANGED <<section, phase, pc, first, at, fdes, error>>
ProbeHigherStays ==
  /\ phase = "search" /\ first < last /\ Readable(Current) /\ pc > InfoPc(Current)
  /\ Cache(Current) /\ first' = Current
  /\ UNCHANGED <<section, phase, pc, last, at, fdes, error>>
ProbeHigher ==
  /\ phase = "search" /\ first < last /\ Readable(Current) /\ pc > InfoPc(Current)
  /\ Cache(Current) /\ first' = Current + 1
  /\ UNCHANGED <<section, phase, pc, last, at, fdes, error>>

\* After the loop: the entry before last
SearchNone ==
  /\ phase = "search" /\ first >= last /\ last = 0
  /\ phase' = "none"
  /\ UNCHANGED <<section, fde_info, pc, first, last, at, fdes, error>>
SearchFails == phase = "search" /\ first >= last /\ last # 0 /\ Unreadable(last - 1)
SearchEndsAtLast ==
  /\ phase = "search" /\ first >= last /\ last # 0 /\ Readable(last - 1)
  /\ Cache(last - 1) /\ phase' = "found" /\ at' = IF last = Count THEN last - 1 ELSE last
  /\ UNCHANGED <<section, pc, first, last, fdes, error>>
SearchEnds ==
  /\ phase = "search" /\ first >= last /\ last # 0 /\ Readable(last - 1)
  /\ Cache(last - 1) /\ at' = last - 1 /\ phase' = "found"
  /\ UNCHANGED <<section, pc, first, last, fdes, error>>

\* GetFdeFromOffset, and the end that the FDE itself has
ReadFdeAnyEnd ==
  /\ phase = "found"
  /\ IF ends[at] = 0 THEN phase' = "failed" /\ error' = "MEMORY_INVALID"
     ELSE phase' = "fde" /\ UNCHANGED error
  /\ UNCHANGED <<section, fde_info, pc, first, last, at, fdes>>
ReadFde ==
  /\ phase = "found"
  /\ IF ends[at] = 0 THEN phase' = "failed" /\ error' = "MEMORY_INVALID"
     ELSE IF pc < ends[at] THEN phase' = "fde" /\ UNCHANGED error
     ELSE phase' = "failed" /\ error' = "ILLEGAL_STATE"
  /\ UNCHANGED <<section, fde_info, pc, first, last, at, fdes>>

\* GetFdes lists the FDEs up to the first entry or FDE that cannot be read.
GetFdes ==
  LET stop == {i \in Index : ~Readable(i) \/ ends[i] = 0}
      before == {i \in Index : \A j \in stop : i < j}
      probed == {i \in Index : Readable(i) /\ \A j \in stop : i <= j}
  IN  /\ phase = "ready"
      /\ fdes' = before
      /\ fde_info' = [cached |-> fde_info.cached \cup probed,
                      pc |-> [i \in Index |-> IF i \in probed THEN InfoPc(i) ELSE fde_info.pc[i]]]
      /\ UNCHANGED <<section, phase, pc, first, last, at, error>>

\* The caller has the result; its memory may be readable again, or no longer.
Return ==
  /\ phase \in {"fde", "failed", "none"}
  /\ phase' = "ready" /\ \E u \in SUBSET Index : unreadable' = u
  /\ UNCHANGED <<table, relative, ends, fde_info, pc, first, last, at, fdes, error>>

Init ==
  /\ table \in Tables /\ relative \in BOOLEAN /\ unreadable \in SUBSET Index
  /\ ends \in [Index -> Ends]
  /\ fde_info = [cached |-> {}, pc |-> [i \in Index |-> 0]]
  /\ phase = "closed" /\ pc = 0 /\ first = 0 /\ last = 0 /\ at = Count /\ fdes = {} /\ error = "NONE"

SearchStep ==
  ProbeFails \/ ProbeFound \/ ProbeLower \/ ProbeHigher \/ SearchNone \/ SearchFails \/ SearchEnds
Next ==
  \/ \E h \in Headers : Open(h)
  \/ \E p \in Pcs : GetFdeFromPc(p)
  \/ SearchStep \/ ReadFde \/ GetFdes \/ Return

Spec == Init /\ [][Next]_vars
\* The thread that looks a pc up goes on until it has searched.
FairSpec == Spec /\ WF_vars(SearchStep)
-----------------------------------------------------------------------------
Sorted == \A i, j \in Index : i < j => table[i] <= table[j]

TypeOK ==
  /\ table \in Tables /\ relative \in BOOLEAN /\ unreadable \subseteq Index
  /\ ends \in [Index -> Ends]
  /\ fde_info \in [cached : SUBSET Index, pc : [Index -> Nat]]
  /\ phase \in {"closed", "unusable", "ready", "search", "found", "fde", "failed", "none"}
  /\ pc \in Nat /\ first \in 0..Count /\ last \in 0..Count /\ at \in 0..Count

\* In a sorted table the search ends at the entry with the greatest first pc
\* not above pc, and finds none only if all are above it, whichever entries
\* were cached by earlier lookups and whichever could not be read before.
SearchFindsGreatest ==
  Sorted =>
    /\ phase = "found" =>
         /\ at \in Index /\ TruePc(at) <= pc
         /\ \A i \in Index : TruePc(i) <= pc => TruePc(i) <= TruePc(at)
    /\ phase = "none" => \A i \in Index : TruePc(i) > pc

\* The FDE returned for a pc is the one that the table has for it, "Guaranteed
\* pc >= pc_start" by the search, and does not end before it: the end is the
\* one of the FDE, which need not agree with the table.
ReturnedFdeCovers ==
  Sorted /\ phase = "fde" => at \in Index /\ TruePc(at) <= pc /\ pc < ends[at]

\* Cached entries are the ones of the table, with the load bias added once.
CacheIsTable == \A i \in fde_info.cached : fde_info.pc[i] = TruePc(i)

\* Every probe makes the range that is left smaller.
SearchShrinks == [][phase = "search" /\ phase' = "search" => last' - first' < last - first]_vars

\* A search comes to its end, also in a table that is not sorted.
SearchEndsSometime == phase = "search" ~> phase # "search"
-----------------------------------------------------------------------------
(* The inductive invariant: entries before first are not above pc, entries   *)
(* from last on are above it.                                                *)
RangeInv ==
  /\ phase = "search" =>
       /\ first <= last
       /\ Sorted => /\ \A i \in Index : i < first => TruePc(i) <= pc
                    /\ \A i \in Index : i >= last => TruePc(i) > pc
IInv == TypeOK /\ CacheIsTable /\ RangeInv /\ SearchFindsGreatest /\ ReturnedFdeCovers
=============================================================================
