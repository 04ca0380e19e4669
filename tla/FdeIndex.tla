------------------------------ MODULE FdeIndex ------------------------------
(***************************************************************************)
(* The frame descriptions of a section without a search table               *)
(* (DwarfSectionImplNoHdr: .debug_frame, and .eh_frame without .eh_frame_hdr): *)
(* entries are read one after the other as lookups need them, and an index  *)
(* by the end of their pcs is kept of those read.                           *)
(*                                                                         *)
(* An entry of the section is a CIE, an FDE with its pcs lo..hi-1, one that *)
(* is "bad" (its length is read but the rest cannot be), or one that is     *)
(* "short" (not even its length can be read).  What is in an entry is       *)
(* DwarfEntries; here an offset is a position in the sequence of entries.   *)
(***************************************************************************)
EXTENDS Integers, Sequences, FiniteSetsExt

CONSTANTS Sections,     \* sequences of entries
          Pcs           \* pcs that are looked up

\* Entries that have a kind, and an FDE its pcs
FdeIndexAssumption ==
  /\ Pcs \subseteq Nat
  /\ \A s \in Sections :
       s \in Seq([kind : {"cie", "fde", "bad", "short"}, lo : Nat, hi : Nat, overrun : BOOLEAN])
\* FDEs in the order of their first pc, as a linker sorts functions
Ascending ==
  \A s \in Sections : \A i, j \in 1..Len(s) :
    i < j /\ s[i].kind = "fde" /\ s[j].kind = "fde" => s[i].lo <= s[j].lo

VARIABLES section,
          next,         \* next_entries_offset_
          fdes,         \* fdes_: end -> [start, fde]
          result        \* of the last lookup or listing

vars == <<section, next, fdes, result>>

Size == Len(section)
IsFde(i) == section[i].kind = "fde"
Cached(i) == section[i].kind \in {"cie", "fde"}      \* in cie_entries_ or fde_entries_
Covers(i, pc) == IsFde(i) /\ section[i].lo <= pc /\ pc < section[i].hi
Entry(start, i) == [start |-> start, fde |-> i]
-----------------------------------------------------------------------------
(* InsertFde: walks the index from the first entry that ends after the start  *)
(* of the FDE, and keeps what is there.                                      *)
Walked(map, start, add, done) == [fdes |-> map, start |-> start, add |-> add, done |-> done]
Insert(map, end, start, i) == [k \in DOMAIN map \cup {end} |-> IF k = end THEN Entry(start, i) ELSE map[k]]
Put(s, end, i) == Insert(s.fdes, end, s.start, i)
\* The gap before the entry k, if the one before it has just been passed
Gap(s, k, end, i) ==
  LET first == s.fdes[k].start
  IN  IF ~s.add THEN s
      ELSE IF end < first THEN Walked(IF k # end THEN Put(s, end, i) ELSE s.fdes, s.start, FALSE, TRUE)
      ELSE Walked(IF s.start # first THEN Put(s, first, i) ELSE s.fdes, s.start, FALSE, FALSE)
Overlap(s, k, end, i) ==
  IF s.done \/ s.start >= k THEN s
  ELSE IF end < s.fdes[k].start
       THEN Walked(IF k # end THEN Put(s, end, i) ELSE s.fdes, s.start, s.add, TRUE)
  ELSE Walked(s.fdes, s.start, TRUE, FALSE)
Walk(s, k, end, i) ==
  IF s.done \/ s.start >= end THEN s
  ELSE LET t == Overlap(Gap(s, k, end, i), k, end, i)
       IN  IF t.done THEN t ELSE Walked(t.fdes, k, t.add, FALSE)

Above(map, pc) == {k \in DOMAIN map : k > pc}      \* from upper_bound on
InsertFdeAtEnd(map, i) == Insert(map, section[i].hi, section[i].lo, i)
InsertFdeIfFree(map, i) ==
  IF \E k \in DOMAIN map : k > section[i].lo /\ map[k].start < section[i].hi THEN map
  ELSE Insert(map, section[i].hi, section[i].lo, i)
InsertFde(map, i) ==
  LET end == section[i].hi
      walk[k \in 0..Max(DOMAIN map \cup {0})] ==      \* up to the entry that ends at k
        IF k = 0 THEN Walked(map, section[i].lo, FALSE, FALSE)
        ELSE IF k \in Above(map, section[i].lo) THEN Walk(walk[k - 1], k, end, i) ELSE walk[k - 1]
      s == walk[Max(DOMAIN map \cup {0})]
  IN  IF ~s.done /\ s.start < end THEN Put(s, end, i) ELSE s.fdes

LookupAnyStart(map, pc) == IF Above(map, pc) = {} THEN 0 ELSE map[Min(Above(map, pc))].fde
Lookup(map, pc) ==
  LET hits == {k \in Above(map, pc) : k = Min(Above(map, pc)) /\ map[k].start <= pc}
  IN  IF hits = {} THEN 0 ELSE map[Min(hits)].fde
-----------------------------------------------------------------------------
(* One entry read at the cursor.  An entry that overruns its length ends the *)
(* reading this time: "Simply consider the processing done in this case."    *)
Reading(at, map, read, stop) == [next |-> at, fdes |-> map, read |-> read, stop |-> stop]
GetNextCieOrFde(s) ==
  LET i == s.next
      e == section[i]
  IN  IF e.kind = "short" THEN Reading(i, s.fdes, s.read, TRUE)
      ELSE IF e.kind = "bad" THEN Reading(i + 1, s.fdes, s.read, TRUE)
      ELSE IF e.kind = "cie" THEN Reading(i + 1, s.fdes, s.read, e.overrun)
      ELSE Reading(i + 1, InsertFde(s.fdes, i), Append(s.read, i), e.overrun)

\* Reading until a wanted FDE is found, or the reading ends
Found(s, wanted) == s.read # <<>> /\ s.read[Len(s.read)] \in wanted
ReadUntil(wanted) ==
  LET run[n \in 0..(Size - next + 1)] ==
        IF n = 0 THEN Reading(next, fdes, <<>>, FALSE)
        ELSE IF run[n - 1].stop \/ Found(run[n - 1], wanted) THEN run[n - 1] ELSE GetNextCieOrFde(run[n - 1])
  IN  run[Size - next + 1]

GetFdeFromPc(pc) ==
  LET hit == Lookup(fdes, pc)
      wanted == {i \in 1..Size : Covers(i, pc)}
      s == ReadUntil(wanted)
  IN  /\ IF hit # 0 THEN UNCHANGED <<next, fdes>> ELSE next' = s.next /\ fdes' = s.fdes
      /\ result' = [op |-> "GetFdeFromPc", pc |-> pc,
                    fdes |-> IF hit # 0 THEN <<hit>>
                             ELSE IF Found(s, wanted) THEN <<s.read[Len(s.read)]>> ELSE <<>>]
      /\ UNCHANGED section

GetFdesUnread ==
  LET s == ReadUntil({})
  IN  /\ next' = s.next /\ fdes' = s.fdes
      /\ result' = [op |-> "GetFdes", pc |-> 0, fdes |-> s.read]
      /\ UNCHANGED section
\* Entries already read, up to the first that was not kept; then the others
GetFdes ==
  LET holes == {i \in 1..(next - 1) : ~Cached(i)}
      upTo[n \in 0..(next - 1)] ==
        IF n = 0 THEN <<>> ELSE IF IsFde(n) THEN Append(upTo[n - 1], n) ELSE upTo[n - 1]
      s == ReadUntil({})
  IN  /\ IF holes # {}
         THEN /\ UNCHANGED <<next, fdes>>
              /\ result' = [op |-> "GetFdes", pc |-> 0, fdes |-> upTo[Min(holes) - 1]]
         ELSE /\ next' = s.next /\ fdes' = s.fdes
              /\ result' = [op |-> "GetFdes", pc |-> 0, fdes |-> upTo[next - 1] \o s.read]
      /\ UNCHANGED section

Init ==
  /\ section \in Sections /\ next = 1 /\ fdes = <<>>
  /\ result = [op |-> "none", pc |-> 0, fdes |-> <<>>]
Next == GetFdes \/ \E pc \in Pcs : GetFdeFromPc(pc)

Spec == Init /\ [][Next]_vars
-----------------------------------------------------------------------------
Covering(pc) == {i \in 1..Size : Covers(i, pc)}
Readable == \A i \in 1..Size : Cached(i) /\ ~section[i].overrun

\* The FDE returned for a pc covers it, from the index and from the section,
\* also after entries that could not be read.
ReturnedFdeCovers ==
  result.op = "GetFdeFromPc" => \A n \in 1..Len(result.fdes) : Covers(result.fdes[n], result.pc)

\* In a section that can be read, a lookup returns the first FDE in the
\* section that covers the pc, and nothing only if none does, whatever was
\* looked up and read into the index before.
FindsFirst ==
  Readable /\ result.op = "GetFdeFromPc" =>
    result.fdes = IF Covering(result.pc) = {} THEN <<>> ELSE <<Min(Covering(result.pc))>>

\* Listing gives every FDE once and in the order of the section, whichever
\* of them lookups have read before.
ListsAll ==
  Readable /\ result.op = "GetFdes" =>
    /\ \A m, n \in 1..Len(result.fdes) : m < n => result.fdes[m] < result.fdes[n]
    /\ {result.fdes[n] : n \in 1..Len(result.fdes)} = {i \in 1..Size : IsFde(i)}

\* Every pc of an FDE that has been read is in the index.
IndexComplete ==
  \A i \in 1..(next - 1) : \A pc \in Pcs : Covers(i, pc) => Lookup(fdes, pc) # 0
=============================================================================
