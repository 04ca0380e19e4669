----------------------------- MODULE LocalMaps -----------------------------
(***************************************************************************)
(* The maps of the own process, re-read while they are in use:             *)
(* LocalUpdatableMaps (libunwindstack/Maps.cpp) under LocalUnwinder's       *)
(* reader-writer lock (libunwindstack/LocalUnwinder.cpp).  Several threads  *)
(* unwind; each looks its pcs up and keeps the MapInfo pointers in its      *)
(* frames.  A pc that is not found makes the thread re-read /proc/self/maps *)
(* and look again.                                                          *)
(*                                                                         *)
(* The lock makes the first Find one step, and Reparse with the second Find *)
(* another; anything may happen in between.  A MapInfo object is named by a *)
(* number that is never used again, and a unique_ptr that is null by 0.     *)
(***************************************************************************)
EXTENDS Integers, Sequences, FiniteSets, SequencesExt

CONSTANTS Threads,      \* the threads that unwind
          Mappings,     \* what the kernel can map: [start, end, kind, offset]
                        \* records, kind standing for the flags and the name
          Fixed,        \* the mappings that are there all the time
          Pcs,          \* the addresses that are looked up
          MaxFrames,    \* max_frames, the frames an unwind collects
          MaxParses     \* bound: re-reads of /proc/self/maps

Overlap(m, n) == m.start < n.end /\ n.start < m.end
Disjoint(S) == \A m, n \in S : m # n => ~Overlap(m, n)

ASSUME MappingsAssumption ==
  /\ IsFiniteSet(Mappings)
  /\ \A m \in Mappings :
       /\ m = [start |-> m.start, end |-> m.end, kind |-> m.kind, offset |-> m.offset]
       /\ m.start \in Nat /\ m.end \in Nat /\ m.start < m.end
  /\ Fixed \subseteq Mappings /\ Disjoint(Fixed)
  /\ Pcs \subseteq Nat
  /\ MaxFrames \in Nat \ {0}

VARIABLES
  kernel,     \* the mappings of the process now
  snapshot,   \* the mappings when they were last read
  objects,    \* every MapInfo ever made: its mapping and its prev_map
  maps,       \* maps_, the objects in use
  saved,      \* saved_maps_
  missed,     \* the pc a thread did not find, between its two sections
  held,       \* the MapInfo pointers in the frames of each thread
  parses,     \* number of re-reads
  crashed     \* a null pointer was followed, or resize was given -1

vars == <<kernel, snapshot, objects, maps, saved, missed, held, parses, crashed>>

NoPc == -1
MapOf(id) == objects[id].map
Live == ToSet(maps) \cup saved
\* std::sort by start, of things that start at different addresses: each comes
\* after the ones that start before it.
Sorted(S, start) ==
  [k \in 1..Cardinality(S) |-> CHOOSE x \in S : Cardinality({y \in S : start[y] < start[x]}) = k - 1]
InOrder(S) == Sorted(S, [m \in S |-> m.start])
-----------------------------------------------------------------------------
(* Maps::Find: binary search, first and last as in the code. *)
HitEnd(m, pc) == pc >= m.start /\ pc <= m.end
Hit(m, pc) == pc >= m.start /\ pc < m.end

\* One pass of the loop
Probe(w, pc) ==
  LET index == (w.first + w.last) \div 2
      cur == maps[index + 1]
  IN  IF w.found # 0 \/ w.first >= w.last THEN w
      ELSE IF Hit(MapOf(cur), pc) THEN [w EXCEPT !.found = cur]
      ELSE IF pc < MapOf(cur).start THEN [w EXCEPT !.last = index]
      ELSE [w EXCEPT !.first = index + 1]

\* A pass leaves less to search: there are no more of them than maps.
Find(pc) ==
  LET pass[k \in 0..Len(maps)] ==
        IF k = 0 THEN [first |-> 0, last |-> Len(maps), found |-> 0] ELSE Probe(pass[k - 1], pc)
  IN  pass[Len(maps)].found

(* Maps::Parse: the objects for the mappings read, each made with the object *)
(* before it in maps_ as prev_map.                                           *)
Parsed(new) ==
  [k \in 1..Len(new) |->
     [map |-> new[k],
      prev |-> IF k > 1 THEN Len(objects) + k - 1
               ELSE IF maps = <<>> THEN 0 ELSE maps[Len(maps)]]]

(* LocalUpdatableMaps::Reparse, the loop over the new maps: what is known    *)
(* after the first k of them.  The inner loop over the old maps ends at      *)
(* stop: at an equal one, at one that starts later, or past the last one.    *)
(* It follows every pointer up to there, and moves away what it passes.      *)
MatchNever(m, n) == FALSE
Match(m, n) == m.start = n.start /\ m.end = n.end /\ m.kind = n.kind

NextSearchHere(search, last, stop, same) == IF stop > last THEN search ELSE stop
NextSearch(search, last, stop, same) ==
  IF stop > last THEN search ELSE IF same THEN stop + 1 ELSE stop

ScanMap(s, m, k) ==
  LET last == Len(maps)
      stop == Min({j \in s.search..last : Match(MapOf(maps[j]), m) \/ MapOf(maps[j]).start > m.start}
                    \cup {last + 1})
      same == stop <= last /\ Match(MapOf(maps[stop]), m)
  IN  IF k > 1 /\ s.search > last THEN s
      ELSE [search  |-> NextSearch(s.search, last, stop, same),
            moved   |-> s.moved \cup s.search..(stop - 1),
            dropped |-> s.dropped \cup (IF same THEN {k} ELSE {}),
            null    |-> s.null \/ (s.search <= last /\ s.search \in s.moved)]

Scan(new) ==
  LET scan[k \in 0..Len(new)] ==
        IF k = 0 THEN [search |-> 1, moved |-> {}, dropped |-> {}, null |-> FALSE]
        ELSE ScanMap(scan[k - 1], new[k], k)
  IN  scan[Len(new)]

(* The rest of Reparse: what was not reached is moved away as well, and is   *)
(* subtracted from total_entries once more if the loop had moved it.         *)
TotalEntries(new, s) ==
  Len(maps) + Len(new) - Cardinality(s.dropped) - Cardinality(s.moved)
    - (Len(maps) - s.search + 1)

SavedNone(s) == saved
Saved(s) == saved \cup {maps[j] : j \in s.moved \cup s.search..Len(maps)}

Reparse ==
  LET new == InOrder(kernel)
      s == Scan(new)
      objs == objects \o Parsed(new)
      kept == {maps[j] : j \in 1..(s.search - 1) \ s.moved}
                \cup {Len(objects) + k : k \in DOMAIN new \ s.dropped}
      sorted == Sorted(kept, [i \in kept |-> objs[i].map.start])
      total == TotalEntries(new, s)
  IN  /\ parses' = parses + 1
      /\ crashed' = (s.null \/ total < 0)
      /\ IF crashed' THEN UNCHANGED <<objects, maps, saved, snapshot>>
         ELSE /\ objects' = objs
              /\ maps' = SubSeq(sorted, 1, total)
              /\ saved' = Saved(s)
              /\ snapshot' = kernel
-----------------------------------------------------------------------------
(* LocalUnwinder::GetMapInfo, and the frame it is for *)

Lookup(t, pc) ==
  /\ ~crashed /\ missed[t] = NoPc /\ Cardinality(held[t]) < MaxFrames
  /\ IF Find(pc) = 0
     THEN missed' = [missed EXCEPT ![t] = pc] /\ UNCHANGED held
     ELSE held' = [held EXCEPT ![t] = @ \cup {Find(pc)}] /\ UNCHANGED missed
  /\ UNCHANGED <<kernel, snapshot, objects, maps, saved, parses, crashed>>

\* Reparse and the second Find, under the write lock.
LookupAgain(t, pc) ==
  /\ ~crashed /\ missed[t] = pc /\ parses < MaxParses
  /\ Reparse
  /\ missed' = [missed EXCEPT ![t] = NoPc]
  /\ held' = IF crashed' \/ Find(pc)' = 0 THEN held ELSE [held EXCEPT ![t] = @ \cup {Find(pc)'}]
  /\ UNCHANGED kernel

\* /proc/self/maps cannot be read: what was added is resized away.
ParseFails(t) ==
  /\ ~crashed /\ missed[t] # NoPc
  /\ missed' = [missed EXCEPT ![t] = NoPc]
  /\ UNCHANGED <<kernel, snapshot, objects, maps, saved, held, parses, crashed>>

\* The unwind is over and the caller drops its frames.
Done(t) ==
  /\ ~crashed /\ missed[t] = NoPc /\ held[t] # {}
  /\ held' = [held EXCEPT ![t] = {}]
  /\ UNCHANGED <<kernel, snapshot, objects, maps, saved, missed, parses, crashed>>

\* mmap, munmap and mprotect, by any thread at any time.
MMap(m) ==
  /\ ~crashed /\ m \notin kernel /\ Disjoint(kernel \cup {m})
  /\ kernel' = kernel \cup {m}
  /\ UNCHANGED <<snapshot, objects, maps, saved, missed, held, parses, crashed>>

MUnmap(m) ==
  /\ ~crashed /\ m \in kernel \ Fixed
  /\ kernel' = kernel \ {m}
  /\ UNCHANGED <<snapshot, objects, maps, saved, missed, held, parses, crashed>>
-----------------------------------------------------------------------------
\* LocalUnwinder::Init has parsed the maps once.
Init ==
  /\ kernel \in {S \in SUBSET Mappings : Fixed \subseteq S /\ Disjoint(S)}
  /\ snapshot = kernel
  /\ maps = [k \in 1..Cardinality(kernel) |-> k]
  /\ objects = [k \in 1..Cardinality(kernel) |-> [map |-> InOrder(kernel)[k], prev |-> k - 1]]
  /\ saved = {}
  /\ missed = [t \in Threads |-> NoPc]
  /\ held = [t \in Threads |-> {}]
  /\ parses = 0
  /\ crashed = FALSE

Next ==
  \/ \E t \in Threads, pc \in Pcs : Lookup(t, pc) \/ LookupAgain(t, pc)
  \/ \E t \in Threads : ParseFails(t) \/ Done(t)
  \/ \E m \in Mappings : MMap(m) \/ MUnmap(m)

Spec == Init /\ [][Next]_vars
-----------------------------------------------------------------------------

\* What Reparse takes for the same mapping.  It does not compare offsets: an
\* object may keep an older one.
SameMapping(m, n) == [m EXCEPT !.offset = 0] = [n EXCEPT !.offset = 0]

\* Reparse never deletes a MapInfo that a thread got from an earlier Find.
InUseNotDeleted == \A t \in Threads : held[t] \subseteq Live

\* After Reparse maps_ holds one object for every mapping that was read, in
\* order of address, and nothing else; in particular total_entries was right.
MapsAreSnapshot ==
  /\ ~crashed
  /\ Len(maps) = Cardinality(snapshot)
  /\ LET new == InOrder(snapshot) IN \A i \in DOMAIN maps : SameMapping(MapOf(maps[i]), new[i])

\* The binary search finds the mapping that contains a pc, if there is one.
FindsMapping ==
  \A pc \in Pcs :
    LET in == {m \in snapshot : m.start <= pc /\ pc < m.end}
    IN  IF in = {} THEN Find(pc) = 0 ELSE Find(pc) # 0 /\ \E m \in in : SameMapping(MapOf(Find(pc)), m)

\* A mapping that is still there keeps its MapInfo, and with it the Elf that
\* has been read for it.
SameMappingSameObject ==
  [][\A i \in DOMAIN maps : MapOf(maps[i]) \in snapshot' => maps[i] \in ToSet(maps')]_vars

\* The prev_map of a map in use is an object that still exists.
PrevMapExists == \A i \in DOMAIN maps : objects[maps[i]].prev \in Live \cup {0}
=============================================================================
