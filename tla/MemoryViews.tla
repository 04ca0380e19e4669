---------------------------- MODULE MemoryViews ----------------------------
(***************************************************************************)
(* The memories that show a part of something else at other addresses       *)
(* (libunwindstack/Memory.cpp): a file from an offset, a range of a memory, *)
(* several ranges, memory saved in files, and strings read from one.        *)
(*                                                                         *)
(* Bytes are named by their position in the file (or process memory) they   *)
(* come from; a read returns an interval of positions.                      *)
(***************************************************************************)
EXTENDS Integers, Sequences

CONSTANTS PageSize, Limit,    \* 2^64: addresses are 0..Limit-1
          FileSizes,          \* lengths of the file
          Header,             \* sizeof(uint64_t) at the start of saved memory
          Nuls,               \* positions that hold a '\0'
          MaxParts            \* bound: files of saved memory

\* No file fills the address space.
MemoryViewsAssumption ==
  /\ PageSize \in Nat \ {0} /\ Limit \in Nat \ {0, 1} /\ FileSizes \subseteq 0..(Limit - 1)
  /\ Header \in Nat /\ Nuls \subseteq Nat /\ MaxParts \in Nat

VARIABLES file,       \* st_size
          view,       \* data_ (a position) and size_ of a MemoryFileAtOffset
          asked,      \* history: offset and size given to the last Init
          ranges,     \* maps_ of a MemoryRanges: the range by its end
          kind,       \* which of the objects a behaviour is about
          parts       \* memories_ of a MemoryOfflineParts: the MemoryRange in each

vars == <<file, view, asked, ranges, kind, parts>>

Null == -1
Min2(a, b) == IF a < b THEN a ELSE b
Nothing == [from |-> 0, len |-> 0]
-----------------------------------------------------------------------------
\* MemoryFileAtOffset: the file is mapped from the page of offset.
MapKeepsSize(offset, size) ==
  LET offset_ == offset % PageSize
      room == file - (offset - offset_)
  IN  [data |-> offset, size |-> IF size + offset_ < Limit THEN Min2(size + offset_, room) ELSE room]
Map(offset, size) ==
  LET offset_ == offset % PageSize
      room == file - (offset - offset_)
      size_ == IF size + offset_ < Limit /\ size + offset_ < room THEN size + offset_ ELSE room
  IN  [data |-> offset, size |-> size_ - offset_]

\* Clear leaves size_ as it was, and so does an Init that fails.
FileInit(offset, size) ==
  /\ view' = IF offset >= file THEN [view EXCEPT !.data = Null] ELSE Map(offset, size)
  /\ asked' = [offset |-> offset, size |-> size]
  /\ UNCHANGED <<file, ranges, kind, parts>>

ReadAt(v, addr, size) ==
  IF addr >= v.size THEN Nothing ELSE [from |-> v.data + addr, len |-> Min2(v.size - addr, size)]

\* MemoryRange::Read, of a memory that is at least as large as the range
RangeRead(r, addr, size) ==
  IF addr < r.offset \/ addr - r.offset >= r.length \/ addr - r.offset + r.begin >= Limit THEN Nothing
  ELSE [from |-> addr - r.offset + r.begin, len |-> Min2(size, r.length - (addr - r.offset))]

(* MemoryRanges: the map from the end of a range; emplace keeps what is there. *)
Insert(maps, r) ==
  LET end == (r.offset + r.length) % Limit
  IN  IF end \in DOMAIN maps THEN maps
      ELSE [e \in DOMAIN maps \union {end} |-> IF e = end THEN r ELSE maps[e]]

LowerBound(addr) == {e \in DOMAIN ranges : e >= addr}
UpperBound(addr) == {e \in DOMAIN ranges : e > addr}
RangesRead(addr, size) ==
  LET above == UpperBound(addr)
  IN  IF above = {} THEN Nothing
      ELSE RangeRead(ranges[CHOOSE e \in above : \A f \in above : e <= f], addr, size)

(* MemoryOffline::Init: after the header, the file holds the memory at start. *)
OfflineInitAll(offset, start) ==
  LET v == Map(offset, Limit - 1)
  IN  /\ Len(parts) < MaxParts
      /\ parts' = Append(parts, [begin |-> offset + Header, length |-> v.size, offset |-> start])
      /\ UNCHANGED <<file, view, asked, kind, ranges>>
OfflineInit(offset, start) ==
  LET v == Map(offset, Limit - 1)
  IN  /\ Len(parts) < MaxParts
      /\ parts' = Append(parts,
                    IF offset >= file \/ v.size < Header THEN Nothing
                    ELSE [begin |-> offset + Header, length |-> v.size - Header, offset |-> start])
      /\ UNCHANGED <<file, view, asked, kind, ranges>>

OfflineRead(p, addr, size) == IF p = Nothing THEN Nothing ELSE RangeRead(p, addr, size)

PartsRead(addr, size) ==
  LET hits == {i \in DOMAIN parts : OfflineRead(parts[i], addr, size).len # 0}
  IN  IF hits = {} THEN Nothing
      ELSE OfflineRead(parts[CHOOSE i \in hits : \A j \in hits : i <= j], addr, size)

(* Memory::ReadString: the length of the string, or -1 *)
ReadChar(addr, done, rest) ==
  LET b == ReadAt(view, addr + done, 1)
  IN  IF b.len < 1 THEN -1 ELSE IF b.from \in Nuls THEN done ELSE rest
ReadStringUpTo(addr, max_read) ==
  LET loop[n \in 0..max_read] ==     \* n: bytes still to read
        IF n = 0 THEN -1 ELSE ReadChar(addr, max_read - n, loop[n - 1])
  IN  loop[max_read]
ReadStringOneMore(addr, max_read) == ReadStringUpTo(addr, max_read + 1)
ReadString(addr, max_read) == ReadStringUpTo(addr, max_read)
-----------------------------------------------------------------------------
Init ==
  /\ file \in FileSizes
  /\ view = [data |-> Null, size |-> 0] /\ asked = [offset |-> 0, size |-> 0]
  /\ ranges = <<>> /\ parts = <<>>
  /\ kind \in {"file", "ranges", "parts"}

\* MapInfo::CreateMemory inserts the map that begins the elf and then the map
\* after it, at its offset in the elf.  Nothing says that the second ends later
\* in the file, or shows other pages of it.
InsertMaps ==
  LET Views == {r \in [begin : {0, PageSize}, length : 1..Limit, offset : 0..(Limit - 1)] :
                  r.begin + r.length < Limit /\ r.offset + r.length < Limit}
  IN
  /\ ranges = <<>>
  /\ \E first, second \in Views :
       /\ first.offset = 0 /\ second.offset > 0
       /\ ranges' = Insert(Insert(<<>>, first), second)
  /\ UNCHANGED <<file, view, asked, kind, parts>>

Next ==
  \/ /\ kind = "file"
     /\ \E offset \in 0..(Limit - 1), size \in 1..(Limit - 1) : FileInit(offset, size)
  \/ kind = "ranges" /\ InsertMaps
  \/ /\ kind = "parts"
     /\ \E offset \in 0..(PageSize - 1), start \in 0..(Limit - 1) : OfflineInit(offset, start)

Spec == Init /\ [][Next]_vars
-----------------------------------------------------------------------------
\* After a successful Init, address 0 is offset in the file, whatever its
\* alignment, and nothing beyond the size given or the end of the file is
\* returned.
FileShownFromOffset ==
  view.data # Null =>
    \A addr \in 0..(Limit - 1), size \in 1..(Limit - 1) :
      LET r == ReadAt(view, addr, size)
          end == Min2(file, asked.offset + asked.size)
      IN  IF asked.offset + addr >= end THEN r = Nothing
          ELSE r = [from |-> asked.offset + addr, len |-> Min2(size, end - asked.offset - addr)]

\* A byte that is read comes from a range that holds its address, also when the
\* two overlap or leave a gap.  Every byte of either range can be read, unless
\* the second ends before the first: it then hides what the first has below it.
RangesCover ==
  \A addr \in 0..(Limit - 1) :
    LET holds == {e \in DOMAIN ranges : ranges[e].offset <= addr /\ addr < e}
        in_order == \A e, f \in DOMAIN ranges : e < f => ranges[e].offset <= ranges[f].offset
        r == RangesRead(addr, 1)
    IN  /\ r = Nothing \/ \E e \in holds : r = [from |-> ranges[e].begin + addr - ranges[e].offset, len |-> 1]
        /\ in_order /\ holds # {} => r # Nothing

\* Saved memory is read back from the first file that has the address, after
\* its header, and never past the end of the file.
PartsShowSaved ==
  \A addr \in 0..(Limit - 1), size \in {1, Limit - 1} :
    LET r == PartsRead(addr, size)
        holds == {i \in DOMAIN parts :
                    parts[i] # Nothing /\ addr \in parts[i].offset..(parts[i].offset + file - parts[i].begin - 1)}
    IN  /\ r.len > 0 <=> holds # {}
        /\ r.from + r.len <= file
        /\ r.len > 0 => \E i \in holds : /\ \A j \in holds : i <= j
                                       /\ r.from = parts[i].begin + addr - parts[i].offset

\* ReadString returns exactly the bytes before the first '\0', and fails when
\* there is none within max_read bytes or memory ends before it.
StringsEndAtNul ==
  view.data # Null =>
    \A addr \in 0..(Limit - 1), max_read \in 0..PageSize :
      LET ends == {n \in 0..(max_read - 1) : addr + n < view.size /\ view.data + addr + n \in Nuls}
      IN  ReadString(addr, max_read) =
            IF ends = {} THEN -1 ELSE CHOOSE n \in ends : \A m \in ends : n <= m
=============================================================================
