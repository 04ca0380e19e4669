---------------------------- MODULE DwarfMemory ----------------------------
(***************************************************************************)
(* Reading of encoded values (libunwindstack/DwarfMemory.cpp).  A byte has  *)
(* Group + 1 bits (8 in the code), of which Group are payload in a LEB128   *)
(* number; sizes in bytes are the real ones, so uint64_t has 8 bytes.       *)
(***************************************************************************)
EXTENDS Integers, Sequences, TLC

CONSTANTS Group,           \* 7
          Memories,        \* contents of memory_, sequences of bytes
          AddressSizes,    \* sizeof(AddressType)
          Offsets,         \* where reads begin
          Bases            \* pc_offset_ and the like; NoBase is -1

NoBase == -1
VARIABLES memory, address_size, base, cur_offset, read

vars == <<memory, address_size, base, cur_offset, read>>

ByteMod == 2 ^ (Group + 1)
Mod == ByteMod ^ 8                         \* uint64_t
Payload(byte) == byte % 2 ^ Group
More(byte) == byte >= 2 ^ Group
Negative(byte) == Payload(byte) >= 2 ^ (Group - 1)

\* DW_EH_PE_*: the format is in the low four bits, the base above them
Fixed == 2 :> 2 @@ 3 :> 4 @@ 4 :> 8 @@ 10 :> 2 @@ 11 :> 4 @@ 12 :> 8 @@ 13 :> 1 @@ 14 :> 1
SignedFormats == {10, 11, 12, 14}
Formats == {0, 1, 9} \union DOMAIN Fixed
omit == 255
aligned == 80
Encodings == {f + 16 * b : f \in Formats \union {5, 15}, b \in {0, 4, 6}} \union {omit, aligned}
-----------------------------------------------------------------------------
Failed(o) == [ok |-> FALSE, value |-> 0, off |-> o]
Got(v, o) == [ok |-> TRUE, value |-> v % Mod, off |-> o]

LittleEndian(bytes) ==
  LET sum[n \in 0..Len(bytes)] == IF n = 0 THEN 0 ELSE sum[n - 1] + bytes[n] * ByteMod ^ (n - 1)
  IN  sum[Len(bytes)]

\* ReadBytes does not move when it fails.
ReadBytes(o, n) ==
  IF o + n > Len(memory) THEN Failed(o) ELSE Got(LittleEndian(SubSeq(memory, o + 1, o + n)), o + n)

ReadSigned(o, n) ==
  LET r == ReadBytes(o, n)
  IN  IF r.ok /\ r.value >= (ByteMod ^ n) \div 2 THEN Got(r.value - ByteMod ^ n, r.off) ELSE r

(* ReadULEB128 and ReadSLEB128 share their loop; last is its last byte. *)
ReadLEB128(o) ==
  LET loop[n \in 0..(Len(memory) - o)] ==      \* after n bytes
        IF n = 0 THEN [value |-> 0, shift |-> 0, more |-> TRUE, last |-> 0, off |-> o]
        ELSE LET s == loop[n - 1]
                 byte == memory[s.off + 1]
             IN  IF ~s.more THEN s
                 ELSE [value |-> s.value + Payload(byte) * 2 ^ s.shift, shift |-> s.shift + Group,
                       more |-> More(byte), last |-> byte, off |-> s.off + 1]
  IN  IF o >= Len(memory) THEN [value |-> 0, shift |-> 0, more |-> TRUE, last |-> 0, off |-> o]
      ELSE loop[Len(memory) - o]

ReadULEB128(o) ==
  LET r == ReadLEB128(o) IN IF r.more THEN Failed(r.off) ELSE Got(r.value, r.off)
ReadSLEB128NoExtend(o) == ReadULEB128(o)
ReadSLEB128(o) ==
  LET r == ReadLEB128(o)
  IN  IF r.more THEN Failed(r.off)
      ELSE Got(IF Negative(r.last) THEN r.value - 2 ^ r.shift ELSE r.value, r.off)

GetEncodedSizePadded(encoding) ==
  IF encoding % 16 \in {0} \union DOMAIN Fixed THEN address_size ELSE 0
GetEncodedSize(encoding) ==
  LET f == encoding % 16
  IN  IF f = 0 THEN address_size ELSE IF f \in DOMAIN Fixed THEN Fixed[f] ELSE 0

\* The bases are pc, text, data and func; one of them stands for all.
AdjustEncodedValueUnchecked(encoding, r) ==
  LET b == (encoding \div 16) % 8
  IN  IF ~r.ok \/ b \notin 1..4 THEN r ELSE Got(r.value + base, r.off)
AdjustEncodedValue(encoding, r) ==
  LET b == (encoding \div 16) % 8
  IN  IF ~r.ok \/ b = 0 THEN r
      ELSE IF b \notin 1..4 \/ base = NoBase THEN [r EXCEPT !.ok = FALSE]
      ELSE Got(r.value + base, r.off)

ReadEncodedValue(encoding, o) ==
  LET f == encoding % 16
      up == o + ((address_size - (o % address_size)) % address_size)
  IN  CASE encoding = omit -> Got(0, o)
        [] encoding = aligned -> ReadBytes(up, address_size)
        [] OTHER ->
             AdjustEncodedValue(encoding,
               CASE f = 0 -> ReadBytes(o, address_size)
                 [] f = 1 -> ReadULEB128(o)
                 [] f = 9 -> ReadSLEB128(o)
                 [] f \in SignedFormats -> ReadSigned(o, Fixed[f])
                 [] f \in DOMAIN Fixed \ SignedFormats -> ReadBytes(o, Fixed[f])
                 [] OTHER -> Failed(o))
-----------------------------------------------------------------------------
Init ==
  /\ memory \in Memories /\ address_size \in AddressSizes /\ base \in Bases
  /\ cur_offset \in Offsets
  /\ read = [encoding |-> omit, from |-> 0, ok |-> TRUE, value |-> 0]

Read(encoding) ==
  LET r == ReadEncodedValue(encoding, cur_offset)
  IN  /\ cur_offset' = r.off
      /\ read' = [encoding |-> encoding, from |-> cur_offset, ok |-> r.ok, value |-> r.value]
      /\ UNCHANGED <<memory, address_size, base>>

Next == \E encoding \in Encodings : Read(encoding)

Spec == Init /\ [][Next]_vars
-----------------------------------------------------------------------------
\* The size callers compute tables with is what a read consumes: a read of an
\* encoding with a size moves by exactly that size, and one that fails for
\* lack of memory does not move.
SizeIsConsumed ==
  LET size == GetEncodedSize(read.encoding)
  IN  (size # 0 /\ read.encoding \notin {omit, aligned}) =>
        cur_offset - read.from = IF read.from + size <= Len(memory) THEN size ELSE 0

\* A signed number reads as the unsigned number of the same bytes, or as that
\* less two to the number of its payload bits when its sign bit is set: every
\* number encoded in LEB128 is read back, in 64 bits.
SignExtended ==
  (read.encoding = 9 /\ read.ok) =>
    LET n == cur_offset - read.from
        bytes == [i \in 1..n |-> memory[read.from + i]]
        unsigned == ReadULEB128(read.from).value
    IN  /\ \A i \in 1..n : More(bytes[i]) <=> i < n
        /\ read.value = (IF Negative(bytes[n]) THEN unsigned - 2 ^ (Group * n) ELSE unsigned) % Mod
        /\ Negative(bytes[n]) <=> read.value >= Mod \div 2

\* Without a base a relative value is refused, never taken as absolute.
RelativeNeedsBase ==
  (read.encoding \notin {omit, aligned} /\ read.encoding >= 16 /\ base = NoBase) => ~read.ok
=============================================================================
