---------------------------- MODULE DwarfEntries ----------------------------
(***************************************************************************)
(* How the CIEs and FDEs of a section are read and cached                   *)
(* (DwarfSectionImpl::GetCieFromOffset, GetFdeFromOffset, FillIn*, and      *)
(* DwarfSectionImplNoHdr::GetNextCieOrFde).                                 *)
(*                                                                         *)
(* The section is a sequence of fields: a length, an id, a version, a       *)
(* letter of the augmentation string, an encoded value.  Each is read at    *)
(* cur_offset and moves it by one; a field behind the end cannot be read.   *)
(* How many bytes a field has is DwarfMemory.                               *)
(***************************************************************************)
EXTENDS Integers, Sequences, FiniteSets, TLC, SequencesExt, FiniteSetsExt

CONSTANT Sections    \* [fields, kind, starts]: starts are the offsets an .eh_frame_hdr has

DW_EH_PE_sdata4 == 11
DW_EH_PE_sdata8 == 12
DW_EH_PE_omit == 255
Wide == -1              \* the length field that announces a 64 bit entry

VARIABLES section,
          cie_entries, fde_entries,      \* by offset
          next_entries_offset,
          result                         \* of the last call

vars == <<section, cie_entries, fde_entries, next_entries_offset, result>>

Fields == section.fields
End == Len(Fields)
CieId == IF section.kind = "debug_frame" THEN -1 ELSE 0      \* cie32_value_, cie64_value_
GetCieOffsetFromFde(off, pointer) ==
  IF section.kind = "debug_frame" THEN 1 + pointer ELSE (off - pointer) - 1
AdjustPcFromFde(pc, off) == IF section.kind = "debug_frame" THEN pc ELSE (pc + off) - 1
-----------------------------------------------------------------------------
(* A reader: cur_offset, the entry filled so far, the cached CIEs, the error. *)
(* After an error nothing more is read.                                       *)
Reader(off, entry, cies) == [off |-> off, entry |-> entry, cies |-> cies, error |-> "NONE"]
Fail(m, code) == [m EXCEPT !.error = code]
Set(m, field, v) == [m EXCEPT !.entry = (field :> v) @@ m.entry]
Skip(m, n) == [m EXCEPT !.off = m.off + n]
Read(m, field) ==
  IF m.off > End THEN Fail(m, "MEMORY_INVALID") ELSE Skip(Set(m, field, Fields[m.off]), 1)
Ok(m) == m.error = "NONE"

\* A length of 32 or 64 bits, and the CIE id or the pointer to a CIE
ReadLength(m) ==
  LET wide == m.off <= End /\ Fields[m.off] = Wide
      at == IF wide THEN m.off + 1 ELSE m.off
  IN  IF at > End THEN Fail(m, "MEMORY_INVALID")
      ELSE [m EXCEPT !.off = at + 1,
                     !.entry = [length |-> Fields[at], end |-> at + 1 + Fields[at],
                                encoding |-> IF wide THEN DW_EH_PE_sdata8 ELSE DW_EH_PE_sdata4] @@ @]
ReadHeader(m) ==
  LET a == ReadLength(m)
  IN  IF Ok(a) THEN Read(a, "id") ELSE a

FillInCieHeader(m) ==
  LET a == ReadHeader(Set(m, "lsda", DW_EH_PE_omit))
  IN  IF Ok(a) /\ a.entry.id # CieId THEN Fail(a, "ILLEGAL_VALUE") ELSE a

\* The letters up to the 0 are appended to what the string has.
ReadAugmentation(m) ==
  LET zeros == {o \in m.off..End : Fields[o] = 0}
  IN  IF zeros = {} THEN Fail(m, "MEMORY_INVALID")
      ELSE [Set(m, "aug", m.entry.aug \o SubSeq(Fields, m.off, Min(zeros))) EXCEPT !.off = Min(zeros) + 1]
AugmentationData(m, letter) ==
  CASE ~Ok(m) -> m
    [] letter = 76 -> Read(m, "lsda")                                     \* L
    [] letter = 80 -> Read(Skip(m, 1), "personality")                     \* P: encoding, value
    [] letter = 82 -> Read(m, "encoding")                                 \* R
    [] OTHER -> m
HasAugmentation(aug) == Len(aug) > 0 /\ aug[1] = 122                      \* z

CieField(m, f) ==
  CASE ~Ok(m) -> m
    [] f = "version" /\ m.off <= End /\ Fields[m.off] \notin {1, 3, 4, 5} -> Fail(m, "UNSUPPORTED_VERSION")
    [] f = "aug" -> ReadAugmentation(m)
    [] f = "segment_size" -> IF m.entry.version \in {4, 5} THEN Read(Skip(m, 1), f) ELSE m
    [] f = "aug_length" -> IF HasAugmentation(m.entry.aug) THEN Read(m, f) ELSE Set(m, f, 0)
    [] f = "cfa" -> Set(m, f, m.off + m.entry.aug_length)
    [] f = "letters" ->
         IF HasAugmentation(m.entry.aug) THEN FoldLeft(AugmentationData, m, Tail(m.entry.aug)) ELSE m
    [] OTHER -> Read(m, f)
FillInCie(m) ==
  FoldLeft(CieField, m, <<"version", "aug", "segment_size", "code_align", "data_align", "return_address",
                          "aug_length", "cfa", "letters">>)

NewCie == [aug |-> <<>>, segment_size |-> 0]
GetCieFromOffsetKept(cies, off) ==
  LET c == FillInCie(FillInCieHeader(Reader(off, NewCie, cies)))
  IN  IF off \in DOMAIN cies THEN [cies |-> cies, error |-> "NONE"]
      ELSE [cies |-> (off :> c.entry) @@ cies, error |-> c.error]
\* The entry is erased if it could not be filled in.
GetCieFromOffset(cies, off) ==
  LET c == FillInCie(FillInCieHeader(Reader(off, NewCie, cies)))
  IN  IF off \in DOMAIN cies THEN [cies |-> cies, error |-> "NONE"]
      ELSE [cies |-> IF Ok(c) THEN (off :> c.entry) @@ cies ELSE cies, error |-> c.error]
-----------------------------------------------------------------------------
(* FDEs *)
FillInFdeHeader(m) ==
  LET a == ReadHeader(m)
  IN  IF Ok(a) /\ a.entry.id = CieId THEN Fail(a, "ILLEGAL_VALUE")
      ELSE IF Ok(a) THEN Set(a, "cie", GetCieOffsetFromFde(a.off, a.entry.id)) ELSE a

\* The CIE is read too, and stays when the FDE fails.
ReadCie(m) ==
  LET c == GetCieFromOffset(m.cies, m.entry.cie)
  IN  [m EXCEPT !.cies = c.cies, !.error = c.error]
FdeField(m, f) ==
  LET cie == m.cies[m.entry.cie]
  IN  CASE ~Ok(m) -> m
        [] f = "cie" -> ReadCie(m)
        [] f = "segment" -> Skip(m, cie.segment_size)
        [] f = "adjusted" -> Set(m, "pc_start", AdjustPcFromFde(m.entry.pc_start, m.off))
        [] f = "pc_end" -> Set(m, f, m.entry.pc_start + m.entry.range)
        [] f = "aug_length" -> IF HasAugmentation(cie.aug) THEN Read(m, f) ELSE Set(m, f, 0)
        [] f = "cfa" -> Set(m, f, m.off + m.entry.aug_length)
        [] f = "lsda_address" ->
             IF HasAugmentation(cie.aug) /\ cie.lsda # DW_EH_PE_omit THEN Read(m, f) ELSE m
        [] OTHER -> Read(m, f)
FillInFde(m) ==
  FoldLeft(FdeField, m, <<"cie", "segment", "pc_start", "adjusted", "range", "pc_end",
                          "aug_length", "cfa", "lsda_address">>)

ReadFdeAt(off, cies) == FillInFde(FillInFdeHeader(Reader(off, <<>>, cies)))
-----------------------------------------------------------------------------
Result(off, error) == [off |-> off, error |-> error]

GetFdeFromOffsetErasesCie(off) ==
  LET f == ReadFdeAt(off, cie_entries)
  IN  /\ off \notin DOMAIN fde_entries /\ result' = Result(off, f.error)
      /\ cie_entries' = IF Ok(f) \/ "cie" \notin DOMAIN f.entry THEN f.cies
                        ELSE [o \in DOMAIN f.cies \ {f.entry.cie} |-> f.cies[o]]
      /\ fde_entries' = IF Ok(f) THEN (off :> f.entry) @@ fde_entries ELSE fde_entries
      /\ UNCHANGED <<section, next_entries_offset>>
GetFdeFromOffsetKept(off) ==
  LET f == ReadFdeAt(off, cie_entries)
  IN  /\ off \notin DOMAIN fde_entries /\ result' = Result(off, f.error)
      /\ cie_entries' = f.cies /\ fde_entries' = (off :> f.entry) @@ fde_entries
      /\ UNCHANGED <<section, next_entries_offset>>
\* DwarfEhFrameWithHdr reads an FDE where its table says one is.
GetFdeFromOffset(off) ==
  LET f == ReadFdeAt(off, cie_entries)
  IN  /\ IF off \in DOMAIN fde_entries
         THEN /\ result' = Result(off, "NONE") /\ UNCHANGED <<cie_entries, fde_entries>>
         ELSE /\ cie_entries' = f.cies /\ result' = Result(off, f.error)
              /\ fde_entries' = IF Ok(f) THEN (off :> f.entry) @@ fde_entries ELSE fde_entries
      /\ UNCHANGED <<section, next_entries_offset>>

\* The others read entry after entry; the cursor has moved when one fails.
GetNextCieOrFde ==
  LET off == next_entries_offset
      h == ReadHeader(Reader(off, <<>>, cie_entries))
      isCie == h.entry.id = CieId
      aug == IF off \in DOMAIN cie_entries THEN cie_entries[off].aug ELSE NewCie.aug
      c == FillInCie([h EXCEPT !.entry = [NewCie EXCEPT !.aug = aug] @@ ("lsda" :> DW_EH_PE_omit) @@ @])
      f == FillInFde(Set(h, "cie", GetCieOffsetFromFde(h.off, h.entry.id)))
  IN  /\ off <= End
      /\ next_entries_offset' = IF "end" \in DOMAIN h.entry THEN h.entry.end ELSE off
      /\ IF ~Ok(h) THEN result' = Result(off, h.error) /\ UNCHANGED <<cie_entries, fde_entries>>
         ELSE IF isCie
         THEN /\ result' = Result(off, c.error) /\ UNCHANGED fde_entries
              /\ cie_entries' = IF Ok(c) THEN (off :> c.entry) @@ cie_entries
                                ELSE [o \in DOMAIN cie_entries \ {off} |-> cie_entries[o]]
         ELSE /\ result' = Result(off, f.error) /\ cie_entries' = f.cies
              /\ fde_entries' = IF Ok(f) THEN (off :> f.entry) @@ fde_entries ELSE fde_entries
      /\ UNCHANGED section

Init ==
  /\ section \in Sections /\ cie_entries = <<>> /\ fde_entries = <<>>
  /\ next_entries_offset = 1 /\ result = Result(0, "none yet")

WithHdr == section.kind = "eh_frame_hdr" /\ \E off \in section.starts : GetFdeFromOffset(off)
NoHdr == section.kind # "eh_frame_hdr" /\ GetNextCieOrFde
Next == WithHdr \/ NoHdr

Spec == Init /\ [][Next]_vars
-----------------------------------------------------------------------------
FreshCie(off) == FillInCie(FillInCieHeader(Reader(off, NewCie, <<>>)))
FreshFde(off) == ReadFdeAt(off, <<>>)

\* Every CIE and FDE in the caches is what is written at its offset: the
\* paths that read it, by offset or one after the other, agree, and what was
\* read or failed before makes no difference.
EntriesAsWritten ==
  /\ \A o \in DOMAIN cie_entries : Ok(FreshCie(o)) /\ cie_entries[o] = FreshCie(o).entry
  /\ \A o \in DOMAIN fde_entries : Ok(FreshFde(o)) /\ fde_entries[o] = FreshFde(o).entry

\* The CIE an FDE points to is never erased under it, although a CIE that
\* cannot be read is.
NoDanglingCie == \A o \in DOMAIN fde_entries : fde_entries[o].cie \in DOMAIN cie_entries

\* A call that fails leaves no half filled entry behind, and a call that
\* succeeds leaves the entry.
FailureNotCached ==
  LET off == result.off
  IN  CASE result.error = "none yet" -> TRUE
        [] result.error = "NONE" -> off \in DOMAIN cie_entries \cup DOMAIN fde_entries
        [] OTHER -> /\ off \notin DOMAIN fde_entries
                    /\ section.kind # "eh_frame_hdr" => off \notin DOMAIN cie_entries
=============================================================================
