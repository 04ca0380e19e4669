----------------------------- MODULE ElfHeaders -----------------------------
(***************************************************************************)
(* How an elf object is made from a memory (Elf::Init, ElfInterface.cpp):  *)
(* the program headers and the section headers are read one by one, as far *)
(* as they can be read; the DWARF sections found are initialised; the      *)
(* compressed .gnu_debugdata is unpacked.  Then the object answers         *)
(* GetSoname and IsValidPc.                                                *)
(*                                                                         *)
(* An elf is a record: readable and known (the identification, class and   *)
(* machine), phdrs and shdrs (sequences of headers; type "unreadable" for  *)
(* one that cannot be read), names (the section names can be read), inits  *)
(* (the sections, by offset, that DwarfSection::Init accepts), fdes (the   *)
(* pcs that have an FDE, by section offset), dyns (the dynamic section),   *)
(* strings (readable strings of the file, by offset) and xz (the compressed *)
(* data: whether it can be read, what it unpacks to, whether it is whole). *)
(***************************************************************************)
EXTENDS Integers, Sequences, FiniteSetsExt

CONSTANTS
    Elfs,        \* the elfs that are loaded
    Pcs          \* the pcs IsValidPc is asked about

ElfHeadersAssumption ==
    \A e \in Elfs :
      /\ e.phdrs \in Seq([type : STRING, x : BOOLEAN, offset : Nat, vaddr : Nat, size : Nat])
      /\ e.shdrs \in Seq([type : STRING, name : STRING, offset : Nat, size : Nat, addr : Nat, link : Nat])
      /\ e.xz.total \in Nat

NotSet == [offset |-> 0, size |-> 0]
Failed == [offset |-> 0, size |-> -1]
Progbits == {".debug_frame", ".gnu_debugdata", ".eh_frame", ".eh_frame_hdr"}

VARIABLES elf, pc, i, load_bias, pt_loads, sect, strtabs, symtabs, eh_frame, debug_frame, unpack, gnu,
          soname, answer

vars == <<elf, pc, i, load_bias, pt_loads, sect, strtabs, symtabs, eh_frame, debug_frame, unpack, gnu,
          soname, answer>>

Init ==
    /\ elf \in Elfs /\ pc = "new" /\ i = 1 /\ load_bias = 0 /\ pt_loads = <<>>
    /\ sect = [s \in Progbits \cup {"dynamic", "build_id"} |-> NotSet]
    /\ strtabs = <<>> /\ symtabs = <<>> /\ eh_frame = "none" /\ debug_frame = "none"
    /\ unpack = [dst |-> 0, size |-> 0] /\ gnu = "none"
    /\ soname = [type |-> "UNKNOWN", name |-> ""] /\ answer = <<>>

\* Elf::Init, CreateInterfaceFromMemory and the elf header of ReadAllHeaders
Create ==
    /\ pc = "new" /\ pc' = IF elf.known /\ elf.readable THEN "phdrs" ELSE "invalid"
    /\ UNCHANGED <<elf, i, load_bias, pt_loads, sect, strtabs, symtabs, eh_frame, debug_frame, unpack,
                   gnu, soname, answer>>

Section(offset, size) == [offset |-> offset, size |-> size]
Put(f, k, v) == [x \in DOMAIN f \cup {k} |-> IF x = k THEN v ELSE f[x]]

LoadByOffset(h) == Put(pt_loads, h.offset, [start |-> h.offset, size |-> h.size])
Load(h) == Put(pt_loads, h.offset, [start |-> h.vaddr, size |-> h.size])
ReadProgramHeader(h) ==
    LET load == h.type = "load" /\ h.x IN
    /\ pt_loads' = IF load THEN Load(h) ELSE pt_loads
    /\ load_bias' = IF load /\ h.offset = 0 THEN h.vaddr ELSE load_bias
    /\ sect' = IF h.type = "eh_frame_hdr" THEN [sect EXCEPT ![".eh_frame_hdr"] = Section(h.offset, h.size)]
               ELSE IF h.type = "dynamic" THEN [sect EXCEPT !["dynamic"] = Section(h.offset, h.size)]
               ELSE sect
ReadProgramHeaders ==
    LET more == i <= Len(elf.phdrs) /\ elf.phdrs[i].type # "unreadable" IN
    /\ pc = "phdrs"
    /\ IF more THEN ReadProgramHeader(elf.phdrs[i]) /\ i' = i + 1 /\ pc' = pc
       ELSE i' = 1 /\ pc' = "shdrs" /\ UNCHANGED <<pt_loads, load_bias, sect>>
    /\ UNCHANGED <<elf, strtabs, symtabs, eh_frame, debug_frame, unpack, gnu, soname, answer>>

\* The string table a symbol table links to; header 0 is the null header.
LinkIsStrtab(h) == h.link \in DOMAIN elf.shdrs /\ elf.shdrs[h.link].type = "strtab"
Named(h, type) == h.type = type /\ elf.names
Taken(h) ==
    /\ Named(h, "progbits") /\ h.name \in Progbits
    /\ h.name = ".eh_frame_hdr" => sect[".eh_frame_hdr"].offset = 0
ReadSectionHeader(h) ==
    /\ symtabs' = IF h.type = "symtab" /\ LinkIsStrtab(h)
                  THEN Append(symtabs, <<h.offset, elf.shdrs[h.link].offset>>) ELSE symtabs
    /\ sect' = IF Taken(h) THEN [sect EXCEPT ![h.name] = Section(h.offset, h.size)]
               ELSE IF Named(h, "note") /\ h.name = ".note.gnu.build-id"
                    THEN [sect EXCEPT !["build_id"] = Section(h.offset, h.size)]
               ELSE sect
    /\ strtabs' = IF h.type = "strtab" THEN Append(strtabs, <<h.addr, h.offset>>) ELSE strtabs
ReadSectionHeaders ==
    LET more == i <= Len(elf.shdrs) /\ elf.shdrs[i].type # "unreadable" IN
    /\ pc = "shdrs"
    /\ IF more THEN ReadSectionHeader(elf.shdrs[i]) /\ i' = i + 1 /\ pc' = pc
       ELSE i' = i /\ pc' = "init" /\ UNCHANGED <<symtabs, sect, strtabs>>
    /\ UNCHANGED <<elf, load_bias, pt_loads, eh_frame, debug_frame, unpack, gnu, soname, answer>>

Inits(s) == sect[s].offset # 0 /\ sect[s].offset \in elf.inits
InitHeadersNoFallback ==
    LET eh == IF Inits(".eh_frame_hdr") THEN ".eh_frame_hdr"
              ELSE IF sect[".eh_frame_hdr"].offset = 0 /\ Inits(".eh_frame") THEN ".eh_frame" ELSE "none"
        debug == IF Inits(".debug_frame") THEN ".debug_frame" ELSE "none"
    IN
    /\ pc = "init" /\ eh_frame' = eh /\ debug_frame' = debug
    /\ sect' = [s \in DOMAIN sect |->
                  IF eh = "none" /\ s \in {".eh_frame_hdr", ".eh_frame"} THEN Failed
                  ELSE IF s = ".debug_frame" /\ sect[s].offset # 0 /\ debug = "none" THEN Failed
                  ELSE sect[s]]
    /\ pc' = IF sect[".gnu_debugdata"].offset = 0 THEN "ready" ELSE "gnu"
    /\ UNCHANGED <<elf, i, load_bias, pt_loads, strtabs, symtabs, unpack, gnu, soname, answer>>
InitHeaders ==
    LET eh == IF Inits(".eh_frame_hdr") THEN ".eh_frame_hdr"
              ELSE IF Inits(".eh_frame") THEN ".eh_frame" ELSE "none"
        debug == IF Inits(".debug_frame") THEN ".debug_frame" ELSE "none"
    IN
    /\ pc = "init" /\ eh_frame' = eh /\ debug_frame' = debug
    /\ sect' = [s \in DOMAIN sect |->
                  IF eh = "none" /\ s \in {".eh_frame_hdr", ".eh_frame"} THEN Failed
                  ELSE IF s = ".debug_frame" /\ sect[s].offset # 0 /\ debug = "none" THEN Failed
                  ELSE sect[s]]
    /\ pc' = IF sect[".gnu_debugdata"].offset = 0 THEN "ready" ELSE "gnu"
    /\ UNCHANGED <<elf, i, load_bias, pt_loads, strtabs, symtabs, unpack, gnu, soname, answer>>

(***************************************************************************)
(* .gnu_debugdata: the buffer grows until all is unpacked.                 *)
(***************************************************************************)
Size == sect[".gnu_debugdata"].size
GnuFailed == [sect EXCEPT ![".gnu_debugdata"] = Failed]
CreateGnuDebugdataMemory ==
    /\ pc = "gnu"
    /\ unpack' = [dst |-> 0, size |-> 5 * Size]
    /\ pc' = IF Size # 0 /\ elf.xz.readable THEN "unpack" ELSE "ready"
    /\ sect' = IF Size # 0 /\ ~elf.xz.readable THEN GnuFailed ELSE sect
    /\ UNCHANGED <<elf, i, load_bias, pt_loads, strtabs, symtabs, eh_frame, debug_frame, gnu, soname,
                   answer>>
ResizedOnce(dst, size) == size
Resized(dst, size) == IF size - dst < 2 * Size THEN size + 2 * Size ELSE size
Least(m, n) == IF m < n THEN m ELSE n
UnpackNotShrunk ==
    LET size == Resized(unpack.dst, unpack.size)
        dst == unpack.dst + Least(size - unpack.dst, elf.xz.total - unpack.dst)
        done == dst = elf.xz.total
    IN
    /\ pc = "unpack"
    /\ unpack' = [dst |-> dst, size |-> size]
    /\ pc' = IF done THEN "ready" ELSE "unpack"
    /\ sect' = IF done /\ ~elf.xz.whole THEN GnuFailed ELSE sect
    /\ gnu' = IF done /\ elf.xz.whole /\ elf.xz.elf THEN "set" ELSE gnu
    /\ UNCHANGED <<elf, i, load_bias, pt_loads, strtabs, symtabs, eh_frame, debug_frame, soname, answer>>
\* XzUnpacker_Code fills what is left of the buffer.
Unpack ==
    LET size == Resized(unpack.dst, unpack.size)
        dst == unpack.dst + Least(size - unpack.dst, elf.xz.total - unpack.dst)
        done == dst = elf.xz.total
    IN
    /\ pc = "unpack"
    /\ unpack' = [dst |-> dst, size |-> IF done THEN dst ELSE size]
    /\ pc' = IF done THEN "ready" ELSE "unpack"
    /\ sect' = IF done /\ ~elf.xz.whole THEN GnuFailed ELSE sect
    /\ gnu' = IF done /\ elf.xz.whole /\ elf.xz.elf THEN "set" ELSE gnu
    /\ UNCHANGED <<elf, i, load_bias, pt_loads, strtabs, symtabs, eh_frame, debug_frame, soname, answer>>

(***************************************************************************)
(* Questions                                                               *)
(***************************************************************************)
Covers(s, p) == s # "none" /\ p \in elf.fdes[sect[s].offset]
InLoad(l, p) == l.start <= p /\ p < l.start + l.size
IsValidPc(p) ==
    /\ p >= load_bias
    /\ \/ \E o \in DOMAIN pt_loads : InLoad(pt_loads[o], p)
       \/ pt_loads = <<>> /\ (Covers(debug_frame, p) \/ Covers(eh_frame, p))
       \/ gnu = "set" /\ p \in elf.xz.pcs
AskValidPc(p) ==
    /\ pc = "ready" /\ answer' = <<"IsValidPc", p, IsValidPc(p)>>
    /\ UNCHANGED <<elf, pc, i, load_bias, pt_loads, sect, strtabs, symtabs, eh_frame, debug_frame, unpack,
                   gnu, soname>>

\* The dynamic section up to its end mark
Dyns ==
    LET n == Least(sect["dynamic"].size, Len(elf.dyns))
        ends == {k \in 1..n : elf.dyns[k].tag \in {"NULL", "unreadable"}}
    IN  SubSeq(elf.dyns, 1, IF ends = {} THEN n ELSE Min(ends))
Dyn(tag) ==
    LET at == {k \in DOMAIN Dyns : Dyns[k].tag = tag}
    IN  IF at = {} THEN 0 ELSE Dyns[Max(at)].val
SonameRead ==
    LET at == {k \in DOMAIN strtabs : strtabs[k][1] = Dyn("STRTAB")}
        offset == strtabs[Min(at)][2] + Dyn("SONAME")
        found == /\ \A k \in DOMAIN Dyns : Dyns[k].tag # "unreadable"
                 /\ at # {} /\ Dyn("SONAME") < Dyn("STRSZ") /\ offset \in DOMAIN elf.strings
    IN  IF found THEN [type |-> "VALID", name |-> elf.strings[offset]]
        ELSE [type |-> "INVALID", name |-> ""]
GetSonameNeverValid ==
    /\ pc = "ready"
    /\ soname' = IF soname.type = "UNKNOWN" THEN [SonameRead EXCEPT !.type = "INVALID"] ELSE soname
    /\ answer' = <<"GetSoname", IF soname.type = "INVALID" THEN "" ELSE soname'.name>>
    /\ UNCHANGED <<elf, pc, i, load_bias, pt_loads, sect, strtabs, symtabs, eh_frame, debug_frame, unpack,
                   gnu>>
GetSoname ==
    /\ pc = "ready" /\ soname' = IF soname.type = "UNKNOWN" THEN SonameRead ELSE soname
    /\ answer' = <<"GetSoname", soname'.name>>
    /\ UNCHANGED <<elf, pc, i, load_bias, pt_loads, sect, strtabs, symtabs, eh_frame, debug_frame, unpack,
                   gnu>>

Loading == Create \/ ReadProgramHeaders \/ ReadSectionHeaders \/ InitHeaders \/ CreateGnuDebugdataMemory
           \/ Unpack
Next == Loading \/ GetSoname \/ \E p \in Pcs : AskValidPc(p)
Spec == Init /\ [][Next]_vars
\* Loading is a loop of the thread that asked for the elf.
FairSpec == Spec /\ WF_vars(Loading)

(***************************************************************************)
(* The headers that come before the first one that cannot be read          *)
(***************************************************************************)
Readable(headers) == {k \in DOMAIN headers : \A j \in 1..k : headers[j].type # "unreadable"}
Segments(type) == {k \in Readable(elf.phdrs) : elf.phdrs[k].type = type}
Sections(name) == {k \in Readable(elf.shdrs) :
                      elf.shdrs[k].type = "progbits" /\ elf.names /\ elf.shdrs[k].name = name}
InitsAt(headers, k) == headers[k].offset # 0 /\ headers[k].offset \in elf.inits

(***************************************************************************)
(* In whatever order the headers come, and whichever of them are damaged,  *)
(* the unwind information is the .eh_frame_hdr of the program headers (the *)
(* last one), or of the sections (the first one) if they name none, and    *)
(* .eh_frame if that is no good; an offset of 0 names nothing; what is not *)
(* used is also not reported as present.                                   *)
(***************************************************************************)
FramesFound ==
    LET segs == Segments("eh_frame_hdr")
        secs == {k \in Sections(".eh_frame_hdr") : elf.shdrs[k].offset # 0}
        hdr == IF segs # {} /\ elf.phdrs[Max(segs)].offset # 0 THEN InitsAt(elf.phdrs, Max(segs))
               ELSE secs # {} /\ InitsAt(elf.shdrs, Min(secs))
        eh == Sections(".eh_frame") # {} /\ InitsAt(elf.shdrs, Max(Sections(".eh_frame")))
    IN  pc = "ready" =>
          /\ eh_frame = IF hdr THEN ".eh_frame_hdr" ELSE IF eh THEN ".eh_frame" ELSE "none"
          /\ eh_frame = "none" => sect[".eh_frame"].offset = 0 /\ sect[".eh_frame_hdr"].offset = 0
          /\ debug_frame # "none" => sect[".debug_frame"].offset \in elf.inits

(***************************************************************************)
(* All of the unpacked .gnu_debugdata is kept, with nothing behind it, in  *)
(* however many pieces it was unpacked; and the buffer is never overrun.   *)
(***************************************************************************)
DebugdataWhole ==
    /\ unpack.dst <= unpack.size
    /\ gnu = "set" => unpack.dst = elf.xz.total /\ unpack.size = elf.xz.total

(***************************************************************************)
(* Loading an elf ends, with an object that is valid or not.               *)
(***************************************************************************)
LoadEnds == <>(pc \in {"ready", "invalid"})

(***************************************************************************)
(* GetSoname gives every caller the same answer.                           *)
(***************************************************************************)
SonameStable ==
    [][answer # <<>> /\ answer' # <<>> /\ answer[1] = "GetSoname" /\ answer'[1] = "GetSoname"
          => answer' = answer]_vars

(***************************************************************************)
(* A pc is valid when an executable segment maps it, by its address and    *)
(* not by its offset in the file, or the debug data knows it.  Of segments *)
(* at the same offset of the file the last one counts.                     *)
(***************************************************************************)
ValidPcIsMapped ==
    LET all == {k \in Segments("load") : elf.phdrs[k].x}
        loads == {k \in all : \A j \in all : j > k => elf.phdrs[j].offset # elf.phdrs[k].offset}
        mapped(p) == \E k \in loads : elf.phdrs[k].vaddr <= p /\ p < elf.phdrs[k].vaddr + elf.phdrs[k].size
    IN  answer # <<>> /\ answer[1] = "IsValidPc" /\ all # {} /\ gnu = "none"
          => answer[3] = (mapped(answer[2]) /\ answer[2] >= load_bias)

=============================================================================
