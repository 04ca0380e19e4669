-------------------------------- MODULE MCElf --------------------------------
(* The elfs of a process and what the unwinder reads through them, small     *)
(* instances for TLC: a behaviour is about one of the elf of a map (MapElf), *)
(* the frames of a thread (Unwinder), the views of a memory (MemoryViews),   *)
(* the headers of an elf (ElfHeaders), steps with its sections (ElfStep),    *)
(* its symbols (Symbols), and the lists of jitted code and dex files         *)
(* (Globals).  The state of the others is Off, that of MapElf an initial     *)
(* one.                                                                      *)
EXTENDS MapElf, Sequences, SequencesExt, TLC
CONSTANTS Off, p0, p1, p2, p3, p4, s1, sd, NoMap

VARIABLES part,
          me_elf, me_elf_offset, me_elf_start_offset, me_memory_backed_elf, me_load_bias, me_build_id, me_mutex,
          me_cache, me_cache_lock, me_th,
          un_phase, un_pc, un_sp, un_dex, un_frames, un_error, un_attempt, un_adjust, un_skipping, un_cur,
          un_guessed,
          mv_file, mv_view, mv_asked, mv_ranges, mv_kind, mv_parts,
          hd_elf, hd_pc, hd_i, hd_load_bias, hd_pt_loads, hd_sect, hd_strtabs, hd_symtabs, hd_eh_frame,
          hd_debug_frame, hd_unpack, hd_gnu, hd_soname, hd_answer,
          st_elf, st_lock, st_loc_regs, st_errors, st_last_error, st_th, st_raced,
          gl_kind, gl_maps, gl_initialized, gl_list, gl_entry, gl_known, gl_files, gl_at, gl_q, gl_answer,
          gl_calls,
          sy_tables, sy_symbols, sy_cur, sy_asked, sy_answer, sy_calls

mevars == <<me_elf, me_elf_offset, me_elf_start_offset, me_memory_backed_elf, me_load_bias, me_build_id, me_mutex,
          me_cache, me_cache_lock, me_th>>
unvars == <<un_phase, un_pc, un_sp, un_dex, un_frames, un_error, un_attempt, un_adjust, un_skipping, un_cur,
          un_guessed>>
mvvars == <<mv_file, mv_view, mv_asked, mv_ranges, mv_kind, mv_parts>>
hdvars == <<hd_elf, hd_pc, hd_i, hd_load_bias, hd_pt_loads, hd_sect, hd_strtabs, hd_symtabs, hd_eh_frame,
          hd_debug_frame, hd_unpack, hd_gnu, hd_soname, hd_answer>>
stvars == <<st_elf, st_lock, st_loc_regs, st_errors, st_last_error, st_th, st_raced>>
glvars == <<gl_kind, gl_maps, gl_initialized, gl_list, gl_entry, gl_known, gl_files, gl_at, gl_q, gl_answer,
          gl_calls>>
syvars == <<sy_tables, sy_symbols, sy_cur, sy_asked, sy_answer, sy_calls>>
MeOff ==
  /\ me_elf = Off /\ me_elf_offset = Off /\ me_elf_start_offset = Off /\ me_memory_backed_elf = Off
  /\ me_load_bias = Off /\ me_build_id = Off /\ me_mutex = Off /\ me_cache = Off /\ me_cache_lock = Off
  /\ me_th = Off
UnOff ==
  /\ un_phase = Off /\ un_pc = Off /\ un_sp = Off /\ un_dex = Off /\ un_frames = <<>> /\ un_error = Off
  /\ un_attempt = Off /\ un_adjust = Off /\ un_skipping = Off /\ un_cur = Off /\ un_guessed = Off
MvOff ==
  /\ mv_file = Off /\ mv_view = Off /\ mv_asked = Off /\ mv_ranges = Off /\ mv_kind = Off
  /\ mv_parts = Off
HdOff ==
  /\ hd_elf = Off /\ hd_pc = Off /\ hd_i = Off /\ hd_load_bias = Off /\ hd_pt_loads = Off
  /\ hd_sect = Off /\ hd_strtabs = Off /\ hd_symtabs = Off /\ hd_eh_frame = Off /\ hd_debug_frame = Off
  /\ hd_unpack = Off /\ hd_gnu = Off /\ hd_soname = Off /\ hd_answer = <<>>
StOff ==
  /\ st_elf = Off /\ st_lock = Off /\ st_loc_regs = Off /\ st_errors = Off /\ st_last_error = Off
  /\ st_th = Off /\ st_raced = Off
GlOff ==
  /\ gl_kind = Off /\ gl_maps = Off /\ gl_initialized = Off /\ gl_list = Off /\ gl_entry = Off
  /\ gl_known = Off /\ gl_files = Off /\ gl_at = Off /\ gl_q = Off /\ gl_answer = Off /\ gl_calls = Off
SyOff ==
  /\ sy_tables = Off /\ sy_symbols = Off /\ sy_cur = Off /\ sy_asked = Off /\ sy_answer = Off
  /\ sy_calls = Off

\* The maps of libraries
LibMap(name, start, end, offset, flags, prev, memory) ==
    [name |-> name, start |-> start, end |-> end, offset |-> offset, flags |-> flags, prev |-> prev,
     elf_in_memory |-> memory]

\* The libraries of the archive differ in their load biases, one has another
\* architecture than the process.
LibElf(max_size, arch, bias, static) ==
    [max_size |-> max_size, arch |-> arch, load_bias |-> bias, static_load_bias |-> static]
MCFiles ==
    "lib.so" :> [size |-> 4, elfs |-> 0 :> LibElf(4, "arm64", 0, 0)]
    @@ "app.apk" :> [size |-> 8, elfs |-> 1 :> LibElf(3, "arm64", 0, 2) @@ 5 :> LibElf(3, "arm", 4, 3)]
    @@ "gone.so" :> [size |-> 0, elfs |-> 0 :> LibElf(4, "arm64", 1, 1)]

\* A library in a read-only and an executable map
LibMaps == <<LibMap("lib.so", 0, 2, 0, "r", 0, TRUE), LibMap("lib.so", 2, 4, 2, "x", 1, FALSE)>>
\* The library mapped twice, with and without a read-only map before
TwiceMaps == LibMaps \o <<LibMap("lib.so", 8, 10, 2, "x", 0, FALSE)>>
\* A library of an archive in a read-only and an executable map, and a file that is gone
ApkMaps == <<LibMap("app.apk", 0, 1, 1, "r", 0, TRUE), LibMap("app.apk", 1, 3, 2, "x", 1, FALSE)>>
GoneMaps == <<LibMap("gone.so", 0, 2, 0, "r", 0, TRUE), LibMap("gone.so", 2, 4, 2, "x", 1, FALSE),
              LibMap("", 4, 5, 0, "x", 2, FALSE)>>
\* Two libraries of one archive
TwoLibsMaps == ApkMaps \o <<LibMap("app.apk", 4, 5, 5, "r", 2, TRUE), LibMap("app.apk", 5, 7, 6, "x", 3, FALSE)>>
Twice == INSTANCE MapElf WITH
  Maps <- TwiceMaps, CachingEnabled <- TRUE, Calls <- {"GetElf", "GetFunctionName"}, elf <- me_elf,
  elf_offset <- me_elf_offset, elf_start_offset <- me_elf_start_offset,
  memory_backed_elf <- me_memory_backed_elf, load_bias <- me_load_bias, build_id <- me_build_id,
  mutex <- me_mutex, cache <- me_cache, cache_lock <- me_cache_lock, th <- me_th
Gone == INSTANCE MapElf WITH
  Maps <- GoneMaps, MaxCalls <- 1, CachingEnabled <- FALSE,
  Calls <- {"GetElf", "GetFunctionName", "GetLoadBias", "GetBuildID"}, elf <- me_elf,
  elf_offset <- me_elf_offset, elf_start_offset <- me_elf_start_offset,
  memory_backed_elf <- me_memory_backed_elf, load_bias <- me_load_bias, build_id <- me_build_id,
  mutex <- me_mutex, cache <- me_cache, cache_lock <- me_cache_lock, th <- me_th
Archive == INSTANCE MapElf WITH
  Maps <- TwoLibsMaps, MaxCalls <- 1, CachingEnabled <- FALSE, Calls <- {"GetElf", "GetLoadBias"}, elf <- me_elf,
  elf_offset <- me_elf_offset, elf_start_offset <- me_elf_start_offset,
  memory_backed_elf <- me_memory_backed_elf, load_bias <- me_load_bias, build_id <- me_build_id,
  mutex <- me_mutex, cache <- me_cache, cache_lock <- me_cache_lock, th <- me_th

ASSUME MapsConstants ==
  FilesThere /\ CachedFilesAreElfs /\ Twice!FilesThere /\ Twice!CachedFilesAreElfs /\ Archive!FilesThere

\* The pcs and maps of an unwind
UnwindMap(device, skip, ignored, symfile, valid) ==
  [device |-> device, skip |-> skip, ignored |-> ignored, symfile |-> symfile, valid |-> valid]
Lib == UnwindMap(FALSE, FALSE, FALSE, FALSE, TRUE)
Skipped == UnwindMap(FALSE, TRUE, FALSE, FALSE, TRUE)
Jit == UnwindMap(FALSE, FALSE, FALSE, TRUE, FALSE)
Dev == UnwindMap(TRUE, FALSE, FALSE, FALSE, FALSE)
Oat == UnwindMap(FALSE, FALSE, TRUE, FALSE, TRUE)
UnwindMaps == {Lib, Skipped, Jit, Dev, Oat}
\* p0 is in no map.
LibMapAt == p0 :> NoMap @@ p1 :> Lib @@ p2 :> Skipped @@ p3 :> Dev @@ p4 :> Oat
JitMapAt == p0 :> NoMap @@ p1 :> Lib @@ p2 :> Jit
Frames == INSTANCE Unwinder WITH
  Pcs <- {p0, p1, p2, p3, p4}, Sps <- {s1, sd}, Maps <- UnwindMaps, MapAt <- LibMapAt, DeviceSps <- {sd},
  SkipNames <- TRUE, JitDebug <- TRUE, MaxFrames <- 3, phase <- un_phase, pc <- un_pc, sp <- un_sp,
  dex <- un_dex, frames <- un_frames, error <- un_error, attempt <- un_attempt, adjust <- un_adjust,
  skipping <- un_skipping, cur <- un_cur, guessed <- un_guessed
Ends == INSTANCE Unwinder WITH
  Pcs <- {p0, p1, p2}, Sps <- {s1, sd}, Maps <- UnwindMaps, MapAt <- JitMapAt, DeviceSps <- {sd},
  SkipNames <- FALSE, JitDebug <- TRUE, MaxFrames <- 2, phase <- un_phase, pc <- un_pc, sp <- un_sp,
  dex <- un_dex, frames <- un_frames, error <- un_error, attempt <- un_attempt, adjust <- un_adjust,
  skipping <- un_skipping, cur <- un_cur, guessed <- un_guessed
ASSUME UnwinderConstants == Frames!UnwinderAssumption /\ Ends!UnwinderAssumption

Views == INSTANCE MemoryViews WITH
  PageSize <- 4, Limit <- 10, FileSizes <- {0, 2, 5, 9}, Header <- 2, Nuls <- {3, 8}, MaxParts <- 2,
  file <- mv_file, view <- mv_view, asked <- mv_asked, ranges <- mv_ranges, kind <- mv_kind, parts <- mv_parts
ASSUME ViewsConstants == Views!MemoryViewsAssumption

\* Program and section headers, the data of .gnu_debugdata and the dynamic entries
Phdr(type, x, offset, vaddr, size) == [type |-> type, x |-> x, offset |-> offset, vaddr |-> vaddr, size |-> size]
Shdr(type, name, offset, size, link) ==
    [type |-> type, name |-> name, offset |-> offset, size |-> size, addr |-> offset + 100, link |-> link]
Phdrs == {Phdr("load", TRUE, 0, 2, 2), Phdr("load", FALSE, 0, 0, 9), Phdr("load", TRUE, 3, 5, 2),
          Phdr("load", TRUE, 3, 1, 1), Phdr("eh_frame_hdr", FALSE, 20, 20, 1),
          Phdr("eh_frame_hdr", FALSE, 21, 21, 1), Phdr("eh_frame_hdr", FALSE, 0, 0, 1),
          Phdr("dynamic", FALSE, 30, 30, 3), Phdr("unreadable", FALSE, 0, 0, 0)}
Shdrs == {Shdr("progbits", ".eh_frame", 40, 1, 0), Shdr("progbits", ".eh_frame", 41, 1, 0),
          Shdr("progbits", ".eh_frame_hdr", 20, 1, 0), Shdr("progbits", ".eh_frame_hdr", 21, 1, 0),
          Shdr("progbits", ".eh_frame_hdr", 0, 1, 0),
          Shdr("progbits", ".debug_frame", 50, 1, 0), Shdr("progbits", ".gnu_debugdata", 60, 1, 0),
          Shdr("progbits", ".gnu_debugdata", 60, 0, 0), Shdr("strtab", ".dynstr", 70, 1, 0),
          Shdr("symtab", ".symtab", 71, 1, 1), Shdr("note", ".note.gnu.build-id", 80, 1, 0),
          Shdr("unreadable", "", 0, 0, 0)}
D(tag, val) == [tag |-> tag, val |-> val]
File(p, s, names, xz, dyns) ==
    [readable |-> TRUE, known |-> TRUE, phdrs |-> p, shdrs |-> s, names |-> names,
     inits |-> {20, 40, 50}, fdes |-> [o \in {20, 40, 50} |-> {1, o \div 10}],
     dyns |-> dyns, strings |-> [o \in {70, 72} |-> IF o = 70 THEN "" ELSE "soname"], xz |-> xz]
Xz(readable, total, whole, elf_) ==
    [readable |-> readable, total |-> total, whole |-> whole, elf |-> elf_, pcs |-> {6}]
GoodXz == Xz(TRUE, 12, TRUE, TRUE)
Dynamic == <<D("STRTAB", 170), D("SONAME", 2), D("STRSZ", 3), D("NULL", 0)>>
Plain == {File(p, s, TRUE, GoodXz, Dynamic) : p \in BoundedSeq(Phdrs, 1), s \in BoundedSeq(Shdrs, 2)}
         \cup {File(p, s, TRUE, GoodXz, Dynamic) : p \in BoundedSeq(Phdrs, 2), s \in BoundedSeq(Shdrs, 1)}
Packed == <<Shdr("progbits", ".gnu_debugdata", 60, 1, 0)>>
HeaderElfs ==
    Plain \cup {File(<<>>, Packed, TRUE, Xz(r, t, w, e), Dynamic) : r, w, e \in BOOLEAN, t \in 0..14}
    \cup {File(<<Phdr("dynamic", FALSE, 30, 30, n)>>, <<Shdr("strtab", ".dynstr", 70, 1, 0)>>, b, GoodXz, d) :
            n \in {2, 4}, b \in BOOLEAN,
            d \in {Dynamic, Tail(Dynamic), <<Dynamic[1], Dynamic[2], D("unreadable", 0)>>,
                   <<Dynamic[3], Dynamic[2], D("NULL", 0), Dynamic[1]>>}}
    \cup {[File(<<>>, <<>>, TRUE, GoodXz, Dynamic) EXCEPT !.readable = a, !.known = b] : a, b \in BOOLEAN}
Headers == INSTANCE ElfHeaders WITH
  Elfs <- HeaderElfs, Pcs <- 1..7, elf <- hd_elf, pc <- hd_pc, i <- hd_i, load_bias <- hd_load_bias,
  pt_loads <- hd_pt_loads, sect <- hd_sect, strtabs <- hd_strtabs, symtabs <- hd_symtabs,
  eh_frame <- hd_eh_frame, debug_frame <- hd_debug_frame, unpack <- hd_unpack, gnu <- hd_gnu,
  soname <- hd_soname, answer <- hd_answer
ASSUME HeadersConstants == Headers!ElfHeadersAssumption

\* The sections of an elf, with the rows of their tables
TableRow(start, end, ok) == [start |-> start, end |-> end, ok |-> ok]
StepRows == [s \in {"debug_frame", "eh_frame", "gnu.debug_frame", "gnu.eh_frame"} |->
           CASE s = "debug_frame" -> {TableRow(0, 1, TRUE), TableRow(1, 2, FALSE)}
             [] s = "eh_frame" -> {TableRow(0, 1, TRUE), TableRow(1, 2, TRUE), TableRow(2, 3, FALSE)}
             [] s = "gnu.debug_frame" -> {TableRow(1, 3, TRUE)}
             [] OTHER -> {TableRow(2, 3, TRUE)}]
StepElf(sections, own, loads, gnu_loads, exidx) ==
  [sections |-> sections, own |-> own, rows |-> StepRows, pt_loads |-> [elf |-> loads, gnu |-> gnu_loads],
   exidx |-> exidx]
StepElfs ==
  {StepElf(<<>>, 0, TRUE, TRUE, e) : e \in BOOLEAN}
  \cup {StepElf(<<"debug_frame", "eh_frame">>, 2, TRUE, TRUE, FALSE),
        StepElf(<<"eh_frame", "gnu.debug_frame">>, 1, TRUE, TRUE, TRUE),
        StepElf(<<"gnu.debug_frame", "gnu.eh_frame">>, 0, TRUE, TRUE, FALSE),
        StepElf(<<"debug_frame">>, 1, FALSE, FALSE, FALSE)}
\* Elfs of two sections that IsValidPc searches, or the last of which it does
SearchedElfs ==
  {StepElf(<<"debug_frame", "eh_frame">>, 2, FALSE, TRUE, FALSE),
   StepElf(<<"eh_frame", "gnu.debug_frame">>, 1, TRUE, FALSE, FALSE)}
Stepping == INSTANCE ElfStep WITH
  Threads <- {1, 2}, Pcs <- {0, 1, 2}, Layouts <- StepElfs, MaxCalls <- 2, elf <- st_elf, lock <- st_lock,
  loc_regs <- st_loc_regs, errors <- st_errors, last_error <- st_last_error, th <- st_th,
  raced <- st_raced
Searched == INSTANCE ElfStep WITH
  Threads <- {1, 2}, Pcs <- {0, 1, 2}, Layouts <- SearchedElfs, MaxCalls <- 1, elf <- st_elf, lock <- st_lock,
  loc_regs <- st_loc_regs, errors <- st_errors, last_error <- st_last_error, th <- st_th,
  raced <- st_raced
ASSUME ElfStepConstants == Stepping!ElfStepAssumption /\ Searched!ElfStepAssumption

\* Libraries with and without a list, and lists with broken entries
Mp(name, first, r, rw, l) == [name |-> name, first |-> first, r |-> r, rw |-> rw, list |-> l]
ListEntry(readable, valid, info, pcs) == [readable |-> readable, valid |-> valid, info |-> info, pcs |-> pcs]
SomeLists == << <<>>, <<ListEntry(TRUE, TRUE, 1, {1}), ListEntry(TRUE, FALSE, 2, {2}), ListEntry(TRUE, TRUE, 2, {2, 3})>>,
     <<ListEntry(TRUE, TRUE, 1, {1, 2}), ListEntry(TRUE, TRUE, 2, {1, 3}), ListEntry(FALSE, TRUE, 2, {3})>>,
     <<ListEntry(TRUE, TRUE, 1, {1}), ListEntry(TRUE, TRUE, 0, {2}), ListEntry(TRUE, TRUE, 1, {3})>>>>
MCLists == [k \in 0 .. 4 |-> IF k = 0 THEN <<>> ELSE SomeLists[k]]
LibStarts == {<<Mp("a", TRUE, TRUE, FALSE, l)>> : l \in 0 .. 3} \cup {<<Mp("", TRUE, TRUE, TRUE, 0)>>}
LibRests == {<<Mp("a", FALSE, FALSE, FALSE, 0), Mp("a", FALSE, TRUE, TRUE, 0)>>, <<Mp("a", FALSE, TRUE, TRUE, 0)>>,
         <<Mp("a", TRUE, TRUE, TRUE, 4)>>, <<>>}
OtherLibs == {<<Mp("b", TRUE, TRUE, FALSE, l), Mp("b", FALSE, TRUE, TRUE, l)>> : l \in {0, 4}}
          \cup {<<Mp("a", TRUE, TRUE, FALSE, 3), Mp("a", FALSE, TRUE, TRUE, 0)>>, <<>>}
MCMapLists == {x \o y \o z : x \in LibStarts, y \in LibRests, z \in OtherLibs}
Lists == INSTANCE Globals WITH
  MapLists <- MCMapLists, SearchLibs <- {"a", "b"}, Lists <- MCLists, Pcs <- {1, 2, 3}, Infos <- {1, 2},
  MaxCalls <- 3, kind <- gl_kind, maps <- gl_maps, initialized <- gl_initialized, list <- gl_list,
  entry <- gl_entry, known <- gl_known, files <- gl_files, at <- gl_at, q <- gl_q, answer <- gl_answer,
  calls <- gl_calls
ASSUME GlobalsConstants == Lists!GlobalsAssumption

\* Symbol tables in any order, with an entry that cannot be read
Sym(type, start, end, name) == [type |-> type, start |-> start, end |-> end, name |-> name, readable |-> TRUE, named |-> TRUE]
SymEntries == {Sym("func", 1, 2, 11), Sym("func", 2, 3, 12), Sym("func", 4, 6, 13), Sym("object", 3, 4, 14),
            [Sym("func", 1, 1, 15) EXCEPT !.readable = FALSE]}
Orders == {s \in UNION {[1 .. n -> SymEntries] : n \in 0 .. 4} : \A i, j \in DOMAIN s : i # j => s[i] # s[j]}
SymElfs == {<<s>> : s \in Orders} \cup {<<s, <<Sym("func", 5, 6, 21), Sym("func", 2, 4, 22)>>>> : s \in Orders}
Names == INSTANCE Symbols WITH
  Elfs <- SymElfs, Addrs <- {1, 2, 3, 5}, MaxCalls <- 3, tables <- sy_tables, symbols <- sy_symbols,
  cur <- sy_cur, asked <- sy_asked, answer <- sy_answer, calls <- sy_calls

MCInit ==
  /\ Init
  /\ \/ part = "split" /\ MeOff /\ UnOff /\ MvOff /\ HdOff /\ StOff /\ GlOff /\ SyOff
     \/ part = "cached" /\ Twice!Init
        /\ UnOff /\ MvOff /\ HdOff /\ StOff /\ GlOff /\ SyOff
     \/ part = "gone" /\ Gone!Init
        /\ UnOff /\ MvOff /\ HdOff /\ StOff /\ GlOff /\ SyOff
     \/ part = "archive" /\ Archive!Init
        /\ UnOff /\ MvOff /\ HdOff /\ StOff /\ GlOff /\ SyOff
     \/ part = "frames" /\ Frames!Init
        /\ MeOff /\ MvOff /\ HdOff /\ StOff /\ GlOff /\ SyOff
     \/ part = "ends" /\ Ends!Init
        /\ MeOff /\ MvOff /\ HdOff /\ StOff /\ GlOff /\ SyOff
     \/ part = "views" /\ Views!Init
        /\ MeOff /\ UnOff /\ HdOff /\ StOff /\ GlOff /\ SyOff
     \/ part = "headers" /\ Headers!Init
        /\ MeOff /\ UnOff /\ MvOff /\ StOff /\ GlOff /\ SyOff
     \/ ((part = "step" /\ Stepping!Init) \/ (part = "searched" /\ Searched!Init))
        /\ MeOff /\ UnOff /\ MvOff /\ HdOff /\ GlOff /\ SyOff
     \/ part = "lists" /\ Lists!Init
        /\ MeOff /\ UnOff /\ MvOff /\ HdOff /\ StOff /\ SyOff
     \/ part = "names" /\ Names!Init
        /\ MeOff /\ UnOff /\ MvOff /\ HdOff /\ StOff /\ GlOff

mcvars == <<part, vars, mevars, unvars, mvvars, hdvars, stvars, glvars, syvars>>
Split(A) == part = "split" /\ A /\ UNCHANGED <<part, mevars, unvars, mvvars, hdvars, stvars, glvars, syvars>>
TwicePart(A) == part = "cached" /\ A /\ UNCHANGED <<part, vars, unvars, mvvars, hdvars, stvars, glvars, syvars>>
GonePart(A) == part = "gone" /\ A /\ UNCHANGED <<part, vars, unvars, mvvars, hdvars, stvars, glvars, syvars>>
ArchivePart(A) == part = "archive" /\ A /\ UNCHANGED <<part, vars, unvars, mvvars, hdvars, stvars, glvars, syvars>>
FramesPart(A) == part = "frames" /\ A /\ UNCHANGED <<part, vars, mevars, mvvars, hdvars, stvars, glvars, syvars>>
EndsPart(A) == part = "ends" /\ A /\ UNCHANGED <<part, vars, mevars, mvvars, hdvars, stvars, glvars, syvars>>
ViewsPart(A) == part = "views" /\ A /\ UNCHANGED <<part, vars, mevars, unvars, hdvars, stvars, glvars, syvars>>
HeadersPart(A) == part = "headers" /\ A /\ UNCHANGED <<part, vars, mevars, unvars, mvvars, stvars, glvars, syvars>>
SteppingPart(A) == part = "step" /\ A /\ UNCHANGED <<part, vars, mevars, unvars, mvvars, hdvars, glvars, syvars>>
SearchedPart(A) == part = "searched" /\ A /\ UNCHANGED <<part, vars, mevars, unvars, mvvars, hdvars, glvars, syvars>>
ListsPart(A) == part = "lists" /\ A /\ UNCHANGED <<part, vars, mevars, unvars, mvvars, hdvars, stvars, syvars>>
NamesPart(A) == part = "names" /\ A /\ UNCHANGED <<part, vars, mevars, unvars, mvvars, hdvars, stvars, glvars>>
\* These come to their end, or are asked a number of times only.
Ended == part \in {"frames", "ends", "views", "headers", "step", "searched", "lists", "names"} /\ UNCHANGED mcvars
MCNext ==
  \/ Split(Next)
  \/ TwicePart(Twice!Next)
  \/ GonePart(Gone!Next)
  \/ ArchivePart(Archive!Next)
  \/ FramesPart(Frames!Next)
  \/ EndsPart(Ends!Next)
  \/ ViewsPart(Views!Next)
  \/ HeadersPart(Headers!Next)
  \/ SteppingPart(Stepping!Next)
  \/ SearchedPart(Searched!Next)
  \/ ListsPart(Lists!Next)
  \/ NamesPart(Names!Next)
  \/ Ended
\* What is fair is what the components say.
MCSpec ==
  /\ MCInit /\ [][MCNext]_mcvars
  /\ \A t \in Threads : SF_mcvars(Split(Step(t)))
  /\ WF_mcvars(EndsPart(Ends!Next))
  /\ WF_mcvars(HeadersPart(Headers!Loading))
  /\ \A t \in {1, 2} : WF_mcvars(SteppingPart(Stepping!Run(t)))
  /\ WF_mcvars(ListsPart(Lists!GetElfEntry \/ Lists!NextAddr))
-----------------------------------------------------------------------------
\* Whichever way another map gets its elf (the cache, the map after it,
\* the memory of the process, an archive): it is the one of its part of the
\* file, with its offset and load bias, marked if it was read from memory, and
\* shared between maps of one file when there is a cache.
MapsHaveRightElf ==
  /\ part = "cached" => Twice!RelPcRight /\ Twice!CacheShares
  /\ part = "gone" => Gone!MarkedInMemory
  /\ part = "archive" => Archive!RightElf /\ Archive!LoadBiasRight
\* What a caller was told stays: GetSoname gives the same answer every time, and
\* only a guessed frame is ever removed.
AnswersStay == Headers!SonameStable /\ Frames!OnlyGuessesRemoved
\* There are never more frames than max_frames_, and an unwind it cut off says
\* so; a frame is named at the pc that it shows; a frame guessed from the
\* return address stays only if it was stepped from.
FramesRight == part = "frames" => Frames!FramesRight
\* Unwind returns whatever the unwind information makes of the registers; an
\* elf is loaded; a step gives the lock of the elf back; a query of the lists
\* of jitted code and dex files ends.
CallsEnd ==
  /\ part = "ends" => Ends!UnwindEnds
  /\ part = "headers" => Headers!LoadEnds
  /\ part = "step" => Stepping!LockGivenBack
  /\ part = "lists" => Lists!QueryEnds
\* A view (a file from an offset, ranges of a memory, saved memory) shows what
\* it was made for and nothing else, all of it except where a second range ends
\* before the first; a string ends at its first nul.
ViewsShow ==
  part = "views" =>
    Views!FileShownFromOffset /\ Views!RangesCover /\ Views!PartsShowSaved /\ Views!StringsEndAtNul
\* In whatever order its headers come, an elf has the unwind sections they
\* name, all of its unpacked debug data, and the pcs of its segments.
HeadersRight ==
  part = "headers" => Headers!FramesFound /\ Headers!DebugdataWhole /\ Headers!ValidPcIsMapped
\* The most specific section that can make the step makes it, with the row for
\* the pc, cached or not; a step that fails has the error of the first section.
\* Both hold until IsValidPc searches a section during a step, which it never
\* does in an elf with segments.
StepRight == part \in {"step", "searched"} => Stepping!StepRight
\* The first entry with the pc, in the list of the first library that has one,
\* is found, whatever was asked before.
ListsFirstEntryFound == part = "lists" => Lists!ListsFirstEntryFound
\* The function that covers an address is found, whatever was asked before; in
\* a damaged table a name that is found is right.
NamesFound == part = "names" => Names!NameFound /\ Names!NameRight
=============================================================================
