------------------------------ MODULE MCTables ------------------------------
(* The tables that lead to unwind information, small instances for TLC: a    *)
(* behaviour is about one of the search table of .eh_frame_hdr (EhFrameHdr), *)
(* the index of FDEs (FdeIndex), the CIEs and FDEs (DwarfEntries), and the   *)
(* entries of the exidx table (ArmExidx), or about an expression that loops  *)
(* (DwarfOp).  The state of the others is Off, that of EhFrameHdr an initial *)
(* one.                                                                      *)
EXTENDS EhFrameHdr, Sequences, SequencesExt, FiniteSetsExt, TLC
CONSTANTS Off

VARIABLES part,
          ix_section, ix_next, ix_fdes, ix_result,
          en_section, en_cie_entries, en_fde_entries, en_next_entries_offset, en_result,
          ax_entry, ax_phase, ax_m, ax_result,
          op_phase, op_off, op_stack, op_dex, op_is_register, op_iterations, op_error

ixvars == <<ix_section, ix_next, ix_fdes, ix_result>>
envars == <<en_section, en_cie_entries, en_fde_entries, en_next_entries_offset, en_result>>
axvars == <<ax_entry, ax_phase, ax_m, ax_result>>
opvars == <<op_phase, op_off, op_stack, op_dex, op_is_register, op_iterations, op_error>>
IxOff ==
  /\ ix_section = Off /\ ix_next = Off /\ ix_fdes = Off /\ ix_result = Off
EnOff ==
  /\ en_section = Off /\ en_cie_entries = Off /\ en_fde_entries = Off /\ en_next_entries_offset = Off
  /\ en_result = Off
AxOff ==
  /\ ax_entry = Off /\ ax_phase = Off /\ ax_m = Off /\ ax_result = Off
OpOff ==
  /\ op_phase = Off /\ op_off = Off /\ op_stack = Off /\ op_dex = Off /\ op_is_register = Off
  /\ op_iterations = Off /\ op_error = Off

\* .eh_frame_hdr: tables that are sorted or not
MCTable == [Index -> {0, 1, 4}]
MCHeaders == [readable : BOOLEAN, version : {1, 2}, entry_size : {0, 4}, values : BOOLEAN]
MCPcs == 0..4

\* The index of FDEs
F(lo, hi, o) == [kind |-> "fde", lo |-> lo, hi |-> hi, overrun |-> o]
Other(k) == [kind |-> k, lo |-> 0, hi |-> 0, overrun |-> FALSE]
Whole == {F(b[1], b[2], FALSE) : b \in {c \in (0..3) \X (1..4) : c[1] < c[2]}}
\* FDEs in the order of their first pc, as a linker sorts functions
Ascending(s) == \A i, j \in DOMAIN s :
                  i < j /\ s[i].kind = "fde" /\ s[j].kind = "fde" => s[i].lo <= s[j].lo
Sections == {s \in BoundedSeq(Whole \cup {Other("cie")}, 3) : Ascending(s)}
\* FDEs in any order, entries that cannot be read, or that overrun their length
Damaged ==
  BoundedSeq({F(0, 2, FALSE), F(1, 3, FALSE), F(2, 4, FALSE), F(1, 2, TRUE)} \cup
             {Other(k) : k \in {"cie", "bad", "short"}}, 4)
Ordered == INSTANCE FdeIndex WITH
  Sections <- Sections, section <- ix_section, next <- ix_next, fdes <- ix_fdes, result <- ix_result
AnyOrder == INSTANCE FdeIndex WITH
  Sections <- Damaged, section <- ix_section, next <- ix_next, fdes <- ix_fdes, result <- ix_result
ASSUME IndexConstants == Ordered!FdeIndexAssumption /\ Ordered!Ascending /\ AnyOrder!FdeIndexAssumption

\* A CIE, two FDEs of it, a second CIE and its FDE, cut off after some field
Sized(wide, body) == (IF wide THEN <<-1>> ELSE <<>>) \o <<Len(body)>> \o body
\* Augmentation strings "", "zR", "zPL", with their data
Augs == {<<<<>>, <<>>>>, <<<<122, 82>>, <<1, 7>>>>, <<<<122, 80, 76>>, <<3, 8, 9, 7>>>>}
Cie(debug, wide, version, aug) ==
  Sized(wide, <<IF debug THEN -1 ELSE 0, version>> \o aug[1] \o <<0>>
                \o (IF version = 4 THEN <<8, 1>> ELSE <<>>) \o <<1, 2, 30>> \o aug[2] \o <<5>>)
Fde(wide, pointer, version, aug, lo) ==
  Sized(wide, <<pointer>> \o (IF version = 4 THEN <<6>> ELSE <<>>) \o <<lo, 2>>
                \o (IF aug[1] = <<>> THEN <<>> ELSE <<2, 6, 6>>) \o <<4>>)
Pointer(debug, wide, off, cie) == IF debug THEN cie - 1 ELSE (off + (IF wide THEN 2 ELSE 1)) - cie

\* c at 1, f and g of it, d and h of it
Section(kind, wide, v1, a1, v2, a2, cut) ==
  LET debug == kind = "debug_frame"
      c == Cie(debug, wide, v1, a1)
      o1 == Len(c) + 1
      f == Fde(wide, Pointer(debug, wide, o1, 1), v1, a1, 3)
      o2 == o1 + Len(f)
      g == Fde(~wide, Pointer(debug, ~wide, o2, 1), v1, a1, 7)
      o3 == o2 + Len(g)
      d == Cie(debug, wide, v2, a2)
      o4 == o3 + Len(d)
      h == Fde(wide, Pointer(debug, wide, o4, o3), v2, a2, 9)
      all == c \o f \o g \o d \o h
  IN  [kind |-> kind, fields |-> SubSeq(all, 1, Min({cut, Len(all)})),
       starts |-> {1, o1, o2, o3, o4}]
Entries ==
  {Section(k, w, v1, a1, v2, a2, cut) :
     k \in {"eh_frame", "debug_frame", "eh_frame_hdr"}, w \in BOOLEAN, v1 \in {1, 4}, a1 \in Augs,
     v2 \in {2, 3}, a2 \in {<<<<122, 82>>, <<1, 7>>>>}, cut \in {3 * n : n \in 0..20} \cup 60..70}
Ent == INSTANCE DwarfEntries WITH
  Sections <- Entries, section <- en_section, cie_entries <- en_cie_entries, fde_entries <- en_fde_entries,
  next_entries_offset <- en_next_entries_offset, result <- en_result

\* Entries in each of the formats of the exidx table, padded with finish as the ABI asks
Pad(bytes, n) == bytes \o [i \in 1..(n - Len(bytes)) |-> 176]
Words(bytes) == [i \in 1..(Len(bytes) \div 4) |-> SubSeq(bytes, 4 * i - 3, 4 * i)]
Ceil(n) == IF n <= 0 THEN 0 ELSE (n + 3) \div 4
EntryOf(program, word, words) ==
    [aligned |-> TRUE, valid |-> TRUE, word |-> word, table |-> words, program |-> program]
Prel31 == <<0, 1, 0, 0>>
Inline(p) == EntryOf(p, <<128>> \o Pad(FlattenSeq(p), 3), <<>>)
Su16(p) == EntryOf(p, Prel31, <<<<128>> \o Pad(FlattenSeq(p), 3)>>)
Lu16(p) ==
    LET n == Ceil(Len(FlattenSeq(p)) - 2)
    IN  EntryOf(p, Prel31, Words(<<129, n>> \o Pad(FlattenSeq(p), 2 + 4 * n)))
Generic(p) ==
    LET n == Ceil(Len(FlattenSeq(p)) - 3)
    IN  EntryOf(p, Prel31, Words(<<0, 0, 1, 0>> \o <<n>> \o Pad(FlattenSeq(p), 3 + 4 * n)))
Formats(p) == {Lu16(p), Generic(p)} \cup (IF Len(FlattenSeq(p)) <= 3 THEN {Inline(p), Su16(p)} ELSE {})

Entry(aligned, word, words) ==
    [aligned |-> aligned, valid |-> FALSE, word |-> word, table |-> words, program |-> <<>>]
Malformed == {
    Entry(FALSE, <<128, 0, 0, 176>>, <<>>), Entry(TRUE, <<>>, <<>>),
    Entry(TRUE, <<0, 0, 0, 1>>, <<>>), Entry(TRUE, <<129, 0, 0, 176>>, <<>>),
    Entry(TRUE, Prel31, <<>>), Entry(TRUE, Prel31, <<<<131, 0, 0, 0>>>>),
    Entry(TRUE, Prel31, <<<<0, 0, 0, 0>>>>), Entry(TRUE, Prel31, <<<<129, 6, 0, 0>>>>),
    Entry(TRUE, Prel31, <<<<129, 1, 0, 0>>>>), Entry(TRUE, <<128, 0, 178, 255>>, <<>>),
    Entry(TRUE, <<128, 0, 0, 201>>, <<>>), Entry(TRUE, <<128, 0, 128, 176>>, <<>>)}

MCStack == [a \in {x \in 900..1700 : x % 4 = 0 /\ x # 1016} |-> IF a = 1004 THEN 0 ELSE a + 40]

Adds == {<<0>>, <<2>>, <<65>>, <<178, 1>>}
Pops1 == {<<132, 1>>, <<136, 0>>, <<161>>, <<168>>, <<177, 3>>}
Others == {<<130, 0>>, <<128, 0>>, <<151>>, <<157>>, <<177, 0>>, <<178, 129, 1>>, <<179, 18>>, <<180>>,
           <<185>>, <<192>>, <<198, 17>>, <<199, 5>>, <<199, 16>>, <<200, 2>>, <<201, 1>>,
           <<202>>, <<209>>, <<216>>}
Instrs == Adds \cup Pops1 \cup Others
ArmPrograms == {<<>>} \cup {<<i>> : i \in Instrs} \cup {<<i, j>> : i, j \in Instrs}
            \cup {<<i, j, k>> : i, j \in Pops1 \cup {<<0>>, <<151>>, <<130, 0>>, <<201, 1>>}, k \in Instrs}
AllEntries == Malformed \cup UNION {Formats(p) : p \in ArmPrograms}

\* One pop, of registers that are not the stack pointer, and an optional vsp = r7 first
OnePop == {f \o a \o <<p>> \o b : f \in {<<>>, <<<<151>>>>}, p \in Pops1,
              a \in SeqOf(Adds, 2), b \in SeqOf(Adds, 2)}
OnePopEntries == UNION {Formats(p) : p \in OnePop}
Arm == INSTANCE ArmExidx WITH
  Entries <- AllEntries, Stack <- MCStack, Sp <- 1000, Modulus <- 65536,
  entry <- ax_entry, phase <- ax_phase, m <- ax_m, result <- ax_result
ArmLog == INSTANCE ArmExidx WITH
  Entries <- OnePopEntries, Stack <- MCStack, Sp <- 1000, Modulus <- 65536,
  entry <- ax_entry, phase <- ax_phase, m <- ax_m, result <- ax_result

\* Pushes, branches and what counts down
LoopOps == {12, 18, 19, 21, 28, 40, 47, 49, 80}
Loop == INSTANCE DwarfOp WITH
  Bits <- 3, Ops <- LoopOps, Unsigned <- {0, 1, 5}, Signed <- -2..1, DexMarker <- 5, Regs <- <<1, 6>>,
  Start <- 1, End <- 4, MaxIterations <- 6, phase <- op_phase, off <- op_off, stack <- op_stack,
  dex <- op_dex, is_register <- op_is_register, iterations <- op_iterations, error <- op_error

MCInit ==
  \/ part = "hdr" /\ Init /\ IxOff /\ EnOff /\ AxOff /\ OpOff
  \/ /\ Init /\ table = [i \in Index |-> 0] /\ relative = FALSE /\ unreadable = {} /\ ends = [i \in Index |-> 3]
     /\ \/ part = "ordered" /\ Ordered!Init /\ EnOff /\ AxOff /\ OpOff
        \/ part = "any" /\ AnyOrder!Init /\ EnOff /\ AxOff /\ OpOff
        \/ part = "entries" /\ Ent!Init /\ IxOff /\ AxOff /\ OpOff
        \/ part = "arm" /\ Arm!Init /\ IxOff /\ EnOff /\ OpOff
        \/ part = "log" /\ ArmLog!Init /\ IxOff /\ EnOff /\ OpOff
        \/ part = "loop" /\ Loop!Init /\ IxOff /\ EnOff /\ AxOff
ArmNext == part = "arm" /\ Arm!Next /\ UNCHANGED <<part, vars, ixvars, envars, opvars>>
LoopNext == part = "loop" /\ Loop!Next /\ UNCHANGED <<part, vars, ixvars, envars, axvars>>
HdrSearch == part = "hdr" /\ SearchStep /\ UNCHANGED <<part, ixvars, envars, axvars, opvars>>
MCNext ==
  \/ part = "hdr" /\ Next /\ UNCHANGED <<part, ixvars, envars, axvars, opvars>>
  \/ part = "ordered" /\ Ordered!Next /\ UNCHANGED <<part, vars, envars, axvars, opvars>>
  \/ part = "any" /\ AnyOrder!Next /\ UNCHANGED <<part, vars, envars, axvars, opvars>>
  \/ part = "entries" /\ Ent!Next /\ UNCHANGED <<part, vars, ixvars, axvars, opvars>>
  \/ ArmNext
  \/ part = "log" /\ ArmLog!Next /\ UNCHANGED <<part, vars, ixvars, envars, opvars>>
  \/ LoopNext
mcvars == <<part, vars, ixvars, envars, axvars, opvars>>
\* The loops of Eval and of the search run on.
MCSpec == MCInit /\ [][MCNext]_mcvars /\ WF_mcvars(ArmNext) /\ WF_mcvars(LoopNext) /\ WF_mcvars(HdrSearch)
-----------------------------------------------------------------------------
\* The FDE that GetFdeFromPc returns covers the pc, with a search table or an
\* index built lookup by lookup.  In the index it is the first of the section,
\* every pc read so far is there, and GetFdes lists the whole section.
FdeLookups ==
  /\ part = "hdr" => ReturnedFdeCovers /\ CacheIsTable
  /\ part = "ordered" => Ordered!ReturnedFdeCovers /\ Ordered!FindsFirst /\ Ordered!ListsAll /\ Ordered!IndexComplete
  /\ part = "any" => AnyOrder!ReturnedFdeCovers /\ AnyOrder!ListsAll
\* A CIE or FDE in the caches is as it is written, by whichever way it was
\* read; every cached FDE has its CIE; what could not be read is not cached.
EntriesAsWritten == part = "entries" => Ent!EntriesAsWritten /\ Ent!NoDanglingCie /\ Ent!FailureNotCached
\* An exidx entry in any format is executed as its program says, up to the
\* finish code, and then the stack pointer and the pc are the caller's.
ArmExecutesProgram == part = "arm" => Arm!DataFollowsProgram /\ Arm!FinishFound /\ Arm!StepMovesToCaller
\* The decoder that only logs consumes and ends as the one that executes, and
\* the log by register says what executing the entry does.
ArmLogRight == (part = "arm" => Arm!LoggingIsPassive) /\ (part = "log" => ArmLog!LogIsExecution)
\* A search of the table, the decoding of an exidx entry and the evaluation of
\* an expression with branches come to an end, whatever they are given.
DecodingEnds ==
  /\ SearchEndsSometime
  /\ part = "arm" => Arm!EvalEnds
  /\ part = "loop" => Loop!EvalEnds
=============================================================================
