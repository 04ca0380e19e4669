------------------------------ MODULE ArmExidx ------------------------------
(***************************************************************************)
(* Unwinding of an ARM frame by its exception index entry (ArmExidx.cpp,   *)
(* StepExidx in ElfInterfaceArm.cpp): the bytes of the entry are extracted *)
(* from the index word, or from the table it points to, and decoded one    *)
(* instruction at a time.  The same bytes are decoded in the three ways    *)
(* the code has: executed without a log, executed with a log by register,  *)
(* and logged only (log_skip_execution, for the tool that prints an entry).*)
(*                                                                         *)
(* A word is the tuple of its four bytes, the most significant first.  The *)
(* address arithmetic of prel31 offsets is left out: a word with bit 31    *)
(* clear leads to entry.table.                                             *)
(***************************************************************************)
EXTENDS Integers, Sequences, SequencesExt, FiniteSetsExt

CONSTANTS
    Entries,      \* records: aligned, word, table; program, the instructions, if valid
    Stack,        \* the words of the process's stack, by address
    Sp,           \* r13 of the frame
    Modulus       \* 2^32: addresses are uint32_t

VARIABLES entry, phase, m, result

vars == <<entry, phase, m, result>>

Unreadable == <<>>
ARM_OP_FINISH == 176
ARM_REG_SP == 13
ARM_REG_LR == 14
ARM_REG_PC == 15
LogModes == {"none", "by_reg", "skip"}
Regs0 == [r \in 0..15 |-> CASE r = ARM_REG_SP -> Sp [] r = ARM_REG_LR -> 3 [] r = ARM_REG_PC -> 1
                             [] OTHER -> Sp + 8]

(***************************************************************************)
(* ExtractEntryData                                                        *)
(***************************************************************************)
Extracted(status, data) == [status |-> status, data |-> data]
WithFinishNever(data) == Extracted("NONE", data)
WithFinish(data) ==
    Extracted("NONE", IF Last(data) = ARM_OP_FINISH THEN data ELSE Append(data, ARM_OP_FINISH))

WordAt(table, k) == IF k <= Len(table) THEN table[k] ELSE Unreadable
\* num_table_words words from the k-th on, after the bytes of the header
TableWords(table, data, words, k) ==
    LET read == [i \in 1..words |-> WordAt(table, (k + i) - 1)]
    IN  IF words > 5 THEN Extracted("MALFORMED", data)
        ELSE IF \E i \in 1..words : read[i] = Unreadable THEN Extracted("READ_FAILED", data)
        ELSE WithFinish(data \o FlattenSeq(read))
CompactTable(table, w) ==
    CASE w[1] % 16 = 0        -> TableWords(table, <<w[2], w[3], w[4]>>, 0, 1)
      [] w[1] % 16 \in {1, 2} -> TableWords(table, <<w[3], w[4]>>, w[2], 2)
      [] OTHER                -> Extracted("INVALID_PERSONALITY", <<>>)
GenericTable(table, w) ==
    IF w = Unreadable THEN Extracted("READ_FAILED", <<>>)
    ELSE TableWords(table, <<w[2], w[3], w[4]>>, w[1], 3)
ExtractTable(table) ==
    LET w == WordAt(table, 1)
    IN  IF w = Unreadable THEN Extracted("READ_FAILED", <<>>)
        ELSE IF w[1] >= 128 THEN CompactTable(table, w)
        ELSE GenericTable(table, WordAt(table, 2))

EntryData(e) ==
    IF ~e.aligned THEN Extracted("INVALID_ALIGNMENT", <<>>)
    ELSE IF e.word = Unreadable THEN Extracted("READ_FAILED", <<>>)
    ELSE IF e.word = <<0, 0, 0, 1>> THEN Extracted("NO_UNWIND", <<>>)
    ELSE IF e.word[1] < 128 THEN ExtractTable(e.table)
    ELSE IF e.word[1] % 16 # 0 THEN Extracted("INVALID_PERSONALITY", <<>>)
    ELSE WithFinish(Tail(e.word))

(***************************************************************************)
(* Decode: a decoder d has the bytes left in data_, the registers, cfa_,   *)
(* status_, pc_set_ and the log; an instruction continues while status_ is *)
(* NONE.                                                                   *)
(***************************************************************************)
Bit(b, i) == (b \div 2 ^ i) % 2 = 1
InMask(mask, lo, hi) == SelectSeq([i \in 1..((hi - lo) + 1) |-> (lo + i) - 1], LAMBDA r : Bit(mask, r))
Stop(d, status) == [d EXCEPT !.status = status]
GetByte(d) == IF d.data = <<>> THEN Stop(d, "TRUNCATED") ELSE [d EXCEPT !.data = Tail(@)]

LogAddNoAdjust(d, n) ==
    IF d.log = "none" THEN d ELSE [d EXCEPT !.log_cfa_offset = @ + n]
\* AdjustRegisters moves the registers logged so far; only the additions call it
LogAdd(d, n) ==
    IF d.log = "none" THEN d
    ELSE [d EXCEPT !.log_cfa_offset = @ + n, !.log_regs = [r \in DOMAIN @ |-> @[r] + n]]
LogPop(d, regs) ==
    LET size == 4 * Len(regs)
        offset(r) == size - 4 * (CHOOSE i \in DOMAIN regs : regs[i] = r) + 4
    IN  IF d.log = "none" THEN d
        ELSE [d EXCEPT !.log_cfa_offset = @ + size,
                       !.log_regs = [r \in ToSet(regs) \cup DOMAIN @ |->
                                        IF r \in ToSet(regs) THEN offset(r) ELSE @[r]]]
Skipped(d) == d.log = "skip"

MoveCfa(d, n) == IF Skipped(d) THEN d ELSE [d EXCEPT !.cfa = (@ + n) % Modulus]
AddToVsp(d, n) == MoveCfa(LogAdd(d, n), n)

Read32(d, reg) ==
    IF d.status # "NONE" THEN d
    ELSE IF d.cfa \notin DOMAIN Stack THEN Stop(d, "READ_FAILED")
    ELSE [d EXCEPT !.regs[reg] = Stack[d.cfa], !.cfa = (@ + 4) % Modulus]
PopRegs(d, regs) == IF Skipped(d) THEN d ELSE FoldLeft(Read32, d, regs)

DecodePrefix_10_00(d0, b) ==
    LET d == GetByte(d0)
        mask == 16 * (256 * (b % 16) + Head(d0.data))
        regs == InMask(mask, 4, 15)
        popped == PopRegs(LogPop(d, regs), regs)
    IN  IF d.status # "NONE" THEN d
        ELSE IF mask = 0 THEN Stop(d, "NO_UNWIND")
        ELSE IF Skipped(d) \/ popped.status # "NONE" THEN popped
        ELSE [popped EXCEPT !.cfa = IF Bit(mask, ARM_REG_SP) THEN popped.regs[ARM_REG_SP] ELSE @,
                            !.pc_set = @ \/ Bit(mask, ARM_REG_PC)]

DecodePrefix_10_01OnlyLogged(d, b) ==
    IF b % 16 \in {13, 15} THEN Stop(d, "RESERVED")
    ELSE IF d.log = "none" THEN [d EXCEPT !.cfa = d.regs[b % 16]]
    ELSE [d EXCEPT !.log_cfa_reg = b % 16]
DecodePrefix_10_01(d, b) ==
    IF b % 16 \in {13, 15} THEN Stop(d, "RESERVED")
    ELSE LET l == IF d.log = "none" THEN d ELSE [d EXCEPT !.log_cfa_reg = b % 16]
         IN  IF Skipped(d) THEN l ELSE [l EXCEPT !.cfa = d.regs[b % 16]]

DecodePrefix_10_10(d, b) ==
    LET regs == [i \in 1..((b % 8) + 1) |-> i + 3] \o (IF Bit(b, 3) THEN <<ARM_REG_LR>> ELSE <<>>)
    IN  PopRegs(LogPop(d, regs), regs)

DecodePrefix_10_11_0001(d0) ==
    LET d == GetByte(d0)
        b == Head(d0.data)
    IN  IF d.status # "NONE" THEN d
        ELSE IF b = 0 \/ b >= 16 THEN Stop(d, "SPARE")
        ELSE PopRegs(LogPop(d, InMask(b, 0, 3)), InMask(b, 0, 3))

\* A ULEB128: seven bits a byte, the last one below 128.
DecodePrefix_10_11_0010(d) ==
    LET last == {i \in DOMAIN d.data : d.data[i] < 128}
        value(n) == FoldLeft(LAMBDA v, i : v + (d.data[i] % 128) * 2 ^ (7 * (i - 1)), 0,
                             [i \in 1..n |-> i])
    IN  IF last = {} THEN Stop([d EXCEPT !.data = <<>>], "TRUNCATED")
        ELSE AddToVsp([d EXCEPT !.data = SubSeq(@, Min(last) + 1, Len(@))],
                      516 + 4 * value(Min(last)))

DecodePrefix_10_11_0000(d) == Stop(d, "FINISH")
DecodePrefix_10_11_0011(d) ==
    IF d.data = <<>> THEN GetByte(d) ELSE MoveCfa(GetByte(d), 8 * (Head(d.data) % 16) + 12)
DecodePrefix_10_11_01nn(d) == Stop(d, "SPARE")
DecodePrefix_10_11_1nnn(d, b) == MoveCfa(d, 8 * (b % 8) + 12)
DecodePrefix_10_11(d, b) ==
    CASE b % 16 = 0      -> DecodePrefix_10_11_0000(d)
      [] b % 16 = 1      -> DecodePrefix_10_11_0001(d)
      [] b % 16 = 2      -> DecodePrefix_10_11_0010(d)
      [] b % 16 = 3      -> DecodePrefix_10_11_0011(d)
      [] b % 16 \in 4..7 -> DecodePrefix_10_11_01nn(d)
      [] OTHER           -> DecodePrefix_10_11_1nnn(d, b)

DecodePrefix_10(d, b) ==
    CASE (b \div 16) % 4 = 0 -> DecodePrefix_10_00(d, b)
      [] (b \div 16) % 4 = 1 -> DecodePrefix_10_01(d, b)
      [] (b \div 16) % 4 = 2 -> DecodePrefix_10_10(d, b)
      [] OTHER               -> DecodePrefix_10_11(d, b)

PopCount(b) == Len(InMask(b, 0, 7))
DecodePrefix_11_000(d, b) ==
    LET c == Head(d.data) IN
    CASE b % 8 < 6     -> MoveCfa(d, 8 * (b % 8) + 8)
      [] d.data = <<>> -> GetByte(d)
      [] b % 8 = 6     -> MoveCfa(GetByte(d), 8 * (c % 16) + 8)
      [] OTHER         -> IF c = 0 \/ c >= 16 THEN Stop(GetByte(d), "SPARE")
                          ELSE MoveCfa(GetByte(d), 4 * PopCount(c))
DecodePrefix_11_001NoOperand(d, b) ==
    IF b % 8 \in {0, 1} THEN MoveCfa(d, 8) ELSE Stop(d, "SPARE")
DecodePrefix_11_001(d, b) ==
    IF b % 8 \notin {0, 1} THEN Stop(d, "SPARE")
    ELSE IF d.data = <<>> THEN GetByte(d)
    ELSE MoveCfa(GetByte(d), 8 * (Head(d.data) % 16) + 8)
DecodePrefix_11_010(d, b) == MoveCfa(d, 8 * (b % 8) + 8)
DecodePrefix_11(d, b) ==
    CASE (b \div 8) % 8 = 0 -> DecodePrefix_11_000(d, b)
      [] (b \div 8) % 8 = 1 -> DecodePrefix_11_001(d, b)
      [] (b \div 8) % 8 = 2 -> DecodePrefix_11_010(d, b)
      [] OTHER              -> Stop(d, "SPARE")

DecodeByte(d0) ==
    LET d == GetByte(d0)
        b == Head(d0.data)
    IN  CASE d.status # "NONE" -> d
          [] b \div 64 = 0     -> AddToVsp(d, 4 * (b % 64) + 4)
          [] b \div 64 = 1     -> AddToVsp(d, -(4 * (b % 64) + 4))
          [] b \div 64 = 2     -> DecodePrefix_10(d, b)
          [] OTHER             -> DecodePrefix_11(d, b)

(***************************************************************************)
(* The step                                                                *)
(***************************************************************************)
NewArmExidx(log) ==
    [data |-> <<>>, regs |-> Regs0, cfa |-> Sp, status |-> "NONE", pc_set |-> FALSE,
     log |-> log, log_cfa_reg |-> ARM_REG_SP, log_cfa_offset |-> 0, log_regs |-> <<>>]
NoResult == [ret |-> FALSE, finished |-> FALSE, error |-> "NONE"]

Init ==
    /\ entry \in Entries
    /\ phase = "extract"
    /\ m = [log \in LogModes |-> NewArmExidx(log)]
    /\ result = NoResult

ExtractEntryData ==
    /\ phase = "extract"
    /\ LET x == EntryData(entry)
       IN  m' = [log \in LogModes |-> [m[log] EXCEPT !.data = x.data, !.status = x.status]]
    /\ phase' = "eval"
    /\ UNCHANGED <<entry, result>>

RunningUntilFinish(d) == d.status # "FINISH"
Running(d) == d.status = "NONE"
Decode ==
    /\ phase = "eval" /\ \E log \in LogModes : Running(m[log])
    /\ m' = [log \in LogModes |-> IF Running(m[log]) THEN DecodeByte(m[log]) ELSE m[log]]
    /\ UNCHANGED <<entry, phase, result>>

ErrorOf(status) ==
    CASE status \in {"NONE", "NO_UNWIND", "FINISH"} -> "NONE"
      [] status = "READ_FAILED"                      -> "MEMORY_INVALID"
      [] OTHER                                       -> "UNWIND_INFO"
SteppedToLr(d) == [d.regs EXCEPT ![ARM_REG_PC] = d.regs[ARM_REG_LR], ![ARM_REG_SP] = d.cfa]
Stepped(d) ==
    [d.regs EXCEPT ![ARM_REG_PC] = IF d.pc_set THEN @ ELSE d.regs[ARM_REG_LR],
                   ![ARM_REG_SP] = d.cfa]
\* The end of StepExidx, on the decoder without a log
StepExidx ==
    /\ phase = "eval" /\ \A log \in LogModes : ~Running(m[log])
    /\ phase' = "done"
    /\ LET d == m["none"]
           ok == d.status = "FINISH"
       IN  /\ result' = [ret |-> ok \/ d.status = "NO_UNWIND",
                         finished |-> d.status = "NO_UNWIND" \/ (ok /\ Stepped(d)[ARM_REG_PC] = 0),
                         error |-> ErrorOf(d.status)]
           /\ m' = IF ok THEN [m EXCEPT !["none"].regs = Stepped(d)] ELSE m
    /\ UNCHANGED entry

Next == ExtractEntryData \/ Decode \/ StepExidx

Spec == Init /\ [][Next]_vars

FairSpec == Spec /\ WF_vars(Next)

Bytes(program) == FlattenSeq(program)
IsPadding(data) == \A i \in DOMAIN data : data[i] = ARM_OP_FINISH
Pops(instr, reg) == instr[1] \div 16 = 8 /\ Bit(16 * (256 * (instr[1] % 16) + instr[2]), reg)
PopsPc(program) == \E i \in DOMAIN program : Pops(program[i], ARM_REG_PC)

(***************************************************************************)
(* The bytes that are left always begin with an instruction of the entry:  *)
(* extraction, in each of the formats, and the operand counts of Decode    *)
(* agree with the instructions the entry was written with.                 *)
(***************************************************************************)
DataFollowsProgram ==
    phase = "eval" /\ entry.valid =>
        \A log \in LogModes : Running(m[log]) =>
            \E k \in 0..Len(entry.program) :
                LET rest == Bytes(SubSeq(entry.program, k + 1, Len(entry.program)))
                IN  /\ IsPrefix(rest, m[log].data)
                    /\ IsPadding(SubSeq(m[log].data, Len(rest) + 1, Len(m[log].data)))

(***************************************************************************)
(* An entry whose instructions are complete is never TRUNCATED: the finish *)
(* that ExtractEntryData adds, or the padding, ends it.                    *)
(***************************************************************************)
FinishFound == entry.valid => \A log \in LogModes : m[log].status # "TRUNCATED"

(***************************************************************************)
(* A log changes nothing: decoding with it leaves the same registers, and  *)
(* decoding without execution consumes the same bytes, ends the same way   *)
(* and logs the same unless a read of the stack fails.                     *)
(***************************************************************************)
LoggingIsPassive ==
    phase = "eval" =>
        /\ \A f \in {"regs", "cfa", "status", "pc_set", "data"} : m["none"][f] = m["by_reg"][f]
        /\ m["by_reg"].status # "READ_FAILED" =>
              \A f \in {"status", "data", "log_cfa_reg", "log_cfa_offset", "log_regs"} :
                  m["skip"][f] = m["by_reg"][f]

(***************************************************************************)
(* What LogByReg prints is what was executed: the cfa is the register it   *)
(* names plus the offset, and each register was read where the log says.   *)
(***************************************************************************)
LogIsExecution ==
    LET d == m["by_reg"] IN
    d.status = "FINISH" =>
        /\ d.cfa = (Regs0[d.log_cfa_reg] + d.log_cfa_offset) % Modulus
        /\ \A r \in DOMAIN d.log_regs :
              LET addr == (d.cfa - d.log_regs[r]) % Modulus
              IN  addr \in DOMAIN Stack /\ d.regs[r] = Stack[addr]

(***************************************************************************)
(* A step that succeeds moves to the caller: the stack pointer is the cfa  *)
(* and the pc the one that was popped, or else the link register; a step   *)
(* that is refused ends the unwind, any other failure has an error code.   *)
(***************************************************************************)
StepMovesToCaller ==
    phase = "done" /\ entry.valid =>
        LET d == m["none"] IN
        /\ result.ret <=> d.status \in {"FINISH", "NO_UNWIND"}
        /\ d.status = "FINISH" =>
              /\ d.regs[ARM_REG_SP] = d.cfa
              /\ ~PopsPc(entry.program) => d.regs[ARM_REG_PC] = d.regs[ARM_REG_LR]
              /\ PopsPc(entry.program) =>
                    \E a \in DOMAIN Stack : d.regs[ARM_REG_PC] = Stack[a]
        /\ ~result.ret <=> result.error # "NONE"

(***************************************************************************)
(* Eval's loop ends whatever the entry holds.                              *)
(***************************************************************************)
EvalEnds == <>(phase = "done")
=============================================================================
