------------------------------ MODULE DwarfCfa ------------------------------
(***************************************************************************)
(* The rows of call frame information: the interpreter of DW_CFA_*          *)
(* instructions (libunwindstack/DwarfCfa.cpp) and the caches of its         *)
(* results, of CIEs and of rows, in DwarfSection::Step.                     *)
(*                                                                         *)
(* A frame description is a sequence of instructions for the range of pcs   *)
(* Low..High-1 of its function.  Rules are a function from the registers,   *)
(* and CFA_REG, that have one.                                              *)
(***************************************************************************)
EXTENDS Integers, Sequences, FiniteSets, TLC

CONSTANTS Registers,      \* numbers of registers
          Numbers,        \* operands that are offsets
          DataAlign,      \* data_alignment_factor
          Functions,      \* the functions, with Low, High: their ranges of pcs
          Low, High,
          CiePrograms,    \* instructions of the CIE all functions share
          Programs        \* instructions of the FDEs, by function

CFA_REG == 65535

VARIABLES cie, fde,           \* the instructions
          cie_loc_regs,       \* cie_loc_regs_: the CIE's rules, once evaluated
          loc_regs,           \* loc_regs_: rows by pc_end
          used                \* the last Step: its pc and the row it used

vars == <<cie, fde, cie_loc_regs, loc_regs, used>>

NoRules == <<>>
NotCached == [cached |-> FALSE, rules |-> NoRules]
Put(rules, reg, loc) == (reg :> loc) @@ rules
Erase(rules, reg) == [r \in DOMAIN rules \ {reg} |-> rules[r]]
Loc(type, v0, v1) == [type |-> type, v0 |-> v0, v1 |-> v1]
-----------------------------------------------------------------------------
(* DwarfCfaInfo::kTable and the primary op codes: operands by instruction.   *)
(* "block" is the end of an expression.  Any other op code is "illegal".     *)
kTable ==
  [nop |-> <<>>, GNU_args_size |-> <<"number">>,
   advance_loc |-> <<"delta">>, set_loc |-> <<"pc">>,
   offset |-> <<"reg", "number">>, offset_extended |-> <<"reg", "number">>,
   offset_extended_sf |-> <<"reg", "number">>, val_offset |-> <<"reg", "number">>,
   GNU_negative_offset_extended |-> <<"reg", "number">>,
   restore |-> <<"reg">>, undefined |-> <<"reg">>, same_value |-> <<"reg">>,
   register |-> <<"reg", "reg">>, remember_state |-> <<>>, restore_state |-> <<>>,
   def_cfa |-> <<"reg", "number">>, def_cfa_sf |-> <<"reg", "number">>,
   def_cfa_register |-> <<"reg">>, def_cfa_offset |-> <<"number">>,
   def_cfa_offset_sf |-> <<"number">>, def_cfa_expression |-> <<"block">>,
   expression |-> <<"reg", "block">>, val_expression |-> <<"reg", "block">>,
   illegal |-> <<>>, unreadable |-> <<>>]

(* One instruction, on the machine m: location, rules, remembered states.    *)
Rule(m, reg, loc) == [m EXCEPT !.rules = Put(m.rules, reg, loc)]
Error(m, code) == [m EXCEPT !.error = code]

CfaIsRegister(m) == CFA_REG \in DOMAIN m.rules /\ m.rules[CFA_REG].type = "register"
DefCfaPart(m, loc) == IF CfaIsRegister(m) THEN Rule(m, CFA_REG, loc) ELSE Error(m, "ILLEGAL_STATE")

cfa_restore(m, reg, initial) ==
  IF ~initial.cached THEN Error(m, "ILLEGAL_STATE")
  ELSE IF reg \in DOMAIN initial.rules THEN Rule(m, reg, initial.rules[reg])
  ELSE [m EXCEPT !.rules = Erase(m.rules, reg)]

\* A state is the whole of loc_regs, its pc_start too.
cfa_remember_state(m) ==
  [m EXCEPT !.states = <<[rules |-> m.rules, pc_start |-> m.pc_start]>> \o m.states]
cfa_restore_state(m) ==
  IF m.states = <<>> THEN m
  ELSE [m EXCEPT !.rules = m.states[1].rules, !.pc_start = m.states[1].pc_start,
                 !.states = Tail(m.states)]

RegisterRule(i) ==
  LET v == i.v[2]
  IN  CASE i.op \in {"offset", "offset_extended_sf"} -> Loc("offset", v * DataAlign, 0)
        [] i.op = "offset_extended" -> Loc("offset", v, 0)
        [] i.op = "GNU_negative_offset_extended" -> Loc("offset", -v, 0)
        [] i.op = "val_offset" -> Loc("val_offset", v * DataAlign, 0)
        [] i.op = "register" -> Loc("register", v, 0)
        [] i.op = "expression" -> Loc("expression", v, 0)
        [] i.op = "val_expression" -> Loc("val_expression", v, 0)

CfaRule(m, i) ==
  CASE i.op = "def_cfa" -> Rule(m, CFA_REG, Loc("register", i.v[1], i.v[2]))
    [] i.op = "def_cfa_sf" -> Rule(m, CFA_REG, Loc("register", i.v[1], i.v[2] * DataAlign))
    [] i.op = "def_cfa_expression" -> Rule(m, CFA_REG, Loc("val_expression", i.v[1], 0))
    [] i.op = "def_cfa_register" -> DefCfaPart(m, Loc("register", i.v[1], m.rules[CFA_REG].v1))
    [] i.op = "def_cfa_offset" -> DefCfaPart(m, Loc("register", m.rules[CFA_REG].v0, i.v[1]))
    [] i.op = "def_cfa_offset_sf" ->
         DefCfaPart(m, Loc("register", m.rules[CFA_REG].v0, i.v[1] * DataAlign))

Exec(m, i, initial) ==
  CASE i.op \in {"nop", "GNU_args_size"} -> m
    [] i.op = "advance_loc" -> [m EXCEPT !.pc = m.pc + i.v[1]]
    [] i.op = "set_loc" -> [m EXCEPT !.pc = i.v[1]]
    [] i.op = "restore" -> cfa_restore(m, i.v[1], initial)
    [] i.op = "undefined" -> Rule(m, i.v[1], Loc("undefined", 0, 0))
    [] i.op = "same_value" -> [m EXCEPT !.rules = Erase(m.rules, i.v[1])]
    [] i.op = "remember_state" -> cfa_remember_state(m)
    [] i.op = "restore_state" -> cfa_restore_state(m)
    [] i.op = "illegal" -> Error(m, "ILLEGAL_VALUE")
    [] i.op = "unreadable" -> Error(m, "MEMORY_INVALID")
    [] kTable[i.op][1] = "reg" /\ Len(i.v) = 2 /\ i.op \notin {"def_cfa", "def_cfa_sf"} ->
         Rule(m, i.v[1], RegisterRule(i))
    [] OTHER -> CfaRule(m, i)

(* GetLocationInfo: instructions up to the first location beyond pc *)
Interpret(m0, pc, program) ==
  LET run[n \in 0..Len(program)] ==
        IF n = 0 THEN m0
        ELSE LET m == run[n - 1]
             IN  IF m.pc > pc \/ m.error # "NONE" THEN m
                 ELSE Exec([m EXCEPT !.pc_start = m.pc], program[n], m.initial)
  IN  run[Len(program)]
GetLocationInfoToEnd(m0, pc, program, end) == [Interpret(m0, pc, program) EXCEPT !.pc_end = end]
GetLocationInfo(m0, pc, program, end) ==
  LET m == Interpret(m0, pc, program)
  IN  [m EXCEPT !.pc_end = IF m.pc > pc THEN m.pc ELSE end]

Machine(f, rules, states, initial) ==
  [pc |-> Low[f], pc_start |-> Low[f], pc_end |-> 0, rules |-> initial.rules @@ rules,
   states |-> states, initial |-> initial, error |-> "NONE"]

\* The states the CIE leaves behind are there for the FDE that first uses it.
GetCfaLocationInfo(pc, f) ==
  LET c == GetLocationInfo(Machine(f, NoRules, <<>>, NotCached), pc, cie, High[f])
      initial == IF cie_loc_regs.cached THEN cie_loc_regs ELSE [cached |-> TRUE, rules |-> c.rules]
      states == IF cie_loc_regs.cached THEN <<>> ELSE c.states
  IN  IF ~cie_loc_regs.cached /\ c.error # "NONE" THEN c
      ELSE GetLocationInfo(Machine(f, NoRules, states, initial), pc, fde[f], High[f])
-----------------------------------------------------------------------------
GetFdeFromPc(pc) == {f \in Functions : Low[f] <= pc /\ pc < High[f]}

Row(m) == [rules |-> m.rules, pc_start |-> m.pc_start]
Used(pc, row) == [pc |-> pc, error |-> "NONE", rules |-> row.rules]

HitAnyStart(pc) ==
  LET above == {e \in DOMAIN loc_regs : e > pc} IN {e \in above : \A d \in above : e <= d}
\* The first row that ends after pc, if it begins before
Hit(pc) ==
  LET above == {e \in DOMAIN loc_regs : e > pc}
      first == {e \in above : \A d \in above : e <= d}
  IN  {e \in first : loc_regs[e].pc_start <= pc}

StepHit(pc) ==
  /\ \E e \in Hit(pc) : used' = Used(pc, loc_regs[e])
  /\ UNCHANGED <<cie, fde, cie_loc_regs, loc_regs>>

StepNoFde(pc) ==
  /\ Hit(pc) = {} /\ GetFdeFromPc(pc) = {}
  /\ used' = [pc |-> pc, error |-> "ILLEGAL_STATE", rules |-> NoRules]
  /\ UNCHANGED <<cie, fde, cie_loc_regs, loc_regs>>

\* emplace: a row that already ends there stays, and is the one used
StepMiss(pc) ==
  \E f \in GetFdeFromPc(pc) :
    LET m == GetCfaLocationInfo(pc, f)
        c == GetLocationInfo(Machine(f, NoRules, <<>>, NotCached), pc, cie, High[f])
    IN  /\ Hit(pc) = {}
        /\ cie_loc_regs' = IF cie_loc_regs.cached \/ c.error # "NONE" THEN cie_loc_regs
                           ELSE [cached |-> TRUE, rules |-> c.rules]
        /\ IF m.error # "NONE"
           THEN /\ used' = [pc |-> pc, error |-> m.error, rules |-> NoRules]
                /\ UNCHANGED loc_regs
           ELSE /\ loc_regs' = loc_regs @@ (m.pc_end :> Row(m))
                /\ used' = Used(pc, loc_regs'[m.pc_end])
        /\ UNCHANGED <<cie, fde>>

Init ==
  /\ cie \in CiePrograms /\ fde \in Programs
  /\ cie_loc_regs = NotCached /\ loc_regs = <<>>
  /\ used = [pc |-> 0, error |-> "none yet", rules |-> NoRules]

Pcs == 0..6
Next == \E pc \in Pcs : StepHit(pc) \/ StepNoFde(pc) \/ StepMiss(pc)

Spec == Init /\ [][Next]_vars
-----------------------------------------------------------------------------
(* The table the instructions describe: the rules at pc are the ones after   *)
(* all instructions up to the first location beyond pc.                      *)
Run(f, program, initial) ==
  LET run[n \in 0..Len(program)] ==
        IF n = 0 THEN Machine(f, NoRules, <<>>, initial)
        ELSE LET m == run[n - 1] IN IF m.error # "NONE" THEN m ELSE Exec(m, program[n], initial)
  IN  run
Table(f, pc) ==
  LET c == Run(f, cie, NotCached)[Len(cie)]
      run == Run(f, fde[f], [cached |-> TRUE, rules |-> c.rules])
      beyond == {n \in DOMAIN run : run[n].pc > pc}
      n == IF beyond = {} THEN Len(fde[f]) ELSE CHOOSE n \in beyond : \A k \in beyond : n <= k
  IN  IF c.error # "NONE" THEN c ELSE run[n]

\* Step uses for every pc the rules the table has for it, and fails exactly
\* where the instructions up to it are wrong, whichever pcs were asked before
\* and whatever they left in the caches.
StepFollowsTable ==
  used.error \notin {"none yet"} =>
    \A f \in GetFdeFromPc(used.pc) :
      used.error = Table(f, used.pc).error /\ (used.error = "NONE" => used.rules = Table(f, used.pc).rules)

\* A cached row is valid for the whole range of pcs it says: all of them have
\* these rules.
RowsValidInRange ==
  \A e \in DOMAIN loc_regs : \A pc \in loc_regs[e].pc_start..(e - 1) :
    \A f \in GetFdeFromPc(pc) :
      Table(f, pc).error = "NONE" /\ Table(f, pc).rules = loc_regs[e].rules
=============================================================================
