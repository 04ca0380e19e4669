----------------------------- MODULE DwarfEval ------------------------------
(***************************************************************************)
(* From a frame's registers to its caller's: DwarfSection::Eval and         *)
(* EvalRegister, with the registers saved in RegsInfo.                      *)
(*                                                                         *)
(* The rules of a row are an unordered_map, and the new registers are       *)
(* written over the old ones while other rules still read them.  The loop   *)
(* takes the rules in any order.                                            *)
(***************************************************************************)
EXTENDS Integers

CONSTANTS Total,          \* total_regs
          Size,           \* addresses are 0..Size-1
          PcReg, SpReg,   \* the registers set_pc and set_sp write
          Rows,           \* rows of rules, by register and CfaReg
          Expressions,    \* what an expression computes: see DwarfOp
          Memories,       \* contents of the process's memory
          Unreadable, CfaReg

Registers == 0..(Total - 1)
Address == 0..(Size - 1)
Types == {"undefined", "offset", "val_offset", "register", "expression", "val_expression"}
Location == [type : Types, v0 : Nat, v1 : Nat]
Regs == [Registers -> Address]

ASSUME SizesAssumption == Size \in Nat \ {0} /\ Total \in Nat /\ {PcReg, SpReg} \subseteq Registers
ASSUME RowsAssumption ==
  /\ CfaReg \notin Registers /\ Rows # {}
  /\ \A w \in Rows : \A r \in DOMAIN w : w[r] \in Location
ASSUME MemoriesAssumption ==
  Unreadable \notin Address /\ \A m \in Memories : m \in [Address -> Address \cup {Unreadable}]
ASSUME ExpressionsAssumption ==
  /\ Expressions \in [DOMAIN Expressions -> [reg : Registers, add : Nat, ok : BOOLEAN, dex : BOOLEAN]]
  /\ \A w \in Rows : \A r \in DOMAIN w :
       w[r].type \in {"expression", "val_expression"} => w[r].v0 \in DOMAIN Expressions

VARIABLES memory, regs, dex_pc, finished, error,
          row, return_address_register,   \* loc_regs and its CIE's register
          todo,                           \* rules the loop has not reached
          cfa, return_address_undefined, saved_reg_map, saved_regs,   \* EvalInfo
          phase,
          old                             \* the registers Eval was called with

evalInfo == <<cfa, return_address_undefined, saved_reg_map, saved_regs>>
vars == <<memory, regs, dex_pc, finished, error, row, return_address_register, todo, cfa,
          return_address_undefined, saved_reg_map, saved_regs, phase, old>>

Add(a, b) == (a + b) % Size
-----------------------------------------------------------------------------
GetUnsaved(r, map, saved) == regs[r]
\* RegsInfo::Get
Get(r, map, saved) == IF r \in map THEN saved[r] ELSE regs[r]

Evaluates(loc) == loc.type \in {"expression", "val_expression"}
ReadsMemory(loc) == loc.type \in {"offset", "expression"}
\* The error of a location before memory is read, with the cause in the code
BadLocation(loc) ==
  \/ loc.type = "register" /\ loc.v0 \notin Registers
  \/ Evaluates(loc) /\ ~Expressions[loc.v0].ok
Computed(g, c, loc) ==
  CASE loc.type = "register" -> Add(g[loc.v0], loc.v1)
    [] Evaluates(loc) -> Add(g[Expressions[loc.v0].reg], Expressions[loc.v0].add)
    [] OTHER -> Add(c, loc.v0)
Evaluated(g, c, loc) ==
  /\ ~BadLocation(loc)
  /\ ReadsMemory(loc) => memory[Computed(g, c, loc)] # Unreadable
\* The caller's value, keep where the rule has none
Value(g, c, loc, keep) ==
  CASE loc.type = "undefined" -> keep
    [] ReadsMemory(loc) -> memory[Computed(g, c, loc)]
    [] OTHER -> Computed(g, c, loc)

Fail(code) == phase' = "failed" /\ error' = code
IsDexPc(loc) == loc.type = "val_expression" /\ Expressions[loc.v0].dex
-----------------------------------------------------------------------------
CfaOk(loc) == loc.type \in {"register", "val_expression"} /\ ~BadLocation(loc)

\* Eval up to its loop
EvalKeepsDexPc(r, ra) ==
  /\ phase \in {"idle", "failed"}
  /\ row' = r /\ return_address_register' = ra /\ old' = regs
  /\ CfaReg \in DOMAIN r /\ CfaOk(r[CfaReg]) /\ ra \in Registers
  /\ phase' = "loop" /\ todo' = DOMAIN r \ {CfaReg}
  /\ cfa' = Computed(regs, 0, r[CfaReg])
  /\ return_address_undefined' = FALSE /\ saved_reg_map' = {}
  /\ UNCHANGED <<memory, regs, finished, error, saved_regs, dex_pc>>
Eval(r, ra) ==
  /\ phase \in {"idle", "failed"}
  /\ row' = r /\ return_address_register' = ra /\ old' = regs
  /\ IF ra \notin Registers \/ CfaReg \notin DOMAIN r
     THEN Fail(IF ra \notin Registers THEN "ILLEGAL_VALUE" ELSE "CFA_NOT_DEFINED")
          /\ UNCHANGED <<todo, evalInfo, dex_pc>>
     ELSE /\ dex_pc' = 0
          /\ IF ~CfaOk(r[CfaReg])
             THEN Fail("ILLEGAL_VALUE") /\ UNCHANGED <<todo, evalInfo>>
             ELSE /\ phase' = "loop" /\ todo' = DOMAIN r \ {CfaReg}
                  /\ cfa' = Computed(regs, 0, r[CfaReg])
                  /\ return_address_undefined' = FALSE /\ saved_reg_map' = {}
                  /\ saved_regs' = [x \in Registers |-> 0] /\ UNCHANGED error
  /\ UNCHANGED <<memory, regs, finished>>

\* A register the architecture does not have
SkipRegister(r) ==
  /\ phase = "loop" /\ r \in todo \ Registers
  /\ todo' = todo \ {r}
  /\ UNCHANGED <<memory, regs, dex_pc, finished, error, row, return_address_register,
                 evalInfo, phase, old>>

\* Save, then EvalRegister; a read that fails may have written some bytes
EvalRegister(r) ==
  LET loc == row[r]
      map == saved_reg_map \cup {r}
      saved == [saved_regs EXCEPT ![r] = regs[r]]
      g == [x \in Registers |-> Get(x, map, saved)]
  IN  /\ phase = "loop" /\ r \in todo \cap Registers
      /\ todo' = todo \ {r}
      /\ saved_reg_map' = map /\ saved_regs' = saved
      /\ IF Evaluated(g, cfa, loc)
         THEN /\ regs' = [regs EXCEPT ![r] = Value(g, cfa, loc, regs[r])]
              /\ dex_pc' = IF IsDexPc(loc) THEN Value(g, cfa, loc, 0) ELSE dex_pc
              /\ return_address_undefined' =
                   (return_address_undefined \/ (loc.type = "undefined" /\ r = return_address_register))
              /\ UNCHANGED <<error, phase>>
         ELSE /\ IF BadLocation(loc) THEN Fail("ILLEGAL_VALUE") /\ regs' = regs
                 ELSE Fail("MEMORY_INVALID") /\ \E v \in Address : regs' = [regs EXCEPT ![r] = v]
              /\ UNCHANGED <<dex_pc, return_address_undefined>>
      /\ UNCHANGED <<memory, finished, row, return_address_register, cfa, old>>

EvalEndFromOld ==
  /\ phase = "loop" /\ todo = {}
  /\ LET pc == IF return_address_undefined THEN 0 ELSE old[return_address_register]
     IN  /\ regs' = [regs EXCEPT ![PcReg] = pc, ![SpReg] = cfa]
         /\ finished' = (pc = 0)
  /\ phase' = "done"
  /\ UNCHANGED <<memory, dex_pc, error, row, return_address_register, todo, evalInfo, old>>
\* set_pc, finished, set_sp
EvalEnd ==
  /\ phase = "loop" /\ todo = {}
  /\ LET pc == IF return_address_undefined THEN 0 ELSE regs[return_address_register]
     IN  /\ regs' = [regs EXCEPT ![PcReg] = pc, ![SpReg] = cfa]
         /\ finished' = (pc = 0)
  /\ phase' = "done"
  /\ UNCHANGED <<memory, dex_pc, error, row, return_address_register, todo, evalInfo, old>>

\* Unwinder::Unwind goes on to the next frame.
NextFrame ==
  /\ phase = "done" /\ ~finished
  /\ phase' = "idle"
  /\ UNCHANGED <<memory, regs, dex_pc, finished, error, row, return_address_register, todo,
                 evalInfo, old>>

Init ==
  /\ memory \in Memories /\ regs \in Regs
  /\ dex_pc = 0 /\ finished = FALSE /\ error = "NONE" /\ phase = "idle"
  /\ row = (CHOOSE r \in Rows : TRUE) /\ return_address_register = PcReg /\ todo = {} /\ cfa = 0
  /\ return_address_undefined = FALSE /\ saved_reg_map = {} /\ saved_regs = [r \in Registers |-> 0] /\ old = regs

Next ==
  \/ \E r \in Rows, ra \in 0..Total : Eval(r, ra)
  \/ \E r \in DOMAIN row : SkipRegister(r) \/ EvalRegister(r)
  \/ EvalEnd \/ NextFrame

Spec == Init /\ [][Next]_vars
-----------------------------------------------------------------------------
TypeOK ==
  /\ memory \in Memories /\ row \in Rows
  /\ {regs, old, saved_regs} \subseteq Regs
  /\ dex_pc \in Address /\ cfa \in Address
  /\ {finished, return_address_undefined} \subseteq BOOLEAN
  /\ phase \in {"idle", "loop", "done", "failed"}
  /\ phase \in {"loop", "done"} => return_address_register \in Registers
  /\ saved_reg_map \subseteq Registers /\ (phase = "loop" => todo \subseteq DOMAIN row)

HasRule(r) == r \in DOMAIN row
\* What the rules say, all read from the frame's own registers
CallerValue(r) == IF HasRule(r) THEN Value(old, cfa, row[r], old[r]) ELSE old[r]
CallerPc ==
  LET ra == return_address_register
  IN  IF HasRule(ra) /\ row[ra].type = "undefined" THEN 0 ELSE CallerValue(ra)

\* The caller's registers are what the rules give on the frame's registers,
\* as if all were assigned at once: no order of the map's entries lets a rule
\* read a value another rule has written.
AssignedAtOnce ==
  phase = "done" =>
    /\ \A r \in Registers \ {PcReg, SpReg} : regs[r] = CallerValue(r)
    /\ SpReg # PcReg => regs[PcReg] = CallerPc
    /\ regs[SpReg] = cfa /\ cfa = Computed(old, 0, row[CfaReg])

\* Whether a row can be evaluated does not depend on the order either: Eval
\* succeeds only if every rule of a known register can be evaluated on the
\* frame's registers, and fails in its loop only if one cannot.
FailsInAnyOrder ==
  /\ phase = "done" =>
       \A r \in Registers : HasRule(r) => Evaluated(old, cfa, row[r])
  /\ phase = "failed" =>
       \/ return_address_register \notin Registers \/ ~HasRule(CfaReg) \/ ~CfaOk(row[CfaReg])
       \/ \E r \in Registers : HasRule(r) /\ ~Evaluated(old, cfa, row[r])

\* After a successful Eval the dex pc is zero or the value of a rule of this
\* row that is marked as one, never a dex pc left by an earlier frame.
DexPcOfThisFrame ==
  phase = "done" /\ dex_pc # 0 =>
    \E r \in Registers : HasRule(r) /\ IsDexPc(row[r]) /\ dex_pc = CallerValue(r)

\* The unwind is called finished exactly when the caller's pc is zero, also
\* if the return address is undefined or the rules computed a zero.
FinishedAtZero == phase = "done" => finished = (CallerPc = 0)

\* Whatever the order in which Eval takes the rules of a row: the row fails or
\* not, the unwind is finished or not, and the dex pc is the one of this frame.
EvalOutcomeInAnyOrder == FailsInAnyOrder /\ DexPcOfThisFrame /\ FinishedAtZero
-----------------------------------------------------------------------------
(* The inductive invariant of the loop: a saved register's old value is in   *)
(* saved_regs and its caller's value in regs, an unsaved one is untouched.   *)
LoopInv ==
  phase = "loop" =>
    /\ HasRule(CfaReg) /\ cfa = Computed(old, 0, row[CfaReg])
    /\ \A r \in Registers : r \in saved_reg_map <=> (HasRule(r) /\ r \notin todo)
    /\ \A r \in Registers \ saved_reg_map : regs[r] = old[r]
    /\ \A r \in saved_reg_map :
         /\ saved_regs[r] = old[r]
         /\ Evaluated(old, cfa, row[r]) /\ regs[r] = CallerValue(r)
    /\ return_address_undefined <=>
         (return_address_register \in saved_reg_map /\ row[return_address_register].type = "undefined")
IInv == TypeOK /\ LoopInv /\ AssignedAtOnce /\ FailsInAnyOrder /\ FinishedAtZero
=============================================================================
