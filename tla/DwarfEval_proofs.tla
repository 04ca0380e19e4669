-------------------------- MODULE DwarfEval_proofs --------------------------
(* Proofs about DwarfEval: the registers of the caller do not depend on the  *)
(* order in which the rules are evaluated.                                   *)
EXTENDS DwarfEval, TLAPS

\* An address computed from two addresses wraps around into an address.
LEMMA AddType == ASSUME NEW a \in Nat, NEW b \in Nat PROVE Add(a, b) \in Address
BY SizesAssumption DEF Add, Address

\* A location that can be evaluated gives an address.
LEMMA ComputedType ==
  ASSUME NEW g \in Regs, NEW c \in Address, NEW w \in Rows, NEW r \in DOMAIN w, ~BadLocation(w[r])
  PROVE  Computed(g, c, w[r]) \in Address
<1> DEFINE loc == w[r]
<1>1. loc \in Location
  BY RowsAssumption
<1>2. loc.v0 \in Nat /\ loc.v1 \in Nat
  BY <1>1 DEF Location
<1> HIDE DEF loc
<1>3. \A x \in Registers : g[x] \in Nat
  BY DEF Regs, Address
<1>4. c \in Nat
  BY DEF Address
<1>5. CASE loc.type = "register"
  <2>1. loc.v0 \in Registers
    BY <1>5 DEF BadLocation, loc
  <2>2. Computed(g, c, loc) = Add(g[loc.v0], loc.v1)
    BY <1>5 DEF Computed, Evaluates
  <2>3. Add(g[loc.v0], loc.v1) \in Address
    BY <2>1, <1>2, <1>3, AddType
  <2> QED
    BY <2>2, <2>3 DEF loc
<1>6. CASE loc.type # "register" /\ Evaluates(loc)
  <2>1. loc.v0 \in DOMAIN Expressions
    BY <1>6, ExpressionsAssumption DEF Evaluates, loc
  <2>2. Expressions[loc.v0].reg \in Registers /\ Expressions[loc.v0].add \in Nat
    BY <2>1, ExpressionsAssumption
  <2>3. Computed(g, c, loc) = Add(g[Expressions[loc.v0].reg], Expressions[loc.v0].add)
    BY <1>6 DEF Computed
  <2>4. Add(g[Expressions[loc.v0].reg], Expressions[loc.v0].add) \in Address
    BY <2>2, <1>3, AddType
  <2> QED
    BY <2>3, <2>4 DEF loc
<1>7. CASE loc.type # "register" /\ ~Evaluates(loc)
  <2>1. Computed(g, c, loc) = Add(c, loc.v0)
    BY <1>7 DEF Computed
  <2>2. Add(c, loc.v0) \in Address
    BY <1>2, <1>4, AddType
  <2> QED
    BY <2>1, <2>2 DEF loc
<1> QED
  BY <1>5, <1>6, <1>7 DEF loc

\* So does its value, when memory could be read.
LEMMA ValueType ==
  ASSUME NEW g \in Regs, NEW c \in Address, NEW w \in Rows, NEW r \in DOMAIN w, NEW keep \in Address,
         memory \in Memories, Evaluated(g, c, w[r])
  PROVE  Value(g, c, w[r], keep) \in Address
<1>1. Computed(g, c, w[r]) \in Address
  BY ComputedType DEF Evaluated
<1>2. memory \in [Address -> Address \cup {Unreadable}]
  BY MemoriesAssumption
<1>3. ReadsMemory(w[r]) => memory[Computed(g, c, w[r])] \in Address
  BY <1>1, <1>2 DEF Evaluated
<1> QED
  BY <1>1, <1>3 DEF Value

\* In the loop, the registers a rule reads through RegsInfo::Get are the
\* frame's own, those already overwritten included.
LEMMA GetReadsOld ==
  ASSUME IInv, phase = "loop", NEW r \in todo \cap Registers
  PROVE  [x \in Registers |-> Get(x, saved_reg_map \cup {r}, [saved_regs EXCEPT ![r] = regs[r]])] = old
<1>1. old \in [Registers -> Address] /\ saved_regs \in [Registers -> Address] /\ saved_reg_map \subseteq Registers
  BY DEF IInv, TypeOK, Regs
<1>2. r \notin saved_reg_map /\ regs[r] = old[r]
  BY DEF IInv, LoopInv
<1>3. \A x \in saved_reg_map : saved_regs[x] = old[x]
  BY DEF IInv, LoopInv
<1>4. \A x \in Registers \ saved_reg_map : regs[x] = old[x]
  BY DEF IInv, LoopInv
<1> DEFINE saved == [saved_regs EXCEPT ![r] = regs[r]]
<1>5. ASSUME NEW x \in Registers
      PROVE  Get(x, saved_reg_map \cup {r}, saved) = old[x]
  BY <1>1, <1>2, <1>3, <1>4 DEF Get
<1> HIDE DEF saved
<1>6. [x \in Registers |-> Get(x, saved_reg_map \cup {r}, saved)] = [x \in Registers |-> old[x]]
  BY <1>5
<1> QED
  BY <1>1, <1>6, Zenon DEF saved
-----------------------------------------------------------------------------
\* IInv holds before the first row.
LEMMA InitInv == Init => IInv
<1> SUFFICES ASSUME Init PROVE IInv
  OBVIOUS
<1>1. row \in Rows
  BY RowsAssumption DEF Init
<1>2. [r \in Registers |-> 0] \in Regs
  BY SizesAssumption DEF Regs, Address
<1>3. TypeOK
  <2>1. 0 \in Address
    BY SizesAssumption DEF Address
  <2>2. /\ memory \in Memories /\ regs \in Regs /\ old = regs /\ dex_pc = 0 /\ cfa = 0
        /\ finished = FALSE /\ return_address_undefined = FALSE /\ phase = "idle"
        /\ saved_reg_map = {} /\ saved_regs = [r \in Registers |-> 0]
    BY DEF Init
  <2> QED
    BY <1>1, <1>2, <2>1, <2>2, Zenon DEF TypeOK
<1>4. phase = "idle"
  BY DEF Init
<1> QED
  BY <1>3, <1>4 DEF IInv, LoopInv, AssignedAtOnce, FailsInAnyOrder, FinishedAtZero

\* Eval starts the loop with nothing saved and nothing written.
LEMMA EvalInv ==
  ASSUME IInv, NEW r \in Rows, NEW ra \in 0..Total, Eval(r, ra)
  PROVE  IInv'
<1>1. /\ memory' = memory /\ regs' = regs /\ finished' = finished
      /\ row' = r /\ return_address_register' = ra /\ old' = regs
  BY DEF Eval
<1>2. /\ memory \in Memories /\ regs \in Regs /\ saved_regs \in Regs /\ dex_pc \in Address
      /\ cfa \in Address /\ finished \in BOOLEAN /\ return_address_undefined \in BOOLEAN
      /\ saved_reg_map \subseteq Registers
  BY DEF IInv, TypeOK
<1>3. CASE phase' = "failed"
  <2>1. UNCHANGED <<cfa, return_address_undefined, saved_reg_map, saved_regs>>
    BY <1>3 DEF Eval, Fail, evalInfo
  <2>2. dex_pc' \in {0, dex_pc}
    BY DEF Eval
  <2>3. dex_pc' \in Address
    BY <2>2, <1>2, SizesAssumption DEF Address
  <2>4. TypeOK'
    BY <1>1, <1>2, <1>3, <2>1, <2>3 DEF TypeOK
  <2>5. ra \notin Registers \/ CfaReg \notin DOMAIN r \/ ~CfaOk(r[CfaReg])
    BY <1>3 DEF Eval
  <2>6. FailsInAnyOrder'
    BY <1>1, <1>3, <2>5 DEF FailsInAnyOrder, HasRule, CfaOk, BadLocation, Evaluates
  <2> QED
    BY <1>3, <2>4, <2>6 DEF IInv, LoopInv, AssignedAtOnce, FinishedAtZero
<1>4. CASE phase' # "failed"
  <2>1. /\ ra \in Registers /\ CfaReg \in DOMAIN r /\ CfaOk(r[CfaReg])
        /\ phase' = "loop" /\ todo' = DOMAIN r \ {CfaReg} /\ dex_pc' = 0
        /\ cfa' = Computed(regs, 0, r[CfaReg]) /\ return_address_undefined' = FALSE
        /\ saved_reg_map' = {} /\ saved_regs' = [x \in Registers |-> 0]
    BY <1>4 DEF Eval, Fail
  <2>2. 0 \in Address
    BY SizesAssumption DEF Address
  <2>3. cfa' \in Address
    BY <2>1, <2>2, <1>2, ComputedType DEF CfaOk
  <2>4. saved_regs' \in Regs
    BY <2>1, <2>2 DEF Regs
  <2>5. TypeOK'
    BY <1>1, <1>2, <2>1, <2>2, <2>3, <2>4, Zenon DEF TypeOK
  <2>6. LoopInv'
    <3>1. (Computed(old, 0, row[CfaReg]))' = Computed(regs, 0, r[CfaReg])
      BY <1>1 DEF Computed
    <3>2. \A x \in Registers : x \in DOMAIN r => x \in DOMAIN r \ {CfaReg}
      BY RowsAssumption
    <3> QED
      BY <1>1, <2>1, <3>1, <3>2 DEF LoopInv, HasRule
  <2> QED
    BY <2>1, <2>5, <2>6 DEF IInv, AssignedAtOnce, FailsInAnyOrder, FinishedAtZero
<1> QED
  BY <1>3, <1>4

\* What an evaluation needs of the state does not change while the loop runs.
LEMMA SameRules ==
  ASSUME UNCHANGED <<memory, row, cfa, old, return_address_register>>, NEW r
  PROVE  /\ Evaluated(old, cfa, row[r])' <=> Evaluated(old, cfa, row[r])
         /\ CallerValue(r)' = CallerValue(r)
         /\ HasRule(r)' <=> HasRule(r)
BY DEF Evaluated, CallerValue, HasRule, Value, Computed

\* A rule that is evaluated gives its register the caller's value.
LEMMA EvalRegisterInv ==
  ASSUME IInv, NEW r \in DOMAIN row, EvalRegister(r)
  PROVE  IInv'
<1> DEFINE loc == row[r]
           saved == [saved_regs EXCEPT ![r] = regs[r]]
           g == [x \in Registers |-> Get(x, saved_reg_map \cup {r}, saved)]
<1>1. /\ phase = "loop" /\ r \in todo \cap Registers /\ todo' = todo \ {r}
      /\ saved_reg_map' = saved_reg_map \cup {r} /\ saved_regs' = saved
      /\ UNCHANGED <<memory, finished, row, return_address_register, cfa, old>>
  BY DEF EvalRegister
<1>2. g = old
  BY <1>1, GetReadsOld, Zenon
<1>3. /\ memory \in Memories /\ row \in Rows /\ regs \in Regs /\ old \in Regs /\ saved_regs \in Regs
      /\ dex_pc \in Address /\ cfa \in Address /\ finished \in BOOLEAN
      /\ return_address_undefined \in BOOLEAN /\ return_address_register \in Registers
      /\ saved_reg_map \subseteq Registers /\ todo \subseteq DOMAIN row
  BY <1>1 DEF IInv, TypeOK
<1>4. r \notin saved_reg_map /\ regs[r] = old[r]
  BY <1>1 DEF IInv, LoopInv
<1>5. saved \in Regs /\ saved[r] = old[r] /\ \A x \in Registers \ {r} : saved[x] = saved_regs[x]
  BY <1>1, <1>3, <1>4 DEF Regs
<1>6. CASE Evaluated(old, cfa, loc)
  <2>1. /\ regs' = [regs EXCEPT ![r] = Value(old, cfa, loc, old[r])]
        /\ dex_pc' = IF IsDexPc(loc) THEN Value(old, cfa, loc, 0) ELSE dex_pc
        /\ return_address_undefined' =
             (return_address_undefined \/ (loc.type = "undefined" /\ r = return_address_register))
        /\ phase' = phase
    BY <1>2, <1>4, <1>6, Zenon DEF EvalRegister
  <2>2. old[r] \in Address /\ 0 \in Address
    BY <1>1, <1>3, SizesAssumption DEF Regs, Address
  <2>3. Value(old, cfa, loc, old[r]) \in Address /\ Value(old, cfa, loc, 0) \in Address
    BY <1>3, <1>6, <2>2, ValueType
  <2>4. regs' \in Regs
    BY <1>3, <2>1, <2>3, Zenon DEF Regs
  <2>5. dex_pc' \in Address /\ return_address_undefined' \in BOOLEAN
    BY <1>3, <2>1, <2>3
  <2>6. TypeOK'
    BY <1>1, <1>3, <1>5, <2>1, <2>4, <2>5 DEF TypeOK
  <2>7. LoopInv'
    <3>1. regs'[r] = CallerValue(r) /\ \A x \in Registers \ {r} : regs'[x] = regs[x]
      BY <1>1, <1>3, <2>1 DEF CallerValue, HasRule, Regs
    <3>2. HasRule(CfaReg)' /\ (cfa = Computed(old, 0, row[CfaReg]))'
      BY <1>1 DEF IInv, LoopInv, HasRule, Computed
    <3>3. \A x \in Registers : x \in saved_reg_map' <=> (HasRule(x)' /\ x \notin todo')
      BY <1>1, <1>3 DEF IInv, LoopInv, HasRule
    <3>4. \A x \in Registers \ saved_reg_map' : regs'[x] = old'[x]
      BY <1>1, <3>1 DEF IInv, LoopInv
    <3>5. ASSUME NEW x \in saved_reg_map'
          PROVE  /\ saved_regs'[x] = old'[x] /\ Evaluated(old, cfa, row[x])'
                 /\ regs'[x] = CallerValue(x)'
      <4>1. CASE x = r
        BY <4>1, <1>1, <1>5, <1>6, <3>1, SameRules
      <4>2. CASE x # r
        <5>1. x \in saved_reg_map /\ x \in Registers \ {r}
          BY <4>2, <1>1, <1>3
        <5>2. saved_regs[x] = old[x] /\ Evaluated(old, cfa, row[x]) /\ regs[x] = CallerValue(x)
          BY <5>1, <1>1 DEF IInv, LoopInv
        <5> QED
          BY <5>1, <5>2, <1>1, <1>5, <3>1, SameRules
      <4> QED
        BY <4>1, <4>2
    <3>6. return_address_undefined' <=>
            (return_address_register' \in saved_reg_map' /\ row'[return_address_register'].type = "undefined")
      BY <1>1, <1>4, <2>1, Zenon DEF IInv, LoopInv
    <3> QED
      BY <3>2, <3>3, <3>4, <3>5, <3>6 DEF LoopInv
  <2> QED
    BY <1>1, <2>1, <2>6, <2>7 DEF IInv, AssignedAtOnce, FailsInAnyOrder, FinishedAtZero
<1>7. CASE ~Evaluated(old, cfa, loc)
  <2>1. phase' = "failed" /\ dex_pc' = dex_pc /\ return_address_undefined' = return_address_undefined
    BY <1>2, <1>7, Zenon DEF EvalRegister, Fail
  <2>2. regs' = regs \/ \E v \in Address : regs' = [regs EXCEPT ![r] = v]
    BY <1>2, <1>7, Zenon DEF EvalRegister
  <2>3. regs' \in Regs
    BY <2>2, <1>3 DEF Regs
  <2>4. TypeOK'
    BY <1>1, <1>3, <1>5, <2>1, <2>3 DEF TypeOK
  <2>5. r \in Registers /\ HasRule(r)' /\ ~Evaluated(old, cfa, row[r])'
    BY <1>1, <1>7, SameRules DEF HasRule
  <2>6. FailsInAnyOrder'
    BY <2>1, <2>5 DEF FailsInAnyOrder
  <2> QED
    BY <2>1, <2>4, <2>6 DEF IInv, LoopInv, AssignedAtOnce, FinishedAtZero
<1> QED
  BY <1>6, <1>7

\* At the end of the loop every register has its caller's value.
LEMMA EvalEndInv ==
  ASSUME IInv, EvalEnd
  PROVE  IInv'
<1> DEFINE ra == return_address_register
           pc == IF return_address_undefined THEN 0 ELSE regs[ra]
<1>1. /\ phase = "loop" /\ todo = {} /\ phase' = "done" /\ finished' = (pc = 0)
      /\ regs' = [regs EXCEPT ![PcReg] = pc, ![SpReg] = cfa]
      /\ UNCHANGED <<memory, dex_pc, row, return_address_register, cfa, return_address_undefined,
                     saved_reg_map, saved_regs, old>>
  BY DEF EvalEnd, evalInfo
<1>2. /\ memory \in Memories /\ row \in Rows /\ regs \in Regs /\ old \in Regs /\ saved_regs \in Regs
      /\ dex_pc \in Address /\ cfa \in Address /\ return_address_undefined \in BOOLEAN
      /\ ra \in Registers /\ saved_reg_map \subseteq Registers
  BY <1>1 DEF IInv, TypeOK
<1>3. pc \in Address
  BY <1>2, SizesAssumption DEF Regs, Address
<1>4. regs' \in Regs
  BY <1>1, <1>2, <1>3, SizesAssumption DEF Regs
<1>5. TypeOK'
  BY <1>1, <1>2, <1>4 DEF TypeOK
<1>6. \A r \in Registers : regs[r] = CallerValue(r) /\ (HasRule(r) => Evaluated(old, cfa, row[r]))
  BY <1>1 DEF IInv, LoopInv, CallerValue, HasRule
<1>7. return_address_undefined <=> (HasRule(ra) /\ row[ra].type = "undefined")
  BY <1>1, <1>2 DEF IInv, LoopInv
<1>8. pc = CallerPc /\ CallerPc' = CallerPc
  BY <1>1, <1>2, <1>6, <1>7, SameRules DEF CallerPc
<1>9. AssignedAtOnce'
  <2>1. /\ regs'[SpReg] = cfa /\ (SpReg # PcReg => regs'[PcReg] = pc)
        /\ \A r \in Registers \ {PcReg, SpReg} : regs'[r] = regs[r]
    BY <1>1, <1>2, SizesAssumption DEF Regs
  <2>2. \A r \in Registers : CallerValue(r)' = regs[r]
    BY <1>1, <1>6, SameRules
  <2>3. (cfa = Computed(old, 0, row[CfaReg]))'
    BY <1>1 DEF IInv, LoopInv, Computed
  <2> QED
    BY <1>1, <1>8, <2>1, <2>2, <2>3, Zenon DEF AssignedAtOnce
<1>10. FailsInAnyOrder'
  BY <1>1, <1>6, SameRules DEF FailsInAnyOrder
<1>11. FinishedAtZero'
  BY <1>1, <1>8 DEF FinishedAtZero
<1> QED
  BY <1>1, <1>5, <1>9, <1>10, <1>11 DEF IInv, LoopInv

\* A register the architecture does not have changes nothing.
LEMMA SkipRegisterInv ==
  ASSUME IInv, NEW r \in DOMAIN row, SkipRegister(r)
  PROVE  IInv'
<1>1. /\ phase = "loop" /\ phase' = phase /\ r \notin Registers /\ todo' = todo \ {r}
      /\ UNCHANGED <<memory, regs, dex_pc, finished, row, return_address_register, cfa,
                     return_address_undefined, saved_reg_map, saved_regs, old>>
  BY DEF SkipRegister, evalInfo
<1>2. TypeOK'
  BY <1>1 DEF IInv, TypeOK
<1>3. LoopInv'
  <2>1. \A x \in saved_reg_map :
          saved_regs[x] = old[x] /\ Evaluated(old, cfa, row[x])' /\ regs[x] = CallerValue(x)'
    BY <1>1, SameRules DEF IInv, LoopInv
  <2>2. (cfa = Computed(old, 0, row[CfaReg]))' /\ HasRule(CfaReg)'
    BY <1>1 DEF IInv, LoopInv, Computed, HasRule
  <2>3. \A x \in Registers : x \in saved_reg_map <=> (HasRule(x)' /\ x \notin todo')
    BY <1>1 DEF IInv, LoopInv, HasRule
  <2> QED
    BY <1>1, <2>1, <2>2, <2>3 DEF IInv, LoopInv
<1> QED
  BY <1>1, <1>2, <1>3 DEF IInv, AssignedAtOnce, FailsInAnyOrder, FinishedAtZero

\* Every step of Eval keeps IInv.
LEMMA NextInv ==
  ASSUME IInv, [Next]_vars
  PROVE  IInv'
<1>1. CASE \E r \in Rows, ra \in 0..Total : Eval(r, ra)
  BY <1>1, EvalInv
<1>2. CASE \E r \in DOMAIN row : SkipRegister(r)
  BY <1>2, SkipRegisterInv
<1>3. CASE \E r \in DOMAIN row : EvalRegister(r)
  BY <1>3, EvalRegisterInv
<1>4. CASE EvalEnd
  BY <1>4, EvalEndInv
<1>5. CASE NextFrame
  <2>1. phase' = "idle"
    BY <1>5 DEF NextFrame
  <2>2. TypeOK'
    BY <1>5 DEF NextFrame, IInv, TypeOK, evalInfo
  <2> QED
    BY <2>1, <2>2 DEF IInv, LoopInv, AssignedAtOnce, FailsInAnyOrder, FinishedAtZero
<1>6. CASE UNCHANGED vars
  <2>1. TypeOK'
    BY <1>6 DEF vars, IInv, TypeOK
  <2>2. LoopInv'
    BY <1>6, SMTT(60) DEF vars, IInv, LoopInv, HasRule, CallerValue, Evaluated, Value, Computed
  <2>3. AssignedAtOnce'
    BY <1>6, SMTT(60) DEF vars, IInv, AssignedAtOnce, HasRule, CallerPc, CallerValue, Value, Computed
  <2>4. FailsInAnyOrder'
    BY <1>6, SMTT(60) DEF vars, IInv, FailsInAnyOrder, HasRule, Evaluated, Value, Computed
  <2>5. FinishedAtZero'
    BY <1>6 DEF vars, IInv, FinishedAtZero, CallerPc, CallerValue, HasRule, Value, Computed
  <2> QED
    BY <2>1, <2>2, <2>3, <2>4, <2>5 DEF IInv
<1> QED
  BY <1>1, <1>2, <1>3, <1>4, <1>5, <1>6 DEF Next

\* DwarfSection::Eval computes the caller's registers as if all rules were
\* assigned at once, fails or succeeds whatever the order of the rules, and
\* calls the unwind finished exactly at a zero pc: for any registers, rows,
\* memory and expressions.
THEOREM EvalCorrect == Spec => [](AssignedAtOnce /\ FailsInAnyOrder /\ FinishedAtZero)
<1>1. IInv /\ [Next]_vars => IInv'
  BY NextInv
<1>2. IInv => AssignedAtOnce /\ FailsInAnyOrder /\ FinishedAtZero
  BY DEF IInv
<1> QED
  BY <1>1, <1>2, InitInv, PTL DEF Spec

-----------------------------------------------------------------------------
\* The dex pc belongs to the row being evaluated from the start of the loop on.
DexInv ==
  phase \in {"loop", "done"} /\ dex_pc # 0 =>
    \E r \in Registers : HasRule(r) /\ IsDexPc(row[r]) /\ dex_pc = CallerValue(r)

\* A rule that marks a dex pc sets it to the caller's value of its register.
LEMMA EvalRegisterDex ==
  ASSUME IInv, DexInv, NEW r \in DOMAIN row, EvalRegister(r)
  PROVE  DexInv'
<1> DEFINE loc == row[r]
           saved == [saved_regs EXCEPT ![r] = regs[r]]
           g == [x \in Registers |-> Get(x, saved_reg_map \cup {r}, saved)]
<1>1. /\ phase = "loop" /\ r \in todo \cap Registers
      /\ UNCHANGED <<memory, finished, row, return_address_register, cfa, old>>
  BY DEF EvalRegister
<1>2. g = old
  BY <1>1, GetReadsOld, Zenon
<1>3. \A x : (HasRule(x)' <=> HasRule(x)) /\ CallerValue(x)' = CallerValue(x)
  BY <1>1, SameRules
<1>4. CASE Evaluated(old, cfa, loc) /\ IsDexPc(loc)
  <2>1. dex_pc' = Value(old, cfa, loc, 0)
    BY <1>2, <1>4, Zenon DEF EvalRegister
  <2>2. Value(old, cfa, loc, 0) = CallerValue(r) /\ HasRule(r)
    BY <1>4 DEF CallerValue, HasRule, Value, IsDexPc, ReadsMemory
  <2> QED
    BY <1>1, <1>3, <1>4, <2>1, <2>2 DEF DexInv, IsDexPc
<1>5. CASE ~(Evaluated(old, cfa, loc) /\ IsDexPc(loc))
  <2>1. dex_pc' = dex_pc
    BY <1>2, <1>5, Zenon DEF EvalRegister
  <2> QED
    BY <1>1, <1>3, <2>1 DEF DexInv, IsDexPc
<1> QED
  BY <1>4, <1>5

\* Every step of Eval keeps DexInv.
LEMMA NextDex ==
  ASSUME IInv, DexInv, [Next]_vars
  PROVE  DexInv'
<1>1. ASSUME NEW r \in Rows, NEW ra \in 0..Total, Eval(r, ra) PROVE DexInv'
  <2>1. phase' = "failed" \/ dex_pc' = 0
    BY <1>1 DEF Eval, Fail
  <2> QED
    BY <2>1 DEF DexInv
<1>2. ASSUME UNCHANGED <<memory, row, cfa, old, return_address_register, dex_pc>>,
             phase' \in {"loop", "done"} => phase \in {"loop", "done"}
      PROVE  DexInv'
  <2>1. \A x : (HasRule(x)' <=> HasRule(x)) /\ CallerValue(x)' = CallerValue(x)
    BY <1>2, SameRules
  <2> QED
    BY <1>2, <2>1 DEF DexInv, IsDexPc
<1>3. CASE \E r \in DOMAIN row : SkipRegister(r)
  BY <1>2, <1>3 DEF SkipRegister, evalInfo
<1>4. CASE \E r \in DOMAIN row : EvalRegister(r)
  BY <1>4, EvalRegisterDex
<1>5. CASE EvalEnd
  BY <1>2, <1>5 DEF EvalEnd, evalInfo
<1>6. CASE NextFrame
  BY <1>6 DEF NextFrame, DexInv
<1>7. CASE UNCHANGED vars
  BY <1>2, <1>7 DEF vars
<1> QED
  BY <1>1, <1>3, <1>4, <1>5, <1>6, <1>7 DEF Next

\* DwarfSection::Eval fails or not, finishes the unwind or not and sets the dex
\* pc whatever the order in which it takes the rules of the row, and a dex pc
\* is never one of an earlier frame: for any rows, registers and memory.
THEOREM OutcomeInAnyOrder == Spec => []EvalOutcomeInAnyOrder
<1>1. Init => DexInv
  BY DEF Init, DexInv
<1>2. IInv /\ [Next]_vars => IInv'
  BY NextInv
<1>3. IInv /\ DexInv /\ [Next]_vars => DexInv'
  BY NextDex
<1>4. IInv /\ DexInv => EvalOutcomeInAnyOrder
  BY DEF IInv, DexInv, EvalOutcomeInAnyOrder, DexPcOfThisFrame
<1> QED
  BY <1>1, <1>2, <1>3, <1>4, InitInv, PTL DEF Spec

=============================================================================
