------------------------------ MODULE DwarfOp ------------------------------
(***************************************************************************)
(* The stack machine of DWARF expressions (libunwindstack/DwarfOp.cpp) and  *)
(* its caller DwarfSectionImpl::EvalExpression.                             *)
(*                                                                         *)
(* Every Decode reads an arbitrary op with arbitrary operands (a superset   *)
(* of the fixed bytes of an expression), or fails to read.  Offsets count   *)
(* ops.  Values are those of AddressType, modulo 2^Bits.                    *)
(***************************************************************************)
EXTENDS Integers, Sequences, FiniteSets, Bitwise

CONSTANTS Bits,            \* the width of AddressType, and its sizeof
          Ops,             \* op codes that occur in expressions
          Unsigned, Signed,   \* operands
          DexMarker,       \* 'D' 'E' 'X' '1', one of Unsigned
          Regs,            \* the registers' values, a sequence
          Start, End,      \* the expression
          MaxIterations    \* 1000

VARIABLES phase,       \* where Eval and its caller are, or the signal that killed them
          off,         \* cur_offset of memory_
          stack,       \* stack_, the front first
          dex,         \* check_for_drop, then dex_pc_set_
          is_register,
          iterations,
          error        \* last_error_.code

vars == <<phase, off, stack, dex, is_register, iterations, error>>

Mod == 2 ^ Bits
Values == 0..(Mod - 1)
Garbage == -1                  \* what is next to the stack or the registers
Int_(v) == IF v >= Mod \div 2 THEN v - Mod ELSE v       \* static_cast<SignedType>
Word(n) == n % Mod

StackAt(s, i) == IF i < Len(s) THEN s[i + 1] ELSE Garbage
RegsAt(r) == IF r < Len(Regs) THEN Regs[r + 1] ELSE Garbage
Drop(s, n) == SubSeq(s, n + 1, Len(s))
Push(v, s) == <<v>> \o s
-----------------------------------------------------------------------------
(* kCallbackTable: handler, required stack values, operands *)
Entry(func, required, operands) == [func |-> func, required |-> required, operands |-> operands]

ConstOp(op) ==
  Entry("push", 0, IF op \in {9, 11, 13, 15, 17} THEN <<Signed>> ELSE <<Unsigned>>)
StackOp(op) ==
  CASE op = 6 -> Entry("deref", 1, <<>>)
    [] op = 18 -> Entry("dup", 1, <<>>)
    [] op = 19 -> Entry("drop", 1, <<>>)
    [] op = 20 -> Entry("over", 2, <<>>)
    [] op = 21 -> Entry("pick", 0, <<Unsigned>>)
    [] op = 22 -> Entry("swap", 2, <<>>)
    [] op = 23 -> Entry("rot", 3, <<>>)
    [] op = 24 -> Entry("not_implemented", 2, <<>>)
MathOpOneOff(op) == Entry("binary", 1, <<>>)
MathOp(op) ==
  CASE op \in {25, 31, 32} -> Entry("unary", 1, <<>>)
    [] op = 35 -> Entry("unary", 1, <<Unsigned>>)
    [] OTHER -> Entry("binary", 2, <<>>)
BranchOp(op) ==
  CASE op = 40 -> Entry("bra", 1, <<Signed>>)
    [] op = 47 -> Entry("skip", 0, <<Signed>>)
    [] OTHER -> Entry("binary", 2, <<>>)
LitOp(op) == Entry("lit", 0, <<>>)
RegOp(op) == Entry("reg", 0, <<>>)
BregOp(op) == Entry("breg", 0, <<Signed>>)
LastOp(op) ==
  CASE op = 144 -> Entry("regx", 0, <<Unsigned>>)
    [] op = 146 -> Entry("bregx", 0, <<Unsigned, Signed>>)
    [] op = 148 -> Entry("deref_size", 1, <<Unsigned>>)
    [] op = 150 -> Entry("nop", 0, <<>>)
    [] op = 157 -> Entry("not_implemented", 0, <<Unsigned, Unsigned>>)
    [] op \in {145, 147, 149, 152, 153, 158} -> Entry("not_implemented", 0, <<Unsigned>>)
    [] op \in {151, 154, 155, 156} -> Entry("not_implemented", 0, <<>>)
    [] op = 159 -> Entry("not_implemented", 1, <<>>)
IllegalOp(op) == Entry("illegal", 0, <<>>)

kCallbackTable(op) ==
  CASE op = 3 \/ op \in 8..17 -> ConstOp(op)
    [] op = 6 \/ op \in 18..24 -> StackOp(op)
    [] op \in 25..39 -> MathOp(op)
    [] op \in 40..47 -> BranchOp(op)
    [] op \in 48..79 -> LitOp(op)
    [] op \in 80..111 -> RegOp(op)
    [] op \in 112..143 -> BregOp(op)
    [] op \in 144..159 -> LastOp(op)
    [] OTHER -> IllegalOp(op)
-----------------------------------------------------------------------------
(* The handlers.  Each gives the set of possible outcomes: where the         *)
(* language leaves a result undefined, the ones processors give.             *)
Quotient(a, b) ==      \* C division truncates
  IF (a < 0) = (b < 0) THEN (IF a < 0 THEN -a ELSE a) \div (IF b < 0 THEN -b ELSE b)
  ELSE -((IF a < 0 THEN -a ELSE a) \div (IF b < 0 THEN -b ELSE b))
Shifts(n) == {n % Bits, IF n < Bits THEN n ELSE Bits}      \* masked or saturated
Bool(b) == IF b THEN 1 ELSE 0

UnaryOp(op, x, operand) ==
  CASE op = 25 -> Word(IF Int_(x) < 0 THEN -Int_(x) ELSE Int_(x))
    [] op = 31 -> Word(-Int_(x))
    [] op = 32 -> Mod - 1 - x
    [] op = 35 -> Word(x + operand)

BinaryOp(op, x, top) ==
  CASE op = 26 -> {x & top}
    [] op = 27 -> {Word(Quotient(Int_(x), Int_(top)))}
    [] op = 28 -> {Word(x - top)}
    [] op = 29 -> {x % top}
    [] op = 30 -> {Word(x * top)}
    [] op = 33 -> {x | top}
    [] op = 34 -> {Word(x + top)}
    [] op = 36 -> {Word(x * 2 ^ n) : n \in Shifts(top)}
    [] op = 37 -> {x \div 2 ^ n : n \in Shifts(top)}
    [] op = 38 -> {Word(Int_(x) \div 2 ^ n) : n \in Shifts(top)}
    [] op = 39 -> {x ^^ top}
    [] op = 41 -> {Bool(x = top)}
    [] op = 42 -> {Bool(x >= top)}
    [] op = 43 -> {Bool(x > top)}
    [] op = 44 -> {Bool(x <= top)}
    [] op = 45 -> {Bool(x < top)}
    [] op = 46 -> {Bool(x # top)}

Result(s, o, reg, code) ==
  [stack |-> s, off |-> o, is_register |-> reg, error |-> code, signal |-> "none"]
Killed(signal) == [Result(stack, off, is_register, "NONE") EXCEPT !.signal = signal]
Ok(s) == Result(s, off + 1, is_register, "NONE")
Fail(s, code) == Result(s, off + 1, is_register, code)

\* An index equal to the size is not refused: what is behind the stack is any
\* value, or no memory.
op_pick(index) ==
  CASE index > Len(stack) -> {Fail(stack, "STACK_INDEX_NOT_VALID")}
    [] index = Len(stack) -> {Ok(Push(v, stack)) : v \in Values} \union {Killed("SIGSEGV")}
    [] OTHER -> {Ok(Push(StackAt(stack, index), stack))}

op_bra(offset) ==
  LET next == off + 1
  IN  Result(Drop(stack, 1), IF StackAt(stack, 0) # 0 THEN next + offset ELSE next - offset,
             is_register, "NONE")

\* The least number divided by -1 overflows: some processors trap.
Overflows(op, x, top) == op = 27 /\ Int_(x) = -(Mod \div 2) /\ Int_(top) = -1

op_binaryZero(op) ==
  LET top == StackAt(stack, 0)
      x == StackAt(stack, 1)
  IN  IF op \in {27, 29} /\ (top = 0 \/ Overflows(op, x, top)) THEN {Killed("SIGFPE")}
      ELSE {Ok(Push(v, Drop(stack, 2))) : v \in BinaryOp(op, x, top)}
op_binary(op) ==
  LET top == StackAt(stack, 0)
      x == StackAt(stack, 1)
      rest == Drop(stack, 2)
  IN  IF top = 0 /\ op \in {27, 29} THEN {Fail(Drop(stack, 1), "ILLEGAL_VALUE")}
      ELSE IF Garbage \in {x, top} THEN {Ok(Push(Garbage, rest))}
      ELSE IF Overflows(op, x, top) THEN {Ok(Push(x, rest)), Killed("SIGFPE")}
      ELSE {Ok(Push(v, rest)) : v \in BinaryOp(op, x, top)}

op_breg(reg, operand) ==
  IF reg >= Len(Regs) THEN Fail(stack, "ILLEGAL_VALUE")
  ELSE Ok(Push(Word(RegsAt(reg) + operand), stack))
\* op_deref and op_deref_size: any value, or memory that cannot be read
op_deref ==
  {Ok(Push(v, Drop(stack, 1))) : v \in {0, Mod - 1}} \union {Fail(Drop(stack, 1), "MEMORY_INVALID")}
op_deref_size(bytes) ==
  IF bytes > Bits \/ bytes = 0 THEN {Fail(stack, "ILLEGAL_VALUE")} ELSE op_deref

Handle(op, func, v) ==
  CASE func = "push" -> {Ok(Push(Word(v[1]), stack))}
    [] func = "deref" -> op_deref
    [] func = "deref_size" -> op_deref_size(v[1])
    [] func = "dup" -> {Ok(Push(StackAt(stack, 0), stack))}
    [] func = "drop" -> {Ok(Drop(stack, 1))}
    [] func = "over" -> {Ok(Push(StackAt(stack, 1), stack))}
    [] func = "pick" -> op_pick(v[1])
    [] func = "swap" -> {Ok(<<StackAt(stack, 1), StackAt(stack, 0)>> \o Drop(stack, 2))}
    [] func = "rot" ->
         {Ok(<<StackAt(stack, 1), StackAt(stack, 2), StackAt(stack, 0)>> \o Drop(stack, 3))}
    [] func = "unary" -> {Ok(Push(UnaryOp(op, StackAt(stack, 0), IF v = <<>> THEN 0 ELSE v[1]),
                                  Drop(stack, 1)))}
    [] func = "binary" -> op_binary(op)
    [] func = "bra" -> {op_bra(v[1])}
    [] func = "skip" -> {Result(stack, off + 1 + v[1], is_register, "NONE")}
    [] func = "lit" -> {Ok(Push(Word(op - 48), stack))}
    [] func = "reg" -> {Result(Push(Word(op - 80), stack), off + 1, TRUE, "NONE")}
    [] func = "regx" -> {Result(Push(Word(v[1]), stack), off + 1, TRUE, "NONE")}
    [] func = "breg" -> {op_breg(op - 112, v[1])}
    [] func = "bregx" -> {op_breg(Word(v[1]), v[2])}
    [] func = "nop" -> {Ok(stack)}
    [] func = "not_implemented" -> {Fail(stack, "NOT_IMPLEMENTED")}
-----------------------------------------------------------------------------
Operands(op) ==
  LET kinds == kCallbackTable(op).operands
  IN  CASE Len(kinds) = 0 -> {<<>>}
        [] Len(kinds) = 1 -> {<<v>> : v \in kinds[1]}
        [] Len(kinds) = 2 -> {<<v, w>> : v \in kinds[1], w \in kinds[2]}

(* Decode: one op, its operands v *)
Decode(op, v) ==
  LET entry == kCallbackTable(op)
  IN  IF entry.func = "illegal" THEN {Fail(stack, "ILLEGAL_VALUE")}
      ELSE IF Len(stack) < entry.required THEN {Fail(stack, "STACK_INDEX_NOT_VALID")}
      ELSE Handle(op, entry.func, v) \union
             (IF v = <<>> THEN {} ELSE {Fail(stack, "MEMORY_INVALID")})      \* of the operands
DecodeFails == {Fail(stack, "MEMORY_INVALID")}                               \* of the op

Inside == 0 <= off /\ off < End      \* a negative offset wraps to a large one

Apply(r) ==
  /\ stack' = r.stack /\ off' = r.off /\ is_register' = r.is_register /\ error' = r.error
After(r, next) ==
  IF r.signal # "none" THEN r.signal ELSE IF r.error = "NONE" THEN next ELSE "failed"

EvalFirst ==
  /\ phase = "first" /\ Inside
  /\ \E op \in Ops : \E v \in Operands(op) : \E r \in Decode(op, v) \union DecodeFails :
       /\ Apply(r)
       /\ phase' = After(r, "second")
       /\ dex' = (op = 12 /\ v[1] = DexMarker)
  /\ UNCHANGED iterations

EvalSecondAnyOp ==
  /\ phase = "second" /\ Inside
  /\ \E op \in Ops : \E v \in Operands(op) : \E r \in Decode(op, v) :
       /\ Apply(r)
       /\ phase' = After(r, "loop")
  /\ iterations' = 2
  /\ UNCHANGED dex
EvalSecond ==
  /\ phase = "second" /\ Inside
  /\ \E op \in Ops : \E v \in Operands(op) : \E r \in Decode(op, v) \union DecodeFails :
       /\ Apply(r)
       /\ phase' = After(r, "loop")
       /\ dex' = (dex /\ op = 19)
  /\ iterations' = 2

EvalLoopSkipUncounted ==
  /\ phase = "loop" /\ Inside
  /\ \E op \in Ops : \E v \in Operands(op) : \E r \in Decode(op, v) \union DecodeFails :
       /\ IF After(r, "loop") = "loop" /\ iterations = MaxIterations
          THEN Apply([r EXCEPT !.error = "TOO_MANY_ITERATIONS"]) /\ phase' = "failed"
          ELSE Apply(r) /\ phase' = After(r, "loop")
       /\ iterations' = IF phase' = "loop" /\ op # 47 THEN iterations + 1 ELSE iterations
  /\ UNCHANGED dex
EvalLoop ==
  /\ phase = "loop" /\ Inside
  /\ \E op \in Ops : \E v \in Operands(op) : \E r \in Decode(op, v) \union DecodeFails :
       IF After(r, "loop") = "loop" /\ iterations = MaxIterations
       THEN Apply([r EXCEPT !.error = "TOO_MANY_ITERATIONS"]) /\ phase' = "failed"
       ELSE Apply(r) /\ phase' = After(r, "loop")
  /\ iterations' = IF phase' = "loop" THEN iterations + 1 ELSE iterations
  /\ UNCHANGED dex

EvalReturns ==
  /\ phase \in {"first", "second", "loop"} /\ ~Inside
  /\ phase' = "evaluated"
  /\ dex' = (dex /\ phase = "loop")
  /\ UNCHANGED <<off, stack, is_register, iterations, error>>

EvalExpressionNoCode ==
  /\ phase = "evaluated"
  /\ phase' = IF stack = <<>> \/ is_register THEN "failed" ELSE "value"
  /\ UNCHANGED <<off, stack, dex, is_register, iterations, error>>
EvalExpression ==
  /\ phase = "evaluated"
  /\ LET code == IF stack = <<>> THEN "ILLEGAL_STATE"
                 ELSE IF is_register THEN "NOT_IMPLEMENTED" ELSE "NONE"
     IN  error' = code /\ phase' = IF code = "NONE" THEN "value" ELSE "failed"
  /\ UNCHANGED <<off, stack, dex, is_register, iterations>>

Init ==
  /\ phase = "first" /\ off = Start /\ stack = <<>> /\ dex = FALSE /\ is_register = FALSE
  /\ iterations = 0 /\ error = "NONE"

Next == EvalFirst \/ EvalSecond \/ EvalLoop \/ EvalReturns \/ EvalExpression

Spec == Init /\ [][Next]_vars
\* Eval is a loop of one thread.
FairSpec == Spec /\ WF_vars(Next)
-----------------------------------------------------------------------------
\* No handler but op_pick uses an element beyond the stack, and none a register
\* that the processor does not have: the number of values each op requires and
\* the checks of its operands cover what its handler reads.  op_pick alone lets
\* an index pass that is one too large.
NothingFromOutside == \A i \in DOMAIN stack : stack[i] \in Values

\* A division ends the process only when the least number is divided by -1,
\* which op_div does not look for: a divisor of zero, from whatever the
\* expression has computed, is refused before it is used.
TrapsOnlyOnOverflow ==
  phase = "SIGFPE" => Len(stack) >= 2 /\ Overflows(27, stack[2], stack[1])

\* An evaluation that fails says why, and one that does not leaves no error
\* behind: the error code is cleared by every Decode and set by every handler,
\* and by the caller, that returns false.
FailureHasCode == phase = "failed" <=> error # "NONE"

\* The expression cannot run forever, whatever branches it takes.
EvalEnds == <>(phase \in {"value", "failed", "SIGFPE", "SIGSEGV"})

\* The marker that announces a dex pc leaves nothing on the stack: the rest of
\* the expression computes the dex pc as if the marker were not there.
MarkerLeavesNothing == (phase = "loop" /\ iterations = 2 /\ dex) => stack = <<>>
=============================================================================
