------------------------------ MODULE MCDwarf ------------------------------
(* The evaluation of DWARF unwind information, small instances for TLC: a    *)
(* behaviour is about one of rows of rules (DwarfEval), expressions          *)
(* (DwarfOp), encoded values (DwarfMemory), call frame instructions          *)
(* (DwarfCfa) and the memory of the process that all of it is read from      *)
(* (ProcessMemory).  The state of the others is Off, that of DwarfEval an    *)
(* initial one.                                                              *)
EXTENDS DwarfEval, Sequences, SequencesExt, TLC
CONSTANTS Off

VARIABLES part,
          op_phase, op_off, op_stack, op_dex, op_is_register, op_iterations, op_error,
          rd_memory, rd_address_size, rd_base, rd_cur_offset, rd_read,
          cf_cie, cf_fde, cf_cie_loc_regs, cf_loc_regs, cf_used,
          pm_pages, pm_redirect, pm_cache, pm_fresh, pm_last

opvars == <<op_phase, op_off, op_stack, op_dex, op_is_register, op_iterations, op_error>>
rdvars == <<rd_memory, rd_address_size, rd_base, rd_cur_offset, rd_read>>
cfvars == <<cf_cie, cf_fde, cf_cie_loc_regs, cf_loc_regs, cf_used>>
pmvars == <<pm_pages, pm_redirect, pm_cache, pm_fresh, pm_last>>
OpOff ==
  /\ op_phase = Off /\ op_off = Off /\ op_stack = Off /\ op_dex = Off /\ op_is_register = Off
  /\ op_iterations = Off /\ op_error = Off
RdOff ==
  /\ rd_memory = Off /\ rd_address_size = Off /\ rd_base = Off /\ rd_cur_offset = Off /\ rd_read = Off
CfOff ==
  /\ cf_cie = Off /\ cf_fde = Off /\ cf_cie_loc_regs = Off /\ cf_loc_regs = Off /\ cf_used = Off
PmOff ==
  /\ pm_pages = Off /\ pm_redirect = Off /\ pm_cache = Off /\ pm_fresh = Off /\ pm_last = Off

\* Rows of rules: three registers, the last one the pc
L(type, v0, v1) == [type |-> type, v0 |-> v0, v1 |-> v1]
MCExpressions == [n \in 0..2 |-> [reg |-> n % 2, add |-> n, ok |-> n < 2, dex |-> n = 1]]
Locs == {L("offset", 1, 0), L("register", 0, 0), L("register", 1, 0), L("val_expression", 1, 0)}
PcLocs == {L("undefined", 0, 0), L("val_offset", 2, 0)}
Wrong == {L("register", 9, 0), L("expression", 2, 0)}
CfaLocs == {L("register", 1, 1), L("val_expression", 0, 0), L("offset", 1, 0)}
\* Rules for all registers or for some, and for one there is not
MCRows ==
  {(0 :> a) @@ (1 :> b) @@ (2 :> c) @@ (CfaReg :> L("register", 1, 1)) :
     a, b \in Locs, c \in PcLocs}
    \cup {(0 :> L("expression", 1, 0)) @@ (1 :> b) @@ (CfaReg :> L("register", 1, 1)) : b \in Locs}
    \cup {(0 :> a) @@ (7 :> L("offset", 0, 0)) @@ (CfaReg :> d) : a \in Wrong, d \in CfaLocs}
    \cup {0 :> L("offset", 0, 0)}
MCMemory == {[a \in Address |-> <<1, Unreadable, 0>>[a + 1]]}

\* Expressions: two of each family of 32 ops, and all the others
MCOps == 0..50 \union {80, 81, 112, 113, 116} \union 144..160
Op == INSTANCE DwarfOp WITH
  Bits <- 3, Ops <- MCOps, Unsigned <- {0, 1, 5}, Signed <- -2..1, DexMarker <- 5, Regs <- <<1, 6>>,
  Start <- 0, End <- 4, MaxIterations <- 6, phase <- op_phase, off <- op_off, stack <- op_stack,
  dex <- op_dex, is_register <- op_is_register, iterations <- op_iterations, error <- op_error

\* Encoded values: all beginnings of three bytes, the third repeated; some cut off
Bytes(lengths, values) == {[i \in 1..n |-> b[IF i < 3 THEN i ELSE 3]] : n \in lengths, b \in [1..3 -> values]}
MCBytes == Bytes({8}, 0..3) \cup Bytes({1, 3}, {1, 2})
Enc == INSTANCE DwarfMemory WITH
  Group <- 1, Memories <- MCBytes, AddressSizes <- {4, 8}, Offsets <- {0, 1}, Bases <- {-1, 5},
  memory <- rd_memory, address_size <- rd_address_size, base <- rd_base, cur_offset <- rd_cur_offset,
  read <- rd_read

\* Call frame instructions: one function whose instructions vary and a second one that shares its CIE
I(op, v) == [op |-> op, v |-> v]
Body == {I("advance_loc", <<1>>), I("remember_state", <<>>), I("restore_state", <<>>),
         I("def_cfa_offset", <<2>>), I("restore", <<1>>)}
\* The location is not behind a state that was restored last.
EndsWell(p) == p = <<>> \/ p[Len(p)].op # "restore_state"
Cie == <<I("def_cfa", <<0, 1>>), I("offset", <<1, 1>>)>>
Second == {<<I("advance_loc", <<1>>), I("def_cfa_offset", <<3>>)>>, <<I("illegal", <<>>)>>}
\* Every instruction with every operand
Alphabet ==
  {I(op, <<>>) : op \in {"nop", "remember_state", "restore_state", "illegal", "unreadable"}}
    \cup {I(op, <<r>>) : op \in {"restore", "undefined", "same_value", "def_cfa_register"}, r \in {0, 1}}
    \cup {I(op, <<n>>) : n \in {1, 2},
             op \in {"advance_loc", "def_cfa_offset"}}
    \cup {I(op, <<1>>) : op \in {"GNU_args_size", "def_cfa_offset_sf", "def_cfa_expression"}}
    \cup {I("set_loc", <<2>>)} \cup {I("register", <<r, q>>) : r, q \in {0, 1}}
    \cup {I(op, <<r, 1>>) : r \in {0, 1},
             op \in {"offset", "offset_extended", "offset_extended_sf", "val_offset", "def_cfa", "def_cfa_sf",
                     "GNU_negative_offset_extended", "expression", "val_expression"}}
MCPrograms == {p \in BoundedSeq(Alphabet, 2) \cup BoundedSeq(Body, 4) : EndsWell(p)} \X Second
Cfa == INSTANCE DwarfCfa WITH
  Registers <- {0, 1}, Numbers <- {1, 2}, DataAlign <- 3, Functions <- {1, 2}, Low <- <<0, 4>>, High <- <<4, 6>>,
  CiePrograms <- {Cie, <<I("restore", <<1>>)>>, <<>>}, Programs <- MCPrograms, cie <- cf_cie, fde <- cf_fde,
  cie_loc_regs <- cf_cie_loc_regs, loc_regs <- cf_loc_regs, used <- cf_used

\* Four pages, the last one never mapped, and reads of less and of more than a page
Mem == INSTANCE ProcessMemory WITH
  PageSize <- 2, Word <- 2, NumPages <- 4, MaxIovecs <- 3, Small <- 2, Sizes <- {2, 5}, MaxGeneration <- 1,
  pages <- pm_pages, redirect <- pm_redirect, cache <- pm_cache, fresh <- pm_fresh, last <- pm_last
ASSUME MemoryConstants == Mem!ProcessMemoryAssumption /\ Mem!OneBatch

MCInit ==
  \/ part = "eval" /\ Init /\ OpOff /\ RdOff /\ CfOff /\ PmOff
  \/ /\ Init /\ regs = [r \in Registers |-> 0]
     /\ \/ part = "op" /\ Op!Init /\ RdOff /\ CfOff /\ PmOff
        \/ part = "encoded" /\ Enc!Init /\ OpOff /\ CfOff /\ PmOff
        \/ part = "cfa" /\ Cfa!Init /\ OpOff /\ RdOff /\ PmOff
        \/ part = "memory" /\ Mem!Init /\ OpOff /\ RdOff /\ CfOff
MCNext ==
  \/ part = "eval" /\ Next /\ UNCHANGED <<part, opvars, rdvars, cfvars, pmvars>>
  \/ part = "op" /\ Op!Next /\ UNCHANGED <<part, vars, rdvars, cfvars, pmvars>>
  \/ part = "encoded" /\ Enc!Next /\ UNCHANGED <<part, vars, opvars, cfvars, pmvars>>
  \/ part = "cfa" /\ Cfa!Next /\ UNCHANGED <<part, vars, opvars, rdvars, pmvars>>
  \/ part = "memory" /\ Mem!Next /\ UNCHANGED <<part, vars, opvars, rdvars, cfvars>>
MCSpec == MCInit /\ [][MCNext]_<<part, vars, opvars, rdvars, cfvars, pmvars>>
-----------------------------------------------------------------------------
\* No handler of an op but op_pick uses a value beyond the stack, and none a
\* register there is not; no division but the one that overflows ends the
\* process; an expression that fails leaves an error code for the caller, and
\* the two ops that mark a dex pc leave nothing on the stack.
OpSound ==
  part = "op" =>
    Op!NothingFromOutside /\ Op!TrapsOnlyOnOverflow /\ Op!FailureHasCode /\ Op!MarkerLeavesNothing
\* ReadEncodedValue consumes what GetEncodedSize says or nothing, extends the
\* sign of a LEB128 number of any length, and refuses a relative encoding
\* whose base is not set.
EncodedReads == part = "encoded" => Enc!SizeIsConsumed /\ Enc!SignExtended /\ Enc!RelativeNeedsBase
\* DwarfSection::Step uses the rules that the instructions give for the pc,
\* cached or not, and a cached row is right for every pc of its range.
CfaStepFollowsTable == part = "cfa" => Cfa!StepFollowsTable /\ Cfa!RowsValidInRange
\* A read of a process returns the bytes that are at the address, without a
\* gap, and all there are before the first page that is not mapped.
MemReads == part = "memory" => Mem!ReadsPrefix /\ Mem!StopsAtHole /\ Mem!ReadsAllThereIs
\* A read through the cache returns what the process had since the cache was cleared.
MemCacheTransparent == part = "memory" => Mem!CacheTransparent
=============================================================================
