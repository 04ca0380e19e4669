----------------------------- MODULE Elf_proofs -----------------------------
(***************************************************************************)
(* Proofs about an elf, for any number of threads, any elf and any number  *)
(* of calls:                                                               *)
(*   StepsCorrect       a step uses the row of its pc and the first section*)
(*                      that can make it, and reports the first error, if  *)
(*                      no search for a pc raced with it;                  *)
(*   HeadersCorrect     an elf has the sections, segments and debug data   *)
(*                      that its headers name, in whatever order;          *)
(*   SonameCorrect      GetSoname gives the same answer every time.        *)
(* The inductive invariant of ElfStep says that the lock of the elf is     *)
(* held from the first section to the return, so that errors and           *)
(* last_error, which are shared, are those of the call under way.  That of *)
(* ElfHeaders says what has been made of the headers read so far.          *)
(***************************************************************************)
EXTENDS ElfStep, SequenceTheorems, TLAPS

\* The constant and the variables of ElfHeaders
CONSTANT Elfs
VARIABLES hd_elf, hd_pc, hd_i, hd_load_bias, hd_pt_loads, hd_sect, hd_strtabs, hd_symtabs, hd_eh_frame,
          hd_debug_frame, hd_unpack, hd_gnu, hd_soname, hd_answer
Headers == INSTANCE ElfHeaders WITH
  elf <- hd_elf, pc <- hd_pc, i <- hd_i, load_bias <- hd_load_bias,
  pt_loads <- hd_pt_loads, sect <- hd_sect, strtabs <- hd_strtabs, symtabs <- hd_symtabs,
  eh_frame <- hd_eh_frame, debug_frame <- hd_debug_frame, unpack <- hd_unpack, gnu <- hd_gnu,
  soname <- hd_soname, answer <- hd_answer

Names == Range(elf.sections)
Count == Len(elf.sections)
Codes == {"NONE", "MEMORY_INVALID", "ILLEGAL_STATE", "NOT_IMPLEMENTED"}
Places == {"idle", "section", "fde", "eval", "failed", "exidx", "done", "look"}
Calls ==
  [at : Places, pc : Int, next : Nat, row : Seq(Rows), failed : Seq(Names \X Codes),
   stepped : Names \cup {"", "exidx"}, left : Int]

TypeInv ==
  /\ elf \in Layouts /\ lock \in Threads \cup {NoLock}
  /\ loc_regs \in [Names -> SUBSET Rows]
  /\ errors \in [Names -> Codes]
  /\ th \in [Threads -> Calls]
  /\ raced \in BOOLEAN

CacheInv == \A s \in Names : loc_regs[s] \subseteq elf.rows[s]

LockInv == \A t \in Threads : (lock = t) <=> th[t].at \notin {"idle", "look"}

\* What a call under way has tried, and why the first section failed
TriedInv(t) ==
  th[t].at \notin {"idle", "look"}
    => /\ th[t].next \in 1 .. Count + 1 /\ Len(th[t].failed) = th[t].next - 1
       /\ \A k \in 1 .. Len(th[t].failed) : th[t].failed[k][1] = elf.sections[k]
       /\ ~raced /\ th[t].next > 1 => th[t].failed[1][2] = errors[elf.sections[1]]

\* Where a call is in the sections
PlaceInv(t) ==
  /\ th[t].at \in {"fde", "eval", "failed"} => th[t].next <= Count
  /\ th[t].at = "look" => th[t].next \in LookFrom .. LookTo
  /\ th[t].at = "exidx" => th[t].next = Count + 1 /\ elf.exidx
  /\ th[t].at # "done" => th[t].stepped = ""
  /\ th[t].at = "done" => \/ th[t].stepped \in {"", "exidx"} /\ th[t].next = Count + 1
                          \/ th[t].next <= Count /\ th[t].stepped = elf.sections[th[t].next]

RowInv(t) == th[t].at = "eval" => Len(th[t].row) = 1 /\ (raced \/ th[t].row[1] \in TableRows(Current(t), th[t].pc))

ErrorInv(t) ==
  ~raced /\ th[t].at = "done" /\ th[t].stepped = "" /\ ~elf.exidx
    => last_error = IF th[t].failed = <<>> THEN "NONE" ELSE External(th[t].failed[1][2])

CallInv(t) == TriedInv(t) /\ PlaceInv(t) /\ RowInv(t) /\ ErrorInv(t)

\* A search and a step at the same time are a race, which takes sections to search.
RaceInv ==
  /\ raced \/ lock = NoLock \/ \A t \in Threads : th[t].at # "look"
  /\ raced => LookFrom <= LookTo

IInv == TypeInv /\ CacheInv /\ LockInv /\ RaceInv /\ \A t \in Threads : CallInv(t)

-----------------------------------------------------------------------------
\* What the assumption says of the elf
LEMMA ElfFacts ==
  ASSUME ElfStepAssumption, TypeInv
  PROVE /\ elf.sections \in Seq(Names) /\ elf.exidx \in BOOLEAN /\ Count \in Nat
        /\ \A i \in 1 .. Count : /\ elf.sections[i] \in Names
                                 /\ elf.sections[i] # "" /\ elf.sections[i] # "exidx"
        /\ \A i, j \in 1 .. Count : elf.sections[i] = elf.sections[j] => i = j
        /\ \A s \in Names : /\ elf.rows[s] \subseteq Rows
                            /\ \A r \in elf.rows[s] : r.start < r.end
                            /\ \A q, r \in elf.rows[s] : q # r => q.end <= r.start \/ r.end <= q.start
<1>1. /\ elf.sections \in Seq(Names) /\ elf.exidx \in BOOLEAN
      /\ "" \notin Names /\ "exidx" \notin Names
      /\ \A i, j \in 1 .. Count : elf.sections[i] = elf.sections[j] => i = j
  BY Zenon DEF ElfStepAssumption, TypeInv, Count, Names
<1>2. \A s \in Names : /\ elf.rows[s] \subseteq Rows
                       /\ \A r \in elf.rows[s] : r.start < r.end
                       /\ \A q, r \in elf.rows[s] : q # r => q.end <= r.start \/ r.end <= q.start
  BY Zenon DEF ElfStepAssumption, TypeInv, Names
<1>3. Count \in Nat /\ DOMAIN elf.sections = 1 .. Count BY <1>1, LenProperties, Zenon DEF Count
<1>4. \A i \in 1 .. Count : elf.sections[i] \in Names BY <1>3 DEF Names, Range
<1> QED BY <1>1, <1>2, <1>3, <1>4, Zenon

\* A range with a member is not empty.
LEMMA NotEmpty == ASSUME NEW a \in Int, NEW b \in Int, NEW n \in a .. b PROVE a <= b
OBVIOUS

\* The sections that IsValidPc searches are sections of the elf.
LEMMA LookFacts ==
  ASSUME ElfStepAssumption, TypeInv
  PROVE /\ LookFrom \in Nat \ {0} /\ LookTo \in 0 .. Count /\ Count \in Nat
        /\ LookFrom \in Int /\ LookTo \in Int
        /\ elf.own \in Nat /\ elf.pt_loads.elf \in BOOLEAN /\ elf.pt_loads.gnu \in BOOLEAN
<1>1. elf.own \in 0 .. Count /\ elf.pt_loads \in [elf : BOOLEAN, gnu : BOOLEAN]
  BY Zenon DEF ElfStepAssumption, TypeInv, Count
<1>2. Count \in Nat BY ElfFacts, Zenon
<1>3. elf.pt_loads.elf \in BOOLEAN /\ elf.pt_loads.gnu \in BOOLEAN BY <1>1, Zenon
<1>4. elf.own \in Nat /\ elf.own + 1 \in Nat \ {0} /\ 1 \in Nat \ {0} /\ Count \in 0 .. Count BY <1>1, <1>2
<1>5. LookFrom \in Nat \ {0} BY <1>4, Zenon DEF LookFrom
<1>6. LookTo \in 0 .. Count BY <1>1, <1>4, Zenon DEF LookTo, Count
<1>7. LookFrom \in Int /\ LookTo \in Int BY <1>2, <1>5, <1>6
<1> QED BY <1>2, <1>3, <1>4, <1>5, <1>6, <1>7, Zenon

\* The types of the locals of a call
LEMMA CallFacts ==
  ASSUME TypeInv, NEW t \in Threads
  PROVE /\ th[t] \in Calls /\ th[t].at \in Places /\ th[t].pc \in Int /\ th[t].next \in Nat
        /\ th[t].row \in Seq(Rows) /\ th[t].failed \in Seq(Names \X Codes) /\ th[t].left \in Int
<1>1. th[t] \in Calls BY DEF TypeInv
<1> QED BY <1>1, Zenon DEF Calls

\* The record of one call changes, the others stay.
LEMMA Update ==
  ASSUME TypeInv, NEW t \in Threads, NEW y \in Calls, th' = [th EXCEPT ![t] = y]
  PROVE /\ th' \in [Threads -> Calls] /\ th'[t] = y
        /\ \A u \in Threads : u # t => th'[u] = th[u]
<1>1. th \in [Threads -> Calls] BY DEF TypeInv
<1> QED BY <1>1

\* A thread stays what it was when others run: it does not hold the lock,
\* nothing that is shared changes, or there is a race.
LEMMA OtherKeeps ==
  ASSUME IInv, NEW u \in Threads, elf' = elf, th'[u] = th[u], raced => raced',
         lock # u \/ raced' \/ (errors' = errors /\ last_error' = last_error)
  PROVE CallInv(u)'
<1> USE DEF IInv
<1>1. CallInv(u) /\ (lock = u <=> th[u].at \notin {"idle", "look"}) BY DEF LockInv
<1>2. TriedInv(u)' BY <1>1, Zenon DEF CallInv, TriedInv, Count
<1>3. PlaceInv(u)' BY <1>1, ZenonT(30) DEF CallInv, PlaceInv, Count, LookFrom, LookTo
<1>4. RowInv(u)' BY <1>1, Zenon DEF CallInv, RowInv, TableRows, Current
<1>5. ErrorInv(u)' BY <1>1, Zenon DEF CallInv, ErrorInv
<1> QED BY <1>2, <1>3, <1>4, <1>5 DEF CallInv

\* The locals of a thread outside of a call
LEMMA IdleTyped ==
  ASSUME NEW n \in Int
  PROVE /\ Idle(n) \in Calls /\ Idle(n).at = "idle" /\ Idle(n).stepped = ""
        /\ Idle(n).next = 0 /\ Idle(n).failed = <<>> /\ Idle(n).row = <<>>
        /\ Idle(n).pc = 0 /\ Idle(n).left = n
<1>1. <<>> \in Seq(Rows) /\ <<>> \in Seq(Names \X Codes) BY EmptySeq
<1>2. "idle" \in Places /\ "" \in Names \cup {"", "exidx"} BY DEF Places
<1>3. Idle(n) \in Calls BY <1>1, <1>2 DEF Idle, Calls
<1> QED BY <1>3, Zenon DEF Idle

\* IInv holds of the initial states.
LEMMA InitIInv == ASSUME ElfStepAssumption, Init PROVE IInv
<1>1. Idle(MaxCalls) \in Calls /\ Idle(MaxCalls).at = "idle" /\ Idle(MaxCalls).stepped = ""
  <2>1. MaxCalls \in Nat BY Zenon DEF ElfStepAssumption
  <2>2. MaxCalls \in Int BY <2>1
  <2> QED BY <2>2, IdleTyped, Zenon
<1>2. \A t \in Threads : th[t].at = "idle" /\ th[t].stepped = "" BY <1>1, Zenon DEF Init
<1>3. TypeInv BY <1>1, Zenon DEF Init, TypeInv, Names, Codes
<1>4. CacheInv BY DEF Init, CacheInv, Names
<1>5. LockInv BY <1>2, Zenon DEF LockInv, Init, ElfStepAssumption
<1>6. \A t \in Threads : CallInv(t)
  BY <1>2, Zenon DEF CallInv, TriedInv, PlaceInv, RowInv, ErrorInv
<1>7. RaceInv BY Zenon DEF Init, RaceInv
<1> QED BY <1>3, <1>4, <1>5, <1>6, <1>7, Zenon DEF IInv

\* The constants, apart from the layouts
LEMMA ConstantFacts == ElfStepAssumption => NoLock \notin Threads /\ Pcs \subseteq Int
BY Zenon DEF ElfStepAssumption

\* IInv for the next state, from its parts
LEMMA Assemble ==
  ASSUME ElfStepAssumption, IInv, NEW t \in Threads, NEW y \in Calls,
         th' = [th EXCEPT ![t] = y], elf' = elf,
         lock' \in Threads \cup {NoLock}, \A u \in Threads : u # t => (lock' = u <=> lock = u),
         lock' = t <=> y.at \notin {"idle", "look"},
         loc_regs' \in [Names -> SUBSET Rows], \A s \in Names : loc_regs'[s] \subseteq elf.rows[s],
         errors' \in [Names -> Codes],
         lock = t \/ lock = NoLock \/ raced' \/ (errors' = errors /\ last_error' = last_error),
         CallInv(t)', raced' \in BOOLEAN, raced => raced', RaceInv'
  PROVE IInv'
<1>1. TypeInv BY DEF IInv
<1>2. /\ th' \in [Threads -> Calls] /\ th'[t] = y
      /\ \A u \in Threads : u # t => th'[u] = th[u] BY <1>1, Update, Zenon
<1>3. Names' = Names /\ Calls' = Calls BY Zenon DEF Names, Calls
<1>4. TypeInv' BY <1>1, <1>2, <1>3, Zenon DEF TypeInv
<1>5. CacheInv' BY <1>3 DEF CacheInv
<1>6. LockInv'
  <2>1. \A u \in Threads : lock = u <=> th[u].at \notin {"idle", "look"} BY DEF IInv, LockInv
  <2>2. ASSUME NEW u \in Threads PROVE lock' = u <=> th'[u].at \notin {"idle", "look"}
    <3>1. CASE u = t BY <3>1, <1>2
    <3>2. CASE u # t BY <3>2, <1>2, <2>1
    <3> QED BY <3>1, <3>2
  <2> QED BY <2>2 DEF LockInv
<1>7. ASSUME NEW u \in Threads PROVE CallInv(u)'
  <2>1. CASE u = t BY <2>1
  <2>2. CASE u # t
    <3>1. th'[u] = th[u] BY <1>2, <2>2
    <3>2. lock # u \/ raced' \/ (errors' = errors /\ last_error' = last_error)
      BY <2>2, ConstantFacts, Zenon
    <3> QED BY <3>1, <3>2, OtherKeeps, Zenon
  <2> QED BY <2>1, <2>2
<1> QED BY <1>4, <1>5, <1>6, <1>7, Zenon DEF IInv

\* Elf::Step begins: the lock was free, so no other call is under way.
LEMMA StepKeeps ==
  ASSUME ElfStepAssumption, IInv, NEW t \in Threads, NEW p \in Pcs, Step(t, p)
  PROVE IInv'
<1> DEFINE y == [Idle(th[t].left - 1) EXCEPT !.at = "section", !.pc = p, !.next = 1]
<1>1. TypeInv BY DEF IInv
<1>2. th[t].left - 1 \in Int BY <1>1, CallFacts
<1>3. p \in Int BY ConstantFacts
<1>4. /\ y \in Calls /\ y.at = "section" /\ y.next = 1 /\ y.failed = <<>> /\ y.stepped = ""
  BY <1>2, <1>3, IdleTyped, Zenon DEF Calls, Places, Idle
<1> HIDE DEF y
<1>5. th' = [th EXCEPT ![t] = y] /\ elf' = elf /\ lock = NoLock /\ lock' = t
      /\ loc_regs' = loc_regs /\ errors' = errors BY DEF Step, y
<1>6. th'[t] = y BY <1>1, <1>4, <1>5, Update, Zenon
<1>7. Count \in Nat BY <1>1, ElfFacts, Zenon
<1>8. CallInv(t)'
  <2>4. Count' = Count BY <1>5 DEF Count
  <2>7. y.failed = <<>> /\ y.next = 1 BY <1>4, Zenon
  <2>5. Len(y.failed) = 0 BY <2>7
  <2>1. Len(y.failed) = y.next - 1 /\ y.next \in 1 .. Count' + 1 /\ ~(y.next > 1) BY <1>7, <2>4, <2>5, <2>7
  <2>6. \A k \in 1 .. Len(y.failed) : FALSE BY <2>5
  <2>3. TriedInv(t)' BY <2>1, <2>6, <1>6 DEF TriedInv
  <2>2. PlaceInv(t)' /\ RowInv(t)' /\ ErrorInv(t)' BY <1>4, <1>6, Zenon DEF PlaceInv, RowInv, ErrorInv
  <2> QED BY <2>3, <2>2 DEF CallInv
<1>9. /\ \A u \in Threads : u # t => (lock' = u <=> lock = u)
      /\ lock' = t <=> y.at \notin {"idle", "look"}
      /\ lock' \in Threads \cup {NoLock}
  BY <1>4, <1>5, ConstantFacts, Zenon
<1>10. /\ loc_regs' \in [Names -> SUBSET Rows] /\ \A s \in Names : loc_regs'[s] \subseteq elf.rows[s]
       /\ errors' \in [Names -> Codes] BY <1>1, <1>5 DEF TypeInv, IInv, CacheInv
<1>11. raced' = (raced \/ Searching) /\ raced \in BOOLEAN BY <1>1, Zenon DEF Step, TypeInv
<1>12. raced' \in BOOLEAN /\ (raced => raced') BY <1>11, Zenon
<1>13. RaceInv'
  <2>1. ASSUME ~raced', NEW u \in Threads PROVE th'[u].at # "look"
    <3>1. CASE u = t BY <3>1, <1>4, <1>6, Zenon
    <3>2. CASE u # t
      <4>1. th'[u] = th[u] BY <1>1, <1>4, <1>5, <3>2, Update, Zenon
      <4> QED BY <4>1, <2>1, <1>11, Zenon DEF Searching, At
    <3> QED BY <3>1, <3>2, Zenon
  <2>2. LookFrom' = LookFrom /\ LookTo' = LookTo BY <1>5, Zenon DEF LookFrom, LookTo
  <2>3. ASSUME raced' PROVE LookFrom <= LookTo
    <3>1. CASE raced BY <3>1, Zenon DEF IInv, RaceInv
    <3>2. CASE Searching
      <4>1. PICK u \in Threads : th[u].at = "look" BY <3>2, Zenon DEF Searching, At
      <4>2. th[u].next \in LookFrom .. LookTo BY <4>1, Zenon DEF IInv, CallInv, PlaceInv
      <4>3. LookFrom \in Nat \ {0} /\ LookTo \in 0 .. Count /\ Count \in Nat BY <1>1, LookFacts, Zenon
      <4> QED BY <4>2, <4>3
    <3> QED BY <2>3, <1>11, <3>1, <3>2, Zenon
  <2> QED BY <2>1, <2>2, <2>3, Zenon DEF RaceInv
<1> QED BY <1>4, <1>5, <1>8, <1>9, <1>10, <1>12, <1>13, Assemble, Zenon

\* The call x at another place
Move(x, at, next, row, failed, stepped) ==
  [at |-> at, pc |-> x.pc, next |-> next, row |-> row, failed |-> failed, stepped |-> stepped, left |-> x.left]

\* A move of a call keeps its type.
LEMMA MoveTyped ==
  ASSUME TypeInv, NEW t \in Threads, NEW at \in Places, NEW next \in Nat, NEW row \in Seq(Rows),
         NEW failed \in Seq(Names \X Codes), NEW stepped \in Names \cup {"", "exidx"}
  PROVE Move(th[t], at, next, row, failed, stepped) \in Calls
<1>1. th[t].pc \in Int /\ th[t].left \in Int BY CallFacts, Zenon
<1> QED BY <1>1, Zenon DEF Calls, Move

\* A step of the thread that holds the lock
LEMMA MoveKeeps ==
  ASSUME ElfStepAssumption, IInv, NEW t \in Threads, NEW y \in Calls,
         th' = [th EXCEPT ![t] = y], th[t].at \notin {"idle", "look"}, y.at \notin {"idle", "look"},
         elf' = elf, lock' = lock, raced' = raced,
         loc_regs' \in [Names -> SUBSET Rows], \A s \in Names : loc_regs'[s] \subseteq elf.rows[s],
         errors' \in [Names -> Codes], CallInv(t)'
  PROVE IInv'
<1>1. lock = t BY DEF IInv, LockInv
<1>2. lock' \in Threads \cup {NoLock} BY <1>1
<1>3. \A u \in Threads : u # t => (lock' = u <=> lock = u) OBVIOUS
<1>4. lock' = t <=> y.at \notin {"idle", "look"} BY <1>1
<1>5. raced' \in BOOLEAN /\ (raced => raced') BY Zenon DEF IInv, TypeInv
<1>6. RaceInv'
  <2>1. TypeInv /\ RaceInv BY Zenon DEF IInv
  <2>2. th'[t] = y /\ \A u \in Threads : u # t => th'[u] = th[u] BY <2>1, Update, Zenon
  <2>3. (\A u \in Threads : th[u].at # "look") => \A u \in Threads : th'[u].at # "look" BY <2>2, Zenon
  <2>4. LookFrom' = LookFrom /\ LookTo' = LookTo BY Zenon DEF LookFrom, LookTo
  <2> QED BY <2>1, <2>3, <2>4, Zenon DEF RaceInv
<1> QED BY <1>1, <1>2, <1>3, <1>4, <1>5, <1>6, Assemble, Zenon

\* The cache as it was
LEMMA CacheStays ==
  ASSUME IInv, loc_regs' = loc_regs
  PROVE loc_regs' \in [Names -> SUBSET Rows] /\ \A s \in Names : loc_regs'[s] \subseteq elf.rows[s]
BY DEF IInv, TypeInv, CacheInv

\* What the invariant says of a call that holds the lock
LEMMA HolderFacts ==
  ASSUME ElfStepAssumption, IInv, NEW t \in Threads, th[t].at \notin {"idle", "look"}
  PROVE /\ lock = t /\ Count \in Nat /\ th[t].next \in 1 .. Count + 1 /\ th[t].next \in Nat
        /\ Len(th[t].failed) = th[t].next - 1 /\ th[t].failed \in Seq(Names \X Codes)
        /\ \A k \in 1 .. Len(th[t].failed) : th[t].failed[k][1] = elf.sections[k]
        /\ ~raced /\ th[t].next > 1 => th[t].failed[1][2] = errors[elf.sections[1]]
        /\ PlaceInv(t)
        /\ th[t].next <= Count => Current(t) \in Names /\ elf.sections[1] \in Names
        /\ th[t].next <= Count /\ th[t].next > 1 => Current(t) # elf.sections[1]
<1>1. TypeInv /\ TriedInv(t) /\ PlaceInv(t) /\ lock = t BY DEF IInv, CallInv, LockInv
<1>2. Count \in Nat /\ \A i \in 1 .. Count : elf.sections[i] \in Names BY <1>1, ElfFacts, Zenon
<1>3. \A i, j \in 1 .. Count : elf.sections[i] = elf.sections[j] => i = j BY <1>1, ElfFacts, Zenon
<1>4. /\ th[t].next \in 1 .. Count + 1 /\ Len(th[t].failed) = th[t].next - 1
      /\ \A k \in 1 .. Len(th[t].failed) : th[t].failed[k][1] = elf.sections[k]
      /\ ~raced /\ th[t].next > 1 => th[t].failed[1][2] = errors[elf.sections[1]]
  BY <1>1, Zenon DEF TriedInv
<1>5. th[t].next \in Nat /\ th[t].failed \in Seq(Names \X Codes) BY <1>1, CallFacts
<1>6. th[t].next <= Count => th[t].next \in 1 .. Count /\ 1 \in 1 .. Count BY <1>2, <1>4
<1>7. th[t].next <= Count => Current(t) \in Names /\ elf.sections[1] \in Names BY <1>2, <1>6, Zenon DEF Current
<1>8. th[t].next <= Count /\ th[t].next > 1 => Current(t) # elf.sections[1]
  BY <1>3, <1>5, <1>6 DEF Current
<1> QED BY <1>1, <1>2, <1>4, <1>5, <1>7, <1>8, Zenon

\* The section being tried is none of those that failed: their errors stay.
LEMMA TriedStays ==
  ASSUME ElfStepAssumption, IInv, NEW t \in Threads, th[t].at \notin {"idle", "look"}, elf' = elf, raced' = raced,
         th'[t].next = th[t].next, th'[t].failed = th[t].failed, NEW code \in Codes,
         errors' = errors \/ (th[t].next <= Count /\ errors' = [errors EXCEPT ![Current(t)] = code])
  PROVE TriedInv(t)' /\ errors' \in [Names -> Codes]
<1>1. Count' = Count BY DEF Count
<1>2. errors \in [Names -> Codes] BY DEF IInv, TypeInv
<1>3. ~raced /\ th[t].next > 1 => th[t].failed[1][2] = errors'[elf.sections[1]]
  <2>1. ASSUME ~raced, th[t].next > 1 PROVE th[t].failed[1][2] = errors[elf.sections[1]] BY <2>1, HolderFacts, Zenon
  <2>2. CASE errors' = errors BY <2>1, <2>2
  <2>3. CASE th[t].next <= Count /\ errors' = [errors EXCEPT ![Current(t)] = code]
    <3>1. ASSUME th[t].next > 1 PROVE Current(t) # elf.sections[1] /\ elf.sections[1] \in Names
      BY <2>3, <3>1, HolderFacts
    <3> QED BY <2>1, <2>3, <3>1, <1>2
  <2> QED BY <2>2, <2>3
<1>4. TriedInv(t)'
  <2>1. /\ th[t].next \in 1 .. Count + 1 /\ Len(th[t].failed) = th[t].next - 1
        /\ \A k \in 1 .. Len(th[t].failed) : th[t].failed[k][1] = elf.sections[k]
    BY HolderFacts
  <2> QED BY <1>1, <1>3, <2>1, Zenon DEF TriedInv
<1>5. errors' \in [Names -> Codes] BY <1>2
<1> QED BY <1>4, <1>5

\* Membership of the codes and places
LEMMA CodesFacts ==
  /\ "NONE" \in Codes /\ "MEMORY_INVALID" \in Codes /\ "ILLEGAL_STATE" \in Codes /\ "NOT_IMPLEMENTED" \in Codes
  /\ "" \in Names \cup {"", "exidx"} /\ "exidx" \in Names \cup {"", "exidx"}
  /\ "section" \in Places /\ "fde" \in Places /\ "eval" \in Places /\ "failed" \in Places /\ "exidx" \in Places
  /\ "done" \in Places
BY DEF Codes, Places

\* A step that goes on with the section it is at
LEMMA SameSection ==
  ASSUME ElfStepAssumption, IInv, NEW t \in Threads, th[t].at \in {"section", "fde", "eval"}, th[t].next <= Count,
         NEW at \in {"fde", "eval", "failed"}, NEW row \in Seq(Rows), NEW code \in Codes,
         elf' = elf, lock' = lock, raced' = raced, errors' = errors \/ errors' = [errors EXCEPT ![Current(t)] = code],
         th' = [th EXCEPT ![t] = Move(th[t], at, th[t].next, row, th[t].failed, "")],
         loc_regs' \in [Names -> SUBSET Rows], \A s \in Names : loc_regs'[s] \subseteq elf.rows[s],
         at = "eval" => Len(row) = 1 /\ (raced \/ row[1] \in TableRows(Current(t), th[t].pc))
  PROVE IInv'
<1> DEFINE y == Move(th[t], at, th[t].next, row, th[t].failed, "")
<1>1. TypeInv /\ th[t].at \notin {"idle", "look"} BY Zenon DEF IInv
<1>2. at \in Places /\ th[t].next \in Nat /\ th[t].failed \in Seq(Names \X Codes) BY <1>1, HolderFacts, Zenon DEF Places
<1>3. "" \in Names \cup {"", "exidx"} BY Zenon
<1>4. /\ y \in Calls /\ y.at = at
      /\ th'[t].at = at /\ th'[t].pc = th[t].pc /\ th'[t].next = th[t].next /\ th'[t].row = row
      /\ th'[t].failed = th[t].failed /\ th'[t].stepped = ""
  <2>1. y.at = at /\ y.pc = th[t].pc /\ y.next = th[t].next /\ y.row = row /\ y.failed = th[t].failed /\ y.stepped = ""
    BY Zenon DEF Move
  <2>2. y \in Calls BY <1>1, <1>2, <1>3, MoveTyped, Zenon
  <2>3. th' = [th EXCEPT ![t] = y] BY Zenon
  <2> HIDE DEF y
  <2>4. th'[t] = y BY <1>1, <2>2, <2>3, Update, Zenon
  <2> QED BY <2>1, <2>2, <2>4, Zenon
<1>5. TriedInv(t)' /\ errors' \in [Names -> Codes] BY <1>1, <1>4, TriedStays, Zenon
<1>6. Count' = Count /\ Current(t)' = Current(t) BY <1>4, Zenon DEF Count, Current
<1>7. PlaceInv(t)' BY <1>4, <1>6, Zenon DEF PlaceInv
<1>8. RowInv(t)'
  <2>1. TableRows(Current(t), th[t].pc)' = TableRows(Current(t), th[t].pc) BY <1>4, <1>6, Zenon DEF TableRows
  <2> QED BY <2>1, <1>4, <1>6, Zenon DEF RowInv
<1>9. ErrorInv(t)' BY <1>4, Zenon DEF ErrorInv
<1>10. CallInv(t)' BY <1>5, <1>7, <1>8, <1>9, Zenon DEF CallInv
<1>11. th' = [th EXCEPT ![t] = y] /\ y.at \notin {"idle", "look"} BY <1>4, Zenon
<1> HIDE DEF y
<1> QED BY <1>1, <1>4, <1>5, <1>10, <1>11, MoveKeeps, Zenon

\* Changing some fields of the call of a thread is a Move.
LEMMA SetCall ==
  ASSUME NEW x \in Calls, NEW v
  PROVE /\ [x EXCEPT !.at = v] = Move(x, v, x.next, x.row, x.failed, x.stepped)
        /\ [x EXCEPT !.row = v] = Move(x, x.at, x.next, v, x.failed, x.stepped)
        /\ [x EXCEPT !.next = v] = Move(x, x.at, v, x.row, x.failed, x.stepped)
        /\ [x EXCEPT !.failed = v] = Move(x, x.at, x.next, x.row, v, x.stepped)
        /\ [x EXCEPT !.stepped = v] = Move(x, x.at, x.next, x.row, x.failed, v)
<1> DEFINE D == Seq(Rows)  E == Seq(Names \X Codes)  F == Names \cup {"", "exidx"}
<1>1. x \in [at : Places, pc : Int, next : Nat, row : D, failed : E, stepped : F, left : Int] BY Zenon DEF Calls
<1> HIDE DEF D, E, F
<1>2. [x EXCEPT !.at = v] = Move(x, v, x.next, x.row, x.failed, x.stepped) BY <1>1 DEF Move
<1>3. [x EXCEPT !.row = v] = Move(x, x.at, x.next, v, x.failed, x.stepped) BY <1>1 DEF Move
<1>4. [x EXCEPT !.next = v] = Move(x, x.at, v, x.row, x.failed, x.stepped) BY <1>1 DEF Move
<1>5. [x EXCEPT !.failed = v] = Move(x, x.at, x.next, x.row, v, x.stepped) BY <1>1 DEF Move
<1>6. [x EXCEPT !.stepped = v] = Move(x, x.at, x.next, x.row, x.failed, v) BY <1>1 DEF Move
<1> QED BY <1>2, <1>3, <1>4, <1>5, <1>6

\* A step that only changes the place is a move.
LEMMA ToPlace ==
  ASSUME TypeInv, NEW t \in Threads, NEW v
  PROVE [th EXCEPT ![t].at = v]
          = [th EXCEPT ![t] = Move(th[t], v, th[t].next, th[t].row, th[t].failed, th[t].stepped)]
<1> DEFINE x == th[t]
<1>1. th \in [Threads -> Calls] /\ x \in Calls BY DEF TypeInv
<1>2. [th EXCEPT ![t].at = v] = [th EXCEPT ![t] = [x EXCEPT !.at = v]] BY <1>1
<1>3. [x EXCEPT !.at = v] = Move(x, v, x.next, x.row, x.failed, x.stepped) BY <1>1, SetCall, Zenon
<1> QED BY <1>2, <1>3, Zenon

\* A step that takes a row is a move.
LEMMA ToEval ==
  ASSUME TypeInv, NEW t \in Threads, NEW v
  PROVE [th EXCEPT ![t].at = "eval", ![t].row = v]
          = [th EXCEPT ![t] = Move(th[t], "eval", th[t].next, v, th[t].failed, th[t].stepped)]
<1> DEFINE x == th[t]  y == [x EXCEPT !.at = "eval"]
<1>1. th \in [Threads -> Calls] /\ x \in Calls BY DEF TypeInv
<1>2. "eval" \in Places BY CodesFacts
<1>3. /\ y \in Calls /\ y.pc = x.pc /\ y.left = x.left /\ y.next = x.next /\ y.row = x.row
      /\ y.failed = x.failed /\ y.stepped = x.stepped /\ y.at = "eval" BY <1>1, <1>2, Zenon DEF Calls
<1>4. [th EXCEPT ![t].at = "eval", ![t].row = v] = [th EXCEPT ![t] = [y EXCEPT !.row = v]] BY <1>1, Zenon
<1> HIDE DEF y
<1>5. [y EXCEPT !.row = v] = Move(y, y.at, y.next, v, y.failed, y.stepped) BY <1>3, SetCall, Zenon
<1>6. [y EXCEPT !.row = v] = Move(th[t], "eval", th[t].next, v, th[t].failed, th[t].stepped) BY <1>3, <1>5 DEF Move
<1> QED BY <1>4, <1>6, Zenon

\* A step that records who has stepped is a move.
LEMMA ToDone ==
  ASSUME TypeInv, NEW t \in Threads, NEW v
  PROVE [th EXCEPT ![t].at = "done", ![t].stepped = v]
          = [th EXCEPT ![t] = Move(th[t], "done", th[t].next, th[t].row, th[t].failed, v)]
<1> DEFINE x == th[t]  y == [x EXCEPT !.at = "done"]
<1>1. th \in [Threads -> Calls] /\ x \in Calls BY DEF TypeInv
<1>2. "done" \in Places BY CodesFacts
<1>3. /\ y \in Calls /\ y.pc = x.pc /\ y.left = x.left /\ y.next = x.next /\ y.row = x.row
      /\ y.failed = x.failed /\ y.stepped = x.stepped /\ y.at = "done" BY <1>1, <1>2, Zenon DEF Calls
<1>4. [th EXCEPT ![t].at = "done", ![t].stepped = v] = [th EXCEPT ![t] = [y EXCEPT !.stepped = v]] BY <1>1, Zenon
<1> HIDE DEF y
<1>5. [y EXCEPT !.stepped = v] = Move(y, y.at, y.next, y.row, y.failed, v) BY <1>3, SetCall, Zenon
<1>6. [y EXCEPT !.stepped = v] = Move(th[t], "done", th[t].next, th[t].row, th[t].failed, v) BY <1>3, <1>5 DEF Move
<1> QED BY <1>4, <1>6, Zenon

\* DwarfSection::Step: the row of the cache is a row of the table.
LEMMA StepSectionKeeps ==
  ASSUME ElfStepAssumption, IInv, NEW t \in Threads, StepSection(t)
  PROVE IInv'
<1> DEFINE s == Current(t)  hit == Cached(s, th[t].pc)
<1>1. TypeInv BY DEF IInv
<1>2. /\ th[t].at = "section" /\ th[t].next <= Count /\ elf' = elf /\ lock' = lock /\ loc_regs' = loc_regs
      /\ raced' = raced
      /\ errors' = errors \/ errors' = [errors EXCEPT ![Current(t)] = "NONE"]
  BY DEF StepSection, At, Count
<1>3. "NONE" \in Codes BY CodesFacts
<1>4. loc_regs' \in [Names -> SUBSET Rows] /\ \A z \in Names : loc_regs'[z] \subseteq elf.rows[z]
  BY <1>2, CacheStays
<1>5. th[t].stepped = "" /\ s \in Names BY <1>2, HolderFacts, Zenon DEF PlaceInv
<1>6. CASE Set(t, "fde")
  <2>1. th' = [th EXCEPT ![t] = Move(th[t], "fde", th[t].next, th[t].row, th[t].failed, "")]
    BY <1>1, <1>5, <1>6, ToPlace, Zenon DEF Set
  <2>2. th[t].row \in Seq(Rows) BY <1>1, CallFacts
  <2> QED BY <1>2, <1>3, <1>4, <2>1, <2>2, SameSection, Zenon
<1>7. ASSUME NEW r \in hit, th' = [th EXCEPT ![t].at = "eval", ![t].row = <<r>>] PROVE IInv'
  <2>1. r \in TableRows(s, th[t].pc) /\ r \in Rows
    <3>1. r \in loc_regs[s] /\ r.end > th[t].pc /\ r.start <= th[t].pc BY <1>7 DEF Cached, UpperBound
    <3>2. r \in elf.rows[s] BY <3>1, <1>5, Zenon DEF IInv, CacheInv
    <3>3. r \in Rows BY <3>2, <1>1, <1>5, ElfFacts, Zenon
    <3>4. th[t].pc \in Int /\ r.end \in Int BY <3>3, <1>1, CallFacts DEF Rows
    <3> QED BY <3>1, <3>2, <3>3, <3>4 DEF TableRows
  <2>2. th' = [th EXCEPT ![t] = Move(th[t], "eval", th[t].next, <<r>>, th[t].failed, "")]
    BY <1>1, <1>5, <1>7, ToEval, Zenon
  <2>3. <<r>> \in Seq(Rows) /\ Len(<<r>>) = 1 /\ <<r>>[1] = r BY <2>1
  <2>4. <<r>>[1] \in TableRows(Current(t), th[t].pc) BY <2>1, <2>3
  <2> QED BY <1>2, <1>3, <1>4, <2>2, <2>3, <2>4, SameSection, Zenon
<1> QED BY <1>6, <1>7 DEF StepSection

\* The row of the table is put into the cache; the cache had none, or the same, with its end.
LEMMA FdeFromPcKeeps ==
  ASSUME ElfStepAssumption, IInv, NEW t \in Threads, FdeFromPc(t)
  PROVE IInv'
<1> DEFINE s == Current(t)  rows == IF raced THEN elf.rows[s] ELSE TableRows(s, th[t].pc)
<1>1. TypeInv BY DEF IInv
<1>2. th[t].at = "fde" /\ elf' = elf /\ lock' = lock /\ raced' = raced BY DEF FdeFromPc, At
<1>3. "ILLEGAL_STATE" \in Codes /\ "NOT_IMPLEMENTED" \in Codes BY CodesFacts
<1>4. th[t].next <= Count /\ th[t].stepped = "" /\ s \in Names BY <1>2, HolderFacts, Zenon DEF PlaceInv
<1>5. th[t].row \in Seq(Rows) BY <1>1, CallFacts
<1>6. ASSUME NEW code \in {"ILLEGAL_STATE", "NOT_IMPLEMENTED"}, errors' = [errors EXCEPT ![s] = code],
             Set(t, "failed"), loc_regs' = loc_regs
      PROVE IInv'
  <2>1. th' = [th EXCEPT ![t] = Move(th[t], "failed", th[t].next, th[t].row, th[t].failed, "")]
    BY <1>1, <1>4, <1>6, ToPlace, Zenon DEF Set
  <2>2. loc_regs' \in [Names -> SUBSET Rows] /\ \A z \in Names : loc_regs'[z] \subseteq elf.rows[z]
    BY <1>6, CacheStays
  <2>3. code \in Codes BY <1>3
  <2> QED BY <1>2, <1>4, <1>5, <1>6, <2>1, <2>2, <2>3, SameSection, Zenon
<1>7. ASSUME NEW r \in rows, loc_regs' = [loc_regs EXCEPT ![s] = Emplace(@, r)], errors' = errors,
             th' = [th EXCEPT ![t].at = "eval", ![t].row = <<WithEnd(loc_regs'[s], r.end)>>]
      PROVE IInv'
  <2>1. r \in elf.rows[s] /\ r \in Rows BY <1>1, <1>4, ElfFacts, Zenon DEF TableRows
  <2>2. loc_regs \in [Names -> SUBSET Rows] /\ \A z \in Names : loc_regs[z] \subseteq elf.rows[z]
    BY DEF IInv, TypeInv, CacheInv
  <2>3. Emplace(loc_regs[s], r) \subseteq elf.rows[s] /\ Emplace(loc_regs[s], r) \subseteq Rows
    BY <2>1, <2>2, <1>4, Zenon DEF Emplace
  <2>4. loc_regs'[s] = Emplace(loc_regs[s], r) BY <2>2, <1>4, <1>7, Zenon
  <2>5. loc_regs' \in [Names -> SUBSET Rows] /\ \A z \in Names : loc_regs'[z] \subseteq elf.rows[z]
    BY <2>2, <2>3, <1>4, <1>7, Zenon
  <2>6. WithEnd(loc_regs'[s], r.end) = r
    <3>1. \E q \in loc_regs'[s] : q.end = r.end BY <2>4 DEF Emplace
    <3>2. \A q \in elf.rows[s] : q.end = r.end => q = r
      <4>1. ASSUME NEW q \in elf.rows[s], q.end = r.end, q # r PROVE FALSE
        <5>1. q.end <= r.start \/ r.end <= q.start BY <4>1, <2>1, <1>1, <1>4, ElfFacts, Zenon
        <5>2. q.start < q.end /\ r.start < r.end /\ q \in Rows BY <2>1, <1>1, <1>4, ElfFacts, Zenon
        <5> QED BY <5>1, <5>2, <4>1, <2>1 DEF Rows
      <4> QED BY <4>1
    <3> QED BY <3>1, <3>2, <2>5, <1>4, Zenon DEF WithEnd
  <2>7. th' = [th EXCEPT ![t] = Move(th[t], "eval", th[t].next, <<r>>, th[t].failed, "")]
    BY <1>1, <1>4, <1>7, <2>6, ToEval, Zenon
  <2>8. <<r>> \in Seq(Rows) /\ Len(<<r>>) = 1 /\ <<r>>[1] = r BY <2>1
  <2>9. raced \/ <<r>>[1] \in TableRows(Current(t), th[t].pc) BY <2>8, Zenon
  <2> QED BY <1>2, <1>3, <1>4, <1>7, <2>5, <2>7, <2>8, <2>9, SameSection, Zenon
<1> QED BY <1>6, <1>7 DEF FdeFromPc

\* A call that ends, or goes on to the exidx table
LEMMA EndKeeps ==
  ASSUME ElfStepAssumption, IInv, NEW t \in Threads, th[t].at \notin {"idle", "look"},
         NEW at \in {"exidx", "done"}, NEW stepped \in Names \cup {"", "exidx"},
         elf' = elf, lock' = lock, loc_regs' = loc_regs, errors' = errors, raced' = raced,
         th' = [th EXCEPT ![t] = Move(th[t], at, th[t].next, th[t].row, th[t].failed, stepped)],
         at = "exidx" => elf.exidx,
         \/ stepped = "" /\ th[t].next = Count + 1
         \/ at = "done" /\ stepped = "exidx" /\ th[t].next = Count + 1
         \/ at = "done" /\ th[t].next <= Count /\ stepped = Current(t),
         ~raced /\ at = "done" /\ stepped = "" /\ ~elf.exidx
           => last_error' = IF th[t].failed = <<>> THEN "NONE" ELSE External(th[t].failed[1][2])
  PROVE IInv'
<1> DEFINE y == Move(th[t], at, th[t].next, th[t].row, th[t].failed, stepped)
<1>1. TypeInv BY Zenon DEF IInv
<1>2. at \in Places /\ th[t].next \in Nat /\ th[t].failed \in Seq(Names \X Codes) /\ th[t].row \in Seq(Rows)
  BY <1>1, HolderFacts, CallFacts, CodesFacts, Zenon
<1>3. y \in Calls BY <1>1, <1>2, MoveTyped, Zenon
<1>4. /\ y.at = at /\ y.next = th[t].next /\ y.row = th[t].row /\ y.failed = th[t].failed /\ y.stepped = stepped
  BY Zenon DEF Move
<1>5. th' = [th EXCEPT ![t] = y] BY Zenon
<1> HIDE DEF y
<1>6. th'[t] = y BY <1>1, <1>3, <1>5, Update, Zenon
<1>7. "NONE" \in Codes BY CodesFacts, Zenon
<1>8. TriedInv(t)' /\ errors' \in [Names -> Codes] BY <1>4, <1>6, <1>7, TriedStays, Zenon
<1>9. PlaceInv(t)'
  <2>1. Count' = Count /\ elf' = elf BY Zenon DEF Count
  <2> QED BY <2>1, <1>4, <1>6, Zenon DEF PlaceInv, Current
<1>10. RowInv(t)' BY <1>4, <1>6, Zenon DEF RowInv
<1>11. ErrorInv(t)' BY <1>4, <1>6, Zenon DEF ErrorInv
<1>12. CallInv(t)' BY <1>8, <1>9, <1>10, <1>11, Zenon DEF CallInv
<1>13. loc_regs' \in [Names -> SUBSET Rows] /\ \A s \in Names : loc_regs'[s] \subseteq elf.rows[s] BY CacheStays, Zenon
<1>14. y.at \notin {"idle", "look"} BY <1>4, Zenon
<1> QED BY <1>3, <1>5, <1>8, <1>12, <1>13, <1>14, MoveKeeps, Zenon

\* Eval steps, or leaves an error in the section.
LEMMA EvalKeeps ==
  ASSUME ElfStepAssumption, IInv, NEW t \in Threads, Eval(t)
  PROVE IInv'
<1>1. TypeInv BY DEF IInv
<1>2. th[t].at = "eval" /\ elf' = elf /\ lock' = lock /\ loc_regs' = loc_regs /\ raced' = raced BY DEF Eval, At
<1>3. th[t].next <= Count /\ th[t].stepped = "" /\ Current(t) \in Names BY <1>2, HolderFacts, Zenon DEF PlaceInv
<1>4. CASE errors' = errors /\ th' = [th EXCEPT ![t].at = "done", ![t].stepped = Current(t)]
  <2>1. th' = [th EXCEPT ![t] = Move(th[t], "done", th[t].next, th[t].row, th[t].failed, Current(t))]
    BY <1>1, <1>4, ToDone, Zenon
  <2>2. Current(t) # ""
    <3>1. th[t].next \in 1 .. Count + 1 /\ th[t].next \in Nat /\ Count \in Nat BY <1>2, HolderFacts
    <3>2. th[t].next \in 1 .. Count
      <4>1. th[t].next <= Count BY <1>3, Zenon
      <4> QED BY <4>1, <3>1
    <3>3. \A i \in 1 .. Count : elf.sections[i] # "" BY <1>1, ElfFacts, Zenon
    <3> QED BY <3>2, <3>3, Zenon DEF Current
  <2> QED BY <1>2, <1>3, <1>4, <2>1, <2>2, EndKeeps, Zenon
<1>5. ASSUME NEW code \in {"MEMORY_INVALID", "ILLEGAL_STATE"}, errors' = [errors EXCEPT ![Current(t)] = code],
             Set(t, "failed")
      PROVE IInv'
  <2>1. th' = [th EXCEPT ![t] = Move(th[t], "failed", th[t].next, th[t].row, th[t].failed, "")]
    BY <1>1, <1>3, <1>5, ToPlace, Zenon DEF Set
  <2>2. loc_regs' \in [Names -> SUBSET Rows] /\ \A z \in Names : loc_regs'[z] \subseteq elf.rows[z]
    BY <1>2, CacheStays
  <2>3. code \in Codes BY CodesFacts
  <2>4. th[t].row \in Seq(Rows) BY <1>1, CallFacts
  <2> QED BY <1>2, <1>3, <1>5, <2>1, <2>2, <2>3, <2>4, SameSection, Zenon
<1> QED BY <1>4, <1>5 DEF Eval

\* Reporting the error of the first section
LEMMA AllFailedKeeps ==
  ASSUME ElfStepAssumption, IInv, NEW t \in Threads, AllFailed(t)
  PROVE IInv'
<1> DEFINE at == IF elf.exidx THEN "exidx" ELSE "done"
<1>1. TypeInv BY DEF IInv
<1>2. /\ th[t].at = "section" /\ th[t].next > Count /\ last_error' = Report /\ Set(t, at)
      /\ elf' = elf /\ lock' = lock /\ loc_regs' = loc_regs /\ errors' = errors /\ raced' = raced
  BY DEF AllFailed, At, Count
<1>3. /\ th[t].next = Count + 1 /\ th[t].stepped = "" /\ Len(th[t].failed) = Count
      /\ ~raced /\ th[t].next > 1 => th[t].failed[1][2] = errors[elf.sections[1]]
  <2>1. /\ Count \in Nat /\ th[t].next \in 1 .. Count + 1 /\ th[t].next \in Nat
        /\ Len(th[t].failed) = th[t].next - 1
    BY <1>2, HolderFacts
  <2>2. ~raced /\ th[t].next > 1 => th[t].failed[1][2] = errors[elf.sections[1]] BY <1>2, HolderFacts, Zenon
  <2>3. th[t].stepped = "" BY <1>2, HolderFacts, Zenon DEF PlaceInv
  <2>4. th[t].next > Count BY <1>2, Zenon
  <2>5. th[t].next = Count + 1 BY <2>1, <2>4
  <2>6. Len(th[t].failed) = Count BY <2>1, <2>5
  <2> QED BY <2>2, <2>3, <2>5, <2>6, Zenon
<1>4. at \in {"exidx", "done"} /\ "" \in Names \cup {"", "exidx"} OBVIOUS
<1>5. ASSUME ~raced PROVE last_error' = IF th[t].failed = <<>> THEN "NONE" ELSE External(th[t].failed[1][2])
  <2>1. th[t].failed \in Seq(Names \X Codes) /\ elf.sections \in Seq(Names) /\ Count \in Nat
    BY <1>1, CallFacts, ElfFacts, Zenon
  <2>2. th[t].failed = <<>> <=> Count = 0 BY <2>1, <1>3, EmptySeq, Zenon
  <2>3. elf.sections = <<>> <=> Count = 0 BY <2>1, EmptySeq DEF Count
  <2>4. Count # 0 => th[t].failed[1][2] = errors[elf.sections[1]]
    <3>1. th[t].next = Count + 1 /\ (th[t].next > 1 => th[t].failed[1][2] = errors[elf.sections[1]])
      BY <1>3, <1>5, Zenon
    <3>2. Count \in Nat BY <2>1, Zenon
    <3>3. Count # 0 => th[t].next > 1 BY <3>1, <3>2
    <3> QED BY <3>1, <3>3, Zenon
  <2> QED BY <1>2, <2>2, <2>3, <2>4 DEF Report
<1>7. at = "exidx" => elf.exidx OBVIOUS
<1> HIDE DEF at
<1>6. th' = [th EXCEPT ![t] = Move(th[t], at, th[t].next, th[t].row, th[t].failed, "")]
  BY <1>1, <1>2, <1>3, ToPlace, Zenon DEF Set
<1> QED BY <1>2, <1>3, <1>4, <1>5, <1>6, <1>7, EndKeeps, Zenon

\* The exidx table is the last that is tried.
LEMMA StepExidxKeeps ==
  ASSUME ElfStepAssumption, IInv, NEW t \in Threads, StepExidx(t)
  PROVE IInv'
<1>1. TypeInv BY DEF IInv
<1>2. th[t].at = "exidx" /\ elf' = elf /\ lock' = lock /\ loc_regs' = loc_regs /\ errors' = errors /\ raced' = raced
  BY DEF StepExidx, At
<1>3. th[t].next = Count + 1 /\ elf.exidx /\ th[t].stepped = "" BY <1>2, HolderFacts, Zenon DEF PlaceInv
<1>4. "" \in Names \cup {"", "exidx"} /\ "exidx" \in Names \cup {"", "exidx"} OBVIOUS
<1>5. CASE th' = [th EXCEPT ![t].at = "done", ![t].stepped = "exidx"]
  <2>1. th' = [th EXCEPT ![t] = Move(th[t], "done", th[t].next, th[t].row, th[t].failed, "exidx")]
    BY <1>1, <1>5, ToDone, Zenon
  <2> QED BY <1>2, <1>3, <1>4, <2>1, EndKeeps, Zenon
<1>6. CASE Set(t, "done")
  <2>1. th' = [th EXCEPT ![t] = Move(th[t], "done", th[t].next, th[t].row, th[t].failed, "")]
    BY <1>1, <1>3, <1>6, ToPlace, Zenon DEF Set
  <2> QED BY <1>2, <1>3, <1>4, <2>1, EndKeeps, Zenon
<1> QED BY <1>5, <1>6 DEF StepExidx

\* A section that failed is one more that was tried.
LEMMA NextSectionKeeps ==
  ASSUME ElfStepAssumption, IInv, NEW t \in Threads, NextSection(t)
  PROVE IInv'
<1> DEFINE x == th[t]  s == Current(t)  e == <<s, errors[s]>>  f == Append(x.failed, e)
           y == Move(x, "section", x.next + 1, <<>>, f, x.stepped)
<1>1. TypeInv BY DEF IInv
<1>2. /\ th[t].at = "failed" /\ elf' = elf /\ lock' = lock /\ loc_regs' = loc_regs /\ errors' = errors /\ raced' = raced
      /\ th' = [th EXCEPT ![t].at = "section", ![t].next = @ + 1, ![t].row = <<>>, ![t].failed = Append(@, e)]
  BY DEF NextSection, At
<1>3. x.next <= Count /\ s \in Names BY <1>2, HolderFacts, Zenon DEF PlaceInv
<1>4. x.stepped = "" BY <1>2, HolderFacts, Zenon DEF PlaceInv
<1>5. /\ Count \in Nat /\ x.next \in 1 .. Count + 1 /\ x.next \in Nat /\ Len(x.failed) = x.next - 1
      /\ x.failed \in Seq(Names \X Codes)
  BY <1>2, HolderFacts
<1>6. e \in Names \X Codes BY <1>1, <1>3 DEF TypeInv
<1>7. /\ f \in Seq(Names \X Codes) /\ Len(f) = x.next
      /\ \A k \in 1 .. Len(x.failed) : f[k] = x.failed[k]
      /\ f[x.next] = e
  <2> HIDE DEF e
  <2>1. /\ f \in Seq(Names \X Codes) /\ Len(f) = Len(x.failed) + 1
        /\ \A k \in 1 .. Len(x.failed) : f[k] = x.failed[k]
        /\ f[Len(x.failed) + 1] = e
    BY <1>5, <1>6, AppendProperties
  <2>2. Len(x.failed) + 1 = x.next BY <1>5
  <2> QED BY <2>1, <2>2
<1>8. e[1] = s /\ e[2] = errors[s] OBVIOUS
<1> HIDE DEF e, f
<1>9. th' = [th EXCEPT ![t] = y]
  <2> DEFINE x1 == [x EXCEPT !.at = "section"]  x2 == [x1 EXCEPT !.next = x.next + 1]
             x3 == [x2 EXCEPT !.row = <<>>]  x4 == [x3 EXCEPT !.failed = f]
  <2>1. th \in [Threads -> Calls] /\ x \in Calls BY <1>1 DEF TypeInv
  <2>2. /\ x1 \in Calls /\ x1.pc = x.pc /\ x1.left = x.left /\ x1.next = x.next /\ x1.row = x.row
        /\ x1.failed = x.failed /\ x1.stepped = x.stepped /\ x1.at = "section"
    BY <2>1, CodesFacts, Zenon DEF Calls
  <2>3. th' = [th EXCEPT ![t] = x4] BY <1>2, <2>1, Zenon DEF f
  <2> HIDE DEF x1
  <2>4. /\ x2 \in Calls /\ x2.pc = x.pc /\ x2.left = x.left /\ x2.next = x.next + 1
        /\ x2.failed = x.failed /\ x2.stepped = x.stepped /\ x2.at = "section"
    <3>1. x.next + 1 \in Nat BY <1>5
    <3> HIDE DEF x
    <3> QED BY <2>2, <3>1, Zenon DEF Calls
  <2> HIDE DEF x2
  <2>5. /\ x3 \in Calls /\ x3.pc = x.pc /\ x3.left = x.left /\ x3.next = x.next + 1 /\ x3.row = <<>>
        /\ x3.stepped = x.stepped /\ x3.at = "section"
    <3>1. <<>> \in Seq(Rows) BY EmptySeq
    <3> QED BY <2>4, <3>1, Zenon DEF Calls
  <2> HIDE DEF x3
  <2>6. x4 = Move(x3, x3.at, x3.next, x3.row, f, x3.stepped) BY <2>5, SetCall, Zenon
  <2>7. x4 = y BY <2>5, <2>6 DEF Move
  <2> QED BY <2>3, <2>7, Zenon
<1>10. y \in Calls
  <2>1. <<>> \in Seq(Rows) /\ "section" \in Places /\ "" \in Names \cup {"", "exidx"} /\ x.next + 1 \in Nat
    BY <1>5, EmptySeq, CodesFacts
  <2> QED BY <1>1, <1>4, <1>7, <2>1, MoveTyped, Zenon
<1>11. y.at = "section" /\ y.next = x.next + 1 /\ y.failed = f /\ y.stepped = x.stepped BY DEF Move
<1> HIDE DEF y
<1>12. th'[t] = y BY <1>1, <1>9, <1>10, Update, Zenon
<1>13. TriedInv(t)'
  <2>1. Count' = Count BY <1>2 DEF Count
  <2>2. x.next <= Count BY <1>3, Zenon
  <2>3. x.next + 1 \in 1 .. Count + 1 /\ Len(f) = x.next + 1 - 1 BY <1>5, <1>7, <2>2
  <2>4. ASSUME NEW k \in 1 .. Len(f) PROVE f[k][1] = elf.sections[k]
    <3>1. CASE k = x.next BY <3>1, <1>7, <1>8 DEF Current
    <3>2. CASE k # x.next
      <4>1. k \in 1 .. Len(x.failed) BY <1>5, <1>7, <3>2
      <4>2. x.failed[k][1] = elf.sections[k] BY <4>1, <1>2, HolderFacts
      <4> QED BY <4>1, <4>2, <1>7
    <3> QED BY <3>1, <3>2
  <2>5. ASSUME ~raced PROVE f[1][2] = errors[elf.sections[1]]
    <3>1. CASE x.next = 1 BY <3>1, <1>7, <1>8 DEF Current
    <3>2. CASE x.next # 1
      <4>1. x.next > 1 /\ 1 \in 1 .. Len(x.failed) BY <3>2, <1>5
      <4>2. x.failed[1][2] = errors[elf.sections[1]] BY <4>1, <2>5, <1>2, HolderFacts, Zenon
      <4> QED BY <4>1, <4>2, <1>7
    <3> QED BY <3>1, <3>2
  <2>6. elf' = elf /\ errors' = errors /\ raced' = raced BY <1>2, Zenon
  <2>8. y.next = x.next + 1 /\ y.failed = f BY <1>11, Zenon
  <2>9. y.next \in 1 .. Count' + 1 BY <2>8, <2>1, <2>3, Zenon
  <2>10. Len(y.failed) = x.next BY <1>7, <2>8, Zenon
  <2>7. Len(y.failed) = y.next - 1 BY <1>5, <2>8, <2>10
  <2> QED BY <1>11, <1>12, <2>4, <2>5, <2>6, <2>7, <2>9, Zenon DEF TriedInv
<1>14. PlaceInv(t)' /\ RowInv(t)' /\ ErrorInv(t)'
  <2>1. th'[t].at = "section" BY <1>11, <1>12, Zenon
  <2>2. th'[t].stepped = "" BY <1>4, <1>11, <1>12, Zenon
  <2> QED BY <2>1, <2>2, Zenon DEF PlaceInv, RowInv, ErrorInv
<1>15. CallInv(t)' BY <1>13, <1>14 DEF CallInv
<1>16. loc_regs' \in [Names -> SUBSET Rows] /\ \A z \in Names : loc_regs'[z] \subseteq elf.rows[z]
  BY <1>2, CacheStays
<1>17. errors' \in [Names -> Codes] BY <1>1, <1>2 DEF TypeInv
<1>18. y.at \notin {"idle", "look"} /\ th[t].at \notin {"idle", "look"} BY <1>2, <1>11
<1> QED BY <1>2, <1>9, <1>10, <1>15, <1>16, <1>17, <1>18, MoveKeeps, Zenon

\* A call that is over, or that looks at the sections without the lock
LEMMA AwayInv ==
  ASSUME NEW t \in Threads, th'[t].at \in {"idle", "look"}, th'[t].stepped = "",
         th'[t].at = "look" => th'[t].next \in LookFrom' .. LookTo'
  PROVE CallInv(t)'
<1>1. TriedInv(t)' BY Zenon DEF TriedInv
<1>2. PlaceInv(t)' BY Zenon DEF PlaceInv
<1>3. RowInv(t)' BY Zenon DEF RowInv
<1>4. ErrorInv(t)' BY Zenon DEF ErrorInv
<1> QED BY <1>1, <1>2, <1>3, <1>4, Zenon DEF CallInv

\* Elf::Step returns and gives the lock back.
LEMMA ReturnKeeps ==
  ASSUME ElfStepAssumption, IInv, NEW t \in Threads, Return(t)
  PROVE IInv'
<1> DEFINE y == Idle(th[t].left)
<1>1. TypeInv BY DEF IInv
<1>2. /\ th[t].at = "done" /\ elf' = elf /\ lock' = NoLock /\ loc_regs' = loc_regs /\ errors' = errors
      /\ last_error' = last_error /\ th' = [th EXCEPT ![t] = y] /\ raced' = raced
  BY DEF Return, At
<1>3. th[t].left \in Int BY <1>1, CallFacts
<1>4. y \in Calls /\ y.at = "idle" /\ y.stepped = "" BY <1>3, IdleTyped, Zenon
<1> HIDE DEF y
<1>5. th'[t] = y BY <1>1, <1>2, <1>4, Update, Zenon
<1>6. CallInv(t)'
  <2>1. th'[t].at = "idle" /\ th'[t].stepped = "" BY <1>4, <1>5, Zenon
  <2> QED BY <2>1, AwayInv, Zenon
<1>7. lock = t BY <1>2 DEF IInv, LockInv
<1>8. NoLock \notin Threads BY ConstantFacts
<1>9. \A u \in Threads : u # t => (lock' = u <=> lock = u) BY <1>2, <1>7, <1>8
<1>10. lock' = t <=> y.at \notin {"idle", "look"} BY <1>2, <1>4, <1>8, Zenon
<1>11. loc_regs' \in [Names -> SUBSET Rows] /\ \A z \in Names : loc_regs'[z] \subseteq elf.rows[z]
  BY <1>2, CacheStays
<1>12. errors' \in [Names -> Codes] BY <1>1, <1>2 DEF TypeInv
<1>13. lock' \in Threads \cup {NoLock} BY <1>2
<1>14. raced' \in BOOLEAN /\ (raced => raced') BY <1>1, <1>2, Zenon DEF TypeInv
<1>15. RaceInv' BY <1>2, Zenon DEF IInv, RaceInv, LookFrom, LookTo
<1> QED BY <1>2, <1>4, <1>6, <1>7, <1>9, <1>10, <1>11, <1>12, <1>13, <1>14, <1>15, Assemble, Zenon

\* A search without the lock changes the errors of the sections at most, and it
\* is a race when there is a step.
LEMMA UnlockedKeeps ==
  ASSUME ElfStepAssumption, IInv, NEW t \in Threads, NEW y \in Calls,
         UNCHANGED <<elf, lock, loc_regs, last_error>>, th' = [th EXCEPT ![t] = y],
         th[t].at \in {"idle", "look"}, y.at \in {"idle", "look"}, y.stepped = "",
         y.at = "look" => y.next \in LookFrom .. LookTo,
         raced' \in BOOLEAN, raced => raced', raced' => raced \/ y.at = "look",
         y.at = "look" => raced' \/ lock = NoLock,
         errors' \in [Names -> Codes], errors' = errors \/ th[t].at = "look"
  PROVE IInv'
<1>1. TypeInv BY Zenon DEF IInv
<1>2. th'[t] = y /\ \A u \in Threads : u # t => th'[u] = th[u] BY <1>1, Update, Zenon
<1>9. LookFrom' = LookFrom /\ LookTo' = LookTo BY Zenon DEF LookFrom, LookTo
<1>3. CallInv(t)'
  <2>2. th'[t].at \in {"idle", "look"} /\ th'[t].stepped = "" BY <1>2, Zenon
  <2>3. th'[t].at = "look" => th'[t].next \in LookFrom' .. LookTo' BY <1>2, <1>9, Zenon
  <2> QED BY <2>2, <2>3, AwayInv, Zenon
<1>4. lock # t BY Zenon DEF IInv, LockInv
<1>5. /\ loc_regs' \in [Names -> SUBSET Rows] /\ \A z \in Names : loc_regs'[z] \subseteq elf.rows[z]
      /\ lock' \in Threads \cup {NoLock} /\ elf' = elf
  BY <1>1, Zenon DEF IInv, TypeInv, CacheInv
<1>6. lock' = t <=> y.at \notin {"idle", "look"} BY <1>4, Zenon
<1>7. \A u \in Threads : u # t => (lock' = u <=> lock = u) BY Zenon
<1>8. lock = NoLock \/ raced' \/ (errors' = errors /\ last_error' = last_error)
  BY Zenon DEF IInv, RaceInv
<1>10. RaceInv'
  <2>1. RaceInv BY Zenon DEF IInv
  <2>2. raced' \/ lock' = NoLock \/ \A u \in Threads : th'[u].at # "look"
    <3>1. CASE raced' \/ lock = NoLock BY <3>1, Zenon
    <3>2. CASE ~raced' /\ lock # NoLock
      <4>1. \A u \in Threads : th[u].at # "look" BY <2>1, <3>2, Zenon DEF RaceInv
      <4>2. y.at # "look" BY <3>2, Zenon
      <4> QED BY <4>1, <4>2, <1>2, Zenon
    <3> QED BY <3>1, <3>2, Zenon
  <2>3. ASSUME raced' PROVE LookFrom <= LookTo
    <3>1. CASE raced BY <3>1, <2>1, Zenon DEF RaceInv
    <3>2. CASE y.at = "look"
      <4>1. y.next \in LookFrom .. LookTo BY <3>2, Zenon
      <4>2. LookFrom \in Int /\ LookTo \in Int BY <1>1, LookFacts, Zenon
      <4> QED BY <4>1, <4>2, NotEmpty, Zenon
    <3> QED BY <2>3, <3>1, <3>2, Zenon
  <2> QED BY <2>2, <2>3, <1>9, Zenon DEF RaceInv
<1> QED BY <1>3, <1>5, <1>6, <1>7, <1>8, <1>10, Assemble, Zenon

\* IsValidPc, without the lock, does not disturb a step unless it gets to the sections.
LEMMA IsValidPcKeeps ==
  ASSUME ElfStepAssumption, IInv, NEW t \in Threads, NEW p \in Pcs, IsValidPc(t, p)
  PROVE IInv'
<1>1. TypeInv BY DEF IInv
<1>2. PICK mapped \in {FALSE, elf.pt_loads.elf} :
        /\ th' = [th EXCEPT ![t] = [Idle(th[t].left - 1) EXCEPT !.pc = p, !.next = LookFrom,
                                      !.at = IF mapped \/ LookFrom > LookTo THEN "idle" ELSE "look"]]
        /\ raced' = (raced \/ ((IF mapped \/ LookFrom > LookTo THEN "idle" ELSE "look") = "look" /\ lock # NoLock))
  BY Zenon DEF IsValidPc, LookAt
<1> DEFINE at == IF mapped \/ LookFrom > LookTo THEN "idle" ELSE "look"
           y == [Idle(th[t].left - 1) EXCEPT !.pc = p, !.next = LookFrom, !.at = at]
<1>3. th[t].left - 1 \in Int BY <1>1, CallFacts
<1>4. p \in Int BY ConstantFacts
<1>5. LookFrom \in Nat \ {0} /\ LookTo \in 0 .. Count /\ Count \in Nat BY <1>1, LookFacts, Zenon
<1>6. at \in {"idle", "look"} /\ (at = "look" => ~(LookFrom > LookTo)) BY Zenon
<1>7. th[t].at = "idle" /\ UNCHANGED <<elf, lock, loc_regs, errors, last_error>> BY Zenon DEF IsValidPc, LookAt, At
<1>8. th' = [th EXCEPT ![t] = y] /\ raced' = (raced \/ (at = "look" /\ lock # NoLock)) BY <1>2, Zenon
<1> HIDE DEF at
<1>9. at \in Places /\ LookFrom \in Nat BY <1>5, <1>6 DEF Places
<1>10. y \in Calls /\ y.at = at /\ y.next = LookFrom /\ y.stepped = ""
  BY <1>3, <1>4, <1>9, IdleTyped, Zenon DEF Calls, Idle
<1> HIDE DEF y
<1>11. at = "look" => LookFrom \in LookFrom .. LookTo
  <2>1. ~(LookFrom > LookTo) => LookFrom \in LookFrom .. LookTo BY <1>5
  <2> QED BY <2>1, <1>6, Zenon
<1>12. y.at \in {"idle", "look"} /\ (y.at = "look" => y.next \in LookFrom .. LookTo)
  BY <1>6, <1>10, <1>11, Zenon
<1>13. th[t].at \in {"idle", "look"} BY <1>7, Zenon
<1>14. raced \in BOOLEAN /\ errors \in [Names -> Codes] BY <1>1, Zenon DEF TypeInv
<1>15. /\ raced' \in BOOLEAN /\ (raced => raced') /\ (raced' => raced \/ y.at = "look")
       /\ y.at = "look" => raced' \/ lock = NoLock
  BY <1>8, <1>10, <1>14, Zenon
<1>16. errors' = errors /\ errors' \in [Names -> Codes] BY <1>7, <1>14, Zenon
<1> QED BY <1>7, <1>8, <1>10, <1>12, <1>13, <1>15, <1>16, UnlockedKeeps, Zenon

\* Its look into a section does not either, unless a step is under way.
LEMMA LookKeeps ==
  ASSUME ElfStepAssumption, IInv, NEW t \in Threads, Look(t)
  PROVE IInv'
<1>1. TypeInv BY DEF IInv
<1>2. th[t].at = "look" /\ UNCHANGED <<elf, lock, loc_regs, last_error, raced>> BY Zenon DEF Look, At
<1>3. th[t].left \in Int /\ th[t].next \in Nat /\ th[t] \in Calls BY <1>1, CallFacts
<1>4. th[t].next \in LookFrom .. LookTo /\ th[t].stepped = "" BY <1>2, Zenon DEF IInv, CallInv, PlaceInv
<1>5. LookFrom \in Nat \ {0} /\ LookTo \in 0 .. Count /\ Count \in Nat BY <1>1, LookFacts, Zenon
<1>6. raced' \in BOOLEAN /\ (raced => raced') /\ (raced' => raced) /\ (raced' \/ lock = NoLock)
  BY <1>1, <1>2, Zenon DEF TypeInv, IInv, RaceInv
<1>7. errors' \in [Names -> Codes]
  <2>1. "MEMORY_INVALID" \in Codes /\ "ILLEGAL_STATE" \in Codes BY CodesFacts, Zenon
  <2>2. errors \in [Names -> Codes] BY <1>1, Zenon DEF TypeInv
  <2>3. ASSUME NEW code \in {"MEMORY_INVALID", "ILLEGAL_STATE"}
        PROVE [errors EXCEPT ![Current(t)] = code] \in [Names -> Codes]
    BY <2>1, <2>2, Zenon
  <2>4. errors' = errors \/ \E code \in {"MEMORY_INVALID", "ILLEGAL_STATE"} : errors' = [errors EXCEPT ![Current(t)] = code]
    BY Zenon DEF Look
  <2> QED BY <2>2, <2>3, <2>4, Zenon
<1>8. CASE th' = [th EXCEPT ![t] = Idle(th[t].left)]
  <2> DEFINE y == Idle(th[t].left)
  <2>1. y \in Calls /\ y.at = "idle" /\ y.stepped = "" BY <1>3, IdleTyped, Zenon
  <2> HIDE DEF y
  <2>2. th' = [th EXCEPT ![t] = y] BY <1>8 DEF y
  <2>3. y.at \in {"idle", "look"} /\ y.at # "look" BY <2>1, Zenon
  <2> QED BY <1>2, <1>6, <1>7, <2>1, <2>2, <2>3, UnlockedKeeps, Zenon
<1>9. CASE th' = [th EXCEPT ![t] = [th[t] EXCEPT !.next = th[t].next + 1]] /\ th[t].next # LookTo
  <2> DEFINE y == [th[t] EXCEPT !.next = th[t].next + 1]
  <2>1. y \in Calls /\ y.at = th[t].at /\ y.stepped = th[t].stepped /\ y.next = th[t].next + 1
    <3>1. th[t].next + 1 \in Nat BY <1>3
    <3> QED BY <3>1, <1>3, Zenon DEF Calls
  <2> HIDE DEF y
  <2>2. th' = [th EXCEPT ![t] = y] BY <1>9 DEF y
  <2>3. th[t].next + 1 \in LookFrom .. LookTo
    <3>1. th[t].next \in LookFrom .. LookTo /\ th[t].next # LookTo BY <1>4, <1>9, Zenon
    <3> QED BY <1>5, <3>1
  <2>5. y.at = "look" /\ y.stepped = "" /\ y.next \in LookFrom .. LookTo BY <1>2, <1>4, <2>1, <2>3, Zenon
  <2>6. th[t].at \in {"idle", "look"} /\ y.at \in {"idle", "look"} BY <1>2, <2>5, Zenon
  <2> QED BY <1>2, <1>6, <1>7, <2>1, <2>2, <2>5, <2>6, UnlockedKeeps, Zenon
<1>10. \E found \in BOOLEAN :
         th' = [th EXCEPT ![t] = IF found \/ th[t].next = LookTo THEN Idle(th[t].left)
                                 ELSE [th[t] EXCEPT !.next = th[t].next + 1]]
  BY Zenon DEF Look
<1>11. PICK found \in BOOLEAN :
         th' = [th EXCEPT ![t] = IF found \/ th[t].next = LookTo THEN Idle(th[t].left)
                                 ELSE [th[t] EXCEPT !.next = th[t].next + 1]]
  BY <1>10, Zenon
<1>12. CASE found \/ th[t].next = LookTo BY <1>8, <1>11, <1>12, Zenon
<1>13. CASE ~(found \/ th[t].next = LookTo) BY <1>9, <1>11, <1>13, Zenon
<1> QED BY <1>12, <1>13, Zenon

\* IInv depends on vars only.
LEMMA StutterKeeps == ASSUME IInv, UNCHANGED vars PROVE IInv'
<1>1. UNCHANGED elf /\ UNCHANGED lock /\ UNCHANGED loc_regs /\ UNCHANGED errors /\ UNCHANGED last_error
      /\ UNCHANGED th /\ UNCHANGED raced BY DEF vars
<1>2. Names' = Names /\ Calls' = Calls BY <1>1 DEF Names, Calls
<1>3. TypeInv' /\ CacheInv' /\ LockInv' BY <1>1, <1>2, Zenon DEF IInv, TypeInv, CacheInv, LockInv
<1>4. ASSUME NEW u \in Threads PROVE CallInv(u)' BY <1>1, OtherKeeps, Zenon
<1>5. RaceInv' BY <1>1, Zenon DEF IInv, RaceInv, LookFrom, LookTo
<1> QED BY <1>3, <1>4, <1>5, Zenon DEF IInv

\* Every step keeps IInv.
LEMMA NextIInv == ASSUME ElfStepAssumption, IInv, [Next]_vars PROVE IInv'
<1>1. ASSUME NEW t \in Threads, Run(t) PROVE IInv'
  BY <1>1, StepSectionKeeps, FdeFromPcKeeps, EvalKeeps, NextSectionKeeps, AllFailedKeeps, StepExidxKeeps,
     ReturnKeeps, LookKeeps, Zenon DEF Run
<1>2. ASSUME NEW t \in Threads, NEW p \in Pcs, Step(t, p) \/ IsValidPc(t, p) PROVE IInv'
  BY <1>2, StepKeeps, IsValidPcKeeps, Zenon
<1>3. CASE UNCHANGED vars BY <1>3, StutterKeeps
<1> QED BY <1>1, <1>2, <1>3, Zenon DEF Next

\* The invariant of Elf::Step under the lock of the elf
THEOREM Invariance == ASSUME ElfStepAssumption PROVE Spec => []IInv
<1>1. Init => IInv BY InitIInv
<1>2. IInv /\ [Next]_vars => IInv' BY NextIInv
<1> QED BY <1>1, <1>2, PTL DEF Spec

-----------------------------------------------------------------------------
Made(t) == th[t].stepped # ""

\* The sections that failed are a prefix of those of the elf.
LEMMA FirstSteps ==
  ASSUME ElfStepAssumption, IInv, NEW t \in Threads, th[t].at = "done", Made(t)
  PROVE \E n \in 0 .. Len(elf.sections) :
          /\ [k \in DOMAIN th[t].failed |-> th[t].failed[k][1]] = SubSeq(elf.sections, 1, n)
          /\ th[t].stepped = IF n = Len(elf.sections) THEN "exidx" ELSE elf.sections[n + 1]
<1> DEFINE n == th[t].next - 1  f == th[t].failed
<1>1. TypeInv BY DEF IInv
<1>2. /\ Count \in Nat /\ th[t].next \in 1 .. Count + 1 /\ th[t].next \in Nat /\ Len(f) = n
      /\ f \in Seq(Names \X Codes)
  BY HolderFacts
<1>3. \A k \in 1 .. Len(f) : f[k][1] = elf.sections[k] BY HolderFacts
<1>4. elf.sections \in Seq(Names) BY <1>1, ElfFacts, Zenon
<1>5. th[t].stepped = IF n = Count THEN "exidx" ELSE elf.sections[n + 1]
  <2>1. \/ th[t].stepped = "exidx" /\ th[t].next = Count + 1
        \/ th[t].next <= Count /\ th[t].stepped = elf.sections[th[t].next]
    BY HolderFacts, Zenon DEF PlaceInv, Made
  <2> QED BY <1>2, <2>1
<1>6. n \in 0 .. Count BY <1>2
<1>7. DOMAIN f = 1 .. n BY <1>2, LenProperties
<1>8. SubSeq(elf.sections, 1, n) = [k \in 1 .. n |-> elf.sections[k]]
  BY <1>4, <1>6 DEF Count
<1>9. [k \in DOMAIN f |-> f[k][1]] = [k \in 1 .. n |-> elf.sections[k]] BY <1>2, <1>3, <1>7
<1> QED BY <1>5, <1>6, <1>8, <1>9, Zenon DEF Count

\* Where a search raced with a step, there are sections without segments.
LEMMA RacedAreSearched ==
  ASSUME ElfStepAssumption, IInv, raced
  PROVE \E i \in 1 .. Len(elf.sections) : ~IF i <= elf.own THEN elf.pt_loads.elf ELSE elf.pt_loads.gnu
<1>1. TypeInv /\ LookFrom <= LookTo BY Zenon DEF IInv, RaceInv
<1>2. /\ LookFrom \in Nat \ {0} /\ LookTo \in 0 .. Count /\ Count \in Nat /\ elf.own \in Nat
      /\ elf.pt_loads.elf \in BOOLEAN /\ elf.pt_loads.gnu \in BOOLEAN
  BY <1>1, LookFacts, Zenon
<1>3. CASE elf.pt_loads.elf
  <2>1. LookFrom = elf.own + 1 BY <1>3, Zenon DEF LookFrom
  <2>2. ~elf.pt_loads.gnu
    <3>1. ASSUME elf.pt_loads.gnu PROVE FALSE
      <4>1. LookTo = elf.own BY <3>1, Zenon DEF LookTo
      <4> QED BY <1>1, <1>2, <2>1, <4>1
    <3> QED BY <3>1, Zenon
  <2>3. LookFrom \in 1 .. Count /\ ~(LookFrom <= elf.own) BY <1>1, <1>2, <2>1
  <2> QED BY <2>2, <2>3, Zenon DEF Count
<1>4. CASE ~elf.pt_loads.elf
  <2>1. LookFrom = 1 BY <1>4, Zenon DEF LookFrom
  <2>2. 1 \in 1 .. Count BY <1>1, <1>2, <2>1
  <2>3. CASE elf.pt_loads.gnu
    <3>1. LookTo = elf.own BY <2>3, Zenon DEF LookTo
    <3>2. 1 <= elf.own BY <1>1, <1>2, <2>1, <3>1
    <3> QED BY <1>4, <2>2, <3>2, Zenon DEF Count
  <2>4. CASE ~elf.pt_loads.gnu BY <1>4, <2>2, <2>4, Zenon DEF Count
  <2> QED BY <1>2, <2>3, <2>4, Zenon
<1> QED BY <1>2, <1>3, <1>4, Zenon

(***************************************************************************)
(* Elf::Step: a section evaluates the row of the pc, also one from its     *)
(* cache of loc_regs_; the first section that can make the step makes it;  *)
(* a step that failed reports the error of the first section.  The row and *)
(* the error are right unless Elf::IsValidPc searched sections during a    *)
(* step, which takes an elf or a .gnu_debugdata without segments.          *)
(***************************************************************************)
THEOREM StepsCorrect == ASSUME ElfStepAssumption PROVE Spec => []StepRight
<1>1. ASSUME IInv PROVE StepRight
  <2>1. RowOfPc BY <1>1, Zenon DEF RowOfPc, At, IInv, CallInv, RowInv
  <2>2. FirstErrorReported BY <1>1, Zenon DEF FirstErrorReported, At, IInv, CallInv, ErrorInv
  <2>3. MostSpecificFirst BY <1>1, FirstSteps, Zenon DEF MostSpecificFirst, At, Made
  <2>4. SegmentsKeepOut BY <1>1, RacedAreSearched, Zenon DEF SegmentsKeepOut
  <2> QED BY <2>1, <2>2, <2>3, <2>4 DEF StepRight
<1>2. IInv => StepRight BY <1>1
<1> QED BY <1>2, Invariance, PTL

-----------------------------------------------------------------------------
(***************************************************************************)
(* What has been made of the headers in K                                  *)
(***************************************************************************)
SectNames == Headers!Progbits \cup {"dynamic", "build_id"}
IsFirst(T, k) == k \in T /\ \A j \in T : k <= j
IsLast(T, k) == k \in T /\ \A j \in T : j <= k

\* pt_loads_ has the executable segments, by their offset.
ExecLoads(e, K) == {k \in K : e.phdrs[k].type = "load" /\ e.phdrs[k].x}
LastLoads(e, K) ==
  {k \in ExecLoads(e, K) : \A j \in ExecLoads(e, K) : j > k => e.phdrs[j].offset # e.phdrs[k].offset}
LoadsAre(e, K, f) ==
  /\ \A k \in ExecLoads(e, K) : e.phdrs[k].offset \in DOMAIN f
  /\ \A k \in LastLoads(e, K) : f[e.phdrs[k].offset] = [start |-> e.phdrs[k].vaddr, size |-> e.phdrs[k].size]
  /\ \A o \in DOMAIN f : \E k \in LastLoads(e, K) : e.phdrs[k].offset = o
\* The offset of .eh_frame_hdr: the last of the segments, or else the first of
\* the sections that has one.  The offset of .eh_frame: the last section.
HdrSegs(e, K) == {k \in K : e.phdrs[k].type = "eh_frame_hdr"}
Secs(e, M, name) == {k \in M : e.shdrs[k].type = "progbits" /\ e.names /\ e.shdrs[k].name = name}
HdrSecs(e, M) == {k \in Secs(e, M, ".eh_frame_hdr") : e.shdrs[k].offset # 0}
SegIs(e, K, o) ==
  \/ HdrSegs(e, K) = {} /\ o = 0
  \/ \E k : IsLast(HdrSegs(e, K), k) /\ o = e.phdrs[k].offset
SecIs(e, M, o) ==
  \/ HdrSecs(e, M) = {} /\ o = 0
  \/ \E k : IsFirst(HdrSecs(e, M), k) /\ o = e.shdrs[k].offset
HdrIs(e, K, M, h) == \E o : SegIs(e, K, o) /\ IF o # 0 THEN h = o ELSE SecIs(e, M, h)
EhIs(e, M, o) ==
  \/ Secs(e, M, ".eh_frame") = {} /\ o = 0
  \/ \E k : IsLast(Secs(e, M, ".eh_frame"), k) /\ o = e.shdrs[k].offset

\* The headers before the first that cannot be read are those read so far.
LEMMA ReadAll ==
  ASSUME NEW H, NEW headers \in Seq(H), NEW n \in Nat \ {0}, n - 1 <= Len(headers),
         \A j \in 1 .. (n - 1) : headers[j].type # "unreadable",
         ~(n <= Len(headers) /\ headers[n].type # "unreadable")
  PROVE  Headers!Readable(headers) = 1 .. (n - 1)
<1>0. Len(headers) \in Nat /\ DOMAIN headers = 1 .. Len(headers)
  BY LenProperties
<1>1. ASSUME NEW k \in Headers!Readable(headers) PROVE k \in 1 .. (n - 1)
  <2>1. k \in 1 .. Len(headers) /\ \A j \in 1 .. k : headers[j].type # "unreadable"
    BY <1>0 DEF Headers!Readable
  <2>2. ~(n <= k)
    <3>1. SUFFICES ASSUME n <= k PROVE FALSE
      OBVIOUS
    <3>2. n \in 1 .. k /\ n <= Len(headers)
      BY <1>0, <2>1, <3>1
    <3> QED
      BY <2>1, <3>2
  <2> QED
    BY <1>0, <2>1, <2>2
<1>2. ASSUME NEW k \in 1 .. (n - 1) PROVE k \in Headers!Readable(headers)
  <2>1. k \in DOMAIN headers /\ \A j \in 1 .. k : j \in 1 .. (n - 1)
    BY <1>0
  <2> QED
    BY <2>1 DEF Headers!Readable
<1> QED
  BY <1>1, <1>2, Zenon

\* One header more is the last of those that were read.
LEMMA OneMore ==
  ASSUME NEW n \in Nat \ {0}
  PROVE  /\ 1 .. ((n + 1) - 1) = (1 .. (n - 1)) \cup {n}
         /\ \A k \in 1 .. (n - 1) : k \in Nat /\ k < n
  OBVIOUS

\* An executable segment replaces one at the same offset.
LEMMA LoadsGrow ==
  ASSUME NEW e, NEW K, NEW f, NEW n \in Nat, \A k \in K : k \in Nat /\ k < n, LoadsAre(e, K, f),
         NEW g, LET h == e.phdrs[n] IN
                g = IF h.type = "load" /\ h.x THEN Headers!Put(f, h.offset, [start |-> h.vaddr, size |-> h.size]) ELSE f
  PROVE  LoadsAre(e, K \cup {n}, g)
<1> DEFINE h == e.phdrs[n]
           v == [start |-> h.vaddr, size |-> h.size]
           KK == K \cup {n}
<1>1. CASE ~(h.type = "load" /\ h.x)
  <2>1. ExecLoads(e, KK) = ExecLoads(e, K)
    BY <1>1 DEF ExecLoads
  <2>2. LastLoads(e, KK) = LastLoads(e, K)
    BY <2>1, Zenon DEF LastLoads
  <2>3. g = f
    BY <1>1
  <2> QED
    BY <2>1, <2>2, <2>3, Zenon DEF LoadsAre
<1>2. CASE h.type = "load" /\ h.x
  <2>1. g = [o \in DOMAIN f \cup {h.offset} |-> IF o = h.offset THEN v ELSE f[o]]
    BY <1>2 DEF Headers!Put
  <2>2. ExecLoads(e, KK) = ExecLoads(e, K) \cup {n}
    BY <1>2 DEF ExecLoads
  <2>3. \A k \in ExecLoads(e, K) : k \in Nat /\ k < n
    BY DEF ExecLoads
  <2>4. n \in LastLoads(e, KK)
    BY <2>2, <2>3 DEF LastLoads
  <2>5. \A k \in ExecLoads(e, K) :
          k \in LastLoads(e, KK) <=> k \in LastLoads(e, K) /\ e.phdrs[k].offset # h.offset
    BY <2>2, <2>3, Zenon DEF LastLoads
  <2>6. \A k \in LastLoads(e, KK) : k = n \/ (k \in LastLoads(e, K) /\ e.phdrs[k].offset # h.offset)
    BY <2>2, <2>5, Zenon DEF LastLoads
  <2>7. \A k \in LastLoads(e, K) : k \in ExecLoads(e, K)
    BY DEF LastLoads
  <2> HIDE DEF KK, v
  <2>8. DOMAIN g = DOMAIN f \cup {h.offset} /\ g[h.offset] = v
        /\ \A o \in DOMAIN f : o # h.offset => g[o] = f[o]
    BY <2>1
  <2>9. \A k \in ExecLoads(e, KK) : e.phdrs[k].offset \in DOMAIN g
    BY <2>2, <2>8 DEF LoadsAre
  <2>10. ASSUME NEW k \in LastLoads(e, KK)
         PROVE  g[e.phdrs[k].offset] = [start |-> e.phdrs[k].vaddr, size |-> e.phdrs[k].size]
    <3>1. CASE k = n
      BY <2>8, <3>1 DEF v
    <3>2. CASE k \in LastLoads(e, K) /\ e.phdrs[k].offset # h.offset
      BY <2>7, <2>8, <3>2 DEF LoadsAre
    <3> QED
      BY <2>6, <3>1, <3>2
  <2>11. ASSUME NEW o \in DOMAIN g PROVE \E k \in LastLoads(e, KK) : e.phdrs[k].offset = o
    <3>1. CASE o = h.offset
      BY <2>4, <3>1
    <3>2. CASE o # h.offset
      <4>1. o \in DOMAIN f
        BY <2>8, <3>2
      <4>2. PICK k \in LastLoads(e, K) : e.phdrs[k].offset = o
        BY <4>1 DEF LoadsAre
      <4> QED
        BY <2>5, <2>7, <3>2, <4>2
    <3> QED
      BY <3>1, <3>2
  <2> QED
    BY <2>9, <2>10, <2>11, Zenon DEF LoadsAre, KK
<1> QED
  BY <1>1, <1>2

\* The last segment for .eh_frame_hdr counts.
LEMMA SegGrows ==
  ASSUME NEW e, NEW K, NEW n \in Nat, \A k \in K : k \in Nat /\ k < n, NEW o, SegIs(e, K, o), NEW p,
         p = IF e.phdrs[n].type = "eh_frame_hdr" THEN e.phdrs[n].offset ELSE o
  PROVE  SegIs(e, K \cup {n}, p)
<1>1. CASE e.phdrs[n].type = "eh_frame_hdr"
  <2>1. IsLast(HdrSegs(e, K \cup {n}), n)
    BY <1>1 DEF IsLast, HdrSegs
  <2> QED
    BY <1>1, <2>1, Zenon DEF SegIs
<1>2. CASE e.phdrs[n].type # "eh_frame_hdr"
  <2>1. HdrSegs(e, K \cup {n}) = HdrSegs(e, K)
    BY <1>2 DEF HdrSegs
  <2> QED
    BY <1>2, <2>1 DEF SegIs
<1> QED
  BY <1>1, <1>2

\* A section for .eh_frame_hdr counts as long as there is no offset yet.
LEMMA HdrGrows ==
  ASSUME NEW e, NEW K, NEW M, NEW n \in Nat, \A k \in M : k \in Nat /\ k < n, NEW o, HdrIs(e, K, M, o), NEW p,
         LET h == e.shdrs[n]
         IN  p = IF h.type = "progbits" /\ e.names /\ h.name = ".eh_frame_hdr" /\ o = 0 THEN h.offset ELSE o
  PROVE  HdrIs(e, K, M \cup {n}, p)
<1> DEFINE h == e.shdrs[n]
           named == h.type = "progbits" /\ e.names /\ h.name = ".eh_frame_hdr"
           MM == M \cup {n}
<1>1. PICK s : SegIs(e, K, s) /\ IF s # 0 THEN o = s ELSE SecIs(e, M, o)
  BY DEF HdrIs
<1>2. CASE s # 0
  BY <1>1, <1>2 DEF HdrIs
<1>3. CASE s = 0
  <2>1. SecIs(e, M, o)
    BY <1>1, <1>3
  <2>2. HdrSecs(e, MM) = IF named /\ h.offset # 0 THEN HdrSecs(e, M) \cup {n} ELSE HdrSecs(e, M)
    BY DEF HdrSecs, Secs
  <2>3. \A k \in HdrSecs(e, M) : k \in Nat /\ k < n /\ e.shdrs[k].offset # 0
    BY DEF HdrSecs, Secs
  <2>4. SecIs(e, MM, p)
    <3>1. CASE HdrSecs(e, M) = {}
      <4>1. o = 0
        BY <2>1, <3>1 DEF SecIs, IsFirst
      <4>2. CASE named /\ h.offset # 0
        <5>1. IsFirst(HdrSecs(e, MM), n) /\ p = h.offset
          BY <2>2, <3>1, <4>1, <4>2 DEF IsFirst
        <5> QED
          BY <5>1, Zenon DEF SecIs
      <4>3. CASE ~(named /\ h.offset # 0)
        <5>1. HdrSecs(e, MM) = {} /\ p = 0
          BY <2>2, <3>1, <4>1, <4>3
        <5> QED
          BY <5>1, Zenon DEF SecIs
      <4> QED
        BY <4>2, <4>3
    <3>2. CASE HdrSecs(e, M) # {}
      <4>1. PICK k : IsFirst(HdrSecs(e, M), k) /\ o = e.shdrs[k].offset
        BY <2>1, <3>2 DEF SecIs
      <4>2. o # 0 /\ p = o
        BY <2>3, <4>1 DEF IsFirst
      <4>3. IsFirst(HdrSecs(e, MM), k)
        BY <2>2, <2>3, <4>1 DEF IsFirst
      <4> QED
        BY <4>1, <4>2, <4>3 DEF SecIs
    <3> QED
      BY <3>1, <3>2
  <2> QED
    BY <1>1, <1>3, <2>4 DEF HdrIs
<1> QED
  BY <1>2, <1>3

\* The last section .eh_frame counts.
LEMMA EhGrows ==
  ASSUME NEW e, NEW M, NEW n \in Nat, \A k \in M : k \in Nat /\ k < n, NEW o, EhIs(e, M, o), NEW p,
         LET h == e.shdrs[n]
         IN  p = IF h.type = "progbits" /\ e.names /\ h.name = ".eh_frame" THEN h.offset ELSE o
  PROVE  EhIs(e, M \cup {n}, p)
<1> DEFINE h == e.shdrs[n]
           named == h.type = "progbits" /\ e.names /\ h.name = ".eh_frame"
<1>1. CASE named
  <2>1. IsLast(Secs(e, M \cup {n}, ".eh_frame"), n)
    BY <1>1 DEF IsLast, Secs
  <2> QED
    BY <1>1, <2>1, Zenon DEF EhIs
<1>2. CASE ~named
  <2>1. Secs(e, M \cup {n}, ".eh_frame") = Secs(e, M, ".eh_frame")
    BY <1>2 DEF Secs
  <2> QED
    BY <1>2, <2>1, Zenon DEF EhIs
<1> QED
  BY <1>1, <1>2

(***************************************************************************)
(* The inductive invariant                                                 *)
(***************************************************************************)
Phdr == [type : STRING, x : BOOLEAN, offset : Nat, vaddr : Nat, size : Nat]
Shdr == [type : STRING, name : STRING, offset : Nat, size : Nat, addr : Nat, link : Nat]
ReadyPcs == {"gnu", "unpack", "ready"}

HeadersType ==
  /\ hd_elf \in Elfs
  /\ hd_pc \in {"new", "phdrs", "shdrs", "init", "invalid"} \cup ReadyPcs
  /\ hd_i \in Nat \ {0}
  /\ hd_sect \in [SectNames -> [offset : Nat, size : Int]]
  /\ hd_pc # "ready" => Headers!Size \in Nat
  /\ hd_pc \in {"new", "phdrs"} =>
       hd_i - 1 <= Len(hd_elf.phdrs) /\ \A j \in 1 .. (hd_i - 1) : hd_elf.phdrs[j].type # "unreadable"
  /\ hd_pc = "new" => hd_i = 1
  /\ hd_pc = "shdrs" =>
       hd_i - 1 <= Len(hd_elf.shdrs) /\ \A j \in 1 .. (hd_i - 1) : hd_elf.shdrs[j].type # "unreadable"

\* The headers read so far
Read1 == IF hd_pc \in {"new", "phdrs"} THEN 1 .. (hd_i - 1) ELSE Headers!Readable(hd_elf.phdrs)
Read2 == IF hd_pc \in {"new", "phdrs"} THEN {} ELSE IF hd_pc = "shdrs" THEN 1 .. (hd_i - 1) ELSE Headers!Readable(hd_elf.shdrs)

LoadsInv == hd_pc # "invalid" => LoadsAre(hd_elf, Read1, hd_pt_loads)
SectInv ==
  hd_pc \in {"new", "phdrs", "shdrs", "init"} =>
    /\ HdrIs(hd_elf, Read1, Read2, hd_sect[".eh_frame_hdr"].offset)
    /\ EhIs(hd_elf, Read2, hd_sect[".eh_frame"].offset)
HeaderAt(o) == o # 0 /\ o \in hd_elf.inits
FramesInv ==
  hd_pc \in ReadyPcs =>
    /\ \E h, e : /\ HdrIs(hd_elf, Headers!Readable(hd_elf.phdrs), Headers!Readable(hd_elf.shdrs), h)
                 /\ EhIs(hd_elf, Headers!Readable(hd_elf.shdrs), e)
                 /\ hd_eh_frame = IF HeaderAt(h) THEN ".eh_frame_hdr" ELSE IF HeaderAt(e) THEN ".eh_frame" ELSE "none"
    /\ hd_eh_frame = "none" => hd_sect[".eh_frame"].offset = 0 /\ hd_sect[".eh_frame_hdr"].offset = 0
    /\ hd_debug_frame # "none" => hd_sect[".debug_frame"].offset \in hd_elf.inits
UnpackInv ==
  /\ hd_unpack \in [dst : Nat, size : Nat]
  /\ hd_unpack.dst <= hd_unpack.size
  /\ hd_pc = "unpack" => hd_unpack.dst <= hd_elf.xz.total
  /\ hd_gnu = "set" => hd_pc = "ready" /\ hd_unpack.dst = hd_elf.xz.total /\ hd_unpack.size = hd_elf.xz.total
AnswerInv ==
  hd_answer # <<>> =>
    /\ hd_pc = "ready"
    /\ \/ hd_answer[1] = "GetSoname" /\ hd_soname.type # "UNKNOWN" /\ hd_answer = <<"GetSoname", hd_soname.name>>
       \/ hd_answer[1] = "IsValidPc" /\ hd_answer[3] = Headers!IsValidPc(hd_answer[2])
HeadersInv == HeadersType /\ LoadsInv /\ SectInv /\ FramesInv /\ UnpackInv /\ AnswerInv

\* With no header read, nothing is known.
LEMMA NothingRead ==
  ASSUME NEW e
  PROVE  LoadsAre(e, {}, <<>>) /\ SegIs(e, {}, 0) /\ SecIs(e, {}, 0) /\ EhIs(e, {}, 0)
<1>1. ExecLoads(e, {}) = {} /\ LastLoads(e, {}) = {} /\ HdrSegs(e, {}) = {}
  BY DEF ExecLoads, LastLoads, HdrSegs
<1>2. \A name : Secs(e, {}, name) = {}
  BY DEF Secs
<1>3. HdrSecs(e, {}) = {}
  BY <1>2 DEF HdrSecs
<1>4. DOMAIN <<>> = {}
  OBVIOUS
<1> QED
  BY <1>1, <1>2, <1>3, <1>4 DEF LoadsAre, SegIs, SecIs, EhIs

\* Before the sections are read, .eh_frame_hdr is what the segments say.
LEMMA OnlySegments ==
  ASSUME NEW e, NEW K, NEW o
  PROVE  HdrIs(e, K, {}, o) <=> SegIs(e, K, o)
<1>1. SecIs(e, {}, o) <=> o = 0
  <2>1. HdrSecs(e, {}) = {}
    BY DEF HdrSecs, Secs
  <2> QED
    BY <2>1 DEF SecIs, IsFirst
<1>2. ASSUME NEW s, SegIs(e, K, s), IF s # 0 THEN o = s ELSE SecIs(e, {}, o) PROVE o = s
  BY <1>1, <1>2
<1>3. HdrIs(e, K, {}, o) => SegIs(e, K, o)
  BY <1>2 DEF HdrIs
<1>4. SegIs(e, K, o) => HdrIs(e, K, {}, o)
  BY <1>1 DEF HdrIs
<1> QED
  BY <1>3, <1>4

\* A new object has read nothing.
LEMMA HeadersInvInit == Headers!ElfHeadersAssumption /\ Headers!Init => HeadersInv
<1>0. SUFFICES ASSUME Headers!ElfHeadersAssumption, Headers!Init PROVE HeadersInv
  OBVIOUS
<1>1. hd_pc = "new" /\ hd_i = 1 /\ hd_pt_loads = <<>> /\ hd_elf \in Elfs /\ hd_answer = <<>>
      /\ hd_gnu = "none" /\ hd_unpack = [dst |-> 0, size |-> 0]
  BY <1>0, Zenon DEF Headers!Init
<1>2. Read1 = {} /\ Read2 = {}
  <2>1. 1 .. (hd_i - 1) = {}
    BY <1>1
  <2> QED
    BY <1>1, <2>1 DEF Read1, Read2
<1>3. hd_sect = [s \in SectNames |-> Headers!NotSet]
  BY <1>0, Zenon DEF Headers!Init, SectNames
<1>4. hd_sect[".eh_frame_hdr"].offset = 0 /\ hd_sect[".eh_frame"].offset = 0 /\ Headers!Size = 0
      /\ hd_sect \in [SectNames -> [offset : Nat, size : Int]]
  BY <1>3 DEF SectNames, Headers!Progbits, Headers!NotSet, Headers!Size
<1>5. HeadersType
  <2>1. hd_elf.phdrs \in Seq(Phdr)
    BY <1>0, <1>1 DEF Headers!ElfHeadersAssumption, Phdr
  <2>2. Len(hd_elf.phdrs) \in Nat
    BY <2>1, LenProperties
  <2> QED
    BY <1>1, <1>4, <2>2 DEF HeadersType, ReadyPcs
<1>6. LoadsInv
  BY <1>1, <1>2, NothingRead DEF LoadsInv
<1>7. SectInv
  BY <1>1, <1>2, <1>4, NothingRead, OnlySegments DEF SectInv
<1>8. FramesInv
  BY <1>1 DEF FramesInv, ReadyPcs
<1>9. UnpackInv
  BY <1>1 DEF UnpackInv
<1>10. AnswerInv
  BY <1>1 DEF AnswerInv
<1> QED
  BY <1>5, <1>6, <1>7, <1>8, <1>9, <1>10 DEF HeadersInv

\* What is known of the headers of an elf.
LEMMA Typed ==
  ASSUME Headers!ElfHeadersAssumption, HeadersType
  PROVE  /\ hd_elf.phdrs \in Seq(Phdr) /\ hd_elf.shdrs \in Seq(Shdr) /\ hd_elf.xz.total \in Nat
         /\ Len(hd_elf.phdrs) \in Nat /\ Len(hd_elf.shdrs) \in Nat
<1>1. hd_elf.phdrs \in Seq(Phdr) /\ hd_elf.shdrs \in Seq(Shdr) /\ hd_elf.xz.total \in Nat
  BY DEF Headers!ElfHeadersAssumption, HeadersType, Phdr, Shdr
<1> QED
  BY <1>1, LenProperties

\* No step but that of the program headers changes what was read of them.
LEMMA LoadsInvSteps ==
  ASSUME Headers!ElfHeadersAssumption, HeadersType, LoadsInv, [Headers!Next]_(Headers!vars)
  PROVE  LoadsInv'
<1>1. CASE Headers!Create
  <2>1. hd_pc = "new" /\ hd_pc' \in {"phdrs", "invalid"} /\ hd_i' = hd_i /\ hd_elf' = hd_elf /\ hd_pt_loads' = hd_pt_loads
    BY <1>1 DEF Headers!Create
  <2>2. hd_pc' # "invalid" => Read1' = Read1
    BY <2>1 DEF Read1
  <2> QED
    BY <2>1, <2>2 DEF LoadsInv
<1>2. CASE Headers!ReadProgramHeaders
  <2> DEFINE more == hd_i <= Len(hd_elf.phdrs) /\ hd_elf.phdrs[hd_i].type # "unreadable"
  <2>1. hd_pc = "phdrs" /\ hd_elf' = hd_elf /\ LoadsAre(hd_elf, 1 .. (hd_i - 1), hd_pt_loads)
    BY <1>2 DEF Headers!ReadProgramHeaders, LoadsInv, Read1
  <2>2. CASE more
    <3>1. hd_pt_loads' = IF hd_elf.phdrs[hd_i].type = "load" /\ hd_elf.phdrs[hd_i].x
                      THEN Headers!Put(hd_pt_loads, hd_elf.phdrs[hd_i].offset,
                               [start |-> hd_elf.phdrs[hd_i].vaddr, size |-> hd_elf.phdrs[hd_i].size])
                      ELSE hd_pt_loads
      BY <1>2, <2>2, Zenon DEF Headers!ReadProgramHeaders, Headers!ReadProgramHeader, Headers!Load
    <3>2. hd_i' = hd_i + 1 /\ hd_pc' = "phdrs"
      BY <1>2, <2>2, <2>1 DEF Headers!ReadProgramHeaders
    <3>3. hd_i \in Nat /\ hd_i \in Nat \ {0}
      BY DEF HeadersType
    <3>4. \A k \in 1 .. (hd_i - 1) : k \in Nat /\ k < hd_i
      BY <3>3, OneMore
    <3>5. LoadsAre(hd_elf, (1 .. (hd_i - 1)) \cup {hd_i}, hd_pt_loads')
      BY <2>1, <3>1, <3>3, <3>4, LoadsGrow, Zenon
    <3>6. Read1' = (1 .. (hd_i - 1)) \cup {hd_i}
      BY <3>2, <3>3, OneMore DEF Read1
    <3> QED
      BY <2>1, <3>5, <3>6 DEF LoadsInv
  <2>3. CASE ~more
    <3>1. hd_pc' = "shdrs" /\ hd_pt_loads' = hd_pt_loads
      BY <1>2, <2>3 DEF Headers!ReadProgramHeaders
    <3>2. Headers!Readable(hd_elf.phdrs) = 1 .. (hd_i - 1)
      BY <2>1, <2>3, Typed, ReadAll, Zenon DEF HeadersType
    <3>3. Read1' = 1 .. (hd_i - 1)
      BY <2>1, <3>1, <3>2 DEF Read1
    <3> QED
      BY <2>1, <3>1, <3>3 DEF LoadsInv
  <2> QED
    BY <2>2, <2>3
<1>3. ASSUME hd_pc \notin {"new", "phdrs", "invalid"}, hd_pc' \notin {"new", "phdrs"}, hd_elf' = hd_elf, hd_pt_loads' = hd_pt_loads
      PROVE  LoadsInv'
  <2>1. Read1 = Headers!Readable(hd_elf.phdrs) /\ Read1' = Headers!Readable(hd_elf.phdrs)
    BY <1>3 DEF Read1
  <2> QED
    BY <1>3, <2>1 DEF LoadsInv
<1>4. CASE Headers!ReadSectionHeaders
  BY <1>3, <1>4 DEF Headers!ReadSectionHeaders
<1>5. CASE Headers!InitHeaders
  BY <1>3, <1>5 DEF Headers!InitHeaders
<1>6. CASE Headers!CreateGnuDebugdataMemory
  BY <1>3, <1>6 DEF Headers!CreateGnuDebugdataMemory
<1>7. CASE Headers!Unpack
  BY <1>3, <1>7 DEF Headers!Unpack
<1>8. CASE Headers!GetSoname
  BY <1>3, <1>8 DEF Headers!GetSoname
<1>9. ASSUME NEW p \in Pcs, Headers!AskValidPc(p) PROVE LoadsInv'
  BY <1>3, <1>9 DEF Headers!AskValidPc
<1>10. CASE UNCHANGED Headers!vars
  BY <1>10 DEF Headers!vars, LoadsInv, Read1
<1> QED
  BY <1>1, <1>2, <1>4, <1>5, <1>6, <1>7, <1>8, <1>9, <1>10 DEF Headers!Next, Headers!Loading

\* The sections' offsets are those of the headers read so far.
LEMMA SectInvSteps ==
  ASSUME Headers!ElfHeadersAssumption, HeadersType, SectInv, [Headers!Next]_(Headers!vars)
  PROVE  SectInv'
<1> DEFINE hdr == hd_sect[".eh_frame_hdr"].offset
           eh == hd_sect[".eh_frame"].offset
<1>0. hd_i \in Nat /\ hd_i \in Nat \ {0} /\ hd_sect \in [SectNames -> [offset : Nat, size : Int]]
      /\ ".eh_frame_hdr" \in SectNames /\ ".eh_frame" \in SectNames
  BY DEF HeadersType, SectNames, Headers!Progbits
<1>1. CASE Headers!Create
  <2>1. hd_pc = "new" /\ hd_pc' \in {"phdrs", "invalid"} /\ hd_i' = hd_i /\ hd_elf' = hd_elf /\ hd_sect' = hd_sect
    BY <1>1 DEF Headers!Create
  <2>2. hd_pc' # "invalid" => Read1' = Read1 /\ Read2' = Read2
    BY <2>1 DEF Read1, Read2
  <2> QED
    BY <2>1, <2>2 DEF SectInv
<1>2. CASE Headers!ReadProgramHeaders
  <2> DEFINE h == hd_elf.phdrs[hd_i]
             more == hd_i <= Len(hd_elf.phdrs) /\ h.type # "unreadable"
  <2>1. hd_pc = "phdrs" /\ hd_elf' = hd_elf /\ Read1 = 1 .. (hd_i - 1) /\ Read2 = {}
    BY <1>2 DEF Headers!ReadProgramHeaders, Read1, Read2
  <2>2. SegIs(hd_elf, 1 .. (hd_i - 1), hdr) /\ EhIs(hd_elf, {}, eh)
    BY <2>1, OnlySegments DEF SectInv
  <2>3. CASE more
    <3>1. hd_sect' = IF h.type = "eh_frame_hdr" THEN [hd_sect EXCEPT ![".eh_frame_hdr"] = Headers!Section(h.offset, h.size)]
                  ELSE IF h.type = "dynamic" THEN [hd_sect EXCEPT !["dynamic"] = Headers!Section(h.offset, h.size)]
                  ELSE hd_sect
      BY <1>2, <2>3, Zenon DEF Headers!ReadProgramHeaders, Headers!ReadProgramHeader
    <3>2. hd_i' = hd_i + 1 /\ hd_pc' = "phdrs"
      BY <1>2, <2>3, <2>1 DEF Headers!ReadProgramHeaders
    <3>3. hdr' = (IF h.type = "eh_frame_hdr" THEN h.offset ELSE hdr) /\ eh' = eh
      BY <1>0, <3>1 DEF Headers!Section
    <3>4. \A k \in 1 .. (hd_i - 1) : k \in Nat /\ k < hd_i
      BY <1>0, OneMore
    <3> HIDE DEF hdr, eh
    <3>5. SegIs(hd_elf, (1 .. (hd_i - 1)) \cup {hd_i}, hdr')
      BY <1>0, <2>2, <3>3, <3>4, SegGrows, Zenon
    <3>6. Read1' = (1 .. (hd_i - 1)) \cup {hd_i} /\ Read2' = {}
      BY <3>2, <1>0, OneMore DEF Read1, Read2
    <3> QED
      BY <2>1, <2>2, <3>3, <3>5, <3>6, OnlySegments DEF SectInv, hdr, eh
  <2>4. CASE ~more
    <3>1. hd_pc' = "shdrs" /\ hd_sect' = hd_sect /\ hd_i' = 1
      BY <1>2, <2>4 DEF Headers!ReadProgramHeaders
    <3>2. Headers!Readable(hd_elf.phdrs) = 1 .. (hd_i - 1)
      BY <2>1, <2>4, Typed, ReadAll DEF HeadersType
    <3>3. 1 .. (hd_i' - 1) = {}
      BY <3>1
    <3>4. Read1' = 1 .. (hd_i - 1) /\ Read2' = {}
      BY <2>1, <3>1, <3>2, <3>3 DEF Read1, Read2
    <3> QED
      BY <2>1, <2>2, <3>1, <3>4, OnlySegments DEF SectInv
  <2> QED
    BY <2>3, <2>4
<1>3. CASE Headers!ReadSectionHeaders
  <2> DEFINE h == hd_elf.shdrs[hd_i]
             more == hd_i <= Len(hd_elf.shdrs) /\ h.type # "unreadable"
             prog == h.type = "progbits" /\ hd_elf.names
  <2>1. hd_pc = "shdrs" /\ hd_elf' = hd_elf /\ Read1 = Headers!Readable(hd_elf.phdrs) /\ Read2 = 1 .. (hd_i - 1)
    BY <1>3 DEF Headers!ReadSectionHeaders, Read1, Read2
  <2>2. HdrIs(hd_elf, Read1, 1 .. (hd_i - 1), hdr) /\ EhIs(hd_elf, 1 .. (hd_i - 1), eh)
    BY <2>1 DEF SectInv
  <2>3. CASE more
    <3>1. hd_sect' = IF Headers!Taken(h) THEN [hd_sect EXCEPT ![h.name] = Headers!Section(h.offset, h.size)]
                  ELSE IF Headers!Named(h, "note") /\ h.name = ".note.gnu.build-id"
                       THEN [hd_sect EXCEPT !["build_id"] = Headers!Section(h.offset, h.size)]
                  ELSE hd_sect
      BY <1>3, <2>3, Zenon DEF Headers!ReadSectionHeaders, Headers!ReadSectionHeader
    <3>2. hd_i' = hd_i + 1 /\ hd_pc' = "shdrs"
      BY <1>3, <2>3, <2>1 DEF Headers!ReadSectionHeaders
    <3>3. hdr' = IF prog /\ h.name = ".eh_frame_hdr" /\ hdr = 0 THEN h.offset ELSE hdr
      BY <1>0, <3>1 DEF Headers!Section, Headers!Taken, Headers!Named, Headers!Progbits, SectNames
    <3>4. eh' = IF prog /\ h.name = ".eh_frame" THEN h.offset ELSE eh
      BY <1>0, <3>1 DEF Headers!Section, Headers!Taken, Headers!Named, Headers!Progbits, SectNames
    <3>5. \A k \in 1 .. (hd_i - 1) : k \in Nat /\ k < hd_i
      BY <1>0, OneMore
    <3> HIDE DEF hdr, eh
    <3>6. HdrIs(hd_elf, Read1, (1 .. (hd_i - 1)) \cup {hd_i}, hdr')
      BY <1>0, <2>2, <3>3, <3>5, HdrGrows, Zenon
    <3>7. EhIs(hd_elf, (1 .. (hd_i - 1)) \cup {hd_i}, eh')
      BY <1>0, <2>2, <3>4, <3>5, EhGrows, Zenon
    <3>8. Read1' = Read1 /\ Read2' = (1 .. (hd_i - 1)) \cup {hd_i}
      BY <2>1, <3>2, <1>0, OneMore DEF Read1, Read2
    <3> QED
      BY <2>1, <3>6, <3>7, <3>8 DEF SectInv, hdr, eh
  <2>4. CASE ~more
    <3>1. hd_pc' = "init" /\ hd_sect' = hd_sect
      BY <1>3, <2>4 DEF Headers!ReadSectionHeaders
    <3>2. Headers!Readable(hd_elf.shdrs) = 1 .. (hd_i - 1)
      BY <2>1, <2>4, Typed, ReadAll, Zenon DEF HeadersType
    <3>3. Read1' = Read1 /\ Read2' = Read2
      BY <2>1, <3>1, <3>2 DEF Read1, Read2
    <3> QED
      BY <2>1, <2>2, <3>1, <3>3 DEF SectInv
  <2> QED
    BY <2>3, <2>4
<1>4. ASSUME hd_pc' \in ReadyPcs PROVE SectInv'
  BY <1>4 DEF SectInv, ReadyPcs
<1>5. CASE Headers!InitHeaders \/ Headers!CreateGnuDebugdataMemory \/ Headers!Unpack
  <2>1. hd_pc' \in ReadyPcs
    BY <1>5 DEF Headers!InitHeaders, Headers!CreateGnuDebugdataMemory, Headers!Unpack, ReadyPcs
  <2> QED
    BY <2>1, <1>4
<1>6. CASE Headers!GetSoname
  BY <1>6, <1>4 DEF Headers!GetSoname, ReadyPcs
<1>7. ASSUME NEW p \in Pcs, Headers!AskValidPc(p) PROVE SectInv'
  BY <1>7, <1>4 DEF Headers!AskValidPc, ReadyPcs
<1>8. CASE UNCHANGED Headers!vars
  BY <1>8 DEF Headers!vars, SectInv, Read1, Read2
<1> QED
  BY <1>1, <1>2, <1>3, <1>5, <1>6, <1>7, <1>8 DEF Headers!Next, Headers!Loading

\* Each step keeps the types, and reads headers while it can.
LEMMA HeadersTypeSteps ==
  ASSUME Headers!ElfHeadersAssumption, HeadersType, [Headers!Next]_(Headers!vars)
  PROVE  HeadersType'
<1>0. /\ hd_i \in Nat \ {0} /\ hd_sect \in [SectNames -> [offset : Nat, size : Int]] /\ hd_elf \in Elfs
      /\ SectNames = {".debug_frame", ".gnu_debugdata", ".eh_frame", ".eh_frame_hdr", "dynamic", "build_id"}
  BY DEF HeadersType, SectNames, Headers!Progbits
<1>1. ASSUME NEW n \in SectNames, NEW o \in Nat, NEW z \in Nat, Headers!Size \in Nat, hd_sect' = [hd_sect EXCEPT ![n] = Headers!Section(o, z)]
      PROVE  hd_sect' \in [SectNames -> [offset : Nat, size : Int]] /\ Headers!Size' \in Nat
  BY <1>0, <1>1 DEF Headers!Section, Headers!Size
<1>2. CASE Headers!Create
  <2>1. hd_pc = "new" /\ hd_pc' \in {"phdrs", "invalid"} /\ hd_i' = hd_i /\ hd_elf' = hd_elf /\ hd_sect' = hd_sect
    BY <1>2 DEF Headers!Create
  <2> QED
    BY <2>1 DEF HeadersType, Headers!Size, ReadyPcs
<1>3. CASE Headers!ReadProgramHeaders
  <2> DEFINE h == hd_elf.phdrs[hd_i]
             more == hd_i <= Len(hd_elf.phdrs) /\ h.type # "unreadable"
  <2>1. hd_pc = "phdrs" /\ hd_elf' = hd_elf /\ Headers!Size \in Nat
    BY <1>3 DEF Headers!ReadProgramHeaders, HeadersType
  <2>2. CASE more
    <3>1. hd_sect' = IF h.type = "eh_frame_hdr" THEN [hd_sect EXCEPT ![".eh_frame_hdr"] = Headers!Section(h.offset, h.size)]
                  ELSE IF h.type = "dynamic" THEN [hd_sect EXCEPT !["dynamic"] = Headers!Section(h.offset, h.size)]
                  ELSE hd_sect
      BY <1>3, <2>2, Zenon DEF Headers!ReadProgramHeaders, Headers!ReadProgramHeader
    <3>2. hd_i' = hd_i + 1 /\ hd_pc' = "phdrs"
      BY <1>3, <2>2, <2>1 DEF Headers!ReadProgramHeaders
    <3>3. h \in Phdr
      BY <1>0, <2>2, Typed, ElementOfSeq
    <3>4. h.offset \in Nat /\ h.size \in Nat
      BY <3>3 DEF Phdr
    <3>5. hd_sect' \in [SectNames -> [offset : Nat, size : Int]] /\ Headers!Size' \in Nat
      <4>1. CASE h.type = "eh_frame_hdr"
        BY <1>0, <1>1, <2>1, <3>1, <3>4, <4>1, Zenon
      <4>2. CASE h.type = "dynamic"
        BY <1>0, <1>1, <2>1, <3>1, <3>4, <4>2, Zenon
      <4>3. CASE h.type \notin {"eh_frame_hdr", "dynamic"}
        <5>1. hd_sect' = hd_sect
          BY <3>1, <4>3
        <5> QED
          BY <1>0, <2>1, <5>1 DEF Headers!Size
      <4> QED
        BY <4>1, <4>2, <4>3
    <3>6. hd_i' - 1 <= Len(hd_elf.phdrs) /\ \A j \in 1 .. (hd_i' - 1) : hd_elf.phdrs[j].type # "unreadable"
      <4>1. 1 .. (hd_i' - 1) = (1 .. (hd_i - 1)) \cup {hd_i} /\ hd_i' - 1 = hd_i
        BY <1>0, <3>2, OneMore
      <4> QED
        BY <2>1, <2>2, <4>1 DEF HeadersType
    <3> QED
      BY <1>0, <2>1, <3>2, <3>5, <3>6 DEF HeadersType
  <2>3. CASE ~more
    <3>1. hd_pc' = "shdrs" /\ hd_sect' = hd_sect /\ hd_i' = 1
      BY <1>3, <2>3 DEF Headers!ReadProgramHeaders
    <3>2. hd_i' - 1 = 0 /\ 1 .. (hd_i' - 1) = {}
      BY <3>1
    <3> QED
      BY <1>0, <2>1, <3>1, <3>2, Typed DEF HeadersType, Headers!Size
  <2> QED
    BY <2>2, <2>3
<1>4. CASE Headers!ReadSectionHeaders
  <2> DEFINE h == hd_elf.shdrs[hd_i]
             more == hd_i <= Len(hd_elf.shdrs) /\ h.type # "unreadable"
  <2>1. hd_pc = "shdrs" /\ hd_elf' = hd_elf /\ Headers!Size \in Nat
    BY <1>4 DEF Headers!ReadSectionHeaders, HeadersType
  <2>2. CASE more
    <3>1. hd_sect' = IF Headers!Taken(h) THEN [hd_sect EXCEPT ![h.name] = Headers!Section(h.offset, h.size)]
                  ELSE IF Headers!Named(h, "note") /\ h.name = ".note.gnu.build-id"
                       THEN [hd_sect EXCEPT !["build_id"] = Headers!Section(h.offset, h.size)]
                  ELSE hd_sect
      BY <1>4, <2>2, Zenon DEF Headers!ReadSectionHeaders, Headers!ReadSectionHeader
    <3>2. hd_i' = hd_i + 1 /\ hd_pc' = "shdrs"
      BY <1>4, <2>2, <2>1 DEF Headers!ReadSectionHeaders
    <3>3. h \in Shdr
      BY <1>0, <2>2, Typed, ElementOfSeq
    <3>4. h.offset \in Nat /\ h.size \in Nat /\ (Headers!Taken(h) => h.name \in SectNames)
      BY <3>3 DEF Shdr, Headers!Taken, SectNames
    <3>5. hd_sect' \in [SectNames -> [offset : Nat, size : Int]] /\ Headers!Size' \in Nat
      <4> DEFINE note == Headers!Named(h, "note") /\ h.name = ".note.gnu.build-id"
      <4>1. CASE Headers!Taken(h)
        BY <1>0, <1>1, <2>1, <3>1, <3>4, <4>1, Zenon
      <4>2. CASE ~Headers!Taken(h) /\ note
        <5>1. "build_id" \in SectNames /\ hd_sect' = [hd_sect EXCEPT !["build_id"] = Headers!Section(h.offset, h.size)]
          BY <1>0, <3>1, <4>2
        <5> QED
          BY <1>1, <2>1, <3>4, <5>1, ZenonT(30)
      <4>3. CASE ~Headers!Taken(h) /\ ~note
        <5>1. hd_sect' = hd_sect
          BY <3>1, <4>3
        <5> QED
          BY <1>0, <2>1, <5>1 DEF Headers!Size
      <4> QED
        BY <4>1, <4>2, <4>3
    <3>6. hd_i' - 1 <= Len(hd_elf.shdrs) /\ \A j \in 1 .. (hd_i' - 1) : hd_elf.shdrs[j].type # "unreadable"
      <4>1. 1 .. (hd_i' - 1) = (1 .. (hd_i - 1)) \cup {hd_i} /\ hd_i' - 1 = hd_i
        BY <1>0, <3>2, OneMore
      <4> QED
        BY <2>1, <2>2, <4>1 DEF HeadersType
    <3> QED
      BY <1>0, <2>1, <3>2, <3>5, <3>6 DEF HeadersType
  <2>3. CASE ~more
    <3>1. hd_pc' = "init" /\ hd_sect' = hd_sect /\ hd_i' = hd_i
      BY <1>4, <2>3 DEF Headers!ReadSectionHeaders
    <3> QED
      BY <1>0, <2>1, <3>1 DEF HeadersType, Headers!Size
  <2> QED
    BY <2>2, <2>3
<1>5. ASSUME hd_i' = hd_i, hd_elf' = hd_elf, hd_pc' \in ReadyPcs, hd_sect' \in [SectNames -> [offset : Nat, size : Int]],
             hd_pc' # "ready" => Headers!Size' \in Nat
      PROVE  HeadersType'
  BY <1>0, <1>5, Zenon DEF HeadersType, ReadyPcs
<1>6. CASE Headers!InitHeaders
  <2>1. hd_i' = hd_i /\ hd_elf' = hd_elf /\ hd_pc' \in ReadyPcs /\ hd_pc = "init"
    BY <1>6 DEF Headers!InitHeaders, ReadyPcs
  <2>2. DOMAIN hd_sect = SectNames /\ \A s \in SectNames : hd_sect[s] \in [offset : Nat, size : Int]
    BY <1>0
  <2>3. Headers!Failed \in [offset : Nat, size : Int]
    BY DEF Headers!Failed
  <2>4. DOMAIN hd_sect' = SectNames /\ \A s \in SectNames : hd_sect'[s] \in {hd_sect[s], Headers!Failed}
    BY <1>6, <2>2 DEF Headers!InitHeaders
  <2>5. hd_sect'[".gnu_debugdata"] = hd_sect[".gnu_debugdata"]
    BY <1>0, <1>6, <2>2 DEF Headers!InitHeaders
  <2>6. hd_sect' = [s \in SectNames |-> hd_sect'[s]]
    BY <1>6, <2>2 DEF Headers!InitHeaders
  <2>7. hd_sect' \in [SectNames -> [offset : Nat, size : Int]]
    BY <2>2, <2>3, <2>4, <2>6
  <2> QED
    BY <2>1, <2>5, <2>7, <1>5 DEF HeadersType, Headers!Size
<1>7. Headers!GnuFailed \in [SectNames -> [offset : Nat, size : Int]]
  BY <1>0 DEF Headers!GnuFailed, Headers!Failed
<1>8. CASE Headers!CreateGnuDebugdataMemory
  <2>1. hd_i' = hd_i /\ hd_elf' = hd_elf /\ hd_pc = "gnu" /\ hd_pc' \in {"unpack", "ready"} /\ hd_sect' \in {Headers!GnuFailed, hd_sect}
        /\ (hd_pc' # "ready" => hd_sect' = hd_sect)
    BY <1>8 DEF Headers!CreateGnuDebugdataMemory
  <2> QED
    BY <1>0, <1>5, <1>7, <2>1, Zenon DEF HeadersType, Headers!Size, ReadyPcs
<1>9. CASE Headers!Unpack
  <2>1. hd_i' = hd_i /\ hd_elf' = hd_elf /\ hd_pc = "unpack" /\ hd_pc' \in {"unpack", "ready"} /\ hd_sect' \in {Headers!GnuFailed, hd_sect}
        /\ (hd_pc' # "ready" => hd_sect' = hd_sect)
    BY <1>9 DEF Headers!Unpack
  <2> QED
    BY <1>0, <1>5, <1>7, <2>1, Zenon DEF HeadersType, Headers!Size, ReadyPcs
<1>10. CASE Headers!GetSoname
  BY <1>0, <1>5, <1>10 DEF Headers!GetSoname, ReadyPcs
<1>11. ASSUME NEW p \in Pcs, Headers!AskValidPc(p) PROVE HeadersType'
  BY <1>0, <1>5, <1>11 DEF Headers!AskValidPc, ReadyPcs
<1>12. CASE UNCHANGED Headers!vars
  BY <1>12 DEF Headers!vars, HeadersType, Headers!Size
<1> QED
  BY <1>2, <1>3, <1>4, <1>6, <1>8, <1>9, <1>10, <1>11, <1>12 DEF Headers!Next, Headers!Loading

\* The unwind information is chosen once, from all that was read.
LEMMA FramesInvSteps ==
  ASSUME HeadersType, SectInv, FramesInv, [Headers!Next]_(Headers!vars)
  PROVE  FramesInv'
<1>0. hd_sect \in [SectNames -> [offset : Nat, size : Int]]
      /\ SectNames = {".debug_frame", ".gnu_debugdata", ".eh_frame", ".eh_frame_hdr", "dynamic", "build_id"}
  BY DEF HeadersType, SectNames, Headers!Progbits
<1>1. CASE Headers!InitHeaders
  <2> DEFINE h == hd_sect[".eh_frame_hdr"].offset
             e == hd_sect[".eh_frame"].offset
             d == hd_sect[".debug_frame"].offset
  <2>1. hd_pc = "init" /\ hd_elf' = hd_elf
    BY <1>1 DEF Headers!InitHeaders
  <2>2. HdrIs(hd_elf, Headers!Readable(hd_elf.phdrs), Headers!Readable(hd_elf.shdrs), h) /\ EhIs(hd_elf, Headers!Readable(hd_elf.shdrs), e)
    BY <2>1 DEF SectInv, Read1, Read2
  <2>3. hd_eh_frame' = IF HeaderAt(h) THEN ".eh_frame_hdr" ELSE IF HeaderAt(e) THEN ".eh_frame" ELSE "none"
    BY <1>1, Zenon DEF Headers!InitHeaders, Headers!Inits, HeaderAt
  <2>4. hd_debug_frame' = IF HeaderAt(d) THEN ".debug_frame" ELSE "none"
    BY <1>1, Zenon DEF Headers!InitHeaders, Headers!Inits, HeaderAt
  <2>5. hd_sect' = [s \in DOMAIN hd_sect |->
                  IF hd_eh_frame' = "none" /\ s \in {".eh_frame_hdr", ".eh_frame"} THEN Headers!Failed
                  ELSE IF s = ".debug_frame" /\ hd_sect[s].offset # 0 /\ hd_debug_frame' = "none" THEN Headers!Failed
                  ELSE hd_sect[s]]
    BY <1>1, Zenon DEF Headers!InitHeaders
  <2>6. hd_eh_frame' = "none" => hd_sect'[".eh_frame"].offset = 0 /\ hd_sect'[".eh_frame_hdr"].offset = 0
    BY <1>0, <2>5 DEF Headers!Failed
  <2>7. hd_debug_frame' # "none" => hd_sect'[".debug_frame"].offset \in hd_elf.inits
    <3>1. hd_debug_frame' # "none" => hd_sect'[".debug_frame"] = hd_sect[".debug_frame"]
      BY <1>0, <2>5
    <3> QED
      BY <2>4, <3>1 DEF HeaderAt
  <2> HIDE DEF h, e, d
  <2>8. \E hh, ee : /\ HdrIs(hd_elf', Headers!Readable(hd_elf'.phdrs), Headers!Readable(hd_elf'.shdrs), hh)
                    /\ EhIs(hd_elf', Headers!Readable(hd_elf'.shdrs), ee)
                    /\ hd_eh_frame' = IF HeaderAt(hh)' THEN ".eh_frame_hdr" ELSE IF HeaderAt(ee)' THEN ".eh_frame" ELSE "none"
    <3>1. HeaderAt(h) = (h # 0 /\ h \in hd_elf'.inits) /\ HeaderAt(e) = (e # 0 /\ e \in hd_elf'.inits)
      BY <2>1 DEF HeaderAt
    <3>2. /\ HdrIs(hd_elf', Headers!Readable(hd_elf'.phdrs), Headers!Readable(hd_elf'.shdrs), h)
          /\ EhIs(hd_elf', Headers!Readable(hd_elf'.shdrs), e)
      BY <2>1, <2>2
    <3>3. hd_eh_frame' = IF h # 0 /\ h \in hd_elf'.inits THEN ".eh_frame_hdr"
                      ELSE IF e # 0 /\ e \in hd_elf'.inits THEN ".eh_frame" ELSE "none"
      BY <2>3, <3>1, Zenon
    <3> QED
      BY <3>2, <3>3 DEF HeaderAt
  <2> QED
    BY <2>1, <2>6, <2>7, <2>8 DEF FramesInv
<1>2. ASSUME hd_elf' = hd_elf, hd_pc \in ReadyPcs, hd_eh_frame' = hd_eh_frame, hd_debug_frame' = hd_debug_frame,
             \A s \in {".eh_frame", ".eh_frame_hdr", ".debug_frame"} : hd_sect'[s] = hd_sect[s]
      PROVE  FramesInv'
  <2>1. \A o : HeaderAt(o)' = HeaderAt(o)
    BY <1>2 DEF HeaderAt
  <2> QED
    BY <1>2, <2>1 DEF FramesInv, HeaderAt
<1>3. \A s \in {".eh_frame", ".eh_frame_hdr", ".debug_frame"} : Headers!GnuFailed[s] = hd_sect[s]
  BY <1>0 DEF Headers!GnuFailed
<1>4. CASE Headers!CreateGnuDebugdataMemory
  BY <1>2, <1>3, <1>4 DEF Headers!CreateGnuDebugdataMemory, ReadyPcs
<1>5. CASE Headers!Unpack
  <2>1. hd_pc = "unpack" /\ hd_elf' = hd_elf /\ hd_eh_frame' = hd_eh_frame /\ hd_debug_frame' = hd_debug_frame
        /\ hd_sect' \in {Headers!GnuFailed, hd_sect}
    BY <1>5 DEF Headers!Unpack
  <2> QED
    BY <1>2, <1>3, <2>1 DEF ReadyPcs
<1>6. CASE Headers!GetSoname
  BY <1>2, <1>6 DEF Headers!GetSoname, ReadyPcs
<1>7. ASSUME NEW p \in Pcs, Headers!AskValidPc(p) PROVE FramesInv'
  BY <1>2, <1>7 DEF Headers!AskValidPc, ReadyPcs
<1>8. CASE Headers!Create \/ Headers!ReadProgramHeaders \/ Headers!ReadSectionHeaders
  <2>1. hd_pc' \in {"phdrs", "shdrs", "init", "invalid"}
    BY <1>8 DEF Headers!Create, Headers!ReadProgramHeaders, Headers!ReadSectionHeaders
  <2> QED
    BY <2>1 DEF FramesInv, ReadyPcs
<1>9. CASE UNCHANGED Headers!vars
  BY <1>9 DEF Headers!vars, FramesInv, HeaderAt
<1> QED
  BY <1>1, <1>4, <1>5, <1>6, <1>7, <1>8, <1>9 DEF Headers!Next, Headers!Loading

\* The buffer is large enough for what is unpacked into it, and is cut to it.
LEMMA UnpackInvSteps ==
  ASSUME Headers!ElfHeadersAssumption, HeadersType, UnpackInv, [Headers!Next]_(Headers!vars)
  PROVE  UnpackInv'
<1>0. hd_elf.xz.total \in Nat /\ (hd_pc # "ready" => Headers!Size \in Nat)
  BY Typed DEF HeadersType
<1>1. CASE Headers!CreateGnuDebugdataMemory
  <2>1. hd_pc = "gnu" /\ hd_elf' = hd_elf /\ hd_gnu' = hd_gnu /\ hd_unpack' = [dst |-> 0, size |-> 5 * Headers!Size]
    BY <1>1 DEF Headers!CreateGnuDebugdataMemory
  <2>2. 5 * Headers!Size \in Nat
    BY <1>0, <2>1
  <2> QED
    BY <1>0, <2>1, <2>2 DEF UnpackInv
<1>2. CASE Headers!Unpack
  <2> DEFINE size == Headers!Resized(hd_unpack.dst, hd_unpack.size)
             dst == hd_unpack.dst + Headers!Least(size - hd_unpack.dst, hd_elf.xz.total - hd_unpack.dst)
             done == dst = hd_elf.xz.total
  <2>1. /\ hd_pc = "unpack" /\ hd_elf' = hd_elf
        /\ hd_unpack' = [dst |-> dst, size |-> IF done THEN dst ELSE size]
        /\ hd_pc' = IF done THEN "ready" ELSE "unpack"
        /\ hd_gnu' = IF done /\ hd_elf.xz.whole /\ hd_elf.xz.elf THEN "set" ELSE hd_gnu
    BY <1>2, Zenon DEF Headers!Unpack
  <2>2. Headers!Size \in Nat /\ hd_unpack.dst \in Nat /\ hd_unpack.size \in Nat /\ hd_unpack.dst <= hd_unpack.size
        /\ hd_unpack.dst <= hd_elf.xz.total /\ hd_gnu # "set"
    BY <1>0, <2>1 DEF UnpackInv
  <2>3. size \in Nat /\ hd_unpack.dst <= size
    BY <2>2 DEF Headers!Resized
  <2> HIDE DEF size
  <2>4. dst \in Nat /\ dst <= size /\ dst <= hd_elf.xz.total
    BY <1>0, <2>2, <2>3 DEF Headers!Least
  <2> HIDE DEF dst
  <2> QED
    BY <2>1, <2>2, <2>3, <2>4 DEF UnpackInv
<1>3. ASSUME hd_elf' = hd_elf, hd_gnu' = hd_gnu, hd_unpack' = hd_unpack, hd_pc' # "unpack", hd_gnu = "set" => hd_pc' = "ready" PROVE UnpackInv'
  BY <1>3 DEF UnpackInv
<1>4. CASE Headers!Create \/ Headers!ReadProgramHeaders \/ Headers!ReadSectionHeaders \/ Headers!InitHeaders
  <2>1. hd_elf' = hd_elf /\ hd_gnu' = hd_gnu /\ hd_unpack' = hd_unpack
    BY <1>4 DEF Headers!Create, Headers!ReadProgramHeaders, Headers!ReadSectionHeaders, Headers!InitHeaders
  <2>2. hd_pc' # "unpack" /\ hd_pc # "ready"
    BY <1>4 DEF Headers!Create, Headers!ReadProgramHeaders, Headers!ReadSectionHeaders, Headers!InitHeaders
  <2> QED
    BY <1>3, <2>1, <2>2 DEF UnpackInv
<1>5. CASE Headers!GetSoname
  BY <1>3, <1>5 DEF Headers!GetSoname
<1>6. ASSUME NEW p \in Pcs, Headers!AskValidPc(p) PROVE UnpackInv'
  BY <1>3, <1>6 DEF Headers!AskValidPc
<1>7. CASE UNCHANGED Headers!vars
  BY <1>7 DEF Headers!vars, UnpackInv
<1> QED
  BY <1>1, <1>2, <1>4, <1>5, <1>6, <1>7 DEF Headers!Next, Headers!Loading

\* A soname that was read is known, to be there or not.
LEMMA SonameKnown == Headers!SonameRead.type # "UNKNOWN"
<1> DEFINE R == Headers!SonameRead
<1>1. \E n : R = [type |-> "VALID", name |-> n] \/ R = [type |-> "INVALID", name |-> n]
  BY Zenon DEF Headers!SonameRead
<1> QED
  BY <1>1

\* The answer is that of the object as it is.
LEMMA AnswerInvSteps ==
  ASSUME AnswerInv, [Headers!Next]_(Headers!vars)
  PROVE  AnswerInv'
<1>1. CASE Headers!GetSoname
  <2>1. /\ hd_pc' = "ready" /\ hd_answer' = <<"GetSoname", hd_soname'.name>>
        /\ hd_soname' = IF hd_soname.type = "UNKNOWN" THEN Headers!SonameRead ELSE hd_soname
    BY <1>1 DEF Headers!GetSoname
  <2>2. hd_soname'.type # "UNKNOWN"
    BY <2>1, SonameKnown
  <2>3. hd_answer'[1] = "GetSoname"
    BY <2>1
  <2> QED
    BY <2>1, <2>2, <2>3 DEF AnswerInv
<1>2. ASSUME NEW p \in Pcs, Headers!AskValidPc(p) PROVE AnswerInv'
  <2>1. hd_pc' = "ready" /\ hd_answer' = <<"IsValidPc", p, Headers!IsValidPc(p)>>
    BY <1>2 DEF Headers!AskValidPc
  <2>2. hd_answer'[1] = "IsValidPc" /\ hd_answer'[2] = p /\ hd_answer'[3] = Headers!IsValidPc(p)
    BY <2>1
  <2>3. Headers!IsValidPc(p)' = Headers!IsValidPc(p)
    BY <1>2 DEF Headers!AskValidPc, Headers!IsValidPc, Headers!Covers
  <2>4. (Headers!IsValidPc(hd_answer[2]))' = Headers!IsValidPc(p)'
    BY <2>2 DEF Headers!IsValidPc, Headers!Covers
  <2> QED
    BY <2>1, <2>2, <2>3, <2>4 DEF AnswerInv
<1>3. CASE Headers!Loading
  <2>1. hd_pc # "ready" /\ hd_answer' = hd_answer
    BY <1>3 DEF Headers!Loading, Headers!Create, Headers!ReadProgramHeaders, Headers!ReadSectionHeaders, Headers!InitHeaders, Headers!CreateGnuDebugdataMemory, Headers!Unpack
  <2> QED
    BY <2>1 DEF AnswerInv
<1>4. CASE UNCHANGED Headers!vars
  BY <1>4, Zenon DEF Headers!vars, AnswerInv, Headers!IsValidPc, Headers!Covers
<1> QED
  BY <1>1, <1>2, <1>3, <1>4 DEF Headers!Next

\* The first and the last header of a kind are what Min and Max choose.
LEMMA FirstIsMin ==
  ASSUME NEW T, T \subseteq Nat, NEW k, IsFirst(T, k)
  PROVE  k = Headers!Min(T)
<1>1. k \in T /\ \A j \in T : k <= j
  BY DEF IsFirst
<1>2. \A m \in T : (\A j \in T : m <= j) => m = k
  BY <1>1
<1>3. Headers!Min(T) \in T /\ \A j \in T : Headers!Min(T) <= j
  BY <1>1, Zenon DEF Headers!Min
<1> QED
  BY <1>2, <1>3, Zenon

\* The same for the last.
LEMMA LastIsMax ==
  ASSUME NEW T, T \subseteq Nat, NEW k, IsLast(T, k)
  PROVE  k = Headers!Max(T)
<1>1. k \in T /\ \A j \in T : j <= k
  BY DEF IsLast
<1>2. \A m \in T : (\A j \in T : m >= j) => m = k
  BY <1>1
<1>3. \A j \in T : k >= j
  BY <1>1
<1>4. Headers!Max(T) \in T /\ \A j \in T : Headers!Max(T) >= j
  BY <1>1, <1>3, ZenonT(30) DEF Headers!Max
<1> QED
  BY <1>2, <1>4, Zenon

\* FramesFound follows from the invariant.
LEMMA InvFrames == Headers!ElfHeadersAssumption /\ HeadersInv => Headers!FramesFound
<1>0. SUFFICES ASSUME Headers!ElfHeadersAssumption, HeadersInv, hd_pc = "ready" PROVE Headers!FramesFound
  BY DEF Headers!FramesFound
<1> DEFINE K == Headers!Readable(hd_elf.phdrs)
           M == Headers!Readable(hd_elf.shdrs)
           segs == Headers!Segments("eh_frame_hdr")
           secs == {k \in Headers!Sections(".eh_frame_hdr") : hd_elf.shdrs[k].offset # 0}
           ehs == Headers!Sections(".eh_frame")
           hdr == IF segs # {} /\ hd_elf.phdrs[Headers!Max(segs)].offset # 0 THEN Headers!InitsAt(hd_elf.phdrs, Headers!Max(segs))
                  ELSE secs # {} /\ Headers!InitsAt(hd_elf.shdrs, Headers!Min(secs))
           eh == ehs # {} /\ Headers!InitsAt(hd_elf.shdrs, Headers!Max(ehs))
<1>1. PICK h, e : /\ HdrIs(hd_elf, K, M, h) /\ EhIs(hd_elf, M, e)
                  /\ hd_eh_frame = IF HeaderAt(h) THEN ".eh_frame_hdr" ELSE IF HeaderAt(e) THEN ".eh_frame" ELSE "none"
  BY <1>0 DEF HeadersInv, FramesInv, ReadyPcs
<1>2. K \subseteq Nat /\ M \subseteq Nat
  <2>1. hd_elf.phdrs \in Seq(Phdr) /\ hd_elf.shdrs \in Seq(Shdr)
    BY <1>0, Typed DEF HeadersInv
  <2>2. DOMAIN hd_elf.phdrs \subseteq Nat /\ DOMAIN hd_elf.shdrs \subseteq Nat
    BY <2>1, LenProperties
  <2> QED
    BY <2>2 DEF Headers!Readable
<1>3. segs = HdrSegs(hd_elf, K) /\ secs = HdrSecs(hd_elf, M) /\ ehs = Secs(hd_elf, M, ".eh_frame")
  BY DEF Headers!Segments, Headers!Sections, HdrSegs, HdrSecs, Secs
<1>4. segs \subseteq Nat /\ secs \subseteq Nat /\ ehs \subseteq Nat
  BY <1>2 DEF Headers!Segments, Headers!Sections
<1> HIDE DEF segs, secs, ehs, K, M
<1>5. HeaderAt(e) <=> eh
  <2>1. CASE ehs = {} /\ e = 0
    BY <2>1 DEF HeaderAt
  <2>2. ASSUME NEW k, IsLast(ehs, k), e = hd_elf.shdrs[k].offset PROVE HeaderAt(e) <=> eh
    <3>1. k = Headers!Max(ehs) /\ ehs # {}
      BY <1>4, <2>2, LastIsMax DEF IsLast
    <3> QED
      BY <2>2, <3>1 DEF HeaderAt, Headers!InitsAt
  <2> QED
    BY <1>1, <1>3, <2>1, <2>2 DEF EhIs
<1>6. HeaderAt(h) <=> hdr
  <2>1. PICK o : SegIs(hd_elf, K, o) /\ IF o # 0 THEN h = o ELSE SecIs(hd_elf, M, h)
    BY <1>1 DEF HdrIs
  <2>2. /\ segs = {} => o = 0
        /\ segs # {} => o = hd_elf.phdrs[Headers!Max(segs)].offset
    <3>1. CASE segs = {}
      BY <1>3, <2>1, <3>1 DEF SegIs, IsLast
    <3>2. CASE segs # {}
      <4>1. PICK k : IsLast(segs, k) /\ o = hd_elf.phdrs[k].offset
        BY <1>3, <2>1, <3>2 DEF SegIs
      <4>2. k = Headers!Max(segs)
        BY <1>4, <4>1, LastIsMax, Zenon
      <4> QED
        BY <3>2, <4>1, <4>2
    <3> QED
      BY <3>1, <3>2
  <2>3. CASE o # 0
    BY <2>1, <2>2, <2>3 DEF HeaderAt, Headers!InitsAt
  <2>4. CASE o = 0
    <3>1. ~(segs # {} /\ hd_elf.phdrs[Headers!Max(segs)].offset # 0)
      BY <2>2, <2>4
    <3>2. CASE secs = {} /\ h = 0
      BY <3>1, <3>2 DEF HeaderAt
    <3>3. ASSUME NEW k, IsFirst(secs, k), h = hd_elf.shdrs[k].offset PROVE HeaderAt(h) <=> hdr
      <4>1. k = Headers!Min(secs) /\ secs # {}
        BY <1>4, <3>3, FirstIsMin, ZenonT(30) DEF IsFirst
      <4> QED
        BY <3>1, <3>3, <4>1 DEF HeaderAt, Headers!InitsAt
    <3> QED
      BY <1>3, <2>1, <2>4, <3>2, <3>3 DEF SecIs
  <2> QED
    BY <2>3, <2>4
<1>7. hd_eh_frame = IF hdr THEN ".eh_frame_hdr" ELSE IF eh THEN ".eh_frame" ELSE "none"
  BY <1>1, <1>5, <1>6
<1>8. /\ hd_eh_frame = "none" => hd_sect[".eh_frame"].offset = 0 /\ hd_sect[".eh_frame_hdr"].offset = 0
      /\ hd_debug_frame # "none" => hd_sect[".debug_frame"].offset \in hd_elf.inits
  BY <1>0 DEF HeadersInv, FramesInv, ReadyPcs
<1> QED
  BY <1>7, <1>8, Zenon DEF Headers!FramesFound, segs, secs, ehs

\* ValidPcIsMapped follows from the invariant.
LEMMA InvValidPc == HeadersInv => Headers!ValidPcIsMapped
<1> DEFINE K == Headers!Readable(hd_elf.phdrs)
           all == {k \in Headers!Segments("load") : hd_elf.phdrs[k].x}
           loads == {k \in all : \A j \in all : j > k => hd_elf.phdrs[j].offset # hd_elf.phdrs[k].offset}
           mapped(p) == \E k \in loads : hd_elf.phdrs[k].vaddr <= p /\ p < hd_elf.phdrs[k].vaddr + hd_elf.phdrs[k].size
<1>0. SUFFICES ASSUME HeadersInv, hd_answer # <<>>, hd_answer[1] = "IsValidPc", all # {}, hd_gnu = "none"
               PROVE  hd_answer[3] = (mapped(hd_answer[2]) /\ hd_answer[2] >= hd_load_bias)
  BY DEF Headers!ValidPcIsMapped
<1>1. hd_pc = "ready" /\ hd_answer[3] = Headers!IsValidPc(hd_answer[2])
  BY <1>0 DEF HeadersInv, AnswerInv
<1>2. LoadsAre(hd_elf, K, hd_pt_loads)
  BY <1>0, <1>1 DEF HeadersInv, LoadsInv, Read1
<1>3. all = ExecLoads(hd_elf, K) /\ loads = LastLoads(hd_elf, K)
  BY DEF Headers!Segments, ExecLoads, LastLoads
<1> HIDE DEF all, loads, K
<1>4. hd_pt_loads # <<>>
  BY <1>0, <1>2, <1>3 DEF LoadsAre
<1>5. ASSUME NEW p PROVE (\E o \in DOMAIN hd_pt_loads : Headers!InLoad(hd_pt_loads[o], p)) <=> mapped(p)
  <2>1. ASSUME NEW o \in DOMAIN hd_pt_loads, Headers!InLoad(hd_pt_loads[o], p) PROVE mapped(p)
    <3>1. PICK k \in loads : hd_elf.phdrs[k].offset = o
      BY <1>2, <1>3, <2>1 DEF LoadsAre
    <3>2. hd_pt_loads[o] = [start |-> hd_elf.phdrs[k].vaddr, size |-> hd_elf.phdrs[k].size]
      BY <1>2, <1>3, <3>1, ZenonT(30) DEF LoadsAre
    <3> QED
      BY <2>1, <3>2 DEF Headers!InLoad
  <2>2. ASSUME NEW k \in loads, hd_elf.phdrs[k].vaddr <= p, p < hd_elf.phdrs[k].vaddr + hd_elf.phdrs[k].size
        PROVE  \E o \in DOMAIN hd_pt_loads : Headers!InLoad(hd_pt_loads[o], p)
    <3> DEFINE o == hd_elf.phdrs[k].offset
    <3>1. o \in DOMAIN hd_pt_loads /\ hd_pt_loads[o] = [start |-> hd_elf.phdrs[k].vaddr, size |-> hd_elf.phdrs[k].size]
      BY <1>2, <1>3 DEF LoadsAre, LastLoads
    <3>2. Headers!InLoad(hd_pt_loads[o], p)
      BY <2>2, <3>1 DEF Headers!InLoad
    <3> QED
      BY <3>1, <3>2
  <2> QED
    BY <2>1, <2>2
<1>6. Headers!IsValidPc(hd_answer[2]) = (mapped(hd_answer[2]) /\ hd_answer[2] >= hd_load_bias)
  <2>1. hd_gnu # "set"
    BY <1>0
  <2> HIDE DEF mapped
  <2> QED
    BY <1>4, <1>5, <2>1, Zenon DEF Headers!IsValidPc
<1> QED
  BY <1>1, <1>6

\* The invariant holds in every state.
LEMMA HeadersInvAlways == ASSUME Headers!ElfHeadersAssumption PROVE Headers!Spec => []HeadersInv
<1>1. Headers!Init => HeadersInv
  BY HeadersInvInit
<1>2. HeadersInv /\ [Headers!Next]_(Headers!vars) => HeadersInv'
  BY LoadsInvSteps, SectInvSteps, HeadersTypeSteps, FramesInvSteps, UnpackInvSteps, AnswerInvSteps DEF HeadersInv
<1> QED
  BY <1>1, <1>2, PTL DEF Headers!Spec

(***************************************************************************)
(* Whatever headers an elf has, in whatever order and wherever reading     *)
(* them ends: the loader finds the unwind information they name, keeps the *)
(* whole of the unpacked debug data in a buffer that is never overrun, and *)
(* says a pc is valid exactly if an executable segment maps it.            *)
(***************************************************************************)
THEOREM HeadersCorrect ==
  ASSUME Headers!ElfHeadersAssumption
  PROVE  Headers!Spec => [](Headers!FramesFound /\ Headers!DebugdataWhole /\ Headers!ValidPcIsMapped)
<1>1. HeadersInv => Headers!DebugdataWhole
  BY DEF HeadersInv, UnpackInv, Headers!DebugdataWhole
<1>2. HeadersInv => Headers!FramesFound /\ Headers!DebugdataWhole /\ Headers!ValidPcIsMapped
  BY <1>1, InvFrames, InvValidPc
<1> QED
  BY <1>2, HeadersInvAlways, PTL

(***************************************************************************)
(* GetSoname gives every caller the same answer.                           *)
(***************************************************************************)
THEOREM SonameCorrect == ASSUME Headers!ElfHeadersAssumption PROVE Headers!Spec => Headers!SonameStable
<1> DEFINE Stable == hd_answer # <<>> /\ hd_answer' # <<>> /\ hd_answer[1] = "GetSoname" /\ hd_answer'[1] = "GetSoname"
                     => hd_answer' = hd_answer
<1>1. HeadersInv /\ [Headers!Next]_(Headers!vars) => [Stable]_(Headers!vars)
  <2>0. SUFFICES ASSUME HeadersInv, Headers!Next, hd_answer # <<>>, hd_answer[1] = "GetSoname", hd_answer'[1] = "GetSoname"
                 PROVE  hd_answer' = hd_answer
    BY DEF Stable
  <2>1. hd_pc = "ready" /\ hd_soname.type # "UNKNOWN" /\ hd_answer = <<"GetSoname", hd_soname.name>>
    BY <2>0 DEF HeadersInv, AnswerInv
  <2>2. CASE Headers!GetSoname
    BY <2>1, <2>2 DEF Headers!GetSoname
  <2>3. ASSUME NEW p \in Pcs, Headers!AskValidPc(p) PROVE FALSE
    <3>1. hd_answer' = <<"IsValidPc", p, Headers!IsValidPc(p)>>
      BY <2>3 DEF Headers!AskValidPc
    <3> QED
      BY <2>0, <3>1
  <2>4. CASE Headers!Loading
    BY <2>1, <2>4 DEF Headers!Loading, Headers!Create, Headers!ReadProgramHeaders, Headers!ReadSectionHeaders, Headers!InitHeaders, Headers!CreateGnuDebugdataMemory, Headers!Unpack
  <2> QED
    BY <2>0, <2>2, <2>3, <2>4 DEF Headers!Next
<1> QED
  BY <1>1, HeadersInvAlways, PTL DEF Headers!Spec, Headers!SonameStable
=============================================================================
