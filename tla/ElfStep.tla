------------------------------ MODULE ElfStep ------------------------------
(***************************************************************************)
(* Elf::Step and what it calls (ElfInterface::Step, DwarfSection::Step,    *)
(* ElfInterfaceArm::Step): threads that unwind through one elf.  A step    *)
(* tries .debug_frame, .eh_frame, those of .gnu_debugdata and, for arm,    *)
(* the exidx table; a section keeps the rows it has evaluated, by the end  *)
(* of their range, and finds an FDE through an index that it builds as it  *)
(* goes.  JitDebug asks IsValidPc of the same elf without its lock; where  *)
(* that searches a section during a step the two race, and what a section  *)
(* finds and reports from then on is any outcome.                          *)
(*                                                                         *)
(* What a section says of a pc is a row [start, end) of its table, a hole  *)
(* (no FDE), or a row that cannot be evaluated; Eval of a row fails or not *)
(* with the registers and the memory of the process.                       *)
(***************************************************************************)
EXTENDS Integers, Sequences, Functions

CONSTANTS
    Threads,
    Pcs,
    Layouts,      \* the elfs: sections (names, the first own of the elf, then those of .gnu_debugdata), rows by
                  \* section, pt_loads (whether the elf and its .gnu_debugdata have segments), exidx
    MaxCalls      \* bound on the calls of a thread

NoLock == 0

Rows == [start : Int, end : Int, ok : BOOLEAN]

\* The sections of an elf are different and none is the exidx table; the rows of
\* one are not empty and do not overlap.
ElfStepAssumption ==
    /\ NoLock \notin Threads /\ Pcs \subseteq Int /\ MaxCalls \in Nat
    /\ \A e \in Layouts :
         /\ e.sections \in Seq(Range(e.sections)) /\ {"", "exidx"} \cap Range(e.sections) = {}
         /\ e.exidx \in BOOLEAN /\ e.own \in 0 .. Len(e.sections) /\ e.pt_loads \in [elf : BOOLEAN, gnu : BOOLEAN]
         /\ \A i, j \in 1 .. Len(e.sections) : e.sections[i] = e.sections[j] => i = j
         /\ \A s \in Range(e.sections) :
              /\ e.rows[s] \subseteq Rows
              /\ \A r \in e.rows[s] : r.start < r.end
              /\ \A q, r \in e.rows[s] : q # r => q.end <= r.start \/ r.end <= q.start

VARIABLES elf, lock, loc_regs, errors, last_error, th,
          raced         \* IsValidPc has searched a section during a step

vars == <<elf, lock, loc_regs, errors, last_error, th, raced>>

Idle(left) == [at |-> "idle", pc |-> 0, next |-> 0, row |-> <<>>, failed |-> <<>>, stepped |-> "", left |-> left]

Init ==
    /\ elf \in Layouts /\ lock = NoLock
    /\ loc_regs = [s \in Range(elf.sections) |-> {}]
    /\ errors = [s \in Range(elf.sections) |-> "NONE"] /\ last_error = "NONE"
    /\ th = [t \in Threads |-> Idle(MaxCalls)] /\ raced = FALSE

At(t, at) == th[t].at = at
Searching == \E t \in Threads : At(t, "look")
Current(t) == elf.sections[th[t].next]
Set(t, at) == th' = [th EXCEPT ![t].at = at]

\* Mutant: the lock is not taken
StepUnlocked(t, p) ==
    /\ At(t, "idle") /\ th[t].left > 0
    /\ last_error' = "NONE"
    /\ th' = [th EXCEPT ![t] = [Idle(th[t].left - 1) EXCEPT !.at = "section", !.pc = p, !.next = 1]]
    /\ raced' = (raced \/ Searching) /\ UNCHANGED <<elf, lock, loc_regs, errors>>
Step(t, p) ==
    /\ At(t, "idle") /\ th[t].left > 0 /\ lock = NoLock
    /\ lock' = t /\ last_error' = "NONE"
    /\ th' = [th EXCEPT ![t] = [Idle(th[t].left - 1) EXCEPT !.at = "section", !.pc = p, !.next = 1]]
    /\ raced' = (raced \/ Searching) /\ UNCHANGED <<elf, loc_regs, errors>>

\* The row the cache gives: the first one that ends after the pc (mutant: wherever it starts)
UpperBound(s, p) == {r \in loc_regs[s] : r.end > p /\ \A q \in loc_regs[s] : q.end > p => r.end <= q.end}
CachedAnyStart(s, p) == UpperBound(s, p)
Cached(s, p) == {r \in UpperBound(s, p) : r.start <= p}
TableRows(s, p) == {r \in elf.rows[s] : r.start <= p /\ p < r.end}

\* The cache has one row for an end, and keeps the one it has.
Emplace(cache, r) == IF \E q \in cache : q.end = r.end THEN cache ELSE cache \cup {r}
WithEnd(cache, end) == CHOOSE q \in cache : q.end = end

\* The cache, or the FDE: GetFdeFromPc works on the index of the section
StepSection(t) ==
    LET s == Current(t) hit == Cached(s, th[t].pc) IN
    /\ At(t, "section") /\ th[t].next <= Len(elf.sections)
    /\ errors' = IF hit # {} THEN errors ELSE [errors EXCEPT ![s] = "NONE"]
    /\ \/ hit # {} /\ \E r \in hit : th' = [th EXCEPT ![t].at = "eval", ![t].row = <<r>>]
       \/ hit = {} /\ Set(t, "fde")
    /\ UNCHANGED <<elf, lock, loc_regs, last_error, raced>>
FdeFromPc(t) ==
    LET s == Current(t) rows == IF raced THEN elf.rows[s] ELSE TableRows(s, th[t].pc) IN
    /\ At(t, "fde")
    /\ \/ /\ rows = {} \/ raced
          /\ errors' = [errors EXCEPT ![s] = "ILLEGAL_STATE"] /\ Set(t, "failed")
          /\ loc_regs' = loc_regs
       \/ \E r \in rows :
             IF r.ok THEN /\ loc_regs' = [loc_regs EXCEPT ![s] = Emplace(@, r)] /\ errors' = errors
                          /\ th' = [th EXCEPT ![t].at = "eval", ![t].row = <<WithEnd(loc_regs'[s], r.end)>>]
             ELSE errors' = [errors EXCEPT ![s] = "NOT_IMPLEMENTED"] /\ Set(t, "failed") /\ loc_regs' = loc_regs
    /\ UNCHANGED <<elf, lock, last_error, raced>>
Eval(t) ==
    LET s == Current(t) IN
    /\ At(t, "eval")
    /\ \/ errors' = errors /\ th' = [th EXCEPT ![t].at = "done", ![t].stepped = s]
       \/ /\ \E code \in {"MEMORY_INVALID", "ILLEGAL_STATE"} : errors' = [errors EXCEPT ![s] = code]
          /\ Set(t, "failed")
    /\ UNCHANGED <<elf, lock, loc_regs, last_error, raced>>
\* Mutant: a section whose row could not be evaluated leaves the step to the exidx table.
NextSectionExidx(t) ==
    /\ At(t, "failed")
    /\ th' = [th EXCEPT ![t].at = IF elf.exidx /\ th[t].row # <<>> THEN "exidx" ELSE "section", ![t].next = @ + 1,
                        ![t].row = <<>>, ![t].failed = Append(@, <<Current(t), errors[Current(t)]>>)]
    /\ UNCHANGED <<elf, lock, loc_regs, errors, last_error, raced>>
NextSection(t) ==
    /\ At(t, "failed")
    /\ th' = [th EXCEPT ![t].at = "section", ![t].next = @ + 1, ![t].row = <<>>,
                        ![t].failed = Append(@, <<Current(t), errors[Current(t)]>>)]
    /\ UNCHANGED <<elf, lock, loc_regs, errors, last_error, raced>>

External(code) ==
    CASE code = "MEMORY_INVALID" -> "MEMORY_INVALID" [] code = "ILLEGAL_STATE" -> "UNWIND_INFO"
      [] code = "NOT_IMPLEMENTED" -> "UNSUPPORTED" [] code = "NONE" -> "NONE"
\* Mutant: the last section tried
ReportLast == IF elf.sections = <<>> THEN "NONE" ELSE External(errors[elf.sections[Len(elf.sections)]])
Report == IF elf.sections = <<>> THEN "NONE" ELSE External(errors[elf.sections[1]])
\* No section could step: the error of the first, or the exidx table is tried
AllFailed(t) ==
    /\ At(t, "section") /\ th[t].next > Len(elf.sections)
    /\ last_error' = Report
    /\ Set(t, IF elf.exidx THEN "exidx" ELSE "done")
    /\ UNCHANGED <<elf, lock, loc_regs, errors, raced>>
StepExidx(t) ==
    /\ At(t, "exidx")
    /\ \/ last_error' = last_error /\ th' = [th EXCEPT ![t].at = "done", ![t].stepped = "exidx"]
       \/ last_error' \in {"UNWIND_INFO", "MEMORY_INVALID"} /\ Set(t, "done")
    /\ UNCHANGED <<elf, lock, loc_regs, errors, raced>>
\* Mutant: an early return does not give the lock back
ReturnLocked(t) ==
    /\ At(t, "done") /\ lock' = (IF th[t].stepped = "" THEN lock ELSE NoLock)
    /\ th' = [th EXCEPT ![t] = Idle(th[t].left)]
    /\ UNCHANGED <<elf, loc_regs, errors, last_error, raced>>
Return(t) ==
    /\ At(t, "done") /\ lock' = NoLock
    /\ th' = [th EXCEPT ![t] = Idle(th[t].left)]
    /\ UNCHANGED <<elf, loc_regs, errors, last_error, raced>>

\* IsValidPc asks the elf and then its .gnu_debugdata.  One with segments says whether the pc is in them, one
\* without looks for an FDE in its sections; the sections that are searched are those from LookFrom to LookTo.
\* It does not take the lock of the elf; its callers hold the one of JitDebug.
LookFrom == IF elf.pt_loads.elf THEN elf.own + 1 ELSE 1
LookTo == IF elf.pt_loads.gnu THEN elf.own ELSE Len(elf.sections)
LookAt(t, p, from, to) ==
    /\ At(t, "idle") /\ th[t].left > 0 /\ ~Searching
    /\ \E mapped \in {FALSE, elf.pt_loads.elf} :
         LET at == IF mapped \/ from > to THEN "idle" ELSE "look" IN
         /\ th' = [th EXCEPT ![t] = [Idle(th[t].left - 1) EXCEPT !.pc = p, !.next = from, !.at = at]]
         /\ raced' = (raced \/ (at = "look" /\ lock # NoLock))
    /\ UNCHANGED <<elf, lock, loc_regs, errors, last_error>>
\* Mutant: a pc that is in no segment is looked up in the sections.
IsValidPcAnyway(t, p) == LookAt(t, p, 1, LookTo)
IsValidPc(t, p) == LookAt(t, p, LookFrom, LookTo)
\* A search that finds nothing may leave an error in the section.
Look(t) ==
    LET s == Current(t) IN
    /\ At(t, "look")
    /\ \E found \in IF raced THEN BOOLEAN ELSE {TableRows(s, th[t].pc) # {}} :
         /\ th' = [th EXCEPT ![t] = IF found \/ th[t].next = LookTo THEN Idle(th[t].left)
                                    ELSE [th[t] EXCEPT !.next = th[t].next + 1]]
         /\ \/ errors' = errors
            \/ ~found /\ \E code \in {"MEMORY_INVALID", "ILLEGAL_STATE"} : errors' = [errors EXCEPT ![s] = code]
    /\ UNCHANGED <<elf, lock, loc_regs, last_error, raced>>

Run(t) == StepSection(t) \/ FdeFromPc(t) \/ Eval(t) \/ NextSection(t) \/ AllFailed(t) \/ StepExidx(t)
          \/ Return(t) \/ Look(t)
Next == \E t \in Threads : Run(t) \/ \E p \in Pcs : Step(t, p) \/ IsValidPc(t, p)
Spec == Init /\ [][Next]_vars
\* A thread inside a call runs on; the lock is only waited for at the start of one.
FairSpec == Spec /\ \A t \in Threads : WF_vars(Run(t))

(***************************************************************************)
(* A row from the cache is the row of the table for the pc, also at the    *)
(* first pc behind another row, as long as no search has raced with a step.*)
(***************************************************************************)
RowOfPc == ~raced => \A t \in Threads : At(t, "eval") => th[t].row[1] \in TableRows(Current(t), th[t].pc)

(***************************************************************************)
(* A step that failed reports the error of the first section it tried, not *)
(* one of an earlier step, of a search or of a section tried later, as     *)
(* long as no search has raced with a step.                                *)
(***************************************************************************)
FirstErrorReported ==
    ~raced => \A t \in Threads :
        At(t, "done") /\ th[t].stepped = "" /\ ~elf.exidx
            => last_error = IF th[t].failed = <<>> THEN "NONE" ELSE External(th[t].failed[1][2])

(***************************************************************************)
(* The step is made by the first section, in the order of preference, that *)
(* can make it; the exidx table only when all of the DWARF ones could not. *)
(***************************************************************************)
MostSpecificFirst ==
    \A t \in Threads :
        At(t, "done") /\ th[t].stepped # ""
            => \E n \in 0 .. Len(elf.sections) :
                 /\ [k \in DOMAIN th[t].failed |-> th[t].failed[k][1]] = SubSeq(elf.sections, 1, n)
                 /\ th[t].stepped = IF n = Len(elf.sections) THEN "exidx" ELSE elf.sections[n + 1]

(***************************************************************************)
(* IsValidPc races with a step only in an elf some of whose sections are   *)
(* of an interface without segments: the elf or its .gnu_debugdata.        *)
(***************************************************************************)
SegmentsKeepOut ==
    raced => \E i \in 1 .. Len(elf.sections) : ~IF i <= elf.own THEN elf.pt_loads.elf ELSE elf.pt_loads.gnu

(***************************************************************************)
(* A step uses the row of its pc, of the first section that can make it,   *)
(* and one that failed says why the first section could not, unless        *)
(* IsValidPc searched sections without segments during a step.             *)
(***************************************************************************)
StepRight == RowOfPc /\ MostSpecificFirst /\ FirstErrorReported /\ SegmentsKeepOut

(***************************************************************************)
(* Every step ends and gives the lock back.                                *)
(***************************************************************************)
LockGivenBack == \A t \in Threads : lock = t ~> lock # t

=============================================================================
