-------------------------- MODULE Unwinder_proofs --------------------------
(***************************************************************************)
(* Proofs about Unwinder::Unwind for any registers, maps and max_frames_,  *)
(* whatever the unwind steps return:                                       *)
(*   FramesCorrect  the frames are bounded, a cut is reported, names are   *)
(*                  looked up at the address shown, unconfirmed guesses go;*)
(*   RemovesGuesses only a guessed frame is ever taken back.               *)
(* The inductive invariant says how the locals of one iteration (cur) and  *)
(* the flags of the loop go with the last frame.                           *)
(*                                                                         *)
(* Then about the lists of jitted code and of dex files it looks in        *)
(* (Globals): the walk over the maps finds the first library that has the  *)
(* list, and a query finds the first entry that has the pc, whatever was   *)
(* asked before.                                                           *)
(***************************************************************************)
EXTENDS Unwinder, SequenceTheorems, WellFoundedInduction, TLAPS

\* The constants and variables of Globals
CONSTANTS MapLists, SearchLibs, Lists, ListPcs, Infos, MaxCalls
VARIABLES gl_kind, gl_maps, gl_initialized, gl_list, gl_entry, gl_known, gl_files, gl_at, gl_q, gl_answer,
          gl_calls
Gl == INSTANCE Globals WITH
  Pcs <- ListPcs, kind <- gl_kind, maps <- gl_maps, initialized <- gl_initialized, list <- gl_list,
  entry <- gl_entry, known <- gl_known, files <- gl_files, at <- gl_at, q <- gl_q, answer <- gl_answer,
  calls <- gl_calls

Addresses == [rel : BOOLEAN, adjusted : BOOLEAN]
FrameRecords ==
  [dex : BOOLEAN, pc : Pcs, sp : Sps, guess : BOOLEAN, failed : BOOLEAN,
   shown : Addresses, name : Addresses]
Locals ==
  [pc : Pcs, sp : Sps, adjusted : BOOLEAN, step_pc : Addresses, frame : Nat,
   stepped : BOOLEAN, device : BOOLEAN, finished : BOOLEAN]

TypeInv ==
  /\ phase \in {"find", "fill", "step", "tail", "done"}
  /\ pc \in Pcs /\ sp \in Sps /\ dex \in BOOLEAN
  /\ frames \in Seq(FrameRecords)
  /\ error \in {"NONE", "INVALID_MAP", "STEP", "REPEATED_FRAME", "MAX_FRAMES_EXCEEDED"}
  /\ attempt \in BOOLEAN /\ adjust \in BOOLEAN /\ skipping \in BOOLEAN /\ guessed \in BOOLEAN
  /\ cur \in Locals

Last == frames[Len(frames)]

\* There is room for a frame when one is to be added, and from then on the
\* frame of the iteration is the last one; none was added only while skipping.
PlaceInv ==
  /\ Len(frames) <= MaxFrames
  /\ phase = "fill" => Len(frames) < MaxFrames /\ cur.frame = 0
  /\ phase \in {"step", "tail"} => cur.frame = Len(frames)
  /\ phase \in {"fill", "step"} => ~cur.stepped
  /\ skipping /\ phase # "done" => frames = <<>>

\* return_address_attempt is set exactly while the pc is a guess, until the tail
\* of the iteration takes it back, and tells whether the last frame is a guess.
GuessInv ==
  /\ phase \in {"find", "fill"} => (attempt <=> guessed)
  /\ phase = "tail" /\ cur.stepped => ~guessed
  /\ phase \in {"step", "tail"} /\ frames # <<>> => (Last.guess <=> attempt)
  /\ phase # "done" => \A i \in 1..Len(frames) : ~(frames[i].guess /\ frames[i].failed)

\* The last frame shows the address its name is going to be looked up at.
NameInv ==
  /\ \A i \in 1..Len(frames) :
       ~frames[i].dex /\ ~(phase = "tail" /\ i = Len(frames) /\ Map # NoMap)
         => frames[i].name.adjusted = frames[i].shown.adjusted
  /\ phase = "fill" /\ Map # NoMap => cur.step_pc.adjusted = cur.adjusted
  /\ phase \in {"step", "tail"} /\ frames # <<>> /\ Map # NoMap
       => Last.shown.adjusted = cur.step_pc.adjusted

CutInv ==
  error = "MAX_FRAMES_EXCEEDED" => phase \in {"find", "done"} /\ Len(frames) = MaxFrames

IInv == TypeInv /\ PlaceInv /\ GuessInv /\ NameInv /\ CutInv /\ FramesRight

-----------------------------------------------------------------------------
(* What an iteration makes of the frames *)

\* Both updates of the tail change the last frame only.
LEMMA NamedFacts ==
  ASSUME TypeInv, cur.frame = Len(frames)
  PROVE  /\ Named \in Seq(FrameRecords) /\ Len(Named) = Len(frames)
         /\ \A i \in 1..Len(frames) : i < Len(frames) => Named[i] = frames[i]
         /\ \A i \in 1..Len(frames) :
              /\ Named[i].dex = frames[i].dex /\ Named[i].pc = frames[i].pc
              /\ Named[i].guess = frames[i].guess /\ Named[i].failed = frames[i].failed
              /\ Named[i].shown = frames[i].shown
              /\ Named[i].name = IF i = Len(frames) /\ Map # NoMap THEN cur.step_pc
                                                                   ELSE frames[i].name
<1>0. frames \in Seq(FrameRecords) /\ cur.step_pc \in Addresses
  BY DEF TypeInv, Locals
<1>1. Len(frames) \in Nat /\ \A i \in 1..Len(frames) : frames[i] \in FrameRecords
  BY <1>0, LenProperties, ElementOfSeq
<1>2. CASE cur.frame = 0 \/ Map = NoMap
  BY <1>0, <1>1, <1>2 DEF Named
<1>3. CASE ~(cur.frame = 0 \/ Map = NoMap)
  <2> DEFINE n == Len(frames)
             e == [frames[n] EXCEPT !.name = cur.step_pc]
  <2>1. n \in 1..n
    BY <1>1, <1>3
  <2>2. /\ e \in FrameRecords /\ e.name = cur.step_pc /\ e.dex = frames[n].dex
        /\ e.pc = frames[n].pc /\ e.guess = frames[n].guess /\ e.failed = frames[n].failed
        /\ e.shown = frames[n].shown
    BY <1>0, <1>1, <2>1 DEF FrameRecords
  <2>3. Named = [frames EXCEPT ![n] = e]
    BY <1>3 DEF Named
  <2> HIDE DEF e
  <2>4. Named \in Seq(FrameRecords) /\ Len(Named) = n
    BY <1>0, <2>1, <2>2, <2>3, ExceptSeq
  <2>5. \A i \in 1..n : Named[i] = IF i = n THEN e ELSE frames[i]
    BY <1>0, <2>1, <2>2, <2>3, ExceptSeq
  <2> QED
    BY <1>3, <2>2, <2>4, <2>5
<1> QED
  BY <1>2, <1>3

\* Failed marks the last frame and leaves the others.
LEMMA FailedFacts ==
  ASSUME NEW s \in Seq(FrameRecords), cur.frame = Len(s)
  PROVE  /\ Failed(s) \in Seq(FrameRecords) /\ Len(Failed(s)) = Len(s)
         /\ \A i \in 1..Len(s) : i < Len(s) => Failed(s)[i] = s[i]
         /\ \A i \in 1..Len(s) :
              /\ Failed(s)[i].dex = s[i].dex /\ Failed(s)[i].pc = s[i].pc
              /\ Failed(s)[i].guess = s[i].guess
              /\ Failed(s)[i].shown = s[i].shown /\ Failed(s)[i].name = s[i].name
<1>1. Len(s) \in Nat /\ \A i \in 1..Len(s) : s[i] \in FrameRecords
  BY LenProperties, ElementOfSeq
<1>2. CASE cur.frame = 0
  BY <1>1, <1>2, Zenon DEF Failed
<1>3. CASE cur.frame # 0
  <2> DEFINE n == Len(s)
             e == [s[n] EXCEPT !.failed = TRUE]
  <2>1. n \in 1..n
    BY <1>1, <1>3
  <2>2. /\ e \in FrameRecords /\ e.name = s[n].name /\ e.dex = s[n].dex
        /\ e.pc = s[n].pc /\ e.guess = s[n].guess /\ e.shown = s[n].shown
    BY <1>1, <2>1, Zenon DEF FrameRecords
  <2>3. Failed(s) = [s EXCEPT ![n] = e]
    BY <1>3 DEF Failed
  <2> HIDE DEF e
  <2>4. Failed(s) \in Seq(FrameRecords) /\ Len(Failed(s)) = n
    BY <2>1, <2>2, <2>3, ExceptSeq
  <2>5. \A i \in 1..n : Failed(s)[i] = IF i = n THEN e ELSE s[i]
    BY <2>1, <2>2, <2>3, ExceptSeq
  <2> QED
    BY <2>2, <2>4, <2>5
<1> QED
  BY <1>2, <1>3

\* Without the last frame.
LEMMA Shortened ==
  ASSUME NEW s \in Seq(FrameRecords), s # <<>>
  PROVE  /\ SubSeq(s, 1, Len(s) - 1) \in Seq(FrameRecords)
         /\ Len(SubSeq(s, 1, Len(s) - 1)) = Len(s) - 1 /\ Len(s) \in Nat \ {0}
         /\ \A i \in 1..(Len(s) - 1) : SubSeq(s, 1, Len(s) - 1)[i] = s[i]
<1> DEFINE n == Len(s) - 1
           t == SubSeq(s, 1, n)
<1>1. Len(s) \in Nat \ {0} /\ \A i \in 1..n : s[i] \in FrameRecords
  BY EmptySeq, LenProperties, ElementOfSeq
<1>2. n \in Nat
  BY <1>1
<1> HIDE DEF n
<1>3. /\ t \in Seq(FrameRecords) /\ Len(t) = IF 1 <= n THEN n - 1 + 1 ELSE 0
      /\ \A i \in 1..(n - 1 + 1) : t[i] = s[1 + i - 1]
  BY <1>1, <1>2, SubSeqProperties
<1> HIDE DEF t
<1>4. Len(t) = n /\ \A i \in 1..n : t[i] = s[i]
  BY <1>2, <1>3
<1> QED
  BY <1>1, <1>3, <1>4 DEF n, t

\* The type of a new frame
LEMMA FrameTyped ==
  ASSUME TypeInv
  PROVE  /\ Frame \in FrameRecords
         /\ \A d \in Pcs : DexFrame(d) \in FrameRecords /\ DexFrame(d).dex /\ ~DexFrame(d).failed
<1>1. \A x, y \in BOOLEAN : Address(x, y) \in Addresses
  BY DEF Address, Addresses
<1>2. cur.pc \in Pcs /\ cur.sp \in Sps /\ cur.adjusted \in BOOLEAN /\ guessed \in BOOLEAN
  BY DEF TypeInv, Locals
<1>3. Address(Map # NoMap, cur.adjusted) \in Addresses
  BY <1>1, <1>2, Zenon
<1>4. \A d \in Pcs : Address(MapAt[d] # NoMap, FALSE) \in Addresses
  BY <1>1, Zenon
<1>5. Frame \in FrameRecords
  BY <1>2, <1>3 DEF Frame, FrameRecords
<1>6. ASSUME NEW d \in Pcs
      PROVE  DexFrame(d) \in FrameRecords /\ DexFrame(d).dex /\ ~DexFrame(d).failed
  <2>1. Address(MapAt[d] # NoMap, FALSE) \in Addresses
    BY <1>4, Zenon
  <2> QED
    BY <1>2, <2>1, Zenon DEF DexFrame, FrameRecords
<1> QED
  BY <1>5, <1>6

\* The type of the locals of an iteration
LEMMA LocalsTyped ==
  ASSUME NEW p \in Pcs, NEW s \in Sps
  PROVE  NoLocals(p, s) \in Locals
  BY DEF NoLocals, Locals, Address, Addresses

\* FillInDexFrame and FillInFrame.
LEMMA FilledFacts ==
  ASSUME TypeInv, FillFrame
  PROVE  /\ frames' \in Seq(FrameRecords)
         /\ Len(frames') = Len(frames) + IF dex THEN 2 ELSE 1
         /\ \A i \in 1..Len(frames) : frames'[i] = frames[i]
         /\ dex => frames'[Len(frames) + 1].dex /\ ~frames'[Len(frames) + 1].failed
         /\ frames'[Len(frames')] = Frame
<1> DEFINE y == Frame
<1>1. frames \in Seq(FrameRecords) /\ Len(frames) \in Nat /\ y \in FrameRecords
  BY FrameTyped, LenProperties, Zenon DEF TypeInv
<1>2. PICK x \in DexFrames : frames' = frames \o x \o <<y>>
  BY Zenon DEF FillFrame, FillFrameNoRoom
<1> HIDE DEF y
<1>3. PICK s \in Seq(FrameRecords) :
        /\ s = frames \o x
        /\ Len(s) = Len(frames) + IF dex THEN 1 ELSE 0
        /\ \A i \in 1..Len(frames) : s[i] = frames[i]
        /\ dex => s[Len(frames) + 1].dex /\ ~s[Len(frames) + 1].failed
  <2>1. CASE dex
    <3>1. PICK d \in Pcs : x = <<DexFrame(d)>>
      BY <2>1, Zenon DEF DexFrames
    <3> DEFINE f == DexFrame(d)
    <3>2. f \in FrameRecords /\ f.dex /\ ~f.failed
      BY FrameTyped, Zenon
    <3>3. x = <<f>>
      BY <3>1, Zenon
    <3> HIDE DEF f
    <3>4. frames \o x = Append(frames, f)
      BY <1>1, <3>2, <3>3, AppendIsConcat
    <3>5. /\ Append(frames, f) \in Seq(FrameRecords)
          /\ Len(Append(frames, f)) = Len(frames) + 1
          /\ \A i \in 1..Len(frames) : Append(frames, f)[i] = frames[i]
          /\ Append(frames, f)[Len(frames) + 1] = f
      BY <1>1, <3>2, AppendProperties
    <3> QED
      BY <2>1, <3>2, <3>4, <3>5, Zenon
  <2>2. CASE ~dex
    <3>1. x = <<>>
      BY <2>2, Zenon DEF DexFrames
    <3>2. frames \o x = frames
      BY <1>1, <3>1, ConcatEmptySeq
    <3> QED
      BY <1>1, <2>2, <3>2
  <2> QED
    BY <2>1, <2>2
<1>4. frames' = Append(s, y)
  BY <1>1, <1>2, <1>3, AppendIsConcat
<1>5. /\ Append(s, y) \in Seq(FrameRecords) /\ Len(Append(s, y)) = Len(s) + 1
      /\ \A i \in 1..Len(s) : Append(s, y)[i] = s[i]
      /\ Append(s, y)[Len(s) + 1] = y
  BY <1>1, AppendProperties
<1>6. /\ frames' \in Seq(FrameRecords) /\ Len(frames') = Len(s) + 1
      /\ \A i \in 1..Len(s) : frames'[i] = s[i]
      /\ frames'[Len(s) + 1] = y
  BY <1>4, <1>5
<1>7. /\ Len(frames') = Len(frames) + IF dex THEN 2 ELSE 1
      /\ \A i \in 1..Len(frames) : frames'[i] = frames[i]
      /\ dex => frames'[Len(frames) + 1].dex /\ ~frames'[Len(frames) + 1].failed
      /\ frames'[Len(frames')] = y
  BY <1>1, <1>3, <1>6
<1> QED
  BY <1>6, <1>7, Zenon DEF y

-----------------------------------------------------------------------------
(* The invariant is kept *)

\* IInv holds when the loop begins.
LEMMA InitIInv ==
  ASSUME UnwinderAssumption
  PROVE  Init => IInv
<1> SUFFICES ASSUME Init PROVE IInv
  OBVIOUS
<1>1. frames = <<>> /\ Len(frames) = 0 /\ frames \in Seq(FrameRecords)
  BY EmptySeq DEF Init
<1>2. cur = NoLocals(pc, sp) /\ cur \in Locals
  BY LocalsTyped DEF Init
<1>3. TypeInv
  BY <1>1, <1>2, Zenon DEF Init, TypeInv, UnwinderAssumption
<1>4. PlaceInv
  BY <1>1 DEF Init, PlaceInv, UnwinderAssumption
<1>5. GuessInv
  BY <1>1 DEF Init, GuessInv
<1>6. NameInv /\ CutInv
  BY <1>1 DEF Init, NameInv, CutInv
<1>7. FramesRight
  BY <1>1 DEF Init, FramesRight, FramesBounded, CutIsReported, NamedAtShownPc, GuessConfirmed,
     UnwinderAssumption
<1> QED
  BY <1>3, <1>4, <1>5, <1>6, <1>7 DEF IInv

\* The steps that add, change or remove no frame.
LEMMA FindKeeps ==
  ASSUME UnwinderAssumption, IInv, Full \/ FindNoMap \/ ShouldStop \/ FindMap
  PROVE  IInv'
<1>0. /\ TypeInv /\ frames' = frames /\ Len(frames) \in Nat /\ MaxFrames \in Nat
      /\ phase = "find" /\ phase' \in {"fill", "done"}
      /\ UNCHANGED <<pc, sp, dex, attempt, adjust, skipping, guessed>>
  BY LenProperties, Zenon DEF IInv, TypeInv, Full, FindNoMap, ShouldStop, FindMap, UnwinderAssumption
<1>1. CASE Full \/ ShouldStop
  <2>1. phase' = "done" /\ error' = error /\ cur' = cur /\ Map' = Map
    BY <1>1 DEF Full, ShouldStop, Map
  <2>2. TypeInv'
    BY <1>0, <2>1 DEF TypeInv
  <2>3. PlaceInv' /\ GuessInv'
    BY <1>0, <2>1 DEF IInv, PlaceInv, GuessInv
  <2>4. NameInv' /\ CutInv'
    BY <1>0, <2>1 DEF IInv, NameInv, CutInv
  <2>5. FramesRight'
    BY <1>0, <2>1 DEF IInv, GuessInv, CutInv, FramesRight, FramesBounded, CutIsReported,
       NamedAtShownPc, GuessConfirmed
  <2> QED
    BY <2>2, <2>3, <2>4, <2>5 DEF IInv
<1>2. CASE FindNoMap \/ FindMap
  <2>1. /\ phase' = "fill" /\ Len(frames) < MaxFrames
        /\ cur'.frame = 0 /\ ~cur'.stepped /\ cur' \in Locals
        /\ cur'.pc = pc /\ (MapAt[pc] # NoMap => cur'.step_pc.adjusted = cur'.adjusted)
    <3>1. NoLocals(pc, sp) \in Locals
      BY <1>0, LocalsTyped DEF TypeInv
    <3>2. CASE FindNoMap
      BY <3>1, <3>2 DEF FindNoMap, NoLocals
    <3>3. CASE FindMap
      <4>1. PICK a \in BOOLEAN, r \in BOOLEAN :
              cur' = [NoLocals(pc, sp) EXCEPT !.adjusted = a, !.step_pc = Address(r, a)]
        BY <3>3, Zenon DEF FindMap
      <4>2. Address(r, a) \in Addresses /\ Address(r, a).adjusted = a
        BY DEF Address, Addresses
      <4> QED
        BY <3>1, <3>3, <4>1, <4>2, Zenon DEF FindMap, NoLocals, Locals
    <3> QED
      BY <1>2, <3>2, <3>3
  <2>2. error' \in {error, "INVALID_MAP"}
    BY <1>2, Zenon DEF FindNoMap, FindMap
  <2>3. error # "MAX_FRAMES_EXCEEDED"
    BY <1>0, <2>1 DEF IInv, CutInv
  <2>4. TypeInv'
    BY <1>0, <2>1, <2>2 DEF TypeInv
  <2>5. PlaceInv' /\ GuessInv'
    BY <1>0, <2>1 DEF IInv, PlaceInv, GuessInv
  <2>6. NameInv'
    BY <1>0, <2>1 DEF IInv, NameInv, Map
  <2>7. CutInv'
    BY <1>0, <2>2, <2>3 DEF CutInv
  <2>8. FramesRight'
    BY <1>0, <2>1 DEF IInv, PlaceInv, FramesRight, FramesBounded, CutIsReported,
       NamedAtShownPc, GuessConfirmed
  <2> QED
    BY <2>4, <2>5, <2>6, <2>7, <2>8 DEF IInv
<1> QED
  BY <1>1, <1>2

\* Adding the frames of an iteration keeps IInv.
LEMMA FillKeeps ==
  ASSUME UnwinderAssumption, IInv, SkipFrame \/ FillLastDex \/ FillFrame
  PROVE  IInv'
<1>0. /\ TypeInv /\ frames \in Seq(FrameRecords) /\ Len(frames) \in Nat /\ MaxFrames \in Nat
      /\ phase = "fill" /\ Len(frames) < MaxFrames /\ cur.frame = 0 /\ ~cur.stepped
      /\ error # "MAX_FRAMES_EXCEEDED"
      /\ UNCHANGED <<pc, sp, attempt, guessed>>
  BY LenProperties, Zenon DEF IInv, TypeInv, PlaceInv, CutInv, SkipFrame, FillLastDex, FillFrame, FillFrameNoRoom,
     UnwinderAssumption
<1>1. CASE SkipFrame
  <2>1. /\ phase' = "step" /\ UNCHANGED <<frames, error, dex, skipping, cur>> /\ Map' = Map
        /\ frames = <<>> /\ Len(frames) = 0 /\ adjust' = TRUE
    BY <1>1, EmptySeq DEF SkipFrame, IInv, PlaceInv, Map
  <2>2. TypeInv'
    BY <1>0, <2>1 DEF TypeInv
  <2>3. PlaceInv' /\ GuessInv'
    BY <1>0, <2>1 DEF IInv, PlaceInv, GuessInv
  <2>4. NameInv' /\ CutInv'
    BY <1>0, <2>1 DEF IInv, NameInv, CutInv
  <2>5. FramesRight'
    BY <1>0, <2>1 DEF FramesRight, FramesBounded, CutIsReported, NamedAtShownPc, GuessConfirmed
  <2> QED
    BY <2>2, <2>3, <2>4, <2>5 DEF IInv
<1>2. CASE FillLastDex
  <2>0. PICK d \in Pcs : frames' = frames \o <<DexFrame(d)>>
    BY <1>2, Zenon DEF FillLastDex, DexFrames
  <2> DEFINE x == DexFrame(d)
  <2>1. x \in FrameRecords /\ x.dex /\ ~x.failed
    BY <1>0, FrameTyped, Zenon
  <2> HIDE DEF x
  <2>2. /\ phase' = "done" /\ frames' = Append(frames, x) /\ Len(frames) + 1 = MaxFrames
        /\ UNCHANGED <<adjust, skipping, cur>> /\ Map' = Map
        /\ dex' = FALSE /\ error' = "MAX_FRAMES_EXCEEDED"
    <3>1. frames' = frames \o <<x>>
      BY <2>0, Zenon DEF x
    <3>2. frames' = Append(frames, x)
      BY <1>0, <2>1, <3>1, AppendIsConcat
    <3> QED
      BY <1>2, <3>2, Zenon DEF FillLastDex, Map
  <2>3. /\ frames' \in Seq(FrameRecords) /\ Len(frames') = MaxFrames
        /\ \A i \in 1..Len(frames) : frames'[i] = frames[i]
        /\ frames'[MaxFrames] = x
    BY <1>0, <2>1, <2>2, AppendProperties
  <2>5. TypeInv'
    BY <1>0, <2>2, <2>3, Zenon DEF TypeInv
  <2>6. PlaceInv' /\ GuessInv' /\ CutInv'
    BY <1>0, <2>2, <2>3 DEF PlaceInv, GuessInv, CutInv
  <2>7. NameInv'
    BY <1>0, <2>1, <2>2, <2>3 DEF IInv, NameInv
  <2>8. FramesRight'
    BY <1>0, <2>1, <2>2, <2>3 DEF IInv, NameInv, GuessInv, FramesRight, FramesBounded, CutIsReported,
       NamedAtShownPc, GuessConfirmed
  <2> QED
    BY <2>5, <2>6, <2>7, <2>8 DEF IInv
<1>3. CASE FillFrame
  <2> DEFINE y == Frame
             n == Len(frames')
  <2>1. /\ frames' \in Seq(FrameRecords)
        /\ n = Len(frames) + (IF dex THEN 2 ELSE 1)
        /\ \A i \in 1..Len(frames) : frames'[i] = frames[i]
        /\ dex => frames'[Len(frames) + 1].dex /\ ~frames'[Len(frames) + 1].failed
        /\ frames'[n] = y
    BY <1>0, <1>3, FilledFacts, Zenon
  <2>2. /\ ~y.failed /\ (y.guess <=> guessed) /\ y.name = y.shown
        /\ y.shown.adjusted = cur.adjusted
    BY DEF Frame, Address
  <2>3. dex => frames'[Len(frames) + 1].dex /\ ~frames'[Len(frames) + 1].failed
    BY <2>1, Zenon
  <2>4. /\ phase' = "step" /\ cur' = [cur EXCEPT !.frame = n]
        /\ dex' = FALSE /\ skipping' = FALSE /\ adjust' = TRUE /\ error' = error
        /\ ~(dex /\ Len(frames) + 1 = MaxFrames)
    BY <1>3 DEF FillFrame, FillFrameNoRoom
  <2> HIDE DEF y
  <2>5. n \in Nat \ {0} /\ n <= MaxFrames /\ frames' # <<>>
    BY <1>0, <2>1, <2>4, EmptySeq
  <2>6. \A i \in 1..n : i <= Len(frames) \/ (i = n) \/ (dex /\ i = Len(frames) + 1)
    BY <1>0, <2>1
  <2>7. /\ cur' \in Locals /\ cur'.frame = n /\ ~cur'.stepped /\ cur'.step_pc = cur.step_pc
        /\ cur'.pc = cur.pc /\ Map' = Map
    BY <1>0, <2>4, <2>5 DEF TypeInv, Locals, Map
  <2>8. Last' = y
    BY <2>1 DEF Last
  <2> HIDE DEF n
  <2>9. TypeInv'
    BY <1>0, <2>1, <2>4, <2>7, Zenon DEF TypeInv
  <2>10. PlaceInv'
    BY <1>0, <2>4, <2>5, <2>7 DEF PlaceInv, n
  <2>11. GuessInv'
    <3>1. (Last.guess <=> attempt)'
      BY <1>0, <2>2, <2>8 DEF IInv, GuessInv
    <3>2. \A i \in 1..n : ~(frames'[i].guess /\ frames'[i].failed)
      BY <1>0, <2>1, <2>2, <2>3, <2>6 DEF IInv, GuessInv
    <3> QED
      BY <2>4, <3>1, <3>2 DEF GuessInv, n
  <2>12. \A i \in 1..n : ~frames'[i].dex => frames'[i].name.adjusted = frames'[i].shown.adjusted
    BY <1>0, <2>1, <2>2, <2>3, <2>6 DEF IInv, NameInv
  <2>13. NameInv'
    BY <1>0, <2>2, <2>4, <2>7, <2>8, <2>12 DEF IInv, NameInv, n
  <2>14. CutInv'
    BY <1>0, <2>4 DEF CutInv
  <2>15. FramesRight'
    BY <2>4, <2>5 DEF FramesRight, FramesBounded, CutIsReported, NamedAtShownPc, GuessConfirmed, n
  <2> QED
    BY <2>9, <2>10, <2>11, <2>13, <2>14, <2>15 DEF IInv
<1> QED
  BY <1>1, <1>2, <1>3

\* Fixing up the pc of the frame of a signal trampoline.
LEMMA SignalFacts ==
  ASSUME TypeInv, frames # <<>>, cur.frame = Len(frames),
         frames' = [frames EXCEPT ![cur.frame].shown.adjusted = FALSE]
  PROVE  /\ frames' \in Seq(FrameRecords) /\ Len(frames') = Len(frames)
         /\ \A i \in 1..Len(frames) : i # Len(frames) => frames'[i] = frames[i]
         /\ ~frames'[Len(frames)].shown.adjusted
         /\ frames'[Len(frames)].guess = frames[Len(frames)].guess
         /\ frames'[Len(frames)].failed = frames[Len(frames)].failed
<1> DEFINE n == Len(frames)
           e == [frames[n] EXCEPT !.shown.adjusted = FALSE]
<1>0. frames \in Seq(FrameRecords) /\ n \in 1..n
  BY EmptySeq DEF TypeInv
<1>1. frames[n] \in FrameRecords
  BY <1>0, ElementOfSeq
<1>2. /\ e \in FrameRecords /\ ~e.shown.adjusted
      /\ e.guess = frames[n].guess /\ e.failed = frames[n].failed
  BY <1>1, Zenon DEF FrameRecords, Addresses
<1>3. frames' = [frames EXCEPT ![n] = e]
  BY <1>1 DEF FrameRecords
<1> HIDE DEF e
<1> DEFINE f == [frames EXCEPT ![n] = e]
<1>4. f \in Seq(FrameRecords) /\ Len(f) = n
  BY <1>0, <1>2, ExceptSeq
<1>5. \A i \in 1..n : f[i] = IF i = n THEN e ELSE frames[i]
  BY <1>0, <1>2, ExceptSeq
<1> HIDE DEF f
<1>6. frames' = f
  BY <1>3, Zenon DEF f
<1> QED
  BY <1>0, <1>2, <1>4, <1>5, <1>6, Zenon

\* Stepping keeps IInv.
LEMMA StepKeeps ==
  ASSUME UnwinderAssumption, IInv, StepNot \/ StepSignal \/ Step \/ StepFails
  PROVE  IInv'
<1>0. /\ TypeInv /\ frames \in Seq(FrameRecords) /\ Len(frames) \in Nat /\ MaxFrames \in Nat
      /\ phase = "step" /\ phase' = "tail" /\ cur.frame = Len(frames) /\ ~cur.stepped
      /\ error # "MAX_FRAMES_EXCEEDED"
      /\ UNCHANGED <<attempt, adjust, skipping>>
  BY LenProperties, Zenon DEF IInv, TypeInv, PlaceInv, CutInv, StepNot, StepSignal, Step, StepFails,
     UnwinderAssumption
<1>1. CASE UNCHANGED <<frames, guessed>> /\ (\E d \in BOOLEAN : cur' = [cur EXCEPT !.device = d])
           /\ pc' \in Pcs /\ sp' \in Sps /\ dex' \in BOOLEAN
           /\ error' \in {error, "NONE", "STEP"}
  <2>1. /\ cur' \in Locals /\ cur'.frame = cur.frame /\ ~cur'.stepped
        /\ cur'.step_pc = cur.step_pc /\ cur'.pc = cur.pc /\ Map' = Map
    BY <1>0, <1>1 DEF TypeInv, Locals, Map
  <2>2. TypeInv'
    BY <1>0, <1>1, <2>1, Zenon DEF TypeInv
  <2>3. PlaceInv'
    BY <1>0, <1>1, <2>1 DEF IInv, PlaceInv
  <2>4. GuessInv'
    BY <1>0, <1>1, <2>1 DEF IInv, GuessInv, Last
  <2>5. NameInv'
    BY <1>0, <1>1, <2>1 DEF IInv, NameInv, Last
  <2>6. CutInv' /\ FramesRight'
    BY <1>0, <1>1 DEF IInv, PlaceInv, CutInv, FramesRight, FramesBounded, CutIsReported,
       NamedAtShownPc, GuessConfirmed
  <2> QED
    BY <2>2, <2>3, <2>4, <2>5, <2>6 DEF IInv
<1>2. CASE /\ UNCHANGED frames /\ cur' \in Locals /\ cur'.frame = cur.frame /\ cur'.pc = cur.pc
           /\ cur'.step_pc = cur.step_pc
           /\ pc' \in Pcs /\ sp' \in Sps /\ dex' \in BOOLEAN /\ guessed' = FALSE
           /\ error' \in {"NONE", "STEP"}
  <2>1. Map' = Map
    BY <1>2 DEF Map
  <2>2. TypeInv'
    BY <1>0, <1>2, Zenon DEF TypeInv
  <2>3. PlaceInv'
    BY <1>0, <1>2 DEF IInv, PlaceInv
  <2>4. GuessInv'
    BY <1>0, <1>2 DEF IInv, GuessInv, Last
  <2>5. NameInv'
    BY <1>0, <1>2, <2>1 DEF IInv, NameInv, Last
  <2>6. CutInv' /\ FramesRight'
    BY <1>0, <1>2 DEF IInv, PlaceInv, CutInv, FramesRight, FramesBounded, CutIsReported,
       NamedAtShownPc, GuessConfirmed
  <2> QED
    BY <2>2, <2>3, <2>4, <2>5, <2>6 DEF IInv
<1>3. CASE StepSignal /\ cur.frame # 0
  <2>1. /\ pc' \in Pcs /\ sp' \in Sps /\ dex' = dex /\ guessed' = FALSE
        /\ error' \in {"NONE", "STEP"}
        /\ cur' = [cur EXCEPT !.stepped = TRUE, !.step_pc = Address(TRUE, FALSE)]
        /\ frames' = [frames EXCEPT ![cur.frame].shown.adjusted = FALSE]
    BY <1>3 DEF StepSignal
  <2>2. Address(TRUE, FALSE) \in Addresses /\ ~Address(TRUE, FALSE).adjusted
    BY DEF Address, Addresses
  <2>3. /\ cur' \in Locals /\ cur'.frame = cur.frame /\ cur'.pc = cur.pc
        /\ ~cur'.step_pc.adjusted /\ cur'.step_pc.adjusted \in BOOLEAN
    BY <1>0, <2>1, <2>2, Zenon DEF TypeInv, Locals, Addresses
  <2>4. Map' = Map
    BY <2>3 DEF Map
  <2>5. frames # <<>>
    BY <1>0, <1>3, EmptySeq
  <2>6. /\ frames' \in Seq(FrameRecords) /\ Len(frames') = Len(frames)
        /\ \A i \in 1..Len(frames) : i # Len(frames) => frames'[i] = frames[i]
        /\ ~frames'[Len(frames)].shown.adjusted
        /\ frames'[Len(frames)].guess = frames[Len(frames)].guess
        /\ frames'[Len(frames)].failed = frames[Len(frames)].failed
    BY <1>0, <2>1, <2>5, SignalFacts
  <2>7. frames'[Len(frames)].shown.adjusted \in BOOLEAN /\ Len(frames) \in 1..Len(frames)
    <3>1. Len(frames) \in 1..Len(frames')
      BY <1>0, <1>3, <2>6
    <3>2. frames'[Len(frames)] \in FrameRecords
      BY <2>6, <3>1, ElementOfSeq
    <3> QED
      BY <2>6, <3>1, <3>2 DEF FrameRecords, Addresses
  <2>8. TypeInv'
    BY <1>0, <2>1, <2>3, <2>6, Zenon DEF TypeInv
  <2>9. PlaceInv'
    BY <1>0, <1>3, <2>3, <2>5, <2>6 DEF IInv, PlaceInv
  <2>10. GuessInv'
    BY <1>0, <2>1, <2>5, <2>6, <2>7 DEF IInv, GuessInv, Last
  <2>11. NameInv'
    <3>1. Map # NoMap
      BY <1>3 DEF StepSignal
    <3> QED
      BY <1>0, <2>3, <2>4, <2>6, <2>7, <3>1 DEF IInv, NameInv, Last
  <2>12. CutInv' /\ FramesRight'
    BY <1>0, <2>1, <2>6 DEF IInv, PlaceInv, CutInv, FramesRight, FramesBounded, CutIsReported,
       NamedAtShownPc, GuessConfirmed
  <2> QED
    BY <2>8, <2>9, <2>10, <2>11, <2>12 DEF IInv
<1>4. CASE StepNot \/ StepFails
  <2>1. [cur EXCEPT !.device = cur.device] = cur /\ cur.device \in BOOLEAN
    BY <1>0 DEF TypeInv, Locals
  <2>2. \E d \in BOOLEAN : cur' = [cur EXCEPT !.device = d]
    BY <1>4, <2>1, Zenon DEF StepNot, StepFails
  <2>3. /\ pc' \in Pcs /\ sp' \in Sps /\ dex' \in BOOLEAN
        /\ error' \in {error, "NONE", "STEP"} /\ UNCHANGED <<frames, guessed>>
    BY <1>0, <1>4, Zenon DEF StepNot, StepFails, TypeInv
  <2> QED
    BY <1>1, <2>2, <2>3, Zenon
<1>5. CASE StepSignal /\ cur.frame = 0
  <2>1. cur' = [cur EXCEPT !.stepped = TRUE] /\ UNCHANGED frames
    BY <1>5 DEF StepSignal
  <2>2. cur' \in Locals /\ cur'.frame = cur.frame /\ cur'.pc = cur.pc /\ cur'.step_pc = cur.step_pc
    BY <1>0, <2>1, Zenon DEF TypeInv, Locals
  <2> QED
    BY <1>0, <1>2, <1>5, <2>1, <2>2, Zenon DEF StepSignal, TypeInv
<1>6. CASE Step
  <2>1. PICK fin \in BOOLEAN : cur' = [cur EXCEPT !.stepped = TRUE, !.finished = fin]
    BY <1>6, Zenon DEF Step
  <2>2. cur' \in Locals /\ cur'.frame = cur.frame /\ cur'.pc = cur.pc /\ cur'.step_pc = cur.step_pc
    BY <1>0, <2>1, Zenon DEF TypeInv, Locals
  <2> QED
    BY <1>2, <1>6, <2>2, Zenon DEF Step
<1> QED
  BY <1>3, <1>4, <1>5, <1>6

\* The decisions at the end of an iteration keep IInv.
LEMMA TailKeeps ==
  ASSUME UnwinderAssumption, IInv, Finished \/ Stepped \/ GiveUp \/ Stop \/ Guess
  PROVE  IInv'
<1> DEFINE n == Len(frames)
<1>0. /\ TypeInv /\ frames \in Seq(FrameRecords) /\ n \in Nat /\ MaxFrames \in Nat
      /\ phase = "tail" /\ cur.frame = n /\ n <= MaxFrames
      /\ error # "MAX_FRAMES_EXCEEDED"
      /\ UNCHANGED <<sp, dex, adjust, skipping, cur>>
      /\ phase' \in {"find", "done"}
  BY LenProperties DEF IInv, TypeInv, PlaceInv, CutInv, Finished, Stepped, GiveUp, Stop, Guess,
     UnwinderAssumption
\* What the name of the last frame is looked up at.
<1>1. /\ Named \in Seq(FrameRecords) /\ Len(Named) = n
      /\ \A i \in 1..n :
           /\ Named[i].dex = frames[i].dex /\ Named[i].pc = frames[i].pc
           /\ Named[i].guess = frames[i].guess /\ Named[i].failed = frames[i].failed
           /\ ~Named[i].dex => Named[i].name.adjusted = Named[i].shown.adjusted
  <2>1. /\ Named \in Seq(FrameRecords) /\ Len(Named) = n
        /\ \A i \in 1..n :
             /\ Named[i].dex = frames[i].dex /\ Named[i].pc = frames[i].pc
             /\ Named[i].guess = frames[i].guess /\ Named[i].failed = frames[i].failed
             /\ Named[i].shown = frames[i].shown
             /\ Named[i].name = IF i = n /\ Map # NoMap THEN cur.step_pc ELSE frames[i].name
    BY <1>0, NamedFacts
  <2>2. ASSUME NEW i \in 1..n, ~Named[i].dex
        PROVE  Named[i].name.adjusted = Named[i].shown.adjusted
    <3>1. frames # <<>>
      BY <1>0, <2>2, EmptySeq
    <3>2. CASE i = n /\ Map # NoMap
      BY <1>0, <2>1, <3>1, <3>2 DEF IInv, NameInv, Last
    <3>3. CASE ~(i = n /\ Map # NoMap)
      BY <1>0, <2>1, <2>2, <3>3 DEF IInv, NameInv
    <3> QED
      BY <3>2, <3>3
  <2> QED
    BY <2>1, <2>2
<1> DEFINE s == Failed(Named)
<1>2. /\ s \in Seq(FrameRecords) /\ Len(s) = n
      /\ \A i \in 1..n : /\ i < n => s[i] = Named[i]
                         /\ s[i].dex = frames[i].dex /\ s[i].guess = frames[i].guess
                         /\ s[i].pc = frames[i].pc
                         /\ ~s[i].dex => s[i].name.adjusted = s[i].shown.adjusted
  BY <1>0, <1>1, FailedFacts
<1> HIDE DEF s
<1>3. \A i \in 1..n : ~(frames[i].guess /\ frames[i].failed)
  BY <1>0 DEF IInv, GuessInv
<1>4. n > 0 => frames # <<>> /\ (Last.guess <=> attempt)
  BY <1>0, EmptySeq DEF IInv, GuessInv
<1>5. frames = <<>> => n = 0
  BY EmptySeq
\* The tail keeps the frames, all of them named; the invariant follows.
<1>6. ASSUME frames' \in Seq(FrameRecords), Len(frames') = n \/ Len(frames') + 1 = n,
             \A i \in 1..Len(frames') :
               ~frames'[i].dex => frames'[i].name.adjusted = frames'[i].shown.adjusted,
             phase' = "find" =>
               /\ attempt' <=> guessed'
               /\ \A i \in 1..Len(frames') : ~(frames'[i].guess /\ frames'[i].failed)
               /\ n = MaxFrames /\ MaxFrames > 0 => error' = "MAX_FRAMES_EXCEEDED" \/ attempt',
             GuessConfirmed',
             error' = "MAX_FRAMES_EXCEEDED" => phase' = "find" /\ Len(frames') = MaxFrames,
             error' \in {error, "REPEATED_FRAME", "MAX_FRAMES_EXCEEDED"},
             pc' \in Pcs, attempt' \in BOOLEAN, guessed' \in BOOLEAN
      PROVE  IInv'
  <2>0. Len(frames') \in Nat /\ Len(frames') <= MaxFrames
    BY <1>0, <1>6, LenProperties
  <2>1. TypeInv'
    BY <1>0, <1>6 DEF TypeInv
  <2>2. PlaceInv'
    <3>1. skipping' /\ phase' # "done" => frames' = <<>>
      <4>1. skipping => n = 0
        BY <1>0, <1>5 DEF IInv, PlaceInv
      <4>2. Len(frames') = 0 => frames' = <<>>
        BY <1>6, EmptySeq
      <4> QED
        BY <1>0, <1>6, <2>0, <4>1, <4>2
    <3> QED
      BY <1>0, <2>0, <3>1 DEF PlaceInv
  <2>3. GuessInv'
    BY <1>0, <1>6 DEF GuessInv
  <2>4. NameInv' /\ CutInv'
    BY <1>0, <1>6 DEF NameInv, CutInv
  <2>5. FramesRight'
    BY <1>0, <1>6, <2>0 DEF FramesRight, FramesBounded, CutIsReported, NamedAtShownPc
  <2> QED
    BY <2>1, <2>2, <2>3, <2>4, <2>5 DEF IInv
<1>7. CASE Finished
  <2>1. phase' = "done" /\ frames' = Named /\ UNCHANGED <<pc, error, attempt, guessed>>
    BY <1>7 DEF Finished
  <2>2. GuessConfirmed'
    BY <1>1, <1>3, <2>1 DEF GuessConfirmed
  <2> QED
    BY <1>0, <1>1, <1>6, <2>1, <2>2 DEF TypeInv
<1>8. CASE Stepped
  <2>1. /\ frames' = Named /\ ~attempt' /\ attempt' \in BOOLEAN /\ cur.stepped
        /\ UNCHANGED <<pc, guessed>>
        /\ \/ phase' = "done" /\ error' = "REPEATED_FRAME"
           \/ /\ phase' = "find"
              /\ error' = IF Len(frames) = MaxFrames THEN "MAX_FRAMES_EXCEEDED" ELSE error
    BY <1>8, Zenon DEF Stepped
  <2>2. ~guessed
    BY <1>0, <2>1 DEF IInv, GuessInv
  <2>3. GuessConfirmed'
    BY <1>1, <1>3, <2>1 DEF GuessConfirmed
  <2> QED
    BY <1>0, <1>1, <1>3, <1>6, <2>1, <2>2, <2>3 DEF TypeInv
<1>9. CASE Stop \/ Guess
  <2>1. frames' = s /\ ~attempt /\ error' \in {error, "REPEATED_FRAME"}
    BY <1>9, Zenon DEF Stop, Guess, s
  <2>2. \A i \in 1..n : ~(s[i].guess /\ s[i].failed)
    BY <1>0, <1>1, <1>2, <1>3, <1>4, <2>1 DEF Last
  <2>3. GuessConfirmed'
    BY <1>2, <2>1, <2>2 DEF GuessConfirmed
  <2>4. pc' \in Pcs /\ attempt' \in BOOLEAN /\ guessed' \in BOOLEAN
        /\ (phase' = "find" => attempt' /\ guessed')
    BY <1>0, <1>9, Zenon DEF Stop, Guess, TypeInv
  <2> QED
    BY <1>0, <1>2, <1>6, <2>1, <2>2, <2>3, <2>4
<1>10. CASE GiveUp
  <2>1. phase' = "done" /\ UNCHANGED <<pc, error, attempt, guessed>>
    BY <1>10 DEF GiveUp
  <2>2. CASE Doubtful
    <3>1. Named # <<>> /\ frames' = SubSeq(Named, 1, Len(Named) - 1)
      BY <1>0, <1>1, <1>10, <2>2, EmptySeq DEF GiveUp, Doubtful
    <3>2. /\ frames' \in Seq(FrameRecords) /\ Len(frames') = n - 1 /\ n > 0
          /\ \A i \in 1..(n - 1) : frames'[i] = Named[i]
      BY <1>0, <1>1, <3>1, Shortened
    <3>3. GuessConfirmed'
      BY <1>0, <1>1, <1>3, <3>2 DEF GuessConfirmed
    <3> QED
      BY <1>0, <1>1, <1>6, <2>1, <3>2, <3>3 DEF TypeInv
  <2>3. CASE ~Doubtful
    <3>1. frames' = s
      BY <1>10, <2>3 DEF GiveUp, s
    <3>2. GuessConfirmed'
      <4>1. n <= 2 /\ (n > 0 => MapAt[s[1].pc] = NoMap)
        BY <1>0, <1>2, <2>3 DEF Doubtful
      <4>2. \A i \in 1..n : s[i].guess /\ s[i].failed => i = n
        BY <1>0, <1>1, <1>2, <1>3
      <4> QED
        BY <1>0, <1>2, <3>1, <4>1, <4>2 DEF GuessConfirmed
    <3> QED
      BY <1>0, <1>2, <1>6, <2>1, <3>1, <3>2 DEF TypeInv
  <2> QED
    BY <2>2, <2>3
<1> QED
  BY <1>7, <1>8, <1>9, <1>10

\* IInv depends on vars only.
LEMMA StutterKeeps ==
  ASSUME IInv, UNCHANGED vars
  PROVE  IInv'
  BY DEF IInv, TypeInv, PlaceInv, GuessInv, NameInv, CutInv, FramesRight, FramesBounded,
     CutIsReported, NamedAtShownPc, GuessConfirmed, Last, Map, vars

\* Every step of the loop keeps IInv.
LEMMA NextIInv ==
  ASSUME UnwinderAssumption
  PROVE  IInv /\ [Next]_vars => IInv'
  BY FindKeeps, FillKeeps, StepKeeps, TailKeeps, StutterKeeps DEF Next

\* GiveUp takes the last frame, and only after a second failure in a row, which
\* makes it a guess.
LEMMA NextRemoves ==
  ASSUME UnwinderAssumption, IInv, [Next]_vars, Len(frames') < Len(frames)
  PROVE  frames[Len(frames)].guess /\ frames' = SubSeq(frames, 1, Len(frames) - 1)
<1> DEFINE n == Len(frames)
<1>0. TypeInv /\ frames \in Seq(FrameRecords) /\ n \in Nat
  BY LenProperties DEF IInv, TypeInv
<1>1. CASE Full \/ FindNoMap \/ ShouldStop \/ FindMap \/ SkipFrame \/ StepNot \/ Step \/ StepFails
           \/ UNCHANGED vars
  <2>1. frames' = frames
    BY <1>1, Zenon DEF Full, FindNoMap, ShouldStop, FindMap, SkipFrame, StepNot, Step, StepFails, vars
  <2> QED
    BY <1>0, <2>1
<1>2. CASE FillFrame
  BY <1>0, <1>2, FilledFacts
<1>3. CASE FillLastDex
  <2>0. PICK d \in Pcs : frames' = frames \o <<DexFrame(d)>>
    BY <1>3, Zenon DEF FillLastDex, DexFrames
  <2> DEFINE x == DexFrame(d)
  <2>1. x \in FrameRecords /\ frames' = frames \o <<x>>
    BY <1>0, <2>0, FrameTyped, Zenon
  <2> HIDE DEF x
  <2>2. frames' = Append(frames, x)
    BY <1>0, <2>1, AppendIsConcat
  <2> QED
    BY <1>0, <2>1, <2>2, AppendProperties
<1>4. CASE StepSignal
  <2>1. cur.frame = n
    BY <1>4 DEF StepSignal, IInv, PlaceInv
  <2>2. CASE cur.frame = 0
    BY <1>0, <1>4, <2>2 DEF StepSignal
  <2>3. CASE cur.frame # 0
    <3>1. frames # <<>>
      BY <1>0, <2>1, <2>3, EmptySeq
    <3> QED
      BY <1>0, <1>4, <2>1, <2>3, <3>1, SignalFacts DEF StepSignal
  <2> QED
    BY <2>2, <2>3
<1>5. CASE Finished \/ Stepped \/ GiveUp \/ Stop \/ Guess
  <2>1. cur.frame = n /\ phase = "tail"
    BY <1>5 DEF Finished, Stepped, GiveUp, Stop, Guess, IInv, PlaceInv
  <2>2. /\ Named \in Seq(FrameRecords) /\ Len(Named) = n
        /\ \A i \in 1..n : i < n => Named[i] = frames[i]
    BY <1>0, <2>1, NamedFacts
  <2>3. Len(Failed(Named)) = n
    BY <2>1, <2>2, FailedFacts
  <2>4. GiveUp /\ Doubtful
    BY <1>0, <1>5, <2>2, <2>3 DEF Finished, Stepped, GiveUp, Stop, Guess
  <2>5. frames' = SubSeq(Named, 1, Len(Named) - 1) /\ attempt
    BY <2>2, <2>4 DEF GiveUp
  <2>6. n > 0 /\ Named # <<>> /\ frames # <<>>
    BY <1>0, <2>2, <2>4, EmptySeq DEF Doubtful
  <2>7. Last.guess
    BY <2>1, <2>5, <2>6 DEF IInv, GuessInv
  <2> DEFINE a == SubSeq(Named, 1, Len(Named) - 1)
             b == SubSeq(frames, 1, Len(frames) - 1)
  <2>8. /\ a \in Seq(FrameRecords) /\ Len(a) = n - 1 /\ \A i \in 1..(n - 1) : a[i] = Named[i]
    BY <2>2, <2>6, Shortened
  <2>9. /\ b \in Seq(FrameRecords) /\ Len(b) = n - 1 /\ \A i \in 1..(n - 1) : b[i] = frames[i]
    BY <1>0, <2>6, Shortened
  <2> HIDE DEF a, b
  <2>10. \A i \in 1..(n - 1) : a[i] = b[i]
    BY <1>0, <2>2, <2>8, <2>9
  <2>11. a = b
    BY <2>8, <2>9, <2>10, SeqEqual
  <2> QED
    BY <2>5, <2>7, <2>11 DEF a, b, Last
<1> QED
  BY <1>1, <1>2, <1>3, <1>4, <1>5 DEF Next

-----------------------------------------------------------------------------
(* Theorems *)

\* At every moment of an unwind the flags of the loop and the locals of the
\* iteration fit the last frame.
THEOREM Invariance ==
  ASSUME UnwinderAssumption
  PROVE  Spec => []IInv
<1>1. Init => IInv
  BY InitIInv
<1>2. IInv /\ [Next]_vars => IInv'
  BY NextIInv
<1> QED
  BY <1>1, <1>2, PTL DEF Spec

\* What Unwind returns, whatever maps and registers it meets: at most max_frames_
\* frames, a cut is reported, names and addresses shown agree, and no frame that
\* was guessed from a return address stays without a step from it.
THEOREM FramesCorrect ==
  ASSUME UnwinderAssumption
  PROVE  Spec => []FramesRight
<1>1. IInv => FramesRight
  BY DEF IInv
<1> QED
  BY <1>1, Invariance, PTL

\* frames_.resize(frames_.size() - 1) never takes a frame that was not a guess.
THEOREM RemovesGuesses ==
  ASSUME UnwinderAssumption
  PROVE  Spec => OnlyGuessesRemoved
<1> DEFINE Removal == Len(frames') < Len(frames)
             => frames[Len(frames)].guess /\ frames' = SubSeq(frames, 1, Len(frames) - 1)
<1>1. IInv /\ [Next]_vars => [Removal]_vars
  BY NextRemoves
<1>2. Spec => [][Removal]_vars
  BY <1>1, Invariance, PTL DEF Spec
<1> QED
  BY <1>2 DEF OnlyGuessesRemoved


-----------------------------------------------------------------------------
(***************************************************************************)
(* Least elements of, and induction over, the natural numbers              *)
(***************************************************************************)
Less == {ss \in Nat \X Nat : ss[1] < ss[2]}

\* < is well founded on the naturals.
LEMMA LessWellFounded == IsWellFoundedOn(Less, Nat)
  BY NatLessThanWellFounded, Zenon DEF OpToRel, Less

\* Min of a set of natural numbers that is not empty
LEMMA MinIs ==
  ASSUME NEW T \in SUBSET Nat, T # {}
  PROVE  Gl!Min(T) \in T /\ \A y \in T : Gl!Min(T) <= y
<1>1. PICK x \in T : \A y \in T : ~(<<y, x>> \in Less)
  BY LessWellFounded, WFMin, Zenon
<1>2. ASSUME NEW y \in T PROVE x <= y
  <2>1. <<y, x>> \in Nat \X Nat
    OBVIOUS
  <2> QED
    BY <1>1, <2>1 DEF Less
<1>3. \E z \in T : \A y \in T : z <= y
  BY <1>2
<1> QED
  BY <1>3, Zenon DEF Gl!Min

\* A number of the set that is not above any other one is its Min.
LEMMA MinUnique ==
  ASSUME NEW T \in SUBSET Nat, NEW x \in T, \A y \in T : x <= y
  PROVE  Gl!Min(T) = x
<1>1. Gl!Min(T) \in T /\ Gl!Min(T) <= x
  BY MinIs
<1>2. x <= Gl!Min(T) /\ Gl!Min(T) \in Nat /\ x \in Nat
  BY <1>1, Zenon
<1> DEFINE y == Gl!Min(T)
<1> HIDE DEF y
<1>3. y = x
  BY <1>1, <1>2 DEF y
<1> QED
  BY <1>3 DEF y

\* A set that has 0 and with a number the next one has all of them.
LEMMA Induct ==
  ASSUME NEW S, 0 \in S, \A n \in Nat : n \in S => n + 1 \in S
  PROVE  \A n \in Nat : n \in S
<1>1. SUFFICES ASSUME NEW n \in Nat, n \notin S PROVE FALSE
  OBVIOUS
<1> DEFINE T == {m \in Nat : m \notin S}
<1>2. Gl!Min(T) \in T /\ \A y \in T : Gl!Min(T) <= y
  BY <1>1, MinIs
<1> HIDE DEF T
<1> DEFINE x == Gl!Min(T)
<1>3. x \in Nat /\ x \notin S /\ \A y \in Nat : y \notin S => x <= y
  BY <1>2 DEF T
<1> HIDE DEF x
<1>4. x # 0 /\ x - 1 \in Nat
  BY <1>3
<1> QED
  BY <1>3, <1>4

(***************************************************************************)
(* FindAndReadVariable: after n maps of the walk                           *)
(***************************************************************************)
Usable(m) == Gl!GetVariableOffset(m) /\ Gl!ReadVariableData(m)

\* A library may begin at k, and at map n the walk is still in it.
Open(k, n) == Gl!MayStart(k) /\ \A j \in k .. n : gl_maps[j].name = gl_maps[k].name /\ ~Gl!Writable(j)

\* map_start is the first map of the library the walk is in; what was tried
\* before cannot be used, and what was found is the first that can.
WalkInv(w, n) ==
  /\ w.start \in 0 .. n /\ w.found \in 0 .. Len(gl_maps)
  /\ w.found # Gl!None => w.found \in Gl!Good /\ \A m \in Gl!Good : w.found <= m
  /\ w.found = Gl!None =>
       /\ \A m \in 1 .. Len(gl_maps), k \in 1 .. n : Gl!Loaded(m, k) => ~Usable(m)
       /\ \A k \in 1 .. n : Open(k, n) => w.start # Gl!None /\ w.start <= k
       /\ w.start # Gl!None => Open(w.start, n)

\* A library begins with offset 0, and is tried at another offset.
LEMMA StartNotWritable ==
  ASSUME NEW m
  PROVE  Gl!MayStart(m) => ~Gl!Writable(m)
  BY Zenon DEF Gl!MayStart, Gl!Writable

\* The libraries that are tried at the next map: the one the walk is in
LEMMA TriedIsLoaded ==
  ASSUME Len(gl_maps) \in Nat, NEW n \in 0 .. Len(gl_maps) - 1, NEW w, WalkInv(w, n), w.found = Gl!None
  PROVE  /\ \A a \in 1 .. Len(gl_maps) : Gl!Loaded(a, n + 1) => a = w.start
         /\ w.start # Gl!None /\ gl_maps[w.start].name = gl_maps[n + 1].name /\ Gl!Writable(n + 1)
              => Gl!Loaded(w.start, n + 1)
<1> DEFINE s == w.start
<1>1. /\ s \in 0 .. n
      /\ \A k \in 1 .. n : Open(k, n) => s # 0 /\ s <= k
      /\ s # 0 => Open(s, n)
  BY DEF WalkInv, Gl!None
<1>2. ASSUME NEW a \in 1 .. Len(gl_maps), Gl!Loaded(a, n + 1) PROVE a = s
  <2>1. /\ a \in 1 .. n /\ Gl!MayStart(a)
        /\ \A k \in a .. n : gl_maps[k].name = gl_maps[a].name /\ ~Gl!Writable(k)
        /\ ~\E k \in 1 .. a - 1 : Gl!MayStart(k) /\ \A j \in k .. a : gl_maps[j].name = gl_maps[a].name /\ ~Gl!Writable(j)
    BY <1>2 DEF Gl!Loaded
  <2>2. Open(a, n)
    BY <2>1 DEF Open
  <2>3. s # 0 /\ s <= a /\ Open(s, n)
    BY <1>1, <2>1, <2>2
  <2>4. ASSUME s < a PROVE FALSE
    <3>1. s \in 1 .. a - 1 /\ a \in s .. n
      BY <1>1, <2>1, <2>3, <2>4
    <3>2. Gl!MayStart(s) /\ gl_maps[a].name = gl_maps[s].name
      BY <2>3, <3>1 DEF Open
    <3>3. \A j \in s .. a : gl_maps[j].name = gl_maps[a].name /\ ~Gl!Writable(j)
      BY <2>1, <2>3, <3>1, <3>2 DEF Open
    <3> QED
      BY <2>1, <3>1, <3>2, <3>3
  <2> QED
    BY <1>1, <2>1, <2>3, <2>4
<1>3. ASSUME s # 0, gl_maps[s].name = gl_maps[n + 1].name, Gl!Writable(n + 1) PROVE Gl!Loaded(s, n + 1)
  <2>1. s \in 1 .. n /\ Gl!MayStart(s) /\ \A j \in s .. n : gl_maps[j].name = gl_maps[s].name /\ ~Gl!Writable(j)
    BY <1>1, <1>3 DEF Open
  <2>2. ASSUME NEW k \in 1 .. s - 1, Gl!MayStart(k),
               \A j \in k .. s : gl_maps[j].name = gl_maps[s].name /\ ~Gl!Writable(j)
        PROVE  FALSE
    <3>1. gl_maps[k].name = gl_maps[s].name
      BY <2>1, <2>2
    <3>2. ASSUME NEW j \in k .. n PROVE gl_maps[j].name = gl_maps[k].name /\ ~Gl!Writable(j)
      <4>1. j \in k .. s \/ j \in s .. n
        BY <2>1
      <4> QED
        BY <2>1, <2>2, <3>1, <4>1
    <3>3. Open(k, n) /\ k \in 1 .. n
      BY <2>1, <2>2, <3>2 DEF Open
    <3> QED
      BY <1>1, <2>1, <3>3
  <2>3. \A k \in s .. n + 1 : gl_maps[k].name = gl_maps[s].name
    <3>1. \A k \in s .. n + 1 : k \in s .. n \/ k = n + 1
      BY <2>1
    <3> QED
      BY <1>3, <2>1, <3>1
  <2>4. s < n + 1 /\ (n + 1) - 1 = n
    BY <2>1
  <2> QED
    BY <1>3, <2>1, <2>2, <2>3, <2>4 DEF Gl!Loaded
<1> QED
  BY <1>2, <1>3 DEF Gl!None

\* One map of the walk keeps what it knows.
LEMMA VisitKeeps ==
  ASSUME Len(gl_maps) \in Nat, DOMAIN gl_maps = 1 .. Len(gl_maps), NEW n \in 0 .. Len(gl_maps) - 1,
         NEW w \in [start : Nat, found : Nat], WalkInv(w, n)
  PROVE  Gl!Visit(w, n + 1) \in [start : Nat, found : Nat] /\ WalkInv(Gl!Visit(w, n + 1), n + 1)
<1> DEFINE s == w.start
           m == n + 1
           v == Gl!Visit(w, m)
           tried == s # 0 /\ gl_maps[s].name = gl_maps[m].name /\ Gl!Writable(m)
<1>1. s \in 0 .. n /\ w.found \in 0 .. Len(gl_maps) /\ m \in 1 .. Len(gl_maps)
  BY DEF WalkInv
<1>2. CASE w.found # 0
  <2>1. v = w
    BY <1>2 DEF Gl!Visit, Gl!None
  <2> QED
    BY <1>1, <1>2, <2>1 DEF WalkInv, Gl!None
<1>3. CASE w.found = 0
  <2>1. /\ \A a \in 1 .. Len(gl_maps), k \in 1 .. n : Gl!Loaded(a, k) => ~Usable(a)
        /\ \A k \in 1 .. n : Open(k, n) => s # 0 /\ s <= k
        /\ s # 0 => Open(s, n)
    BY <1>3 DEF WalkInv, Gl!None
  <2>2. (\A a \in 1 .. Len(gl_maps) : Gl!Loaded(a, m) => a = s) /\ (tried => Gl!Loaded(s, m))
    BY <1>3, TriedIsLoaded DEF Gl!None
  <2>3. CASE tried /\ Usable(s)
    <3>1. v = [w EXCEPT !.found = s]
      BY <1>3, <2>3 DEF Gl!Visit, Usable, Gl!None
    <3>2. v.start = s /\ v.found = s /\ v \in [start : Nat, found : Nat]
      BY <1>1, <3>1
    <3>3. s \in Gl!Good
      BY <1>1, <2>2, <2>3 DEF Gl!Good, Usable
    <3>4. ASSUME NEW a \in Gl!Good PROVE s <= a
      <4>1. PICK b \in 1 .. Len(gl_maps) : Gl!Loaded(a, b)
        BY DEF Gl!Good
      <4>2. a \in 1 .. Len(gl_maps) /\ Usable(a)
        BY DEF Gl!Good, Usable
      <4>3. b > n
        BY <1>1, <2>1, <4>1, <4>2
      <4>4. CASE b = m
        BY <1>1, <2>2, <4>1, <4>2, <4>4
      <4>5. CASE b > m
        <5>1. \A k \in a .. b - 1 : ~Gl!Writable(k)
          BY <4>1 DEF Gl!Loaded
        <5>2. m \notin a .. b - 1
          BY <2>3, <5>1
        <5> QED
          BY <1>1, <4>2, <4>5, <5>2
      <4> QED
        BY <1>1, <4>3, <4>4, <4>5
    <3>5. s # 0 /\ s \in 0 .. m /\ s \in 0 .. Len(gl_maps)
      BY <1>1, <2>3
    <3> HIDE DEF v, s, m
    <3>6. WalkInv(v, m)
      BY <3>2, <3>3, <3>4, <3>5, Zenon DEF WalkInv, Gl!None
    <3> QED
      BY <3>2, <3>6 DEF v, m
  <2>4. CASE ~(tried /\ Usable(s))
    <3> DEFINE same == s # 0 /\ gl_maps[s].name = gl_maps[m].name
               left == IF tried THEN 0 ELSE IF same THEN s ELSE 0
               t == IF left = 0 /\ Gl!MayStart(m) THEN m ELSE left
    <3>1. v = [w EXCEPT !.start = t]
      BY <1>3, <2>4 DEF Gl!Visit, Usable, Gl!None, Gl!DropsStart
    <3>2. t \in 0 .. m /\ v.start = t /\ v.found = 0 /\ v \in [start : Nat, found : Nat]
      BY <1>1, <1>3, <3>1
    <3>3. \A a \in 1 .. Len(gl_maps), k \in 1 .. m : Gl!Loaded(a, k) => ~Usable(a)
      <4>1. ASSUME NEW a \in 1 .. Len(gl_maps), Gl!Loaded(a, m) PROVE ~Usable(a)
        <5>1. a = s /\ a < m /\ Gl!Writable(m) /\ gl_maps[m].name = gl_maps[a].name
          BY <1>1, <2>2, <4>1 DEF Gl!Loaded
        <5> QED
          BY <2>4, <5>1
      <4>2. \A k \in 1 .. m : k \in 1 .. n \/ k = m
        BY <1>1
      <4> QED
        BY <2>1, <4>1, <4>2
    <3>4. ASSUME NEW k \in 1 .. m, Open(k, m)
          PROVE  ~Gl!Writable(m) /\ gl_maps[m].name = gl_maps[k].name /\ (k = m \/ (k \in 1 .. n /\ Open(k, n)))
      BY <1>1, <3>4 DEF Open
    <3>5. CASE tried
      <4>1. t = 0
        BY <3>5, StartNotWritable
      <4> QED
        BY <3>2, <3>3, <3>4, <3>5, <4>1 DEF WalkInv, Gl!None
    <3>6. CASE ~tried /\ same
      <4>1. t = s /\ ~Gl!Writable(m)
        BY <3>6
      <4>2. Open(s, m)
        <5>1. \A j \in s .. m : j \in s .. n \/ j = m
          BY <1>1
        <5> QED
          BY <2>1, <3>6, <4>1, <5>1 DEF Open
      <4>3. ASSUME NEW k \in 1 .. m, Open(k, m) PROVE s # 0 /\ s <= k
        BY <1>1, <2>1, <3>4, <3>6, <4>3
      <4> QED
        BY <3>2, <3>3, <4>1, <4>2, <4>3 DEF WalkInv, Gl!None
    <3>7. CASE ~same
      <4>1. t = IF Gl!MayStart(m) THEN m ELSE 0
        BY <3>7
      <4>2. ASSUME NEW k \in 1 .. m, Open(k, m) PROVE k = m
        <5>1. ASSUME k \in 1 .. n, Open(k, n) PROVE FALSE
          <6>1. s # 0 /\ s <= k /\ Open(s, n)
            BY <2>1, <5>1
          <6>2. k \in s .. n
            BY <1>1, <5>1, <6>1
          <6>3. gl_maps[k].name = gl_maps[s].name
            BY <6>1, <6>2 DEF Open
          <6> QED
            BY <3>4, <3>7, <4>2, <6>1, <6>3
        <5> QED
          BY <3>4, <4>2, <5>1
      <4>3. Gl!MayStart(m) => Open(m, m)
        <5>1. \A j \in m .. m : j = m
          BY <1>1
        <5> QED
          BY <5>1, StartNotWritable DEF Open
      <4>4. \A k \in 1 .. m : Open(k, m) => t = m /\ t # 0 /\ t <= k
        <5>1. ASSUME NEW k \in 1 .. m, Open(k, m) PROVE Gl!MayStart(m) /\ k = m
          BY <4>2, <5>1 DEF Open
        <5> QED
          BY <1>1, <4>1, <5>1
      <4>5. t # 0 => Open(t, m)
        BY <4>1, <4>3
      <4> QED
        BY <3>2, <3>3, <4>4, <4>5 DEF WalkInv, Gl!None
    <3> QED
      BY <3>5, <3>6, <3>7
  <2> QED
    BY <2>3, <2>4
<1> QED
  BY <1>1, <1>2, <1>3

NoLibrary == [start |-> Gl!None, found |-> Gl!None]
Walks(h, n) == h = [k \in 0 .. n |-> IF k = 0 THEN NoLibrary ELSE Gl!Visit(h[k - 1], k)]

\* FindAndReadVariable is the result of one Visit for each map.
LEMMA WalkUnfolds ==
  ASSUME Len(gl_maps) \in Nat
  PROVE  \E h : Walks(h, Len(gl_maps)) /\ Gl!FindAndReadVariable = h[Len(gl_maps)].found
<1> DEFINE S == {n \in Nat : \E h : Walks(h, n)}
<1>1. 0 \in S
  <2> DEFINE h == [k \in 0 .. 0 |-> NoLibrary]
  <2>1. Walks(h, 0)
    BY DEF Walks
  <2> QED
    BY <2>1
<1>2. ASSUME NEW n \in Nat, n \in S PROVE n + 1 \in S
  <2>1. PICK h : Walks(h, n)
    BY <1>2
  <2> DEFINE g == [k \in 0 .. n + 1 |-> IF k = 0 THEN NoLibrary ELSE Gl!Visit(h[k - 1], k)]
  <2>2. \A k \in 0 .. n : g[k] = h[k]
    BY <2>1 DEF Walks
  <2>3. ASSUME NEW k \in 0 .. n + 1, k # 0 PROVE Gl!Visit(h[k - 1], k) = Gl!Visit(g[k - 1], k)
    <3> HIDE DEF g
    <3>1. k - 1 \in 0 .. n
      BY <2>3
    <3>2. h[k - 1] = g[k - 1]
      BY <2>2, <3>1
    <3> QED
      BY <3>2
  <2>4. Walks(g, n + 1)
    BY <2>3, Zenon DEF Walks
  <2> QED
    BY <2>4
<1> HIDE DEF S
<1>3. Len(gl_maps) \in S
  BY <1>1, <1>2, Induct
<1>4. PICK h : Walks(h, Len(gl_maps))
  BY <1>3 DEF S
<1> QED
  BY <1>4, Zenon DEF Gl!FindAndReadVariable, Walks, NoLibrary

\* The walk finds the first library that is loaded and has a list.
LEMMA FindsFirst ==
  ASSUME Len(gl_maps) \in Nat, DOMAIN gl_maps = 1 .. Len(gl_maps)
  PROVE  Gl!FindAndReadVariable = IF Gl!Good = {} THEN Gl!None ELSE Gl!Min(Gl!Good)
<1>1. PICK h : Walks(h, Len(gl_maps)) /\ Gl!FindAndReadVariable = h[Len(gl_maps)].found
  BY WalkUnfolds
<1> DEFINE S == {n \in Nat : n <= Len(gl_maps) => h[n] \in [start : Nat, found : Nat] /\ WalkInv(h[n], n)}
<1>2. 0 \in S
  <2>1. h[0] = NoLibrary
    BY <1>1 DEF Walks
  <2>2. NoLibrary.start = 0 /\ NoLibrary.found = 0 /\ NoLibrary \in [start : Nat, found : Nat]
    BY DEF NoLibrary, Gl!None
  <2>3. WalkInv(NoLibrary, 0)
    BY <2>2 DEF WalkInv, Gl!None
  <2> QED
    BY <2>1, <2>2, <2>3
<1>3. ASSUME NEW n \in Nat, n \in S PROVE n + 1 \in S
  <2>1. ASSUME n + 1 <= Len(gl_maps)
        PROVE  h[n + 1] \in [start : Nat, found : Nat] /\ WalkInv(h[n + 1], n + 1)
    <3>1. n \in 0 .. Len(gl_maps) - 1 /\ n + 1 \in 0 .. Len(gl_maps) /\ n + 1 # 0 /\ (n + 1) - 1 = n
      BY <2>1
    <3>2. h[n + 1] = Gl!Visit(h[n], n + 1)
      BY <1>1, <3>1 DEF Walks
    <3>3. h[n] \in [start : Nat, found : Nat] /\ WalkInv(h[n], n)
      BY <1>3, <3>1
    <3> QED
      BY <3>1, <3>2, <3>3, VisitKeeps
  <2> QED
    BY <2>1
<1> HIDE DEF S
<1>4. Len(gl_maps) \in S
  BY <1>2, <1>3, Induct
<1> DEFINE w == h[Len(gl_maps)]
<1>5. WalkInv(w, Len(gl_maps))
  BY <1>4 DEF S
<1> HIDE DEF w
<1>6. Gl!Good \in SUBSET Nat /\ Gl!Good \subseteq 1 .. Len(gl_maps)
  BY DEF Gl!Good
<1>7. CASE w.found = Gl!None
  <2>1. Gl!Good = {}
    BY <1>5, <1>7 DEF WalkInv, Gl!Good, Usable
  <2> QED
    BY <1>1, <1>7, <2>1 DEF w
<1>8. CASE w.found # Gl!None
  <2>1. w.found \in Gl!Good /\ \A m \in Gl!Good : w.found <= m
    BY <1>5, <1>8 DEF WalkInv
  <2>2. Gl!Min(Gl!Good) = w.found
    BY <1>6, <2>1, MinUnique, Zenon
  <2> QED
    BY <1>1, <2>1, <2>2 DEF w
<1> QED
  BY <1>7, <1>8

(***************************************************************************)
(* The entries of a list, and the answer to a query                        *)
(***************************************************************************)
Records == [readable : BOOLEAN, valid : BOOLEAN, info : Nat, pcs : SUBSET ListPcs]

BrokenIn(kd, ls, k) == ~ls[k].readable \/ IF kd = "jit" THEN ~ls[k].valid ELSE ls[k].info = Gl!None
ReachedIn(kd, ls) == {k \in DOMAIN ls : \A j \in 1 .. k : ~BrokenIn(kd, ls, j)}
HasIn(kd, ls, p, i, k) == p \in ls[k].pcs /\ (kd = "dex" => ls[k].info = i /\ ls[k].valid)
First(kd, ls, p, i) ==
  IF \E k \in ReachedIn(kd, ls) : HasIn(kd, ls, p, i, k)
  THEN Gl!Min({k \in ReachedIn(kd, ls) : HasIn(kd, ls, p, i, k)}) ELSE Gl!None

\* The first r entries have been read, in order; after the last one, an entry that
\* cannot be read may have given the elf of an earlier one again.
ReadUpTo(r, kd, ls, kn, e) ==
  /\ kn \in Seq(Nat) /\ r <= Len(kn)
  /\ \A k \in 1 .. r : kn[k] = k /\ ~BrokenIn(kd, ls, k)
  /\ Len(kn) > r => kd = "jit" /\ Len(kn) = r + 1 /\ kn[r + 1] \in 1 .. r
  /\ e # Gl!None => e = r + 1 /\ r < Len(ls) /\ Len(kn) = r
  /\ e = Gl!None => r = Len(ls) \/ BrokenIn(kd, ls, r + 1)

\* What a query under way has ruled out
Asked(r, place, kd, ls, qu) ==
  /\ place = "entries" => kd = "jit" /\ \A k \in 1 .. r : ~HasIn(kd, ls, qu.pc, qu.info, k)
  /\ place = "addrs" => /\ kd = "dex" /\ qu.index \in 1 .. r + 1
                        /\ \A k \in 1 .. qu.index - 1 : ~HasIn(kd, ls, qu.pc, qu.info, k)

ListsType ==
  /\ gl_kind \in {"jit", "dex"} /\ gl_maps \in MapLists /\ gl_initialized \in BOOLEAN
  /\ gl_list \in Seq(Records) /\ gl_calls \in Nat
  /\ gl_at \in {"idle", "entries", "addrs"}
  /\ gl_q = [pc |-> gl_q.pc, info |-> gl_q.info, index |-> gl_q.index]
FreshInv == ~gl_initialized => gl_list = <<>> /\ gl_entry = Gl!None /\ gl_known = <<>> /\ gl_at = "idle" /\ gl_calls = 0
ReadInv ==
  \E r \in 0 .. Len(gl_list) : ReadUpTo(r, gl_kind, gl_list, gl_known, gl_entry) /\ Asked(r, gl_at, gl_kind, gl_list, gl_q)

ListsInv == ListsType /\ FreshInv /\ ReadInv /\ Gl!FindsVariable /\ Gl!FirstEntryFound

FirstRight == gl_at = "idle" /\ gl_calls > 0 => gl_answer = First(gl_kind, gl_list, gl_q.pc, gl_q.info)

\* The property in terms of First
LEMMA FirstIs == Gl!FirstEntryFound <=> FirstRight
  BY Zenon DEF Gl!FirstEntryFound, FirstRight, First, Gl!Reached, ReachedIn, Gl!Broken, BrokenIn, Gl!Has, HasIn

\* The maps and lists that the assumption admits
LEMMA Typed ==
  ASSUME Gl!GlobalsAssumption, gl_maps \in MapLists
  PROVE  /\ Len(gl_maps) \in Nat /\ DOMAIN gl_maps = 1 .. Len(gl_maps)
         /\ \A m \in 1 .. Len(gl_maps) : Lists[gl_maps[m].list] \in Seq(Records)
<1> DEFINE R == [name : STRING, first : BOOLEAN, r : BOOLEAN, rw : BOOLEAN, list : DOMAIN Lists]
<1>1. gl_maps \in Seq(R)
  BY Zenon DEF Gl!GlobalsAssumption
<1>2. Len(gl_maps) \in Nat /\ DOMAIN gl_maps = 1 .. Len(gl_maps) /\ \A m \in 1 .. Len(gl_maps) : gl_maps[m] \in R
  BY <1>1, LenProperties, ElementOfSeq, Zenon
<1> QED
  BY <1>2, Zenon DEF Gl!GlobalsAssumption, Records

\* Positions up to a bound, and behind one
LEMMA Within == ASSUME NEW n \in Nat, NEW r \in Nat, r <= n, NEW k \in 1 .. r PROVE k \in 1 .. n
  OBVIOUS

\* The position behind a bound comes before every one that is beyond it.
LEMMA Beyond ==
  ASSUME NEW n \in Nat, NEW r \in 0 .. n, NEW k \in 1 .. n, k \notin 1 .. r
  PROVE  r + 1 \in 1 .. k /\ r # n
  OBVIOUS

\* Nothing that can be reached has the pc.
LEMMA FirstNone ==
  ASSUME NEW ls \in Seq(Records), NEW kd, NEW p, NEW i, NEW r \in 0 .. Len(ls),
         r = Len(ls) \/ BrokenIn(kd, ls, r + 1),
         \A k \in 1 .. r : ~HasIn(kd, ls, p, i, k)
  PROVE  First(kd, ls, p, i) = Gl!None
<1>1. Len(ls) \in Nat /\ DOMAIN ls = 1 .. Len(ls)
  BY LenProperties
<1>2. ASSUME NEW k \in ReachedIn(kd, ls) PROVE k \in 1 .. r
  <2>1. k \in 1 .. Len(ls) /\ \A j \in 1 .. k : ~BrokenIn(kd, ls, j)
    BY <1>1, Zenon DEF ReachedIn
  <2>2. ASSUME k \notin 1 .. r PROVE r + 1 \in 1 .. k /\ r # Len(ls)
    BY <1>1, <2>1, <2>2, Beyond, Zenon
  <2> QED
    BY <2>1, <2>2, Zenon
<1> QED
  BY <1>2, Zenon DEF First

\* The first entry that has the pc, and everything before it, can be read.
LEMMA FirstSome ==
  ASSUME NEW ls \in Seq(Records), NEW kd, NEW p, NEW i, NEW x \in 1 .. Len(ls),
         \A k \in 1 .. x : ~BrokenIn(kd, ls, k),
         HasIn(kd, ls, p, i, x), \A k \in 1 .. x - 1 : ~HasIn(kd, ls, p, i, k)
  PROVE  First(kd, ls, p, i) = x
<1> DEFINE T == {k \in ReachedIn(kd, ls) : HasIn(kd, ls, p, i, k)}
<1>1. Len(ls) \in Nat /\ DOMAIN ls = 1 .. Len(ls)
  BY LenProperties
<1>2. x \in T /\ T \in SUBSET Nat
  BY <1>1 DEF ReachedIn
<1>3. ASSUME NEW y \in T PROVE x <= y
  <2>1. y \in 1 .. Len(ls) /\ HasIn(kd, ls, p, i, y)
    BY <1>1 DEF ReachedIn
  <2>2. y \notin 1 .. x - 1
    BY <2>1
  <2> QED
    BY <1>1, <2>1, <2>2
<1> HIDE DEF T
<1>4. Gl!Min(T) = x
  BY <1>2, <1>3, MinUnique
<1>5. \E k \in ReachedIn(kd, ls) : HasIn(kd, ls, p, i, k)
  BY <1>2 DEF T
<1> QED
  BY <1>4, <1>5 DEF First, T

\* An entry is added to those read.
LEMMA ReadMore ==
  ASSUME NEW ls \in Seq(Records), NEW kd, NEW kn, NEW r \in 0 .. Len(ls), NEW e,
         ReadUpTo(r, kd, ls, kn, e), e # Gl!None, ~BrokenIn(kd, ls, e)
  PROVE  /\ e = r + 1 /\ r + 1 \in 0 .. Len(ls)
         /\ ReadUpTo(r + 1, kd, ls, Append(kn, e), IF e < Len(ls) THEN e + 1 ELSE Gl!None)
<1>1. /\ kn \in Seq(Nat) /\ Len(kn) = r /\ e = r + 1 /\ r < Len(ls) /\ Len(ls) \in Nat
      /\ \A k \in 1 .. r : kn[k] = k /\ ~BrokenIn(kd, ls, k)
  BY LenProperties DEF ReadUpTo
<1> DEFINE g == Append(kn, e)
<1>2. /\ g \in Seq(Nat) /\ Len(g) = r + 1 /\ g[r + 1] = e
      /\ \A k \in 1 .. r : g[k] = kn[k]
  BY <1>1, AppendProperties
<1> HIDE DEF g
<1>3. \A k \in 1 .. r + 1 : g[k] = k /\ ~BrokenIn(kd, ls, k)
  <2>1. \A k \in 1 .. r + 1 : k \in 1 .. r \/ k = r + 1
    BY <1>1
  <2> QED
    BY <1>1, <1>2, <2>1
<1> DEFINE f == IF e < Len(ls) THEN e + 1 ELSE Gl!None
<1>4. /\ f # Gl!None => f = (r + 1) + 1 /\ r + 1 < Len(ls)
      /\ f = Gl!None => r + 1 = Len(ls)
  BY <1>1 DEF Gl!None
<1> HIDE DEF f
<1>5. ReadUpTo(r + 1, kd, ls, g, f)
  BY <1>1, <1>2, <1>3, <1>4 DEF ReadUpTo
<1> QED
  BY <1>1, <1>5 DEF g, f

(***************************************************************************)
(* The steps of a query                                                    *)
(***************************************************************************)
\* Which libraries are good depends on the maps only.
LEMMA GoodKept ==
  ASSUME gl_maps' = gl_maps
  PROVE  Gl!Good' = Gl!Good
<1>1. \A m : (Gl!MayStart(m)' <=> Gl!MayStart(m)) /\ (Gl!Writable(m)' <=> Gl!Writable(m))
  BY Zenon DEF Gl!MayStart, Gl!Writable
<1>2. \A m : (Gl!GetVariableOffset(m)' <=> Gl!GetVariableOffset(m)) /\ (Gl!ReadVariableData(m)' <=> Gl!ReadVariableData(m))
  BY Zenon DEF Gl!GetVariableOffset, Gl!ReadVariableData
<1>3. \A m, n : Gl!Loaded(m, n)' <=> Gl!Loaded(m, n)
  BY <1>1, Zenon DEF Gl!Loaded
<1> QED
  BY <1>2, <1>3 DEF Gl!Good

\* A query begins on the list of the first library, as far as it has been read.
LEMMA Begun ==
  ASSUME Gl!GlobalsAssumption, ListsInv, gl_initialized' = TRUE, gl_list' = Gl!InitList, gl_entry' = Gl!InitEntry,
         UNCHANGED <<gl_kind, gl_maps, gl_known>>
  PROVE  /\ gl_list' \in Seq(Records) /\ Gl!FindsVariable'
         /\ gl_initialized => gl_list' = gl_list
         /\ \E r \in 0 .. Len(gl_list') : ReadUpTo(r, gl_kind, gl_list', gl_known, gl_entry')
<1>1. ListsType /\ FreshInv /\ ReadInv /\ Gl!FindsVariable
  BY DEF ListsInv
<1>2. Gl!Good' = Gl!Good
  BY GoodKept
<1>3. CASE gl_initialized
  <2>1. gl_list' = gl_list /\ gl_entry' = gl_entry
    BY <1>3 DEF Gl!InitList, Gl!InitEntry
  <2>2. Gl!FindsVariable'
    BY <1>1, <1>2, <1>3, <2>1 DEF Gl!FindsVariable
  <2>3. PICK r \in 0 .. Len(gl_list) : ReadUpTo(r, gl_kind, gl_list, gl_known, gl_entry)
    BY <1>1 DEF ReadInv
  <2> QED
    BY <1>1, <2>1, <2>2, <2>3 DEF ListsType
<1>4. CASE ~gl_initialized
  <2>1. gl_known = <<>>
    BY <1>1, <1>4 DEF FreshInv
  <2>2. /\ Len(gl_maps) \in Nat /\ DOMAIN gl_maps = 1 .. Len(gl_maps)
        /\ \A m \in 1 .. Len(gl_maps) : Lists[gl_maps[m].list] \in Seq(Records)
    BY <1>1, Typed DEF ListsType
  <2> DEFINE m == Gl!FindAndReadVariable
  <2>3. m = IF Gl!Good = {} THEN Gl!None ELSE Gl!Min(Gl!Good)
    BY <2>2, FindsFirst
  <2>4. gl_list' = IF m = Gl!None THEN <<>> ELSE Lists[gl_maps[m].list]
    BY <1>4 DEF Gl!InitList
  <2>5. Gl!Good # {} => m \in Gl!Good /\ m \in 1 .. Len(gl_maps) /\ m # Gl!None
    <3>1. Gl!Good \in SUBSET Nat /\ Gl!Good \subseteq 1 .. Len(gl_maps)
      BY <2>2 DEF Gl!Good
    <3>2. ASSUME Gl!Good # {} PROVE Gl!Min(Gl!Good) \in Gl!Good
      BY <3>1, <3>2, MinIs, Zenon
    <3>3. \A k \in Gl!Good : k \in 1 .. Len(gl_maps) /\ k # Gl!None
      BY <3>1 DEF Gl!None
    <3> QED
      BY <2>3, <3>2, <3>3, Zenon
  <2> HIDE DEF m
  <2>6. gl_list' = IF Gl!Good = {} THEN <<>> ELSE Lists[gl_maps[Gl!Min(Gl!Good)].list]
    BY <2>3, <2>4, <2>5
  <2>7. gl_list' \in Seq(Records)
    BY <2>2, <2>3, <2>4, <2>5
  <2>8. Gl!FindsVariable'
    BY <1>2, <2>6 DEF Gl!FindsVariable
  <2>9. gl_entry' = IF gl_list' = <<>> THEN Gl!None ELSE 1
    BY <1>4 DEF Gl!InitEntry
  <2>10. ReadUpTo(0, gl_kind, gl_list', gl_known, gl_entry') /\ 0 \in 0 .. Len(gl_list')
    <3>1. Len(gl_list') \in Nat /\ (gl_list' = <<>> <=> Len(gl_list') = 0)
      BY <2>7, EmptySeq, LenProperties
    <3>2. gl_known \in Seq(Nat) /\ Len(gl_known) = 0
      BY <2>1
    <3> QED
      BY <2>9, <3>1, <3>2 DEF ReadUpTo, Gl!None
  <2> QED
    BY <1>4, <2>7, <2>8, <2>10
<1> QED
  BY <1>1, <1>3, <1>4 DEF ListsType

\* The invariant after a step that leaves the maps and the list alone
LEMMA Together ==
  ASSUME gl_kind' \in {"jit", "dex"}, gl_maps' \in MapLists, gl_initialized' = TRUE, gl_list' \in Seq(Records),
         gl_calls' \in Nat, gl_at' \in {"idle", "entries", "addrs"},
         gl_q' = [pc |-> gl_q'.pc, info |-> gl_q'.info, index |-> gl_q'.index],
         NEW r \in 0 .. Len(gl_list'), ReadUpTo(r, gl_kind', gl_list', gl_known', gl_entry'),
         Asked(r, gl_at', gl_kind', gl_list', gl_q'), Gl!FindsVariable',
         gl_at' = "idle" => gl_answer' = First(gl_kind', gl_list', gl_q'.pc, gl_q'.info)
  PROVE  ListsInv'
<1>1. FirstRight'
  BY DEF FirstRight
<1>2. Gl!FirstEntryFound' <=> FirstRight'
  BY FirstIs, PTL
<1> QED
  BY <1>1, <1>2 DEF ListsInv, ListsType, FreshInv, ReadInv

\* JitDebug::GetElf: the first of the elfs already read that has the pc is the
\* first of the list; otherwise none of them has it.
LEMMA GetElfKeeps ==
  ASSUME Gl!GlobalsAssumption, ListsInv, NEW p, Gl!GetElf(p)
  PROVE  ListsInv'
<1>1. ListsType /\ FreshInv
  BY DEF ListsInv
<1>2. /\ gl_kind = "jit" /\ gl_at = "idle" /\ gl_calls' = gl_calls + 1
      /\ gl_initialized' = TRUE /\ gl_list' = Gl!InitList /\ gl_entry' = Gl!InitEntry
      /\ gl_q' = [pc |-> p, info |-> Gl!None, index |-> 1]
      /\ UNCHANGED <<gl_kind, gl_maps, gl_known, gl_files>>
      /\ IF Gl!Covering(p) # {} THEN gl_at' = "idle" /\ gl_answer' = gl_known[Gl!Min(Gl!Covering(p))]
         ELSE gl_at' = "entries" /\ gl_answer' = Gl!None
  BY DEF Gl!GetElf, Gl!Begin, Gl!Answer
<1>3. /\ gl_list' \in Seq(Records) /\ Gl!FindsVariable' /\ (gl_initialized => gl_list' = gl_list)
      /\ \E r \in 0 .. Len(gl_list') : ReadUpTo(r, gl_kind, gl_list', gl_known, gl_entry')
  BY <1>2, Begun
<1>4. PICK r \in 0 .. Len(gl_list') : ReadUpTo(r, gl_kind, gl_list', gl_known, gl_entry')
  BY <1>3
<1> DEFINE n == Len(gl_known)
<1>5. /\ n \in Nat /\ r \in Nat /\ r <= n /\ DOMAIN gl_known = 1 .. n /\ Len(gl_list') \in Nat
      /\ \A k \in 1 .. r : gl_known[k] = k /\ ~BrokenIn(gl_kind, gl_list', k)
      /\ n > r => n = r + 1 /\ gl_known[r + 1] \in 1 .. r
  BY <1>3, <1>4, LenProperties DEF ReadUpTo
<1>6. \A k \in 1 .. r : p \in gl_list'[k].pcs => k \in Gl!Covering(p)
  <2>1. CASE gl_initialized
    <3>1. gl_list' = gl_list
      BY <1>3, <2>1
    <3>2. ASSUME NEW k \in 1 .. r PROVE k \in DOMAIN gl_known /\ gl_known[k] = k
      <4>1. gl_known[k] = k
        BY <1>5, Zenon
      <4>2. k \in 1 .. n
        BY <1>5, Within, Zenon
      <4> QED
        BY <1>5, <4>1, <4>2, Zenon
    <3> QED
      BY <3>1, <3>2, Zenon DEF Gl!Covering
  <2>2. CASE ~gl_initialized
    <3>1. n = 0
      BY <1>1, <2>2 DEF FreshInv
    <3> QED
      BY <1>5, <3>1
  <2> QED
    BY <2>1, <2>2
<1>7. /\ gl_kind' \in {"jit", "dex"} /\ gl_maps' \in MapLists /\ gl_calls' \in Nat
      /\ gl_q' = [pc |-> gl_q'.pc, info |-> gl_q'.info, index |-> gl_q'.index] /\ gl_q'.pc = p /\ gl_q'.info = Gl!None
      /\ gl_kind' = "jit" /\ gl_known' = gl_known
  BY <1>1, <1>2 DEF ListsType
<1> HIDE DEF n
<1>8. CASE Gl!Covering(p) = {}
  <2>1. \A k \in 1 .. r : ~HasIn(gl_kind', gl_list', gl_q'.pc, gl_q'.info, k)
    BY <1>6, <1>7, <1>8 DEF HasIn
  <2>2. gl_at' = "entries"
    BY <1>2, <1>8
  <2>3. Asked(r, gl_at', gl_kind', gl_list', gl_q')
    BY <1>7, <2>1, <2>2 DEF Asked
  <2> QED
    BY <1>2, <1>3, <1>4, <1>7, <2>2, <2>3, Together
<1>9. CASE Gl!Covering(p) # {}
  <2> DEFINE x == Gl!Min(Gl!Covering(p))
  <2>1. Gl!Covering(p) \in SUBSET Nat
    BY <1>5 DEF Gl!Covering
  <2>2. x \in Gl!Covering(p) /\ \A y \in Gl!Covering(p) : x <= y
    BY <1>9, <2>1, MinIs
  <2>3. gl_initialized /\ gl_list' = gl_list
    <3>1. gl_known # <<>>
      BY <1>9 DEF Gl!Covering
    <3> QED
      BY <1>1, <1>3, <3>1 DEF FreshInv, ListsType
  <2> HIDE DEF x
  <2>4. x \in 1 .. n /\ p \in gl_list'[gl_known[x]].pcs
    BY <1>5, <2>2, <2>3 DEF Gl!Covering
  <2>5. x <= r
    <3>1. ASSUME x > r PROVE FALSE
      <4>1. gl_known[x] \in 1 .. r /\ x = r + 1
        BY <1>5, <2>4, <3>1
      <4>2. gl_known[x] \in Gl!Covering(p)
        BY <1>6, <2>4, <4>1
      <4>3. x <= gl_known[x]
        BY <2>2, <4>2
      <4> QED
        BY <1>5, <4>1, <4>3
    <3> QED
      BY <1>5, <2>4, <3>1
  <2>6. gl_known[x] = x /\ x \in 1 .. Len(gl_list') /\ x \in 1 .. r
    BY <1>4, <1>5, <2>4, <2>5
  <2>7. HasIn(gl_kind', gl_list', p, Gl!None, x)
    BY <1>7, <2>4, <2>6 DEF HasIn
  <2>8. ASSUME NEW k \in 1 .. x - 1 PROVE ~HasIn(gl_kind', gl_list', p, Gl!None, k)
    <3>1. k \in 1 .. r /\ ~(x <= k)
      BY <1>5, <2>6
    <3>2. k \notin Gl!Covering(p)
      BY <2>2, <3>1
    <3> QED
      BY <1>6, <3>1, <3>2 DEF HasIn
  <2>9. \A k \in 1 .. x : ~BrokenIn(gl_kind', gl_list', k)
    BY <1>2, <1>5, <2>6
  <2>10. First(gl_kind', gl_list', p, Gl!None) = x
    BY <1>3, <2>6, <2>7, <2>8, <2>9, FirstSome
  <2>11. gl_at' = "idle" /\ gl_answer' = x
    BY <1>2, <1>9, <2>6 DEF x
  <2>12. Asked(r, gl_at', gl_kind', gl_list', gl_q')
    BY <2>11 DEF Asked
  <2> QED
    BY <1>2, <1>3, <1>4, <1>7, <2>10, <2>11, <2>12, Together
<1> QED
  BY <1>8, <1>9

\* JitDebug::GetElf, one entry of the list: the first one with the pc is the answer,
\* and after one that is broken no other is read.
LEMMA GetElfEntryKeeps ==
  ASSUME ListsInv, Gl!GetElfEntry
  PROVE  ListsInv'
<1>1. ListsType /\ FreshInv /\ ReadInv /\ Gl!FindsVariable
  BY DEF ListsInv
<1>2. gl_at = "entries" /\ UNCHANGED <<gl_kind, gl_maps, gl_initialized, gl_list, gl_files, gl_q, gl_calls>>
  BY DEF Gl!GetElfEntry
<1>3. PICK r \in 0 .. Len(gl_list) : ReadUpTo(r, gl_kind, gl_list, gl_known, gl_entry) /\ Asked(r, gl_at, gl_kind, gl_list, gl_q)
  BY <1>1 DEF ReadInv
<1>4. /\ gl_kind = "jit" /\ gl_initialized = TRUE /\ gl_list \in Seq(Records) /\ Len(gl_list) \in Nat
      /\ DOMAIN gl_list = 1 .. Len(gl_list)
      /\ \A k \in 1 .. r : ~HasIn(gl_kind, gl_list, gl_q.pc, gl_q.info, k)
  BY <1>1, <1>2, <1>3, LenProperties DEF ListsType, FreshInv, Asked
<1>5. Gl!Good' = Gl!Good
  BY <1>2, GoodKept
<1>6. Gl!FindsVariable'
  BY <1>1, <1>2, <1>5 DEF Gl!FindsVariable
<1>7. /\ gl_kind' \in {"jit", "dex"} /\ gl_maps' \in MapLists /\ gl_initialized' = TRUE /\ gl_list' = gl_list /\ gl_calls' \in Nat
      /\ gl_q' = gl_q /\ gl_q = [pc |-> gl_q.pc, info |-> gl_q.info, index |-> gl_q.index] /\ gl_kind' = gl_kind
  BY <1>1, <1>2, <1>4 DEF ListsType
<1>8. CASE gl_entry = Gl!None /\ Gl!Answer(Gl!None) /\ UNCHANGED <<gl_entry, gl_known>>
  <2>1. r = Len(gl_list) \/ BrokenIn(gl_kind, gl_list, r + 1)
    BY <1>3, <1>8 DEF ReadUpTo
  <2>2. First(gl_kind, gl_list, gl_q.pc, gl_q.info) = Gl!None
    BY <1>4, <2>1, FirstNone, Zenon
  <2>3. gl_at' = "idle" /\ gl_answer' = Gl!None /\ ReadUpTo(r, gl_kind', gl_list', gl_known', gl_entry')
    BY <1>3, <1>7, <1>8 DEF Gl!Answer
  <2>4. Asked(r, gl_at', gl_kind', gl_list', gl_q')
    BY <2>3 DEF Asked
  <2> QED
    BY <1>4, <1>6, <1>7, <2>2, <2>3, <2>4, Together
<1>9. CASE /\ gl_entry # Gl!None
           /\ \E e \in Gl!ElfsRead :
                IF ~Gl!IsElf(e) THEN gl_entry' = Gl!None /\ gl_known' = gl_known /\ Gl!Answer(Gl!None)
                ELSE /\ gl_entry' = (IF gl_list[gl_entry].readable THEN Gl!After(gl_entry) ELSE Gl!None)
                     /\ gl_known' = Append(gl_known, e)
                     /\ IF gl_q.pc \in gl_list[e].pcs THEN Gl!Answer(e) ELSE UNCHANGED <<gl_at, gl_answer>>
  <2>1. PICK e \in Gl!ElfsRead :
          IF ~Gl!IsElf(e) THEN gl_entry' = Gl!None /\ gl_known' = gl_known /\ Gl!Answer(Gl!None)
          ELSE /\ gl_entry' = (IF gl_list[gl_entry].readable THEN Gl!After(gl_entry) ELSE Gl!None)
               /\ gl_known' = Append(gl_known, e)
               /\ IF gl_q.pc \in gl_list[e].pcs THEN Gl!Answer(e) ELSE UNCHANGED <<gl_at, gl_answer>>
    BY <1>9
  <2>2. /\ gl_entry = r + 1 /\ r < Len(gl_list) /\ Len(gl_known) = r /\ gl_known \in Seq(Nat)
        /\ \A k \in 1 .. r : gl_known[k] = k /\ ~BrokenIn(gl_kind, gl_list, k)
    BY <1>3, <1>9 DEF ReadUpTo
  <2>3. gl_list[gl_entry].readable \in BOOLEAN /\ gl_list[gl_entry].valid \in BOOLEAN
    <3>1. gl_entry \in 1 .. Len(gl_list)
      BY <1>4, <2>2
    <3>2. gl_list[gl_entry] \in Records
      BY <1>4, <3>1, ElementOfSeq
    <3> QED
      BY <3>2 DEF Records
  <2>4. CASE ~Gl!IsElf(e)
    <3>1. BrokenIn(gl_kind, gl_list, r + 1)
      BY <1>4, <1>9, <2>2, <2>4 DEF Gl!ElfsRead, Gl!IsElf, BrokenIn
    <3>2. First(gl_kind, gl_list, gl_q.pc, gl_q.info) = Gl!None
      BY <1>4, <3>1, FirstNone
    <3>3. gl_at' = "idle" /\ gl_answer' = Gl!None /\ gl_entry' = Gl!None /\ gl_known' = gl_known
      BY <2>1, <2>4 DEF Gl!Answer
    <3>4. ReadUpTo(r, gl_kind', gl_list', gl_known', gl_entry')
      BY <1>7, <2>2, <3>1, <3>3 DEF ReadUpTo
    <3>5. Asked(r, gl_at', gl_kind', gl_list', gl_q')
      BY <3>3 DEF Asked
    <3> QED
      BY <1>4, <1>6, <1>7, <3>2, <3>3, <3>4, <3>5, Together
  <2>5. CASE Gl!IsElf(e) /\ gl_list[gl_entry].readable
    <3>1. e = gl_entry /\ ~BrokenIn(gl_kind, gl_list, gl_entry)
      BY <1>4, <2>5 DEF Gl!ElfsRead, Gl!IsElf, BrokenIn
    <3>2. /\ r + 1 \in 0 .. Len(gl_list)
          /\ ReadUpTo(r + 1, gl_kind, gl_list, Append(gl_known, gl_entry), IF gl_entry < Len(gl_list) THEN gl_entry + 1 ELSE Gl!None)
      BY <1>3, <1>4, <1>9, <3>1, ReadMore
    <3>3. ReadUpTo(r + 1, gl_kind', gl_list', gl_known', gl_entry')
      BY <1>7, <2>1, <2>5, <3>1, <3>2, Zenon DEF Gl!After
    <3>4. CASE gl_q.pc \in gl_list[gl_entry].pcs
      <4>1. gl_at' = "idle" /\ gl_answer' = r + 1
        BY <2>1, <2>2, <2>5, <3>1, <3>4 DEF Gl!Answer
      <4>2. HasIn(gl_kind, gl_list, gl_q.pc, gl_q.info, r + 1)
        BY <1>4, <2>2, <3>4 DEF HasIn
      <4>3. \A k \in 1 .. r + 1 : ~BrokenIn(gl_kind, gl_list, k)
        BY <3>2 DEF ReadUpTo
      <4>4. (r + 1) - 1 = r /\ r + 1 \in 1 .. Len(gl_list)
        BY <1>4, <2>2
      <4>5. First(gl_kind, gl_list, gl_q.pc, gl_q.info) = r + 1
        BY <1>4, <4>2, <4>3, <4>4, FirstSome
      <4>6. Asked(r + 1, gl_at', gl_kind', gl_list', gl_q')
        BY <4>1 DEF Asked
      <4> QED
        BY <1>4, <1>6, <1>7, <3>2, <3>3, <4>1, <4>5, <4>6, Together
    <3>5. CASE gl_q.pc \notin gl_list[gl_entry].pcs
      <4>1. gl_at' = "entries"
        BY <1>2, <2>1, <2>5, <3>1, <3>5
      <4>2. \A k \in 1 .. r + 1 : ~HasIn(gl_kind, gl_list, gl_q.pc, gl_q.info, k)
        <5>1. \A k \in 1 .. r + 1 : k \in 1 .. r \/ k = gl_entry
          BY <2>2
        <5> QED
          BY <1>4, <3>5, <5>1 DEF HasIn
      <4>3. Asked(r + 1, gl_at', gl_kind', gl_list', gl_q')
        BY <1>4, <1>7, <4>1, <4>2 DEF Asked
      <4> QED
        BY <1>4, <1>6, <1>7, <3>2, <3>3, <4>1, <4>3, Together
    <3> QED
      BY <3>4, <3>5
  <2>6. CASE Gl!IsElf(e) /\ ~gl_list[gl_entry].readable
    <3>1. e \in 1 .. r
      BY <2>2, <2>6 DEF Gl!ElfsRead, Gl!IsElf, Gl!None
    <3>2. BrokenIn(gl_kind, gl_list, r + 1)
      BY <2>2, <2>6 DEF BrokenIn
    <3>3. gl_entry' = Gl!None /\ gl_known' = Append(gl_known, e)
      BY <2>1, <2>6
    <3>4. gl_q.pc \notin gl_list[e].pcs
      BY <1>4, <3>1 DEF HasIn
    <3>5. gl_at' = "entries"
      BY <1>2, <2>1, <2>6, <3>4
    <3>6. /\ gl_known' \in Seq(Nat) /\ Len(gl_known') = r + 1 /\ gl_known'[r + 1] = e
          /\ \A k \in 1 .. r : gl_known'[k] = gl_known[k]
      <4>1. e \in Nat
        BY <3>1
      <4> QED
        BY <2>2, <3>3, <4>1, AppendProperties
    <3>7. ReadUpTo(r, gl_kind', gl_list', gl_known', gl_entry')
      BY <1>4, <1>7, <2>2, <3>1, <3>2, <3>3, <3>6 DEF ReadUpTo
    <3>8. Asked(r, gl_at', gl_kind', gl_list', gl_q')
      BY <1>4, <1>7, <3>5 DEF Asked
    <3> QED
      BY <1>4, <1>6, <1>7, <3>5, <3>7, <3>8, Together
  <2> QED
    BY <2>3, <2>4, <2>5, <2>6
<1> QED
  BY <1>8, <1>9 DEF Gl!GetElfEntry

\* DexFiles::GetMethodInformation starts with the first entry.
LEMMA GetMethodInformationKeeps ==
  ASSUME Gl!GlobalsAssumption, ListsInv, NEW p, NEW i, Gl!GetMethodInformation(p, i)
  PROVE  ListsInv'
<1>1. ListsType /\ FreshInv
  BY DEF ListsInv
<1>2. /\ gl_kind = "dex" /\ gl_at = "idle" /\ gl_calls' = gl_calls + 1
      /\ gl_initialized' = TRUE /\ gl_list' = Gl!InitList /\ gl_entry' = Gl!InitEntry
      /\ gl_q' = [pc |-> p, info |-> i, index |-> 1]
      /\ UNCHANGED <<gl_kind, gl_maps, gl_known, gl_files>> /\ gl_at' = "addrs"
  BY DEF Gl!GetMethodInformation, Gl!Begin
<1>3. /\ gl_list' \in Seq(Records) /\ Gl!FindsVariable'
      /\ \E r \in 0 .. Len(gl_list') : ReadUpTo(r, gl_kind, gl_list', gl_known, gl_entry')
  BY <1>2, Begun
<1>4. PICK r \in 0 .. Len(gl_list') : ReadUpTo(r, gl_kind, gl_list', gl_known, gl_entry')
  BY <1>3
<1>5. /\ gl_kind' \in {"jit", "dex"} /\ gl_maps' \in MapLists /\ gl_calls' \in Nat
      /\ gl_q' = [pc |-> gl_q'.pc, info |-> gl_q'.info, index |-> gl_q'.index] /\ gl_q'.index = 1
      /\ gl_kind' = "dex" /\ gl_known' = gl_known
  BY <1>1, <1>2 DEF ListsType
<1>6. Asked(r, gl_at', gl_kind', gl_list', gl_q')
  BY <1>2, <1>5 DEF Asked
<1> QED
  BY <1>2, <1>3, <1>4, <1>5, <1>6, Together

\* DexFiles::GetAddr gives the entries in their order, read before or now; the first
\* one with the pc is the answer.
LEMMA NextAddrKeeps ==
  ASSUME ListsInv, Gl!NextAddr
  PROVE  ListsInv'
<1>1. ListsType /\ FreshInv /\ ReadInv /\ Gl!FindsVariable
  BY DEF ListsInv
<1>2. gl_at = "addrs" /\ UNCHANGED <<gl_kind, gl_maps, gl_initialized, gl_list, gl_calls>>
  BY DEF Gl!NextAddr
<1>3. PICK r \in 0 .. Len(gl_list) : ReadUpTo(r, gl_kind, gl_list, gl_known, gl_entry) /\ Asked(r, gl_at, gl_kind, gl_list, gl_q)
  BY <1>1 DEF ReadInv
<1> DEFINE x == gl_q.index
<1>4. /\ gl_kind = "dex" /\ gl_initialized = TRUE /\ gl_list \in Seq(Records) /\ Len(gl_list) \in Nat
      /\ DOMAIN gl_list = 1 .. Len(gl_list) /\ x \in 1 .. r + 1
      /\ \A k \in 1 .. x - 1 : ~HasIn(gl_kind, gl_list, gl_q.pc, gl_q.info, k)
  BY <1>1, <1>2, <1>3, LenProperties DEF ListsType, FreshInv, Asked
<1>5. /\ Len(gl_known) = r /\ \A k \in 1 .. r : gl_known[k] = k /\ ~BrokenIn(gl_kind, gl_list, k)
  <2>1. Len(gl_known) \in Nat /\ r <= Len(gl_known) /\ ~(Len(gl_known) > r)
    BY <1>3, <1>4, LenProperties, Zenon DEF ReadUpTo
  <2> QED
    BY <1>3, <2>1 DEF ReadUpTo
<1>6. Gl!Good' = Gl!Good
  BY <1>2, GoodKept
<1>7. Gl!FindsVariable'
  BY <1>1, <1>2, <1>6 DEF Gl!FindsVariable
<1>8. /\ gl_kind' \in {"jit", "dex"} /\ gl_maps' \in MapLists /\ gl_initialized' = TRUE /\ gl_list' = gl_list /\ gl_calls' \in Nat
      /\ gl_q = [pc |-> gl_q.pc, info |-> gl_q.info, index |-> gl_q.index] /\ gl_kind' = gl_kind
  BY <1>1, <1>2, <1>4 DEF ListsType
<1>9. CASE Gl!NoAddr /\ gl_entry' = Gl!None /\ Gl!Answer(Gl!None) /\ UNCHANGED <<gl_known, gl_files, gl_q>>
  <2>1. x = r + 1 /\ x - 1 = r
    BY <1>4, <1>5, <1>9 DEF Gl!NoAddr
  <2>2. r = Len(gl_list) \/ BrokenIn(gl_kind, gl_list, r + 1)
    <3>1. CASE gl_entry = Gl!None
      BY <1>3, <3>1 DEF ReadUpTo
    <3>2. CASE gl_entry # Gl!None
      <4>1. gl_entry = r + 1
        BY <1>3, <3>2 DEF ReadUpTo
      <4> QED
        BY <1>4, <1>9, <3>2, <4>1, Zenon DEF Gl!NoAddr, Gl!ReadDexEntry, BrokenIn
    <3> QED
      BY <3>1, <3>2
  <2>3. First(gl_kind, gl_list, gl_q.pc, gl_q.info) = Gl!None
    BY <1>4, <2>1, <2>2, FirstNone, Zenon
  <2>4. gl_at' = "idle" /\ gl_answer' = Gl!None /\ gl_entry' = Gl!None /\ gl_known' = gl_known /\ gl_q' = gl_q
    BY <1>9 DEF Gl!Answer
  <2>5. ReadUpTo(r, gl_kind', gl_list', gl_known', gl_entry')
    BY <1>3, <1>8, <2>2, <2>4 DEF ReadUpTo
  <2>6. Asked(r, gl_at', gl_kind', gl_list', gl_q')
    BY <2>4 DEF Asked
  <2> QED
    BY <1>4, <1>7, <1>8, <2>3, <2>4, <2>5, <2>6, Together
<1>10. ASSUME NEW got \in DOMAIN gl_list, Gl!GetAddr(gl_q.index, got),
              gl_q' = [gl_q EXCEPT !.index = Gl!NextIndex(@)],
              IF gl_list[got].info = gl_q.info /\ gl_list[got].valid /\ gl_q.pc \in gl_list[got].pcs THEN Gl!Answer(got)
              ELSE UNCHANGED <<gl_at, gl_answer>>
       PROVE  ListsInv'
  <2>1. got = x /\ \E s \in 0 .. Len(gl_list) : x <= s /\ ReadUpTo(s, gl_kind', gl_list', gl_known', gl_entry')
    <3>1. CASE x <= Len(gl_known) /\ got = gl_known[x] /\ UNCHANGED <<gl_entry, gl_known>>
      <4>1. x \in 1 .. r
        BY <1>4, <1>5, <3>1
      <4>2. got = x /\ x <= r
        BY <1>5, <3>1, <4>1
      <4> QED
        BY <1>3, <1>8, <3>1, <4>2
    <3>2. CASE /\ x > Len(gl_known) /\ Gl!ReadDexEntry /\ got = gl_entry
               /\ gl_known' = Append(gl_known, gl_entry) /\ gl_entry' = Gl!After(gl_entry)
      <4>1. gl_entry # Gl!None /\ gl_entry = r + 1 /\ x = r + 1
        <5>1. gl_entry # Gl!None
          BY <3>2 DEF Gl!ReadDexEntry
        <5>2. gl_entry = r + 1
          BY <1>3, <5>1 DEF ReadUpTo
        <5>3. x = r + 1
          BY <1>4, <1>5, <3>2
        <5> QED
          BY <5>1, <5>2, <5>3
      <4>2. ~BrokenIn(gl_kind, gl_list, gl_entry)
        BY <1>4, <3>2 DEF Gl!ReadDexEntry, BrokenIn
      <4>3. /\ r + 1 \in 0 .. Len(gl_list)
            /\ ReadUpTo(r + 1, gl_kind, gl_list, Append(gl_known, gl_entry), IF gl_entry < Len(gl_list) THEN gl_entry + 1 ELSE Gl!None)
        BY <1>3, <1>4, <4>1, <4>2, ReadMore
      <4>4. ReadUpTo(r + 1, gl_kind', gl_list', gl_known', gl_entry')
        BY <1>8, <3>2, <4>3 DEF Gl!After
      <4> QED
        BY <3>2, <4>1, <4>3, <4>4
    <3> QED
      BY <1>10, <3>1, <3>2 DEF Gl!GetAddr
  <2>2. PICK s \in 0 .. Len(gl_list) : x <= s /\ ReadUpTo(s, gl_kind', gl_list', gl_known', gl_entry')
    BY <2>1
  <2>3. /\ gl_q' = [pc |-> gl_q'.pc, info |-> gl_q'.info, index |-> gl_q'.index]
        /\ gl_q'.pc = gl_q.pc /\ gl_q'.info = gl_q.info /\ gl_q'.index = x + 1
    BY <1>8, <1>10 DEF Gl!NextIndex
  <2>4. CASE HasIn(gl_kind, gl_list, gl_q.pc, gl_q.info, x)
    <3>1. gl_at' = "idle" /\ gl_answer' = x
      BY <1>4, <1>10, <2>1, <2>4 DEF HasIn, Gl!Answer
    <3>2. x \in 1 .. Len(gl_list) /\ \A k \in 1 .. x : ~BrokenIn(gl_kind, gl_list, k)
      BY <1>4, <1>8, <2>2 DEF ReadUpTo
    <3>3. First(gl_kind, gl_list, gl_q.pc, gl_q.info) = x
      BY <1>4, <2>4, <3>2, FirstSome
    <3>4. Asked(s, gl_at', gl_kind', gl_list', gl_q')
      BY <3>1 DEF Asked
    <3> QED
      BY <1>4, <1>7, <1>8, <2>2, <2>3, <3>1, <3>3, <3>4, Together
  <2>5. CASE ~HasIn(gl_kind, gl_list, gl_q.pc, gl_q.info, x)
    <3>1. gl_at' = "addrs"
      BY <1>2, <1>4, <1>10, <2>1, <2>5 DEF HasIn
    <3>2. \A k \in 1 .. (x + 1) - 1 : ~HasIn(gl_kind, gl_list, gl_q.pc, gl_q.info, k)
      <4>1. \A k \in 1 .. (x + 1) - 1 : k \in 1 .. x - 1 \/ k = x
        BY <1>4
      <4> QED
        BY <1>4, <2>5, <4>1
    <3>3. x + 1 \in 1 .. s + 1
      BY <1>4, <2>2
    <3>4. Asked(s, gl_at', gl_kind', gl_list', gl_q')
      BY <1>4, <1>8, <2>3, <3>1, <3>2, <3>3 DEF Asked
    <3> QED
      BY <1>4, <1>7, <1>8, <2>2, <2>3, <3>1, <3>4, Together
  <2> QED
    BY <2>4, <2>5
<1> QED
  BY <1>9, <1>10 DEF Gl!NextAddr

\* IInv holds before the first query.
LEMMA InitInv == Gl!Init => ListsInv
<1> SUFFICES ASSUME Gl!Init PROVE ListsInv
  OBVIOUS
<1>1. ListsType
  <2>1. gl_q = [pc |-> gl_q.pc, info |-> gl_q.info, index |-> gl_q.index]
    BY DEF Gl!Init
  <2>2. gl_list \in Seq(Records) /\ gl_calls \in Nat
    BY DEF Gl!Init
  <2> QED
    BY <2>1, <2>2, Zenon DEF Gl!Init, ListsType
<1>4. FreshInv
  BY DEF Gl!Init, FreshInv
<1>2. Gl!FindsVariable /\ Gl!FirstEntryFound
  BY DEF Gl!Init, Gl!FindsVariable, Gl!FirstEntryFound
<1>3. ReadUpTo(0, gl_kind, gl_list, gl_known, gl_entry) /\ Asked(0, gl_at, gl_kind, gl_list, gl_q) /\ 0 \in 0 .. Len(gl_list)
  BY DEF Gl!Init, ReadUpTo, Asked
<1> QED
  BY <1>1, <1>2, <1>3, <1>4 DEF ListsInv, ReadInv

\* Every step of a query keeps IInv.
LEMMA NextInv ==
  ASSUME Gl!GlobalsAssumption, ListsInv, [Gl!Next]_(Gl!vars)
  PROVE  ListsInv'
<1>1. CASE UNCHANGED Gl!vars
  <2>1. Gl!Good' = Gl!Good
    BY <1>1, GoodKept DEF Gl!vars
  <2>2. Gl!FindsVariable'
    BY <1>1, <2>1 DEF Gl!vars, ListsInv, Gl!FindsVariable
  <2>3. FirstRight'
    BY <1>1, FirstIs DEF Gl!vars, ListsInv, FirstRight
  <2>4. Gl!FirstEntryFound' <=> FirstRight'
    BY FirstIs, PTL
  <2> QED
    BY <1>1, <2>2, <2>3, <2>4 DEF Gl!vars, ListsInv, ListsType, FreshInv, ReadInv
<1> QED
  BY <1>1, GetElfKeeps, GetElfEntryKeeps, GetMethodInformationKeeps, NextAddrKeeps, Zenon DEF Gl!Next

(***************************************************************************)
(* Theorem                                                                 *)
(***************************************************************************)
\* JitDebug and DexFiles work on the list of the first loaded library that has one,
\* and answer every query with the first entry, up to a broken one, that has the pc:
\* for any maps and lists, and whatever was asked before.
THEOREM ListsCorrect ==
  ASSUME Gl!GlobalsAssumption
  PROVE  Gl!Spec => []Gl!ListsFirstEntryFound
<1>1. Gl!Init => ListsInv
  BY InitInv
<1>2. ListsInv /\ [Gl!Next]_(Gl!vars) => ListsInv'
  BY NextInv
<1>3. ListsInv => Gl!ListsFirstEntryFound
  BY DEF ListsInv, Gl!ListsFirstEntryFound
<1> QED
  BY <1>1, <1>2, <1>3, PTL DEF Gl!Spec
=============================================================================
