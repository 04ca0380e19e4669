------------------------------ MODULE Unwinder ------------------------------
(***************************************************************************)
(* Unwinder::Unwind (libunwindstack/Unwinder.cpp): the loop that turns      *)
(* registers into frames.  One iteration is four steps: find the map and    *)
(* the Elf of the pc, add the frames, step, decide how to go on.            *)
(*                                                                         *)
(* An address is a member of a small set; what an unwind step makes of the  *)
(* registers is any pc and sp, also one that fails, since Eval changes them *)
(* as it goes.  A pc adjustment is there or not, and an                     *)
(* address shown or looked up is one of the four made from the pc by        *)
(* taking the map's start off it or not, adjusting it or not.               *)
(***************************************************************************)
EXTENDS Integers, Sequences

CONSTANTS Pcs, Sps,     \* values of the two registers
          Maps,         \* [device, skip, ignored, symfile, valid] records
          NoMap,
          MapAt,        \* [Pcs -> Maps \cup {NoMap}]: Maps::Find of a pc
          DeviceSps,    \* the sps that point into a device map
          SkipNames,    \* whether initial_map_names_to_skip is given
          JitDebug,     \* whether jit_debug_ is set
          MaxFrames     \* max_frames_

UnwinderAssumption ==
  /\ MapAt \in [Pcs -> Maps \cup {NoMap}] /\ NoMap \notin Maps
  /\ Maps \subseteq [device : BOOLEAN, skip : BOOLEAN, ignored : BOOLEAN,
                     symfile : BOOLEAN, valid : BOOLEAN]
  /\ DeviceSps \subseteq Sps /\ SkipNames \in BOOLEAN /\ JitDebug \in BOOLEAN
  /\ MaxFrames \in Nat

VARIABLES
  phase,      \* "find", "fill", "step", "tail" or "done"
  pc, sp,     \* regs_
  dex,        \* dex_pc() is not 0
  frames,     \* frames_
  error,      \* last_error_.code
  attempt,    \* return_address_attempt
  adjust,     \* adjust_pc
  skipping,   \* initial_map_names_to_skip is not null
  cur,        \* the locals of one iteration
  guessed     \* history: the pc comes from SetPcFromReturnAddress

vars == <<phase, pc, sp, dex, frames, error, attempt, adjust, skipping, cur, guessed>>

Address(rel, adjusted) == [rel |-> rel, adjusted |-> adjusted]
Map == MapAt[cur.pc]
NoLocals(p, s) ==
  [pc |-> p, sp |-> s, adjusted |-> FALSE, step_pc |-> Address(FALSE, FALSE),
   frame |-> 0, stepped |-> FALSE, device |-> FALSE, finished |-> FALSE]

\* A frame.  guess: it was reached through SetPcFromReturnAddress; failed: no
\* step from it succeeded; name: where its function name was looked up.
Frame ==
  [dex |-> FALSE, pc |-> cur.pc, sp |-> cur.sp, guess |-> guessed, failed |-> FALSE,
   shown |-> Address(Map # NoMap, cur.adjusted), name |-> Address(Map # NoMap, cur.adjusted)]
\* The frame of the interpreter: its pc is the dex pc, which may be any address.
DexFrame(d) ==
  [dex |-> TRUE, pc |-> d, sp |-> cur.sp, guess |-> guessed, failed |-> FALSE,
   shown |-> Address(MapAt[d] # NoMap, FALSE), name |-> Address(MapAt[d] # NoMap, FALSE)]
DexFrames == IF dex THEN {<<DexFrame(d)>> : d \in Pcs} ELSE {<<>>}
-----------------------------------------------------------------------------
Init ==
  /\ phase = "find" /\ pc \in Pcs /\ sp \in Sps /\ dex \in BOOLEAN
  /\ frames = <<>> /\ error = "NONE"
  /\ attempt = FALSE /\ adjust = FALSE /\ skipping = SkipNames /\ guessed = FALSE
  /\ cur = NoLocals(pc, sp)

\* The loop condition.
Full ==
  /\ phase = "find" /\ Len(frames) >= MaxFrames
  /\ phase' = "done"
  /\ UNCHANGED <<pc, sp, dex, frames, error, attempt, adjust, skipping, cur, guessed>>

FindNoMap ==
  /\ phase = "find" /\ Len(frames) < MaxFrames /\ MapAt[pc] = NoMap
  /\ phase' = "fill"
  /\ error' = "INVALID_MAP"
  /\ cur' = NoLocals(pc, sp)
  /\ UNCHANGED <<pc, sp, dex, frames, attempt, adjust, skipping, guessed>>

ShouldStop ==
  /\ phase = "find" /\ Len(frames) < MaxFrames /\ MapAt[pc] # NoMap /\ MapAt[pc].ignored
  /\ phase' = "done"
  /\ UNCHANGED <<pc, sp, dex, frames, error, attempt, adjust, skipping, cur, guessed>>

\* The map, its Elf, or one that the jit debug interface has for the pc.
FindMap ==
  /\ phase = "find" /\ Len(frames) < MaxFrames /\ MapAt[pc] # NoMap /\ ~MapAt[pc].ignored
  /\ phase' = "fill"
  /\ \E adj \in IF adjust THEN BOOLEAN ELSE {FALSE},
        jit \in IF JitDebug /\ ~MapAt[pc].valid THEN BOOLEAN ELSE {FALSE} :
       cur' = [NoLocals(pc, sp) EXCEPT
                 !.adjusted = adj,
                 !.step_pc = Address(~jit /\ ~MapAt[pc].symfile, adj)]
  /\ UNCHANGED <<pc, sp, dex, frames, error, attempt, adjust, skipping, guessed>>

SkipFrame ==
  /\ phase = "fill" /\ skipping /\ Map # NoMap /\ Map.skip
  /\ phase' = "step"
  /\ adjust' = TRUE
  /\ UNCHANGED <<pc, sp, dex, frames, error, attempt, skipping, cur, guessed>>

\* The dex frame takes the last place: FillInDexFrame and the break after it.
FillLastDex ==
  /\ phase = "fill" /\ ~(skipping /\ Map # NoMap /\ Map.skip)
  /\ dex /\ Len(frames) + 1 = MaxFrames
  /\ phase' = "done"
  /\ \E x \in DexFrames : frames' = frames \o x
  /\ dex' = FALSE
  /\ error' = "MAX_FRAMES_EXCEEDED"
  /\ UNCHANGED <<pc, sp, attempt, adjust, skipping, cur, guessed>>

FillFrameNoRoom ==
  /\ phase = "fill" /\ ~(skipping /\ Map # NoMap /\ Map.skip)
  /\ phase' = "step"
  /\ \E x \in DexFrames : frames' = frames \o x \o <<Frame>>
  /\ cur' = [cur EXCEPT !.frame = Len(frames')]
  /\ dex' = FALSE /\ skipping' = FALSE /\ adjust' = TRUE
  /\ UNCHANGED <<pc, sp, error, attempt, guessed>>
FillFrame ==
  /\ ~(dex /\ Len(frames) + 1 = MaxFrames)
  /\ FillFrameNoRoom

Device == Map # NoMap /\ (Map.device \/ sp \in DeviceSps)

\* No step is tried: no map, or the pc or the sp is in a device map.
StepNot ==
  /\ phase = "step" /\ (Map = NoMap \/ Device)
  /\ phase' = "tail"
  /\ cur' = [cur EXCEPT !.device = Map # NoMap]
  /\ UNCHANGED <<pc, sp, dex, frames, error, attempt, adjust, skipping, guessed>>

\* The pc is in a signal trampoline.  GetLastError hands out what an earlier
\* step of this Elf has left.
StepSignalAdjusted ==
  /\ phase = "step" /\ Map # NoMap /\ ~Device
  /\ phase' = "tail"
  /\ pc' \in Pcs /\ sp' \in Sps /\ guessed' = FALSE
  /\ error' \in {"NONE", "STEP"}
  /\ cur' = [cur EXCEPT !.stepped = TRUE, !.step_pc = Address(TRUE, FALSE)]
  /\ UNCHANGED <<dex, frames, attempt, adjust, skipping>>
StepSignal ==
  /\ phase = "step" /\ Map # NoMap /\ ~Device
  /\ phase' = "tail"
  /\ pc' \in Pcs /\ sp' \in Sps /\ guessed' = FALSE
  /\ error' \in {"NONE", "STEP"}
  /\ IF cur.frame = 0
     THEN cur' = [cur EXCEPT !.stepped = TRUE] /\ UNCHANGED frames
     ELSE /\ cur' = [cur EXCEPT !.stepped = TRUE, !.step_pc = Address(TRUE, FALSE)]
          /\ frames' = [frames EXCEPT ![cur.frame].shown.adjusted = FALSE]
  /\ UNCHANGED <<dex, attempt, adjust, skipping>>

Step ==
  /\ phase = "step" /\ Map # NoMap /\ ~Device
  /\ phase' = "tail"
  /\ pc' \in Pcs /\ sp' \in Sps /\ guessed' = FALSE
  /\ dex' \in BOOLEAN /\ error' = "NONE"
  /\ \E fin \in BOOLEAN : cur' = [cur EXCEPT !.stepped = TRUE, !.finished = fin]
  /\ UNCHANGED <<frames, attempt, adjust, skipping>>

\* The registers are left as far as they were evaluated.  An invalid elf does
\* not touch the error.
StepFails ==
  /\ phase = "step" /\ Map # NoMap /\ ~Device
  /\ phase' = "tail"
  /\ pc' \in Pcs /\ sp' \in Sps /\ dex' \in BOOLEAN
  /\ error' \in {error, "NONE", "STEP"}
  /\ UNCHANGED <<frames, attempt, adjust, skipping, cur, guessed>>
-----------------------------------------------------------------------------
(* The rest of the iteration.  Named: the function name of the frame has     *)
(* been looked up at step_pc, if it has a map.                               *)
Named ==
  IF cur.frame = 0 \/ Map = NoMap THEN frames
  ELSE [frames EXCEPT ![cur.frame].name = cur.step_pc]

Finished ==
  /\ phase = "tail" /\ cur.finished
  /\ phase' = "done" /\ frames' = Named
  /\ UNCHANGED <<pc, sp, dex, error, attempt, adjust, skipping, cur, guessed>>

SteppedStillAttempt ==
  /\ phase = "tail" /\ ~cur.finished /\ cur.stepped /\ ~(cur.pc = pc /\ cur.sp = sp)
  /\ frames' = Named /\ phase' = "find"
  /\ UNCHANGED <<pc, sp, dex, error, attempt, adjust, skipping, cur, guessed>>
Stepped ==
  /\ phase = "tail" /\ ~cur.finished /\ cur.stepped
  /\ frames' = Named /\ attempt' = FALSE
  /\ IF cur.pc = pc /\ cur.sp = sp
     THEN phase' = "done" /\ error' = "REPEATED_FRAME"
     ELSE /\ phase' = "find"
          /\ error' = IF Len(frames) = MaxFrames THEN "MAX_FRAMES_EXCEEDED" ELSE error
  /\ UNCHANGED <<pc, sp, dex, adjust, skipping, cur, guessed>>

Failed(s) == IF cur.frame = 0 THEN s ELSE [s EXCEPT ![cur.frame].failed = TRUE]

\* The second failure in a row: the frame that was guessed is taken back,
\* unless there is nothing else to show.
Doubtful == Len(frames) > 2 \/ (Len(frames) > 0 /\ MapAt[frames[1].pc] # NoMap)
GiveUpDevice ==
  /\ phase = "tail" /\ ~cur.stepped /\ attempt
  /\ phase' = "done"
  /\ frames' = IF ~cur.device /\ Doubtful THEN SubSeq(Named, 1, Len(frames) - 1)
               ELSE Failed(Named)
  /\ UNCHANGED <<pc, sp, dex, error, attempt, adjust, skipping, cur, guessed>>
GiveUpRetries ==
  /\ phase = "tail" /\ ~cur.stepped /\ attempt
  /\ phase' = "find" /\ pc' \in Pcs
  /\ frames' = IF Doubtful THEN SubSeq(Named, 1, Len(frames) - 1) ELSE Failed(Named)
  /\ UNCHANGED <<sp, dex, error, attempt, adjust, skipping, cur, guessed>>
GiveUp ==
  /\ phase = "tail" /\ ~cur.stepped /\ attempt
  /\ phase' = "done"
  /\ frames' = IF Doubtful THEN SubSeq(Named, 1, Len(frames) - 1) ELSE Failed(Named)
  /\ UNCHANGED <<pc, sp, dex, error, attempt, adjust, skipping, cur, guessed>>

\* In a device map, or SetPcFromReturnAddress fails.
Stop ==
  /\ phase = "tail" /\ ~cur.stepped /\ ~attempt
  /\ phase' = "done" /\ frames' = Failed(Named)
  /\ UNCHANGED <<pc, sp, dex, error, attempt, adjust, skipping, cur, guessed>>

\* SetPcFromReturnAddress changes nothing but the pc, and that it does change;
\* what the failed step had made of the pc may be changed back.
Guess ==
  /\ phase = "tail" /\ ~cur.stepped /\ ~attempt /\ ~cur.device
  /\ frames' = Failed(Named) /\ attempt' = TRUE
  /\ pc' \in Pcs \ {pc} /\ guessed' = TRUE
  /\ IF cur.pc = pc' /\ cur.sp = sp
     THEN phase' = "done" /\ error' = "REPEATED_FRAME"
     ELSE phase' = "find" /\ error' = error
  /\ UNCHANGED <<sp, dex, adjust, skipping, cur>>

Next ==
  \/ Full \/ FindNoMap \/ ShouldStop \/ FindMap
  \/ SkipFrame \/ FillLastDex \/ FillFrame
  \/ StepNot \/ StepSignal \/ Step \/ StepFails
  \/ Finished \/ Stepped \/ GiveUp \/ Stop \/ Guess

Spec == Init /\ [][Next]_vars

\* One thread runs the loop.
FairSpec == Spec /\ WF_vars(Next)
-----------------------------------------------------------------------------

\* No unwind returns more than max_frames_ frames, although one iteration may
\* add two and the loop condition is tested once (the test after
\* FillInDexFrame).
FramesBounded == Len(frames) <= MaxFrames

\* The function name of a frame is looked up at an address adjusted exactly
\* when the address shown is: also where StepIfSignalHandler has taken the
\* adjustment back.
NamedAtShownPc ==
  \A i \in 1..Len(frames) :
    (phase \in {"find", "done"} /\ ~frames[i].dex)
      => frames[i].name.adjusted = frames[i].shown.adjusted

\* A frame that was only guessed, and from which no step succeeded, is not
\* returned, unless it is one of two frames and the first is nowhere.
GuessConfirmed ==
  (phase = "done") =>
    \A i \in 1..Len(frames) :
      (frames[i].guess /\ frames[i].failed)
        => i = Len(frames) /\ i <= 2 /\ MapAt[frames[1].pc] = NoMap

\* Nothing but a guessed frame is ever taken back.
OnlyGuessesRemoved ==
  [][Len(frames') < Len(frames)
       => frames[Len(frames)].guess /\ frames' = SubSeq(frames, 1, Len(frames) - 1)]_vars

\* An unwind that was cut off by max_frames_ says so, unless what follows
\* would have been a guess.
CutIsReported ==
  /\ (phase = "done" /\ error = "MAX_FRAMES_EXCEEDED") => Len(frames) = MaxFrames
  /\ (phase = "find" /\ Len(frames) = MaxFrames /\ MaxFrames > 0)
       => (error = "MAX_FRAMES_EXCEEDED" \/ attempt)

\* There are never more frames than max_frames_, and an unwind it cut off says
\* so; a frame is named at the pc that it shows; a frame guessed from the
\* return address stays only if it was stepped from.
FramesRight == FramesBounded /\ CutIsReported /\ NamedAtShownPc /\ GuessConfirmed

\* Every unwind ends, whatever the steps return.
UnwindEnds == <>(phase = "done")
=============================================================================
