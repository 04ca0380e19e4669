------------------------------- MODULE ElfOnce -------------------------------
(***************************************************************************)
(* What MapInfo promises of its elf object: there is none until it is set, *)
(* once, and then it stays ("once the elf object is created, it is not     *)
(* deleted until this object is deleted"), so that the plain pointers that *)
(* GetElf hands out stay good.                                             *)
(***************************************************************************)
CONSTANTS Slots, Elfs, None

VARIABLE slot

Init == slot = [s \in Slots |-> None]
Set(s, e) == slot[s] = None /\ slot' = [slot EXCEPT ![s] = e]
Next == \E s \in Slots, e \in Elfs : Set(s, e)
Spec == Init /\ [][Next]_slot
=============================================================================
