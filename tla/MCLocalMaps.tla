---------------------------- MODULE MCLocalMaps ----------------------------
(* Small instances of LocalMaps for TLC: three slots and a top mapping. *)
EXTENDS LocalMaps
CONSTANTS t1, t2, lib, jit

Map(s, e, k, o) == [start |-> s, end |-> e, kind |-> k, offset |-> o]
\* The first two slots can be mapped as one or as two; the second also with
\* other flags, as after an mprotect, or from elsewhere in the file.
Small == {Map(0, 1, lib, 0), Map(0, 2, lib, 0), Map(1, 2, lib, 0), Map(1, 2, jit, 0),
          Map(1, 2, lib, 1), Map(2, 3, lib, 0)}
\* The third slot can change as well, and nothing is above it.
Changing == Small \cup {Map(2, 3, jit, 0)}
Top == Map(3, 4, lib, 0)
WithTop == Small \cup {Top}
TopOnly == {Top}
Nothing == {}
MCPcs == 0..2
\* 3 is in no mapping when there is no top: the pc of a broken frame.
AllPcs == 0..3
Sym == Permutations(Threads)
TwoThreads == {t1, t2}
=============================================================================
