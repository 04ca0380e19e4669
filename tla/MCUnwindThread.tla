--------------------------- MODULE MCUnwindThread ---------------------------
(* Small instances of UnwindThread for TLC. *)
EXTENDS UnwindThread, TLC
CONSTANTS a, b, g, e1, e2

MCThreads == {a, b, g}
MCEntries == {e1, e2}
\* Two unwinders, one thread under test.
TwoOnOne == {<<a, g>>, <<b, g>>}
\* Thread a unwinds g and is itself unwound by b.
Chain == {<<a, g>>, <<b, a>>}
Nobody == {}
OnlyTarget == {g}
\* The two unwinders, and the two addresses, are interchangeable.
Symmetry == Permutations({a, b}) \cup Permutations({e1, e2})
=============================================================================
