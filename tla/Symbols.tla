------------------------------- MODULE Symbols -------------------------------
(***************************************************************************)
(* The symbol tables of an elf (Symbols.cpp, and GetFunctionName of        *)
(* ElfInterface.cpp): entries are read from the table only as far as a     *)
(* query needs them, cached in order of their addresses, and found in the  *)
(* cache by binary search.                                                 *)
(*                                                                         *)
(* An entry has a type, a range of addresses, a name (a model value or a   *)
(* number), and says whether it can be read and whether its name is in the *)
(* string table.                                                           *)
(***************************************************************************)
EXTENDS Integers, Sequences, FiniteSets, SequencesExt

CONSTANTS
    Elfs,         \* the elfs: a sequence of symbol tables, each a sequence of entries
    Addrs,
    MaxCalls      \* bound on the queries

VARIABLES tables, symbols, cur, asked, answer, calls

vars == <<tables, symbols, cur, asked, answer, calls>>

None == 0
Done == 100       \* cur_offset_ = UINT64_MAX

Init ==
    /\ tables \in Elfs
    /\ symbols = [k \in DOMAIN tables |-> <<>>] /\ cur = [k \in DOMAIN tables |-> 0]
    /\ asked = None /\ answer = None /\ calls = 0

Covers(e, a) == e.start <= a /\ a < e.end
Func(e) == e.type = "func"

\* The binary search of the cached entries (mutant: an entry ends at the next one)
GetInfoNoEnd(cache, a) ==
    LET below == {i \in DOMAIN cache : cache[i].start <= a} IN IF below = {} THEN {} ELSE {cache[Max(below)]}
GetInfoFromCache(cache, a) ==
    LET Search[first, last \in 0 .. Len(cache)] ==
            IF first >= last THEN {}
            ELSE LET current == first + (last - first) \div 2 info == cache[current + 1] IN
                 IF a < info.start THEN Search[first, current]
                 ELSE IF a < info.end THEN {info}
                 ELSE Search[current + 1, last]
    IN Search[0, Len(cache)]

\* The entries read for an address: up to the first that cannot be read or that is the one
StopsAt(k, a) == {i \in cur[k] + 1 .. Len(tables[k]) : ~tables[k][i].readable \/ (Func(tables[k][i]) /\ Covers(tables[k][i], a))}
LastRead(k, a) == IF StopsAt(k, a) = {} THEN Len(tables[k]) ELSE Min(StopsAt(k, a))
Read(k, a) == SelectSeq(SubSeq(tables[k], cur[k] + 1, LastRead(k, a)), LAMBDA e : e.readable /\ Func(e))
\* From then on every read starts at cur_offset_ = UINT64_MAX, and fails.
Corrupt(k, a) == cur[k] = Done \/ (StopsAt(k, a) # {} /\ ~tables[k][LastRead(k, a)].readable)
Unsorted(s) == s
Sorted(s) == SortSeq(s, LAMBDA x, y : x.start < y.start)

\* One table: what it answers, its cache and its position afterwards
Table(found, name, cache, at) == [found |-> found, name |-> name, cache |-> cache, at |-> at]
GetName(k, a) ==
    LET hit == GetInfoFromCache(symbols[k], a) IN
    IF hit # {} THEN Table(TRUE, (CHOOSE i \in hit : TRUE).name, symbols[k], cur[k])
    ELSE IF Corrupt(k, a) THEN Table(FALSE, None, symbols[k] \o Read(k, a), Done)
    ELSE LET last == LastRead(k, a) found == StopsAt(k, a) # {} IN
         Table(found /\ tables[k][last].named, IF found THEN tables[k][last].name ELSE None,
               Sorted(symbols[k] \o Read(k, a)), last)

\* The tables are asked in order until one finds the name.
FirstTable(a) ==
    LET finds == {k \in DOMAIN tables : GetName(k, a).found} IN IF finds = {} THEN Len(tables) ELSE Min(finds)
GetFunctionName(a) ==
    LET last == FirstTable(a)
        Got(k) == IF k <= last THEN GetName(k, a)
                  ELSE Table(FALSE, None, symbols[k], cur[k])
    IN  /\ calls < MaxCalls /\ calls' = calls + 1
        /\ symbols' = [k \in DOMAIN tables |-> Got(k).cache]
        /\ cur' = [k \in DOMAIN tables |-> Got(k).at]
        /\ asked' = a /\ answer' = (IF Got(last).found THEN Got(last).name ELSE None)
        /\ tables' = tables

Next == \E a \in Addrs : GetFunctionName(a)
Spec == Init /\ [][Next]_vars

(***************************************************************************)
(* A name is found whatever was asked before: it is that of the function   *)
(* that covers the address in the first table that has one.                *)
(***************************************************************************)
HasName(k, a) == \E i \in DOMAIN tables[k] : Func(tables[k][i]) /\ Covers(tables[k][i], a)
NameFound ==
    (asked # None /\ \A k \in DOMAIN tables : \A i \in DOMAIN tables[k] : tables[k][i].readable)
        => IF \A k \in DOMAIN tables : ~HasName(k, asked) THEN answer = None
           ELSE LET k == Min({j \in DOMAIN tables : HasName(j, asked)}) IN
                \E i \in DOMAIN tables[k] : Func(tables[k][i]) /\ Covers(tables[k][i], asked) /\ answer = tables[k][i].name

(***************************************************************************)
(* Also when a table cannot be read to its end, and its cache is left      *)
(* unsorted, a name that is given is the one of a function that covers the *)
(* address.                                                                *)
(***************************************************************************)
NameRight ==
    answer # None => \E k \in DOMAIN tables : \E i \in DOMAIN tables[k] :
                        Func(tables[k][i]) /\ Covers(tables[k][i], asked) /\ answer = tables[k][i].name
=============================================================================
