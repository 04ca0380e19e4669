------------------------------- MODULE Globals -------------------------------
(***************************************************************************)
(* Global, JitDebug and DexFiles: the lists of jitted code and of dex      *)
(* files that the unwound process keeps in memory.  The descriptor of a    *)
(* list is a global variable, found once by a walk of the maps; the        *)
(* entries are read one by one, only as far as the queries so far needed   *)
(* them, and what was read is kept.                                        *)
(*                                                                         *)
(* A list is what is in the memory of the process: entries in their order  *)
(* (a list that ends), each readable or not, for jitted code with an elf   *)
(* that is valid or not and the pcs it covers, for dex files with a map    *)
(* (0 for no file) and the pcs of its methods.                             *)
(***************************************************************************)
EXTENDS Integers, Sequences, FiniteSets, FiniteSetsExt

CONSTANTS
    MapLists,     \* the maps: sequences of [name, first, r, rw, list]
    SearchLibs,   \* the libraries to look in, {} for all
    Lists,        \* the lists in the process, by number; list 0 is "no variable"
    Pcs, Infos,   \* what is asked: a pc, or a pc in a dex file of a map
    MaxCalls      \* bound on the queries

\* Types only; list 0 is empty
GlobalsAssumption ==
    /\ MapLists \subseteq Seq([name : STRING, first : BOOLEAN, r : BOOLEAN, rw : BOOLEAN, list : DOMAIN Lists])
    /\ \A l \in DOMAIN Lists : Lists[l] \in Seq([readable : BOOLEAN, valid : BOOLEAN, info : Nat, pcs : SUBSET Pcs])

VARIABLES kind, maps, initialized, list, entry, known, files, at, q, answer, calls

vars == <<kind, maps, initialized, list, entry, known, files, at, q, answer, calls>>

None == 0

Init ==
    /\ kind \in {"jit", "dex"} /\ maps \in MapLists
    /\ initialized = FALSE /\ list = <<>> /\ entry = None /\ known = <<>> /\ files = {}
    /\ at = "idle" /\ q = [pc |-> None, info |-> None, index |-> None] /\ answer = None /\ calls = 0

\* Global: a readable map from the start of a file, then a writable one of the same file
ReadVariableData(m) == Lists[maps[m].list] # <<>>
GetVariableOffset(m) == (SearchLibs # {} => maps[m].name \in SearchLibs) /\ maps[m].list # None
MayStart(m) == maps[m].r /\ maps[m].first /\ maps[m].name # ""
Writable(m) == maps[m].rw /\ ~maps[m].first
\* A library that did not have the variable is not tried again (mutant: it stays the start).
KeepsStart(start) == start
DropsStart(start) == None
\* One map of the walk: w.start is the map that may begin a library, w.found the one whose variable was read
Visit(w, m) ==
    LET same == w.start # None /\ maps[w.start].name = maps[m].name
        tried == same /\ Writable(m)
        left == IF tried THEN DropsStart(w.start) ELSE IF same THEN w.start ELSE None
    IN IF w.found # None THEN w
       ELSE IF tried /\ GetVariableOffset(w.start) /\ ReadVariableData(w.start) THEN [w EXCEPT !.found = w.start]
       ELSE [w EXCEPT !.start = IF left = None /\ MayStart(m) THEN m ELSE left]
FindAndReadVariable ==
    LET Walk[n \in 0 .. Len(maps)] ==
            IF n = 0 THEN [start |-> None, found |-> None] ELSE Visit(Walk[n - 1], n)
    IN Walk[Len(maps)].found

\* The list that an initialized object works on
InitList == IF initialized THEN list
            ELSE LET m == FindAndReadVariable IN IF m = None THEN <<>> ELSE Lists[maps[m].list]
InitEntry == IF initialized THEN entry ELSE IF InitList = <<>> THEN None ELSE 1
After(k) == IF k < Len(list) THEN k + 1 ELSE None
Answer(a) == at' = "idle" /\ answer' = a

Begin(p, i, next) ==
    /\ at = "idle" /\ calls < MaxCalls /\ calls' = calls + 1
    /\ initialized' = TRUE /\ list' = InitList /\ entry' = InitEntry
    /\ q' = [pc |-> p, info |-> i, index |-> 1]
    /\ next
    /\ UNCHANGED <<kind, maps, known, files>>

\* JitDebug: the elfs already read (mutant: only the new ones), then those of the entries that follow
CoveringNone(p) == {}
Covering(p) == {k \in DOMAIN known : p \in list[known[k]].pcs}
GetElf(p) ==
    /\ kind = "jit"
    /\ Begin(p, None, IF Covering(p) # {} THEN Answer(known[Min(Covering(p))]) ELSE at' = "entries" /\ answer' = None)
\* The elf an entry gives: of an entry that cannot be read, start and size are what was on the stack.
ElfsRead == IF list[entry].readable THEN {entry} ELSE {None} \cup 1 .. entry - 1
IsElf(e) == e # None /\ list[e].valid
GetElfEntry ==
    /\ at = "entries"
    /\ \/ entry = None /\ Answer(None) /\ UNCHANGED <<entry, known>>
       \/ /\ entry # None
          /\ \E e \in ElfsRead :
                IF ~IsElf(e) THEN entry' = None /\ known' = known /\ Answer(None)
                ELSE /\ entry' = (IF list[entry].readable THEN After(entry) ELSE None)
                     /\ known' = Append(known, e)
                     /\ IF q.pc \in list[e].pcs THEN Answer(e) ELSE UNCHANGED <<at, answer>>
    /\ UNCHANGED <<kind, maps, initialized, list, files, q, calls>>

\* DexFiles: entry by entry, from the ones already read or from the process
GetMethodInformation(p, i) ==
    kind = "dex" /\ Begin(p, i, at' = "addrs" /\ answer' = None)
ReadDexEntry == entry # None /\ list[entry].readable /\ list[entry].info # None
GetAddr(index, got) ==
    \/ index <= Len(known) /\ got = known[index] /\ UNCHANGED <<entry, known>>
    \/ index > Len(known) /\ ReadDexEntry /\ got = entry /\ known' = Append(known, entry) /\ entry' = After(entry)
\* Mutant: the index stays where it is
SameIndex(index) == index
NextIndex(index) == index + 1
NoAddr == q.index > Len(known) /\ ~ReadDexEntry
NextAddr ==
    /\ at = "addrs"
    /\ \/ NoAddr /\ entry' = None /\ Answer(None) /\ UNCHANGED <<known, files, q>>
       \/ \E got \in DOMAIN list :
             /\ GetAddr(q.index, got)
             /\ q' = [q EXCEPT !.index = NextIndex(@)]
             /\ files' = IF list[got].info = q.info THEN files \cup {got} ELSE files
             /\ IF list[got].info = q.info /\ list[got].valid /\ q.pc \in list[got].pcs THEN Answer(got)
                ELSE UNCHANGED <<at, answer>>
    /\ UNCHANGED <<kind, maps, initialized, list, calls>>

Next ==
    \/ \E p \in Pcs : GetElf(p) \/ \E i \in Infos : GetMethodInformation(p, i)
    \/ GetElfEntry \/ NextAddr
Spec == Init /\ [][Next]_vars
FairSpec == Spec /\ WF_vars(GetElfEntry \/ NextAddr)

(***************************************************************************)
(* The list that is read is the one of the first library with the maps of  *)
(* a loaded library (readable from offset 0, then writable) and a list     *)
(* that is not empty.                                                      *)
(***************************************************************************)
Loaded(m, n) ==
    /\ m < n /\ MayStart(m) /\ Writable(n)
    /\ \A k \in m .. n : maps[k].name = maps[m].name
    /\ \A k \in m .. n - 1 : ~Writable(k)
    /\ ~\E k \in 1 .. m - 1 : MayStart(k) /\ \A j \in k .. m : maps[j].name = maps[m].name /\ ~Writable(j)
Good == {m \in DOMAIN maps : GetVariableOffset(m) /\ ReadVariableData(m) /\ \E n \in DOMAIN maps : Loaded(m, n)}
FindsVariable == initialized => list = IF Good = {} THEN <<>> ELSE Lists[maps[Min(Good)].list]

(***************************************************************************)
(* Whatever was asked before, the answer is the first entry of the list,   *)
(* up to one that is broken, that has the pc.                              *)
(***************************************************************************)
Broken(k) == ~list[k].readable \/ IF kind = "jit" THEN ~list[k].valid ELSE list[k].info = None
Reached == {k \in DOMAIN list : \A j \in 1 .. k : ~Broken(j)}
Has(k) == q.pc \in list[k].pcs /\ (kind = "dex" => list[k].info = q.info /\ list[k].valid)
FirstEntryFound ==
    at = "idle" /\ calls > 0 =>
        answer = IF \E k \in Reached : Has(k) THEN Min({k \in Reached : Has(k)}) ELSE None

(***************************************************************************)
(* Queries work on the right list and find the first entry that has the    *)
(* pc, in any order and however much of the list was read before.          *)
(***************************************************************************)
ListsFirstEntryFound == FindsVariable /\ FirstEntryFound

(***************************************************************************)
(* Every query of a list that ends comes to an end.                        *)
(***************************************************************************)
QueryEnds == at # "idle" ~> at = "idle"
=============================================================================
