---------------------------- MODULE MapElf_proofs ----------------------------
(***************************************************************************)
(* MapElf implements ElfOnce, for any threads, maps, files and calls: the  *)
(* elf of a map is set once.  A thread that is about to set it holds the   *)
(* mutex of the map and has seen, under it, that there is none.            *)
(*                                                                         *)
(* Then, for files that can be opened where they are mapped: the elf is    *)
(* the one of the part of the file that is mapped, however the map got it, *)
(* and elf_offset and the load bias go with it.                            *)
(***************************************************************************)
EXTENDS MapElf, Integers, TLAPS

Adding(t) ==
    \/ th[t].pc \in {"cache", "add"}
    \/ th[t].pc \in {"create", "create_end"} /\ th[t].call = "GetElf"

ThreadOK(t) ==
    /\ DOMAIN th[t] = {"pc", "call", "map", "id", "obj", "left"}
    /\ th[t].pc # "idle" => th[t].map \in MapIds
    /\ th[t].pc \in {"load", "check", "static"} => th[t].call = "GetLoadBias"
    /\ th[t].pc \in {"lock", "cache"} => th[t].call = "GetElf"
    /\ th[t].pc \in {"create", "create_end"} => th[t].call \in {"GetElf", "GetLoadBias"}
    /\ Adding(t) => mutex[th[t].map] = t /\ elf[th[t].map] = Null
    /\ th[t].pc \in {"prev", "use"} => th[t].obj = elf[th[t].map] /\ th[t].obj # Null

IInv ==
    /\ elf \in [MapIds -> MapIds \cup {Null}]
    /\ mutex \in [MapIds -> Threads \cup {Null}]
    /\ DOMAIN th = Threads
    /\ \A k \in DOMAIN cache : cache[k].elf \in MapIds
    /\ \A t \in Threads : ThreadOK(t)

\* What a step of t leaves of the threads and maps: no elf is replaced, none is
\* set under another thread that is adding one, whose mutex stays its own.
Spares(t) ==
    /\ DOMAIN th' = Threads /\ \A u \in Threads \ {t} : th'[u] = th[u]
    /\ elf' \in [MapIds -> MapIds \cup {Null}] /\ mutex' \in [MapIds -> Threads \cup {Null}]
    /\ \A m \in MapIds : elf[m] # Null => elf'[m] = elf[m]
    /\ \A m \in MapIds : mutex[m] \in Threads \ {t} => mutex'[m] = mutex[m] /\ elf'[m] = elf[m]

(***************************************************************************)
(* The other threads keep what they rely on when a step spares them.       *)
(***************************************************************************)
LEMMA OthersKeep ==
    ASSUME IInv, NEW t \in Threads, Spares(t), NEW u \in Threads \ {t}
    PROVE  ThreadOK(u)'
<1>1. th'[u] = th[u] /\ ThreadOK(u)
  BY DEF Spares, IInv
<1>2. (th[u].pc # "idle") => th[u].map \in MapIds
  BY <1>1 DEF ThreadOK
<1>3. Adding(u)' = Adding(u)
  BY <1>1 DEF Adding
<1>4. Adding(u) => mutex'[th[u].map] = u /\ elf'[th[u].map] = Null
  BY <1>1, <1>2 DEF ThreadOK, Spares, Adding
<1>5. th[u].pc \in {"prev", "use"} => th[u].obj = elf'[th[u].map] /\ th[u].obj # Null
  BY <1>1, <1>2 DEF ThreadOK, Spares
<1>. QED
  BY <1>1, <1>3, <1>4, <1>5 DEF ThreadOK

\* A step that spares the maps of others, and is right for its own thread, keeps IInv.
LEMMA StepKeeps ==
    ASSUME IInv, NEW t \in Threads, Spares(t), ThreadOK(t)',
           \A k \in DOMAIN cache' : cache'[k].elf \in MapIds
    PROVE  IInv'
<1>1. \A u \in Threads : ThreadOK(u)'
  BY OthersKeep
<1>. QED
  BY <1>1 DEF Spares, IInv

(***************************************************************************)
(* A step that only moves its thread on, leaving the maps and the cache.   *)
(***************************************************************************)
LEMMA MovesKeep ==
    ASSUME IInv, NEW t \in Threads, UNCHANGED <<elf, mutex, cache>>,
           DOMAIN th' = Threads, \A u \in Threads \ {t} : th'[u] = th[u], ThreadOK(t)'
    PROVE  IInv'
<1>1. Spares(t)
  BY DEF Spares, IInv
<1>. QED
  BY <1>1, StepKeeps DEF IInv

\* IInv holds of the initial states.
LEMMA InitIInv == Init => IInv
  BY MapsAssumption DEF Init, IInv, ThreadOK, Adding, Idle, Null

(***************************************************************************)
(* One lemma per action: what it leaves and what its thread then holds.    *)
(***************************************************************************)
LEMMA CallKeeps ==
    ASSUME IInv, NEW t \in Threads, NEW call \in Calls, NEW m \in MapIds, Call(t, call, m)
    PROVE  IInv'
<1>1. UNCHANGED <<elf, mutex, cache>> /\ DOMAIN th' = Threads
      /\ \A u \in Threads \ {t} : th'[u] = th[u]
  BY DEF Call, IInv, mapvars
<1>2. /\ EntryPoint(call) \in {"lock", "load", "load_id", "name"}
      /\ EntryPoint(call) = "lock" <=> call = "GetElf"
      /\ EntryPoint(call) = "load" <=> call = "GetLoadBias"
  BY CallsAssumption DEF EntryPoint
<1>3. th'[t] = [Idle(th[t].left - 1) EXCEPT !.pc = EntryPoint(call), !.call = call, !.map = m]
  BY DEF Call, IInv
<1>4. ThreadOK(t)'
  BY <1>2, <1>3 DEF ThreadOK, Adding, Idle
<1>. QED
  BY <1>1, <1>4, MovesKeep

\* The steps that set no elf
LEMMA OnlyMoves ==
    ASSUME IInv, NEW t \in Threads,
           \/ Return(t)
           \/ GetFunctionName(t)
           \/ GetLoadBias(t)
           \/ GetLoadBiasCheck(t)
           \/ GetLoadBiasStatic(t)
           \/ GetBuildID(t)
           \/ GetBuildIDCheck(t)
           \/ GetBuildIDObject(t)
           \/ GetBuildIDRead(t)
           \/ GetBuildIDSave(t)
           \/ CreateMemory(t)
           \/ CreateMemoryEnd(t)
    PROVE  IInv'
<1>1. UNCHANGED <<elf, mutex, cache>> /\ DOMAIN th' = Threads
      /\ \A u \in Threads \ {t} : th'[u] = th[u]
  <2>1. CASE Return(t)
    BY <2>1 DEF Return, IInv, mapvars, Goto, Goes
  <2>2. CASE GetFunctionName(t)
    BY <2>2 DEF GetFunctionName, IInv, mapvars, Goto, Goes
  <2>3. CASE GetLoadBias(t)
    BY <2>3 DEF GetLoadBias, IInv, mapvars, Goto, Goes
  <2>4. CASE GetLoadBiasCheck(t)
    BY <2>4 DEF GetLoadBiasCheck, IInv, mapvars, Goto, Goes
  <2>5. CASE GetLoadBiasStatic(t)
    BY <2>5 DEF GetLoadBiasStatic, IInv, mapvars, Goto, Goes
  <2>6. CASE GetBuildID(t)
    BY <2>6 DEF GetBuildID, IInv, mapvars, Goto, Goes
  <2>7. CASE GetBuildIDCheck(t)
    BY <2>7 DEF GetBuildIDCheck, IInv, mapvars, Goto, Goes
  <2>8. CASE GetBuildIDObject(t)
    BY <2>8 DEF GetBuildIDObject, IInv, mapvars, Goto, Goes
  <2>9. CASE GetBuildIDRead(t)
    BY <2>9 DEF GetBuildIDRead, IInv, mapvars, Goto, Goes
  <2>10. CASE GetBuildIDSave(t)
    BY <2>10 DEF GetBuildIDSave, IInv, mapvars, Goto, Goes
  <2>11. CASE CreateMemory(t)
    BY <2>11 DEF CreateMemory, IInv, mapvars, Goto, Goes
  <2>12. CASE CreateMemoryEnd(t)
    BY <2>12 DEF CreateMemoryEnd, IInv, mapvars, Goto, Goes
  <2>. QED
    BY <2>1, <2>2, <2>3, <2>4, <2>5, <2>6, <2>7, <2>8, <2>9, <2>10, <2>11, <2>12
<1>2. ThreadOK(t)'
  <2>0. ThreadOK(t) /\ t \in DOMAIN th
    BY DEF IInv
  <2>1. CASE Return(t)
    BY <2>0, <2>1 DEF Return, ThreadOK, Adding, Idle, mapvars, Goto, Goes, At_, Map
  <2>2. CASE GetFunctionName(t)
    BY <2>0, <2>2 DEF GetFunctionName, ThreadOK, Adding, Idle, mapvars, Goto, Goes, At_, Map
  <2>3. CASE GetLoadBias(t)
    BY <2>0, <2>3 DEF GetLoadBias, ThreadOK, Adding, Idle, mapvars, Goto, Goes, At_, Map
  <2>4. CASE GetLoadBiasCheck(t)
    BY <2>0, <2>4 DEF GetLoadBiasCheck, ThreadOK, Adding, Idle, mapvars, Goto, Goes, At_, Map
  <2>5. CASE GetLoadBiasStatic(t)
    BY <2>0, <2>5 DEF GetLoadBiasStatic, ThreadOK, Adding, Idle, mapvars, Goto, Goes, At_, Map
  <2>6. CASE GetBuildID(t)
    BY <2>0, <2>6 DEF GetBuildID, ThreadOK, Adding, Idle, mapvars, Goto, Goes, At_, Map
  <2>7. CASE GetBuildIDCheck(t)
    BY <2>0, <2>7 DEF GetBuildIDCheck, ThreadOK, Adding, Idle, mapvars, Goto, Goes, At_, Map
  <2>8. CASE GetBuildIDObject(t)
    BY <2>0, <2>8 DEF GetBuildIDObject, ThreadOK, Adding, Idle, mapvars, Goto, Goes, At_, Map
  <2>9. CASE GetBuildIDRead(t)
    BY <2>0, <2>9 DEF GetBuildIDRead, ThreadOK, Adding, Idle, mapvars, Goto, Goes, At_, Map
  <2>10. CASE GetBuildIDSave(t)
    BY <2>0, <2>10 DEF GetBuildIDSave, ThreadOK, Adding, Idle, mapvars, Goto, Goes, At_, Map
  <2>11. CASE CreateMemory(t)
    BY <2>0, <2>11 DEF CreateMemory, ThreadOK, Adding, Idle, mapvars, Goto, Goes, At_, Map
  <2>12. CASE CreateMemoryEnd(t)
    BY <2>0, <2>12 DEF CreateMemoryEnd, ThreadOK, Adding, Idle, mapvars, Goto, Goes, At_, Map
  <2>. QED
    BY <2>1, <2>2, <2>3, <2>4, <2>5, <2>6, <2>7, <2>8, <2>9, <2>10, <2>11, <2>12
<1>. QED
  BY <1>1, <1>2, MovesKeep

\* GetElf takes the mutex and looks for the elf.
LEMMA GetElfKeeps ==
    ASSUME IInv, NEW t \in Threads, GetElf(t)
    PROVE  IInv'
<1>0. ThreadOK(t) /\ t \in DOMAIN th /\ th[t].map \in MapIds
  BY Zenon DEF IInv, ThreadOK, GetElf, At_
<1>1. Spares(t)
  BY <1>0, ThreadsAssumption, Zenon DEF Spares, IInv, GetElf, mapvars, Goto, Goes, Locks, Map
<1>2. ThreadOK(t)'
  <2>1. CASE elf[th[t].map] # Null
    <3>1. th' = [th EXCEPT ![t].pc = "use", ![t].obj = elf[th[t].map]] /\ elf' = elf
      BY <2>1 DEF GetElf, Goes, Map, mapvars
    <3>. QED
      BY <1>0, <2>1, <3>1, Zenon DEF ThreadOK, Adding
  <2>2. CASE elf[th[t].map] = Null
    <3>1. /\ \E pc \in {"cache", "create"} : th' = [th EXCEPT ![t].pc = pc]
          /\ elf' = elf /\ mutex' = [mutex EXCEPT ![th[t].map] = t]
      BY <2>2, Zenon DEF GetElf, Goto, Map, mapvars, Locks
    <3>2. th[t].call = "GetElf"
      BY <1>0, Zenon DEF ThreadOK, GetElf, At_
    <3>. QED
      BY <1>0, <2>2, <3>1, <3>2 DEF ThreadOK, Adding, IInv
  <2>. QED
    BY <2>1, <2>2
<1>. QED
  BY <1>1, <1>2, StepKeeps, Zenon DEF GetElf, IInv

\* The elf of the cache is set under the mutex.
LEMMA CacheGetKeeps ==
    ASSUME IInv, NEW t \in Threads, CacheGet(t)
    PROVE  IInv'
<1>0. ThreadOK(t) /\ t \in DOMAIN th /\ th[t].map \in MapIds /\ Adding(t)
  BY DEF IInv, ThreadOK, CacheGet, At_, Adding
<1>1. mutex[th[t].map] = t /\ elf[th[t].map] = Null
  BY <1>0 DEF ThreadOK
<1>2. CASE Key(Map(t)) \notin DOMAIN cache
  <2>1. UNCHANGED <<elf, mutex, cache>> /\ th' = [th EXCEPT ![t].pc = "create"]
    BY <1>2 DEF CacheGet, Goto
  <2>2. DOMAIN th' = Threads /\ \A u \in Threads \ {t} : th'[u] = th[u]
    BY <2>1 DEF IInv
  <2>3. th[t].call = "GetElf"
    BY <1>0 DEF ThreadOK, CacheGet, At_
  <2>4. ThreadOK(t)'
    BY <1>0, <1>1, <2>1, <2>3 DEF ThreadOK, Adding
  <2>. QED
    BY <2>1, <2>2, <2>4, MovesKeep
<1>3. CASE Key(Map(t)) \in DOMAIN cache
  <2>. DEFINE e == cache[Key(Map(t))].elf
  <2>1. e \in MapIds
    BY <1>3 DEF IInv
  <2>2. /\ elf' = [elf EXCEPT ![th[t].map] = e] /\ mutex' = [mutex EXCEPT ![th[t].map] = Null]
        /\ th' = [th EXCEPT ![t].pc = "use", ![t].obj = e] /\ cache' = cache
    BY <1>3 DEF CacheGet, Goes, Map, Unlocked
  <2>. HIDE DEF e
  <2>3. Spares(t)
    BY <1>0, <1>1, <2>1, <2>2, ThreadsAssumption DEF Spares, IInv
  <2>4. e # Null
    BY <2>1, MapsAssumption DEF Null
  <2>5. ThreadOK(t)'
    BY <1>0, <2>1, <2>2, <2>4 DEF ThreadOK, Adding, IInv
  <2>. QED
    BY <2>2, <2>3, <2>5, StepKeeps DEF IInv
<1>. QED
  BY <1>2, <1>3

\* A new elf is set under the mutex.
LEMMA NewElfKeeps ==
    ASSUME IInv, NEW t \in Threads, NewElf(t)
    PROVE  IInv'
<1>0. ThreadOK(t) /\ t \in DOMAIN th /\ th[t].map \in MapIds /\ Adding(t)
  BY DEF IInv, ThreadOK, NewElf, At_, Adding
<1>1. mutex[th[t].map] = t /\ elf[th[t].map] = Null
  BY <1>0 DEF ThreadOK
<1>. DEFINE m == th[t].map
            found == cache_lock = t /\ CacheAfterCreateMemory(m, elf_offset[m])
            e == IF found THEN cache[NameKey(m)].elf ELSE m
<1>2. e \in MapIds
  BY <1>0, Zenon DEF IInv, CacheAfterCreateMemory
<1>3. /\ elf' = [elf EXCEPT ![m] = e] /\ mutex' = [mutex EXCEPT ![m] = Null]
      /\ \/ th' = [th EXCEPT ![t].pc = "use", ![t].obj = e]
         \/ th' = [th EXCEPT ![t].pc = "prev", ![t].obj = e]
  BY DEF NewElf, Goes, Map, Unlocked
<1>4. \A k \in DOMAIN cache' : cache'[k].elf \in MapIds
  <2>1. CASE found
    <3>1. cache' = Put(cache, Key(m), Cached(e, TRUE))
      BY <2>1 DEF NewElf, Map
    <3>. QED
      BY <3>1, <1>2 DEF Cached, IInv, Put
  <2>2. CASE ~found /\ cache_lock = t
    <3>1. cache' = CacheAdd(m, elf_offset[m])
      BY <2>2 DEF NewElf, Map
    <3>2. ASSUME NEW c, NEW k, NEW set, \A x \in DOMAIN c : c[x].elf \in MapIds
          PROVE  \A x \in DOMAIN Put(c, k, Cached(m, set)) :
                    Put(c, k, Cached(m, set))[x].elf \in MapIds
      BY <1>0, <3>2 DEF Put, Cached
    <3>3. \A x \in DOMAIN cache : cache[x].elf \in MapIds
      BY DEF IInv
    <3>. DEFINE named == IF Maps[m].offset = 0 \/ elf_offset[m] # 0
                         THEN Put(cache, NameKey(m), Cached(m, TRUE)) ELSE cache
    <3>4. \A x \in DOMAIN named : named[x].elf \in MapIds
      BY <3>2, <3>3, Zenon
    <3>5. cache' = IF Maps[m].offset # 0 THEN Put(named, Key(m), Cached(m, elf_offset[m] # 0))
                   ELSE named
      BY <3>1 DEF CacheAdd
    <3>. HIDE DEF named
    <3>. QED
      BY <3>2, <3>4, <3>5
  <2>3. CASE cache_lock # t
    BY <2>3 DEF NewElf, Map, IInv
  <2>. QED
    BY <2>1, <2>2, <2>3
<1>. HIDE DEF e
<1>5. Spares(t)
  BY <1>0, <1>1, <1>2, <1>3, ThreadsAssumption DEF Spares, IInv
<1>6. e # Null
  BY <1>2, MapsAssumption DEF Null
<1>7. ThreadOK(t)'
  BY <1>0, <1>2, <1>3, <1>6 DEF ThreadOK, Adding, IInv
<1>. QED
  BY <1>4, <1>5, <1>7, StepKeeps

\* The map before gets the elf under its own mutex, if it has none.
LEMMA SetPrevKeeps ==
    ASSUME IInv, NEW t \in Threads, SetPrev(t)
    PROVE  IInv'
<1>0. ThreadOK(t) /\ t \in DOMAIN th /\ th[t].map \in MapIds /\ th[t].pc = "prev"
  BY DEF IInv, ThreadOK, SetPrev, At_
<1>1. th' = [th EXCEPT ![t].pc = "use"] /\ UNCHANGED <<mutex, cache>>
  BY DEF SetPrev, Goto
<1>. DEFINE m == th[t].map
            p == Prev(m)
<1>2. elf[m] # Null /\ th[t].obj = elf[m]
  BY <1>0, SMTT(30) DEF ThreadOK
<1>3. \/ elf' = elf
      \/ p \in MapIds /\ mutex[p] = Null /\ elf[p] = Null /\ elf' = [elf EXCEPT ![p] = elf[m]]
  BY <1>0, MapsAssumption DEF SetPrev, SharesPrev, Map, Prev
<1>. HIDE DEF p
<1>4. Spares(t)
  BY <1>0, <1>1, <1>2, <1>3, ThreadsAssumption DEF Spares, IInv
<1>5. ThreadOK(t)'
  BY <1>0, <1>1, <1>2, <1>3 DEF ThreadOK, Adding, IInv
<1>. QED
  BY <1>1, <1>4, <1>5, StepKeeps DEF IInv

\* Every step keeps IInv.
LEMMA NextKeeps == IInv /\ [Next]_vars => IInv'
<1>. SUFFICES ASSUME IInv, [Next]_vars PROVE IInv'
  OBVIOUS
<1>1. ASSUME NEW t \in Threads, Step(t) PROVE IInv'
  BY <1>1, OnlyMoves, GetElfKeeps, CacheGetKeeps, NewElfKeeps, SetPrevKeeps DEF Step
<1>2. ASSUME NEW t \in Threads, NEW call \in Calls, NEW m \in MapIds, Call(t, call, m) PROVE IInv'
  BY <1>2, CallKeeps
<1>3. CASE UNCHANGED vars
  BY <1>3 DEF vars, mapvars, IInv, ThreadOK, Adding
<1>. QED
  BY <1>1, <1>2, <1>3 DEF Next, Terminated

(***************************************************************************)
(* The strengthening holds of every reachable state.                       *)
(***************************************************************************)
THEOREM Invariance == Spec => []IInv
  BY InitIInv, NextKeeps, PTL DEF Spec

(***************************************************************************)
(* GetElf and GetFunctionName never have a null elf in hand, and the one   *)
(* they use stays the one of the map, for any threads, maps and files.     *)
(***************************************************************************)
THEOREM ReturnsElfAlways == Spec => []ReturnsElf
<1>1. IInv => ReturnsElf
  BY DEF IInv, ThreadOK, ReturnsElf, At_, Map
<1>. QED
  BY <1>1, Invariance, PTL

(***************************************************************************)
(* A step sets the elf of one map that had none, or of no map.             *)
(***************************************************************************)
LEMMA SetsOne ==
    ASSUME IInv, [Next]_vars
    PROVE  [Once!Next]_elf
<1>1. ASSUME NEW m \in MapIds, NEW e \in MapIds, elf[m] = Null, elf' = [elf EXCEPT ![m] = e]
      PROVE  Once!Next
  BY <1>1, Zenon DEF Once!Next, Once!Set
<1>2. ASSUME NEW t \in Threads, CacheGet(t) PROVE elf' = elf \/ Once!Next
  <2>1. ThreadOK(t) /\ th[t].map \in MapIds /\ elf[th[t].map] = Null
    BY <1>2 DEF IInv, ThreadOK, CacheGet, At_, Adding
  <2>2. CASE Key(Map(t)) \in DOMAIN cache
    <3>1. cache[Key(Map(t))].elf \in MapIds
      BY <2>2 DEF IInv
    <3>2. elf' = [elf EXCEPT ![th[t].map] = cache[Key(Map(t))].elf]
      BY <1>2, <2>2 DEF CacheGet, Map
    <3>. QED
      BY <1>1, <2>1, <3>1, <3>2, Zenon
  <2>. QED
    BY <1>2, <2>2 DEF CacheGet
<1>3. ASSUME NEW t \in Threads, NewElf(t) PROVE Once!Next
  <2>. DEFINE m == th[t].map
              found == cache_lock = t /\ CacheAfterCreateMemory(m, elf_offset[m])
              e == IF found THEN cache[NameKey(m)].elf ELSE m
  <2>1. m \in MapIds /\ elf[m] = Null
    BY <1>3 DEF IInv, ThreadOK, NewElf, At_, Adding
  <2>2. e \in MapIds
    BY <2>1, Zenon DEF IInv, CacheAfterCreateMemory
  <2>3. elf' = [elf EXCEPT ![m] = e]
    BY <1>3 DEF NewElf, Map
  <2>. HIDE DEF m, e
  <2>. QED
    BY <1>1, <2>1, <2>2, <2>3, Zenon
<1>4. ASSUME NEW t \in Threads, SetPrev(t) PROVE elf' = elf \/ Once!Next
  <2>. DEFINE m == th[t].map
              p == Prev(m)
  <2>1. m \in MapIds /\ elf[m] # Null /\ elf[m] \in MapIds
    BY <1>4 DEF IInv, ThreadOK, SetPrev, At_
  <2>2. \/ elf' = elf
        \/ p \in MapIds /\ elf[p] = Null /\ elf' = [elf EXCEPT ![p] = elf[m]]
    BY <1>4, <2>1, MapsAssumption, Zenon DEF SetPrev, SharesPrev, Map, Prev
  <2>. HIDE DEF m, p
  <2>. QED
    BY <1>1, <2>1, <2>2
<1>5. ASSUME NEW t \in Threads,
             \/ GetElf(t) \/ Return(t) \/ GetFunctionName(t) \/ GetLoadBias(t) \/ GetLoadBiasCheck(t)
             \/ GetLoadBiasStatic(t) \/ GetBuildID(t) \/ GetBuildIDCheck(t)
             \/ GetBuildIDObject(t) \/ GetBuildIDRead(t) \/ GetBuildIDSave(t)
             \/ CreateMemory(t) \/ CreateMemoryEnd(t)
      PROVE  elf' = elf
  BY <1>5, Zenon DEF GetElf, Return, GetFunctionName, GetLoadBias, GetLoadBiasCheck, GetLoadBiasStatic,
     GetBuildID, GetBuildIDCheck, GetBuildIDObject, GetBuildIDRead, GetBuildIDSave, CreateMemory,
     CreateMemoryEnd, mapvars
<1>6. ASSUME NEW t \in Threads, NEW call \in Calls, NEW m \in MapIds, Call(t, call, m)
      PROVE  elf' = elf
  BY <1>6 DEF Call, mapvars
<1>7. UNCHANGED vars => elf' = elf
  BY DEF vars, mapvars
<1>. QED
  BY <1>2, <1>3, <1>4, <1>5, <1>6, <1>7 DEF Next, Step, Terminated

(***************************************************************************)
(* MapElf implements ElfOnce: the elf of a map is set once and never       *)
(* replaced, so the plain pointer that GetElf returned stays good.         *)
(***************************************************************************)
THEOREM Refinement == Spec => SetOnce
<1>1. Init => Once!Init
  BY DEF Init, Once!Init
<1>2. IInv /\ [Next]_vars => [Once!Next]_elf
  BY SetsOne
<1>. QED
  BY <1>1, <1>2, Invariance, PTL DEF Spec, SetOnce, Once!Spec


(***************************************************************************)
(* What CreateMemory makes of the file of a map                            *)
(***************************************************************************)
FileAt(m) == GetFileMemory(m).at
FileOffset(m) == GetFileMemory(m).elf_offset
FileStart(m) == GetFileMemory(m).elf_start_offset
Start(m) == IF FileStart(m) = NotSet THEN 0 ELSE FileStart(m)
AtBegin(m) == At(Maps[m].name, 0, "file")

\* The fields of a memory that could be created.
LEMMA MemoryFields ==
  ASSUME NEW at, NEW offset, NEW start, NEW backed, NEW r, r = Memory(at, offset, start, backed)
  PROVE  r.at = at /\ r.elf_offset = offset /\ r.elf_start_offset = start /\ r.ok
  BY DEF Memory

\* A file that can be opened where it is mapped can be opened at its begin.
LEMMA OpensAtBegin ==
  ASSUME FilesThere, NEW m \in MapIds
  PROVE  FileInit(Maps[m].name, 0) /\ FileInit(Maps[m].name, Maps[m].offset) /\ Maps[m].offset \in Nat
<1>1. /\ Maps[m].offset \in Nat /\ FileInit(Maps[m].name, Maps[m].offset) /\ Files[Maps[m].name].size \in Nat
  BY Zenon DEF FilesThere
<1> QED
  BY <1>1 DEF FileInit

\* GetFileMemory, case by case: the map begins the file; an elf begins at its
\* offset; the file is an elf; an elf begins at the map before; there is none.
LEMMA FileKinds ==
  ASSUME FilesThere, NEW m \in MapIds
  PROVE  LET name == Maps[m].name
             offset == Maps[m].offset
         IN  \/ /\ offset = 0 /\ FileAt(m) = (IF ElfAt(name, 0) THEN At(name, 0, "file") ELSE Nowhere)
                /\ FileOffset(m) = 0 /\ FileStart(m) = NotSet
             \/ /\ offset # 0 /\ ElfAt(name, offset)
                /\ FileAt(m) = At(name, offset, "file") /\ FileOffset(m) = 0 /\ FileStart(m) = offset
             \/ /\ offset # 0 /\ ~ElfAt(name, offset) /\ ElfAt(name, 0)
                /\ FileAt(m) = At(name, 0, "file") /\ FileOffset(m) = offset
                /\ FileStart(m) = (IF SplitFrom(m) THEN NotSet ELSE offset)
             \/ /\ offset # 0 /\ ~ElfAt(name, offset) /\ ~ElfAt(name, 0)
                /\ InitFileMemoryFromPreviousReadOnlyMap(m)
                /\ FileAt(m) = At(name, Maps[Prev(m)].offset, "file")
                /\ FileOffset(m) = offset - Maps[Prev(m)].offset /\ FileStart(m) = Maps[Prev(m)].offset
             \/ /\ offset # 0 /\ ~ElfAt(name, offset) /\ ~ElfAt(name, 0)
                /\ FileAt(m) = Nowhere /\ FileOffset(m) = 0 /\ FileStart(m) = NotSet
<1> DEFINE name == Maps[m].name
           offset == Maps[m].offset
           pre == Maps[Prev(m)].offset
           r == GetFileMemory(m)
<1>1. FileInit(name, 0) /\ FileInit(name, offset)
  BY OpensAtBegin
<1>2. FileAt(m) = r.at /\ FileOffset(m) = r.elf_offset /\ FileStart(m) = r.elf_start_offset
  BY DEF FileAt, FileOffset, FileStart
<1>3. CASE offset = 0
  <2>1. r = Memory(IF ElfAt(name, 0) THEN At(name, 0, "file") ELSE Nowhere, 0, NotSet, FALSE)
    BY <1>1, <1>3, Zenon DEF GetFileMemory
  <2>2. /\ r.at = (IF ElfAt(name, 0) THEN At(name, 0, "file") ELSE Nowhere)
        /\ r.elf_offset = 0 /\ r.elf_start_offset = (NotSet)
    <3> HIDE DEF r
    <3> QED
      BY <2>1 DEF Memory
  <2> HIDE DEF r
  <2> QED
    BY <1>2, <1>3, <2>2
<1>4. CASE offset # 0 /\ ElfAt(name, offset)
  <2>1. r = Memory(At(name, offset, "file"), 0, offset, FALSE)
    BY <1>1, <1>4, Zenon DEF GetFileMemory
  <2>2. /\ r.at = (At(name, offset, "file"))
        /\ r.elf_offset = 0 /\ r.elf_start_offset = (offset)
    <3> HIDE DEF r
    <3> QED
      BY <2>1 DEF Memory
  <2> HIDE DEF r
  <2> QED
    BY <1>2, <1>4, <2>2
<1>5. CASE offset # 0 /\ ~ElfAt(name, offset) /\ ElfAt(name, 0)
  <2>1. r = Memory(At(name, 0, "file"), offset, IF SplitFrom(m) THEN NotSet ELSE offset, FALSE)
    BY <1>1, <1>5, Zenon DEF GetFileMemory
  <2>2. /\ r.at = (At(name, 0, "file"))
        /\ r.elf_offset = offset /\ r.elf_start_offset = (IF SplitFrom(m) THEN NotSet ELSE offset)
    <3> HIDE DEF r
    <3> QED
      BY <2>1 DEF Memory
  <2> HIDE DEF r
  <2> QED
    BY <1>2, <1>5, <2>2
<1>6. CASE offset # 0 /\ ~ElfAt(name, offset) /\ ~ElfAt(name, 0) /\ InitFileMemoryFromPreviousReadOnlyMap(m)
  <2>1. r = Memory(At(name, pre, "file"), offset - pre, pre, FALSE)
    BY <1>1, <1>6, Zenon DEF GetFileMemory
  <2>2. /\ r.at = (At(name, pre, "file"))
        /\ r.elf_offset = offset - pre /\ r.elf_start_offset = (pre)
    <3> HIDE DEF r
    <3> QED
      BY <2>1 DEF Memory
  <2> HIDE DEF r
  <2> QED
    BY <1>2, <1>6, <2>2
<1>7. CASE offset # 0 /\ ~ElfAt(name, offset) /\ ~ElfAt(name, 0) /\ ~InitFileMemoryFromPreviousReadOnlyMap(m)
  <2>1. r = Memory(Nowhere, 0, NotSet, FALSE)
    BY <1>1, <1>7, Zenon DEF GetFileMemory
  <2>2. /\ r.at = (Nowhere)
        /\ r.elf_offset = 0 /\ r.elf_start_offset = (NotSet)
    <3> HIDE DEF r
    <3> QED
      BY <2>1 DEF Memory
  <2> HIDE DEF r
  <2> QED
    BY <1>2, <1>7, <2>2
<1> QED
  BY <1>3, <1>4, <1>5, <1>6, <1>7

\* The elf of a map whose file is there is the one of the file.
LEMMA MadeFromFile ==
  ASSUME FilesThere, NEW m \in MapIds
  PROVE  Made(m) = GetFileMemory(m)
<1>1. Maps[m].start \in Nat /\ Maps[m].end \in Nat /\ Maps[m].start < Maps[m].end
  BY Zenon DEF FilesThere
<1>2. ~(Maps[m].end <= Maps[m].start)
  BY <1>1
<1>3. GetFileMemory(m).ok
  <2> DEFINE name == Maps[m].name
             offset == Maps[m].offset
             pre == Maps[Prev(m)].offset
  <2>1. FileInit(name, 0) /\ FileInit(name, offset)
    BY OpensAtBegin
  <2>2. \E at, o, start, backed : GetFileMemory(m) = Memory(at, o, start, backed)
    BY <2>1, Zenon DEF GetFileMemory
  <2> QED
    BY <2>2, MemoryFields
<1> QED
  BY <1>2, <1>3, Zenon DEF Made, FilesThere

\* A map that shares its elf with the map before has the elf of that map,
\* which begins there.
LEMMA SharedIsRight ==
  ASSUME FilesThere, NEW m \in MapIds, NEW p \in MapIds, p = Prev(m), Start(m) # Maps[m].offset,
         Maps[p].offset = Start(m), Maps[p].name = Maps[m].name
  PROVE  FileAt(p) = FileAt(m) /\ FileOffset(p) = 0
<1> DEFINE name == Maps[m].name
           offset == Maps[m].offset
<1>1. offset \in Nat /\ Maps[p].offset \in Nat
  BY OpensAtBegin
<1>2. FileStart(m) # offset
  BY <1>1 DEF Start, NotSet
<1>3. CASE offset # 0 /\ ~ElfAt(name, offset) /\ ElfAt(name, 0)
           /\ FileAt(m) = At(name, 0, "file") /\ FileStart(m) = NotSet
  <2>1. Maps[p].offset = 0
    BY <1>3 DEF Start
  <2> QED
    BY <1>3, <2>1, FileKinds
<1>4. CASE offset # 0 /\ ~ElfAt(name, offset) /\ ~ElfAt(name, 0)
           /\ InitFileMemoryFromPreviousReadOnlyMap(m)
           /\ FileAt(m) = At(name, Maps[p].offset, "file") /\ FileStart(m) = Maps[p].offset
  <2>1. ElfAt(name, Maps[p].offset) /\ Maps[p].offset # 0
    BY <1>4 DEF InitFileMemoryFromPreviousReadOnlyMap
  <2> QED
    BY <1>4, <2>1, FileKinds
<1>5. CASE offset # 0 /\ ~ElfAt(name, 0) /\ FileAt(m) = Nowhere /\ FileStart(m) = NotSet
  <2>1. Maps[p].offset = 0
    BY <1>5 DEF Start
  <2> QED
    BY <1>5, <2>1, FileKinds
<1>6. CASE offset = 0 /\ FileStart(m) = NotSet
  BY <1>6 DEF Start
<1> QED
  BY <1>2, <1>3, <1>4, <1>5, <1>6, FileKinds

\* In a file that begins with an elf, what a map shows is told by its offset:
\* it is the elf at the begin unless one begins at the offset.
LEMMA ElfFile ==
  ASSUME FilesThere, NEW m \in MapIds, ElfAt(Maps[m].name, 0)
  PROVE  \/ Maps[m].offset = 0 /\ FileAt(m) = AtBegin(m) /\ FileOffset(m) = 0
         \/ /\ Maps[m].offset # 0 /\ ElfAt(Maps[m].name, Maps[m].offset) /\ FileOffset(m) = 0
            /\ FileAt(m) = At(Maps[m].name, Maps[m].offset, "file") /\ FileAt(m) # AtBegin(m)
         \/ /\ Maps[m].offset # 0 /\ ~ElfAt(Maps[m].name, Maps[m].offset) /\ FileOffset(m) = Maps[m].offset
            /\ FileAt(m) = AtBegin(m)
<1>1. ASSUME NEW name, NEW o, o # 0 PROVE At(name, o, "file") # At(name, 0, "file")
  BY <1>1 DEF At
<1> QED
  BY <1>1, FileKinds DEF AtBegin

\* Maps with the same key show the same.
LEMMA SameKey ==
  ASSUME FilesThere, NEW m \in MapIds, NEW n \in MapIds, ElfAt(Maps[m].name, 0), Key(m) = Key(n)
  PROVE  FileAt(m) = FileAt(n) /\ FileOffset(m) = FileOffset(n) /\ AtBegin(m) = AtBegin(n) /\ NameKey(m) = NameKey(n)
<1>1. Maps[m].name = Maps[n].name /\ Maps[m].offset = Maps[n].offset
  BY DEF Key
<1> QED
  BY <1>1, ElfFile DEF AtBegin, NameKey

(***************************************************************************)
(* The fields of the maps, the elfs and the cache, whatever calls overlap  *)
(***************************************************************************)
Fields ==
  /\ DOMAIN elf_offset = MapIds /\ DOMAIN elf_start_offset = MapIds /\ DOMAIN load_bias = MapIds
  /\ \A m \in MapIds : /\ elf_offset[m] \in {0, FileOffset(m)}
                       /\ elf_start_offset[m] \in {0, Start(m)}
                       /\ load_bias[m] \in {NotSet, LoadBias(FileAt(m)), StaticLoadBias(FileAt(m))}
\* A thread that has created the memory has set elf_start_offset.
Started == \A t \in Threads : th[t].pc \in {"add", "prev"} => elf_start_offset[th[t].map] = Start(th[t].map)
RightElfs == \A m \in MapIds : elf[m] # Null => FileAt(elf[m]) = FileAt(m)
RightEntries(c) ==
  \A m \in MapIds :
    /\ Key(m) \in DOMAIN c => /\ FileAt(c[Key(m)].elf) = FileAt(m)
                              /\ c[Key(m)].set => FileOffset(m) = Maps[m].offset
    /\ NameKey(m) \in DOMAIN c => FileAt(c[NameKey(m)].elf) = AtBegin(m)
CacheInv ==
  /\ RightEntries(cache)
  /\ ~CachingEnabled => cache_lock = Null /\ DOMAIN cache = {} /\ \A t \in Threads : th[t].pc # "cache"
FieldsInv == Fields /\ Started /\ RightElfs /\ CacheInv

\* Adding an entry to the cache.
LEMMA PutIs ==
  ASSUME NEW c, NEW k, NEW v
  PROVE  /\ DOMAIN Put(c, k, v) = DOMAIN c \cup {k} /\ Put(c, k, v)[k] = v
         /\ \A x \in DOMAIN c : x # k => Put(c, k, v)[x] = c[x]
  BY DEF Put

\* The entry of a map's key is right for every map with that key.
LEMMA PutKeyRight ==
  ASSUME FilesThere, NEW m \in MapIds, ElfAt(Maps[m].name, 0), NEW c, RightEntries(c), NEW e, NEW set,
         FileAt(e) = FileAt(m), set => FileOffset(m) = Maps[m].offset
  PROVE  RightEntries(Put(c, Key(m), Cached(e, set)))
<1> DEFINE d == Put(c, Key(m), Cached(e, set))
<1>1. /\ DOMAIN d = DOMAIN c \cup {Key(m)} /\ d[Key(m)].elf = e /\ d[Key(m)].set = set
      /\ \A x \in DOMAIN c : x # Key(m) => d[x] = c[x]
  <2>1. Cached(e, set).elf = e /\ Cached(e, set).set = set
    BY DEF Cached
  <2>2. /\ DOMAIN d = DOMAIN c \cup {Key(m)} /\ d[Key(m)] = Cached(e, set)
        /\ \A x \in DOMAIN c : x # Key(m) => d[x] = c[x]
    BY DEF Put
  <2> HIDE DEF d
  <2> QED
    BY <2>1, <2>2
<1> HIDE DEF d
<1>2. ASSUME NEW n \in MapIds, Key(n) \in DOMAIN d
      PROVE  FileAt(d[Key(n)].elf) = FileAt(n) /\ (d[Key(n)].set => FileOffset(n) = Maps[n].offset)
  <2>1. CASE Key(n) = Key(m)
    <3>1. FileAt(n) = FileAt(m) /\ FileOffset(n) = FileOffset(m)
      BY <2>1, SameKey
    <3>2. Maps[n].offset = Maps[m].offset
      BY <2>1 DEF Key
    <3> QED
      BY <1>1, <2>1, <3>1, <3>2
  <2>2. CASE Key(n) # Key(m)
    BY <1>1, <1>2, <2>2 DEF RightEntries
  <2> QED
    BY <2>1, <2>2
<1>3. ASSUME NEW n \in MapIds, NameKey(n) \in DOMAIN d PROVE FileAt(d[NameKey(n)].elf) = AtBegin(n)
  <2>1. CASE NameKey(n) = Key(m)
    <3>1. Maps[m].offset = 0 /\ Maps[n].name = Maps[m].name
      BY <2>1 DEF Key, NameKey
    <3>2. FileAt(m) = AtBegin(m)
      BY <3>1, ElfFile
    <3> QED
      BY <1>1, <2>1, <3>1, <3>2 DEF AtBegin
  <2>2. CASE NameKey(n) # Key(m)
    BY <1>1, <1>3, <2>2 DEF RightEntries
  <2> QED
    BY <2>1, <2>2
<1> QED
  BY <1>2, <1>3 DEF RightEntries, d

\* So is the entry of a file's name.
LEMMA PutNameRight ==
  ASSUME FilesThere, CachedFilesAreElfs, CachingEnabled, NEW m \in MapIds, FileAt(m) = AtBegin(m),
         NEW c, RightEntries(c)
  PROVE  RightEntries(Put(c, NameKey(m), Cached(m, TRUE)))
<1> DEFINE d == Put(c, NameKey(m), Cached(m, TRUE))
<1>1. /\ DOMAIN d = DOMAIN c \cup {NameKey(m)} /\ d[NameKey(m)].elf = m
      /\ \A x \in DOMAIN c : x # NameKey(m) => d[x] = c[x]
  <2>1. Cached(m, TRUE).elf = m
    BY DEF Cached
  <2>2. /\ DOMAIN d = DOMAIN c \cup {NameKey(m)} /\ d[NameKey(m)] = Cached(m, TRUE)
        /\ \A x \in DOMAIN c : x # NameKey(m) => d[x] = c[x]
    BY DEF Put
  <2> HIDE DEF d
  <2> QED
    BY <2>1, <2>2, Zenon
<1> HIDE DEF d
<1>2. ASSUME NEW n \in MapIds, Key(n) \in DOMAIN d
      PROVE  FileAt(d[Key(n)].elf) = FileAt(n) /\ (d[Key(n)].set => FileOffset(n) = Maps[n].offset)
  <2>1. CASE Key(n) = NameKey(m)
    <3>1. Maps[n].offset = 0 /\ Maps[n].name = Maps[m].name
      BY <2>1 DEF Key, NameKey
    <3>2. ElfAt(Maps[n].name, 0)
      BY DEF CachedFilesAreElfs
    <3>3. FileAt(n) = AtBegin(n) /\ FileOffset(n) = 0
      BY <3>1, <3>2, ElfFile
    <3> QED
      BY <1>1, <2>1, <3>1, <3>3 DEF AtBegin
  <2>2. CASE Key(n) # NameKey(m)
    BY <1>1, <1>2, <2>2 DEF RightEntries
  <2> QED
    BY <2>1, <2>2
<1>3. ASSUME NEW n \in MapIds, NameKey(n) \in DOMAIN d PROVE FileAt(d[NameKey(n)].elf) = AtBegin(n)
  <2>1. CASE NameKey(n) = NameKey(m)
    <3>1. Maps[n].name = Maps[m].name
      BY <2>1 DEF NameKey
    <3> QED
      BY <1>1, <2>1, <3>1 DEF AtBegin
  <2>2. CASE NameKey(n) # NameKey(m)
    BY <1>1, <1>3, <2>2 DEF RightEntries
  <2> QED
    BY <2>1, <2>2
<1> QED
  BY <1>2, <1>3, Zenon DEF RightEntries, d

(***************************************************************************)
(* The steps that change no field but build_id                             *)
(***************************************************************************)
Plain(t) ==
  /\ UNCHANGED <<elf, elf_offset, elf_start_offset, load_bias, cache, cache_lock>>
  /\ DOMAIN th' = Threads /\ \A u \in Threads \ {t} : th'[u] = th[u]
  /\ th'[t].pc \notin {"add", "prev", "create_end"}
  /\ th'[t].pc \in {"cache", "create"} => (th'[t].pc = "cache" <=> CachingEnabled)
  /\ th'[t].call \in {th[t].call, "none"} \cup Calls

\* GetElf is plain: it goes to the cache if there is one.
LEMMA GetElfPlain == ASSUME FilesThere, IInv, NEW t \in Threads, GetElf(t) PROVE Plain(t)
<1>0. t \in DOMAIN th /\ ThreadOK(t) /\ At_(t, "lock")
  BY Zenon DEF IInv, GetElf
<1>1. Map(t) \in MapIds
  BY <1>0 DEF ThreadOK, At_, Map
<1>2. Maps[Map(t)].name # ""
  BY <1>1, Zenon DEF FilesThere
<1>3. UNCHANGED <<elf, elf_offset, elf_start_offset, load_bias, cache, cache_lock>>
  BY Zenon DEF GetElf, mapvars
<1>4. \/ th' = [th EXCEPT ![t].pc = "use", ![t].obj = elf[Map(t)]]
      \/ th' = [th EXCEPT ![t].pc = IF CachingEnabled THEN "cache" ELSE "create"]
  BY <1>2, Zenon DEF GetElf, Goto, Goes
<1> QED
  BY <1>0, <1>3, <1>4 DEF Plain, IInv, ThreadOK

\* So are the steps that only read.
LEMMA OthersPlain ==
  ASSUME IInv, NEW t \in Threads,
         \/ Return(t) \/ GetFunctionName(t) \/ GetLoadBias(t) \/ GetBuildID(t) \/ GetBuildIDCheck(t)
         \/ GetBuildIDObject(t) \/ GetBuildIDSave(t)
  PROVE  Plain(t)
<1>0. DOMAIN th = Threads /\ DOMAIN th[t] = {"pc", "call", "map", "id", "obj", "left"}
  BY DEF IInv, ThreadOK
<1>1. CASE Return(t)
  BY <1>0, <1>1 DEF Return, Plain, mapvars, Idle
<1>2. CASE GetFunctionName(t)
  BY <1>0, <1>2 DEF GetFunctionName, Plain, mapvars, Goes
<1>3. CASE GetLoadBias(t)
  BY <1>0, <1>3 DEF GetLoadBias, Plain, mapvars, Goto
<1>4. CASE GetBuildID(t)
  BY <1>0, <1>4 DEF GetBuildID, Plain, mapvars, Goes
<1>5. CASE GetBuildIDCheck(t)
  BY <1>0, <1>5 DEF GetBuildIDCheck, Plain, mapvars, Goto
<1>6. CASE GetBuildIDObject(t)
  BY <1>0, <1>6 DEF GetBuildIDObject, Plain, mapvars, Goes
<1>7. CASE GetBuildIDSave(t)
  BY <1>0, <1>7 DEF GetBuildIDSave, Plain, mapvars, Goto
<1> QED
  BY <1>1, <1>2, <1>3, <1>4, <1>5, <1>6, <1>7

\* So is a call.
LEMMA CallPlain ==
  ASSUME IInv, NEW t \in Threads, NEW call \in Calls, NEW m \in MapIds, Call(t, call, m)
  PROVE  Plain(t)
<1>1. EntryPoint(call) \in {"lock", "load", "load_id", "name"}
  BY CallsAssumption DEF EntryPoint
<1>2. th'[t] = [Idle(th[t].left - 1) EXCEPT !.pc = EntryPoint(call), !.call = call, !.map = m]
  BY DEF Call, IInv
<1>3. th'[t].pc = EntryPoint(call) /\ th'[t].call = call
  BY <1>2 DEF Idle
<1> QED
  BY <1>1, <1>3 DEF Call, Plain, mapvars, IInv

\* A plain step keeps what is known of the fields.
LEMMA PlainFields == ASSUME FieldsInv, NEW t \in Threads, Plain(t) PROVE FieldsInv'
<1>1. Fields'
  BY DEF FieldsInv, Fields, Plain
<1>2. Started'
  BY DEF FieldsInv, Started, Plain
<1>3. RightElfs'
  BY DEF FieldsInv, RightElfs, Plain
<1>4. CacheInv'
  BY DEF FieldsInv, CacheInv, Plain
<1> QED
  BY <1>1, <1>2, <1>3, <1>4 DEF FieldsInv

(***************************************************************************)
(* One lemma for each of the other steps                                   *)
(***************************************************************************)
\* CreateMemory resets elf_offset, of a map whose file is not empty.
LEMMA CreateMemoryFields ==
  ASSUME FilesThere, IInv, FieldsInv, NEW t \in Threads, CreateMemory(t)
  PROVE  FieldsInv'
<1> DEFINE m == th[t].map
<1>0. DOMAIN th = Threads /\ DOMAIN th[t] = {"pc", "call", "map", "id", "obj", "left"} /\ m \in MapIds
  BY DEF IInv, ThreadOK, CreateMemory, At_
<1>1. /\ th' = [th EXCEPT ![t].pc = "create_end"]
      /\ elf_offset' = elf_offset \/ elf_offset' = [elf_offset EXCEPT ![m] = 0]
      /\ UNCHANGED <<elf, elf_start_offset, load_bias, cache, cache_lock>>
  BY Zenon DEF CreateMemory, Goto, SetOffset, Map
<1>2. DOMAIN th' = Threads /\ (\A u \in Threads \ {t} : th'[u] = th[u]) /\ th'[t].pc = "create_end"
  BY <1>0, <1>1
<1> HIDE DEF m
<1>3. Fields'
  BY <1>0, <1>1 DEF FieldsInv, Fields
<1>4. Started'
  BY <1>1, <1>2 DEF FieldsInv, Started
<1>5. RightElfs'
  BY <1>1 DEF FieldsInv, RightElfs
<1>6. CacheInv'
  BY <1>1, <1>2 DEF FieldsInv, CacheInv
<1> QED
  BY <1>3, <1>4, <1>5, <1>6 DEF FieldsInv

\* What SetStart assigns is the start of the elf of the map's file.
LEMMA SetStartIs ==
  ASSUME Fields, NEW m \in MapIds, SetStart(m, GetFileMemory(m))
  PROVE  /\ DOMAIN elf_start_offset' = MapIds /\ elf_start_offset'[m] = Start(m)
         /\ \A n \in MapIds : elf_start_offset'[n] = elf_start_offset[n] \/ elf_start_offset'[n] = Start(n)
<1>1. elf_start_offset' = IF FileStart(m) = NotSet THEN elf_start_offset
                          ELSE [elf_start_offset EXCEPT ![m] = FileStart(m)]
  BY Zenon DEF SetStart, FileStart
<1>2. DOMAIN elf_start_offset = MapIds /\ elf_start_offset[m] \in {0, Start(m)}
  BY DEF Fields
<1> QED
  BY <1>1, <1>2 DEF Start

\* CreateMemory ends with the offsets of the elf of the file.
LEMMA CreateMemoryEndFields ==
  ASSUME FilesThere, IInv, FieldsInv, NEW t \in Threads, CreateMemoryEnd(t)
  PROVE  FieldsInv'
<1> DEFINE m == th[t].map
<1>0. DOMAIN th = Threads /\ DOMAIN th[t] = {"pc", "call", "map", "id", "obj", "left"} /\ m \in MapIds
  BY DEF IInv, ThreadOK, CreateMemoryEnd, At_
<1>1. Made(m) = GetFileMemory(m)
  BY <1>0, MadeFromFile
<1>2. /\ th' = [th EXCEPT ![t].pc = IF th[t].call = "GetElf" THEN "add" ELSE "static"]
      /\ elf_offset' = elf_offset \/ elf_offset' = [elf_offset EXCEPT ![m] = FileOffset(m)]
      /\ SetStart(m, GetFileMemory(m)) /\ UNCHANGED <<elf, load_bias, cache, cache_lock>>
  BY <1>1, Zenon DEF CreateMemoryEnd, Goto, SetElfOffset, SetOffset, Map, FileOffset
<1>3. DOMAIN th' = Threads /\ (\A u \in Threads \ {t} : th'[u] = th[u]) /\ th'[t].pc \in {"add", "static"}
      /\ th'[t].map = m
  BY <1>0, <1>2
<1> HIDE DEF m
<1>4. /\ DOMAIN elf_start_offset' = MapIds /\ elf_start_offset'[m] = Start(m)
      /\ \A n \in MapIds : elf_start_offset'[n] = elf_start_offset[n] \/ elf_start_offset'[n] = Start(n)
  BY <1>0, <1>2, SetStartIs DEF FieldsInv
<1>5. Fields'
  BY <1>0, <1>2, <1>4 DEF FieldsInv, Fields
<1>6. Started'
  <2>1. ASSUME NEW u \in Threads, th[u].pc \in {"add", "prev"} PROVE th[u].map \in MapIds
    BY <2>1 DEF IInv, ThreadOK
  <2> QED
    BY <1>3, <1>4, <2>1 DEF FieldsInv, Started
<1>7. RightElfs'
  BY <1>2 DEF FieldsInv, RightElfs
<1>8. CacheInv'
  BY <1>2, <1>3 DEF FieldsInv, CacheInv
<1> QED
  BY <1>5, <1>6, <1>7, <1>8 DEF FieldsInv

\* GetBuildID sets the offsets that the elf of the file has.
LEMMA GetBuildIDReadFields ==
  ASSUME FilesThere, IInv, FieldsInv, NEW t \in Threads, GetBuildIDRead(t)
  PROVE  FieldsInv'
<1> DEFINE m == th[t].map
<1>0. DOMAIN th = Threads /\ DOMAIN th[t] = {"pc", "call", "map", "id", "obj", "left"} /\ m \in MapIds
  BY DEF IInv, ThreadOK, GetBuildIDRead, At_
<1>1. /\ th' = [th EXCEPT ![t].pc = "save_id", ![t].id = t]
      /\ UNCHANGED <<elf, load_bias, cache, cache_lock>>
  BY Zenon DEF GetBuildIDRead, Goes
<1>2. /\ elf_offset' = elf_offset \/ elf_offset' = [elf_offset EXCEPT ![m] = FileOffset(m)]
      /\ elf_start_offset' = elf_start_offset \/ SetStart(m, GetFileMemory(m))
  BY Zenon DEF GetBuildIDRead, SetElfOffset, SetOffset, FileOffset, Map
<1>3. DOMAIN th' = Threads /\ (\A u \in Threads \ {t} : th'[u] = th[u]) /\ th'[t].pc = "save_id"
  BY <1>0, <1>1
<1> HIDE DEF m
<1>4. /\ DOMAIN elf_start_offset' = MapIds
      /\ \A n \in MapIds : elf_start_offset'[n] = elf_start_offset[n] \/ elf_start_offset'[n] = Start(n)
  BY <1>0, <1>2, SetStartIs DEF FieldsInv, Fields
<1>5. Fields'
  BY <1>0, <1>1, <1>2, <1>4 DEF FieldsInv, Fields
<1>6. Started'
  <2>1. ASSUME NEW u \in Threads, th[u].pc \in {"add", "prev"} PROVE th[u].map \in MapIds
    BY <2>1 DEF IInv, ThreadOK
  <2> QED
    BY <1>3, <1>4, <2>1 DEF FieldsInv, Started
<1>7. RightElfs'
  BY <1>1 DEF FieldsInv, RightElfs
<1>8. CacheInv'
  BY <1>1, <1>3 DEF FieldsInv, CacheInv
<1> QED
  BY <1>5, <1>6, <1>7, <1>8 DEF FieldsInv

\* The load bias is that of the elf of the file, from the object or without.
LEMMA LoadBiasFields ==
  ASSUME FilesThere, CachedFilesAreElfs, IInv, FieldsInv, NEW t \in Threads, GetLoadBiasCheck(t) \/ GetLoadBiasStatic(t)
  PROVE  FieldsInv'
<1> DEFINE m == th[t].map
<1>0. DOMAIN th = Threads /\ DOMAIN th[t] = {"pc", "call", "map", "id", "obj", "left"} /\ m \in MapIds
  BY DEF IInv, ThreadOK, GetLoadBiasCheck, GetLoadBiasStatic, At_
<1>1. UNCHANGED <<elf, elf_offset, elf_start_offset, cache, cache_lock>>
  BY Zenon DEF GetLoadBiasCheck, GetLoadBiasStatic
<1>2. \E pc \in {"create", "done"} : th' = [th EXCEPT ![t].pc = pc]
  BY Zenon DEF GetLoadBiasCheck, GetLoadBiasStatic, Goto
<1>3. DOMAIN th' = Threads /\ (\A u \in Threads \ {t} : th'[u] = th[u]) /\ th'[t].pc \in {"create", "done"}
  BY <1>0, <1>2
<1>4. \/ load_bias' = load_bias
      \/ load_bias' = [load_bias EXCEPT ![m] = LoadBias(FileAt(m))]
      \/ load_bias' = [load_bias EXCEPT ![m] = StaticLoadBias(FileAt(m))]
  <2>1. Made(m).at = FileAt(m)
    BY <1>0, MadeFromFile, Zenon DEF FileAt
  <2>2. ASSUME elf[m] # Null PROVE Shows(m) = FileAt(m)
    <3>1. elf[m] \in MapIds
      BY <1>0, <2>2 DEF IInv
    <3>2. Made(elf[m]).at = FileAt(elf[m])
      BY <3>1, MadeFromFile, Zenon DEF FileAt
    <3> QED
      BY <1>0, <2>2, <3>2, Zenon DEF Shows, FieldsInv, RightElfs
  <2>3. CASE GetLoadBiasCheck(t)
    BY <2>2, <2>3, Zenon DEF GetLoadBiasCheck, Map
  <2>4. CASE GetLoadBiasStatic(t)
    BY <2>1, <2>4, Zenon DEF GetLoadBiasStatic, Map
  <2> QED
    BY <2>3, <2>4
<1> HIDE DEF m
<1>5. Fields'
  BY <1>0, <1>1, <1>4 DEF FieldsInv, Fields
<1>6. Started'
  BY <1>1, <1>3 DEF FieldsInv, Started
<1>7. RightElfs'
  BY <1>1 DEF FieldsInv, RightElfs
<1>8. CacheInv'
  BY <1>1, <1>3 DEF FieldsInv, CacheInv
<1> QED
  BY <1>5, <1>6, <1>7, <1>8 DEF FieldsInv

\* An elf of the cache is the elf of the map's file.
LEMMA CacheGetFields ==
  ASSUME FilesThere, CachedFilesAreElfs, IInv, FieldsInv, NEW t \in Threads, CacheGet(t)
  PROVE  FieldsInv'
<1> DEFINE m == th[t].map
           hit == Key(m) \in DOMAIN cache
           e == cache[Key(m)]
<1>0. DOMAIN th = Threads /\ DOMAIN th[t] = {"pc", "call", "map", "id", "obj", "left"} /\ m \in MapIds
      /\ th[t].pc = "cache"
  BY DEF IInv, ThreadOK, CacheGet, At_
<1>1. CachingEnabled
  BY <1>0 DEF FieldsInv, CacheInv
<1>2. UNCHANGED <<elf_start_offset, load_bias, cache>>
  BY Zenon DEF CacheGet
<1>3. \/ th' = [th EXCEPT ![t].pc = "use", ![t].obj = e.elf]
      \/ th' = [th EXCEPT ![t].pc = "create"]
  BY Zenon DEF CacheGet, Goes, Goto, Map
<1>4. elf' = elf \/ (hit /\ elf' = [elf EXCEPT ![m] = e.elf])
  BY Zenon DEF CacheGet, Map
<1>5. elf_offset' = elf_offset \/ (hit /\ e.set /\ elf_offset' = [elf_offset EXCEPT ![m] = Maps[m].offset])
  BY Zenon DEF CacheGet, Map, SetOffset
<1>6. DOMAIN th' = Threads /\ (\A u \in Threads \ {t} : th'[u] = th[u]) /\ th'[t].pc \in {"use", "create"}
  BY <1>0, <1>3
<1>7. hit => FileAt(e.elf) = FileAt(m) /\ (e.set => FileOffset(m) = Maps[m].offset)
  BY <1>0, Zenon DEF FieldsInv, CacheInv, RightEntries
<1> HIDE DEF m, hit, e
<1>8. Fields'
  BY <1>0, <1>2, <1>5, <1>7 DEF FieldsInv, Fields
<1>9. Started'
  BY <1>2, <1>6 DEF FieldsInv, Started
<1>10. RightElfs'
  BY <1>0, <1>4, <1>7 DEF FieldsInv, RightElfs, IInv
<1>11. CacheInv'
  BY <1>1, <1>2 DEF FieldsInv, CacheInv
<1> QED
  BY <1>8, <1>9, <1>10, <1>11 DEF FieldsInv

\* The cache that NewElf leaves has only right entries.
LEMMA NewElfCache ==
  ASSUME FilesThere, CachedFilesAreElfs, IInv, FieldsInv, NEW t \in Threads, NewElf(t)
  PROVE  LET m == th[t].map
             found == cache_lock = t /\ CacheAfterCreateMemory(m, elf_offset[m])
         IN  /\ RightEntries(cache')
             /\ found => FileAt(cache[NameKey(m)].elf) = FileAt(m)
             /\ ~CachingEnabled => cache' = cache /\ cache_lock' = Null
<1> DEFINE m == th[t].map
           offset == elf_offset[m]
           locked == cache_lock = t
           found == locked /\ CacheAfterCreateMemory(m, offset)
<1>0. m \in MapIds
  BY DEF IInv, ThreadOK, NewElf, At_
<1>1. /\ cache' = IF found THEN Put(cache, Key(m), Cached(cache[NameKey(m)].elf, TRUE))
                  ELSE IF locked THEN CacheAdd(m, offset) ELSE cache
      /\ cache_lock' = IF locked THEN Null ELSE cache_lock
  BY Zenon DEF NewElf, Map
<1>2. RightEntries(cache) /\ (~CachingEnabled => cache_lock = Null) /\ offset \in {0, FileOffset(m)}
  BY <1>0 DEF FieldsInv, CacheInv, Fields
<1>3. locked => CachingEnabled /\ ElfAt(Maps[m].name, 0)
  BY <1>0, <1>2, ThreadsAssumption DEF CachedFilesAreElfs
<1> HIDE DEF m, offset
<1>4. ASSUME locked
      PROVE  /\ Maps[m].offset = 0 => FileAt(m) = AtBegin(m)
             /\ offset # 0 => FileAt(m) = AtBegin(m) /\ FileOffset(m) = Maps[m].offset
  BY <1>0, <1>2, <1>3, <1>4, ElfFile
<1>5. CASE found
  <2>1. NameKey(m) \in DOMAIN cache /\ offset # 0
    BY <1>5, Zenon DEF CacheAfterCreateMemory
  <2>2. FileAt(cache[NameKey(m)].elf) = FileAt(m) /\ FileOffset(m) = Maps[m].offset
    BY <1>0, <1>2, <1>4, <1>5, <2>1 DEF RightEntries
  <2>3. RightEntries(Put(cache, Key(m), Cached(cache[NameKey(m)].elf, TRUE)))
    BY <1>0, <1>2, <1>3, <1>5, <2>2, PutKeyRight, Zenon
  <2> QED
    BY <1>1, <1>3, <1>5, <2>2, <2>3, Zenon DEF m, offset
<1>6. CASE ~found /\ locked
  <2> DEFINE named == IF Maps[m].offset = 0 \/ offset # 0 THEN Put(cache, NameKey(m), Cached(m, TRUE)) ELSE cache
  <2>1. cache' = IF Maps[m].offset # 0 THEN Put(named, Key(m), Cached(m, offset # 0)) ELSE named
    BY <1>1, <1>6, Zenon DEF CacheAdd
  <2>2. RightEntries(named)
    <3>1. CASE Maps[m].offset = 0 \/ offset # 0
      <4>1. FileAt(m) = AtBegin(m)
        BY <1>4, <1>6, <3>1
      <4>2. RightEntries(Put(cache, NameKey(m), Cached(m, TRUE)))
        BY <1>0, <1>2, <1>3, <1>6, <4>1, PutNameRight, Zenon
      <4> QED
        BY <3>1, <4>2, Zenon
    <3>2. CASE ~(Maps[m].offset = 0 \/ offset # 0)
      BY <1>2, <3>2
    <3> QED
      BY <3>1, <3>2, Zenon
  <2> HIDE DEF named
  <2>3. RightEntries(Put(named, Key(m), Cached(m, offset # 0)))
    <3> DEFINE set == offset # 0
    <3>1. set => FileOffset(m) = Maps[m].offset
      BY <1>4, <1>6
    <3> HIDE DEF set
    <3>2. RightEntries(Put(named, Key(m), Cached(m, set)))
      BY <1>0, <1>3, <1>6, <2>2, <3>1, PutKeyRight
    <3> QED
      BY <3>2 DEF set
  <2>4. RightEntries(cache')
    BY <2>1, <2>2, <2>3
  <2> QED
    BY <1>3, <1>6, <2>4 DEF m, offset
<1>7. CASE ~locked
  BY <1>1, <1>2, <1>7 DEF m, offset
<1> QED
  BY <1>5, <1>6, <1>7

\* A new elf is the elf of the map's file, or the cached one of the file.
LEMMA NewElfFields ==
  ASSUME FilesThere, CachedFilesAreElfs, IInv, FieldsInv, NEW t \in Threads, NewElf(t)
  PROVE  FieldsInv'
<1> DEFINE m == th[t].map
           found == cache_lock = t /\ CacheAfterCreateMemory(m, elf_offset[m])
           e == IF found THEN cache[NameKey(m)].elf ELSE m
<1>0. DOMAIN th = Threads /\ DOMAIN th[t] = {"pc", "call", "map", "id", "obj", "left"} /\ m \in MapIds
      /\ th[t].pc = "add"
  BY DEF IInv, ThreadOK, NewElf, At_
<1>1. /\ UNCHANGED <<elf_offset, elf_start_offset, load_bias>>
      /\ elf' = [elf EXCEPT ![m] = e]
  BY Zenon DEF NewElf, Map
<1>2. \E pc \in {"use", "prev"} : th' = [th EXCEPT ![t].pc = pc, ![t].obj = e]
  BY Zenon DEF NewElf, Goes, Map
<1>3. DOMAIN th' = Threads /\ (\A u \in Threads \ {t} : th'[u] = th[u]) /\ th'[t].pc \in {"use", "prev"}
      /\ th'[t].map = m
  BY <1>0, <1>2
<1>4. FileAt(e) = FileAt(m) /\ RightEntries(cache') /\ (~CachingEnabled => cache' = cache /\ cache_lock' = Null)
  BY NewElfCache
<1> HIDE DEF e, m
<1>5. Fields'
  BY <1>1 DEF FieldsInv, Fields
<1>6. Started'
  BY <1>0, <1>1, <1>3 DEF FieldsInv, Started, m
<1>7. RightElfs'
  BY <1>0, <1>1, <1>4 DEF FieldsInv, RightElfs, IInv
<1>8. CacheInv'
  BY <1>3, <1>4 DEF FieldsInv, CacheInv
<1> QED
  BY <1>5, <1>6, <1>7, <1>8 DEF FieldsInv

\* When a map shares its elf with the one before.
LEMMA SharesRight ==
  ASSUME FilesThere, IInv, FieldsInv, NEW t \in Threads, th[t].pc = "prev", SharesPrev(th[t].map)
  PROVE  LET m == th[t].map
             p == Prev(m)
         IN  p \in MapIds /\ FileAt(p) = FileAt(m) /\ FileOffset(p) = 0 /\ Maps[p].name = Maps[m].name
<1> DEFINE m == th[t].map
           p == Prev(m)
<1>0. m \in MapIds
  BY DEF IInv, ThreadOK
<1>1. p \in MapIds
  BY <1>0, MapsAssumption DEF SharesPrev, Prev
<1>2. elf_start_offset[m] = Start(m)
  BY DEF FieldsInv, Started
<1> HIDE DEF m
<1>3. Start(m) # Maps[m].offset /\ Maps[p].offset = Start(m) /\ Maps[p].name = Maps[m].name
  BY <1>2 DEF SharesPrev, m
<1> QED
  BY <1>0, <1>1, <1>3, SharedIsRight DEF m

\* The map before gets the elf that begins in it.
LEMMA SetPrevFields ==
  ASSUME FilesThere, IInv, FieldsInv, NEW t \in Threads, SetPrev(t)
  PROVE  FieldsInv'
<1> DEFINE m == th[t].map
           p == Prev(m)
           share == SharesPrev(m) /\ elf[p] = Null
<1>0. DOMAIN th = Threads /\ DOMAIN th[t] = {"pc", "call", "map", "id", "obj", "left"} /\ m \in MapIds
      /\ th[t].pc = "prev"
  BY DEF IInv, ThreadOK, SetPrev, At_
<1>1. /\ UNCHANGED <<elf_offset, elf_start_offset, load_bias, cache, cache_lock>>
      /\ elf' = IF share THEN [elf EXCEPT ![p] = elf[m]] ELSE elf
      /\ th' = [th EXCEPT ![t].pc = "use"]
  BY Zenon DEF SetPrev, Map, Goto
<1>2. DOMAIN th' = Threads /\ (\A u \in Threads \ {t} : th'[u] = th[u]) /\ th'[t].pc = "use"
  BY <1>0, <1>1
<1>3. share => p \in MapIds /\ FileAt(p) = FileAt(m)
  BY <1>0, SharesRight
<1> HIDE DEF share, m, p
<1>4. Fields'
  BY <1>1 DEF FieldsInv, Fields
<1>5. Started'
  BY <1>1, <1>2 DEF FieldsInv, Started
<1>6. RightElfs'
  BY <1>0, <1>1, <1>3 DEF FieldsInv, RightElfs, IInv
<1>7. CacheInv'
  BY <1>1, <1>2 DEF FieldsInv, CacheInv
<1> QED
  BY <1>4, <1>5, <1>6, <1>7 DEF FieldsInv

\* A map has nothing at first.
LEMMA FieldsInit == Init => FieldsInv
<1> SUFFICES ASSUME Init PROVE FieldsInv
  OBVIOUS
<1>1. Fields
  BY DEF Init, Fields
<1>2. Started /\ RightElfs
  BY DEF Init, Started, RightElfs, Idle
<1>3. CacheInv
  BY DEF Init, CacheInv, RightEntries, Idle
<1> QED
  BY <1>1, <1>2, <1>3 DEF FieldsInv

\* Every step keeps what is known of the fields.
LEMMA NextFields ==
  ASSUME FilesThere, CachedFilesAreElfs, IInv, FieldsInv, [Next]_vars
  PROVE  FieldsInv'
<1>1. ASSUME NEW t \in Threads, Step(t) PROVE FieldsInv'
  BY <1>1, PlainFields, GetElfPlain, OthersPlain, CreateMemoryFields, CreateMemoryEndFields, GetBuildIDReadFields,
     LoadBiasFields, CacheGetFields, NewElfFields, SetPrevFields, Zenon DEF Step
<1>2. ASSUME NEW t \in Threads, NEW call \in Calls, NEW m \in MapIds, Call(t, call, m) PROVE FieldsInv'
  BY <1>2, CallPlain, PlainFields
<1>3. CASE UNCHANGED vars
  BY <1>3 DEF vars, mapvars, FieldsInv, Fields, Started, RightElfs, CacheInv
<1> QED
  BY <1>1, <1>2, <1>3 DEF Next, Terminated

(***************************************************************************)
(* For maps of files that can be opened, by any threads, calls and         *)
(* interleaving: the elf of a map is the one of its part of the file,      *)
(* whether it was created, was cached for another map or came from the     *)
(* next one; and a load bias that is known is one of this part of the      *)
(* file, of its elf, valid or not, or what the static function reads       *)
(* there, also when it does so without the mutex while the elf is created. *)
(***************************************************************************)
THEOREM RightElfAlways ==
  ASSUME FilesThere, CachedFilesAreElfs
  PROVE  Spec => [](RightElf /\ LoadBiasRight)
<1>1. Init => FieldsInv
  BY FieldsInit
<1>2. IInv /\ FieldsInv /\ [Next]_vars => FieldsInv'
  BY NextFields
<1>3. IInv /\ FieldsInv => RightElf /\ LoadBiasRight
  <2>1. SUFFICES ASSUME IInv, FieldsInv, NEW m \in MapIds
                 PROVE  /\ elf[m] # Null => Shows(m) = Made(m).at
                        /\ load_bias[m] \in {NotSet, LoadBias(Made(m).at), StaticLoadBias(Made(m).at)}
    BY DEF RightElf, LoadBiasRight
  <2>2. Made(m).at = FileAt(m)
    BY MadeFromFile, Zenon DEF FileAt
  <2>3. ASSUME elf[m] # Null PROVE Shows(m) = FileAt(m)
    <3>1. elf[m] \in MapIds
      BY <2>1, <2>3 DEF IInv
    <3>2. Made(elf[m]).at = FileAt(elf[m])
      BY <3>1, MadeFromFile, Zenon DEF FileAt
    <3> QED
      BY <2>1, <2>3, <3>2, Zenon DEF Shows, FieldsInv, RightElfs
  <2>4. load_bias[m] \in {NotSet, LoadBias(FileAt(m)), StaticLoadBias(FileAt(m))}
    BY <2>1 DEF FieldsInv, Fields
  <2> QED
    BY <2>2, <2>3, <2>4
<1> QED
  BY <1>1, <1>2, <1>3, Invariance, PTL DEF Spec

(***************************************************************************)
(* When GetLoadBias, which resets elf_offset without the mutex, is not     *)
(* called                                                                  *)
(***************************************************************************)
NoResets == \A t \in Threads : th[t].call # "GetLoadBias"
\* A map with an elf has its offset, and so has a thread about to add the elf.
OffsetsRight ==
  /\ \A m \in MapIds : elf[m] # Null => elf_offset[m] = FileOffset(m)
  /\ \A t \in Threads : th[t].pc = "add" => elf_offset[th[t].map] = FileOffset(th[t].map)
\* An entry that leaves elf_offset alone is that of an elf that begins there.
EntriesExact == \A m \in MapIds : Key(m) \in DOMAIN cache /\ ~cache[Key(m)].set => FileOffset(m) = 0
\* A thread that creates an elf found none in the cache, which it has locked.
Locked ==
  CachingEnabled =>
    \A t \in Threads : th[t].pc \in {"create", "create_end", "add"} =>
                         cache_lock = t /\ Key(th[t].map) \notin DOMAIN cache
\* The elf at the begin of a file is the one cached by the name of the file.
Shared ==
  CachingEnabled =>
    \A m \in MapIds :
      /\ elf[m] # Null /\ FileAt(m) = AtBegin(m) => NameKey(m) \in DOMAIN cache /\ elf[m] = cache[NameKey(m)].elf
      /\ Key(m) \in DOMAIN cache /\ FileAt(m) = AtBegin(m) =>
           NameKey(m) \in DOMAIN cache /\ cache[Key(m)].elf = cache[NameKey(m)].elf
UseInv == NoResets /\ OffsetsRight /\ EntriesExact /\ Locked /\ Shared

\* A plain step keeps it.
LEMMA PlainUse == ASSUME "GetLoadBias" \notin Calls, UseInv, NEW t \in Threads, Plain(t) PROVE UseInv'
<1>1. NoResets'
  BY DEF UseInv, NoResets, Plain
<1>2. OffsetsRight'
  BY DEF UseInv, OffsetsRight, Plain
<1>3. EntriesExact'
  BY DEF UseInv, EntriesExact, Plain
<1>4. Locked'
  BY DEF UseInv, Locked, Plain
<1>5. Shared'
  BY DEF UseInv, Shared, Plain
<1> QED
  BY <1>1, <1>2, <1>3, <1>4, <1>5 DEF UseInv

\* CreateMemory resets the offset of a map that has no elf.
LEMMA CreateMemoryUse ==
  ASSUME IInv, Fields, UseInv, NEW t \in Threads, CreateMemory(t)
  PROVE  UseInv'
<1> DEFINE m == th[t].map
<1>0. DOMAIN th = Threads /\ DOMAIN th[t] = {"pc", "call", "map", "id", "obj", "left"} /\ m \in MapIds
      /\ th[t].pc = "create" /\ th[t].call = "GetElf"
  BY DEF IInv, ThreadOK, CreateMemory, At_, UseInv, NoResets
<1>1. /\ th' = [th EXCEPT ![t].pc = "create_end"]
      /\ elf_offset' = elf_offset \/ elf_offset' = [elf_offset EXCEPT ![m] = 0]
      /\ UNCHANGED <<elf, cache, cache_lock>>
  BY Zenon DEF CreateMemory, Goto, SetOffset, Map
<1>2. DOMAIN th' = Threads /\ (\A u \in Threads \ {t} : th'[u] = th[u]) /\ th'[t].pc = "create_end"
      /\ th'[t].call = "GetElf" /\ th'[t].map = m
  BY <1>0, <1>1
<1>3. mutex[m] = t /\ elf[m] = Null
  BY <1>0 DEF IInv, ThreadOK, Adding
<1>4. ASSUME NEW u \in Threads \ {t}, th[u].pc = "add" PROVE th[u].map # m /\ th[u].map \in MapIds
  <2>1. mutex[th[u].map] = u /\ th[u].map \in MapIds
    BY <1>4 DEF IInv, ThreadOK, Adding
  <2> QED
    BY <1>3, <2>1
<1>5. DOMAIN elf_offset = MapIds
  BY DEF Fields
<1> HIDE DEF m
<1>6. NoResets'
  BY <1>2 DEF UseInv, NoResets
<1>7. OffsetsRight'
  BY <1>0, <1>1, <1>2, <1>3, <1>4, <1>5 DEF UseInv, OffsetsRight
<1>8. EntriesExact'
  BY <1>1 DEF UseInv, EntriesExact
<1>9. Locked'
  BY <1>0, <1>1, <1>2 DEF UseInv, Locked, m
<1>10. Shared'
  BY <1>1 DEF UseInv, Shared
<1> QED
  BY <1>6, <1>7, <1>8, <1>9, <1>10 DEF UseInv

\* CreateMemory ends with the right offset.
LEMMA CreateMemoryEndUse ==
  ASSUME FilesThere, IInv, Fields, UseInv, NEW t \in Threads, CreateMemoryEnd(t)
  PROVE  UseInv'
<1> DEFINE m == th[t].map
<1>0. DOMAIN th = Threads /\ DOMAIN th[t] = {"pc", "call", "map", "id", "obj", "left"} /\ m \in MapIds
      /\ th[t].pc = "create_end" /\ th[t].call = "GetElf"
  BY DEF IInv, ThreadOK, CreateMemoryEnd, At_, UseInv, NoResets
<1>1. /\ th' = [th EXCEPT ![t].pc = "add"]
      /\ elf_offset' = IF FileOffset(m) = 0 THEN elf_offset ELSE [elf_offset EXCEPT ![m] = FileOffset(m)]
      /\ UNCHANGED <<elf, cache, cache_lock>>
  BY <1>0, MadeFromFile, Zenon DEF CreateMemoryEnd, Goto, SetElfOffset, SetOffset, Map, FileOffset
<1>2. DOMAIN th' = Threads /\ (\A u \in Threads \ {t} : th'[u] = th[u]) /\ th'[t].pc = "add"
      /\ th'[t].call = "GetElf" /\ th'[t].map = m
  BY <1>0, <1>1
<1>3. DOMAIN elf_offset = MapIds /\ elf_offset[m] \in {0, FileOffset(m)}
  BY <1>0 DEF Fields
<1>4. ASSUME NEW u \in Threads, th[u].pc = "add" PROVE th[u].map \in MapIds
  BY <1>4 DEF IInv, ThreadOK
<1> HIDE DEF m
<1>5. NoResets'
  BY <1>2 DEF UseInv, NoResets
<1>6. OffsetsRight'
  BY <1>0, <1>1, <1>2, <1>3, <1>4 DEF UseInv, OffsetsRight
<1>7. EntriesExact'
  BY <1>1 DEF UseInv, EntriesExact
<1>8. Locked'
  BY <1>0, <1>1, <1>2 DEF UseInv, Locked, m
<1>9. Shared'
  BY <1>1 DEF UseInv, Shared
<1> QED
  BY <1>5, <1>6, <1>7, <1>8, <1>9 DEF UseInv

\* GetBuildID sets the right offset, or none.
LEMMA GetBuildIDReadUse ==
  ASSUME IInv, Fields, UseInv, NEW t \in Threads, GetBuildIDRead(t)
  PROVE  UseInv'
<1> DEFINE m == th[t].map
<1>0. DOMAIN th = Threads /\ DOMAIN th[t] = {"pc", "call", "map", "id", "obj", "left"} /\ m \in MapIds
  BY DEF IInv, ThreadOK, GetBuildIDRead, At_
<1>1. /\ th' = [th EXCEPT ![t].pc = "save_id", ![t].id = t]
      /\ UNCHANGED <<elf, cache, cache_lock>>
      /\ elf_offset' = elf_offset \/ elf_offset' = [elf_offset EXCEPT ![m] = FileOffset(m)]
  BY Zenon DEF GetBuildIDRead, SetElfOffset, SetOffset, Goes, FileOffset, Map
<1>2. DOMAIN th' = Threads /\ (\A u \in Threads \ {t} : th'[u] = th[u]) /\ th'[t].pc = "save_id"
      /\ th'[t].call = th[t].call
  BY <1>0, <1>1
<1>3. DOMAIN elf_offset = MapIds /\ elf_offset[m] \in {0, FileOffset(m)}
  BY <1>0 DEF Fields
<1>4. ASSUME NEW u \in Threads, th[u].pc = "add" PROVE th[u].map \in MapIds
  BY <1>4 DEF IInv, ThreadOK
<1> HIDE DEF m
<1>5. NoResets'
  BY <1>2 DEF UseInv, NoResets
<1>6. OffsetsRight'
  BY <1>0, <1>1, <1>2, <1>3, <1>4 DEF UseInv, OffsetsRight
<1>7. EntriesExact'
  BY <1>1 DEF UseInv, EntriesExact
<1>8. Locked'
  BY <1>1, <1>2 DEF UseInv, Locked
<1>9. Shared'
  BY <1>1 DEF UseInv, Shared
<1> QED
  BY <1>5, <1>6, <1>7, <1>8, <1>9 DEF UseInv

\* The load bias is not asked for.
LEMMA LoadBiasUse ==
  ASSUME IInv, UseInv, NEW t \in Threads, GetLoadBiasCheck(t) \/ GetLoadBiasStatic(t)
  PROVE  FALSE
  BY DEF IInv, ThreadOK, UseInv, NoResets, GetLoadBiasCheck, GetLoadBiasStatic, At_

\* An elf of the cache comes with its offset; else the cache is locked.
LEMMA CacheGetUse ==
  ASSUME FilesThere, CachedFilesAreElfs, IInv, FieldsInv, UseInv, NEW t \in Threads, CacheGet(t)
  PROVE  UseInv'
<1> DEFINE m == th[t].map
           hit == Key(m) \in DOMAIN cache
           e == cache[Key(m)]
<1>0. DOMAIN th = Threads /\ DOMAIN th[t] = {"pc", "call", "map", "id", "obj", "left"} /\ m \in MapIds
      /\ th[t].pc = "cache" /\ cache_lock = Null
  BY DEF IInv, ThreadOK, CacheGet, At_
<1>1. CachingEnabled
  BY <1>0 DEF FieldsInv, CacheInv
<1>2. /\ cache' = cache
      /\ hit => elf' = [elf EXCEPT ![m] = e.elf] /\ cache_lock' = Null
                /\ th' = [th EXCEPT ![t].pc = "use", ![t].obj = e.elf]
                /\ elf_offset' = IF e.set THEN [elf_offset EXCEPT ![m] = Maps[m].offset] ELSE elf_offset
      /\ ~hit => elf' = elf /\ cache_lock' = t /\ elf_offset' = elf_offset /\ th' = [th EXCEPT ![t].pc = "create"]
  BY Zenon DEF CacheGet, Goes, Goto, Map, SetOffset
<1>3. /\ DOMAIN th' = Threads /\ (\A u \in Threads \ {t} : th'[u] = th[u])
      /\ th'[t].pc = (IF hit THEN "use" ELSE "create") /\ th'[t].call = th[t].call /\ th'[t].map = m
  BY <1>0, <1>2
<1>4. mutex[m] = t /\ elf[m] = Null /\ elf \in [MapIds -> MapIds \cup {Null}]
  BY <1>0 DEF IInv, ThreadOK, Adding
<1>5. ASSUME NEW u \in Threads \ {t}, th[u].pc = "add" PROVE th[u].map # m /\ th[u].map \in MapIds
  <2>1. mutex[th[u].map] = u /\ th[u].map \in MapIds
    BY <1>5 DEF IInv, ThreadOK, Adding
  <2> QED
    BY <1>4, <2>1
<1>6. \A u \in Threads : th[u].pc \notin {"create", "create_end", "add"}
  BY <1>0, <1>1, ThreadsAssumption DEF UseInv, Locked
<1>7. DOMAIN elf_offset = MapIds /\ elf_offset[m] \in {0, FileOffset(m)}
  BY <1>0 DEF FieldsInv, Fields
<1>8. hit => (IF e.set THEN FileOffset(m) = Maps[m].offset ELSE FileOffset(m) = 0)
  BY <1>0, Zenon DEF FieldsInv, CacheInv, RightEntries, UseInv, EntriesExact
<1>9. hit /\ FileAt(m) = AtBegin(m) => NameKey(m) \in DOMAIN cache /\ e.elf = cache[NameKey(m)].elf
  BY <1>0, <1>1, Zenon DEF UseInv, Shared
<1>10. ~hit <=> Key(m) \notin DOMAIN cache
  OBVIOUS
<1> HIDE DEF m, hit, e
<1>11. NoResets'
  BY <1>3 DEF UseInv, NoResets
<1>12. OffsetsRight'
  <2>1. \A u \in Threads : th'[u].pc # "add"
    BY <1>3, <1>6
  <2>2. \A n \in MapIds : elf'[n] # Null => elf_offset'[n] = FileOffset(n)
    BY <1>0, <1>2, <1>4, <1>7, <1>8 DEF UseInv, OffsetsRight
  <2> QED
    BY <2>1, <2>2 DEF OffsetsRight
<1>13. EntriesExact'
  BY <1>2 DEF UseInv, EntriesExact
<1>14. Locked'
  BY <1>2, <1>3, <1>6, <1>10 DEF Locked
<1>15. Shared'
  BY <1>0, <1>1, <1>2, <1>4, <1>9 DEF UseInv, Shared
<1> QED
  BY <1>11, <1>12, <1>13, <1>14, <1>15 DEF UseInv

\* The cache that NewElf leaves, when there is one: it only grows, and it has
\* the new elf by the key of the map and, if it begins the file, by the name.
Grown(d, m, e) ==
  /\ \A x \in DOMAIN cache : x \in DOMAIN d /\ d[x] = cache[x]
  /\ DOMAIN d \subseteq DOMAIN cache \cup {Key(m), NameKey(m)}
  /\ Key(m) \in DOMAIN d /\ d[Key(m)].elf = e /\ (~d[Key(m)].set => FileOffset(m) = 0)
  /\ FileAt(m) = AtBegin(m) => NameKey(m) \in DOMAIN d /\ d[NameKey(m)].elf = e
  /\ NameKey(m) \in DOMAIN d /\ NameKey(m) \notin DOMAIN cache => d[NameKey(m)].set

\* NewElf grows the cache.
LEMMA NewElfGrows ==
  ASSUME FilesThere, CachedFilesAreElfs, CachingEnabled, IInv, UseInv, NEW t \in Threads, NewElf(t)
  PROVE  LET m == th[t].map IN Grown(cache', m, elf'[m])
<1> DEFINE m == th[t].map
           o == elf_offset[m]
           found == cache_lock = t /\ CacheAfterCreateMemory(m, o)
           e == IF found THEN cache[NameKey(m)].elf ELSE m
<1>0. m \in MapIds /\ th[t].pc = "add" /\ elf \in [MapIds -> MapIds \cup {Null}]
  BY ZenonT(30) DEF IInv, ThreadOK, NewElf, At_
<1>1. cache_lock = t /\ Key(m) \notin DOMAIN cache /\ o = FileOffset(m) /\ ElfAt(Maps[m].name, 0)
  BY <1>0 DEF UseInv, Locked, OffsetsRight, CachedFilesAreElfs
<1>2. /\ cache' = IF found THEN Put(cache, Key(m), Cached(cache[NameKey(m)].elf, TRUE)) ELSE CacheAdd(m, o)
      /\ elf' = [elf EXCEPT ![m] = e]
  BY <1>1, Zenon DEF NewElf, Map
<1>3. elf'[m] = e
  BY <1>0, <1>2, Zenon
<1>4. found <=> (Maps[m].offset # 0 /\ o # 0 /\ NameKey(m) \in DOMAIN cache)
  BY <1>0, <1>1, Zenon DEF CacheAfterCreateMemory, FilesThere
<1>6. Maps[m].offset # 0 => Key(m) # NameKey(m)
  BY DEF Key, NameKey
<1>7. Maps[m].offset = 0 => Key(m) = NameKey(m)
  BY DEF Key, NameKey
<1> HIDE DEF m, o
<1>8. CASE found
  <2>1. cache' = Put(cache, Key(m), Cached(e, TRUE)) /\ e = cache[NameKey(m)].elf
    BY <1>2, <1>8
  <2> HIDE DEF e
  <2>2. /\ DOMAIN cache' = DOMAIN cache \cup {Key(m)} /\ cache'[Key(m)] = Cached(e, TRUE)
        /\ \A x \in DOMAIN cache : x # Key(m) => cache'[x] = cache[x]
    BY <2>1 DEF Put
  <2>3. cache'[Key(m)].elf = e /\ cache'[Key(m)].set
    BY <2>2 DEF Cached
  <2> HIDE DEF found
  <2> QED
    BY <1>1, <1>3, <1>4, <1>6, <1>8, <2>1, <2>2, <2>3, Zenon DEF Grown, m
<1>9. CASE ~found
  <2> DEFINE named == IF Maps[m].offset = 0 \/ o # 0 THEN Put(cache, NameKey(m), Cached(m, TRUE)) ELSE cache
  <2>1. cache' = (IF Maps[m].offset # 0 THEN Put(named, Key(m), Cached(m, o # 0)) ELSE named) /\ e = m
    BY <1>2, <1>9, Zenon DEF CacheAdd
  <2> HIDE DEF e, found
  <2>2. CASE Maps[m].offset = 0
    <3>1. cache' = Put(cache, NameKey(m), Cached(m, TRUE))
      BY <2>1, <2>2
    <3>2. /\ DOMAIN cache' = DOMAIN cache \cup {NameKey(m)} /\ cache'[NameKey(m)] = Cached(m, TRUE)
          /\ \A x \in DOMAIN cache : x # NameKey(m) => cache'[x] = cache[x]
      BY <3>1 DEF Put
    <3>3. cache'[NameKey(m)].elf = m /\ cache'[NameKey(m)].set
      BY <3>2 DEF Cached
    <3> QED
      BY <1>1, <1>3, <1>7, <2>1, <2>2, <3>2, <3>3, ZenonT(30) DEF Grown, m
  <2>3. CASE Maps[m].offset # 0 /\ o # 0
    <3>1. cache' = Put(Put(cache, NameKey(m), Cached(m, TRUE)), Key(m), Cached(m, o # 0))
      BY <2>1, <2>3
    <3> DEFINE c == Put(cache, NameKey(m), Cached(m, TRUE))
               set == o # 0
    <3>2. /\ DOMAIN c = DOMAIN cache \cup {NameKey(m)} /\ c[NameKey(m)] = Cached(m, TRUE)
          /\ \A x \in DOMAIN cache : x # NameKey(m) => c[x] = cache[x]
      BY DEF Put
    <3>3. cache' = Put(c, Key(m), Cached(m, set)) /\ set
      BY <3>1, <2>3
    <3> HIDE DEF c, set
    <3>4. /\ DOMAIN cache' = DOMAIN c \cup {Key(m)} /\ cache'[Key(m)] = Cached(m, set)
          /\ \A x \in DOMAIN c : x # Key(m) => cache'[x] = c[x]
      BY <3>3 DEF Put
    <3>5. NameKey(m) \notin DOMAIN cache
      BY <1>4, <1>9, <2>3
    <3>6. c[NameKey(m)].elf = m /\ c[NameKey(m)].set
      BY <3>2 DEF Cached
    <3>7. cache'[Key(m)].elf = m /\ cache'[Key(m)].set
      BY <3>3, <3>4 DEF Cached
    <3> QED
      BY <1>1, <1>3, <1>6, <2>1, <2>3, <3>2, <3>4, <3>5, <3>6, <3>7, Zenon DEF Grown, m
  <2>4. CASE Maps[m].offset # 0 /\ o = 0
    <3> DEFINE set == o # 0
    <3>1. cache' = Put(cache, Key(m), Cached(m, set))
      BY <2>1, <2>4
    <3> HIDE DEF set
    <3>2. /\ DOMAIN cache' = DOMAIN cache \cup {Key(m)} /\ cache'[Key(m)] = Cached(m, set)
          /\ \A x \in DOMAIN cache : x # Key(m) => cache'[x] = cache[x]
      BY <3>1 DEF Put
    <3>3. FileAt(m) # AtBegin(m)
      BY <1>0, <1>1, <2>4, ElfFile, Zenon DEF m
    <3>4. cache'[Key(m)].elf = m
      BY <3>2 DEF Cached
    <3> QED
      BY <1>1, <1>3, <1>6, <2>1, <2>4, <3>2, <3>3, <3>4, ZenonT(30) DEF Grown, m
  <2> QED
    BY <2>2, <2>3, <2>4
<1> QED
  BY <1>8, <1>9

\* A new elf has its offset, and is in the cache.
LEMMA NewElfUse ==
  ASSUME FilesThere, CachedFilesAreElfs, IInv, FieldsInv, UseInv, NEW t \in Threads, NewElf(t)
  PROVE  UseInv'
<1> DEFINE m == th[t].map
           e == elf'[m]
<1>0. DOMAIN th = Threads /\ DOMAIN th[t] = {"pc", "call", "map", "id", "obj", "left"} /\ m \in MapIds
      /\ th[t].pc = "add"
  BY Zenon DEF IInv, ThreadOK, NewElf, At_
<1>1. elf_offset' = elf_offset /\ \E x : elf' = [elf EXCEPT ![m] = x]
  BY Zenon DEF NewElf, Map
<1>2. \E pc \in {"use", "prev"} : \E x : th' = [th EXCEPT ![t].pc = pc, ![t].obj = x]
  BY Zenon DEF NewElf, Goes, Map
<1>3. DOMAIN th' = Threads /\ (\A u \in Threads \ {t} : th'[u] = th[u]) /\ th'[t].pc \in {"use", "prev"}
      /\ th'[t].call = th[t].call
  BY <1>0, <1>2
<1>4. \A n \in MapIds : n # m => elf'[n] = elf[n]
  BY <1>0, <1>1 DEF IInv
<1>5. elf_offset[m] = FileOffset(m)
  BY <1>0 DEF UseInv, OffsetsRight
<1>6. CachingEnabled => Grown(cache', m, e)
  BY NewElfGrows
<1>7. ~CachingEnabled => cache' = cache
  BY NewElfCache
<1>8. CachingEnabled => \A u \in Threads \ {t} : th[u].pc \notin {"create", "create_end", "add"}
  BY <1>0 DEF UseInv, Locked
<1>9. ASSUME CachingEnabled, NEW n \in MapIds, Key(n) = Key(m)
      PROVE  FileAt(n) = FileAt(m) /\ FileOffset(n) = FileOffset(m) /\ AtBegin(n) = AtBegin(m) /\ NameKey(n) = NameKey(m)
  <2>1. ElfAt(Maps[n].name, 0)
    BY <1>9 DEF CachedFilesAreElfs
  <2> QED
    BY <1>0, <1>9, <2>1, SameKey
<1>10. ASSUME NEW n \in MapIds, Key(n) = NameKey(m) PROVE NameKey(n) = Key(n)
  BY <1>10 DEF Key, NameKey
<1> HIDE DEF m, e
<1>11. NoResets'
  BY <1>3 DEF UseInv, NoResets
<1>12. OffsetsRight'
  BY <1>0, <1>1, <1>3, <1>4, <1>5 DEF UseInv, OffsetsRight
<1>13. EntriesExact'
  <2>1. CASE CachingEnabled
    <3>1. SUFFICES ASSUME NEW n \in MapIds, Key(n) \in DOMAIN cache', ~cache'[Key(n)].set PROVE FileOffset(n) = 0
      BY DEF EntriesExact
    <3>2. Grown(cache', m, e)
      BY <1>6, <2>1
    <3>3. CASE Key(n) \in DOMAIN cache
      BY <3>1, <3>2, <3>3 DEF Grown, UseInv, EntriesExact
    <3>4. CASE Key(n) = Key(m)
      BY <1>9, <2>1, <3>1, <3>2, <3>4 DEF Grown
    <3>5. CASE Key(n) = NameKey(m) /\ Key(n) \notin DOMAIN cache
      BY <3>1, <3>2, <3>5 DEF Grown
    <3> QED
      BY <3>1, <3>2, <3>3, <3>4, <3>5 DEF Grown
  <2>2. CASE ~CachingEnabled
    BY <1>7, <2>2 DEF UseInv, EntriesExact
  <2> QED
    BY <2>1, <2>2
<1>14. Locked'
  BY <1>3, <1>8 DEF Locked
<1>15. Shared'
  <2>1. SUFFICES ASSUME CachingEnabled, NEW n \in MapIds, FileAt(n) = AtBegin(n)
                 PROVE  /\ elf'[n] # Null => NameKey(n) \in DOMAIN cache' /\ elf'[n] = cache'[NameKey(n)].elf
                        /\ Key(n) \in DOMAIN cache' =>
                             NameKey(n) \in DOMAIN cache' /\ cache'[Key(n)].elf = cache'[NameKey(n)].elf
    BY DEF Shared
  <2>2. Grown(cache', m, e)
    BY <1>6, <2>1
  <2>3. ASSUME elf'[n] # Null PROVE NameKey(n) \in DOMAIN cache' /\ elf'[n] = cache'[NameKey(n)].elf
    <3>1. CASE n = m
      BY <2>1, <2>2, <3>1 DEF Grown, e
    <3>2. CASE n # m
      BY <1>4, <2>1, <2>2, <2>3, <3>2 DEF Grown, UseInv, Shared
    <3> QED
      BY <3>1, <3>2
  <2>4. ASSUME Key(n) \in DOMAIN cache'
        PROVE  NameKey(n) \in DOMAIN cache' /\ cache'[Key(n)].elf = cache'[NameKey(n)].elf
    <3>1. CASE Key(n) \in DOMAIN cache
      BY <2>1, <2>2, <3>1 DEF Grown, UseInv, Shared
    <3>2. CASE Key(n) = Key(m)
      BY <1>9, <2>1, <2>2, <3>2 DEF Grown
    <3>3. CASE Key(n) = NameKey(m)
      BY <1>10, <2>4, <3>3
    <3> QED
      BY <2>2, <2>4, <3>1, <3>2, <3>3 DEF Grown
  <2> QED
    BY <2>3, <2>4
<1> QED
  BY <1>11, <1>12, <1>13, <1>14, <1>15 DEF UseInv

\* The map before gets the elf with an offset of 0, which is right for it.
LEMMA SetPrevUse ==
  ASSUME FilesThere, IInv, FieldsInv, UseInv, NEW t \in Threads, SetPrev(t)
  PROVE  UseInv'
<1> DEFINE m == th[t].map
           p == Prev(m)
           share == SharesPrev(m) /\ elf[p] = Null
<1>0. DOMAIN th = Threads /\ DOMAIN th[t] = {"pc", "call", "map", "id", "obj", "left"} /\ m \in MapIds
      /\ th[t].pc = "prev" /\ elf[m] # Null
  BY DEF IInv, ThreadOK, SetPrev, At_
<1>1. /\ UNCHANGED <<elf_offset, cache, cache_lock>>
      /\ elf' = IF share THEN [elf EXCEPT ![p] = elf[m]] ELSE elf
      /\ th' = [th EXCEPT ![t].pc = "use"]
  BY Zenon DEF SetPrev, Map, Goto
<1>2. DOMAIN th' = Threads /\ (\A u \in Threads \ {t} : th'[u] = th[u]) /\ th'[t].pc = "use"
      /\ th'[t].call = th[t].call
  BY <1>0, <1>1
<1>3. share => p \in MapIds /\ FileAt(p) = FileAt(m) /\ FileOffset(p) = 0 /\ Maps[p].name = Maps[m].name
  BY <1>0, SharesRight
<1> HIDE DEF share, m, p
<1>4. share => AtBegin(p) = AtBegin(m) /\ NameKey(p) = NameKey(m)
  BY <1>3 DEF AtBegin, NameKey
<1>5. share => elf_offset[p] = FileOffset(p)
  BY <1>3 DEF FieldsInv, Fields
<1>6. NoResets'
  BY <1>2 DEF UseInv, NoResets
<1>7. OffsetsRight'
  BY <1>0, <1>1, <1>2, <1>3, <1>5 DEF UseInv, OffsetsRight, IInv
<1>8. EntriesExact'
  BY <1>1 DEF UseInv, EntriesExact
<1>9. Locked'
  BY <1>1, <1>2 DEF UseInv, Locked
<1>10. Shared'
  BY <1>0, <1>1, <1>3, <1>4 DEF UseInv, Shared, IInv
<1> QED
  BY <1>6, <1>7, <1>8, <1>9, <1>10 DEF UseInv

\* At first there is no elf, and no call.
LEMMA UseInit == Init => UseInv
<1> SUFFICES ASSUME Init PROVE UseInv
  OBVIOUS
<1>1. NoResets /\ Locked
  BY DEF Init, NoResets, Locked, Idle
<1>2. OffsetsRight /\ EntriesExact /\ Shared
  BY DEF Init, OffsetsRight, EntriesExact, Shared, Idle
<1> QED
  BY <1>1, <1>2 DEF UseInv

\* Every step keeps it.
LEMMA NextUse ==
  ASSUME FilesThere, CachedFilesAreElfs, "GetLoadBias" \notin Calls, IInv, FieldsInv, UseInv, [Next]_vars
  PROVE  UseInv'
<1>0. Fields
  BY DEF FieldsInv
<1>1. ASSUME NEW t \in Threads, Step(t) PROVE UseInv'
  BY <1>0, <1>1, PlainUse, GetElfPlain, OthersPlain, CreateMemoryUse, CreateMemoryEndUse, GetBuildIDReadUse,
     LoadBiasUse, CacheGetUse, NewElfUse, SetPrevUse, Zenon DEF Step
<1>2. ASSUME NEW t \in Threads, NEW call \in Calls, NEW m \in MapIds, Call(t, call, m) PROVE UseInv'
  BY <1>2, CallPlain, PlainUse
<1>3. CASE UNCHANGED vars
  BY <1>3, Zenon DEF vars, mapvars, UseInv, NoResets, OffsetsRight, EntriesExact, Locked, Shared
<1> QED
  BY <1>1, <1>2, <1>3 DEF Next, Terminated

(***************************************************************************)
(* As long as nobody calls GetLoadBias: while a thread uses the elf of a   *)
(* map, elf_offset is the one that goes with it; and maps of one file that *)
(* is an elf share one object when there is a cache, whichever thread and  *)
(* map asks first.                                                         *)
(***************************************************************************)
THEOREM RelPcAlways ==
  ASSUME FilesThere, CachedFilesAreElfs, "GetLoadBias" \notin Calls
  PROVE  Spec => [](RelPcRight /\ CacheShares)
<1>1. Init => FieldsInv /\ UseInv
  BY FieldsInit, UseInit
<1>2. IInv /\ FieldsInv /\ UseInv /\ [Next]_vars => FieldsInv' /\ UseInv'
  BY NextFields, NextUse
<1>3. ASSUME NEW m \in MapIds PROVE Made(m).at = FileAt(m) /\ Made(m).elf_offset = FileOffset(m)
  BY <1>3, MadeFromFile, Zenon DEF FileAt, FileOffset
<1>4. IInv /\ UseInv => RelPcRight
  <2>1. SUFFICES ASSUME IInv, UseInv, NEW t \in Threads, th[t].pc = "use"
                 PROVE  elf_offset[th[t].map] = Made(th[t].map).elf_offset
    BY DEF RelPcRight, At_, Map
  <2>2. th[t].map \in MapIds /\ elf[th[t].map] # Null
    BY <2>1 DEF IInv, ThreadOK
  <2> QED
    BY <1>3, <2>1, <2>2 DEF UseInv, OffsetsRight
<1>5. UseInv => CacheShares
  <2>1. SUFFICES ASSUME UseInv, CachingEnabled, NEW m \in MapIds, NEW n \in MapIds, elf[m] # Null, elf[n] # Null,
                        Made(m).at = At(Maps[m].name, 0, "file"), Made(n).at = Made(m).at
                 PROVE  elf[m] = elf[n]
    BY DEF CacheShares
  <2>2. FileAt(m) = AtBegin(m) /\ FileAt(n) = AtBegin(m)
    BY <1>3, <2>1 DEF AtBegin
  <2>3. Maps[n].name = Maps[m].name
    <3>1. ElfAt(Maps[n].name, 0)
      BY <2>1 DEF CachedFilesAreElfs
    <3>2. \E o : FileAt(n) = At(Maps[n].name, o, "file")
      BY <3>1, ElfFile DEF AtBegin
    <3> QED
      BY <2>2, <3>2 DEF AtBegin, At
  <2>4. AtBegin(n) = AtBegin(m) /\ NameKey(n) = NameKey(m)
    BY <2>3 DEF AtBegin, NameKey
  <2> QED
    BY <2>1, <2>2, <2>4 DEF UseInv, Shared
<1> QED
  BY <1>1, <1>2, <1>4, <1>5, Invariance, PTL DEF Spec

(***************************************************************************)
(* A build id that is saved stays, for any threads, maps and calls.        *)
(***************************************************************************)
THEOREM BuildIdStays == Spec => BuildIdSavedOnce
<1> DEFINE Ids == DOMAIN build_id = MapIds
           Saved == \A m \in MapIds : build_id[m] # Null => build_id'[m] = build_id[m]
<1>1. Init => Ids
  BY DEF Init
<1>2. IInv /\ [Next]_vars => build_id' = build_id \/ \E m \in MapIds : build_id[m] = Null
                                                       /\ \E x : build_id' = [build_id EXCEPT ![m] = x]
  <2>1. SUFFICES ASSUME IInv, Next
                 PROVE  build_id' = build_id \/ \E m \in MapIds : build_id[m] = Null
                                                  /\ \E x : build_id' = [build_id EXCEPT ![m] = x]
    BY DEF vars, mapvars
  <2>2. ASSUME NEW t \in Threads, GetBuildIDSave(t)
        PROVE  build_id' = build_id \/ \E m \in MapIds : build_id[m] = Null
                                         /\ \E x : build_id' = [build_id EXCEPT ![m] = x]
    <3>1. Map(t) \in MapIds
      BY <2>1, <2>2 DEF IInv, ThreadOK, GetBuildIDSave, At_, Map
    <3> QED
      BY <2>2, <3>1, Zenon DEF GetBuildIDSave
  <2>3. ASSUME NEW t \in Threads, Step(t), ~GetBuildIDSave(t) PROVE build_id' = build_id
    BY <2>3, Zenon DEF Step, Return, GetElf, CacheGet, CreateMemory, CreateMemoryEnd, NewElf, SetPrev, GetFunctionName,
       GetLoadBias, GetLoadBiasCheck, GetLoadBiasStatic, GetBuildID, GetBuildIDCheck, GetBuildIDObject,
       GetBuildIDRead, mapvars
  <2>4. ASSUME NEW t \in Threads, NEW call \in Calls, NEW m \in MapIds, Call(t, call, m) PROVE build_id' = build_id
    BY <2>4, Zenon DEF Call, mapvars
  <2>5. CASE Terminated
    BY <2>5, Zenon DEF Terminated, vars, mapvars
  <2> QED
    BY <2>1, <2>2, <2>3, <2>4, <2>5, Zenon DEF Next
<1>3. IInv /\ Ids /\ [Next]_vars => Ids' /\ [Saved]_vars
  BY <1>2
<1> QED
  BY <1>1, <1>3, Invariance, PTL DEF Spec, BuildIdSavedOnce
=============================================================================
