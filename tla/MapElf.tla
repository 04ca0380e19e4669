------------------------------- MODULE MapElf -------------------------------
(***************************************************************************)
(* How a map of a process gets its elf object (MapInfo.cpp and the cache   *)
(* of Elf.cpp): threads call GetElf, GetFunctionName, GetLoadBias and      *)
(* GetBuildID of maps they share.  Each map has a mutex, the cache has one *)
(* for all maps; GetLoadBias and GetBuildID do part of their work without. *)
(*                                                                         *)
(* Offsets and sizes are counted in pages.  The contents of a file are the *)
(* places where an elf begins in it; an elf object is the number of the    *)
(* map it was created for, and what it shows is Made(map).at: the place of *)
(* the elf, or Nowhere if the memory has no elf.  All callers expect one   *)
(* architecture, and have a process_memory, as an Unwinder does.           *)
(***************************************************************************)
EXTENDS Integers, FiniteSets

CONSTANTS
    Threads,
    Maps,            \* a sequence of records: name, start, end, offset, flags, prev, elf_in_memory
    Files,           \* by name: size (0 of a file that is gone), and by the start of each elf its
                     \* max_size, arch, load_bias and static_load_bias
    ExpectedArch,
    CachingEnabled,
    Calls,           \* the functions that are called
    MaxCalls         \* bound on the calls of a thread

MapIds == DOMAIN Maps
Null == 0
Nowhere == <<"", 0, "none">>
NotSet == -1

ASSUME MapsAssumption == \A m \in MapIds : m \in Nat /\ m > 0 /\ Maps[m].prev \in MapIds \cup {0}

ASSUME ThreadsAssumption == Null \notin Threads
ASSUME CallsAssumption == Calls \subseteq {"GetElf", "GetFunctionName", "GetLoadBias", "GetBuildID"}

VARIABLES elf, elf_offset, elf_start_offset, memory_backed_elf, load_bias, build_id,
          mutex, cache, cache_lock, th

mapvars == <<elf, elf_offset, elf_start_offset, memory_backed_elf, load_bias, build_id>>
vars == <<mapvars, mutex, cache, cache_lock, th>>

(***************************************************************************)
(* CreateMemory                                                            *)
(***************************************************************************)
\* MemoryFileAtOffset::Init, Elf::IsValidElf and the max_size of Elf::GetInfo
FileInit(name, offset) == name \in DOMAIN Files /\ offset < Files[name].size
ElfAt(name, offset) == FileInit(name, offset) /\ offset \in DOMAIN Files[name].elfs
At(name, offset, from) == <<name, offset, from>>

Memory(at, offset, start, backed) ==
    [at |-> at, ok |-> TRUE, elf_offset |-> offset, elf_start_offset |-> start, backed |-> backed]
NoMemory == [Memory(Nowhere, 0, NotSet, FALSE) EXCEPT !.ok = FALSE]

Prev(m) == Maps[m].prev
SplitFrom(m) ==
    /\ Prev(m) # 0 /\ Maps[Prev(m)].offset = 0
    /\ Maps[Prev(m)].flags = "r" /\ Maps[Prev(m)].name = Maps[m].name
InitFileMemoryFromPreviousReadOnlyMap(m) ==
    /\ Prev(m) # 0 /\ Maps[Prev(m)].flags = "r"
    /\ ElfAt(Maps[m].name, Maps[Prev(m)].offset)
    /\ Files[Maps[m].name].elfs[Maps[Prev(m)].offset].max_size >= Maps[m].end - Maps[Prev(m)].end

GetFileMemory(m) ==
    LET name == Maps[m].name
        offset == Maps[m].offset
        file(start) == At(name, start, "file")
    IN  IF offset = 0 THEN
            IF ~FileInit(name, 0) THEN NoMemory
            ELSE Memory(IF ElfAt(name, 0) THEN file(0) ELSE Nowhere, 0, NotSet, FALSE)
        ELSE IF ~FileInit(name, offset) THEN NoMemory
        ELSE IF ElfAt(name, offset) THEN Memory(file(offset), 0, offset, FALSE)
        ELSE IF ElfAt(name, 0) THEN
            Memory(file(0), offset, IF SplitFrom(m) THEN NotSet ELSE offset, FALSE)
        ELSE IF InitFileMemoryFromPreviousReadOnlyMap(m) THEN
            Memory(file(Maps[Prev(m)].offset), offset - Maps[Prev(m)].offset,
                   Maps[Prev(m)].offset, FALSE)
        ELSE Memory(Nowhere, 0, NotSet, FALSE)

ProcessMemory(m) ==
    IF Maps[m].elf_in_memory THEN
        Memory(At(Maps[m].name, Maps[m].offset, "memory"), 0, NotSet, TRUE)
    ELSE IF \/ Maps[m].offset = 0 \/ Maps[m].name = "" \/ Prev(m) = 0
            \/ Maps[Prev(m)].name # Maps[m].name
            \/ Maps[Prev(m)].offset >= Maps[m].offset THEN NoMemory
    ELSE Memory(IF Maps[Prev(m)].elf_in_memory
                THEN At(Maps[m].name, Maps[Prev(m)].offset, "memory") ELSE Nowhere,
                Maps[m].offset - Maps[Prev(m)].offset, Maps[Prev(m)].offset, TRUE)

Made(m) ==
    LET file == GetFileMemory(m)
    IN  IF Maps[m].end <= Maps[m].start \/ Maps[m].flags = "device" THEN NoMemory
        ELSE IF Maps[m].name # "" /\ file.ok THEN file
        ELSE ProcessMemory(m)
Shows(m) == IF elf[m] = Null THEN Nowhere ELSE Made(elf[m]).at

\* What CreateMemory assigns after it has reset elf_offset; NotSet, and 0 for
\* elf_offset: the field is not assigned
SetStart(m, made) ==
    elf_start_offset' = IF made.elf_start_offset = NotSet THEN elf_start_offset
                        ELSE [elf_start_offset EXCEPT ![m] = made.elf_start_offset]
SetOffset(m, offset) == elf_offset' = [elf_offset EXCEPT ![m] = offset]
SetElfOffset(m, made) == IF made.elf_offset = 0 THEN elf_offset' = elf_offset ELSE SetOffset(m, made.elf_offset)

(***************************************************************************)
(* The cache: by name, and by name and offset; set says that elf_offset is *)
(* to be the offset of the map that gets the elf.                          *)
(***************************************************************************)
Key(m) == <<Maps[m].name, Maps[m].offset>>
NameKey(m) == <<Maps[m].name, 0>>
Cached(e, set) == [elf |-> e, set |-> set]
Put(c, k, v) == [x \in DOMAIN c \cup {k} |-> IF x = k THEN v ELSE c[x]]
CacheAddOffsetOnly(m, offset) == Put(cache, Key(m), Cached(m, offset # 0))
CacheAdd(m, offset) ==
    LET named == IF Maps[m].offset = 0 \/ offset # 0 THEN Put(cache, NameKey(m), Cached(m, TRUE))
                 ELSE cache
    IN  IF Maps[m].offset # 0 THEN Put(named, Key(m), Cached(m, offset # 0)) ELSE named
CacheAfterCreateMemory(m, offset) ==
    Maps[m].name # "" /\ Maps[m].offset # 0 /\ offset # 0 /\ NameKey(m) \in DOMAIN cache

(***************************************************************************)
(* Threads                                                                 *)
(***************************************************************************)
Idle(left) == [pc |-> "idle", call |-> "none", map |-> 0, id |-> Null, obj |-> Null, left |-> left]
Map(t) == th[t].map
At_(t, pc) == th[t].pc = pc
Goto(t, pc) == th' = [th EXCEPT ![t].pc = pc]
Goes(t, pc, field, v) == th' = [th EXCEPT ![t].pc = pc, ![t][field] = v]

Init ==
    /\ elf = [m \in MapIds |-> Null]
    /\ elf_offset = [m \in MapIds |-> 0] /\ elf_start_offset = [m \in MapIds |-> 0]
    /\ memory_backed_elf = [m \in MapIds |-> FALSE]
    /\ load_bias = [m \in MapIds |-> NotSet] /\ build_id = [m \in MapIds |-> Null]
    /\ mutex = [m \in MapIds |-> Null] /\ cache = <<>> /\ cache_lock = Null
    /\ th = [t \in Threads |-> Idle(MaxCalls)]

EntryPoint(call) ==
    CASE call = "GetElf" -> "lock" [] call = "GetLoadBias" -> "load"
      [] call = "GetBuildID" -> "load_id" [] call = "GetFunctionName" -> "name"
Call(t, call, m) ==
    /\ At_(t, "idle") /\ th[t].left > 0
    /\ th' = [th EXCEPT ![t] = [Idle(th[t].left - 1) EXCEPT !.pc = EntryPoint(call), !.call = call,
                                                            !.map = m]]
    /\ UNCHANGED <<mapvars, mutex, cache, cache_lock>>
Return(t) ==
    /\ th[t].pc \in {"use", "have_id", "done"}
    /\ th' = [th EXCEPT ![t] = Idle(th[t].left)]
    /\ UNCHANGED <<mapvars, mutex, cache, cache_lock>>

Locks(t, m) == mutex[m] = Null /\ mutex' = [mutex EXCEPT ![m] = t]
Unlocked(m) == [mutex EXCEPT ![m] = Null]

GetElf(t) ==
    LET m == Map(t) IN
    /\ At_(t, "lock")
    /\ IF elf[m] # Null THEN mutex[m] = Null /\ mutex' = mutex /\ Goes(t, "use", "obj", elf[m])
       ELSE Locks(t, m) /\ Goto(t, IF CachingEnabled /\ Maps[m].name # "" THEN "cache" ELSE "create")
    /\ UNCHANGED <<mapvars, cache, cache_lock>>

CacheGetKeepsOffset(t) ==
    LET m == Map(t)
        hit == Key(m) \in DOMAIN cache
        e == cache[Key(m)]
    IN
    /\ At_(t, "cache") /\ cache_lock = Null
    /\ elf' = IF hit THEN [elf EXCEPT ![m] = e.elf] ELSE elf
    /\ mutex' = IF hit THEN Unlocked(m) ELSE mutex
    /\ cache_lock' = IF hit THEN Null ELSE t
    /\ IF hit THEN Goes(t, "use", "obj", e.elf) ELSE Goto(t, "create")
    /\ UNCHANGED <<elf_offset, elf_start_offset, memory_backed_elf, load_bias, build_id, cache>>
CacheGet(t) ==
    LET m == Map(t)
        hit == Key(m) \in DOMAIN cache
        e == cache[Key(m)]
    IN
    /\ At_(t, "cache") /\ cache_lock = Null
    /\ elf' = IF hit THEN [elf EXCEPT ![m] = e.elf] ELSE elf
    /\ IF hit /\ e.set THEN SetOffset(m, Maps[m].offset) ELSE elf_offset' = elf_offset
    /\ mutex' = IF hit THEN Unlocked(m) ELSE mutex
    /\ cache_lock' = IF hit THEN Null ELSE t
    /\ IF hit THEN Goes(t, "use", "obj", e.elf) ELSE Goto(t, "create")
    /\ UNCHANGED <<elf_start_offset, memory_backed_elf, load_bias, build_id, cache>>

\* CreateMemory resets elf_offset first: GetLoadBias does so without the mutex
CreateMemory(t) ==
    /\ At_(t, "create")
    /\ IF Maps[Map(t)].end <= Maps[Map(t)].start THEN elf_offset' = elf_offset
       ELSE SetOffset(Map(t), 0)
    /\ Goto(t, "create_end")
    /\ UNCHANGED <<elf, elf_start_offset, memory_backed_elf, load_bias, build_id, mutex, cache,
                   cache_lock>>
CreateMemoryEnd(t) ==
    LET m == Map(t) IN
    /\ At_(t, "create_end")
    /\ SetElfOffset(m, Made(m)) /\ SetStart(m, Made(m))
    /\ memory_backed_elf' = [memory_backed_elf EXCEPT ![m] = @ \/ Made(m).backed]
    /\ Goto(t, IF th[t].call = "GetElf" THEN "add" ELSE "static")
    /\ UNCHANGED <<elf, load_bias, build_id, mutex, cache, cache_lock>>

\* An elf object is what Init makes of its memory, and Invalidate of one whose
\* architecture is not the expected one.
ElfOf(at) == Files[at[1]].elfs[at[2]]
Valid(at) == at # Nowhere /\ ElfOf(at).arch = ExpectedArch
NewElf(t) ==
    LET m == Map(t)
        locked == cache_lock = t
        found == locked /\ CacheAfterCreateMemory(m, elf_offset[m])
    IN
    /\ At_(t, "add")
    /\ elf' = [elf EXCEPT ![m] = IF found THEN cache[NameKey(m)].elf ELSE m]
    /\ cache' = IF found THEN Put(cache, Key(m), Cached(cache[NameKey(m)].elf, TRUE))
                ELSE IF locked THEN CacheAdd(m, elf_offset[m]) ELSE cache
    /\ cache_lock' = IF locked THEN Null ELSE cache_lock
    /\ mutex' = Unlocked(m)
    /\ IF found THEN Goes(t, "use", "obj", cache[NameKey(m)].elf) ELSE Goes(t, "prev", "obj", m)
    /\ UNCHANGED <<elf_offset, elf_start_offset, memory_backed_elf, load_bias, build_id>>

\* The read-only map before a read-execute map of the same elf
SharesPrevByName(m) == Prev(m) # 0 /\ Maps[Prev(m)].name = Maps[m].name
SharesPrev(m) ==
    /\ Prev(m) # 0 /\ elf_start_offset[m] # Maps[m].offset
    /\ Maps[Prev(m)].offset = elf_start_offset[m] /\ Maps[Prev(m)].name = Maps[m].name
SetPrevNoCheck(t) ==
    LET m == Map(t) p == Prev(m) share == SharesPrev(m)
    IN
    /\ At_(t, "prev") /\ (share => mutex[p] = Null)
    /\ elf' = IF share THEN [elf EXCEPT ![p] = elf[m]] ELSE elf
    /\ memory_backed_elf' =
          IF share THEN [memory_backed_elf EXCEPT ![p] = memory_backed_elf[m]] ELSE memory_backed_elf
    /\ Goto(t, "use")
    /\ UNCHANGED <<elf_offset, elf_start_offset, load_bias, build_id, mutex, cache, cache_lock>>
SetPrevUnlocked(t) ==
    LET m == Map(t) p == Prev(m) share == SharesPrev(m) /\ elf[p] = Null
    IN
    /\ At_(t, "prev")
    /\ elf' = IF share THEN [elf EXCEPT ![p] = elf[m]] ELSE elf
    /\ memory_backed_elf' =
          IF share THEN [memory_backed_elf EXCEPT ![p] = memory_backed_elf[m]] ELSE memory_backed_elf
    /\ Goto(t, "use")
    /\ UNCHANGED <<elf_offset, elf_start_offset, load_bias, build_id, mutex, cache, cache_lock>>
SetPrevUnmarked(t) ==
    LET m == Map(t) p == Prev(m) share == SharesPrev(m) /\ elf[p] = Null
    IN
    /\ At_(t, "prev") /\ (SharesPrev(m) => mutex[p] = Null)
    /\ elf' = IF share THEN [elf EXCEPT ![p] = elf[m]] ELSE elf
    /\ Goto(t, "use")
    /\ UNCHANGED <<elf_offset, elf_start_offset, memory_backed_elf, load_bias, build_id, mutex, cache,
                   cache_lock>>
SetPrev(t) ==
    LET m == Map(t) p == Prev(m) share == SharesPrev(m) /\ elf[p] = Null
    IN
    /\ At_(t, "prev") /\ (SharesPrev(m) => mutex[p] = Null)
    /\ elf' = IF share THEN [elf EXCEPT ![p] = elf[m]] ELSE elf
    /\ memory_backed_elf' =
          IF share THEN [memory_backed_elf EXCEPT ![p] = memory_backed_elf[m]] ELSE memory_backed_elf
    /\ Goto(t, "use")
    /\ UNCHANGED <<elf_offset, elf_start_offset, load_bias, build_id, mutex, cache, cache_lock>>

GetFunctionName(t) ==
    /\ At_(t, "name") /\ mutex[Map(t)] = Null
    /\ Goes(t, IF elf[Map(t)] = Null THEN "done" ELSE "use", "obj", elf[Map(t)])
    /\ UNCHANGED <<mapvars, mutex, cache, cache_lock>>

\* The load bias of an elf object is the address of the executable segment at
\* offset 0, the static function takes the first segment there; an invalid elf
\* has 0, but the static function does not look at the architecture.
LoadBias(at) == IF Valid(at) THEN ElfOf(at).load_bias ELSE 0
StaticLoadBias(at) == IF at = Nowhere THEN 0 ELSE ElfOf(at).static_load_bias
GetLoadBias(t) ==
    /\ At_(t, "load")
    /\ Goto(t, IF load_bias[Map(t)] # NotSet THEN "done" ELSE "check")
    /\ UNCHANGED <<mapvars, mutex, cache, cache_lock>>
GetLoadBiasCheckAnyArch(t) ==
    LET m == Map(t) IN
    /\ At_(t, "check") /\ mutex[m] = Null
    /\ load_bias' = IF elf[m] = Null THEN load_bias
                    ELSE [load_bias EXCEPT ![m] = IF Shows(m) = Nowhere THEN 0 ELSE ElfOf(Shows(m)).load_bias]
    /\ Goto(t, IF elf[m] = Null THEN "create" ELSE "done")
    /\ UNCHANGED <<elf, elf_offset, elf_start_offset, memory_backed_elf, build_id, mutex, cache,
                   cache_lock>>
GetLoadBiasCheck(t) ==
    LET m == Map(t) IN
    /\ At_(t, "check") /\ mutex[m] = Null
    /\ load_bias' = IF elf[m] = Null THEN load_bias ELSE [load_bias EXCEPT ![m] = LoadBias(Shows(m))]
    /\ Goto(t, IF elf[m] = Null THEN "create" ELSE "done")
    /\ UNCHANGED <<elf, elf_offset, elf_start_offset, memory_backed_elf, build_id, mutex, cache,
                   cache_lock>>
GetLoadBiasStatic(t) ==
    /\ At_(t, "static")
    /\ load_bias' = [load_bias EXCEPT ![Map(t)] = StaticLoadBias(Made(Map(t)).at)]
    /\ Goto(t, "done")
    /\ UNCHANGED <<elf, elf_offset, elf_start_offset, memory_backed_elf, build_id, mutex, cache,
                   cache_lock>>

GetBuildID(t) ==
    /\ At_(t, "load_id")
    /\ Goes(t, "check_id", "id", build_id[Map(t)])
    /\ UNCHANGED <<mapvars, mutex, cache, cache_lock>>
\* The condition loads build_id a second time.
GetBuildIDCheck(t) ==
    /\ At_(t, "check_id")
    /\ Goto(t, IF build_id[Map(t)] # Null THEN "have_id" ELSE "get_obj")
    /\ UNCHANGED <<mapvars, mutex, cache, cache_lock>>
GetBuildIDObject(t) ==
    /\ At_(t, "get_obj") /\ mutex[Map(t)] = Null
    /\ Goes(t, "read_id", "obj", elf[Map(t)])
    /\ UNCHANGED <<mapvars, mutex, cache, cache_lock>>
GetBuildIDReadResets(t) ==
    LET made == GetFileMemory(Map(t)) IN
    /\ At_(t, "read_id")
    /\ IF th[t].obj # Null THEN UNCHANGED <<elf_offset, elf_start_offset>>
       ELSE SetOffset(Map(t), 0) /\ SetStart(Map(t), made)
    /\ Goes(t, "save_id", "id", t)
    /\ UNCHANGED <<elf, memory_backed_elf, load_bias, build_id, mutex, cache, cache_lock>>
GetBuildIDRead(t) ==
    LET m == Map(t)
        made == GetFileMemory(m)
    IN
    /\ At_(t, "read_id")
    /\ IF th[t].obj # Null THEN UNCHANGED <<elf_offset, elf_start_offset>>
       ELSE SetElfOffset(m, made) /\ SetStart(m, made)
    /\ Goes(t, "save_id", "id", t)
    /\ UNCHANGED <<elf, memory_backed_elf, load_bias, build_id, mutex, cache, cache_lock>>
GetBuildIDSaveAlways(t) ==
    /\ At_(t, "save_id")
    /\ build_id' = [build_id EXCEPT ![Map(t)] = t]
    /\ Goto(t, "have_id")
    /\ UNCHANGED <<elf, elf_offset, elf_start_offset, memory_backed_elf, load_bias, mutex, cache,
                   cache_lock>>
GetBuildIDSaveRetries(t) ==
    /\ At_(t, "save_id")
    /\ IF build_id[Map(t)] # Null THEN UNCHANGED <<build_id, th>>
       ELSE build_id' = [build_id EXCEPT ![Map(t)] = t] /\ Goto(t, "have_id")
    /\ UNCHANGED <<elf, elf_offset, elf_start_offset, memory_backed_elf, load_bias, mutex, cache,
                   cache_lock>>
\* compare_exchange_weak may fail although build_id is 0; the string is then not saved
GetBuildIDSave(t) ==
    /\ At_(t, "save_id")
    /\ \/ build_id[Map(t)] = Null /\ build_id' = [build_id EXCEPT ![Map(t)] = t]
       \/ build_id' = build_id
    /\ Goto(t, "have_id")
    /\ UNCHANGED <<elf, elf_offset, elf_start_offset, memory_backed_elf, load_bias, mutex, cache,
                   cache_lock>>

Step(t) ==
    \/ Return(t) \/ GetElf(t) \/ CacheGet(t) \/ CreateMemory(t) \/ CreateMemoryEnd(t)
    \/ NewElf(t) \/ SetPrev(t) \/ GetFunctionName(t)
    \/ GetLoadBias(t) \/ GetLoadBiasCheck(t) \/ GetLoadBiasStatic(t)
    \/ GetBuildID(t) \/ GetBuildIDCheck(t) \/ GetBuildIDObject(t) \/ GetBuildIDRead(t)
    \/ GetBuildIDSave(t)
Terminated == (\A t \in Threads : At_(t, "idle") /\ th[t].left = 0) /\ UNCHANGED vars
Next ==
    \/ \E t \in Threads : Step(t) \/ \E call \in Calls, m \in MapIds : Call(t, call, m)
    \/ Terminated
Spec == Init /\ [][Next]_vars
\* Threads run; a mutex that is free again and again is not refused for ever.
FairSpec == Spec /\ \A t \in Threads : SF_vars(Step(t))

(***************************************************************************)
(* Maps of files that can be opened where they are mapped, and of files    *)
(* that begin with an elf if there is a cache                              *)
(***************************************************************************)
FilesThere ==
    \A m \in MapIds :
        /\ Maps[m].start \in Nat /\ Maps[m].end \in Nat /\ Maps[m].start < Maps[m].end
        /\ Maps[m].name # "" /\ Maps[m].flags # "device" /\ Maps[m].offset \in Nat
        /\ FileInit(Maps[m].name, Maps[m].offset) /\ Files[Maps[m].name].size \in Nat
CachedFilesAreElfs == CachingEnabled => \A m \in MapIds : ElfAt(Maps[m].name, 0)

(***************************************************************************)
(* The elf object of a map is set once and never replaced: MapElf          *)
(* implements ElfOnce, by the mutex of the map and the checks under it.    *)
(***************************************************************************)
Once == INSTANCE ElfOnce WITH Slots <- MapIds, Elfs <- MapIds, None <- Null, slot <- elf
SetOnce == Once!Spec

(***************************************************************************)
(* GetElf never returns a null pointer, and what it returns is what the    *)
(* map holds, however it came by it.                                       *)
(***************************************************************************)
ReturnsElf == \A t \in Threads : At_(t, "use") => th[t].obj # Null /\ th[t].obj = elf[Map(t)]

(***************************************************************************)
(* The elf of a map is the one of its own part of the file, whether it was *)
(* created for it, was taken from the cache or came from the next map.     *)
(***************************************************************************)
RightElf == \A m \in MapIds : elf[m] # Null => Shows(m) = Made(m).at

(***************************************************************************)
(* While a thread uses the elf it got, elf_offset, which GetRelPc adds, is *)
(* the one that goes with it.                                              *)
(***************************************************************************)
RelPcRight == \A t \in Threads : At_(t, "use") => elf_offset[Map(t)] = Made(Map(t)).elf_offset

(***************************************************************************)
(* With the cache, maps of one file that is an elf share one elf object,   *)
(* in whatever order, by whichever thread and map it is first asked for.   *)
(***************************************************************************)
CacheShares ==
    CachingEnabled =>
        \A m, n \in MapIds :
            /\ elf[m] # Null /\ elf[n] # Null
            /\ Made(m).at = At(Maps[m].name, 0, "file") /\ Made(n).at = Made(m).at
            => elf[m] = elf[n]

(***************************************************************************)
(* A load bias that is known is one of the map's own part of the file,     *)
(* never of another map: what its elf has (0 if that is invalid) or what   *)
(* the static function reads there.  Where these agree, it is exact.       *)
(***************************************************************************)
LoadBiasRight ==
    \A m \in MapIds :
        load_bias[m] \in {NotSet, LoadBias(Made(m).at), StaticLoadBias(Made(m).at)}

(***************************************************************************)
(* A build id that is saved stays: other threads may be reading it.        *)
(***************************************************************************)
BuildIdSavedOnce == [][\A m \in MapIds : build_id[m] # Null => build_id'[m] = build_id[m]]_vars

(***************************************************************************)
(* A map whose elf is read from the memory of the process is marked so,    *)
(* also where it got the elf from the map after it.                        *)
(***************************************************************************)
MarkedInMemory == \A m \in MapIds : elf[m] # Null => memory_backed_elf[m] = Made(elf[m]).backed

(***************************************************************************)
(* Every call returns: no thread waits for ever for the mutex of a map or  *)
(* the lock of the cache.                                                  *)
(***************************************************************************)
AllReturn == \A t \in Threads : []<>At_(t, "idle")

=============================================================================
