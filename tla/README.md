# Verification of libunwindstack and libbacktrace

This directory holds TLA+ models of the unwinding libraries in `src/`, the TLC
configurations that check them on small instances, and TLAPS proofs.

## The system

*libunwindstack* turns registers and memory into a list of frames. An `Unwinder`
walks the stack: for every pc it finds the `MapInfo` of the mapping (`Maps`), the
`Elf` object behind it (shared through a global cache), and asks the `ElfInterface`
to step with `.debug_frame`, `.eh_frame` (`DwarfSection`, `DwarfEhFrameWithHdr`),
the gnu debug data or the ARM exception index (`ArmExidx`). DWARF rows are computed
by two small machines (`DwarfCfa`, `DwarfOp`), names come from `Symbols`. All of it
reads through `Memory`. `JitDebug` and `DexFiles` follow linked lists that a runtime
publishes in the memory of the process. `LocalUnwinder` does the same for the
calling thread with maps that are re-read when a pc is unknown.

*libbacktrace* is the older interface on top. `BacktraceCurrent` unwinds the calling
thread or another thread of the process. For another thread it sends a signal whose
handler saves the registers and waits; the two threads meet in a `ThreadEntry`.
`BacktracePtrace` unwinds other processes.

| part | modules | what there is |
| --- | --- | --- |
| ThreadEntry, BacktraceCurrent::UnwindThread, SignalHandler | `UnwindThread` | checked, proved |
| LocalUpdatableMaps, Maps::Find, LocalUnwinder::GetMapInfo | `LocalMaps` | checked, proved |
| MapInfo and the cache of Elf | `MapElf`, which implements `ElfOnce` | checked, proved |
| Elf::Init, ElfInterface: headers, debug data, soname | `ElfHeaders` | checked, proved |
| Elf::Step, ElfInterface::Step, DwarfSection::Step | `ElfStep` | checked, proved |
| Symbols, GetFunctionName | `Symbols` | checked |
| Global, JitDebug, DexFiles | `Globals` | checked, proved |
| Unwinder::Unwind | `Unwinder` | checked, proved |
| Memory: processes; files, ranges, saved memory, strings | `ProcessMemory`, `MemoryViews` | checked, proved |
| DwarfEhFrameWithHdr | `EhFrameHdr` | checked, proved |
| DwarfSectionImplNoHdr: the index of FDEs | `FdeIndex` | checked, proved |
| DwarfSectionImpl: CIEs and FDEs | `DwarfEntries` | checked |
| DwarfSectionImpl::Eval | `DwarfEval` | checked, proved |
| DwarfCfa, with the caches of DwarfSection | `DwarfCfa` | checked |
| DwarfOp | `DwarfOp` | checked |
| DwarfMemory | `DwarfMemory` | checked |
| ArmExidx, StepExidx | `ArmExidx` | checked |

PROJECT.json lists the parts, the lines every definition stands for, and the hazards
with the properties that would catch them, or the reason why none does.

The modules cut the program where its parts meet. `Unwinder` takes any outcome of a
step, `ElfStep` any outcome of evaluating a row, `DwarfEval` any row, and `DwarfCfa`
says which row the instructions give; `MapElf` takes files in which an elf begins at
certain places, `ElfHeaders` says what is made of such an elf. `FdeIndex` counts
entries, `DwarfEntries` fields and `DwarfMemory` bytes of the same sections.

### The runs

Two components have MC modules of their own (`MCUnwindThread`, `MCLocalMaps`). The
others share three, each with a variable `part`: a behaviour chooses in its initial
state which component, or which instance of one, it is about; the variables of the
others never change. The properties are stated in the modules of the components; an
MC module puts those that make up one promise of a component, or the same promise of
several, into one property of the run (`part = "x" => X!P /\ X!Q`). The parts do not
interact, so a run explores the union of their states; the fairness of a component
is that of its instance. The sections below name the properties of the components.

| run | property | made of |
| --- | --- | --- |
| `dwarf_evaluation` (`MCDwarf`) | `AssignedAtOnce` | DwarfEval |
| | `EvalOutcomeInAnyOrder` | DwarfEval: FailsInAnyOrder, DexPcOfThisFrame, FinishedAtZero |
| | `OpSound` | DwarfOp: NothingFromOutside, TrapsOnlyOnOverflow, FailureHasCode, MarkerLeavesNothing |
| | `EncodedReads` | DwarfMemory: SizeIsConsumed, SignExtended, RelativeNeedsBase |
| | `CfaStepFollowsTable` | DwarfCfa: StepFollowsTable, RowsValidInRange |
| | `MemReads`, `MemCacheTransparent` | ProcessMemory: ReadsPrefix, StopsAtHole, ReadsAllThereIs; CacheTransparent |
| `unwind_tables` (`MCTables`) | `SearchFindsGreatest`, `SearchShrinks` | EhFrameHdr |
| | `FdeLookups` | EhFrameHdr: ReturnedFdeCovers, CacheIsTable; FdeIndex, two instances: ReturnedFdeCovers, FindsFirst, ListsAll, IndexComplete |
| | `EntriesAsWritten` | DwarfEntries: EntriesAsWritten, NoDanglingCie, FailureNotCached |
| | `ArmExecutesProgram`, `ArmLogRight` | ArmExidx, two instances: DataFollowsProgram, FinishFound, StepMovesToCaller; LoggingIsPassive, LogIsExecution |
| | `DecodingEnds` | EhFrameHdr: SearchEndsSometime; ArmExidx and DwarfOp with branches: EvalEnds |
| `elf_and_memory` (`MCElf`) | `ReturnsElf`, `RelPcRight`, `SetOnce`, `BuildIdSavedOnce`, `AllReturn` | MapElf |
| | `MapsHaveRightElf` | MapElf, three further instances: RelPcRight, CacheShares, MarkedInMemory, RightElf, LoadBiasRight |
| | `AnswersStay` | ElfHeaders: SonameStable; Unwinder: OnlyGuessesRemoved |
| | `FramesRight` | Unwinder: FramesBounded, CutIsReported, NamedAtShownPc, GuessConfirmed |
| | `CallsEnd` | Unwinder, second instance: UnwindEnds; ElfHeaders: LoadEnds; ElfStep: LockGivenBack; Globals: QueryEnds |
| | `ViewsShow` | MemoryViews: FileShownFromOffset, RangesCover, PartsShowSaved, StringsEndAtNul |
| | `HeadersRight` | ElfHeaders: FramesFound, DebugdataWhole, ValidPcIsMapped |
| | `StepRight` | ElfStep: two instances: RowOfPc, FirstErrorReported, MostSpecificFirst, SegmentsKeepOut |
| | `ListsFirstEntryFound` | Globals: FindsVariable, FirstEntryFound |
| | `NamesFound` | Symbols: NameFound, NameRight |

`CHECK_DEADLOCK` is off in `MCDwarf` and `MCTables`: an evaluation that has returned
stops. In `MCElf` it is on, for the threads of `MapElf`; the parts that come to an
end, or are asked a bounded number of times, may stutter (`Ended`).

## UnwindThread

`call[t]` is the activation of `UnwindThread` on thread `t` (its place and its
locals `entry`, `oldact`, `wait_completed`, the error code), `hand[t]` that of
`SignalHandler` on top of it, `heap` the ThreadEntry objects by address. `sigMutex`,
`listMutex` and the fields `mutex`, `wait_mutex` are the mutexes by owner; `sigact`,
`pending`, `alive`, `killed` are the kernel's side. There is one action for every
step another thread could come in between. In particular `wait_value_++` is a load
and a store, because `Lock()` writes the same field without `wait_mutex_`, and
`pthread_cond_signal` after the unlock is a step of its own. A condition wait is a
look at the value that may be repeated at any time, which covers spurious wake-ups;
it may end by a timeout. `ThreadEntry::Get` works on a set of objects instead of the
linked list, under `list_mutex_`.

A signal is real-time (queued), is masked while its handler runs, and is handled
with the action installed when it is delivered; `SignalLogOnly` and an action of the
program consume it, the default action ends the process. `sigaction` and `tgkill`
may fail. A thread may exit whenever it is not inside a call or a handler, so also
with a signal queued.

`Slow` chooses between two worlds. With `Slow = TRUE` every timed wait may run out
at any moment: threads may be preempted for longer than five seconds. With `Slow =
FALSE` a wait runs out only if the thread under test has exited.

### What is checked

* `unwind_timely` (two unwinders, two calls each, one thread under test that may
  exit): the ucontext that is read belongs to this call and the thread stays stopped
  while it is read (`PausedWhileUnwound`); the mutex is passed on only after the
  signal was received (`ReceivedBeforeContinuing`); the default action never meets
  the signal (`NotKilled`); every call and every handler returns
  (`EveryoneReturns`). The last needs weak fairness of each thread's own steps and
  of its handler: a runnable thread is scheduled. TLC's deadlock check is on; the
  model stutters only when nothing is in progress.
* `unwind_slow` (the same threads, waits may run out anywhere): no deleted entry is
  used (`NoUseAfterFree`), unwinds of one thread do not overlap
  (`OneUnwindAtATime`), the handler is not left installed
  (`HandlerNotLeftInstalled`), types.

Two unwinders and one target are the smallest instance in which an entry is shared,
its mutex contended, and a late signal or a late Wake() can hit another call; two
calls per thread let one call see what the previous one left. Two addresses let an
entry be deleted and made again elsewhere. No thread under test unwinds others in
the passing runs; `handler_deadlock` shows why.

### What the code does otherwise

* `late_signal`: a call that timed out leaves its signal queued. Delivered while the
  next call has the handler installed, its Wake() answers that call's Wait(1). The
  comment at BacktraceCurrent.cpp:203 says the signal has been received by then.
* `late_wake`: Wait(3) times out, the next call resets `wait_value_` to 0, and the
  old handler's last Wake() makes it 1. The next call believes its ucontext is
  there, restores the default action with its signal queued, and the signal ends the
  process, which the comment at line 191 means to exclude.
* `entry_leak`: nobody returns the reference of the handler's `Get`, so an entry is
  never deleted after a successful unwind (comment at line 211). It is this
  reference that makes `NoUseAfterFree` hold for the last `pthread_cond_signal`; the
  remark at line 145 that the entry may have been freed is too careful.
* `handler_deadlock`: a thread signalled inside its own `Remove` waits in the
  handler for the `list_mutex_` it holds (comment at line 141).

### What is proved

`UnwindThread_proofs` proves for every set of threads and entries, every bound and
both values of `Slow`: `TypeCorrect`, `PointersValid`, `UnwindsExclusive` and
`HandlerRemoved`, from `ThreadsAssumption` (finitely many threads, `None` is none of
them, nobody unwinds itself). The inductive invariant has four parts. `TypeInv` adds
to the types that a call or a handler has a pointer exactly at certain places.
`SigInv` says who holds `g_sigaction_mutex` and that the saved action is never
SignalHandler itself. `EntryInv` says that `ref_count_` is at least the number of
pointers to the entry and that a thread has one entry; neither half of
`NoUseAfterFree` is inductive without the count, and the type of the count is not
inductive without it either. `MutexInv` ties `mutex_` to the places between Lock and
Unlock.

For `Slow = FALSE` the same module proves the three properties of the timely world:
`SignalReceived` (`ReceivedBeforeContinuing`), `PausedForUnwind`
(`PausedWhileUnwound`) and `NeverKilled` (`NotKilled`). None of them is inductive,
since each looks at one moment of the hand-shake. `TimelyInv` describes all of it:
for a call between Lock and Unlock, `Session` gives at each of its places what is
queued for the thread under test, where that thread is in its handler and with which
entry, and what `wait_value_` and the ucontext of the entry are; a thread on which
no call works rests, with nothing queued (`Left`), a thread that has exited also
(`Gone`); the handler is installed from sigaction to its restoration
(`HandlerStays`). It needs the mutual exclusion of `IInv`: two calls that both were
between Lock and Unlock on one entry would disturb each other's Session. Where the
other world breaks it is the line of Session for a Wait that runs out, which in the
timely world means that the thread is gone.

Liveness is model-checked only.

## LocalMaps

`kernel` is the set of mappings of the process, `snapshot` what it was when
/proc/self/maps was last read. `objects` holds every MapInfo ever made, by a number
that is not used again; `maps` and `saved` are `maps_` and `saved_maps_`, so an
object in neither has been deleted. `held[t]` are the MapInfo pointers in the frames
of thread `t`, `missed[t]` the pc it did not find. The reader-writer lock makes two
steps of `GetMapInfo`: `Lookup` (Find) and `LookupAgain` (Reparse and Find) or
`ParseFails`. In between, and at any other time, `MMap` and `MUnmap` change the
mappings; an mprotect is the two together. `Done` ends an unwind. Reparse is
computed by `Scan`, one `ScanMap` per new map, with the inner loop in closed form:
the index where it stops decides what it has moved and whether it followed a null
pointer. `Find` is the binary search, one `Probe` per pass. A mapping is its bounds,
its kind (flags and name) and its offset, which Reparse does not compare. The
mappings in `Fixed` never change.

* `reparse`: two threads, three slots in which mappings change, split, merge and
  change flags, a fixed topmost mapping, two re-reads. No MapInfo in a frame is
  deleted (`InUseNotDeleted`); `maps_` holds exactly what was read, in order
  (`MapsAreSnapshot`), which is what makes the binary search right (`FindsMapping`);
  a mapping that is still there keeps its object (`SameMappingSameObject`). Two
  threads are needed for a pointer to be held across another thread's re-read, two
  re-reads for the second to work on the result of the first. Each thread holds one
  frame: a violation concerns one pointer. The two threads are symmetric.
* `reparse_no_top`: the fixed topmost mapping is an assumption the code does not
  state. Where the kernel puts one ([vsyscall], [vectors]) every new map meets an
  old one that starts later or is equal. Without it the inner loop can run off the
  end without moving `search_map_idx`; the maps it saved are then subtracted from
  `total_entries` twice, and `resize` deletes maps that are in use, against the
  comment at LocalUnwinder.cpp:77. With more new maps the same state ends in a null
  pointer (`crashed`). `CHECK_DEADLOCK` is off there because a crashed process
  stops.
* `prev_map`: a new map points to the new map before it, which Reparse deletes when
  it equals an old one; only `Maps::Sort` would set the pointer again.

### What is proved

`LocalMaps_proofs` proves the four properties of `reparse` for any finite set of
mappings, any threads and any number of re-reads: `InUseSafe`, `ReparseCorrect`,
`FindCorrect` and `ObjectsStay`. `MappingsAssumption` says what a mapping is; those
that exist together do not overlap. Every theorem has the premise `HasTop`, a fixed
mapping above all others; `reparse_no_top` shows that it cannot be dropped.

The inductive invariant `IInv` says that `maps_` has one object for each mapping of
the last snapshot, in order (`MapsInv`), and that the pointers of the threads are in
`maps_` or in `saved_maps_`. That Reparse keeps it is the loop invariant `ScanInv`
of the scan over the new maps: what is before `search_map_idx` was either found
again, and the new object is dropped, or has been moved to `saved_maps_`, so that
dropped and moved together are `search_map_idx`; and the search never stands beyond
the topmost old map, because every new map meets an old one that starts no earlier
(`StopRight`). From it follows that `total_entries` counts exactly the objects that
are kept (`TotalRight`), and that sorting puts them in the order of the new maps
(`KeptInOrder`). `Find` has the usual invariant of bisection. Both loops are
recursive functions. The proof unfolds them into a sequence of passes
(`FindUnfolds`, `ScanUnfolds`) and runs along it by induction over the naturals
(`Induct`, from the well-foundedness of `<`).

## MapElf and ElfOnce

`elf`, `elf_offset`, `elf_start_offset`, `memory_backed_elf`, `load_bias` and
`build_id` are the fields of each MapInfo, `mutex` its mutex, `cache` and
`cache_lock` the global cache of Elf. `th[t]` is the call a thread is in. A call is
cut at every lock, at every atomic load or store, and where CreateMemory is about to
overwrite what it has reset; GetLoadBias and GetBuildID do part of their work
outside of the mutex, as in the code. Offsets and sizes count pages. An elf object
is the number of the map it was made for, and what it shows (`Made`) is computed by
CreateMemory from the maps and the files: a whole file, a part of an archive, the
previous read-only map, or the memory of the process. An elf has an architecture,
and two load biases, because the code has two ways to find one: ReadProgramHeaders
takes the executable PT_LOAD at offset 0, and 0 if the elf is not valid or not of
the `ExpectedArch`; the static GetLoadBias, which is used while there is no elf
object, takes the first PT_LOAD at offset 0 and looks at no architecture. Every
caller passes a process_memory.

Four instances, two threads each:

* a library split in a read-only and an executable map (`split`): the elf a caller
  got is the elf of the map and stays so (`ReturnsElf`, `SetOnce`), the `elf_offset`
  used with it is the one that goes with it (`RelPcRight`), a build id that is saved
  is not replaced (`BuildIdSavedOnce`), every call returns (`AllReturn`);
* the library mapped twice, with the cache on (`cached`): one elf object
  (`CacheShares`), and the right offset for each map (`RelPcRight`);
* a file that is gone (`gone`): an elf read from memory is marked so, also where it
  came from the map after (`MarkedInMemory`);
* two libraries of one archive, without the cache (`archive`), one of them for
  another architecture: each map has the elf of its own library (`RightElf`), and a
  load bias that is known is one of the two of that library, by the rules of its elf
  object or of the static function, never another one's (`LoadBiasRight`). The two
  ways need not agree, so the code promises no more.

`AllReturn` assumes strong fairness of each thread's steps inside a call: a mutex
that is given back again and again is got some time.

`ElfOnce` is what MapInfo promises ("once the elf object is created, it is not
deleted until this object is deleted"): a slot per map that is set once. `SetOnce`
is its specification with `slot <- elf`. The theorem `Refinement` proves that MapElf
implements it for any threads, maps, files and calls, `ReturnsElfAlways` proves
`ReturnsElf`. The inductive invariant (`IInv` of `MapElf_proofs`) ties places to
calls and says that a thread that is about to set the elf of a map holds its mutex
and has seen, under it, that there is none; and that the elf a thread is using is
the one of its map. The step of one thread preserves what the others rely on because
it sets elfs only of maps whose mutex it holds (`Spares`). SetPrev, which sets the
elf of the map before, takes that map's mutex for it. The assumptions say that maps
are numbered from 1, a previous map is a map, and 0 is not a thread. `BuildIdStays`
proves `BuildIdSavedOnce`: the only store is the compare_exchange_weak of
GetBuildIDSave, which fails when there is a build id, or without a reason.

Which elf a map gets is proved for maps of files that can be opened (`FilesThere`)
and, with the cache on, begin with an elf (`CachedFilesAreElfs`); an archive with
the cache on is the case of Elf.cpp:370 below. `RightElfAlways` proves `RightElf`
and `LoadBiasRight` for any threads and calls. Its invariant `FieldsInv` says that
elf_offset and elf_start_offset are 0 or what GetFileMemory computes for the map,
that an elf shows what the map's own file memory would show, also where it came from
the map after or from the cache, and the same of the entries of the cache
(`RightEntries`). `RelPcAlways` proves `RelPcRight` and `CacheShares` for calls
other than GetLoadBias: then nobody resets elf_offset while an elf is there, so it
has its final value from the moment the elf is added (`OffsetsRight`), and a thread
that creates an elf with the cache on holds the lock of the cache and found no entry
(`Locked`, `Shared`). With GetLoadBias among the calls `RelPcRight` fails
(MapInfo.cpp:284).

## ElfHeaders

An elf is a record of what its memory would give: the headers in their order, any of
which may be unreadable, which sections DwarfSection::Init accepts, the dynamic
section, the compressed data. There is one action per header, one for InitHeaders,
one per piece of debug data unpacked, and GetSoname and IsValidPc afterwards.
Checked for all sequences of up to two of the headers in `MCElf`: which unwind
section is used in whatever order the headers come and whichever are damaged
(`FramesFound`); the debug data is kept whole and the buffer not overrun, for sizes
0 to 14 against a buffer that begins with 5 and grows by 2 (`DebugdataWhole`); a pc
is valid by addresses, not file offsets (`ValidPcIsMapped`); GetSoname is stable
(`SonameStable`); loading ends (`LoadEnds`, weak fairness of loading: it is a loop
of the calling thread).

`Elf_proofs` proves the first three (`HeadersCorrect`) and `SonameStable`
(`SonameCorrect`) for any number of headers, any debug data and any dynamic entries;
`ElfHeadersAssumption` gives types only. The properties speak of an elf that is
loaded. The invariant says the same of what has been read so far: the executable
segments kept are those of the headers before the current one (`LoadsInv`), the
offset of .eh_frame_hdr is that of the last such segment, or else of the first
section of that name that has an offset (`HdrIs`), that of .eh_frame is that of the
last section of its name (`EhIs`), where a header that cannot be read ends each loop
(`Read1`, `Read2`). `UnpackInv` says that the bytes unpacked are within the buffer
and no more than the data has, `AnswerInv` that a soname that was answered is the
one remembered.

## ElfStep

Two threads step through one elf under its lock, and ask IsValidPc without it.
`loc_regs[s]` is the cache of rows of section `s`, `errors[s]` its error,
`last_error` that of the interface. Checked: the cached row is the one for the pc
(`RowOfPc`); the error reported is the one of the first section of this step
(`FirstErrorReported`); sections are tried in their order and exidx last
(`MostSpecificFirst`); the lock is given back (`LockGivenBack`, weak fairness of a
thread inside a call).

IsValidPc asks the elf and then its .gnu_debugdata. One of them that has segments
answers from these; one that has none is searched: GetFdeFromPc reads entries into
the index that a step uses under the lock, and IsValidPc does not take it. `raced`
says that such a search and a step have overlapped. From then on a section may find
any of its rows or none, and the error is any, against Elf.cpp:186 ("Lock during the
step which can update information in the object."). `RowOfPc` and
`FirstErrorReported` are therefore promised only until then, and `SegmentsKeepOut`
says when it cannot come to that: a race needs a section of an elf, or of a
.gnu_debugdata, without segments. Two instances: elfs with segments and one without
any, with two calls of each thread; elfs of two sections of which one interface has
segments and the other has not, with one. Rows of one section do not overlap.

`Elf_proofs` proves `StepsCorrect` (`StepRight`: the four safety properties) for any
threads, elfs and calls, from `ElfStepAssumption` (the sections of an elf have
different names, the rows of one are not empty and do not overlap). The inductive
invariant: the lock is held by exactly the thread between the begin and the return
of a step (`LockInv`), so that the errors of the sections, which all threads share,
are those of this step (`TriedInv`), unless a search has overlapped with it, which
`RaceInv` traces to sections that are searched; the cache has only rows of the table
(`CacheInv`), and since these do not overlap, the first one that ends behind the pc
is the one around it or none is (`RowInv`).

## Symbols

Entries of the tables are read as far as a query needs; the cache is sorted after
reading, and bisected. All orders of up to four of five entries, alone or with a
second table, three queries: the name found is that of the function that covers the
address in the first table that has one, whatever was asked before (`NameFound`).
After an entry that cannot be read the cache stays unsorted and the table is never
read again: names may be missed, but none is wrong (`NameRight`). Functions do not
overlap, and names are in the string table when the entry comes from the cache.

## Globals

`kind` chooses JitDebug or DexFiles; `entry` is where the next unread entry of the
list is, `known` what was read. FindAndReadVariable is the walk over the maps, with
the library it is in as its state. Checked with lists that have damaged, foreign and
invalid entries, and maps with and without the variable: the descriptor is the one
of the first library with a list (`FindsVariable`), answers do not depend on what
was asked before (`FirstEntryFound`), queries end (`QueryEnds`, weak fairness of the
loop). When an entry cannot be read, start and size are what the stack held: the
model takes any elf read before or none. Lists end and do not change after they were
found; a list with a cycle would be read for ever.

`Unwinder_proofs` proves both safety properties (`ListsCorrect`) for any maps, lists
and calls; `GlobalsAssumption` gives their types only. For the walk, `WalkInv` says
after every map that a variable found is that of the first library with a list, that
until then no library tried had one, and that the start the walk remembers is the
first map of the library it is in (`Open`); it holds after every map by induction
over their number. For the queries, `ReadUpTo` says that some number r of entries
was read, that each is known under its own place and none of them is broken, and
that reading stopped at the end of the list or at a broken entry; an elf added twice
for an entry that could not be read may only be the last. `Asked` says what the
query under way has ruled out. `FirstEntryFound` alone speaks of finished queries
and is not inductive.

## Unwinder

One iteration of Unwind is four steps: find the map and the elf, add the frames,
step, decide. What a step makes of pc and sp is any value, a dex pc may appear in
any step and is any pc. A step that fails leaves what was evaluated until then: any
registers, and the error of this step or of an earlier one. An address is the pc
less the start of its map or not, adjusted or not, so that the model knows where a
name was looked up and what is shown. Checked with maps to skip, device maps, an
ignored suffix and a map without a valid elf: never more than `max_frames_` frames
although an iteration may add two (`FramesBounded`); names at the pc shown
(`NamedAtShownPc`); a frame guessed from the return address is kept only if the next
step works (`GuessConfirmed`), and nothing else is removed (`OnlyGuessesRemoved`); a
cut is reported (`CutIsReported`). In a second instance without names to skip every
unwind ends (`UnwindEnds`, weak fairness: one thread runs the loop). With names to
skip there is no bound while frames are suppressed: a cycle of two frames in skipped
maps goes on until the registers repeat directly.

`Unwinder_proofs` proves `FramesCorrect` (the four properties of the frames) and
`RemovesGuesses` (`OnlyGuessesRemoved`) for any maps, registers and `max_frames_`.
`UnwinderAssumption` is about types only. The inductive invariant says how the flags
of the loop go with the last frame: there is room when a frame is added, although
one was added before for the dex pc (`PlaceInv`); between the guess and the
decision, `return_address_attempt` says whether the last frame is one (`GuessInv`);
the address a name will be looked up at is adjusted like the one shown (`NameInv`);
the error of a cut is set only when the frames are full (`CutInv`).

## ProcessMemory and MemoryViews

A byte of a process is its address and the generation of its page, so a stale byte
is seen. Pages may be mapped, unmapped or readable by ptrace only, and change
between reads. Four pages of 2 bytes, the last never mapped; batches of three pages
(a part of `MCDwarf`). `ReadsPrefix`, `StopsAtHole`, `ReadsAllThereIs` and
`CacheTransparent` say that a read is the bytes that are there, from the address on,
as many as asked for and up to the first hole, by process_vm_readv or word by word
by ptrace, also after the reader has settled on one of the two, and that the cache
cannot be told from the memory until the process changes.

`StopsAtHole` is checked for reads of one batch (64 pages in the code). A longer
read with a hole at the end of a batch goes on with the next batch and returns the
bytes behind the hole as if they followed (Memory.cpp:85); the test at
MemoryRemoteTest.cpp:144 says "Now verify that reading stops at the end of a map."

MemoryViews: a file from an offset that need not be aligned, ranges that overlap or
leave a gap, saved memory behind its header, strings. All offsets and sizes in an
address space of 10, with pages of 4 (`FileShownFromOffset`, `RangesCover`,
`PartsShowSaved`, `StringsEndAtNul`). The two ranges are those of
MapInfo::CreateMemory: the first at offset 0, the second behind it. Where the second
ends is whatever the maps say (MapInfo.cpp:172-186). If it ends before the first,
the upper_bound of MemoryRanges::Read (Memory.cpp:332) finds it also for the
addresses below it, which only the first has, and they are not read; `RangesCover`
says that every byte of a range can be read in all other cases, and that a byte that
is read is right in all.

`Memory_proofs` proves the four properties of ProcessMemory for any page size, any
process and any changes of it (`ReadsCorrect`, `CacheCorrect`), and the four of
MemoryViews for any file, offsets, ranges and parts (`ViewsCorrect`). The first two
have the premise `OneBatch`: a read takes one call of process_vm_readv; without it
`StopsAtHole` is false, as above. The loops of a read are recursive functions,
unfolded into their passes. `BatchInv` is the loop that fills the iovecs: they
follow one another from the address on without a gap, and every page is met
(`Chain`). `VmSpec` then says what process_vm_readv makes of them, `Complete` what
the loop of words by ptrace does. A read returns a sequence of bytes, and that it is
the right one is an invariant because every action makes it so; the state that has
to be carried is the cache: as long as the process has not changed, a cached page is
what the process has (`CacheRight`). For the views, the invariant says what each
object is made of: `ViewInv` that data and size of a mapped file are the offset
asked for and what the file has from there, `RangesInv` that at most two ranges are
held under their ends, which do not leave the address space, `PartsInv` that a part
of the saved memory ends where the file does.

## EhFrameHdr

`table` holds the first pcs as the linker wrote them, `fde_info` the entries cached,
`first`, `last`, `at` the search. An entry may be unreadable; `ends` are the ends
the FDEs themselves have, which the table does not tell. All tables of three
entries, sorted or not: a search in a sorted table finds the greatest entry not
above the pc (`SearchFindsGreatest`), the FDE returned covers the pc
(`ReturnedFdeCovers`; "Guaranteed pc >= pc_start, need to check pc in the fde
range."), the cache has the load bias once (`CacheIsTable`), the range shrinks in
every step (`SearchShrinks`), a search ends (`SearchEndsSometime`, weak fairness of
the search).

`EhFrameHdr_proofs` proves the first four for tables of any length and content:
`SearchCorrect` and `SearchShrinksAlways`. The inductive invariant `IInv` adds to
types and properties the `RangeInv` of the bisection: entries before `first` are not
above the pc, those from `last` on are. It is stated of the true pcs of the table,
and `CacheIsTable` carries it over to what the search reads. Assumed: numbers are
naturals. That the table is sorted is a premise of the properties, not an
assumption.

## FdeIndex

An offset is a position in the sequence of entries, `next` the cursor, `fdes` the
index by last pc. InsertFde, with its walk over what is there, is `InsertFde`. Two
instances: all sections of up to three FDEs or CIEs in the order of their first pc,
and sections of up to four entries in any order, with unreadable and overrunning
ones. In both the FDE returned covers the pc (`ReturnedFdeCovers`) and GetFdes lists
the section once (`ListsAll`, of sections that can be read); in the first the first
FDE in the section that covers a pc is found, whatever was looked up before
(`FindsFirst`), and all pcs read are in the index (`IndexComplete`).

In other orders InsertFde can lose a part of an FDE that stretches on both sides of
others (DwarfSection.cpp:638), although the comment at line 615 describes how such
an FDE gets an entry on each side. And an entry that fails after the cursor has
moved over it leaves a hole at which GetFdes stops, at line 747, "No fde or cie at
this entry, should not be possible."

`EhFrameHdr_proofs` also has the proofs about the index (as `Ix`), for sections of
any size: `IndexCorrect` (`ReturnedFdeCovers`, `ListsAll`) for entries in any order,
and `FirstFdeFound` (`FindsFirst`, `IndexComplete`) with the premise `Ascending`,
the order of first pcs. `FdeIndexAssumption` gives types. For the first, the
invariant is that each entry of the index is a part of an FDE before the cursor
(`Sound`). For the second it says which part: an entry at a pc belongs to the first
FDE with that pc (`FirstAt`), no pc of an FDE read is missing (`Complete`), and the
entries do not overlap and have no gap from the pc on at which later FDEs can start
(`Tight`, `Extends`). The last is what makes the walk of InsertFde right: the FDE it
inserts is covered by entries up to some pc and gets one entry from there on, and
the case in which a part is lost cannot occur. The walk of InsertFde and the loops
that read the section are unfolded like those of LocalMaps.

## DwarfEntries

The section is a sequence of fields (length, id, version, letters, numbers), each
one position long; how many bytes a field has is left to DwarfMemory. It is read by
offset, through the pointers of FDEs, or one entry after another, in 32 and 64 bit
form, as .debug_frame or .eh_frame, versions 1 to 4, with augmentations, cut off
after any of a range of fields. Each cached entry is what a fresh reading of its
offset gives (`EntriesAsWritten`), the CIE of an FDE is not erased under it
(`NoDanglingCie`), failures are not cached (`FailureNotCached`). An FDE comes after
its CIE. `AdjustPcFromFde` of .eh_frame assumes pcs of one field.

## DwarfEval

Rules are taken from the row in any order, as from an unordered_map. Registers are
those of a machine with `Total` registers of `Size` values, memory may be unreadable
at an address, and an expression is one of a few outcomes. Each rule reads the
registers before the row, never one already written (`AssignedAtOnce`); whether a
row fails does not depend on the order (`FailsInAnyOrder`); the dex pc is that of
this frame (`DexPcOfThisFrame`); an unwind is finished exactly when the pc is zero
or undefined (`FinishedAtZero`). Two frames follow each other, and a row that failed
may be followed by another: the registers it had overwritten stay, as
ElfInterface::Step finds them for the next section.

`DwarfEval_proofs` proves all four for any number of registers, width, rows and
expressions (`EvalCorrect`; `OutcomeInAnyOrder` for `EvalOutcomeInAnyOrder`, the
last three). The inductive invariant has, while rules are being taken (`LoopInv`):
each register is what its rule makes of the old registers if it was taken, its old
value if not; the saved copies are the old values; and a rule that was taken did not
fail. `DexInv` adds when the dex pc has been set in this frame.

## DwarfCfa

`Exec` is one instruction on a record of the interpreter's state; `StepMiss` runs
the CIE's and the FDE's instructions up to the pc and caches the row, `StepHit` uses
a cached row. `Table` is the reference: all instructions up to the first location
beyond the pc. All programs of up to two instructions of the whole alphabet, and of
up to four of those that move and restore, for one function, with a second function
that shares the CIE; all pcs in any order. Step uses the rules of the table
(`StepFollowsTable`), and a cached row is right for the whole range it says
(`RowsValidInRange`).

Left out of the instance: programs whose last instruction is restore_state
(DwarfCfa.cpp:400 restores the remembered range of pcs with the rules, so the row
says a range it is not valid for, against DwarfLocation.h:45 "The range of PCs where
the locations are valid (end is exclusive)."), set_loc backwards, and advances past
the end of the function.

## DwarfOp

Each step decodes an arbitrary op with arbitrary operands, which covers all
expressions. Words have three bits. A read outside of the stack or the registers
gives `Garbage`, which no state may hold (`NothingFromOutside`); a division ends the
process only in the one case below (`TrapsOnlyOnOverflow`); failures have a code
(`FailureHasCode`); the marker of a dex pc leaves nothing behind
(`MarkerLeavesNothing`). Expressions of up to four ops, then, in `unwind_tables`,
expressions with branches, which end because iterations are bounded (`EvalEnds`,
weak fairness of the loop).

Two outcomes are undefined in the code and any outcome in the model. op_pick
compares its index with the size by `>` (DwarfOp.cpp:1674): an index equal to the
size is not refused (the test, DwarfOpTest.cpp:608, "Choose an invalid index.", uses
one far above it) and gives any value, or the process ends by SIGSEGV. op_div (line
1725) divides the least number by -1 without a test: the quotient wraps around or
the process ends by SIGFPE. The properties except exactly these.

## DwarfMemory

A byte has two bits, of which a LEB128 number uses one; sizes in bytes are the real
ones. Every encoding, at the first two positions of memories of 8 bytes and of
memories cut off after 1 or 3. The size that tables are computed with is what a read
consumes (`SizeIsConsumed`), signed numbers are extended from their last byte to 64
bits (`SignExtended`), a relative value without a base is refused
(`RelativeNeedsBase`). TLC's integers have 32 bits: eight bytes of two bits fit.

## ArmExidx

`m` holds three decoders that run in step: executing without a log, with a log by
register, and logging only. Programs of up to three instructions in each of the four
formats of an entry, and malformed entries. The bytes extracted are the program
(`DataFollowsProgram`), it runs to its finish (`FinishFound`), a log changes nothing
(`LoggingIsPassive`), a step moves to the caller (`StepMovesToCaller`), decoding
ends (`EvalEnds`, weak fairness of the loop), and the log by register is what was
executed (`LogIsExecution`; programs with one pop).

With two pops the log gives the first pop's registers offsets that the second makes
stale (ArmExidx.cpp:221). An entry whose last operand is 0xb0 is taken to end with a
finish op (ArmExidx.cpp:89; "If this didn't end with a finish op, add one.") and
runs out of bytes. The address arithmetic of prel31 offsets, ULEB128 operands of
more than two bytes and the wording of the full log are left out.

## What else the code does otherwise

Met while modelling, outside of the instances above:

* MapInfo.cpp:299 loads build_id twice in one test; with another thread saving it in
  between, the null of the first load is used, although the comment at line 303 says
  that threads that do this at the same time are provided for.
* MapInfo.cpp:284: GetLoadBias calls CreateMemory without the mutex, which sets
  elf_offset to 0 and then to its value, under threads that use it; the lock of the
  comment at line 268 ("Make sure no other thread is trying to add the elf to this
  map.") has been given back by then. GetLoadBias is therefore not among the calls
  of the `split` instance.
* MapInfo.cpp:37 takes the previous read-only map without comparing names, although
  the comment at line 35 says "same name and stretches across this map".
* Elf.cpp:370: with the cache on, the elf of one library of an archive can be given
  to a map of another; the `archive` instance has the cache off.
* The static ElfInterface::GetLoadBias takes the first PT_LOAD with offset 0,
  ReadProgramHeaders the last executable one: what GetLoadBias of a map answers can
  depend on whether its elf object has been made before.
* MapInfo.cpp:172-186 does not ensure that the second range of a MemoryRanges ends
  behind the first; where it does not, bytes of the first cannot be read.

## What is proved and what is only checked

Proved, for all values of the constants that meet the named assumptions:

| module | theorems | properties of the runs |
| --- | --- | --- |
| `UnwindThread_proofs` | TypeCorrect, PointersValid, UnwindsExclusive, HandlerRemoved | those of `unwind_slow` |
| | SignalReceived, PausedForUnwind, NeverKilled | the safety properties of `unwind_timely` |
| `LocalMaps_proofs` | InUseSafe, ReparseCorrect, FindCorrect, ObjectsStay | those of `reparse` |
| `MapElf_proofs` | ReturnsElfAlways, Refinement | ReturnsElf, SetOnce |
| | RelPcAlways, BuildIdStays | RelPcRight, BuildIdSavedOnce |
| | RightElfAlways, RelPcAlways | MapsHaveRightElf, but MarkedInMemory |
| `Elf_proofs` | StepsCorrect | StepRight |
| | HeadersCorrect, SonameCorrect | HeadersRight, the first half of AnswersStay |
| `Unwinder_proofs` | FramesCorrect, RemovesGuesses | FramesRight, the second half of AnswersStay |
| | ListsCorrect | ListsFirstEntryFound |
| `Memory_proofs` | ReadsCorrect, CacheCorrect, ViewsCorrect | MemReads, MemCacheTransparent, ViewsShow |
| `EhFrameHdr_proofs` | SearchCorrect, SearchShrinksAlways | SearchFindsGreatest, SearchShrinks |
| | SearchCorrect, IndexCorrect, FirstFdeFound | FdeLookups |
| `DwarfEval_proofs` | EvalCorrect, OutcomeInAnyOrder | AssignedAtOnce, EvalOutcomeInAnyOrder |

Where a property of a run puts several components together, the theorems state the
properties of the components.

The assumptions are evaluated by TLC for the instances of the runs, as ASSUMEs of
the modules or of `MCElf`, `MCDwarf` and `MCTables`. Premises that the code does not
guarantee are not assumptions of a module but part of the theorems: `HasTop`
(`reparse`), `Slow = FALSE` (`unwind_timely`), `OneBatch` (`dwarf_evaluation`),
`FilesThere`, `CachedFilesAreElfs` and the absence of GetLoadBias
(`elf_and_memory`), `Ascending` (`unwind_tables`). The instances that check the same
properties meet them.

Everything else is checked by TLC on the instances described:

* Liveness (`EveryoneReturns`, `AllReturn`, `CallsEnd`, `DecodingEnds`): its
  fairness is beyond the proof system.
* The decoders (`ArmExidx`, `DwarfCfa`, `DwarfOp`, `DwarfMemory`, `DwarfEntries`)
  are written with folds and bitwise operators, and `Symbols` sorts by an operator
  argument; the provers cannot unfold these. `OpSound`, `EncodedReads`,
  `CfaStepFollowsTable`, `EntriesAsWritten`, `ArmExecutesProgram`, `ArmLogRight` and
  `NamesFound` stay with TLC for this reason.
* `MarkedInMemory`, and the other properties of MapElf for maps whose file is gone:
  what such a map shows depends on the maps around it and on which call came first.

## Not modelled

* Backtrace, BacktracePtrace, UnwindStack, BacktraceMap and its variants: creation
  of objects and conversions of lists between the libraries.
* Regs and the assembly: tables of registers, patterns of signal trampolines,
  straight-line code. What others use of them is a choice in their models.
* DexFile: calls of the external dex library.
* Log, the Log functions of DwarfCfa and ArmExidx's wording, formatting of frames.
* LocalUnwinder::Unwind, a reduced copy of Unwinder::Unwind; Maps::Sort and the
  parser of map files; BuildFrameFromPcOnly.
* Notes and build ids in ELF files, GetMaxSize, how the static GetLoadBias reads
  (its result is in MapElf); the bisection of the exidx index
  (ElfInterfaceArm::FindEntry); Symbols::GetGlobal.
* Switching the cache of elfs on or off while it is used; files that change while
  they are mapped; MemoryBuffer and MemoryOfflineBuffer, which are copies with a
  bound check.
