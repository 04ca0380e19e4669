--------------------------- MODULE ProcessMemory ---------------------------
(***************************************************************************)
(* Reading the memory of a process (libunwindstack/Memory.cpp): with        *)
(* process_vm_readv in batches of pages, with ptrace word by word, by the   *)
(* one of the two that worked first (MemoryRemote), and through a cache of  *)
(* pages (MemoryCache).                                                     *)
(*                                                                         *)
(* A byte is the pair of its address and of the generation of its page; a   *)
(* read returns a sequence of bytes.  pages[n] is 0 for a page that is not  *)
(* mapped, negative for one that only ptrace can read.                      *)
(***************************************************************************)
EXTENDS Integers, Sequences

CONSTANTS PageSize, Word,    \* bytes of a page and of a long
          NumPages,          \* the address space
          MaxIovecs,         \* kMaxIovecs
          Small,             \* the largest read that is cached (64)
          Sizes,             \* the sizes that are read
          MaxGeneration      \* bound: changes of a page

ProcessMemoryAssumption ==
  /\ PageSize \in Nat \ {0} /\ Word \in Nat \ {0} /\ PageSize % Word = 0
  /\ NumPages \in Nat \ {0} /\ MaxIovecs \in Nat \ {0}
  /\ Small \in 1..PageSize /\ Sizes \subseteq Nat /\ MaxGeneration \in Nat
\* The reads take one call of process_vm_readv, wherever in a page they begin.
OneBatch == \A size \in Sizes : PageSize - 1 + size <= MaxIovecs * PageSize

VARIABLES pages,      \* the process
          redirect,   \* read_redirect_func_ of a MemoryRemote
          cache,      \* cache_ of a MemoryCache: generation by page, or 0
          fresh,      \* history: nothing has changed since the cache was empty
          last        \* history: the last read and what it returned

vars == <<pages, redirect, cache, fresh, last>>

Limit == PageSize * NumPages      \* 2^64
PageOf(a) == a \div PageSize
Byte(a) == <<a, pages[PageOf(a)]>>
Bytes(a, n) == [i \in 1..n |-> Byte(a + i - 1)]
Min2(a, b) == IF a < b THEN a ELSE b
-----------------------------------------------------------------------------
(* process_vm_readv stops at the first iovec it cannot read. *)
Readv(iovs) ==
  LET ok == {n \in 0..Len(iovs) : \A i \in 1..n : pages[PageOf(iovs[i].base)] > 0}
      n == CHOOSE n \in ok : \A m \in ok : m <= n
  IN  IF n = 0 THEN <<>>
      ELSE Bytes(iovs[1].base, iovs[n].base + iovs[n].len - iovs[1].base)

(* ProcessVmRead: the remote iovecs of one call, one per page. *)
AddIovec(s) ==
  LET n == Min2(PageSize - (s.cur % PageSize), s.len)
  IN  IF s.fault \/ s.len = 0 THEN s
      ELSE IF s.cur >= Limit - 1 \/ s.cur + n >= Limit THEN [s EXCEPT !.fault = TRUE]
      ELSE [cur |-> s.cur + n, len |-> s.len - n, fault |-> FALSE,
            iovs |-> Append(s.iovs, [base |-> s.cur, len |-> n])]
BatchOf(max, cur, len) ==
  LET iov[k \in 0..max] ==
        IF k = 0 THEN [cur |-> cur, len |-> len, iovs |-> <<>>, fault |-> FALSE]
        ELSE AddIovec(iov[k - 1])
  IN  iov[max]
BatchTooSmall(cur, len) == BatchOf(MaxIovecs - 1, cur, len)
Batch(cur, len) == BatchOf(MaxIovecs, cur, len)

\* A call that returns less than was asked for does not end the loop.
ReadBatch(s) ==
  LET b == Batch(s.cur, s.len)
  IN  IF s.end \/ s.len = 0 THEN s
      ELSE IF b.fault \/ Readv(b.iovs) = <<>> THEN [s EXCEPT !.end = TRUE]
      ELSE [cur |-> b.cur, len |-> b.len, got |-> s.got \o Readv(b.iovs), end |-> FALSE]
ProcessVmRead(addr, size) ==
  LET loop[k \in 0..NumPages] ==
        IF k = 0 THEN [cur |-> addr, len |-> size, got |-> <<>>, end |-> FALSE]
        ELSE ReadBatch(loop[k - 1])
  IN  loop[NumPages].got

(* PtraceRead: the words the bytes are in, up to one that cannot be read.    *)
PtraceReadLong(a) == a < Limit /\ pages[PageOf(a)] # 0
PtraceWords(addr, size, end) ==
  LET first == addr - (addr % Word)
      bad == {w \in first..(end - 1) : w % Word = 0 /\ ~PtraceReadLong(w)}
      stop == IF bad = {} THEN end ELSE CHOOSE w \in bad : \A v \in bad : w <= v
  IN  IF addr + size >= Limit \/ size = 0 \/ stop <= addr THEN 0 ELSE stop - addr
PtraceReadUnaligned(addr, size) ==
  Bytes(addr - (addr % Word), PtraceWords(addr, size, addr + size))
PtraceReadNoLeftOver(addr, size) ==
  Bytes(addr, PtraceWords(addr, size, addr + size - ((addr + size) % Word)))
PtraceRead(addr, size) == Bytes(addr, PtraceWords(addr, size, addr + size))

\* MemoryRemote::Read and the function it settles on
Remote(addr, size) ==
  CASE redirect = "vm" -> ProcessVmRead(addr, size)
    [] redirect = "ptrace" -> PtraceRead(addr, size)
    [] OTHER -> IF ProcessVmRead(addr, size) # <<>> THEN ProcessVmRead(addr, size)
                ELSE PtraceRead(addr, size)
Settled(addr, size) ==
  IF redirect # "none" THEN redirect
  ELSE IF ProcessVmRead(addr, size) # <<>> THEN "vm"
  ELSE IF PtraceRead(addr, size) # <<>> THEN "ptrace" ELSE "none"

(* MemoryCache::Read over a MemoryLocal: the page of the first byte and,     *)
(* if the read crosses into it, the next.                                    *)
FillNotErased(c, page) ==
  IF c[page] # 0 THEN c ELSE [c EXCEPT ![page] = IF pages[page] > 0 THEN pages[page] ELSE -2]
Fill(c, page) ==
  IF c[page] # 0 \/ Len(ProcessVmRead(page * PageSize, PageSize)) < PageSize THEN c
  ELSE [c EXCEPT ![page] = pages[page]]
CachedBytes(c, a, n) == [i \in 1..n |-> <<a + i - 1, c[PageOf(a)]>>]

Cached(addr, size) ==
  LET page == PageOf(addr)
      one == Fill(cache, page)
      max_read == (page + 1) * PageSize - addr
      two == Fill(one, (page + 1) % NumPages)
      rest == ((page + 1) * PageSize) % Limit
  IN  IF size > Small \/ one[page] = 0
      THEN [cache |-> one, got |-> ProcessVmRead(addr, size)]
      ELSE IF size <= max_read
      THEN [cache |-> one, got |-> CachedBytes(one, addr, size)]
      ELSE [cache |-> two,
            got |-> CachedBytes(one, addr, max_read)
                      \o IF two[PageOf(rest)] # 0 THEN CachedBytes(two, rest, size - max_read)
                         ELSE ProcessVmRead(rest, size - max_read)]
-----------------------------------------------------------------------------
NoRead == [via |-> "none", addr |-> 0, size |-> 0, got |-> <<>>]
Record(via, addr, size, got) ==
  last' = [via |-> via, addr |-> addr, size |-> size, got |-> got]

ReadLocal(addr, size) ==
  /\ Record("local", addr, size, ProcessVmRead(addr, size))
  /\ UNCHANGED <<pages, redirect, cache, fresh>>

ReadRemote(addr, size) ==
  /\ Record("remote", addr, size, Remote(addr, size))
  /\ redirect' = Settled(addr, size)
  /\ UNCHANGED <<pages, cache, fresh>>

ReadCached(addr, size) ==
  LET read == Cached(addr, size)
  IN  /\ Record("cache", addr, size, read.got)
      /\ cache' = IF size > Small THEN cache ELSE read.cache
      /\ UNCHANGED <<pages, redirect, fresh>>

Clear ==
  /\ cache' = [p \in DOMAIN pages |-> 0]
  /\ fresh' = TRUE /\ last' = NoRead
  /\ UNCHANGED <<pages, redirect>>

\* The process writes to a page, unmaps it or protects it.
Change(p) ==
  /\ \E g \in {0, -1, pages[p] + 1} : g <= MaxGeneration /\ pages' = [pages EXCEPT ![p] = g]
  /\ fresh' = FALSE /\ last' = NoRead
  /\ UNCHANGED <<redirect, cache>>

\* Nothing is mapped in the last page of the address space.
Init ==
  /\ pages \in {f \in [0..(NumPages - 1) -> -1..1] : f[NumPages - 1] = 0}
  /\ redirect = "none" /\ cache = [p \in DOMAIN pages |-> 0] /\ fresh = TRUE
  /\ last = NoRead

Next ==
  \/ \E addr \in 0..(Limit - 1), size \in Sizes :
       ReadLocal(addr, size) \/ ReadRemote(addr, size) \/ ReadCached(addr, size)
  \/ Clear
  \/ \E p \in 0..(NumPages - 2) : Change(p)

Spec == Init /\ [][Next]_vars
-----------------------------------------------------------------------------
\* Whatever a read returns is what is at that address, byte by byte and
\* without a gap, at most as much as was asked for.  (The cache may be older.)
ReadsPrefix ==
  /\ Len(last.got) <= last.size
  /\ \A i \in 1..Len(last.got) :
       /\ last.got[i][1] = last.addr + i - 1
       /\ last.via # "cache" => last.got[i][2] = pages[PageOf(last.got[i][1])]

\* Reading stops at the end of a map: no byte after an unmapped one.
StopsAtHole ==
  last.via = "local" =>
    \A i \in 1..Len(last.got) : \A a \in last.addr..(last.addr + i - 1) :
      a < Limit => pages[PageOf(a)] # 0

\* A read that is possible is not cut short: whichever function MemoryRemote
\* has settled on, it returns every byte up to the first page that cannot be
\* read, as long as the read does not reach the end of the address space.
ReadsAllThereIs ==
  (last.via \in {"local", "remote"} /\ last.addr + last.size < Limit) =>
    \A n \in 1..last.size :
      (\A a \in last.addr..(last.addr + n - 1) : pages[PageOf(a)] > 0) => Len(last.got) >= n

\* The cache cannot be told from the memory it caches as long as the process
\* does not change: also for pages that can be read only in part, and for
\* reads across two pages.
CacheTransparent ==
  (fresh /\ last.via = "cache") => last.got = ProcessVmRead(last.addr, last.size)
=============================================================================
