---------------------------- MODULE Memory_proofs ----------------------------
(***************************************************************************)
(* The memories an unwinder reads through, for any size of a page, any     *)
(* process and any file.  ProcessMemory: the memory of a process, read     *)
(* with process_vm_readv or ptrace and through a cache, by induction over  *)
(* the pages of a read.  MemoryViews: a file from an offset, ranges of a   *)
(* memory, saved memory and strings.                                       *)
(***************************************************************************)
EXTENDS ProcessMemory, SequenceTheorems, WellFoundedInduction, TLAPS

\* The constants and variables of MemoryViews, that ProcessMemory does not have
CONSTANTS ViewLimit, FileSizes, Header, Nuls, MaxParts
VARIABLES file, view, asked, ranges, kind, parts
Views == INSTANCE MemoryViews WITH Limit <- ViewLimit

(***************************************************************************)
(* Induction over the natural numbers, and division                        *)
(***************************************************************************)
Less == {ss \in Nat \X Nat : ss[1] < ss[2]}

\* < is well founded on the naturals.
LEMMA LessWellFounded == IsWellFoundedOn(Less, Nat)
  BY NatLessThanWellFounded, Zenon DEF OpToRel, Less

\* A set of natural numbers that is not empty has a least element.
LEMMA NatMin ==
  ASSUME NEW T \in SUBSET Nat, T # {}
  PROVE  \E x \in T : \A y \in T : x <= y
<1>1. PICK x \in T : \A y \in T : ~(<<y, x>> \in Less)
  BY LessWellFounded, WFMin, Zenon
<1>2. ASSUME NEW y \in T PROVE x <= y
  <2>1. <<y, x>> \in Nat \X Nat
    OBVIOUS
  <2> QED
    BY <1>1, <2>1 DEF Less
<1> QED
  BY <1>2

\* A bounded one has a greatest element.
LEMMA NatMax ==
  ASSUME NEW b \in Nat, NEW T \in SUBSET (0 .. b), T # {}
  PROVE  \E x \in T : \A y \in T : y <= x
<1> DEFINE U == {b - x : x \in T}
<1>1. U \in SUBSET Nat /\ U # {}
  <2>1. ASSUME NEW x \in T PROVE b - x \in Nat
    BY x \in 0 .. b
  <2> QED
    BY <2>1, Zenon
<1>2. PICK u \in U : \A v \in U : u <= v
  BY <1>1, NatMin, Zenon
<1>3. PICK x \in T : u = b - x
  OBVIOUS
<1>4. ASSUME NEW y \in T PROVE y <= x
  <2>1. b - y \in U
    OBVIOUS
  <2>2. b - x <= b - y
    BY <1>2, <1>3, <2>1
  <2>3. x \in Int /\ y \in Int
    OBVIOUS
  <2> HIDE DEF U
  <2> QED
    BY <2>2, <2>3
<1> QED
  BY <1>4

\* A set that has 0 and with a number the next one has all of them.
LEMMA Induct ==
  ASSUME NEW S, 0 \in S, \A n \in Nat : n \in S => n + 1 \in S
  PROVE  \A n \in Nat : n \in S
<1>1. SUFFICES ASSUME NEW n \in Nat, n \notin S PROVE FALSE
  OBVIOUS
<1> DEFINE T == {m \in Nat : m \notin S}
<1>2. PICK x \in T : \A y \in T : x <= y
  BY <1>1, NatMin, Zenon
<1>3. x # 0 /\ x - 1 \in Nat
  OBVIOUS
<1> QED
  BY <1>2, <1>3

\* Multiplication is monotonic.
LEMMA Times ==
  ASSUME NEW m \in Nat, NEW n \in Nat, NEW p \in Nat, m <= n
  PROVE  m * p <= n * p /\ m * p \in Nat
  OBVIOUS

\* One more
LEMMA TimesNext ==
  ASSUME NEW m \in Nat, NEW p \in Nat
  PROVE  (m + 1) * p = m * p + p /\ m * p \in Nat
  OBVIOUS

\* The quotient is unique.
LEMMA Quotient ==
  ASSUME NEW p \in Nat \ {0}, NEW a \in Nat, NEW q \in Nat, NEW r \in 0 .. p - 1, a = q * p + r
  PROVE  a \div p = q /\ a % p = r
  OBVIOUS

\* Division with remainder
LEMMA Division ==
  ASSUME NEW p \in Nat \ {0}, NEW a \in Nat
  PROVE  /\ a \div p \in Nat /\ a % p \in 0 .. p - 1
         /\ a = (a \div p) * p + (a % p)
<1> DEFINE q == a \div p
<1>1. q \in Nat
  OBVIOUS
<1>2. q * p <= a /\ a < q * p + p
  OBVIOUS
<1> HIDE DEF q
<1>3. q * p \in Nat
  BY <1>1, Times
<1> DEFINE r == a - q * p
<1>4. r \in 0 .. p - 1 /\ a = q * p + r
  BY <1>2, <1>3
<1> HIDE DEF r
<1>5. a % p = r
  BY <1>1, <1>4, Quotient
<1> QED
  BY <1>1, <1>4, <1>5 DEF q

(***************************************************************************)
(* Pages                                                                   *)
(***************************************************************************)

\* Where an address is in its page
LEMMA PageFacts ==
  ASSUME ProcessMemoryAssumption, NEW a \in Nat
  PROVE  /\ PageOf(a) \in Nat /\ a % PageSize \in 0 .. PageSize - 1
         /\ PageOf(a) * PageSize \in Nat
         /\ a = PageOf(a) * PageSize + (a % PageSize)
<1>1. PageSize \in Nat \ {0}
  BY DEF ProcessMemoryAssumption
<1>2. a \div PageSize \in Nat /\ a % PageSize \in 0 .. PageSize - 1
      /\ a = (a \div PageSize) * PageSize + (a % PageSize)
  BY <1>1, Division, Zenon
<1>3. (a \div PageSize) * PageSize \in Nat
  BY <1>1, <1>2, Times
<1> QED
  BY <1>2, <1>3, Zenon DEF PageOf

\* The page of an address, from where the page begins
LEMMA PageIs ==
  ASSUME ProcessMemoryAssumption, NEW a \in Nat, NEW q \in Nat, q * PageSize <= a, a < q * PageSize + PageSize
  PROVE  PageOf(a) = q
<1>1. PageSize \in Nat \ {0}
  BY DEF ProcessMemoryAssumption
<1>2. q * PageSize \in Nat
  BY <1>1, Times
<1> DEFINE r == a - q * PageSize
<1>3. r \in 0 .. PageSize - 1 /\ a = q * PageSize + r
  BY <1>1, <1>2
<1> HIDE DEF r
<1> QED
  BY <1>1, <1>3, Quotient, Zenon DEF PageOf

\* Addresses up to the end of the page are in the page.
LEMMA SamePage ==
  ASSUME ProcessMemoryAssumption, NEW a \in Nat, NEW b \in Nat, a <= b, b < a + (PageSize - (a % PageSize))
  PROVE  PageOf(b) = PageOf(a)
<1>1. PageSize \in Nat \ {0}
  BY DEF ProcessMemoryAssumption
<1> DEFINE q == PageOf(a)
           s == q * PageSize
           r == a % PageSize
<1>2. q \in Nat /\ r \in 0 .. PageSize - 1 /\ s \in Nat /\ a = s + r
  BY PageFacts, Zenon
<1> HIDE DEF s, r
<1>3. s <= b /\ b < s + PageSize
  BY <1>1, <1>2 DEF r
<1> QED
  BY <1>2, <1>3, PageIs, Zenon DEF s

\* The address behind a page is in the next one.
LEMMA NextPage ==
  ASSUME ProcessMemoryAssumption, NEW a \in Nat
  PROVE  /\ PageOf(a + (PageSize - (a % PageSize))) = PageOf(a) + 1
         /\ a + (PageSize - (a % PageSize)) = (PageOf(a) + 1) * PageSize
<1>1. PageSize \in Nat \ {0}
  BY DEF ProcessMemoryAssumption
<1> DEFINE q == PageOf(a)
           r == a % PageSize
           b == a + (PageSize - r)
<1>2. q \in Nat /\ r \in 0 .. PageSize - 1 /\ q * PageSize \in Nat /\ a = q * PageSize + r
  BY PageFacts, Zenon
<1>3. (q + 1) * PageSize = q * PageSize + PageSize
  BY <1>1, <1>2, TimesNext
<1> DEFINE s == q * PageSize
<1>4. s \in Nat /\ a = s + r /\ (q + 1) * PageSize = s + PageSize
  BY <1>2, <1>3
<1> HIDE DEF s, q, r
<1>5. b = s + PageSize /\ b \in Nat /\ b < (s + PageSize) + PageSize
  BY <1>1, <1>2, <1>4
<1> HIDE DEF b
<1>6. b = (q + 1) * PageSize /\ (q + 1) * PageSize <= b /\ b < (q + 1) * PageSize + PageSize /\ q + 1 \in Nat
  BY <1>2, <1>4, <1>5
<1>7. PageOf(b) = q + 1
  BY <1>5, <1>6, PageIs, Zenon
<1> QED
  BY <1>6, <1>7 DEF b, q, r

\* A later address is not in an earlier page.
LEMMA PageMonotonic ==
  ASSUME ProcessMemoryAssumption, NEW a \in Nat, NEW n \in Nat, a < n * PageSize
  PROVE  PageOf(a) < n
<1>1. PageSize \in Nat
  BY DEF ProcessMemoryAssumption
<1> DEFINE q == PageOf(a)
<1>2. q \in Nat /\ q * PageSize \in Nat /\ a % PageSize \in Nat /\ a = q * PageSize + (a % PageSize)
  BY <1>1, PageFacts
<1> HIDE DEF q
<1>3. ASSUME n <= q PROVE FALSE
  <2>1. n * PageSize <= q * PageSize /\ n * PageSize \in Nat
    BY <1>1, <1>2, <1>3, Times
  <2> QED
    BY <1>2, <2>1
<1> QED
  BY <1>2, <1>3 DEF q

\* An address below Limit is in one of the pages.
LEMMA InSpace ==
  ASSUME ProcessMemoryAssumption, NEW a \in Nat, a < Limit
  PROVE  PageOf(a) \in 0 .. NumPages - 1
<1>1. PageSize \in Nat /\ NumPages \in Nat /\ Limit = NumPages * PageSize
  BY DEF ProcessMemoryAssumption, Limit
<1>2. PageOf(a) < NumPages /\ PageOf(a) \in Nat
  BY <1>1, PageMonotonic, PageFacts
<1> QED
  BY <1>1, <1>2

(***************************************************************************)
(* One batch of iovecs: pieces of pages, one behind the other              *)
(***************************************************************************)
Iovecs == [base : Nat, len : Nat]
End(v) == v.base + v.len

\* The iovecs cover from c to e without a gap.
Chain(iovs, c, e) ==
  /\ \A j \in 1 .. Len(iovs) : c <= iovs[j].base /\ iovs[j].len >= 1 /\ End(iovs[j]) <= e
  /\ iovs # <<>> => iovs[1].base = c /\ End(iovs[Len(iovs)]) = e
  /\ \A j \in 1 .. Len(iovs) - 1 : iovs[j + 1].base = End(iovs[j])
  /\ \A j \in 1 .. Len(iovs) : \A a \in c .. End(iovs[j]) - 1 :
       \E k \in 1 .. j : PageOf(a) = PageOf(iovs[k].base)

BatchInv(c, len, k, s) ==
  /\ s \in [cur : Nat, len : Nat, iovs : Seq(Iovecs), fault : BOOLEAN]
  /\ c <= s.cur /\ s.cur + s.len = c + len
  /\ s.iovs = <<>> => s.cur = c
  /\ s.iovs # <<>> => s.cur < Limit
  /\ Chain(s.iovs, c, s.cur)
  /\ s.fault => c + len >= Limit
  /\ s.fault \/ s.len = 0 \/ PageOf(s.cur) >= PageOf(c) + k

\* One iovec more
LEMMA ChainGrows ==
  ASSUME ProcessMemoryAssumption, NEW iovs \in Seq(Iovecs), NEW c \in Nat, NEW e \in Nat, NEW n \in Nat \ {0},
         Chain(iovs, c, e), c <= e, iovs = <<>> => e = c, n <= PageSize - (e % PageSize)
  PROVE  /\ Chain(Append(iovs, [base |-> e, len |-> n]), c, e + n)
         /\ Append(iovs, [base |-> e, len |-> n]) \in Seq(Iovecs)
         /\ Append(iovs, [base |-> e, len |-> n]) # <<>>
<1> DEFINE v == [base |-> e, len |-> n]
           new == Append(iovs, v)
           m == Len(iovs)
<1>0. PageSize \in Nat /\ e % PageSize \in 0 .. PageSize - 1
  BY PageFacts DEF ProcessMemoryAssumption
<1>1. v \in Iovecs /\ v.base = e /\ v.len = n /\ End(v) = e + n
  BY DEF Iovecs, End
<1> HIDE DEF v
<1>2. /\ m \in Nat /\ new \in Seq(Iovecs) /\ Len(new) = m + 1 /\ new # <<>>
      /\ \A j \in 1 .. m : new[j] = iovs[j]
      /\ new[m + 1] = v
  BY <1>1, LenProperties, AppendProperties
<1>3. iovs = <<>> <=> m = 0
  BY EmptySeq
<1>4. \A j \in 1 .. m : iovs[j].base \in Nat /\ iovs[j].len \in Nat
  <2>1. \A j \in 1 .. m : iovs[j] \in Iovecs
    BY ElementOfSeq
  <2> QED
    BY <2>1 DEF Iovecs
<1> HIDE DEF new, m
<1>5. /\ \A j \in 1 .. m : c <= iovs[j].base /\ iovs[j].len >= 1 /\ End(iovs[j]) <= e
      /\ m # 0 => iovs[1].base = c /\ End(iovs[m]) = e
      /\ \A j \in 1 .. m - 1 : iovs[j + 1].base = End(iovs[j])
      /\ \A j \in 1 .. m : \A a \in c .. End(iovs[j]) - 1 : \E k \in 1 .. j : PageOf(a) = PageOf(iovs[k].base)
  BY <1>3 DEF Chain, m
<1>6. \A j \in 1 .. m + 1 : c <= new[j].base /\ new[j].len >= 1 /\ End(new[j]) <= e + n
  <2>1. ASSUME NEW j \in 1 .. m + 1 PROVE c <= new[j].base /\ new[j].len >= 1 /\ End(new[j]) <= e + n
    <3>1. CASE j = m + 1
      BY <1>1, <1>2, <3>1
    <3>2. CASE j # m + 1
      <4>1. j \in 1 .. m
        BY <1>2, <3>2
      <4>2. End(iovs[j]) \in Nat /\ End(iovs[j]) <= e
        BY <1>4, <1>5, <4>1 DEF End
      <4> QED
        BY <1>2, <1>5, <4>1, <4>2
    <3> QED
      BY <3>1, <3>2
  <2> QED
    BY <2>1
<1>7. new[1].base = c /\ End(new[m + 1]) = e + n
  <2>1. CASE m = 0
    BY <1>1, <1>2, <1>3, <2>1
  <2>2. CASE m # 0
    BY <1>1, <1>2, <1>5, <2>2
  <2> QED
    BY <2>1, <2>2
<1>8. \A j \in 1 .. m : new[j + 1].base = End(new[j])
  <2>1. ASSUME NEW j \in 1 .. m PROVE new[j + 1].base = End(new[j])
    <3>1. CASE j = m
      BY <1>1, <1>2, <1>5, <3>1
    <3>2. CASE j # m
      <4>1. j \in 1 .. m - 1 /\ j + 1 \in 1 .. m
        BY <1>2, <3>2
      <4> QED
        BY <1>2, <1>5, <4>1
    <3> QED
      BY <3>1, <3>2
  <2> QED
    BY <2>1
<1>9. ASSUME NEW j \in 1 .. m + 1, NEW a \in c .. End(new[j]) - 1
      PROVE  \E k \in 1 .. j : PageOf(a) = PageOf(new[k].base)
  <2>1. CASE j # m + 1
    <3>1. j \in 1 .. m /\ new[j] = iovs[j]
      BY <1>2, <2>1
    <3>2. PICK k \in 1 .. j : PageOf(a) = PageOf(iovs[k].base)
      BY <1>5, <3>1
    <3>3. k \in 1 .. m
      BY <1>2, <3>1
    <3> QED
      BY <1>2, <3>2, <3>3
  <2>2. CASE j = m + 1
    <3>1. a \in c .. (e + n) - 1 /\ new[m + 1].base = e /\ a \in Nat
      BY <1>1, <1>2, <2>2
    <3>2. CASE a >= e
      <4>1. PageOf(a) = PageOf(e)
        BY <1>0, <3>1, <3>2, SamePage
      <4> QED
        BY <1>2, <2>2, <3>1, <4>1
    <3>3. CASE a < e
      <4>1. m \in 1 .. m /\ a \in c .. End(iovs[m]) - 1
        BY <1>2, <1>3, <1>5, <3>1, <3>3
      <4>2. PICK k \in 1 .. m : PageOf(a) = PageOf(iovs[k].base)
        BY <1>5, <4>1
      <4>3. k \in 1 .. j /\ new[k] = iovs[k]
        BY <1>2, <2>2
      <4> QED
        BY <4>2, <4>3
    <3> QED
      BY <3>1, <3>2, <3>3
  <2> QED
    BY <2>1, <2>2
<1>10. (m + 1) - 1 = m
  BY <1>2
<1>11. Chain(new, c, e + n)
  BY <1>2, <1>6, <1>7, <1>8, <1>9, <1>10 DEF Chain
<1> QED
  BY <1>2, <1>11 DEF new, v

\* The loop of ProcessVmRead that fills the iovecs: they cover from the
\* address on, each is in one page, and every turn is a page further.
LEMMA AddIovecKeeps ==
  ASSUME ProcessMemoryAssumption, NEW c \in Nat, NEW L \in Nat, NEW k \in Nat, NEW s, BatchInv(c, L, k, s)
  PROVE  BatchInv(c, L, k + 1, AddIovec(s))
<1> DEFINE r == s.cur % PageSize
           n == Min2(PageSize - r, s.len)
<1>0. PageSize \in Nat \ {0} /\ NumPages \in Nat
  BY DEF ProcessMemoryAssumption
<1>1. /\ s \in [cur : Nat, len : Nat, iovs : Seq(Iovecs), fault : BOOLEAN]
      /\ s.cur \in Nat /\ s.len \in Nat /\ s.iovs \in Seq(Iovecs) /\ s.fault \in BOOLEAN
      /\ c <= s.cur /\ s.cur + s.len = c + L
      /\ s.iovs = <<>> => s.cur = c
      /\ s.iovs # <<>> => s.cur < Limit
      /\ Chain(s.iovs, c, s.cur)
      /\ s.fault => c + L >= Limit
      /\ s.fault \/ s.len = 0 \/ PageOf(s.cur) >= PageOf(c) + k
  BY DEF BatchInv
<1>2. r \in 0 .. PageSize - 1 /\ PageOf(s.cur) \in Nat /\ PageOf(c) \in Nat
  BY <1>1, PageFacts, Zenon
<1>3. Limit \in Nat
  BY <1>0, Times DEF Limit
<1>4. CASE s.fault \/ s.len = 0
  <2>1. AddIovec(s) = s
    BY <1>4 DEF AddIovec
  <2> QED
    BY <1>1, <1>4, <2>1 DEF BatchInv
<1>5. CASE ~s.fault /\ s.len # 0
  <2>1. n \in Nat \ {0} /\ n <= PageSize - r /\ n <= s.len /\ (n = s.len \/ n = PageSize - r)
    BY <1>0, <1>1, <1>2, <1>5 DEF Min2
  <2> HIDE DEF n
  <2>2. CASE s.cur >= Limit - 1 \/ s.cur + n >= Limit
    <3>1. AddIovec(s) = [s EXCEPT !.fault = TRUE]
      BY <1>5, <2>2 DEF AddIovec, n, r
    <3> DEFINE t == [s EXCEPT !.fault = TRUE]
    <3>2. /\ t \in [cur : Nat, len : Nat, iovs : Seq(Iovecs), fault : BOOLEAN]
          /\ t.cur = s.cur /\ t.len = s.len /\ t.iovs = s.iovs /\ t.fault = TRUE
      BY <1>1, Zenon
    <3>3. c + L >= Limit
      <4>1. s.cur + n <= s.cur + s.len /\ s.cur + 1 <= s.cur + s.len
        BY <1>1, <2>1
      <4> QED
        BY <1>1, <1>3, <2>1, <2>2, <4>1
    <3> HIDE DEF t
    <3> QED
      BY <1>1, <3>1, <3>2, <3>3 DEF BatchInv, t
  <2>3. CASE ~(s.cur >= Limit - 1 \/ s.cur + n >= Limit)
    <3> DEFINE iovs == Append(s.iovs, [base |-> s.cur, len |-> n])
               t == [cur |-> s.cur + n, len |-> s.len - n, fault |-> FALSE, iovs |-> iovs]
    <3>1. AddIovec(s) = t
      BY <1>5, <2>3 DEF AddIovec, n, r
    <3>2. Chain(iovs, c, s.cur + n) /\ iovs \in Seq(Iovecs) /\ iovs # <<>>
      BY <1>1, <2>1, ChainGrows, Zenon
    <3> HIDE DEF iovs
    <3>3. /\ t \in [cur : Nat, len : Nat, iovs : Seq(Iovecs), fault : BOOLEAN]
          /\ t.cur = s.cur + n /\ t.len = s.len - n /\ t.iovs = iovs /\ t.fault = FALSE
      BY <1>1, <2>1, <3>2
    <3> HIDE DEF t
    <3>4. c <= s.cur + n /\ (s.cur + n) + (s.len - n) = c + L /\ s.cur + n < Limit
      BY <1>1, <1>3, <2>1, <2>3
    <3>5. s.len - n = 0 \/ PageOf(s.cur + n) >= PageOf(c) + (k + 1)
      <4>1. CASE n = s.len
        BY <1>1, <4>1
      <4>2. CASE n = PageSize - r
        <5>1. PageOf(s.cur + n) = PageOf(s.cur) + 1
          BY <1>1, <4>2, NextPage, Zenon DEF r
        <5> QED
          BY <1>1, <1>2, <1>5, <5>1
      <4> QED
        BY <2>1, <4>1, <4>2
    <3> QED
      BY <3>1, <3>2, <3>3, <3>4, <3>5 DEF BatchInv
  <2> QED
    BY <2>2, <2>3
<1> QED
  BY <1>4, <1>5

\* The turns of the loop of BatchOf, as a function of the turn
BatchStart(c, len) == [cur |-> c, len |-> len, iovs |-> <<>>, fault |-> FALSE]
Fills(h, c, len, n) == h = [k \in 0 .. n |-> IF k = 0 THEN BatchStart(c, len) ELSE AddIovec(h[k - 1])]

\* One turn more
LEMMA FillsNext ==
  ASSUME NEW c, NEW L, NEW n \in Nat, NEW h, Fills(h, c, L, n)
  PROVE  \E g : Fills(g, c, L, n + 1)
<1> DEFINE g == [k \in 0 .. n + 1 |-> IF k = n + 1 THEN AddIovec(h[n]) ELSE h[k]]
<1>1. ASSUME NEW k \in 0 .. n + 1
      PROVE  g[k] = IF k = 0 THEN BatchStart(c, L) ELSE AddIovec(g[k - 1])
  <2>1. CASE k = n + 1
    BY <2>1
  <2>2. CASE k # n + 1
    <3>1. k \in 0 .. n /\ g[k] = h[k]
      BY <2>2
    <3>2. h[k] = IF k = 0 THEN BatchStart(c, L) ELSE AddIovec(h[k - 1])
      BY <3>1 DEF Fills
    <3>3. k # 0 => g[k - 1] = h[k - 1]
      BY <3>1
    <3> QED
      BY <3>1, <3>2, <3>3
  <2> QED
    BY <2>1, <2>2
<1>2. g = [k \in 0 .. n + 1 |-> g[k]]
  OBVIOUS
<1> HIDE DEF g
<1>3. g = [k \in 0 .. n + 1 |-> IF k = 0 THEN BatchStart(c, L) ELSE AddIovec(g[k - 1])]
  BY <1>1, <1>2, Zenon
<1> QED
  BY <1>3, Zenon DEF Fills

\* The function exists, for any number of turns.
LEMMA FillsExist ==
  ASSUME NEW c, NEW L
  PROVE  \A n \in Nat : \E h : Fills(h, c, L, n)
<1> DEFINE S == {n \in Nat : \E h : Fills(h, c, L, n)}
<1>1. 0 \in S
  <2> DEFINE g == [k \in 0 .. 0 |-> BatchStart(c, L)]
  <2>1. g = [k \in 0 .. 0 |-> IF k = 0 THEN BatchStart(c, L) ELSE AddIovec(g[k - 1])]
    OBVIOUS
  <2> HIDE DEF g
  <2>2. Fills(g, c, L, 0)
    BY <2>1, Zenon DEF Fills
  <2> QED
    BY <2>2
<1>2. \A n \in Nat : n \in S => n + 1 \in S
  BY FillsNext
<1> HIDE DEF S
<1>3. \A n \in Nat : n \in S
  BY <1>1, <1>2, Induct, Zenon
<1> QED
  BY <1>3 DEF S

\* BatchOf is the last turn of the loop.
LEMMA BatchUnfolds ==
  ASSUME NEW n \in Nat, NEW c, NEW L
  PROVE  \E h : Fills(h, c, L, n) /\ BatchOf(n, c, L) = h[n]
<1> DEFINE iov == CHOOSE h : h = [k \in 0 .. n |-> IF k = 0 THEN BatchStart(c, L) ELSE AddIovec(h[k - 1])]
<1>1. \E h : h = [k \in 0 .. n |-> IF k = 0 THEN BatchStart(c, L) ELSE AddIovec(h[k - 1])]
  <2>1. PICK h : Fills(h, c, L, n)
    BY FillsExist, Zenon
  <2> QED
    BY <2>1, Zenon DEF Fills
<1>2. iov = [k \in 0 .. n |-> IF k = 0 THEN BatchStart(c, L) ELSE AddIovec(iov[k - 1])]
  BY <1>1, Zenon
<1>3. Fills(iov, c, L, n)
  BY <1>2, Zenon DEF Fills
<1>4. BatchOf(n, c, L) = iov[n]
  BY Zenon DEF BatchOf, BatchStart
<1> QED
  BY <1>3, <1>4, Zenon

\* A batch of n iovecs
LEMMA BatchKeeps ==
  ASSUME ProcessMemoryAssumption, NEW c \in Nat, NEW L \in Nat, NEW n \in Nat
  PROVE  BatchInv(c, L, n, BatchOf(n, c, L))
<1>1. PICK h : Fills(h, c, L, n) /\ BatchOf(n, c, L) = h[n]
  BY BatchUnfolds, Zenon
<1>2. \A k \in 0 .. n : h[k] = IF k = 0 THEN BatchStart(c, L) ELSE AddIovec(h[k - 1])
  BY <1>1 DEF Fills
<1> DEFINE S == {k \in Nat : k <= n => BatchInv(c, L, k, h[k])}
<1>3. 0 \in S
  <2> DEFINE s == BatchStart(c, L)
  <2>1. /\ s \in [cur : Nat, len : Nat, iovs : Seq(Iovecs), fault : BOOLEAN]
        /\ s.cur = c /\ s.len = L /\ s.iovs = <<>> /\ s.fault = FALSE
    <3>1. <<>> \in Seq(Iovecs)
      OBVIOUS
    <3> QED
      BY <3>1 DEF BatchStart
  <2>2. Chain(<<>>, c, c)
    BY DEF Chain
  <2>3. PageOf(c) \in Nat
    BY PageFacts
  <2> HIDE DEF s
  <2>4. BatchInv(c, L, 0, s)
    BY <2>1, <2>2, <2>3 DEF BatchInv
  <2> QED
    BY <1>2, <2>4 DEF s
<1>4. ASSUME NEW k \in Nat, k \in S PROVE k + 1 \in S
  <2>1. CASE k + 1 <= n
    <3>1. h[k + 1] = AddIovec(h[k]) /\ BatchInv(c, L, k, h[k])
      BY <1>2, <1>4, <2>1
    <3>2. BatchInv(c, L, k + 1, h[k + 1])
      BY <3>1, AddIovecKeeps, Zenon
    <3> QED
      BY <3>2
  <2>2. CASE ~(k + 1 <= n)
    BY <2>2
  <2> QED
    BY <2>1, <2>2
<1> HIDE DEF S
<1>5. \A k \in Nat : k \in S
  BY <1>3, <1>4, Induct, Zenon
<1> QED
  BY <1>1, <1>5 DEF S

\* A read that takes one call: its iovecs cover all of it, or it reaches the
\* end of the address space.
LEMMA BatchCovers ==
  ASSUME ProcessMemoryAssumption, NEW c \in Nat, NEW L \in Nat \ {0},
         (c % PageSize) + L <= MaxIovecs * PageSize
  PROVE  /\ Batch(c, L).fault <=> c + L >= Limit
         /\ c + L < Limit => /\ Batch(c, L).len = 0 /\ Batch(c, L).cur = c + L
                             /\ Batch(c, L).iovs \in Seq(Iovecs) /\ Batch(c, L).iovs # <<>>
                             /\ Chain(Batch(c, L).iovs, c, c + L)
<1> DEFINE b == Batch(c, L)
<1>0. PageSize \in Nat \ {0} /\ NumPages \in Nat /\ MaxIovecs \in Nat
  BY DEF ProcessMemoryAssumption
<1>1. BatchInv(c, L, MaxIovecs, b)
  BY <1>0, BatchKeeps DEF Batch
<1> HIDE DEF b
<1>2. /\ b.cur \in Nat /\ b.len \in Nat /\ b.iovs \in Seq(Iovecs) /\ b.fault \in BOOLEAN
      /\ c <= b.cur /\ b.cur + b.len = c + L
      /\ b.iovs = <<>> => b.cur = c
      /\ b.iovs # <<>> => b.cur < Limit
      /\ Chain(b.iovs, c, b.cur)
      /\ b.fault => c + L >= Limit
      /\ b.fault \/ b.len = 0 \/ PageOf(b.cur) >= PageOf(c) + MaxIovecs
  BY <1>1 DEF BatchInv
<1>3. Limit \in Nat
  BY <1>0, Times DEF Limit
<1>4. b.fault \/ b.len = 0
  <2>1. SUFFICES ASSUME PageOf(b.cur) >= PageOf(c) + MaxIovecs PROVE b.len = 0
    BY <1>2
  <2> DEFINE q == PageOf(c)
             p == PageOf(b.cur)
             r == c % PageSize
  <2>2. /\ q \in Nat /\ r \in Nat /\ q * PageSize \in Nat /\ c = q * PageSize + r
        /\ p \in Nat /\ p * PageSize \in Nat /\ p * PageSize <= b.cur
    <3>1. /\ p \in Nat /\ p * PageSize \in Nat /\ b.cur % PageSize \in Nat
          /\ b.cur = p * PageSize + (b.cur % PageSize)
      <4>1. b.cur % PageSize \in 0 .. PageSize - 1
        BY <1>2, PageFacts, Zenon
      <4>2. p \in Nat /\ p * PageSize \in Nat /\ b.cur = p * PageSize + (b.cur % PageSize)
        BY <1>2, PageFacts, Zenon
      <4> QED
        BY <1>0, <4>1, <4>2
    <3>2. q \in Nat /\ r \in 0 .. PageSize - 1 /\ q * PageSize \in Nat /\ c = q * PageSize + r
      BY PageFacts, Zenon
    <3> DEFINE m == b.cur % PageSize
               z == p * PageSize
    <3>3. z \in Nat /\ m \in Nat /\ b.cur = z + m
      BY <3>1
    <3> HIDE DEF m, z
    <3>4. z <= b.cur
      BY <3>3
    <3>5. r \in Nat
      BY <1>0, <3>2
    <3> QED
      BY <3>1, <3>2, <3>4, <3>5, Zenon DEF z
  <2> HIDE DEF q, p
  <2>3. (q + MaxIovecs) * PageSize <= p * PageSize
    <3>1. q + MaxIovecs <= p /\ q + MaxIovecs \in Nat
      BY <1>0, <2>1, <2>2 DEF p, q
    <3> QED
      BY <1>0, <2>2, <3>1, Times
  <2>4. (q + MaxIovecs) * PageSize = q * PageSize + MaxIovecs * PageSize /\ MaxIovecs * PageSize \in Nat
    BY <1>0, <2>2
  <2>5. c + L <= b.cur
    <3> DEFINE x == q * PageSize
               y == MaxIovecs * PageSize
               z == p * PageSize
    <3>1. x \in Nat /\ y \in Nat /\ z \in Nat /\ c = x + r /\ r + L <= y /\ x + y <= z /\ z <= b.cur
      BY <2>2, <2>3, <2>4
    <3> HIDE DEF x, y, z, r
    <3> QED
      BY <1>2, <2>2, <3>1
  <2> QED
    BY <1>2, <2>5
<1>5. c + L >= Limit => b.fault
  <2>1. SUFFICES ASSUME c + L >= Limit, ~b.fault PROVE FALSE
    OBVIOUS
  <2>2. b.len = 0 /\ b.cur = c + L /\ b.cur # c
    BY <1>2, <1>4, <2>1
  <2> QED
    BY <1>2, <1>3, <2>1, <2>2
<1>6. ASSUME c + L < Limit
      PROVE  b.len = 0 /\ b.cur = c + L /\ b.iovs # <<>>
  <2>1. ~b.fault
    BY <1>2, <1>3, <1>6
  <2>2. b.len = 0 /\ b.cur = c + L /\ b.cur # c
    BY <1>2, <1>4, <2>1
  <2> QED
    BY <1>2, <2>2
<1> QED
  BY <1>2, <1>5, <1>6 DEF b

(***************************************************************************)
(* A call of process_vm_readv, and the loop around it                      *)
(***************************************************************************)
Readable(a) == pages[PageOf(a)] > 0
Stops(a, size, n) ==
  /\ n \in 0 .. size
  /\ \A b \in a .. (a + n) - 1 : Readable(b)
  /\ n < size => ~Readable(a + n)
\* What ProcessVmRead returns, as a number of bytes
VmSpec(a, size, n) == IF a + size >= Limit THEN n = 0 ELSE Stops(a, size, n)

\* Bytes is a sequence of so many bytes.
LEMMA BytesLen ==
  ASSUME NEW a, NEW n \in Nat
  PROVE  /\ Len(Bytes(a, n)) = n
         /\ Bytes(a, n) = <<>> <=> n = 0
         /\ \A i \in 1 .. n : Bytes(a, n)[i] = Byte(a + i - 1)
<1> DEFINE f(i) == Byte(a + i - 1)
           t == [i \in 1 .. n |-> f(i)]
<1>1. Bytes(a, n) = t
  BY DEF Bytes
<1> HIDE DEF f
<1>2. DOMAIN t = 1 .. n /\ \A i \in 1 .. n : t[i] = f(i)
  OBVIOUS
<1>3. t \in Seq(Range(t)) /\ Len(t) = n
  <2>1. t \in [1 .. n -> Range(t)]
    BY DEF Range
  <2> QED
    BY <2>1
<1>4. t = <<>> <=> n = 0
  BY <1>3, EmptySeq
<1> QED
  BY <1>1, <1>2, <1>3, <1>4 DEF f

\* process_vm_readv returns the bytes up to the first one that cannot be read.
LEMMA ReadvStops ==
  ASSUME ProcessMemoryAssumption, NEW iovs \in Seq(Iovecs), iovs # <<>>, NEW c \in Nat, NEW L \in Nat,
         Chain(iovs, c, c + L)
  PROVE  \E m \in 0 .. L : Readv(iovs) = Bytes(c, m) /\ Stops(c, L, m)
<1> DEFINE len == Len(iovs)
           ok == {n \in 0 .. len : \A i \in 1 .. n : pages[PageOf(iovs[i].base)] > 0}
           n == CHOOSE n \in ok : \A m \in ok : m <= n
           bytes == iovs[n].base + iovs[n].len - iovs[1].base
<1>1. len \in Nat /\ len # 0 /\ 1 \in 1 .. len /\ len \in 1 .. len
  <2>1. len \in Nat /\ len # 0
    BY LenProperties, EmptySeq
  <2> HIDE DEF len
  <2> QED
    BY <2>1
<1>2. \A j \in 1 .. len : iovs[j].base \in Nat /\ iovs[j].len \in Nat /\ End(iovs[j]) \in Nat
  <2>1. \A j \in 1 .. Len(iovs) : iovs[j] \in Iovecs
    BY ElementOfSeq
  <2> QED
    BY <2>1 DEF Iovecs, End
<1>3. /\ \A j \in 1 .. len : c <= iovs[j].base /\ iovs[j].len >= 1 /\ End(iovs[j]) <= c + L
      /\ iovs[1].base = c /\ End(iovs[len]) = c + L
      /\ \A j \in 1 .. len - 1 : iovs[j + 1].base = End(iovs[j])
      /\ \A j \in 1 .. len : \A a \in c .. End(iovs[j]) - 1 : \E k \in 1 .. j : PageOf(a) = PageOf(iovs[k].base)
  BY DEF Chain
<1> HIDE DEF len
<1>4. n \in ok /\ \A m \in ok : m <= n
  <2>1. 0 \in ok /\ ok \in SUBSET (0 .. len)
    BY <1>1
  <2> HIDE DEF ok
  <2>2. \E x \in ok : \A y \in ok : y <= x
    BY <1>1, <2>1, NatMax, Zenon
  <2> QED
    BY <2>2, Zenon
<1>5. Readv(iovs) = IF n = 0 THEN <<>> ELSE Bytes(iovs[1].base, bytes)
  BY Zenon DEF Readv, len
<1> HIDE DEF n
<1>6. n \in 0 .. len /\ \A i \in 1 .. n : Readable(iovs[i].base)
  BY <1>4 DEF Readable
<1>7. n < len => ~Readable(iovs[n + 1].base)
  <2>0. n + 1 \notin ok
    <3> HIDE DEF ok
    <3> QED
      BY <1>1, <1>4, <1>6
  <2>1. SUFFICES ASSUME n < len, Readable(iovs[n + 1].base) PROVE n + 1 \in ok
    <3> HIDE DEF ok
    <3> QED
      BY <2>0
  <2>2. ASSUME NEW i \in 1 .. n + 1 PROVE Readable(iovs[i].base)
    <3>1. i \in 1 .. n \/ i = n + 1
      BY <1>1, <1>6
    <3> QED
      BY <1>6, <2>1, <3>1
  <2> QED
    BY <1>1, <1>6, <2>1, <2>2 DEF Readable
<1> HIDE DEF ok
<1>8. CASE n = 0
  <2>1. Readv(iovs) = Bytes(c, 0)
    BY <1>5, <1>8, BytesLen
  <2>2. ~Readable(c)
    BY <1>1, <1>3, <1>7, <1>8
  <2>3. Stops(c, L, 0)
    BY <2>2 DEF Stops
  <2> QED
    BY <2>1, <2>3
<1>9. CASE n # 0
  <2> DEFINE m == End(iovs[n]) - c
  <2>1. n \in 1 .. len
    BY <1>1, <1>6, <1>9
  <2>2. End(iovs[n]) \in Nat /\ c <= End(iovs[n]) /\ End(iovs[n]) <= c + L
    BY <1>2, <1>3, <2>1 DEF End
  <2>3. m \in 0 .. L /\ c + m = End(iovs[n])
    BY <2>2
  <2>4. Readv(iovs) = Bytes(c, m)
    <3>1. bytes = m
      BY <1>2, <1>3, <2>1 DEF End
    <3> QED
      BY <1>3, <1>5, <1>9, <3>1
  <2>5. ASSUME NEW b \in c .. End(iovs[n]) - 1 PROVE Readable(b)
    <3>1. PICK k \in 1 .. n : PageOf(b) = PageOf(iovs[k].base)
      BY <1>3, <2>1
    <3>2. Readable(iovs[k].base)
      BY <1>6
    <3> QED
      BY <3>1, <3>2 DEF Readable
  <2>6. m < L => ~Readable(c + m)
    <3>1. SUFFICES ASSUME m < L PROVE ~Readable(End(iovs[n]))
      BY <2>3
    <3>2. n # len
      BY <1>3, <2>2, <3>1
    <3>3. n \in 1 .. len - 1
      BY <1>1, <2>1, <3>2
    <3> QED
      BY <1>1, <1>3, <1>7, <3>3
  <2>7. Stops(c, L, m)
    BY <2>3, <2>5, <2>6 DEF Stops
  <2> QED
    BY <2>3, <2>4, <2>7
<1> QED
  BY <1>8, <1>9

\* The turns of the loop of ProcessVmRead
LoopStart(a, size) == [cur |-> a, len |-> size, got |-> <<>>, end |-> FALSE]
Loops(h, a, size, n) == h = [k \in 0 .. n |-> IF k = 0 THEN LoopStart(a, size) ELSE ReadBatch(h[k - 1])]

\* One turn more
LEMMA LoopsNext ==
  ASSUME NEW a, NEW size, NEW n \in Nat, NEW h, Loops(h, a, size, n)
  PROVE  \E g : Loops(g, a, size, n + 1)
<1> DEFINE g == [k \in 0 .. n + 1 |-> IF k = n + 1 THEN ReadBatch(h[n]) ELSE h[k]]
<1>1. ASSUME NEW k \in 0 .. n + 1
      PROVE  g[k] = IF k = 0 THEN LoopStart(a, size) ELSE ReadBatch(g[k - 1])
  <2>1. CASE k = n + 1
    BY <2>1
  <2>2. CASE k # n + 1
    <3>1. k \in 0 .. n /\ g[k] = h[k]
      BY <2>2
    <3>2. h[k] = IF k = 0 THEN LoopStart(a, size) ELSE ReadBatch(h[k - 1])
      BY <3>1 DEF Loops
    <3>3. k # 0 => g[k - 1] = h[k - 1]
      BY <3>1
    <3> QED
      BY <3>1, <3>2, <3>3
  <2> QED
    BY <2>1, <2>2
<1>2. g = [k \in 0 .. n + 1 |-> g[k]]
  OBVIOUS
<1> HIDE DEF g
<1>3. g = [k \in 0 .. n + 1 |-> IF k = 0 THEN LoopStart(a, size) ELSE ReadBatch(g[k - 1])]
  BY <1>1, <1>2, Zenon
<1> QED
  BY <1>3, Zenon DEF Loops

\* The function exists, for any number of turns.
LEMMA LoopsExist ==
  ASSUME NEW a, NEW size
  PROVE  \A n \in Nat : \E h : Loops(h, a, size, n)
<1> DEFINE S == {n \in Nat : \E h : Loops(h, a, size, n)}
<1>1. 0 \in S
  <2> DEFINE g == [k \in 0 .. 0 |-> LoopStart(a, size)]
  <2>1. g = [k \in 0 .. 0 |-> IF k = 0 THEN LoopStart(a, size) ELSE ReadBatch(g[k - 1])]
    OBVIOUS
  <2> HIDE DEF g
  <2>2. Loops(g, a, size, 0)
    BY <2>1, Zenon DEF Loops
  <2> QED
    BY <2>2
<1>2. \A n \in Nat : n \in S => n + 1 \in S
  BY LoopsNext
<1> HIDE DEF S
<1>3. \A n \in Nat : n \in S
  BY <1>1, <1>2, Induct, Zenon
<1> QED
  BY <1>3 DEF S

\* The loop ends with its first turn when that turn reads everything or fails.
LEMMA OneTurn ==
  ASSUME ProcessMemoryAssumption, NEW a, NEW size, NEW t, t = ReadBatch(LoopStart(a, size)), t.end \/ t.len = 0
  PROVE  ProcessVmRead(a, size) = t.got
<1> DEFINE loop == CHOOSE h : h = [k \in 0 .. NumPages |->
                                     IF k = 0 THEN LoopStart(a, size) ELSE ReadBatch(h[k - 1])]
<1>0. NumPages \in Nat \ {0}
  BY DEF ProcessMemoryAssumption
<1>1. \E h : h = [k \in 0 .. NumPages |-> IF k = 0 THEN LoopStart(a, size) ELSE ReadBatch(h[k - 1])]
  <2>1. PICK h : Loops(h, a, size, NumPages)
    BY <1>0, LoopsExist
  <2> QED
    BY <2>1, Zenon DEF Loops
<1>2. loop = [k \in 0 .. NumPages |-> IF k = 0 THEN LoopStart(a, size) ELSE ReadBatch(loop[k - 1])]
  BY <1>1, Zenon
<1>3. ProcessVmRead(a, size) = loop[NumPages].got
  BY Zenon DEF ProcessVmRead, LoopStart
<1> HIDE DEF loop
<1>4. \A k \in 0 .. NumPages : loop[k] = IF k = 0 THEN LoopStart(a, size) ELSE ReadBatch(loop[k - 1])
  BY <1>2, Zenon
<1>5. ReadBatch(t) = t
  BY Zenon DEF ReadBatch
<1> DEFINE S == {k \in Nat : k + 1 <= NumPages => loop[k + 1] = t}
<1>6. 0 \in S
  BY <1>0, <1>4
<1>7. ASSUME NEW k \in Nat, k \in S PROVE k + 1 \in S
  <2>1. CASE (k + 1) + 1 <= NumPages
    <3>1. loop[(k + 1) + 1] = ReadBatch(loop[k + 1]) /\ loop[k + 1] = t
      BY <1>0, <1>4, <1>7, <2>1
    <3> QED
      BY <1>5, <3>1
  <2>2. CASE ~((k + 1) + 1 <= NumPages)
    BY <2>2
  <2> QED
    BY <2>1, <2>2
<1> HIDE DEF S
<1>8. \A k \in Nat : k \in S
  BY <1>6, <1>7, Induct, Zenon
<1>9. NumPages - 1 \in Nat /\ (NumPages - 1) + 1 = NumPages
  BY <1>0
<1>10. NumPages - 1 \in S
  BY <1>8, <1>9
<1>11. loop[NumPages] = t
  BY <1>0, <1>9, <1>10 DEF S
<1> QED
  BY <1>3, <1>11, Zenon

\* ProcessVmRead returns the bytes up to the first one that cannot be read,
\* or none at all when the read reaches the end of the address space.
LEMMA VmReads ==
  ASSUME ProcessMemoryAssumption, NEW a \in Nat, NEW size \in Nat, (a % PageSize) + size <= MaxIovecs * PageSize
  PROVE  \E n \in 0 .. size : ProcessVmRead(a, size) = Bytes(a, n) /\ VmSpec(a, size, n)
<1> DEFINE s == LoopStart(a, size)
           b == Batch(a, size)
<1>1. s.cur = a /\ s.len = size /\ s.got = <<>> /\ s.end = FALSE
  BY DEF LoopStart
<1>2. Limit \in Nat
  BY Times DEF Limit, ProcessMemoryAssumption
<1>3. Bytes(a, 0) = <<>>
  BY BytesLen
<1>4. CASE size = 0
  <2>1. ReadBatch(s) = s
    BY <1>1, <1>4, Zenon DEF ReadBatch
  <2>2. ProcessVmRead(a, size) = <<>>
    BY <1>1, <1>4, <2>1, OneTurn, Zenon
  <2>3. VmSpec(a, size, 0)
    BY <1>4 DEF VmSpec, Stops
  <2> QED
    BY <1>3, <1>4, <2>2, <2>3
<1>5. CASE size # 0 /\ (b.fault \/ Readv(b.iovs) = <<>>)
  <2> DEFINE t == [s EXCEPT !.end = TRUE]
  <2>1. ReadBatch(s) = t
    BY <1>1, <1>5, Zenon DEF ReadBatch
  <2>2. t.end = TRUE /\ t.got = <<>>
    BY DEF LoopStart
  <2>3. ProcessVmRead(a, size) = <<>>
    BY <2>1, <2>2, OneTurn, Zenon
  <2>4. VmSpec(a, size, 0)
    <3>1. CASE a + size >= Limit
      BY <3>1 DEF VmSpec
    <3>2. CASE ~(a + size >= Limit)
      <4>1. a + size < Limit
        BY <1>2, <3>2
      <4>2. ~b.fault /\ b.iovs \in Seq(Iovecs) /\ b.iovs # <<>> /\ Chain(b.iovs, a, a + size)
        BY <1>5, <3>2, <4>1, BatchCovers
      <4>3. PICK m \in 0 .. size : Readv(b.iovs) = Bytes(a, m) /\ Stops(a, size, m)
        BY <4>2, ReadvStops
      <4>4. m = 0
        BY <1>5, <4>2, <4>3, BytesLen
      <4> QED
        BY <3>2, <4>3, <4>4 DEF VmSpec
    <3> QED
      BY <3>1, <3>2
  <2> QED
    BY <1>3, <2>3, <2>4
<1>6. CASE size # 0 /\ ~b.fault /\ Readv(b.iovs) # <<>>
  <2> DEFINE t == [cur |-> b.cur, len |-> b.len, got |-> s.got \o Readv(b.iovs), end |-> FALSE]
  <2>1. ReadBatch(s) = t
    BY <1>1, <1>6, Zenon DEF ReadBatch
  <2>2. ~(a + size >= Limit)
    BY <1>6, BatchCovers
  <2>3. a + size < Limit
    BY <1>2, <2>2
  <2>4. b.len = 0 /\ b.iovs \in Seq(Iovecs) /\ b.iovs # <<>> /\ Chain(b.iovs, a, a + size)
    BY <1>6, <2>3, BatchCovers
  <2>5. PICK m \in 0 .. size : Readv(b.iovs) = Bytes(a, m) /\ Stops(a, size, m)
    BY <2>4, ReadvStops
  <2>6. t.len = 0 /\ t.got = s.got \o Readv(b.iovs)
    BY <2>4, Zenon
  <2> HIDE DEF t
  <2>7. ProcessVmRead(a, size) = t.got
    BY <2>1, <2>6, OneTurn, Zenon
  <2>8. <<>> \o Bytes(a, m) = Bytes(a, m)
    <3> DEFINE f(i) == Byte(a + i - 1)
               u == [i \in 1 .. m |-> f(i)]
    <3>1. Bytes(a, m) = u
      BY DEF Bytes
    <3> HIDE DEF f
    <3> DEFINE R == {f(i) : i \in 1 .. m}
    <3>2. u \in [1 .. m -> R] /\ m \in Nat
      OBVIOUS
    <3> HIDE DEF R, u
    <3>3. u \in Seq(R)
      BY <3>2
    <3> QED
      BY <3>1, <3>3, ConcatEmptySeq
  <2>9. ProcessVmRead(a, size) = Bytes(a, m)
    BY <1>1, <2>5, <2>6, <2>7, <2>8, Zenon
  <2> QED
    BY <2>2, <2>5, <2>9 DEF VmSpec
<1> QED
  BY <1>4, <1>5, <1>6

(***************************************************************************)
(* ptrace, and MemoryRemote                                                *)
(***************************************************************************)
\* n bytes are all that a read can be expected to return.
Complete(a, size, n) ==
  a + size < Limit => \A m \in 1 .. size : (\A b \in a .. (a + m) - 1 : Readable(b)) => n >= m

\* What is returned by ProcessVmRead is all there is.
LEMMA VmComplete ==
  ASSUME ProcessMemoryAssumption, NEW a \in Nat, NEW size \in Nat, NEW n \in 0 .. size, VmSpec(a, size, n)
  PROVE  Complete(a, size, n)
<1>1. Limit \in Nat
  BY Times DEF Limit, ProcessMemoryAssumption
<1>2. SUFFICES ASSUME a + size < Limit, NEW m \in 1 .. size, \A b \in a .. (a + m) - 1 : Readable(b), ~(n >= m)
               PROVE  FALSE
  BY DEF Complete
<1>3. Stops(a, size, n)
  BY <1>1, <1>2 DEF VmSpec
<1>4. a + n \in a .. (a + m) - 1 /\ n < size
  BY <1>2
<1> QED
  BY <1>2, <1>3, <1>4 DEF Stops

\* The word that an address is in begins in the page of the address.
LEMMA WordInPage ==
  ASSUME ProcessMemoryAssumption, NEW a \in Nat, NEW w \in (a - (a % Word)) .. a
  PROVE  PageOf(w) = PageOf(a) /\ w \in Nat
<1>1. PageSize \in Nat \ {0} /\ Word \in Nat \ {0} /\ PageSize % Word = 0
  BY DEF ProcessMemoryAssumption
<1> DEFINE d == a \div Word
           r == a % Word
           q == PageOf(a)
           k == PageSize \div Word
<1>2. d \in Nat /\ r \in 0 .. Word - 1 /\ a = d * Word + r
  BY <1>1, Division, Zenon
<1>3. k \in Nat /\ PageSize = k * Word
  <2>1. k \in Nat /\ PageSize % Word \in 0 .. Word - 1 /\ PageSize = k * Word + (PageSize % Word)
    BY <1>1, Division, Zenon
  <2>2. k * Word \in Nat
    BY <1>1, <2>1, Times
  <2> HIDE DEF k
  <2> QED
    BY <1>1, <2>1, <2>2
<1>4. q \in Nat /\ a % PageSize \in 0 .. PageSize - 1 /\ q * PageSize \in Nat
      /\ a = q * PageSize + (a % PageSize)
  BY PageFacts, Zenon
<1> HIDE DEF d, k, q
<1> DEFINE e == q * k
           x == e * Word
           y == d * Word
           z == a % PageSize
<1>5. e \in Nat /\ q * PageSize = x /\ x \in Nat /\ y \in Nat
  BY <1>1, <1>2, <1>3, <1>4
<1>6. z \in 0 .. PageSize - 1 /\ a = x + z /\ a = y + r /\ r \in 0 .. Word - 1
  BY <1>2, <1>4, <1>5
<1>7. e <= d
  <2>1. SUFFICES ASSUME d + 1 <= e PROVE FALSE
    BY <1>2, <1>5
  <2>2. (d + 1) * Word <= e * Word
    BY <1>1, <1>2, <1>5, <2>1, Times
  <2>3. (d + 1) * Word = d * Word + Word
    BY <1>1, <1>2, TimesNext
  <2>4. y + Word <= x
    BY <2>2, <2>3
  <2> HIDE DEF x, y, z, r
  <2> QED
    BY <1>1, <1>5, <1>6, <2>4
<1>8. x <= y
  BY <1>1, <1>2, <1>5, <1>7, Times
<1>9. w \in (a - r) .. a
  OBVIOUS
<1> HIDE DEF x, y, z, r
<1>10. w \in Nat /\ x <= w /\ w < x + PageSize
  BY <1>1, <1>5, <1>6, <1>8, <1>9
<1> QED
  BY <1>4, <1>5, <1>10, PageIs, Zenon DEF q

\* PtraceRead returns a part of what was asked for, and all that
\* process_vm_readv could read.
LEMMA PtraceReads ==
  ASSUME ProcessMemoryAssumption, NEW a \in Nat, NEW size \in Nat
  PROVE  \E n \in 0 .. size : PtraceRead(a, size) = Bytes(a, n) /\ Complete(a, size, n)
<1> DEFINE n == PtraceWords(a, size, a + size)
           first == a - (a % Word)
           end == a + size
           bad == {w \in first .. (end - 1) : w % Word = 0 /\ ~PtraceReadLong(w)}
           low == CHOOSE w \in bad : \A v \in bad : w <= v
           stop == IF bad = {} THEN end ELSE low
<1>0. Word \in Nat \ {0} /\ Limit \in Nat
  BY Times DEF ProcessMemoryAssumption, Limit
<1>1. a % Word \in 0 .. Word - 1 /\ a % Word <= a /\ first \in Nat /\ first <= a
  <2>1. a % Word \in 0 .. Word - 1
    BY <1>0, Division, Zenon
  <2>2. a - (a % Word) \in Nat
    BY WordInPage, <1>0, <2>1
  <2> QED
    BY <1>0, <2>1, <2>2
<1>2. n = IF a + size >= Limit \/ size = 0 \/ stop <= a THEN 0 ELSE stop - a
  BY Zenon DEF PtraceWords
<1> HIDE DEF n, first
<1>3. end \in Nat /\ bad \in SUBSET Nat /\ \A w \in bad : w <= end - 1
  BY <1>1
<1>4. bad # {} => low \in bad /\ \A v \in bad : low <= v
  <2> HIDE DEF bad
  <2>1. bad # {} => \E w \in bad : \A v \in bad : w <= v
    BY <1>3, NatMin
  <2> QED
    BY <2>1, Zenon
<1>5. stop \in Nat /\ stop <= a + size
  <2> HIDE DEF bad, low
  <2>1. CASE bad = {}
    BY <1>3, <2>1
  <2>2. CASE bad # {}
    <3>1. low \in Nat /\ low <= end - 1
      BY <1>3, <1>4, <2>2, Zenon
    <3> QED
      BY <1>3, <2>2, <3>1
  <2> QED
    BY <2>1, <2>2, Zenon
<1>6. n \in 0 .. size
  <2> HIDE DEF bad, low, stop
  <2> QED
    BY <1>2, <1>5
<1>7. ASSUME a + size < Limit, NEW m \in 1 .. size, \A b \in a .. (a + m) - 1 : Readable(b)
      PROVE  n >= m
  <2>1. stop >= a + m
    <3>1. CASE bad = {}
      BY <3>1
    <3>2. CASE bad # {}
      <4>0. low \in bad /\ stop = low
        BY <1>4, <3>2
      <4> HIDE DEF low, stop
      <4>1. low \in first .. (end - 1) /\ ~PtraceReadLong(low) /\ low \in Nat
        BY <1>1, <4>0
      <4> HIDE DEF bad
      <4>2. low < Limit
        BY <1>0, <1>7, <4>1
      <4>3. pages[PageOf(low)] = 0
        BY <4>1, <4>2 DEF PtraceReadLong
      <4>4. ~Readable(low)
        BY <4>3 DEF Readable
      <4>5. CASE low < a
        <5>1. low \in (a - (a % Word)) .. a
          BY <1>1, <4>1, <4>5 DEF first
        <5>2. PageOf(low) = PageOf(a)
          BY <5>1, WordInPage
        <5>3. Readable(a)
          BY <1>7
        <5> QED
          BY <4>4, <5>2, <5>3 DEF Readable
      <4>6. CASE low >= a
        <5>1. low \notin a .. (a + m) - 1
          BY <1>7, <4>4
        <5> QED
          BY <4>0, <4>1, <4>6, <5>1
      <4> QED
        BY <4>1, <4>5, <4>6
    <3> QED
      BY <3>1, <3>2
  <2> HIDE DEF stop
  <2> QED
    BY <1>0, <1>2, <1>5, <1>7, <2>1
<1>8. Complete(a, size, n)
  BY <1>7 DEF Complete
<1>9. PtraceRead(a, size) = Bytes(a, n)
  BY DEF PtraceRead, n
<1> QED
  BY <1>6, <1>8, <1>9

\* A read of one of the Sizes takes one call, wherever it begins.
LEMMA FitsBatch ==
  ASSUME ProcessMemoryAssumption, OneBatch, NEW a \in Nat, NEW size \in Sizes
  PROVE  size \in Nat /\ (a % PageSize) + size <= MaxIovecs * PageSize
<1>1. PageSize \in Nat \ {0} /\ MaxIovecs \in Nat /\ size \in Nat
  BY DEF ProcessMemoryAssumption
<1>2. a % PageSize \in 0 .. PageSize - 1
  BY PageFacts, Zenon
<1>3. PageSize - 1 + size <= MaxIovecs * PageSize
  BY DEF OneBatch
<1>4. MaxIovecs * PageSize \in Nat
  BY <1>1, Times
<1> DEFINE x == a % PageSize
           y == MaxIovecs * PageSize
<1>5. x \in 0 .. PageSize - 1 /\ y \in Nat /\ PageSize - 1 + size <= y
  BY <1>2, <1>3, <1>4
<1> HIDE DEF x, y
<1>6. x + size <= y
  BY <1>1, <1>5
<1> QED
  BY <1>1, <1>6 DEF x, y

\* So does a read of at most a page that begins with a page.
LEMMA PageFits ==
  ASSUME ProcessMemoryAssumption, NEW p \in Nat, NEW size \in 0 .. PageSize
  PROVE  /\ p * PageSize \in Nat /\ PageOf(p * PageSize) = p /\ (p * PageSize) % PageSize = 0
         /\ ((p * PageSize) % PageSize) + size <= MaxIovecs * PageSize
<1>1. PageSize \in Nat \ {0} /\ MaxIovecs \in Nat \ {0}
  BY DEF ProcessMemoryAssumption
<1> DEFINE a == p * PageSize
<1>2. a \in Nat
  BY <1>1, Times
<1>3. a = p * PageSize + 0 /\ 0 \in 0 .. PageSize - 1
  BY <1>1, <1>2
<1>4. a \div PageSize = p /\ a % PageSize = 0
  BY <1>1, <1>2, <1>3, Quotient
<1>5. 1 * PageSize <= MaxIovecs * PageSize /\ 1 * PageSize = PageSize /\ MaxIovecs * PageSize \in Nat
  BY <1>1, Times
<1> HIDE DEF a
<1>6. (a % PageSize) + size <= MaxIovecs * PageSize
  BY <1>1, <1>4, <1>5
<1> QED
  BY <1>2, <1>4, <1>6 DEF a, PageOf

\* MemoryRemote::Read, whichever function it has settled on
LEMMA RemoteReads ==
  ASSUME ProcessMemoryAssumption, OneBatch, NEW a \in Nat, NEW size \in Sizes
  PROVE  \E n \in 0 .. size : Remote(a, size) = Bytes(a, n) /\ Complete(a, size, n)
<1>1. size \in Nat /\ (a % PageSize) + size <= MaxIovecs * PageSize
  BY FitsBatch, Zenon
<1>2. \E n \in 0 .. size : ProcessVmRead(a, size) = Bytes(a, n) /\ Complete(a, size, n)
  BY <1>1, VmReads, VmComplete, Zenon
<1>3. \E n \in 0 .. size : PtraceRead(a, size) = Bytes(a, n) /\ Complete(a, size, n)
  BY <1>1, PtraceReads, Zenon
<1>4. Remote(a, size) = ProcessVmRead(a, size) \/ Remote(a, size) = PtraceRead(a, size)
  BY DEF Remote
<1> QED
  BY <1>2, <1>3, <1>4, Zenon

(***************************************************************************)
(* MemoryCache                                                             *)
(***************************************************************************)
PageNumbers == 0 .. NumPages - 1
CacheType(c) == c \in [PageNumbers -> Int] /\ c[NumPages - 1] = 0
\* What is cached is what the process has.
CacheRight(c) == \A p \in PageNumbers : c[p] # 0 => c[p] = pages[p] /\ pages[p] > 0
\* n bytes from an address on, of the generations g
Pieces(a, n, g) == [i \in 1 .. n |-> <<a + i - 1, g[i]>>]

\* Pieces is a sequence.
LEMMA PiecesLen ==
  ASSUME NEW a \in Nat, NEW n \in Nat, NEW g
  PROVE  Len(Pieces(a, n, g)) = n /\ \E R : Pieces(a, n, g) \in Seq(R)
<1> DEFINE t == Pieces(a, n, g)
           R == {t[i] : i \in 1 .. n}
<1>1. t \in [1 .. n -> R]
  BY DEF Pieces
<1> HIDE DEF t, R
<1>2. t \in Seq(R) /\ Len(t) = n
  BY <1>1
<1> QED
  BY <1>2 DEF t

Joined(n, m, g, h) == [i \in 1 .. n + m |-> IF i <= n THEN g[i] ELSE h[i - n]]
\* Two runs of bytes, one behind the other
LEMMA PiecesConcat ==
  ASSUME NEW a \in Nat, NEW n \in Nat, NEW m \in Nat, NEW g, NEW h
  PROVE  Pieces(a, n, g) \o Pieces(a + n, m, h) = Pieces(a, n + m, Joined(n, m, g, h))
<1> DEFINE s == Pieces(a, n, g)
           t == Pieces(a + n, m, h)
           f == [i \in 1 .. n + m |-> IF i <= n THEN g[i] ELSE h[i - n]]
           u == Pieces(a, n + m, f)
<1>1. \A i \in 1 .. n : s[i] = <<a + i - 1, g[i]>>
  BY DEF Pieces
<1>2. \A i \in 1 .. m : t[i] = <<(a + n) + i - 1, h[i]>>
  BY DEF Pieces
<1>3. DOMAIN u = 1 .. n + m /\ u = [i \in 1 .. n + m |-> u[i]]
      /\ \A i \in 1 .. n + m : u[i] = <<a + i - 1, f[i]>>
  BY DEF Pieces
<1> DEFINE R == {s[i] : i \in 1 .. n} \cup {t[i] : i \in 1 .. m}
<1>4. s \in [1 .. n -> R] /\ t \in [1 .. m -> R]
  BY DEF Pieces
<1> HIDE DEF s, t, u, R
<1>5. s \o t = [i \in 1 .. n + m |-> IF i <= n THEN s[i] ELSE t[i - n]]
  <2>1. s \in Seq(R) /\ t \in Seq(R) /\ Len(s) = n /\ Len(t) = m
    BY <1>4
  <2>2. /\ s \o t \in Seq(R) /\ Len(s \o t) = n + m
        /\ \A i \in 1 .. n + m : (s \o t)[i] = IF i <= n THEN s[i] ELSE t[i - n]
    BY <2>1, ConcatProperties, Zenon
  <2>3. s \o t = [i \in 1 .. n + m |-> (s \o t)[i]]
    <3> DEFINE st == s \o t
    <3>1. st \in Seq(R) /\ Len(st) = n + m
      BY <2>2
    <3> HIDE DEF st
    <3>2. st \in [1 .. n + m -> R]
      BY <3>1, LenProperties
    <3>3. st = [i \in 1 .. n + m |-> st[i]]
      BY <3>2
    <3> QED
      BY <3>3 DEF st
  <2> QED
    BY <2>2, <2>3
<1>6. ASSUME NEW i \in 1 .. n + m PROVE u[i] = IF i <= n THEN s[i] ELSE t[i - n]
  <2>1. CASE i <= n
    <3>1. i \in 1 .. n /\ f[i] = g[i]
      BY <2>1
    <3> QED
      BY <1>1, <1>3, <2>1, <3>1, Zenon
  <2>2. CASE ~(i <= n)
    <3>1. i - n \in 1 .. m /\ (a + n) + (i - n) - 1 = a + i - 1 /\ f[i] = h[i - n]
      BY <2>2
    <3>2. t[i - n] = <<(a + n) + (i - n) - 1, h[i - n]>>
      BY <1>2, <3>1
    <3> QED
      BY <1>3, <2>2, <3>1, <3>2
  <2> QED
    BY <2>1, <2>2
<1>7. s \o t = u
  BY <1>3, <1>5, <1>6, Zenon
<1> QED
  BY <1>7, Zenon DEF s, t, u, Joined

\* A page is cached only when all of it can be read.
LEMMA FillFacts ==
  ASSUME ProcessMemoryAssumption, NEW c, CacheType(c), NEW p \in PageNumbers, pages \in [PageNumbers -> Int]
  PROVE  /\ CacheType(Fill(c, p))
         /\ CacheRight(c) => CacheRight(Fill(c, p))
         /\ Fill(c, p)[p] # 0 => p < NumPages - 1
         /\ \A q \in PageNumbers : c[q] # 0 => Fill(c, p)[q] = c[q]
<1> DEFINE a == p * PageSize
           got == ProcessVmRead(p * PageSize, PageSize)
<1>0. PageSize \in Nat \ {0} /\ NumPages \in Nat \ {0} /\ p \in Nat /\ NumPages - 1 \in PageNumbers
  BY DEF ProcessMemoryAssumption, PageNumbers
<1>1. /\ a \in Nat /\ PageOf(a) = p
      /\ (a % PageSize) + PageSize <= MaxIovecs * PageSize
  BY <1>0, PageFits
<1>2. PICK n \in 0 .. PageSize : got = Bytes(a, n) /\ VmSpec(a, PageSize, n)
  BY <1>0, <1>1, VmReads
<1>3. Len(got) = n
  BY <1>0, <1>2, BytesLen
<1>4. Fill(c, p) = IF c[p] # 0 \/ Len(got) < PageSize THEN c ELSE [c EXCEPT ![p] = pages[p]]
  BY DEF Fill
<1>5. c[p] # 0 => p < NumPages - 1
  BY <1>0 DEF CacheType, PageNumbers
<1> HIDE DEF got
<1>6. CASE c[p] # 0 \/ Len(got) < PageSize
  BY <1>4, <1>5, <1>6
<1>7. CASE ~(c[p] # 0 \/ Len(got) < PageSize)
  <2>1. Fill(c, p) = [c EXCEPT ![p] = pages[p]] /\ n = PageSize
    BY <1>0, <1>3, <1>4, <1>7
  <2>2. ~(a + PageSize >= Limit) /\ Stops(a, PageSize, n)
    BY <1>0, <1>2, <2>1 DEF VmSpec
  <2>3. p < NumPages - 1
    <3>1. SUFFICES ASSUME p = NumPages - 1 PROVE a + PageSize >= Limit
      BY <1>0, <2>2 DEF PageNumbers
    <3>2. (p + 1) * PageSize = a + PageSize /\ p + 1 = NumPages /\ a \in Nat
      BY <1>0, <3>1, TimesNext
    <3>3. a + PageSize = Limit
      BY <1>0, <3>2 DEF Limit
    <3> HIDE DEF a
    <3> QED
      BY <1>0, <3>2, <3>3
  <2>4. pages[p] > 0
    <3>1. a \in a .. (a + n) - 1
      <4> HIDE DEF a
      <4> QED
        BY <1>0, <1>1, <2>1
    <3>2. Readable(a)
      BY <2>2, <3>1 DEF Stops
    <3> QED
      BY <1>1, <3>2 DEF Readable
  <2> HIDE DEF a
  <2>5. CacheType([c EXCEPT ![p] = pages[p]])
    BY <1>0, <2>3 DEF CacheType
  <2>6. CacheRight(c) => CacheRight([c EXCEPT ![p] = pages[p]])
    BY <2>4 DEF CacheType, CacheRight
  <2>7. \A q \in PageNumbers : c[q] # 0 => [c EXCEPT ![p] = pages[p]][q] = c[q]
    BY <1>7 DEF CacheType
  <2> QED
    BY <2>1, <2>3, <2>5, <2>6, <2>7
<1> QED
  BY <1>6, <1>7

\* How many bytes are returned is determined by what can be read.
LEMMA VmUnique ==
  ASSUME NEW a \in Nat, NEW size \in Nat, NEW m, NEW n, VmSpec(a, size, m), VmSpec(a, size, n)
  PROVE  m = n
<1>1. CASE a + size >= Limit
  BY <1>1 DEF VmSpec
<1>2. CASE ~(a + size >= Limit)
  <2>1. Stops(a, size, m) /\ Stops(a, size, n)
    BY <1>2 DEF VmSpec
  <2>2. m \in 0 .. size /\ n \in 0 .. size
    BY <2>1 DEF Stops
  <2>3. ~(m < n)
    <3>1. SUFFICES ASSUME m < n PROVE FALSE
      OBVIOUS
    <3>2. a + m \in a .. (a + n) - 1 /\ m < size
      BY <2>2, <3>1
    <3> QED
      BY <2>1, <3>2 DEF Stops
  <2>4. ~(n < m)
    <3>1. SUFFICES ASSUME n < m PROVE FALSE
      OBVIOUS
    <3>2. a + n \in a .. (a + m) - 1 /\ n < size
      BY <2>2, <3>1
    <3> QED
      BY <2>1, <3>2 DEF Stops
  <2> QED
    BY <2>2, <2>3, <2>4
<1> QED
  BY <1>1, <1>2

\* The bytes of ProcessVmRead from their number
LEMMA VmReadIs ==
  ASSUME ProcessMemoryAssumption, NEW a \in Nat, NEW size \in Nat, NEW n, VmSpec(a, size, n),
         (a % PageSize) + size <= MaxIovecs * PageSize
  PROVE  ProcessVmRead(a, size) = Bytes(a, n)
<1>1. PICK m \in 0 .. size : ProcessVmRead(a, size) = Bytes(a, m) /\ VmSpec(a, size, m)
  BY VmReads
<1>2. m = n
  BY <1>1, VmUnique
<1> QED
  BY <1>1, <1>2

\* The bytes of the process, as the pieces of its pages
LEMMA BytesPieces ==
  ASSUME NEW a, NEW n
  PROVE  Bytes(a, n) = Pieces(a, n, [i \in 1 .. n |-> pages[PageOf(a + i - 1)]])
  BY DEF Bytes, Byte, Pieces

\* The bytes of a cached page, as a piece of it
LEMMA CachedPieces ==
  ASSUME NEW c, NEW a, NEW n
  PROVE  CachedBytes(c, a, n) = Pieces(a, n, [i \in 1 .. n |-> c[PageOf(a)]])
  BY DEF CachedBytes, Pieces

\* Where the page of an address ends
LEMMA PageEnd ==
  ASSUME ProcessMemoryAssumption, NEW a \in Nat, PageOf(a) < NumPages - 1
  PROVE  /\ (PageOf(a) + 1) * PageSize \in Nat /\ a < (PageOf(a) + 1) * PageSize
         /\ (PageOf(a) + 1) * PageSize <= a + PageSize
         /\ (PageOf(a) + 1) * PageSize + PageSize <= Limit
         /\ (PageOf(a) + 1) * PageSize < Limit
         /\ \A b \in a .. (PageOf(a) + 1) * PageSize - 1 : PageOf(b) = PageOf(a)
<1> DEFINE q == PageOf(a)
           r == a % PageSize
           e == (q + 1) * PageSize
<1>0. PageSize \in Nat \ {0} /\ NumPages \in Nat
  BY DEF ProcessMemoryAssumption
<1>1. q \in Nat /\ r \in 0 .. PageSize - 1
  BY PageFacts, Zenon
<1>2. e = a + (PageSize - r)
  BY NextPage, Zenon
<1>3. (q + 2) * PageSize = e + PageSize
  <2>1. ((q + 1) + 1) * PageSize = (q + 1) * PageSize + PageSize
    BY <1>0, <1>1, TimesNext
  <2>2. (q + 1) + 1 = q + 2
    BY <1>1
  <2> QED
    BY <2>1, <2>2
<1>4. (q + 2) * PageSize <= Limit
  <2>1. q + 2 \in Nat /\ q + 2 <= NumPages
    BY <1>0, <1>1
  <2>2. (q + 2) * PageSize <= NumPages * PageSize
    BY <1>0, <2>1, Times
  <2>3. NumPages * PageSize = Limit
    BY <1>0 DEF Limit
  <2> QED
    BY <2>2, <2>3
<1>5. Limit \in Nat
  BY <1>0, Times DEF Limit
<1> HIDE DEF e, r, q
<1>6. e \in Nat /\ a < e /\ e <= a + PageSize /\ e + PageSize <= Limit /\ e < Limit
  BY <1>0, <1>1, <1>2, <1>3, <1>4, <1>5
<1>7. ASSUME NEW b \in a .. e - 1 PROVE PageOf(b) = PageOf(a)
  <2>1. b \in Nat /\ a <= b /\ b < a + (PageSize - r)
    BY <1>2, <1>6
  <2> QED
    BY <2>1, SamePage DEF r
<1> QED
  BY <1>6, <1>7 DEF e, q

\* A read within a cached page
LEMMA CachedOne ==
  ASSUME ProcessMemoryAssumption, NEW a \in Nat, NEW size \in Nat, NEW c, PageOf(a) < NumPages - 1,
         size <= (PageOf(a) + 1) * PageSize - a, c[PageOf(a)] = pages[PageOf(a)], pages[PageOf(a)] > 0
  PROVE  CachedBytes(c, a, size) = Bytes(a, size) /\ VmSpec(a, size, size)
<1> DEFINE q == PageOf(a)
           e == (q + 1) * PageSize
<1>1. e \in Nat /\ a < e /\ e < Limit /\ \A b \in a .. e - 1 : PageOf(b) = q
  BY PageEnd
<1>2. Limit \in Nat
  BY Times DEF Limit, ProcessMemoryAssumption
<1> HIDE DEF e, q
<1>3. size <= e - a
  BY DEF e, q
<1>4. \A i \in 1 .. size : a + i - 1 \in a .. e - 1
  BY <1>1, <1>3
<1>5. CachedBytes(c, a, size) = Bytes(a, size)
  BY <1>1, <1>4 DEF CachedBytes, Bytes, Byte, q
<1>6. ~(a + size >= Limit)
  BY <1>1, <1>2, <1>3
<1>7. ASSUME NEW b \in a .. (a + size) - 1 PROVE Readable(b)
  <2>1. b \in a .. e - 1
    BY <1>1, <1>3
  <2> QED
    BY <1>1, <2>1 DEF Readable, q
<1>8. Stops(a, size, size)
  BY <1>7 DEF Stops
<1> QED
  BY <1>5, <1>6, <1>8 DEF VmSpec

\* The bytes of two reads, one behind the other
LEMMA BytesConcat ==
  ASSUME NEW a \in Nat, NEW n \in Nat, NEW m \in Nat
  PROVE  Bytes(a, n) \o Bytes(a + n, m) = Bytes(a, n + m)
<1> DEFINE g == [i \in 1 .. n |-> pages[PageOf(a + i - 1)]]
           h == [i \in 1 .. m |-> pages[PageOf((a + n) + i - 1)]]
           f == [i \in 1 .. n + m |-> IF i <= n THEN g[i] ELSE h[i - n]]
           k == [i \in 1 .. n + m |-> pages[PageOf(a + i - 1)]]
<1>1. Bytes(a, n) = Pieces(a, n, g) /\ Bytes(a + n, m) = Pieces(a + n, m, h) /\ Bytes(a, n + m) = Pieces(a, n + m, k)
  BY BytesPieces, Zenon
<1>2. ASSUME NEW i \in 1 .. n + m PROVE f[i] = k[i]
  <2>1. CASE i <= n
    BY <2>1
  <2>2. CASE ~(i <= n)
    <3>1. i - n \in 1 .. m /\ (a + n) + (i - n) - 1 = a + i - 1
      BY <2>2
    <3> QED
      BY <2>2, <3>1
  <2> QED
    BY <2>1, <2>2
<1>3. f = k
  BY <1>2, Zenon
<1> HIDE DEF g, h
<1>4. Pieces(a, n, g) \o Pieces(a + n, m, h) = Pieces(a, n + m, f)
  <2>1. Pieces(a, n, g) \o Pieces(a + n, m, h) = Pieces(a, n + m, Joined(n, m, g, h))
    BY PiecesConcat
  <2> QED
    BY <2>1, Zenon DEF Joined
<1> QED
  BY <1>1, <1>3, <1>4, Zenon

\* A read that crosses into the next page: what the memory gives is what it
\* gives for the first page and then for the second.
LEMMA VmTwo ==
  ASSUME ProcessMemoryAssumption, NEW a \in Nat, NEW size \in 0 .. PageSize, PageOf(a) < NumPages - 1,
         NEW max \in Nat, a + max = (PageOf(a) + 1) * PageSize, max < size,
         pages[PageOf(a)] > 0, (a % PageSize) + size <= MaxIovecs * PageSize
  PROVE  ProcessVmRead(a, size) = Bytes(a, max) \o ProcessVmRead((PageOf(a) + 1) * PageSize, size - max)
<1> DEFINE e == (PageOf(a) + 1) * PageSize
<1>0. PageSize \in Nat /\ Limit \in Nat
  BY Times DEF Limit, ProcessMemoryAssumption
<1>1. /\ e \in Nat /\ a < e /\ e <= a + PageSize /\ e + PageSize <= Limit
      /\ \A b \in a .. e - 1 : PageOf(b) = PageOf(a)
  BY PageEnd
<1>e. PageOf(a) + 1 \in Nat /\ (\E p \in Nat : e = p * PageSize) /\ a + max = e
  BY PageFacts
<1> HIDE DEF e
<1>2. max \in Nat /\ max >= 1 /\ size - max \in 0 .. PageSize /\ a + max = e /\ size - max \in Nat
  BY <1>0, <1>1, <1>e
<1>3. (e % PageSize) + (size - max) <= MaxIovecs * PageSize
  BY <1>2, <1>e, PageFits
<1>4. PICK n \in 0 .. (size - max) : ProcessVmRead(e, size - max) = Bytes(e, n) /\ VmSpec(e, size - max, n)
  BY <1>1, <1>2, <1>3, VmReads
<1>5. ~(e + (size - max) >= Limit) /\ ~(a + size >= Limit)
  BY <1>0, <1>1, <1>2
<1>6. Stops(e, size - max, n)
  BY <1>4, <1>5 DEF VmSpec
<1>7. max + n \in 0 .. size /\ a + (max + n) = e + n
  BY <1>1, <1>2
<1>8. ASSUME NEW b \in a .. (a + (max + n)) - 1 PROVE Readable(b)
  <2>1. CASE b < e
    <3>1. b \in a .. e - 1
      BY <1>1, <2>1
    <3> QED
      BY <1>1, <3>1 DEF Readable
  <2>2. CASE ~(b < e)
    <3>1. b \in e .. (e + n) - 1
      BY <1>1, <1>7, <2>2
    <3> QED
      BY <1>6, <3>1 DEF Stops
  <2> QED
    BY <2>1, <2>2
<1>9. max + n < size => ~Readable(a + (max + n))
  <2>1. SUFFICES ASSUME max + n < size PROVE ~Readable(e + n)
    BY <1>7
  <2>2. n < size - max
    BY <1>2, <2>1
  <2> QED
    BY <1>6, <2>2 DEF Stops
<1>10. VmSpec(a, size, max + n)
  BY <1>5, <1>7, <1>8, <1>9 DEF VmSpec, Stops
<1>11. ProcessVmRead(a, size) = Bytes(a, max + n)
  BY <1>0, <1>10, VmReadIs
<1>12. Bytes(a, max) \o Bytes(a + max, n) = Bytes(a, max + n)
  <2>1. n \in Nat
    BY <1>2
  <2> QED
    BY <1>2, <2>1, BytesConcat, Zenon
<1> QED
  BY <1>2, <1>4, <1>11, <1>12 DEF e

\* MemoryCache::Read: the cache stays right, the bytes are those of the
\* addresses that were asked for, and they are the ones of the memory.
CachedRight(a, size) ==
  /\ CacheType(Cached(a, size).cache)
  /\ CacheRight(cache) => CacheRight(Cached(a, size).cache)
  /\ \E n \in 0 .. size : \E g : Cached(a, size).got = Pieces(a, n, g)
  /\ CacheRight(cache) => Cached(a, size).got = ProcessVmRead(a, size)

\* The pages of a read of MemoryCache
LEMMA CachedReads ==
  ASSUME ProcessMemoryAssumption, OneBatch, CacheType(cache), pages \in [PageNumbers -> Int],
         NEW a \in Nat, a < Limit, NEW size \in Sizes
  PROVE  CachedRight(a, size)
<1> DEFINE page == PageOf(a)
           one == Fill(cache, page)
           e == (page + 1) * PageSize
           max == e - a
           two == Fill(one, (page + 1) % NumPages)
           rest == e % Limit
           r == Cached(a, size)
<1>0. /\ PageSize \in Nat \ {0} /\ NumPages \in Nat \ {0} /\ Small \in 1 .. PageSize /\ Limit \in Nat
      /\ size \in Nat /\ (a % PageSize) + size <= MaxIovecs * PageSize
  <2>1. size \in Nat /\ (a % PageSize) + size <= MaxIovecs * PageSize
    BY FitsBatch, Zenon
  <2>2. PageSize \in Nat \ {0} /\ NumPages \in Nat \ {0} /\ Small \in 1 .. PageSize
    BY DEF ProcessMemoryAssumption
  <2>3. Limit \in Nat
    BY <2>2, Times DEF Limit
  <2> QED
    BY <2>1, <2>2, <2>3, Zenon
<1>1. page \in PageNumbers /\ page \in Nat
  BY <1>0, InSpace DEF PageNumbers
<1>2. /\ CacheType(one) /\ (CacheRight(cache) => CacheRight(one))
      /\ one[page] # 0 => page < NumPages - 1
  BY <1>1, FillFacts
<1>3. r = IF size > Small \/ one[page] = 0
          THEN [cache |-> one, got |-> ProcessVmRead(a, size)]
          ELSE IF size <= max
          THEN [cache |-> one, got |-> CachedBytes(one, a, size)]
          ELSE [cache |-> two,
                got |-> CachedBytes(one, a, max)
                          \o IF two[PageOf(rest)] # 0 THEN CachedBytes(two, rest, size - max)
                             ELSE ProcessVmRead(rest, size - max)]
  BY Zenon DEF Cached
<1>4. CachedRight(a, size)
        <=> /\ CacheType(r.cache)
            /\ CacheRight(cache) => CacheRight(r.cache)
            /\ \E n \in 0 .. size : \E g : r.got = Pieces(a, n, g)
            /\ CacheRight(cache) => r.got = ProcessVmRead(a, size)
  BY Zenon DEF CachedRight
<1> HIDE DEF r
<1>5. CASE size > Small \/ one[page] = 0
  <2>1. r.cache = one /\ r.got = ProcessVmRead(a, size)
    BY <1>3, <1>5, Zenon
  <2>2. PICK n \in 0 .. size : r.got = Bytes(a, n)
    BY <1>0, <2>1, VmReads, Zenon
  <2>3. \E g : r.got = Pieces(a, n, g)
    BY <2>2, BytesPieces, Zenon
  <2> HIDE DEF one, page
  <2> QED
    BY <1>2, <1>4, <2>1, <2>3, Zenon
<1>6. CASE ~(size > Small \/ one[page] = 0)
  <2>1. page < NumPages - 1 /\ size <= PageSize /\ size \in 0 .. PageSize
    BY <1>0, <1>2, <1>6
  <2>2. e \in Nat /\ a < e /\ e <= a + PageSize /\ e < Limit /\ e + PageSize <= Limit
    BY <2>1, PageEnd
  <2>3. ASSUME CacheRight(cache) PROVE one[page] = pages[page] /\ pages[page] > 0
    BY <1>1, <1>2, <1>6, <2>3 DEF CacheRight
  <2>4. CASE size <= max
    <3>1. r.cache = one /\ r.got = CachedBytes(one, a, size)
      BY <1>3, <1>6, <2>4
    <3>2. \E g : r.got = Pieces(a, size, g)
      BY <3>1, CachedPieces, Zenon
    <3>3. ASSUME CacheRight(cache) PROVE r.got = ProcessVmRead(a, size)
      <4>1. CachedBytes(one, a, size) = Bytes(a, size) /\ VmSpec(a, size, size)
        BY <1>0, <2>1, <2>3, <2>4, <3>3, CachedOne
      <4> QED
        BY <1>0, <3>1, <4>1, VmReadIs
    <3>4. size \in 0 .. size
      BY <1>0
    <3> HIDE DEF one, page
    <3> QED
      BY <1>2, <1>4, <3>1, <3>2, <3>3, <3>4, Zenon
  <2>5. CASE ~(size <= max)
    <3>1. (page + 1) % NumPages = page + 1 /\ rest = e /\ page + 1 \in PageNumbers
      <4>1. page + 1 \in 0 .. NumPages - 1
        BY <1>0, <1>1, <2>1
      <4>2. (page + 1) % NumPages = page + 1
        BY <1>0, <4>1
      <4> HIDE DEF e, page
      <4>3. e % Limit = e
        BY <1>0, <2>2
      <4> QED
        BY <4>1, <4>2, <4>3 DEF PageNumbers
    <3>2. max \in Nat /\ size - max \in 0 .. PageSize /\ size > max /\ a + max = e
      <4> HIDE DEF e
      <4> QED
        BY <1>0, <2>1, <2>2, <2>5
    <3>3. PageOf(e) = page + 1 /\ (e % PageSize) + (size - max) <= MaxIovecs * PageSize
      BY <1>1, <3>2, PageFits
    <3> DEFINE second == IF two[page + 1] # 0 THEN CachedBytes(two, e, size - max)
                         ELSE ProcessVmRead(e, size - max)
    <3>4. r.cache = two /\ r.got = CachedBytes(one, a, max) \o second
      <4>1. r = [cache |-> two, got |-> CachedBytes(one, a, max)
                          \o IF two[PageOf(rest)] # 0 THEN CachedBytes(two, rest, size - max)
                             ELSE ProcessVmRead(rest, size - max)]
        BY <1>3, <1>6, <2>5, Zenon
      <4>2. PageOf(rest) = page + 1 /\ rest = e
        BY <3>1, <3>3
      <4> HIDE DEF two, one, max, rest, e, page
      <4> QED
        BY <4>1, <4>2
    <3>5. /\ CacheType(two) /\ (CacheRight(one) => CacheRight(two))
          /\ two[page + 1] # 0 => page + 1 < NumPages - 1
      <4>1. two = Fill(one, page + 1)
        BY <3>1
      <4> HIDE DEF one, two, page
      <4> QED
        BY <1>2, <3>1, <4>1, FillFacts
    <3>6. \E n \in 0 .. (size - max) : \E g : second = Pieces(e, n, g)
      <4>1. CASE two[page + 1] # 0
        <5>1. \E g : second = Pieces(e, size - max, g)
          BY <4>1, CachedPieces, Zenon
        <5>2. size - max \in 0 .. (size - max)
          BY <3>2
        <5> QED
          BY <5>1, <5>2
      <4>2. CASE two[page + 1] = 0
        <5>1. PICK n \in 0 .. (size - max) : second = Bytes(e, n)
          BY <2>2, <3>2, <3>3, <4>2, VmReads
        <5> QED
          BY <5>1, BytesPieces, Zenon
      <4> QED
        BY <4>1, <4>2
    <3>7. \E n \in 0 .. size : \E g : r.got = Pieces(a, n, g)
      <4>0. PICK n \in 0 .. (size - max) : \E g : second = Pieces(e, n, g)
        BY <3>6
      <4>1. PICK g : second = Pieces(e, n, g)
        BY <4>0
      <4>2. PICK h : CachedBytes(one, a, max) = Pieces(a, max, h)
        BY CachedPieces, Zenon
      <4> HIDE DEF second, one, max, e
      <4>3. n \in Nat /\ max + n \in 0 .. size
        BY <1>0, <3>2
      <4>4. r.got = Pieces(a, max, h) \o Pieces(a + max, n, g)
        BY <3>2, <3>4, <4>1, <4>2, Zenon
      <4>5. \E k : r.got = Pieces(a, max + n, k)
        <5>1. Pieces(a, max, h) \o Pieces(a + max, n, g) = Pieces(a, max + n, Joined(max, n, h, g))
          <6>1. max \in Nat
            BY <3>2
          <6> QED
            BY <4>3, <6>1, PiecesConcat
        <5> QED
          BY <4>4, <5>1, Zenon
      <4> QED
        BY <4>3, <4>5
    <3>8. ASSUME CacheRight(cache) PROVE r.got = ProcessVmRead(a, size)
      <4>1. CachedBytes(one, a, max) = Bytes(a, max)
        <5>1. max <= e - a
          BY <3>2
        <5> QED
          BY <2>1, <2>3, <3>2, <3>8, <5>1, CachedOne
      <4>2. second = ProcessVmRead(e, size - max)
        <5>1. SUFFICES ASSUME two[page + 1] # 0
                       PROVE  CachedBytes(two, e, size - max) = ProcessVmRead(e, size - max)
          OBVIOUS
        <5>2. page + 1 < NumPages - 1 /\ two[page + 1] = pages[page + 1] /\ pages[page + 1] > 0
          BY <1>2, <3>1, <3>5, <3>8, <5>1 DEF CacheRight
        <5>3. size - max <= (PageOf(e) + 1) * PageSize - e
          <6>1. (PageOf(e) + 1) * PageSize = e + PageSize
            BY <1>0, <1>1, <3>3, TimesNext
          <6> HIDE DEF e, max
          <6> QED
            BY <1>0, <2>2, <3>2, <6>1
        <5>4. size - max \in Nat
          BY <1>0, <3>2
        <5> HIDE DEF e, max, two, page
        <5>5. CachedBytes(two, e, size - max) = Bytes(e, size - max) /\ VmSpec(e, size - max, size - max)
          BY <2>2, <3>3, <5>2, <5>3, <5>4, CachedOne
        <5> QED
          BY <2>2, <3>3, <5>4, <5>5, VmReadIs
      <4>3. ProcessVmRead(a, size) = Bytes(a, max) \o ProcessVmRead(e, size - max)
        <5>1. /\ max \in Nat /\ a + max = (PageOf(a) + 1) * PageSize /\ max < size
              /\ pages[PageOf(a)] > 0 /\ PageOf(a) < NumPages - 1
          BY <2>1, <2>3, <3>2, <3>8
        <5>2. ProcessVmRead(a, size) = Bytes(a, max) \o ProcessVmRead((PageOf(a) + 1) * PageSize, size - max)
          <6> HIDE DEF max
          <6> QED
            BY <1>0, <2>1, <5>1, VmTwo, Zenon
        <5> QED
          BY <5>2, Zenon
      <4> QED
        BY <3>4, <4>1, <4>2, <4>3, Zenon
    <3> HIDE DEF one, two, page
    <3> QED
      BY <1>2, <1>4, <3>4, <3>5, <3>7, <3>8, Zenon
  <2> QED
    BY <2>4, <2>5
<1> QED
  BY <1>5, <1>6

(***************************************************************************)
(* The invariant                                                           *)
(***************************************************************************)
\* VmReads for every read that takes one call
VmReadRight ==
  \A a \in Nat : \A size \in Nat : (a % PageSize) + size <= MaxIovecs * PageSize =>
    \E n \in 0 .. size : ProcessVmRead(a, size) = Bytes(a, n) /\ VmSpec(a, size, n)
MemType ==
  /\ pages \in [PageNumbers -> Int] /\ CacheType(cache) /\ fresh \in BOOLEAN
  /\ last.addr \in Nat /\ last.size \in Sizes \cup {0}
MemRight == ReadsPrefix /\ StopsAtHole /\ ReadsAllThereIs /\ CacheTransparent
MemInv == MemType /\ (fresh => CacheRight(cache)) /\ MemRight

\* Every read that takes one call is right, in any state ...
LEMMA VmReadRightHolds == ProcessMemoryAssumption => VmReadRight
  BY VmReads DEF VmReadRight

\* ... and so in the next one.
LEMMA VmReadRightNext == ProcessMemoryAssumption => VmReadRight'
<1>1. ProcessMemoryAssumption => ProcessMemoryAssumption'
  BY DEF ProcessMemoryAssumption
<1> QED
  BY <1>1, VmReadRightHolds, PTL

\* While the process does not change, neither does what ProcessVmRead returns.
LEMMA VmSame ==
  ASSUME ProcessMemoryAssumption, pages' = pages, NEW a \in Nat, NEW size \in Nat,
         (a % PageSize) + size <= MaxIovecs * PageSize
  PROVE  ProcessVmRead(a, size)' = ProcessVmRead(a, size)
<1>1. VmReadRight
  BY VmReads DEF VmReadRight
<1>2. VmReadRight'
  BY VmReadRightNext
<1>3. PICK m \in 0 .. size : ProcessVmRead(a, size) = Bytes(a, m) /\ VmSpec(a, size, m)
  BY <1>1 DEF VmReadRight
<1>4. PICK n \in 0 .. size : ProcessVmRead(a, size)' = Bytes(a, n)' /\ VmSpec(a, size, n)'
  BY <1>2, Zenon DEF VmReadRight
<1>5. Bytes(a, n)' = Bytes(a, n)
  BY DEF Bytes, Byte
<1>6. VmSpec(a, size, n)
  BY <1>4 DEF VmSpec, Stops, Readable
<1>7. m = n
  BY <1>3, <1>6, VmUnique
<1> QED
  BY <1>3, <1>4, <1>5, <1>7

\* A read that is not of the cache
LEMMA ReadRight ==
  ASSUME ProcessMemoryAssumption, MemType, pages' = pages, NEW a \in Nat, NEW size \in Nat, NEW n \in 0 .. size,
         NEW via, via # "cache", last' = [via |-> via, addr |-> a, size |-> size, got |-> Bytes(a, n)],
         Complete(a, size, n), via = "local" => VmSpec(a, size, n)
  PROVE  MemRight'
<1>1. last'.via = via /\ last'.addr = a /\ last'.size = size /\ last'.got = Bytes(a, n)
  OBVIOUS
<1>2. Len(last'.got) = n /\ \A i \in 1 .. n : last'.got[i][1] = a + i - 1
                                               /\ last'.got[i][2] = pages[PageOf(a + i - 1)]
  BY <1>1, BytesLen DEF Byte
<1>3. ReadsPrefix'
  BY <1>1, <1>2 DEF ReadsPrefix
<1>4. StopsAtHole'
  <2>1. SUFFICES ASSUME via = "local", NEW i \in 1 .. n, NEW b \in a .. (a + i - 1) PROVE pages[PageOf(b)] # 0
    BY <1>1, <1>2, Zenon DEF StopsAtHole
  <2>2. n # 0
    BY <2>1
  <2>3. Stops(a, size, n)
    BY <2>1, <2>2 DEF VmSpec
  <2>4. b \in a .. (a + n) - 1
    BY <2>1
  <2>5. pages[PageOf(b)] > 0
    BY <2>3, <2>4 DEF Stops, Readable
  <2> QED
    BY <2>5
<1>5. ReadsAllThereIs'
  <2>1. SUFFICES ASSUME a + size < Limit, NEW m \in 1 .. size, \A b \in a .. (a + m - 1) : pages[PageOf(b)] > 0
                 PROVE  n >= m
    BY <1>1, <1>2, Zenon DEF ReadsAllThereIs
  <2>2. \A b \in a .. (a + m) - 1 : Readable(b)
    BY <2>1 DEF Readable
  <2> QED
    BY <2>1, <2>2 DEF Complete
<1>6. CacheTransparent'
  BY <1>1 DEF CacheTransparent
<1> QED
  BY <1>3, <1>4, <1>5, <1>6 DEF MemRight

\* A read of the cache
LEMMA CachedReadRight ==
  ASSUME ProcessMemoryAssumption, OneBatch, MemInv, NEW a \in Nat, a < Limit, NEW size \in Sizes,
         pages' = pages, fresh' = fresh,
         last' = [via |-> "cache", addr |-> a, size |-> size, got |-> Cached(a, size).got]
  PROVE  MemRight'
<1>0. size \in Nat /\ (a % PageSize) + size <= MaxIovecs * PageSize
  BY FitsBatch, Zenon
<1>1. CachedRight(a, size)
  BY CachedReads DEF MemInv, MemType
<1>2. last'.via = "cache" /\ last'.addr = a /\ last'.size = size /\ last'.got = Cached(a, size).got
  OBVIOUS
<1>3. PICK n \in 0 .. size : \E g : Cached(a, size).got = Pieces(a, n, g)
  BY <1>1 DEF CachedRight
<1>4. PICK g : last'.got = Pieces(a, n, g)
  BY <1>2, <1>3
<1>5. Len(last'.got) = n /\ \A i \in 1 .. n : last'.got[i][1] = a + i - 1
  <2>1. \A i \in 1 .. n : Pieces(a, n, g)[i][1] = a + i - 1
    BY DEF Pieces
  <2>2. n \in Nat
    BY <1>0
  <2> QED
    BY <1>4, <2>1, <2>2, PiecesLen
<1>6. ReadsPrefix'
  BY <1>0, <1>2, <1>5 DEF ReadsPrefix
<1>7. CacheTransparent'
  <2>1. SUFFICES ASSUME fresh PROVE last'.got = ProcessVmRead(a, size)'
    BY <1>2 DEF CacheTransparent
  <2>2. Cached(a, size).got = ProcessVmRead(a, size)
    BY <1>1, <2>1 DEF CachedRight, MemInv
  <2> QED
    BY <1>0, <1>2, <2>2, VmSame
<1>8. StopsAtHole' /\ ReadsAllThereIs'
  BY <1>2 DEF StopsAtHole, ReadsAllThereIs
<1> QED
  BY <1>6, <1>7, <1>8 DEF MemRight

\* Before the first read there is nothing that could be wrong ...
LEMMA NoReadRight ==
  ASSUME last = NoRead
  PROVE  MemRight /\ last.addr \in Nat /\ last.size \in Sizes \cup {0}
<1>1. last.via = "none" /\ last.addr = 0 /\ last.size = 0 /\ last.got = <<>>
  BY DEF NoRead
<1>2. Len(<<>>) = 0
  OBVIOUS
<1> QED
  BY <1>1, <1>2 DEF MemRight, ReadsPrefix, StopsAtHole, ReadsAllThereIs, CacheTransparent

\* ... nor after a step that forgets the last read.
LEMMA NoReadRightNext ==
  ASSUME last' = NoRead
  PROVE  MemRight' /\ last'.addr \in Nat /\ last'.size \in Sizes \cup {0}
<1>1. last'.via = "none" /\ last'.addr = 0 /\ last'.size = 0 /\ last'.got = <<>>
  BY DEF NoRead
<1>2. Len(<<>>) = 0
  OBVIOUS
<1> QED
  BY <1>1, <1>2 DEF MemRight, ReadsPrefix, StopsAtHole, ReadsAllThereIs, CacheTransparent

\* What a read leaves alone
LEMMA ReadLeaves ==
  ASSUME ProcessMemoryAssumption, MemInv, NEW a \in 0 .. (Limit - 1), NEW size \in Sizes
  PROVE  a \in Nat /\ a < Limit /\ size \in Nat
  BY Times DEF ProcessMemoryAssumption, Limit

\* Nothing is cached at first.
LEMMA InitMemInv ==
  ASSUME ProcessMemoryAssumption, Init
  PROVE  MemInv
<1>1. NumPages \in Nat \ {0} /\ NumPages - 1 \in PageNumbers
  BY DEF ProcessMemoryAssumption, PageNumbers
<1>2. pages \in [PageNumbers -> Int] /\ DOMAIN pages = PageNumbers
  BY DEF Init, PageNumbers
<1>3. cache = [p \in PageNumbers |-> 0] /\ fresh = TRUE /\ last = NoRead
  BY <1>2 DEF Init
<1>4. CacheType(cache) /\ CacheRight(cache)
  BY <1>1, <1>3 DEF CacheType, CacheRight
<1>5. MemRight /\ last.addr \in Nat /\ last.size \in Sizes \cup {0}
  BY <1>3, NoReadRight
<1> QED
  BY <1>2, <1>3, <1>4, <1>5 DEF MemInv, MemType

\* Every step keeps the invariant.
LEMMA NextMemInv ==
  ASSUME ProcessMemoryAssumption, OneBatch, MemInv, [Next]_vars
  PROVE  MemInv'
<1>0. /\ pages \in [PageNumbers -> Int] /\ CacheType(cache) /\ fresh \in BOOLEAN
      /\ last.addr \in Nat /\ last.size \in Sizes \cup {0}
      /\ fresh => CacheRight(cache)
      /\ MemType /\ MemRight
  BY DEF MemInv, MemType
<1>1. ASSUME NEW a \in 0 .. (Limit - 1), NEW size \in Sizes, ReadLocal(a, size) PROVE MemInv'
  <2>1. a \in Nat /\ a < Limit /\ size \in Nat /\ (a % PageSize) + size <= MaxIovecs * PageSize
    BY ReadLeaves, FitsBatch, Zenon
  <2>2. PICK n \in 0 .. size : ProcessVmRead(a, size) = Bytes(a, n) /\ VmSpec(a, size, n)
    BY <2>1, VmReads
  <2>3. /\ last' = [via |-> "local", addr |-> a, size |-> size, got |-> Bytes(a, n)]
        /\ pages' = pages /\ cache' = cache /\ fresh' = fresh
    BY <1>1, <2>2 DEF ReadLocal, Record
  <2>4. Complete(a, size, n)
    BY <2>1, <2>2, VmComplete
  <2>5. MemRight'
    BY <1>0, <2>1, <2>2, <2>3, <2>4, ReadRight
  <2> QED
    BY <1>0, <2>1, <2>3, <2>5 DEF MemInv, MemType, CacheType, CacheRight
<1>2. ASSUME NEW a \in 0 .. (Limit - 1), NEW size \in Sizes, ReadRemote(a, size) PROVE MemInv'
  <2>1. a \in Nat /\ a < Limit /\ size \in Nat
    BY ReadLeaves, Zenon
  <2>2. PICK n \in 0 .. size : Remote(a, size) = Bytes(a, n) /\ Complete(a, size, n)
    BY <2>1, RemoteReads
  <2>3. /\ last' = [via |-> "remote", addr |-> a, size |-> size, got |-> Bytes(a, n)]
        /\ pages' = pages /\ cache' = cache /\ fresh' = fresh
    BY <1>2, <2>2 DEF ReadRemote, Record
  <2>5. MemRight'
    BY <1>0, <2>1, <2>2, <2>3, ReadRight
  <2> QED
    BY <1>0, <2>1, <2>3, <2>5 DEF MemInv, MemType, CacheType, CacheRight
<1>3. ASSUME NEW a \in 0 .. (Limit - 1), NEW size \in Sizes, ReadCached(a, size) PROVE MemInv'
  <2>1. a \in Nat /\ a < Limit /\ size \in Nat
    BY ReadLeaves, Zenon
  <2>2. CachedRight(a, size)
    BY <1>0, <2>1, CachedReads
  <2>3. /\ last' = [via |-> "cache", addr |-> a, size |-> size, got |-> Cached(a, size).got]
        /\ cache' = IF size > Small THEN cache ELSE Cached(a, size).cache
        /\ pages' = pages /\ fresh' = fresh
    BY <1>3 DEF ReadCached, Record
  <2>4. MemRight'
    BY <2>1, <2>3, CachedReadRight
  <2>5. CacheType(cache') /\ (CacheRight(cache) => CacheRight(cache'))
    BY <1>0, <2>2, <2>3 DEF CachedRight
  <2>6. CacheType(cache)' /\ (CacheRight(cache) => CacheRight(cache)')
    BY <2>3, <2>5 DEF CacheType, CacheRight
  <2>7. last'.addr \in Nat /\ last'.size \in Sizes
    BY <2>1, <2>3
  <2> QED
    BY <1>0, <2>3, <2>4, <2>6, <2>7 DEF MemInv, MemType
<1>4. ASSUME Clear PROVE MemInv'
  <2>1. /\ cache' = [p \in PageNumbers |-> 0] /\ fresh' = TRUE /\ last' = NoRead /\ pages' = pages
    BY <1>0, <1>4 DEF Clear
  <2>2. NumPages - 1 \in PageNumbers
    BY DEF ProcessMemoryAssumption, PageNumbers
  <2>3. MemRight' /\ last'.addr \in Nat /\ last'.size \in Sizes \cup {0}
    BY <2>1, NoReadRightNext
  <2>4. CacheType(cache)' /\ CacheRight(cache)'
    BY <2>1, <2>2 DEF CacheType, CacheRight
  <2> QED
    BY <1>0, <2>1, <2>3, <2>4 DEF MemInv, MemType
<1>5. ASSUME NEW p \in 0 .. (NumPages - 2), Change(p) PROVE MemInv'
  <2>1. /\ fresh' = FALSE /\ last' = NoRead /\ cache' = cache
    BY <1>5 DEF Change
  <2>2. PICK g \in {0, -1, pages[p] + 1} : pages' = [pages EXCEPT ![p] = g]
    BY <1>5, Zenon DEF Change
  <2>3. p \in PageNumbers
    BY DEF ProcessMemoryAssumption, PageNumbers
  <2>4. g \in Int
    BY <1>0, <2>3
  <2>5. pages' \in [PageNumbers -> Int]
    BY <1>0, <2>2, <2>4, Zenon
  <2>6. MemRight' /\ last'.addr \in Nat /\ last'.size \in Sizes \cup {0}
    BY <2>1, NoReadRightNext
  <2> QED
    BY <1>0, <2>1, <2>5, <2>6, Zenon DEF MemInv, MemType, CacheType
<1>6. CASE UNCHANGED vars
  <2>1. pages' = pages /\ cache' = cache /\ fresh' = fresh /\ last' = last
    BY <1>6 DEF vars
  <2>2. CacheTransparent'
    <3>1. SUFFICES ASSUME fresh, last.via = "cache"
                   PROVE  last.got = ProcessVmRead(last.addr, last.size)'
      BY <2>1 DEF CacheTransparent
    <3>2. last.got = ProcessVmRead(last.addr, last.size)
      BY <1>0, <3>1 DEF MemRight, CacheTransparent
    <3>3. last.size \in Nat /\ (last.addr % PageSize) + last.size <= MaxIovecs * PageSize
      <4>1. CASE last.size \in Sizes
        BY <1>0, <4>1, FitsBatch, Zenon
      <4>2. CASE last.size = 0
        <5>1. (last.addr % PageSize) \in 0 .. PageSize - 1
          BY <1>0, PageFacts, Zenon
        <5>2. PageSize \in Nat \ {0} /\ MaxIovecs \in Nat \ {0} /\ 1 * PageSize <= MaxIovecs * PageSize /\ 1 * PageSize = PageSize
          BY Times DEF ProcessMemoryAssumption
        <5>3. MaxIovecs * PageSize \in Nat
          BY <5>2, Times
        <5> DEFINE x == last.addr % PageSize
                   y == MaxIovecs * PageSize
        <5>4. x \in 0 .. PageSize - 1 /\ y \in Nat /\ PageSize <= y
          BY <5>1, <5>2, <5>3
        <5> HIDE DEF x, y
        <5>5. x + 0 <= y
          BY <5>2, <5>4
        <5> QED
          BY <4>2, <5>5 DEF x, y
      <4> QED
        BY <1>0, <4>1, <4>2
    <3>4. ProcessVmRead(last.addr, last.size)' = ProcessVmRead(last.addr, last.size)
      <4>1. \A a \in Nat, size \in Nat : (a % PageSize) + size <= MaxIovecs * PageSize
                 => ProcessVmRead(a, size)' = ProcessVmRead(a, size)
        BY <2>1, VmSame
      <4> QED
        BY <1>0, <2>1, <3>3, <4>1
    <3> QED
      BY <3>2, <3>4
  <2>3. ReadsPrefix' /\ StopsAtHole' /\ ReadsAllThereIs'
    BY <1>0, <2>1 DEF MemRight, ReadsPrefix, StopsAtHole, ReadsAllThereIs
  <2>4. MemType' /\ (fresh' => CacheRight(cache)')
    BY <1>0, <2>1 DEF MemType, CacheType, CacheRight
  <2> QED
    BY <2>2, <2>3, <2>4 DEF MemInv, MemRight
<1> QED
  BY <1>1, <1>2, <1>3, <1>4, <1>5, <1>6 DEF Next

\* Memory.cpp, whatever the page size, the process and the reads are: what a
\* read returns is a part of what was asked for, with no byte behind a hole,
\* and it is never cut short.
THEOREM ReadsCorrect ==
  ASSUME ProcessMemoryAssumption, OneBatch
  PROVE  Spec => [](ReadsPrefix /\ StopsAtHole /\ ReadsAllThereIs)
<1>1. Init => MemInv
  BY InitMemInv
<1>2. MemInv /\ [Next]_vars => MemInv'
  BY NextMemInv
<1>3. MemInv => ReadsPrefix /\ StopsAtHole /\ ReadsAllThereIs
  BY DEF MemInv, MemRight
<1> QED
  BY <1>1, <1>2, <1>3, PTL DEF Spec

\* As long as the process does not change, MemoryCache cannot be told from
\* the memory it caches.
THEOREM CacheCorrect ==
  ASSUME ProcessMemoryAssumption, OneBatch
  PROVE  Spec => []CacheTransparent
<1>1. Init => MemInv
  BY InitMemInv
<1>2. MemInv /\ [Next]_vars => MemInv'
  BY NextMemInv
<1>3. MemInv => CacheTransparent
  BY DEF MemInv, MemRight
<1> QED
  BY <1>1, <1>2, <1>3, PTL DEF Spec

-----------------------------------------------------------------------------
(***************************************************************************)
(* What the memories hold                                                  *)
(***************************************************************************)
ViewInv ==
  /\ view \in [data : Int, size : Int]
  /\ view.data # Views!Null =>
    /\ asked.offset \in Nat /\ asked.size \in 1 .. (ViewLimit - 1) /\ asked.offset < file
    /\ view.data = asked.offset
    /\ view.size = Views!Min2(file, asked.offset + asked.size) - asked.offset
Ranges == [begin : Nat, length : Nat \ {0}, offset : Nat]
EndOf(r) == r.offset + r.length
RangesInv ==
  \/ ranges = <<>>
  \/ \E e, f \in Nat :
       /\ e <= f /\ ranges \in [{e, f} -> Ranges] /\ e = EndOf(ranges[e]) /\ f = EndOf(ranges[f])
       /\ ranges[e].begin + ranges[e].length < ViewLimit /\ ranges[f].begin + ranges[f].length < ViewLimit
Parts == [begin : Nat, length : Nat, offset : Nat]
PartRight(p) == p = Views!Nothing \/ (p \in Parts /\ p.begin + p.length = file)
PartsInv ==
  /\ parts \in Seq(Parts \cup {Views!Nothing})
  /\ \A i \in 1 .. Len(parts) : PartRight(parts[i])
ViewsInv == file \in 0 .. (ViewLimit - 1) /\ ViewInv /\ RangesInv /\ PartsInv

\* ViewLimit as a number
LEMMA ViewConstants ==
  ASSUME Views!MemoryViewsAssumption
  PROVE  /\ PageSize \in Nat \ {0} /\ ViewLimit \in Nat \ {0, 1} /\ Header \in Nat /\ MaxParts \in Nat
         /\ \A f \in FileSizes : f \in 0 .. (ViewLimit - 1)
  BY DEF Views!MemoryViewsAssumption

\* A file mapped from the page of offset is seen from offset on, up to the
\* size given or the end of the file.
LEMMA MapShows ==
  ASSUME Views!MemoryViewsAssumption, file \in 0 .. (ViewLimit - 1), NEW offset \in Nat, offset < file,
         NEW size \in 1 .. (ViewLimit - 1)
  PROVE  Views!Map(offset, size).data = offset /\ Views!Map(offset, size).size = Views!Min2(file, offset + size) - offset
<1> DEFINE r == offset % PageSize
           room == file - (offset - r)
           s == IF size + r < ViewLimit /\ size + r < room THEN size + r ELSE room
<1>0. PageSize \in Nat \ {0} /\ ViewLimit \in Nat \ {0, 1}
  BY ViewConstants
<1>1. Views!Map(offset, size) = [data |-> offset, size |-> s - r]
  BY DEF Views!Map
<1>2. r \in 0 .. PageSize - 1 /\ r <= offset
  <2> DEFINE q == (offset \div PageSize) * PageSize
  <2>1. offset \div PageSize \in Nat /\ r \in 0 .. PageSize - 1 /\ offset = q + r
    BY <1>0, Division, Zenon
  <2>2. q \in Nat
    BY <1>0, <2>1, Times
  <2> HIDE DEF q, r
  <2> QED
    BY <1>0, <2>1, <2>2
<1> HIDE DEF r
<1>3. s - r = Views!Min2(file, offset + size) - offset
  BY <1>0, <1>2 DEF Views!Min2
<1> QED
  BY <1>1, <1>3

\* MemoryFileAtOffset::Init
LEMMA FileInitKeeps ==
  ASSUME Views!MemoryViewsAssumption, ViewsInv, NEW offset \in 0 .. (ViewLimit - 1), NEW size \in 1 .. (ViewLimit - 1),
         Views!FileInit(offset, size)
  PROVE  ViewInv'
<1>0. ViewLimit \in Nat \ {0, 1} /\ file \in 0 .. (ViewLimit - 1) /\ offset \in Nat /\ file' = file
  BY ViewConstants DEF ViewsInv, Views!FileInit
<1>1. asked' = [offset |-> offset, size |-> size] /\ asked'.offset = offset /\ asked'.size = size
  BY DEF Views!FileInit
<1>2. CASE offset >= file
  <2>1. view' = [view EXCEPT !.data = Views!Null]
    BY <1>2 DEF Views!FileInit
  <2>2. view' \in [data : Int, size : Int] /\ view'.data = Views!Null
    BY <2>1 DEF ViewsInv, ViewInv, Views!Null
  <2> QED
    BY <2>1, <2>2 DEF ViewInv
<1>3. CASE ~(offset >= file)
  <2>1. view' = Views!Map(offset, size) /\ offset < file
    BY <1>0, <1>3 DEF Views!FileInit
  <2>2. view'.data = offset /\ view'.size = Views!Min2(file, offset + size) - offset
    BY <1>0, <2>1, MapShows
  <2>3. view' \in [data : Int, size : Int]
    <3>1. Views!Map(offset, size) = [data |-> Views!Map(offset, size).data, size |-> Views!Map(offset, size).size]
      BY DEF Views!Map
    <3> QED
      BY <1>0, <2>1, <2>2, <3>1 DEF Views!Min2
  <2> QED
    BY <1>0, <1>1, <2>1, <2>2, <2>3 DEF ViewInv
<1> QED
  BY <1>2, <1>3

\* MemoryRanges::Insert, as MapInfo::CreateMemory calls it
LEMMA InsertKeeps ==
  ASSUME Views!MemoryViewsAssumption, ViewsInv, Views!InsertMaps
  PROVE  RangesInv'
<1>0. ViewLimit \in Nat \ {0, 1} /\ PageSize \in Nat
  BY ViewConstants DEF ViewsInv
<1>1. PICK first, second \in [begin : {0, PageSize}, length : 1 .. ViewLimit, offset : 0 .. (ViewLimit - 1)] :
        /\ first.begin + first.length < ViewLimit /\ first.offset + first.length < ViewLimit
        /\ second.begin + second.length < ViewLimit /\ second.offset + second.length < ViewLimit
        /\ ranges' = Views!Insert(Views!Insert(<<>>, first), second)
  BY Zenon DEF Views!InsertMaps
<1> DEFINE a == EndOf(first)
           b == EndOf(second)
<1>2. ASSUME NEW r \in [begin : {0, PageSize}, length : 1 .. ViewLimit, offset : 0 .. (ViewLimit - 1)],
             r.offset + r.length < ViewLimit
      PROVE  r \in Ranges /\ EndOf(r) \in Nat /\ (r.offset + r.length) % ViewLimit = EndOf(r)
  <2>1. r \in Ranges /\ r.offset + r.length \in Nat
    BY <1>0, <1>2 DEF Ranges
  <2> QED
    BY <1>0, <1>2, <2>1 DEF EndOf
<1>3. /\ first \in Ranges /\ a \in Nat /\ (first.offset + first.length) % ViewLimit = a
      /\ second \in Ranges /\ b \in Nat /\ (second.offset + second.length) % ViewLimit = b
  BY <1>1, <1>2, Zenon
<1> DEFINE one == Views!Insert(<<>>, first)
<1>4. one \in [{a} -> Ranges] /\ one[a] = first /\ DOMAIN one = {a}
  <2>1. one = [e \in DOMAIN <<>> \union {a} |-> IF e = a THEN first ELSE <<>>[e]]
    BY <1>3 DEF Views!Insert
  <2> HIDE DEF one
  <2> QED
    BY <1>3, <2>1
<1> HIDE DEF one, a, b
<1>5. ranges' = IF b \in {a} THEN one ELSE [e \in {a} \union {b} |-> IF e = b THEN second ELSE one[e]]
  BY <1>1, <1>3, <1>4 DEF Views!Insert, one
<1>6. CASE b = a
  <2>1. ranges' \in [{a, a} -> Ranges] /\ ranges'[a] = first
    BY <1>4, <1>5, <1>6
  <2>2. a <= a /\ a = EndOf(ranges'[a]) /\ ranges'[a].begin + ranges'[a].length < ViewLimit
    BY <1>1, <1>3, <2>1 DEF a
  <2> QED
    BY <1>3, <2>1, <2>2, Zenon DEF RangesInv
<1>7. CASE b # a
  <2>1. ranges' \in [{a, b} -> Ranges] /\ ranges'[a] = first /\ ranges'[b] = second /\ {a, b} = {b, a}
    BY <1>3, <1>4, <1>5, <1>7
  <2>2. a <= b \/ b <= a
    BY <1>3
  <2>3. /\ a = EndOf(ranges'[a]) /\ ranges'[a].begin + ranges'[a].length < ViewLimit
        /\ b = EndOf(ranges'[b]) /\ ranges'[b].begin + ranges'[b].length < ViewLimit
    BY <1>1, <2>1 DEF a, b
  <2> QED
    BY <1>3, <2>1, <2>2, <2>3, Zenon DEF RangesInv
<1> QED
  BY <1>6, <1>7

\* MemoryOffline::Init: what follows the header is all of the rest of the file.
LEMMA OfflineInitKeeps ==
  ASSUME Views!MemoryViewsAssumption, ViewsInv, NEW offset \in 0 .. (PageSize - 1), NEW start \in 0 .. (ViewLimit - 1),
         Views!OfflineInit(offset, start)
  PROVE  PartsInv'
<1> DEFINE v == Views!Map(offset, ViewLimit - 1)
           p == IF offset >= file \/ v.size < Header THEN Views!Nothing
                ELSE [begin |-> offset + Header, length |-> v.size - Header, offset |-> start]
<1>0. /\ ViewLimit \in Nat \ {0, 1} /\ file \in 0 .. (ViewLimit - 1) /\ offset \in Nat /\ file' = file
      /\ PartsInv /\ Header \in Nat /\ PageSize \in Nat
  BY ViewConstants DEF ViewsInv, Views!OfflineInit
<1>1. parts' = Append(parts, p)
  BY DEF Views!OfflineInit
<1>2. p \in Parts \cup {Views!Nothing} /\ PartRight(p)
  <2>1. CASE offset >= file \/ v.size < Header
    BY <2>1 DEF PartRight
  <2>2. CASE ~(offset >= file \/ v.size < Header)
    <3>1. ViewLimit - 1 \in 1 .. (ViewLimit - 1) /\ offset < file
      BY <1>0, <2>2
    <3>2. v.size = Views!Min2(file, offset + (ViewLimit - 1)) - offset
      BY <1>0, <3>1, MapShows
    <3>3. v.size = file - offset
      BY <1>0, <3>1, <3>2 DEF Views!Min2
    <3> HIDE DEF v
    <3>4. v.size - Header \in Nat
      BY <1>0, <2>2, <3>1, <3>3
    <3> DEFINE q == [begin |-> offset + Header, length |-> v.size - Header, offset |-> start]
    <3>5. p = q
      BY <2>2
    <3>6. q \in Parts /\ q.begin = offset + Header /\ q.length = v.size - Header
      BY <1>0, <3>4 DEF Parts
    <3> HIDE DEF q
    <3>7. q.begin + q.length = file
      BY <1>0, <3>3, <3>6
    <3> QED
      BY <3>5, <3>6, <3>7 DEF PartRight
  <2> QED
    BY <2>1, <2>2
<1> HIDE DEF p
<1> DEFINE n == Len(parts)
           S == Parts \cup {Views!Nothing}
<1>3. parts \in Seq(S) /\ n \in Nat /\ \A i \in 1 .. n : PartRight(parts[i])
  BY <1>0 DEF PartsInv
<1>4. /\ parts' \in Seq(S) /\ Len(parts') = n + 1
      /\ \A i \in 1 .. n : parts'[i] = parts[i]
      /\ parts'[n + 1] = p
  BY <1>1, <1>2, <1>3, AppendProperties
<1> HIDE DEF n, S
<1>5. ASSUME NEW i \in 1 .. n + 1 PROVE PartRight(parts'[i])
  <2>1. i \in 1 .. n \/ i = n + 1
    BY <1>3
  <2> QED
    BY <1>2, <1>3, <1>4, <2>1
<1> QED
  BY <1>0, <1>4, <1>5 DEF PartsInv, PartRight, S

(***************************************************************************)
(* What they show                                                          *)
(***************************************************************************)

\* MemoryFileAtOffset::Read
LEMMA FileShows ==
  ASSUME Views!MemoryViewsAssumption, ViewsInv
  PROVE  Views!FileShownFromOffset
<1>0. ViewLimit \in Nat \ {0, 1} /\ file \in 0 .. (ViewLimit - 1)
  BY ViewConstants DEF ViewsInv
<1>1. SUFFICES ASSUME view.data # Views!Null, NEW addr \in 0 .. (ViewLimit - 1), NEW size \in 1 .. (ViewLimit - 1)
               PROVE  LET r == Views!ReadAt(view, addr, size)
                          end == Views!Min2(file, asked.offset + asked.size)
                      IN  IF asked.offset + addr >= end THEN r = Views!Nothing
                          ELSE r = [from |-> asked.offset + addr, len |-> Views!Min2(size, end - asked.offset - addr)]
  BY Zenon DEF Views!FileShownFromOffset
<1> DEFINE end == Views!Min2(file, asked.offset + asked.size)
<1>2. /\ asked.offset \in Nat /\ asked.size \in Nat /\ view.data = asked.offset
      /\ view.size = end - asked.offset
  BY <1>0, <1>1 DEF ViewsInv, ViewInv
<1>3. end \in Int
  BY <1>0, <1>2 DEF Views!Min2
<1> HIDE DEF end
<1>4. addr >= view.size <=> asked.offset + addr >= end
  BY <1>0, <1>2, <1>3
<1>5. Views!Min2(view.size - addr, size) = Views!Min2(size, end - asked.offset - addr)
  BY <1>0, <1>2, <1>3 DEF Views!Min2
<1>6. IF asked.offset + addr >= end THEN Views!ReadAt(view, addr, size) = Views!Nothing
      ELSE Views!ReadAt(view, addr, size) = [from |-> asked.offset + addr, len |-> Views!Min2(size, end - asked.offset - addr)]
  BY <1>2, <1>4, <1>5 DEF Views!ReadAt
<1> QED
  BY <1>6 DEF end

\* The least of a set of numbers
LEMMA LeastIs ==
  ASSUME NEW T \in SUBSET Nat, NEW x \in T, \A y \in T : x <= y
  PROVE  (CHOOSE e \in T : \A f \in T : e <= f) = x
<1> DEFINE c == CHOOSE e \in T : \A f \in T : e <= f
<1>1. c \in T /\ \A f \in T : c <= f
  BY Zenon
<1> HIDE DEF c
<1>2. c = x
  BY <1>1
<1> QED
  BY <1>2 DEF c

\* One byte of a range
LEMMA RangeShows ==
  ASSUME Views!MemoryViewsAssumption, NEW r \in Ranges, r.begin + r.length < ViewLimit, NEW addr \in Nat, addr < EndOf(r)
  PROVE  /\ addr < r.offset => Views!RangeRead(r, addr, 1) = Views!Nothing
         /\ addr >= r.offset => Views!RangeRead(r, addr, 1) = [from |-> r.begin + addr - r.offset, len |-> 1]
<1>0. ViewLimit \in Nat /\ r.begin \in Nat /\ r.length \in Nat /\ r.offset \in Nat /\ addr < r.offset + r.length
  BY ViewConstants DEF Ranges, EndOf
<1>1. CASE addr < r.offset
  BY <1>0, <1>1 DEF Views!RangeRead
<1>2. CASE addr >= r.offset
  <2>1. ~(addr < r.offset \/ addr - r.offset >= r.length \/ addr - r.offset + r.begin >= ViewLimit)
    BY <1>0, <1>2
  <2>2. Views!Min2(1, r.length - (addr - r.offset)) = 1
    BY <1>0, <1>2 DEF Views!Min2
  <2>3. addr - r.offset + r.begin = r.begin + addr - r.offset
    BY <1>0
  <2>4. Views!RangeRead(r, addr, 1) = [from |-> r.begin + addr - r.offset, len |-> 1]
    BY <2>1, <2>2, <2>3 DEF Views!RangeRead
  <2> QED
    BY <1>0, <1>2, <2>4
<1> QED
  BY <1>0, <1>1, <1>2

\* MemoryRanges::Read: the range with the least end above the address
LEMMA RangesShow ==
  ASSUME Views!MemoryViewsAssumption, ViewsInv
  PROVE  Views!RangesCover
<1>0. ViewLimit \in Nat \ {0, 1} /\ RangesInv
  BY ViewConstants DEF ViewsInv
<1>1. SUFFICES ASSUME NEW addr \in 0 .. (ViewLimit - 1)
               PROVE  LET holds == {e \in DOMAIN ranges : ranges[e].offset <= addr /\ addr < e}
                          in_order == \A e, f \in DOMAIN ranges : e < f => ranges[e].offset <= ranges[f].offset
                          r == Views!RangesRead(addr, 1)
                      IN  /\ \/ r = Views!Nothing
                             \/ \E e \in holds : r = [from |-> ranges[e].begin + addr - ranges[e].offset, len |-> 1]
                          /\ in_order /\ holds # {} => r # Views!Nothing
  BY Zenon DEF Views!RangesCover
<1> DEFINE holds == {e \in DOMAIN ranges : ranges[e].offset <= addr /\ addr < e}
           r == Views!RangesRead(addr, 1)
           above == Views!UpperBound(addr)
           low == CHOOSE e \in above : \A f \in above : e <= f
<1>2. r = IF above = {} THEN Views!Nothing ELSE Views!RangeRead(ranges[low], addr, 1)
  BY Zenon DEF Views!RangesRead
<1>3. above = {e \in DOMAIN ranges : e > addr}
  BY DEF Views!UpperBound
<1>4. addr \in Nat
  BY <1>0
<1> DEFINE in_order == \A e, f \in DOMAIN ranges : e < f => ranges[e].offset <= ranges[f].offset
<1>5. SUFFICES /\ r = Views!Nothing \/ \E e \in holds : r = [from |-> ranges[e].begin + addr - ranges[e].offset, len |-> 1]
               /\ in_order /\ holds # {} => r # Views!Nothing
  BY Zenon
<1> HIDE DEF above, r
<1>6. ASSUME NEW d \in DOMAIN ranges, d \in Nat, d > addr, \A e \in DOMAIN ranges : e \in Nat,
             \A e \in DOMAIN ranges : e > addr => d <= e,
             ranges[d] \in Ranges, d = EndOf(ranges[d]), ranges[d].begin + ranges[d].length < ViewLimit
      PROVE  /\ addr < ranges[d].offset => r = Views!Nothing
             /\ addr >= ranges[d].offset
                  => d \in holds /\ r = [from |-> ranges[d].begin + addr - ranges[d].offset, len |-> 1]
  <2>1. d \in above /\ above \in SUBSET Nat /\ \A f \in above : d <= f
    BY <1>3, <1>6
  <2>2. low = d
    BY <2>1, LeastIs, Zenon
  <2>3. r = Views!RangeRead(ranges[d], addr, 1)
    BY <1>2, <2>1, <2>2, Zenon
  <2>4. addr < EndOf(ranges[d])
    BY <1>4, <1>6
  <2>5. ranges[d].offset \in Nat
    BY <1>6 DEF Ranges
  <2>6. addr >= ranges[d].offset => d \in holds
    BY <1>4, <1>6, <2>5
  <2> QED
    BY <1>4, <1>6, <2>3, <2>4, <2>6, RangeShows, Zenon
<1>7. CASE \A e \in DOMAIN ranges : ~(e > addr)
  <2>1. above = {} /\ r = Views!Nothing
    BY <1>2, <1>3, <1>7
  <2>2. ASSUME NEW e \in holds PROVE e \in DOMAIN ranges /\ addr < e
    BY <2>2
  <2>3. ASSUME NEW e \in DOMAIN ranges PROVE e \in Nat
    BY <1>0 DEF RangesInv
  <2>4. holds = {}
    <3> HIDE DEF holds
    <3>1. ASSUME NEW e \in holds PROVE FALSE
      BY <1>4, <1>7, <2>2, <2>3
    <3> QED
      BY <3>1
  <2> HIDE DEF holds, in_order
  <2> QED
    BY <2>1, <2>4
<1>8. CASE ~\A e \in DOMAIN ranges : ~(e > addr)
  <2>1. PICK x \in DOMAIN ranges : x > addr
    BY <1>8
  <2>2. ranges # <<>>
    BY <2>1
  <2>3. PICK d \in Nat, f \in Nat :
       /\ d <= f /\ ranges \in [{d, f} -> Ranges] /\ d = EndOf(ranges[d]) /\ f = EndOf(ranges[f])
       /\ ranges[d].begin + ranges[d].length < ViewLimit /\ ranges[f].begin + ranges[f].length < ViewLimit
    BY <1>0, <2>2, Zenon DEF RangesInv
  <2>4. /\ DOMAIN ranges = {d, f} /\ ranges[d] \in Ranges /\ ranges[f] \in Ranges
        /\ ranges[d].offset \in Nat /\ ranges[f].offset \in Nat
    BY <2>3 DEF Ranges
  <2>5. PICK l \in {d, f} : l > addr /\ \A e \in {d, f} : e > addr => l <= e
    <3>1. CASE d > addr
      BY <1>4, <2>3, <3>1
    <3>2. CASE ~(d > addr)
      BY <1>4, <2>1, <2>3, <2>4, <3>2
    <3> QED
      BY <3>1, <3>2
  <2>6. /\ addr < ranges[l].offset => r = Views!Nothing
        /\ addr >= ranges[l].offset
             => l \in holds /\ r = [from |-> ranges[l].begin + addr - ranges[l].offset, len |-> 1]
    <3> HIDE DEF holds
    <3> QED
      BY <1>6, <2>3, <2>4, <2>5
  <2>7. ASSUME in_order, NEW e \in holds PROVE addr >= ranges[l].offset
    BY <1>4, <2>3, <2>4, <2>5, <2>7
  <2>8. ranges[l].offset \in Nat
    BY <2>4, <2>5
  <2> HIDE DEF holds, in_order
  <2>9. ASSUME NEW x1, NEW x2 PROVE [from |-> x1, len |-> 1] # Views!Nothing
    BY DEF Views!Nothing
  <2> QED
    BY <1>4, <2>6, <2>7, <2>8, <2>9
<1> QED
  BY <1>7, <1>8

\* A part of saved memory
LEMMA PartShows ==
  ASSUME Views!MemoryViewsAssumption, file \in 0 .. (ViewLimit - 1), NEW p \in Parts, p.begin + p.length = file,
         NEW addr \in Nat, NEW size \in Nat \ {0}, NEW r, r = Views!OfflineRead(p, addr, size)
  PROVE  /\ p # Views!Nothing
         /\ r.len # 0 <=> addr \in p.offset .. (p.offset + file - p.begin - 1)
         /\ r.len # 0 => r.from = p.begin + addr - p.offset
         /\ r.len \in Nat /\ r.from \in Nat /\ r.from + r.len <= file
<1>0. /\ ViewLimit \in Nat /\ p.begin \in Nat /\ p.length \in Nat /\ p.offset \in Nat
  BY ViewConstants DEF Parts
<1>1. p # Views!Nothing
  <2>1. "begin" \in DOMAIN p /\ "begin" \notin DOMAIN Views!Nothing
    BY DEF Parts, Views!Nothing
  <2> QED
    BY <2>1
<1>2. r = Views!RangeRead(p, addr, size)
  BY <1>1 DEF Views!OfflineRead
<1> DEFINE k == addr - p.offset
<1>3. CASE addr < p.offset \/ k >= p.length
  <2>1. r = Views!Nothing
    BY <1>2, <1>3 DEF Views!RangeRead
  <2>2. r.len = 0 /\ r.from = 0
    BY <2>1 DEF Views!Nothing
  <2>3. addr \notin p.offset .. (p.offset + file - p.begin - 1)
    BY <1>0, <1>3
  <2> QED
    BY <1>0, <1>1, <2>2, <2>3
<1>4. CASE ~(addr < p.offset \/ k >= p.length)
  <2>1. k \in Nat /\ k < p.length
    BY <1>0, <1>4
  <2>2. ~(k + p.begin >= ViewLimit)
    BY <1>0, <2>1
  <2>3. r = [from |-> k + p.begin, len |-> Views!Min2(size, p.length - k)]
    BY <1>2, <1>4, <2>2 DEF Views!RangeRead
  <2>4. r.from = k + p.begin /\ r.len = Views!Min2(size, p.length - k)
    BY <2>3
  <2>5. r.len \in Nat \ {0} /\ r.len <= p.length - k
    BY <1>0, <2>1, <2>4 DEF Views!Min2
  <2>6. addr \in p.offset .. (p.offset + file - p.begin - 1)
    BY <1>0, <2>1
  <2>7. r.from = p.begin + addr - p.offset
    BY <1>0, <2>4
  <2>8. r.from + r.len <= file /\ r.from \in Nat
    BY <1>0, <2>1, <2>4, <2>5
  <2> QED
    BY <1>1, <2>5, <2>6, <2>7, <2>8
<1> QED
  BY <1>3, <1>4

\* MemoryOfflineParts::Read: the first part that has the address
LEMMA PartsShow ==
  ASSUME Views!MemoryViewsAssumption, ViewsInv
  PROVE  Views!PartsShowSaved
<1>0. ViewLimit \in Nat \ {0, 1} /\ file \in 0 .. (ViewLimit - 1) /\ PartsInv
  BY ViewConstants DEF ViewsInv
<1>1. SUFFICES ASSUME NEW addr \in 0 .. (ViewLimit - 1), NEW size \in {1, ViewLimit - 1}
               PROVE  LET r == Views!PartsRead(addr, size)
                          holds == {i \in DOMAIN parts : parts[i] # Views!Nothing
                                      /\ addr \in parts[i].offset .. (parts[i].offset + file - parts[i].begin - 1)}
                      IN  /\ r.len > 0 <=> holds # {}
                          /\ r.from + r.len <= file
                          /\ r.len > 0 => \E i \in holds : /\ \A j \in holds : i <= j
                                                         /\ r.from = parts[i].begin + addr - parts[i].offset
  BY Zenon DEF Views!PartsShowSaved
<1> DEFINE r == Views!PartsRead(addr, size)
           Holds(i) == /\ parts[i] # Views!Nothing
                       /\ addr \in parts[i].offset .. (parts[i].offset + file - parts[i].begin - 1)
           holds == {i \in DOMAIN parts : Holds(i)}
           hits == {i \in DOMAIN parts : Views!OfflineRead(parts[i], addr, size).len # 0}
           low == CHOOSE i \in hits : \A j \in hits : i <= j
<1>2. SUFFICES /\ r.len > 0 <=> holds # {}
               /\ r.from + r.len <= file
               /\ r.len > 0 => \E i \in holds : /\ \A j \in holds : i <= j
                                              /\ r.from = parts[i].begin + addr - parts[i].offset
  BY Zenon
<1>3. r = IF hits = {} THEN Views!Nothing ELSE Views!OfflineRead(parts[low], addr, size)
  BY Zenon DEF Views!PartsRead
<1>4. addr \in Nat /\ size \in Nat \ {0} /\ Views!Nothing.len = 0 /\ Views!Nothing.from = 0
  BY <1>0 DEF Views!Nothing
<1>5. DOMAIN parts \in SUBSET Nat /\ \A i \in DOMAIN parts : PartRight(parts[i])
  BY <1>0 DEF PartsInv
<1>6. ASSUME NEW i \in DOMAIN parts
      PROVE  LET q == Views!OfflineRead(parts[i], addr, size)
             IN  /\ q.len # 0 <=> Holds(i)
                 /\ q.len # 0 => q.from = parts[i].begin + addr - parts[i].offset
                 /\ q.len \in Nat /\ q.from \in Nat /\ q.from + q.len <= file
  <2> DEFINE q == Views!OfflineRead(parts[i], addr, size)
  <2>1. CASE parts[i] = Views!Nothing
    <3>1. q = Views!Nothing
      BY <2>1 DEF Views!OfflineRead
    <3>2. q.len = 0 /\ q.from = 0
      BY <1>4, <3>1, Zenon
    <3>3. ~Holds(i)
      BY <2>1
    <3> HIDE DEF q, Holds
    <3>4. q.len \in Nat /\ q.from \in Nat /\ q.from + q.len <= file
      BY <1>0, <3>2
    <3> QED
      BY <3>2, <3>3, <3>4 DEF q
  <2>2. CASE parts[i] # Views!Nothing
    <3>1. parts[i] \in Parts /\ parts[i].begin + parts[i].length = file
      BY <1>5, <2>2 DEF PartRight
    <3>2. /\ q.len # 0 <=> addr \in parts[i].offset .. (parts[i].offset + file - parts[i].begin - 1)
          /\ q.len # 0 => q.from = parts[i].begin + addr - parts[i].offset
          /\ q.len \in Nat /\ q.from \in Nat /\ q.from + q.len <= file
      BY <1>0, <1>4, <3>1, PartShows
    <3> QED
      BY <2>2, <3>2
  <2> QED
    BY <2>1, <2>2
<1> HIDE DEF Holds
<1>7. hits = holds
  BY <1>6
<1> HIDE DEF r
<1>8. CASE hits = {}
  <2>1. r.len = 0 /\ r.from = 0
    BY <1>3, <1>4, <1>8, Zenon
  <2> HIDE DEF hits, holds
  <2> QED
    BY <1>0, <1>7, <1>8, <2>1
<1>9. CASE hits # {}
  <2>1. hits \in SUBSET Nat
    BY <1>5
  <2>2. PICK d \in hits : \A j \in hits : d <= j
    BY <1>9, <2>1, NatMin, Zenon
  <2>3. low = d
    <3> HIDE DEF hits
    <3> QED
      BY <2>1, <2>2, LeastIs, Zenon
  <2>4. r = Views!OfflineRead(parts[d], addr, size) /\ d \in DOMAIN parts /\ r.len # 0
    <3>1. d \in DOMAIN parts /\ Views!OfflineRead(parts[d], addr, size).len # 0
      BY <2>2
    <3> QED
      BY <1>3, <1>9, <2>3, <3>1, Zenon
  <2>5. r.from = parts[d].begin + addr - parts[d].offset /\ r.len \in Nat /\ r.from + r.len <= file
    BY <1>6, <2>4, Zenon
  <2> HIDE DEF hits, holds
  <2>6. d \in holds /\ \A j \in holds : d <= j
    BY <1>7, <2>2
  <2>7. r.len > 0
    BY <2>4, <2>5
  <2> QED
    BY <2>5, <2>6, <2>7, Zenon
<1> QED
  BY <1>8, <1>9

\* The turns of the loop of ReadString, as a function of the bytes still to read
Spells(h, addr, max, m) ==
  h = [n \in 0 .. m |-> IF n = 0 THEN -1 ELSE Views!ReadChar(addr, max - n, h[n - 1])]

\* One turn more
LEMMA SpellsNext ==
  ASSUME NEW addr, NEW max, NEW m \in Nat, NEW h, Spells(h, addr, max, m)
  PROVE  \E g : Spells(g, addr, max, m + 1)
<1> DEFINE g == [n \in 0 .. m + 1 |-> IF n = m + 1 THEN Views!ReadChar(addr, max - n, h[m]) ELSE h[n]]
<1>1. ASSUME NEW n \in 0 .. m + 1
      PROVE  g[n] = IF n = 0 THEN -1 ELSE Views!ReadChar(addr, max - n, g[n - 1])
  <2>1. CASE n = m + 1
    BY <2>1
  <2>2. CASE n # m + 1
    <3>1. n \in 0 .. m /\ g[n] = h[n]
      BY <2>2
    <3>2. h[n] = IF n = 0 THEN -1 ELSE Views!ReadChar(addr, max - n, h[n - 1])
      BY <3>1 DEF Spells
    <3>3. n # 0 => g[n - 1] = h[n - 1]
      BY <3>1
    <3> QED
      BY <3>1, <3>2, <3>3
  <2> QED
    BY <2>1, <2>2
<1>2. g = [n \in 0 .. m + 1 |-> g[n]]
  OBVIOUS
<1> HIDE DEF g
<1>3. g = [n \in 0 .. m + 1 |-> IF n = 0 THEN -1 ELSE Views!ReadChar(addr, max - n, g[n - 1])]
  BY <1>1, <1>2, Zenon
<1> QED
  BY <1>3, Zenon DEF Spells

\* The function exists, for any number of turns.
LEMMA SpellsExist ==
  ASSUME NEW addr, NEW max
  PROVE  \A m \in Nat : \E h : Spells(h, addr, max, m)
<1> DEFINE S == {m \in Nat : \E h : Spells(h, addr, max, m)}
<1>1. 0 \in S
  <2> DEFINE g == [n \in 0 .. 0 |-> -1]
  <2>1. g = [n \in 0 .. 0 |-> IF n = 0 THEN -1 ELSE Views!ReadChar(addr, max - n, g[n - 1])]
    OBVIOUS
  <2> HIDE DEF g
  <2>2. Spells(g, addr, max, 0)
    BY <2>1, Zenon DEF Spells
  <2> QED
    BY <2>2
<1>2. \A m \in Nat : m \in S => m + 1 \in S
  BY SpellsNext
<1> HIDE DEF S
<1>3. \A m \in Nat : m \in S
  BY <1>1, <1>2, Induct, Zenon
<1> QED
  BY <1>3 DEF S

\* The positions of a '\0' among the last n of max bytes, and the first of them
Ends(addr, max, n) ==
  {k \in (max - n) .. (max - 1) : addr + k < view.size /\ view.data + addr + k \in Nuls}
FirstEnd(addr, max, n, v) ==
  IF Ends(addr, max, n) = {} THEN v = -1
  ELSE v \in Ends(addr, max, n) /\ \A k \in Ends(addr, max, n) : v <= k

\* A turn finds the '\0' that it reads or leaves it to the next one.
LEMMA ReadCharFinds ==
  ASSUME view \in [data : Int, size : Int], NEW addr \in Nat, NEW max \in Nat, NEW n \in Nat, n + 1 <= max,
         NEW v, FirstEnd(addr, max, n, v)
  PROVE  FirstEnd(addr, max, n + 1, Views!ReadChar(addr, max - (n + 1), v))
<1> DEFINE d == max - (n + 1)
           b == Views!ReadAt(view, addr + d, 1)
<1>0. view.size \in Int /\ view.data \in Int /\ d \in Nat /\ max - n = d + 1 /\ d <= max - 1
  OBVIOUS
<1>1. Views!ReadChar(addr, d, v) = IF b.len < 1 THEN -1 ELSE IF b.from \in Nuls THEN d ELSE v
  BY Zenon DEF Views!ReadChar
<1> HIDE DEF d
<1>2. Ends(addr, max, n + 1) = {k \in d .. (max - 1) : addr + k < view.size /\ view.data + addr + k \in Nuls}
  BY DEF Ends, d
<1>3. Ends(addr, max, n) = {k \in (d + 1) .. (max - 1) : addr + k < view.size /\ view.data + addr + k \in Nuls}
  BY <1>0 DEF Ends
<1>4. CASE addr + d >= view.size
  <2>1. b.len < 1
    BY <1>4 DEF Views!ReadAt, Views!Nothing
  <2>2. Ends(addr, max, n + 1) = {}
    BY <1>0, <1>2, <1>4
  <2> HIDE DEF b
  <2> QED
    BY <1>1, <2>1, <2>2 DEF FirstEnd, d
<1>5. CASE ~(addr + d >= view.size)
  <2>1. b = [from |-> view.data + (addr + d), len |-> Views!Min2(view.size - (addr + d), 1)]
    BY <1>5 DEF Views!ReadAt
  <2>2. b.len = 1 /\ b.from = view.data + addr + d
    BY <1>0, <1>5, <2>1 DEF Views!Min2
  <2> HIDE DEF b
  <2>3. CASE b.from \in Nuls
    <3>1. Views!ReadChar(addr, d, v) = d
      BY <1>1, <2>2, <2>3
    <3>2. d \in Ends(addr, max, n + 1)
      BY <1>0, <1>2, <1>5, <2>2, <2>3
    <3>3. \A k \in Ends(addr, max, n + 1) : d <= k
      BY <1>0, <1>2
    <3> QED
      BY <3>1, <3>2, <3>3 DEF FirstEnd, d
  <2>4. CASE b.from \notin Nuls
    <3>1. Views!ReadChar(addr, d, v) = v
      BY <1>1, <2>2, <2>4
    <3>2. Ends(addr, max, n + 1) = Ends(addr, max, n)
      <4>1. ASSUME NEW k \in d .. (max - 1), view.data + addr + k \in Nuls PROVE k \in (d + 1) .. (max - 1)
        BY <1>0, <2>2, <2>4, <4>1
      <4>2. \A k \in (d + 1) .. (max - 1) : k \in d .. (max - 1)
        BY <1>0
      <4> QED
        BY <1>2, <1>3, <4>1, <4>2
    <3> QED
      BY <3>1, <3>2 DEF FirstEnd, d
  <2> QED
    BY <2>3, <2>4
<1> QED
  BY <1>4, <1>5

\* Memory::ReadString
LEMMA StringsEnd ==
  ASSUME Views!MemoryViewsAssumption, ViewsInv
  PROVE  Views!StringsEndAtNul
<1>0. /\ ViewLimit \in Nat /\ PageSize \in Nat /\ view \in [data : Int, size : Int]
      /\ view.size \in Int /\ view.data \in Int
  BY ViewConstants DEF ViewsInv, ViewInv
<1>1. SUFFICES ASSUME NEW addr \in 0 .. (ViewLimit - 1), NEW max \in 0 .. PageSize
               PROVE  LET ends == {n \in 0 .. (max - 1) : addr + n < view.size /\ view.data + addr + n \in Nuls}
                      IN  Views!ReadString(addr, max) =
                            IF ends = {} THEN -1 ELSE CHOOSE n \in ends : \A m \in ends : n <= m
  BY Zenon DEF Views!StringsEndAtNul
<1>2. addr \in Nat /\ max \in Nat /\ max - max = 0
  BY <1>0
<1> DEFINE loop == CHOOSE h : h = [n \in 0 .. max |-> IF n = 0 THEN -1 ELSE Views!ReadChar(addr, max - n, h[n - 1])]
           ends == Ends(addr, max, max)
<1>3. loop = [n \in 0 .. max |-> IF n = 0 THEN -1 ELSE Views!ReadChar(addr, max - n, loop[n - 1])]
  <2>1. PICK g : Spells(g, addr, max, max)
    BY <1>2, SpellsExist
  <2>2. \E h : h = [n \in 0 .. max |-> IF n = 0 THEN -1 ELSE Views!ReadChar(addr, max - n, h[n - 1])]
    BY <2>1, Zenon DEF Spells
  <2> QED
    BY <2>2, Zenon
<1>4. Views!ReadString(addr, max) = loop[max]
  BY Zenon DEF Views!ReadString, Views!ReadStringUpTo
<1> HIDE DEF loop
<1>5. \A n \in 0 .. max : loop[n] = IF n = 0 THEN -1 ELSE Views!ReadChar(addr, max - n, loop[n - 1])
  BY <1>3
<1> DEFINE S == {n \in Nat : n <= max => FirstEnd(addr, max, n, loop[n])}
<1>6. 0 \in S
  <2>1. Ends(addr, max, 0) = {}
    BY <1>2 DEF Ends
  <2>2. loop[0] = -1
    BY <1>2, <1>5
  <2> QED
    BY <2>1, <2>2 DEF FirstEnd
<1>7. ASSUME NEW n \in Nat, n \in S PROVE n + 1 \in S
  <2>1. CASE n + 1 <= max
    <3>1. loop[n + 1] = Views!ReadChar(addr, max - (n + 1), loop[n]) /\ FirstEnd(addr, max, n, loop[n])
      BY <1>2, <1>5, <1>7, <2>1
    <3>2. FirstEnd(addr, max, n + 1, loop[n + 1])
      BY <1>0, <1>2, <2>1, <3>1, ReadCharFinds
    <3> QED
      BY <3>2
  <2>2. CASE ~(n + 1 <= max)
    BY <2>2
  <2> QED
    BY <2>1, <2>2
<1> HIDE DEF S
<1>8. \A n \in Nat : n \in S
  BY <1>6, <1>7, Induct, Zenon
<1>9. FirstEnd(addr, max, max, loop[max])
  BY <1>2, <1>8 DEF S
<1>10. ends = {n \in 0 .. (max - 1) : addr + n < view.size /\ view.data + addr + n \in Nuls} /\ ends \in SUBSET Nat
  BY <1>2 DEF Ends
<1> HIDE DEF ends
<1>11. Views!ReadString(addr, max) = IF ends = {} THEN -1 ELSE CHOOSE n \in ends : \A m \in ends : n <= m
  <2>1. CASE ends = {}
    BY <1>4, <1>9, <2>1 DEF FirstEnd, ends
  <2>2. CASE ends # {}
    <3>1. loop[max] \in ends /\ \A k \in ends : loop[max] <= k
      BY <1>9, <2>2 DEF FirstEnd, ends
    <3>2. (CHOOSE n \in ends : \A m \in ends : n <= m) = loop[max]
      BY <1>10, <3>1, LeastIs, Zenon
    <3> QED
      BY <1>4, <2>2, <3>2, Zenon
  <2> QED
    BY <2>1, <2>2
<1> QED
  BY <1>10, <1>11, Zenon

\* Every step keeps what the memories hold.
LEMMA NextViewsInv ==
  ASSUME Views!MemoryViewsAssumption, ViewsInv, [Views!Next]_(Views!vars)
  PROVE  ViewsInv'
<1>0. file \in 0 .. (ViewLimit - 1) /\ ViewInv /\ RangesInv /\ PartsInv
  BY DEF ViewsInv
<1>1. ASSUME NEW offset \in 0 .. (ViewLimit - 1), NEW size \in 1 .. (ViewLimit - 1), Views!FileInit(offset, size)
      PROVE  ViewsInv'
  <2>1. file' = file /\ ranges' = ranges /\ parts' = parts
    BY <1>1 DEF Views!FileInit
  <2>2. ViewInv'
    BY <1>1, FileInitKeeps
  <2> QED
    BY <1>0, <2>1, <2>2, Zenon DEF ViewsInv, RangesInv, PartsInv, PartRight
<1>2. ASSUME Views!InsertMaps PROVE ViewsInv'
  <2>1. file' = file /\ view' = view /\ asked' = asked /\ parts' = parts
    BY <1>2 DEF Views!InsertMaps
  <2>2. RangesInv'
    BY <1>2, InsertKeeps
  <2> QED
    BY <1>0, <2>1, <2>2 DEF ViewsInv, ViewInv, PartsInv, PartRight
<1>3. ASSUME NEW offset \in 0 .. (PageSize - 1), NEW start \in 0 .. (ViewLimit - 1), Views!OfflineInit(offset, start)
      PROVE  ViewsInv'
  <2>1. file' = file /\ view' = view /\ asked' = asked /\ ranges' = ranges
    BY <1>3 DEF Views!OfflineInit
  <2>2. PartsInv'
    BY <1>3, OfflineInitKeeps
  <2> QED
    BY <1>0, <2>1, <2>2, Zenon DEF ViewsInv, ViewInv, RangesInv
<1>4. CASE UNCHANGED Views!vars
  BY <1>0, <1>4, Zenon DEF Views!vars, ViewsInv, ViewInv, RangesInv, PartsInv, PartRight
<1> QED
  BY <1>1, <1>2, <1>3, <1>4 DEF Views!Next

\* The memories of Memory.cpp that show a part of something else, for any
\* file, page size, ranges and saved memory: a file is shown from its offset and
\* saved memory from its start, no further than they go; a byte of two ranges is
\* never that of another address, and is there unless the second range ends
\* before the first; and a string ends at its first '\0'.
THEOREM ViewsCorrect ==
  ASSUME Views!MemoryViewsAssumption
  PROVE  Views!Spec => [](Views!FileShownFromOffset /\ Views!RangesCover /\ Views!PartsShowSaved /\ Views!StringsEndAtNul)
<1>1. Views!Init => ViewsInv
  <2>1. SUFFICES ASSUME Views!Init PROVE ViewsInv
    OBVIOUS
  <2>2. file \in 0 .. (ViewLimit - 1)
    BY <2>1, ViewConstants DEF Views!Init
  <2>3. ViewInv
    BY <2>1 DEF Views!Init, ViewInv, Views!Null
  <2>4. RangesInv
    BY <2>1 DEF Views!Init, RangesInv
  <2>5. PartsInv
    BY <2>1 DEF Views!Init, PartsInv
  <2> QED
    BY <2>2, <2>3, <2>4, <2>5 DEF ViewsInv
<1>2. ViewsInv /\ [Views!Next]_(Views!vars) => ViewsInv'
  BY NextViewsInv
<1>3. ViewsInv => Views!FileShownFromOffset /\ Views!RangesCover /\ Views!PartsShowSaved /\ Views!StringsEndAtNul
  BY FileShows, RangesShow, PartsShow, StringsEnd
<1> QED
  BY <1>1, <1>2, <1>3, PTL DEF Views!Spec
=============================================================================
