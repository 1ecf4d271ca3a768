--------------------------- MODULE UserHeapProofs ---------------------------
(***************************************************************************)
(* For requests of whole pages, in any number and order: the blocks that   *)
(* malloc hands out are disjoint, its arrays, the kernel's page file and   *)
(* the blocks agree, and every block goes to the best hole.                *)
(***************************************************************************)
EXTENDS UserHeap, ListProofs

WholePages == \A size \in Sizes : size % PAGE_SIZE = 0

EntryType == [address : Int, numOfPages : Int, changed : BOOLEAN]

-----------------------------------------------------------------------------
(* Pages *)

\* An address that is a multiple of the page size.
LEMMA PageAddress ==
  ASSUME NEW a \in Int
  PROVE  a * PAGE_SIZE \in Int /\ (a * PAGE_SIZE) \div PAGE_SIZE = a
BY HeapConstants, SMT

\* Such addresses compare as their page numbers do.
LEMMA PagesCompare ==
  ASSUME NEW a \in Int, NEW b \in Int
  PROVE  /\ a <= b <=> a * PAGE_SIZE <= b * PAGE_SIZE
         /\ a = b <=> a * PAGE_SIZE = b * PAGE_SIZE
BY HeapConstants, SMT

LEMMA PagesAdd ==
  ASSUME NEW a \in Int, NEW b \in Int
  PROVE  /\ a * PAGE_SIZE + b * PAGE_SIZE = (a + b) * PAGE_SIZE
         /\ a * PAGE_SIZE - b * PAGE_SIZE = (a - b) * PAGE_SIZE
BY HeapConstants, SMT

\* The number of pages that malloc and the kernel compute for whole pages.
LEMMA PagesOfSize ==
  ASSUME WholePages, NEW size \in Sizes
  PROVE  /\ NumPages(size) \in Nat \ {0}
         /\ size = NumPages(size) * PAGE_SIZE
<1>1. PAGE_SIZE \in Nat \ {0} /\ size \in Nat \ {0} /\ size % PAGE_SIZE = 0
  BY HeapConstants DEF WholePages
<1>2. PICK n \in Int : size = n * PAGE_SIZE
  <2>1. size = (size \div PAGE_SIZE) * PAGE_SIZE + (size % PAGE_SIZE) /\ size \div PAGE_SIZE \in Int
    BY <1>1
  <2> QED BY <2>1, <1>1
<1>3. (size + PAGE_SIZE - 1) \div PAGE_SIZE = n
  BY <1>1, <1>2
<1>4. n > 0
  BY <1>1, <1>2
<1> QED BY <1>2, <1>3, <1>4 DEF NumPages

\* The pages of a block of n pages at page a.
LEMMA PagesOfBlock ==
  ASSUME NEW a \in Int, NEW n \in Nat
  PROVE  PagesAt(a * PAGE_SIZE, n * PAGE_SIZE) = a..(a + n - 1)
<1>1. PAGE_SIZE \in Nat \ {0}
  BY HeapConstants
<1>2. (n * PAGE_SIZE + PAGE_SIZE - 1) \div PAGE_SIZE = n
  BY <1>1
<1>3. (a * PAGE_SIZE) \div PAGE_SIZE = a
  BY PageAddress
<1> QED BY <1>2, <1>3 DEF PagesAt, PagesFrom, NumPages

\* The page file grants no more pages than the block has.
LEMMA GrantedPages ==
  ASSUME WholePages, NEW size \in Sizes, NEW room \in Rooms
  PROVE  Granted(size, room) \in Nat /\ Granted(size, room) <= NumPages(size)
<1>1. NumPages(size) \in Nat /\ room \in Nat
  BY HeapConstants, PagesOfSize
<1> QED BY <1>1 DEF Granted

-----------------------------------------------------------------------------
(* Sums *)

\* PagesUpTo is the sum it is written as.
LEMMA SumDefined ==
  ASSUME NEW es \in Seq(EntryType)
  PROVE  /\ PagesUpTo(es) \in [0..Len(es) -> Int]
         /\ PagesUpTo(es)[0] = 0
         /\ \A k \in 1..Len(es) : PagesUpTo(es)[k] = PagesUpTo(es)[k - 1] + es[k].numOfPages
<1> DEFINE Eq(f) == f = [k \in 0..Len(es) |-> IF k = 0 THEN 0 ELSE f[k - 1] + es[k].numOfPages]
           a == [k \in 1..Len(es) |-> es[k].numOfPages]
           z == [k \in 1..Len(es) |-> FALSE]
<1>1. Len(es) \in Nat /\ \A k \in 1..Len(es) : es[k] \in EntryType
  OBVIOUS
<1>2. a \in [1..Len(es) -> Int] /\ z \in [1..Len(es) -> BOOLEAN]
  BY <1>1 DEF EntryType
<1>3. PICK g \in [0..Len(es) -> Int] :
        g[0] = 0 /\ \A k \in 1..Len(es) : g[k] = IF z[k] THEN 0 ELSE g[k - 1] + a[k]
  <2> HIDE DEF a, z
  <2> QED BY <1>1, <1>2, CountExists
<1>4. Eq(g)
  BY <1>1, <1>3
<1>5. PagesUpTo(es) = CHOOSE f : Eq(f)
  BY DEF PagesUpTo
<1>6. Eq(PagesUpTo(es))
  <2> HIDE DEF Eq
  <2> QED BY <1>4, <1>5
<1>7. ASSUME NEW h, Eq(h)
      PROVE  h[0] = 0 /\ \A k \in 1..Len(es) : h[k] = h[k - 1] + es[k].numOfPages
  BY <1>7, <1>1
<1>8. ASSUME NEW h, Eq(h), NEW k \in 0..Len(es) PROVE h[k] = g[k]
  <2> DEFINE P == {m \in Nat : h[m] = g[m]}
  <2>1. 0 \in P
    BY <1>7, <1>8, <1>3
  <2>2. ASSUME NEW m \in 0..(Len(es) - 1), m \in P PROVE m + 1 \in P
    <3>1. m + 1 \in 1..Len(es) /\ (m + 1) - 1 = m
      BY <1>1
    <3>2. h[m + 1] = h[m] + es[m + 1].numOfPages
      BY <1>7, <1>8, <3>1
    <3>3. g[m + 1] = g[m] + es[m + 1].numOfPages
      BY <1>3, <3>1
    <3> QED BY <3>2, <3>3, <2>2
  <2>3. \A m \in 0..Len(es) : m \in P
    <3> HIDE DEF P
    <3> QED BY <2>1, <2>2, <1>1, IntervalInduction
  <2> QED BY <2>3
<1>9. PagesUpTo(es) \in [0..Len(es) -> Int]
  <2>1. \A k \in 0..Len(es) : PagesUpTo(es)[k] \in Int
    <3> HIDE DEF Eq
    <3> QED BY <1>8, <1>6, <1>3
  <2> QED BY <2>1, <1>6
<1> QED BY <1>6, <1>7, <1>9

\* What the loop of malloc counts: it clears its count at an allocated entry.
LEMMA CountDefined ==
  ASSUME entries \in Seq(EntryType)
  PROVE  /\ Count(1) = 0
         /\ \A i \in 1..Len(entries) :
              Count(i + 1) = IF entries[i].changed THEN 0 ELSE Count(i) + entries[i].numOfPages
<1> DEFINE Eq(f) == f = [k \in 0..Len(entries) |->
                           IF k = 0 THEN 0
                           ELSE IF entries[k].changed THEN 0
                                ELSE f[k - 1] + entries[k].numOfPages]
           c == CHOOSE f : Eq(f)
           a == [k \in 1..Len(entries) |-> entries[k].numOfPages]
           z == [k \in 1..Len(entries) |-> entries[k].changed]
<1>1. Len(entries) \in Nat /\ \A k \in 1..Len(entries) : entries[k] \in EntryType
  OBVIOUS
<1>2. a \in [1..Len(entries) -> Int] /\ z \in [1..Len(entries) -> BOOLEAN]
  BY <1>1 DEF EntryType
<1>3. PICK g \in [0..Len(entries) -> Int] :
        g[0] = 0 /\ \A k \in 1..Len(entries) : g[k] = IF z[k] THEN 0 ELSE g[k - 1] + a[k]
  <2> HIDE DEF a, z
  <2> QED BY <1>1, <1>2, CountExists
<1>4. Eq(g)
  BY <1>1, <1>3
<1>5. Eq(c)
  <2> HIDE DEF Eq
  <2> QED BY <1>4
<1>6. \A i : Count(i) = c[i - 1]
  BY DEF Count
<1>7. c[0] = 0 /\ \A k \in 1..Len(entries) :
        c[k] = IF entries[k].changed THEN 0 ELSE c[k - 1] + entries[k].numOfPages
  <2> HIDE DEF c
  <2> QED BY <1>5, <1>1
<1>8. \A i \in 1..Len(entries) : (i + 1) - 1 = i
  OBVIOUS
<1> HIDE DEF c
<1> QED BY <1>6, <1>7, <1>8

\* The count at entry i is the number of pages of the freed entries from j on,
\* if entry j - 1 is allocated or j is the first.
LEMMA CountOfRun ==
  ASSUME entries \in Seq(EntryType), NEW i \in 1..(Len(entries) + 1), NEW j \in 1..i,
         \A k \in j..(i - 1) : ~entries[k].changed,
         j = 1 \/ entries[j - 1].changed
  PROVE  Count(i) = PagesUpTo(entries)[i - 1] - PagesUpTo(entries)[j - 1]
<1> DEFINE S == PagesUpTo(entries)
           P == {k \in Nat : Count(k) = S[k - 1] - S[j - 1]}
<1>1. S \in [0..Len(entries) -> Int] /\ Len(entries) \in Nat
  BY SumDefined
<1>2. Count(j) = 0
  <2>1. CASE j = 1
    BY <2>1, CountDefined
  <2>2. CASE j # 1
    <3>1. j - 1 \in 1..Len(entries) /\ (j - 1) + 1 = j
      BY <2>2, <1>1
    <3> QED BY <3>1, <2>2, CountDefined
  <2> QED BY <2>1, <2>2
<1>3. j \in P
  BY <1>1, <1>2
<1>4. ASSUME NEW k \in j..(i - 1), k \in P PROVE k + 1 \in P
  <2>1. k \in 1..Len(entries) /\ (k + 1) - 1 = k
    BY <1>1
  <2>2. Count(k + 1) = Count(k) + entries[k].numOfPages
    BY <2>1, CountDefined
  <2>3. S[k] = S[k - 1] + entries[k].numOfPages
    BY <2>1, SumDefined
  <2>4. entries[k].numOfPages \in Int /\ S[k - 1] \in Int /\ S[j - 1] \in Int
    <3>1. entries[k] \in EntryType
      BY <2>1
    <3>2. k - 1 \in 0..Len(entries) /\ j - 1 \in 0..Len(entries)
      BY <1>1
    <3> HIDE DEF S
    <3> QED BY <3>1, <3>2, <1>1 DEF EntryType
  <2> HIDE DEF S
  <2> QED BY <2>1, <2>2, <2>3, <2>4, <1>4
<1>5. \A k \in j..i : k \in P
  <2> HIDE DEF P
  <2>1. i \in Nat /\ j \in Nat
    BY <1>1
  <2> QED BY <1>3, <1>4, <2>1, IntervalInduction
<1> QED BY <1>5

\* The run of freed entries before entry i.
LEMMA RunDefined ==
  ASSUME NEW i \in Nat \ {0}
  PROVE  /\ RunStart(i) \in 1..i
         /\ \A k \in RunStart(i)..(i - 1) : ~entries[k].changed
         /\ RunStart(i) = 1 \/ entries[RunStart(i) - 1].changed
<1> DEFINE T == {j \in 1..i : \A k \in j..(i - 1) : ~entries[k].changed}
<1>1. T \subseteq Nat /\ i \in T
  OBVIOUS
<1>2. \E x \in T : \A y \in T : x <= y
  <2> HIDE DEF T
  <2> QED BY <1>1, LeastNumber
<1>3. RunStart(i) \in T /\ \A y \in T : RunStart(i) <= y
  <2>1. RunStart(i) = CHOOSE x \in T : \A y \in T : x =< y
    BY DEF RunStart, Min
  <2> HIDE DEF T
  <2> QED BY <1>2, <2>1
<1>4. ASSUME RunStart(i) # 1, ~entries[RunStart(i) - 1].changed PROVE FALSE
  <2> DEFINE j == RunStart(i)
  <2>1. j - 1 \in 1..i /\ j \in 1..i
    BY <1>3, <1>4
  <2>2. ASSUME NEW k \in (j - 1)..(i - 1) PROVE ~entries[k].changed
    BY <2>1, <1>3, <1>4
  <2>3. j - 1 \in T
    BY <2>1, <2>2
  <2> QED BY <2>1, <2>3, <1>3
<1> QED BY <1>3, <1>4

\* The pages of the run are what the loop has counted.
LEMMA CountDifference ==
  ASSUME entries \in Seq(EntryType), NEW i \in 1..(Len(entries) + 1)
  PROVE  /\ Count(i) = PagesUpTo(entries)[i - 1] - PagesUpTo(entries)[RunStart(i) - 1]
         /\ Count(i) \in Int
<1>1. i \in Nat \ {0} /\ Len(entries) \in Nat
  OBVIOUS
<1>2. /\ RunStart(i) \in 1..i
      /\ \A k \in RunStart(i)..(i - 1) : ~entries[k].changed
      /\ RunStart(i) = 1 \/ entries[RunStart(i) - 1].changed
  BY <1>1, RunDefined
<1>3. Count(i) = PagesUpTo(entries)[i - 1] - PagesUpTo(entries)[RunStart(i) - 1]
  BY <1>2, CountOfRun
<1>4. i - 1 \in 0..Len(entries) /\ RunStart(i) - 1 \in 0..Len(entries)
  BY <1>1, <1>2
<1>5. PagesUpTo(entries)[i - 1] \in Int /\ PagesUpTo(entries)[RunStart(i) - 1] \in Int
  BY <1>4, SumDefined
<1> QED BY <1>3, <1>5

\* The first of the smallest holes exists if there is a hole.
LEMMA BestHoleExists ==
  ASSUME entries \in Seq(EntryType), NEW num \in Nat, Holes(num) # {}
  PROVE  /\ BestHole(num) \in Holes(num)
         /\ \A j \in Holes(num) :
              \/ Count(BestHole(num)) < Count(j)
              \/ Count(BestHole(num)) = Count(j) /\ BestHole(num) <= j
<1> DEFINE H == Holes(num)
           Best(i) == \A j \in H : Count(i) < Count(j) \/ (Count(i) = Count(j) /\ i <= j)
           C == {n \in Nat : \E i \in H : Count(i) = n}
<1>1. ASSUME NEW i \in H PROVE i \in 1..Len(entries) /\ Count(i) >= num /\ Count(i) \in Nat
  <2>1. i \in 1..Len(entries) /\ Count(i) >= num
    BY DEF Holes
  <2>2. i \in 1..(Len(entries) + 1)
    BY <2>1
  <2>3. Count(i) \in Int
    BY <2>2, CountDifference
  <2> QED BY <2>1, <2>3
<1>2. PICK m \in C : \A y \in C : m <= y
  <2>1. C # {} /\ C \subseteq Nat
    BY <1>1
  <2> HIDE DEF C
  <2> QED BY <2>1, LeastNumber
<1> DEFINE F == {i \in H : Count(i) = m}
<1>3. PICK f \in F : \A y \in F : f <= y
  <2>1. F # {} /\ F \subseteq Nat
    BY <1>1, <1>2
  <2> HIDE DEF F
  <2> QED BY <2>1, LeastNumber
<1>4. Best(f)
  <2> SUFFICES ASSUME NEW j \in H
               PROVE  Count(f) < Count(j) \/ (Count(f) = Count(j) /\ f <= j)
    OBVIOUS
  <2>1. Count(j) \in C /\ Count(f) = m /\ m \in Nat /\ f \in H
    BY <1>1, <1>3
  <2>2. m <= Count(j)
    BY <2>1, <1>2
  <2>3. CASE Count(j) = m
    BY <2>3, <2>1, <1>3
  <2>4. CASE Count(j) # m
    BY <2>4, <2>1, <2>2
  <2> QED BY <2>3, <2>4
<1>5. BestHole(num) = CHOOSE i \in H : Best(i)
  BY DEF BestHole
<1>6. BestHole(num) \in H /\ Best(BestHole(num))
  <2> HIDE DEF H, Best
  <2> QED BY <1>3, <1>4, <1>5
<1> QED BY <1>6

\* Where the entries of es recur in fs, moved by d, the sums do too.
LEMMA SumMoved ==
  ASSUME NEW es \in Seq(EntryType), NEW fs \in Seq(EntryType), NEW d \in Nat,
         NEW a \in 0..Len(es), NEW b \in a..Len(es), b + d <= Len(fs),
         PagesUpTo(fs)[a + d] = PagesUpTo(es)[a],
         \A k \in (a + 1)..b : fs[k + d].numOfPages = es[k].numOfPages
  PROVE  \A k \in a..b : PagesUpTo(fs)[k + d] = PagesUpTo(es)[k]
<1> DEFINE P == {k \in Nat : PagesUpTo(fs)[k + d] = PagesUpTo(es)[k]}
<1>1. a \in Nat /\ b \in Nat /\ Len(es) \in Nat /\ Len(fs) \in Nat
  OBVIOUS
<1>2. a \in P
  BY <1>1
<1>3. ASSUME NEW k \in a..(b - 1), k \in P PROVE k + 1 \in P
  <2>1. /\ k + 1 \in (a + 1)..b /\ k + 1 \in 1..Len(es) /\ (k + 1) - 1 = k
        /\ (k + 1) + d \in 1..Len(fs) /\ ((k + 1) + d) - 1 = k + d
    BY <1>1
  <2>2. PagesUpTo(es)[k + 1] = PagesUpTo(es)[k] + es[k + 1].numOfPages
    BY <2>1, SumDefined
  <2>3. PagesUpTo(fs)[(k + 1) + d] = PagesUpTo(fs)[k + d] + fs[(k + 1) + d].numOfPages
    BY <2>1, SumDefined
  <2> QED BY <2>1, <2>2, <2>3, <1>3
<1>4. \A k \in a..b : k \in P
  <2> HIDE DEF P
  <2> QED BY <1>1, <1>2, <1>3, IntervalInduction
<1> QED BY <1>4

\* Sums over entries with the same numbers of pages.
LEMMA SumSame ==
  ASSUME NEW es \in Seq(EntryType), NEW fs \in Seq(EntryType),
         NEW b \in 0..Len(es), b <= Len(fs),
         \A k \in 1..b : fs[k].numOfPages = es[k].numOfPages
  PROVE  \A k \in 0..b : PagesUpTo(fs)[k] = PagesUpTo(es)[k]
<1> DEFINE d == 0
<1>1. /\ Len(es) \in Nat /\ 0 \in 0..Len(es) /\ b \in 0..Len(es) /\ d \in Nat /\ b + d <= Len(fs)
      /\ PagesUpTo(fs)[0 + d] = PagesUpTo(es)[0]
      /\ \A k \in (0 + 1)..b : fs[k + d].numOfPages = es[k].numOfPages
  BY SumDefined
<1>2. \A k \in 0..b : k + d = k
  OBVIOUS
<1> HIDE DEF d
<1>3. \A k \in 0..b : PagesUpTo(fs)[k + d] = PagesUpTo(es)[k]
  BY <1>1, SumMoved
<1> QED BY <1>2, <1>3

\* An entry at the end.
LEMMA SumAppended ==
  ASSUME NEW es \in Seq(EntryType), NEW x \in EntryType
  PROVE  LET fs == Append(es, x)
         IN  /\ \A k \in 0..Len(es) : PagesUpTo(fs)[k] = PagesUpTo(es)[k]
             /\ PagesUpTo(fs)[Len(es) + 1] = PagesUpTo(es)[Len(es)] + x.numOfPages
<1> DEFINE fs == Append(es, x)
           n == Len(es)
<1>1. /\ n \in Nat /\ fs \in Seq(EntryType) /\ Len(fs) = n + 1 /\ fs[n + 1] = x
      /\ \A k \in 1..n : fs[k] = es[k]
  OBVIOUS
<1> HIDE DEF fs
<1>5. \A k \in 0..n : PagesUpTo(fs)[k] = PagesUpTo(es)[k]
  <2>1. n \in 0..n /\ n <= Len(fs) /\ \A k \in 1..n : fs[k].numOfPages = es[k].numOfPages
    BY <1>1
  <2> QED BY <1>1, <2>1, SumSame
<1>6. PagesUpTo(fs)[n + 1] = PagesUpTo(fs)[(n + 1) - 1] + fs[n + 1].numOfPages
  BY <1>1, SumDefined
<1>7. (n + 1) - 1 = n /\ n \in 0..n
  BY <1>1
<1> QED BY <1>1, <1>5, <1>6, <1>7 DEF fs

\* Entry i is split in two that together have its pages.
LEMMA SumSplit ==
  ASSUME NEW es \in Seq(EntryType), NEW fs \in Seq(EntryType), NEW i \in 1..Len(es),
         Len(fs) = Len(es) + 1,
         \A k \in 1..(i - 1) : fs[k] = es[k],
         \A k \in (i + 1)..Len(es) : fs[k + 1] = es[k],
         fs[i].numOfPages + fs[i + 1].numOfPages = es[i].numOfPages
  PROVE  /\ \A k \in 0..(i - 1) : PagesUpTo(fs)[k] = PagesUpTo(es)[k]
         /\ PagesUpTo(fs)[i] = PagesUpTo(es)[i - 1] + fs[i].numOfPages
         /\ \A k \in i..Len(es) : PagesUpTo(fs)[k + 1] = PagesUpTo(es)[k]
<1>1. Len(es) \in Nat /\ i \in Nat /\ 0 \in 0..Len(es) /\ i - 1 \in 0..Len(es)
  OBVIOUS
<1>5. \A k \in 0..(i - 1) : PagesUpTo(fs)[k] = PagesUpTo(es)[k]
  <2>1. i - 1 <= Len(fs) /\ \A k \in 1..(i - 1) : fs[k].numOfPages = es[k].numOfPages
    BY <1>1
  <2> QED BY <1>1, <2>1, SumSame
<1>6. PagesUpTo(fs)[i] = PagesUpTo(es)[i - 1] + fs[i].numOfPages
  <2>1. i \in 1..Len(fs) /\ i - 1 \in 0..(i - 1)
    BY <1>1
  <2> QED BY <2>1, <1>5, SumDefined
<1>7. PagesUpTo(fs)[i + 1] = PagesUpTo(es)[i]
  <2>1. i + 1 \in 1..Len(fs) /\ (i + 1) - 1 = i /\ i \in 1..Len(fs)
    BY <1>1
  <2>2. PagesUpTo(fs)[i + 1] = PagesUpTo(fs)[i] + fs[i + 1].numOfPages
    BY <2>1, SumDefined
  <2>3. PagesUpTo(es)[i] = PagesUpTo(es)[i - 1] + es[i].numOfPages
    BY SumDefined
  <2>4. fs[i] \in EntryType /\ fs[i + 1] \in EntryType
    BY <2>1
  <2>6. PagesUpTo(es)[i - 1] \in Int
    BY <1>1, SumDefined
  <2>5. fs[i].numOfPages \in Int /\ fs[i + 1].numOfPages \in Int
    BY <2>4 DEF EntryType
  <2> QED BY <2>2, <2>3, <2>5, <2>6, <1>6
<1>8. \A k \in (i + 1)..Len(es) : fs[k + 1].numOfPages = es[k].numOfPages
  OBVIOUS
<1>9. \A k \in i..Len(es) : PagesUpTo(fs)[k + 1] = PagesUpTo(es)[k]
  <2>1. i \in 0..Len(es) /\ Len(es) \in i..Len(es) /\ Len(es) + 1 <= Len(fs) /\ 1 \in Nat
    BY <1>1
  <2> QED BY <2>1, <1>7, <1>8, SumMoved
<1> QED BY <1>5, <1>6, <1>9

-----------------------------------------------------------------------------
(* The invariant *)

Allocated == {i \in 1..Len(entries) : entries[i].changed}

Sum == PagesUpTo(entries)

HeapType ==
  /\ entries \in Seq(EntryType)
  /\ changes \in BOOLEAN /\ mallocs \in Nat
  /\ blocks \subseteq [id : Nat, address : Int, size : Sizes, got : Nat]
  /\ \A b \in blocks : b.got <= NumPages(b.size)

\* Nothing was freed yet, or there is nothing between two blocks.
NothingFreed == ~changes => Allocated = 1..Len(entries)

\* The freed entries between two blocks, before the first and behind the last
\* have together no negative number of pages, although one of them may.
RunsNotNegative ==
  \A j \in Allocated \cup {Len(entries) + 1} : \A i \in Allocated \cup {0} :
    i < j => Sum[i] <= Sum[j - 1]

\* The program's blocks are the allocated entries.
BlocksAreEntries ==
  /\ \A i \in Allocated : entries[i].numOfPages > 0
  /\ \A b \in blocks : \E i \in Allocated : /\ b.address = entries[i].address
                                            /\ b.size = entries[i].numOfPages * PAGE_SIZE
  /\ \A i \in Allocated : \E b \in blocks : b.address = entries[i].address
  /\ \A b \in blocks : b.id < mallocs
  /\ \A a, b \in blocks : a.address = b.address \/ a.id = b.id => a = b

IInv ==
  /\ HeapType /\ NothingFreed /\ RunsNotNegative /\ BlocksAreEntries
  /\ EntriesTileTheHeap /\ PageFileHoldsBlocks

-----------------------------------------------------------------------------
(* What follows from the invariant *)

\* The allocated entries lie one behind the other.
LEMMA EntryFacts ==
  ASSUME IInv
  PROVE  /\ Len(entries) \in Nat /\ Sum \in [0..Len(entries) -> Int] /\ Sum[0] = 0
         /\ \A i \in Allocated :
              /\ i \in 1..Len(entries) /\ i - 1 \in 0..Len(entries)
              /\ entries[i].numOfPages \in Nat \ {0}
              /\ Sum[i] = Sum[i - 1] + entries[i].numOfPages
              /\ Sum[i - 1] \in Nat /\ Sum[i] \in Nat
              /\ entries[i].address = Sum[i - 1] * PAGE_SIZE
              /\ Sum[i] <= Sum[Len(entries)]
         /\ Sum[Len(entries)] \in Nat
         /\ \A i, j \in Allocated : i < j => Sum[i] <= Sum[j - 1]
<1>1. entries \in Seq(EntryType) /\ Len(entries) \in Nat
  BY DEF IInv, HeapType
<1>2. Sum \in [0..Len(entries) -> Int] /\ Sum[0] = 0
  BY <1>1, SumDefined DEF Sum
<1>3. ASSUME NEW i \in Allocated
      PROVE  /\ i \in 1..Len(entries) /\ i - 1 \in 0..Len(entries)
             /\ entries[i].numOfPages \in Nat \ {0}
             /\ Sum[i] = Sum[i - 1] + entries[i].numOfPages
             /\ Sum[i - 1] \in Nat /\ Sum[i] \in Nat
             /\ entries[i].address = Sum[i - 1] * PAGE_SIZE
             /\ Sum[i] <= Sum[Len(entries)]
  <2>1. i \in 1..Len(entries) /\ i - 1 \in 0..Len(entries) /\ i \in 0..Len(entries)
    BY <1>1 DEF Allocated
  <2>2. entries[i] \in EntryType
    BY <1>1, <2>1
  <2>3. entries[i].numOfPages \in Nat \ {0}
    BY <2>2 DEF EntryType, IInv, BlocksAreEntries
  <2>4. Sum[i] = Sum[i - 1] + entries[i].numOfPages
    BY <1>1, <2>1, SumDefined DEF Sum
  <2>5. Sum[i - 1] \in Int /\ Sum[i] \in Int
    BY <1>2, <2>1
  <2>6. 0 <= Sum[i - 1]
    BY <1>2, <2>1 DEF IInv, RunsNotNegative
  <2>7. Sum[i] <= Sum[(Len(entries) + 1) - 1]
    BY <2>1, <1>1 DEF IInv, RunsNotNegative
  <2>8. entries[i].address = Sum[i - 1] * PAGE_SIZE
    BY <2>1 DEF IInv, EntriesTileTheHeap, Sum
  <2>9. (Len(entries) + 1) - 1 = Len(entries)
    BY <1>1
  <2> QED BY <2>1, <2>3, <2>4, <2>5, <2>6, <2>7, <2>8, <2>9
<1>4. Sum[Len(entries)] \in Nat
  <2>1. (Len(entries) + 1) - 1 = Len(entries) /\ 0 < Len(entries) + 1 /\ Len(entries) \in 0..Len(entries)
    BY <1>1
  <2>2. Sum[0] <= Sum[(Len(entries) + 1) - 1]
    BY <2>1 DEF IInv, RunsNotNegative
  <2>3. Sum[Len(entries)] \in Int
    BY <1>2, <2>1
  <2> QED BY <2>1, <2>2, <2>3, <1>2
<1>5. \A i, j \in Allocated : i < j => Sum[i] <= Sum[j - 1]
  BY DEF IInv, RunsNotNegative
<1> QED BY <1>1, <1>2, <1>3, <1>4, <1>5

\* An address belongs to one allocated entry.
LEMMA EntryOfAddress ==
  ASSUME IInv, NEW i \in Allocated, NEW j \in Allocated
  PROVE  /\ entries[i].address = entries[j].address => i = j
         /\ i < j => Sum[i - 1] < Sum[j - 1]
<1>1. i \in Int /\ j \in Int /\ Sum[i - 1] \in Int /\ Sum[j - 1] \in Int
  BY EntryFacts
<1>2. i < j => Sum[i - 1] < Sum[j - 1]
  BY EntryFacts, SMTT(30)
<1>3. j < i => Sum[j - 1] < Sum[i - 1]
  BY EntryFacts, SMTT(30)
<1>4. entries[i].address = entries[j].address => Sum[i - 1] = Sum[j - 1]
  <2>1. /\ entries[i].address = Sum[i - 1] * PAGE_SIZE
        /\ entries[j].address = Sum[j - 1] * PAGE_SIZE
    BY EntryFacts
  <2>2. Sum[i - 1] = Sum[j - 1] <=> Sum[i - 1] * PAGE_SIZE = Sum[j - 1] * PAGE_SIZE
    BY <1>1, PagesCompare
  <2> QED BY <2>1, <2>2
<1> QED BY <1>1, <1>2, <1>3, <1>4

\* The pages of a block are those of its entry.
LEMMA BlockFacts ==
  ASSUME IInv, NEW b \in blocks
  PROVE  \E i \in Allocated :
           /\ b.address = entries[i].address /\ b.address = Sum[i - 1] * PAGE_SIZE
           /\ b.size = entries[i].numOfPages * PAGE_SIZE
           /\ b.address + b.size = Sum[i] * PAGE_SIZE
           /\ PagesAt(b.address, b.size) = Sum[i - 1]..(Sum[i] - 1)
<1>1. PICK i \in Allocated : /\ b.address = entries[i].address
                             /\ b.size = entries[i].numOfPages * PAGE_SIZE
  BY DEF IInv, BlocksAreEntries
<1> DEFINE s == Sum[i - 1]
           n == entries[i].numOfPages
<1>2. s \in Nat /\ n \in Nat /\ Sum[i] = s + n /\ b.address = s * PAGE_SIZE
  BY <1>1, EntryFacts
<1>3. PagesAt(s * PAGE_SIZE, n * PAGE_SIZE) = s..(s + n - 1)
  <2> HIDE DEF s, n
  <2> QED BY <1>2, PagesOfBlock
<1>4. s * PAGE_SIZE + n * PAGE_SIZE = (s + n) * PAGE_SIZE
  <2> HIDE DEF s, n
  <2> QED BY <1>2, PagesAdd
<1>5. s + n - 1 = Sum[i] - 1
  BY <1>2
<1> QED BY <1>1, <1>2, <1>3, <1>4, <1>5

\* Two blocks have no byte and no page in common.
LEMMA BlocksApart ==
  ASSUME IInv, NEW a \in blocks, NEW b \in blocks, a # b
  PROVE  /\ a.address + a.size <= b.address \/ b.address + b.size <= a.address
         /\ PagesAt(a.address, a.size) \cap PagesAt(b.address, b.size) = {}
<1>1. PICK i \in Allocated :
        /\ a.address = entries[i].address /\ a.address = Sum[i - 1] * PAGE_SIZE
        /\ a.address + a.size = Sum[i] * PAGE_SIZE
        /\ PagesAt(a.address, a.size) = Sum[i - 1]..(Sum[i] - 1)
  BY BlockFacts
<1>2. PICK j \in Allocated :
        /\ b.address = entries[j].address /\ b.address = Sum[j - 1] * PAGE_SIZE
        /\ b.address + b.size = Sum[j] * PAGE_SIZE
        /\ PagesAt(b.address, b.size) = Sum[j - 1]..(Sum[j] - 1)
  BY BlockFacts
<1>3. i # j
  BY <1>1, <1>2 DEF IInv, BlocksAreEntries
<1>4. /\ i \in Int /\ j \in Int
      /\ Sum[i - 1] \in Int /\ Sum[j - 1] \in Int /\ Sum[i] \in Int /\ Sum[j] \in Int
  BY EntryFacts
<1>5. CASE i < j
  <2>1. Sum[i] <= Sum[j - 1]
    BY <1>5, EntryFacts
  <2>2. Sum[i] * PAGE_SIZE <= Sum[j - 1] * PAGE_SIZE
    BY <2>1, <1>4, PagesCompare
  <2> QED BY <2>1, <2>2, <1>1, <1>2, <1>4
<1>6. CASE j < i
  <2>1. Sum[j] <= Sum[i - 1]
    BY <1>6, EntryFacts
  <2>2. Sum[j] * PAGE_SIZE <= Sum[i - 1] * PAGE_SIZE
    BY <2>1, <1>4, PagesCompare
  <2> QED BY <2>1, <2>2, <1>1, <1>2, <1>4
<1> QED BY <1>3, <1>4, <1>5, <1>6

\* The pages that the page file granted a block are pages of it.
LEMMA GotPages ==
  ASSUME IInv, NEW b \in blocks
  PROVE  PagesFrom(b.address, b.got) \subseteq PagesAt(b.address, b.size)
<1>1. /\ b.address \in Int /\ b.got \in Nat /\ b.got <= NumPages(b.size)
      /\ b.size \in Int /\ PAGE_SIZE \in Nat \ {0}
  <2>1. b \in [id : Nat, address : Int, size : Sizes, got : Nat] /\ b.got <= NumPages(b.size)
    BY DEF IInv, HeapType
  <2>2. b.address \in Int /\ b.got \in Nat /\ b.size \in Sizes
    BY <2>1
  <2>3. b.size \in Nat
    BY <2>2, HeapConstants
  <2> QED BY <2>1, <2>2, <2>3, HeapConstants
<1>2. b.address \div PAGE_SIZE \in Int /\ NumPages(b.size) \in Int
  BY <1>1 DEF NumPages
<1> QED BY <1>1, <1>2 DEF PagesAt, PagesFrom

\* The properties that the runs check follow.
LEMMA IInvImplies == IInv => BlocksDisjoint /\ HeapConsistent
BY BlocksApart DEF BlocksDisjoint, HeapConsistent, IInv

LEMMA InitIInv == Init => IInv
<1> SUFFICES ASSUME Init PROVE IInv
  OBVIOUS
<1>1. entries = <<>> /\ Len(entries) = 0 /\ entries \in Seq(EntryType) /\ Allocated = {}
  BY DEF Init, Allocated
<1>2. Sum[0] = 0
  BY <1>1, SumDefined DEF Sum
<1>3. HeapType
  BY <1>1 DEF Init, HeapType
<1>8. NothingFreed
  BY <1>1 DEF NothingFreed
<1>6. BlocksAreEntries
  BY <1>1 DEF Init, BlocksAreEntries
<1>7. PageFileHoldsBlocks
  BY DEF Init, PageFileHoldsBlocks
<1>4. RunsNotNegative
  BY <1>1, <1>2 DEF RunsNotNegative
<1>5. EntriesTileTheHeap
  <2>1. 0 * PAGE_SIZE = 0
    BY HeapConstants
  <2> QED BY <1>1, <1>2, <2>1 DEF EntriesTileTheHeap, Sum, Init
<1> QED BY <1>3, <1>4, <1>5, <1>6, <1>7, <1>8 DEF IInv

-----------------------------------------------------------------------------
(* The steps keep the invariant *)

\* A new block: the kernel allocates its pages.
LEMMA PageFileGrows ==
  ASSUME PageFileHoldsBlocks, NEW b, blocks' = blocks \cup {b},
         sys_allocateMem(b.address, b.got)
  PROVE  PageFileHoldsBlocks'
<1>1. ASSUME NEW p
      PROVE  p \in pf' <=> \E c \in blocks' : p \in PagesFrom(c.address, c.got)
  <2>1. p \in pf <=> \E c \in blocks : p \in PagesFrom(c.address, c.got)
    BY DEF PageFileHoldsBlocks
  <2>2. p \in pf' <=> p \in pf \/ p \in PagesFrom(b.address, b.got)
    BY DEF sys_allocateMem
  <2> QED BY <2>1, <2>2
<1>2. pf' = UNION {PagesFrom(c.address, c.got) : c \in blocks'}
  BY <1>1
<1> QED BY <1>2 DEF PageFileHoldsBlocks

\* A new block that no other has the address of.
LEMMA BlocksGrow ==
  ASSUME IInv, NEW va \in Int, NEW size \in Sizes, NEW got \in Nat, got <= NumPages(size),
         Returns(va, size, got), mallocs' = mallocs + 1,
         \A b \in blocks : b.address # va
  PROVE  /\ blocks' \subseteq [id : Nat, address : Int, size : Sizes, got : Nat]
         /\ \A b \in blocks' : b.got <= NumPages(b.size)
         /\ \A b \in blocks' : b.id < mallocs'
         /\ \A a, b \in blocks' : a.address = b.address \/ a.id = b.id => a = b
<1> DEFINE n == [id |-> mallocs, address |-> va, size |-> size, got |-> got]
<1>1. blocks' = blocks \cup {n} /\ mallocs \in Nat
  BY DEF Returns, IInv, HeapType
<1>2. /\ n \in [id : Nat, address : Int, size : Sizes, got : Nat]
      /\ n.id = mallocs /\ n.address = va /\ n.got <= NumPages(n.size)
  BY <1>1
<1>3. \A b \in blocks : b.id \in Nat /\ b.id < mallocs
  BY DEF IInv, HeapType, BlocksAreEntries
<1>4. \A a, b \in blocks : a.address = b.address \/ a.id = b.id => a = b
  BY DEF IInv, BlocksAreEntries
<1>5. /\ blocks \subseteq [id : Nat, address : Int, size : Sizes, got : Nat]
      /\ \A b \in blocks : b.got <= NumPages(b.size)
  BY DEF IInv, HeapType
<1> HIDE DEF n
<1>6. /\ blocks' \subseteq [id : Nat, address : Int, size : Sizes, got : Nat]
      /\ \A b \in blocks' : b.got <= NumPages(b.size)
  BY <1>1, <1>2, <1>5
<1>7. \A b \in blocks' : b.id < mallocs'
  BY <1>1, <1>2, <1>3
<1>8. \A a, b \in blocks' : a.address = b.address \/ a.id = b.id => a = b
  BY <1>1, <1>2, <1>3, <1>4
<1> QED BY <1>6, <1>7, <1>8

\* A block behind all others.
LEMMA ExtendKeeps ==
  ASSUME IInv, WholePages, NEW size \in Sizes, NEW got \in Nat, got <= NumPages(size),
         Extend(size, got), mallocs' = mallocs + 1
  PROVE  IInv'
<1> DEFINE L == Len(entries)
           num == NumPages(size)
           x == Entry(last_addres, num, TRUE)
<1>1. num \in Nat \ {0} /\ size = num * PAGE_SIZE
  BY PagesOfSize
<1>2. entries \in Seq(EntryType) /\ L \in Nat /\ mallocs \in Nat /\ changes \in BOOLEAN
  BY DEF IInv, HeapType
<1>3. Sum[L] \in Nat /\ last_addres = Sum[L] * PAGE_SIZE /\ last_addres \in Int
  <2>1. Sum[L] \in Nat /\ last_addres = Sum[L] * PAGE_SIZE
    BY EntryFacts DEF IInv, EntriesTileTheHeap, Sum
  <2>2. Sum[L] \in Int
    BY <2>1
  <2>3. Sum[L] * PAGE_SIZE \in Int
    BY <2>2, PageAddress, Zenon
  <2> QED BY <2>1, <2>3
<1>4. /\ x \in EntryType /\ x.address = last_addres /\ x.numOfPages = num /\ x.changed = TRUE
  BY <1>1, <1>3 DEF Entry, EntryType
<1>5. entries' = Append(entries, x)
  BY DEF Extend
<1> HIDE DEF x, num
<1>6. /\ entries' \in Seq(EntryType) /\ Len(entries') = L + 1 /\ entries'[L + 1] = x
      /\ \A k \in 1..L : entries'[k] = entries[k]
  BY <1>2, <1>4, <1>5
<1>7. (\A k \in 0..L : Sum'[k] = Sum[k]) /\ Sum'[L + 1] = Sum[L] + num
  BY <1>2, <1>4, <1>5, SumAppended DEF Sum
<1>8. Allocated' = Allocated \cup {L + 1}
  BY <1>2, <1>4, <1>6 DEF Allocated
<1>9. \A i \in Allocated : i \in 1..L /\ i - 1 \in 0..L /\ i \in 0..L
  BY <1>2 DEF Allocated
<1>10. /\ Returns(last_addres, size, got) /\ sys_allocateMem(last_addres, got) /\ changes' = changes
       /\ last_addres' = last_addres + num * PAGE_SIZE
  BY DEF Extend, num
<1>11. EntriesTileTheHeap'
  <2>1. ASSUME NEW i \in 1..Len(entries') PROVE entries'[i].address = Sum'[i - 1] * PAGE_SIZE
    <3>1. CASE i \in 1..L
      <4>1. entries[i].address = Sum[i - 1] * PAGE_SIZE
        BY <3>1 DEF IInv, EntriesTileTheHeap, Sum
      <4>2. i - 1 \in 0..L
        BY <3>1, <1>2
      <4> QED BY <4>1, <4>2, <3>1, <1>6, <1>7
    <3>2. CASE i = L + 1
      <4>1. i - 1 = L /\ L \in 0..L
        BY <3>2, <1>2
      <4> QED BY <4>1, <3>2, <1>3, <1>4, <1>6, <1>7
    <3> QED BY <3>1, <3>2, <1>2, <1>6
  <2>2. last_addres' = Sum'[Len(entries')] * PAGE_SIZE
    <3>1. Sum[L] * PAGE_SIZE + num * PAGE_SIZE = (Sum[L] + num) * PAGE_SIZE
      <4>1. Sum[L] \in Int /\ num \in Int
        BY <1>1, <1>3 DEF num
      <4> QED BY <4>1, PagesAdd
    <3> QED BY <3>1, <1>3, <1>6, <1>7, <1>10
  <2> QED BY <2>1, <2>2 DEF EntriesTileTheHeap, Sum
<1>12. RunsNotNegative'
  <2> SUFFICES ASSUME NEW j \in Allocated' \cup {Len(entries') + 1}, NEW i \in Allocated' \cup {0},
                      i < j
               PROVE  Sum'[i] <= Sum'[j - 1]
    BY DEF RunsNotNegative
  <2>1. /\ \A k \in Allocated : /\ Sum[k] <= Sum[L] /\ Sum[k] \in Nat /\ Sum[k - 1] \in Nat
                                /\ Sum'[k] = Sum[k] /\ Sum'[k - 1] = Sum[k - 1]
        /\ Sum[0] = 0 /\ Sum'[0] = 0 /\ Sum'[L] = Sum[L]
    BY <1>2, <1>7, <1>9, EntryFacts
  <2>2. CASE j \in Allocated
    <3>1. i \in Allocated \cup {0}
      BY <2>2, <1>2, <1>8, <1>9
    <3>2. Sum[i] <= Sum[j - 1]
      BY <2>2, <3>1 DEF IInv, RunsNotNegative
    <3> QED BY <2>1, <2>2, <3>1, <3>2
  <2>3. CASE j = L + 1
    <3>1. i \in Allocated \cup {0} /\ j - 1 = L
      BY <2>3, <1>2, <1>8
    <3> QED BY <2>1, <3>1, <1>3
  <2>4. CASE j = L + 2
    <3>1. j - 1 = L + 1
      BY <2>4, <1>2
    <3> QED BY <2>1, <3>1, <1>1, <1>3, <1>7, <1>8 DEF num
  <2> QED BY <2>2, <2>3, <2>4, <1>2, <1>6, <1>8
<1>13. \A b \in blocks : b.address # last_addres
  <2> SUFFICES ASSUME NEW b \in blocks, b.address = last_addres PROVE FALSE
    OBVIOUS
  <2>1. PICK i \in Allocated : b.address = Sum[i - 1] * PAGE_SIZE
    BY BlockFacts
  <2>2. Sum[i - 1] \in Nat /\ Sum[i - 1] < Sum[L]
    BY EntryFacts
  <2>3. Sum[i - 1] = Sum[L] <=> Sum[i - 1] * PAGE_SIZE = Sum[L] * PAGE_SIZE
    <3>1. Sum[i - 1] \in Int /\ Sum[L] \in Int
      BY <2>2, <1>3
    <3> QED BY <3>1, PagesCompare
  <2>4. Sum[i - 1] * PAGE_SIZE = Sum[L] * PAGE_SIZE
    BY <2>1, <1>3
  <2>5. Sum[i - 1] = Sum[L]
    BY <2>3, <2>4
  <2> HIDE DEF L
  <2> QED BY <2>2, <2>5, <1>3
<1>14. /\ blocks' \subseteq [id : Nat, address : Int, size : Sizes, got : Nat]
       /\ \A b \in blocks' : b.got <= NumPages(b.size)
       /\ \A b \in blocks' : b.id < mallocs'
       /\ \A a, b \in blocks' : a.address = b.address \/ a.id = b.id => a = b
  BY <1>3, <1>10, <1>13, BlocksGrow
<1>15. BlocksAreEntries'
  <2>1. \A i \in Allocated' : entries'[i].numOfPages > 0
    BY <1>1, <1>4, <1>6, <1>8, <1>9 DEF IInv, BlocksAreEntries, num
  <2> DEFINE nb == [id |-> mallocs, address |-> last_addres, size |-> size, got |-> got]
  <2>2. blocks' = blocks \cup {nb} /\ nb.address = last_addres /\ nb.size = size /\ nb.got = got
    BY <1>10 DEF Returns
  <2> HIDE DEF nb
  <2>3. \A b \in blocks' : \E i \in Allocated' : /\ b.address = entries'[i].address
                                                 /\ b.size = entries'[i].numOfPages * PAGE_SIZE
    <3>1. ASSUME NEW b \in blocks
          PROVE  \E i \in Allocated' : /\ b.address = entries'[i].address
                                       /\ b.size = entries'[i].numOfPages * PAGE_SIZE
      BY <1>6, <1>8, <1>9 DEF IInv, BlocksAreEntries
    <3>2. L + 1 \in Allocated' /\ nb.address = entries'[L + 1].address
                               /\ nb.size = entries'[L + 1].numOfPages * PAGE_SIZE
      BY <1>1, <1>4, <1>6, <1>8, <2>2 DEF num
    <3> QED BY <3>1, <3>2, <2>2
  <2>4. ASSUME NEW i \in Allocated' PROVE \E b \in blocks' : b.address = entries'[i].address
    <3>1. CASE i \in Allocated
      <4>1. PICK b \in blocks : b.address = entries[i].address
        BY <3>1 DEF IInv, BlocksAreEntries
      <4> QED BY <3>1, <4>1, <1>6, <1>9, <2>2
    <3>2. CASE i = L + 1
      BY <3>2, <1>4, <1>6, <2>2
    <3> QED BY <3>1, <3>2, <1>8
  <2> QED BY <2>1, <2>3, <2>4, <1>14 DEF BlocksAreEntries
<1>16. PageFileHoldsBlocks'
  <2> DEFINE nb == [id |-> mallocs, address |-> last_addres, size |-> size, got |-> got]
  <2>1. blocks' = blocks \cup {nb} /\ nb.address = last_addres /\ nb.size = size /\ nb.got = got
    BY <1>10 DEF Returns
  <2> HIDE DEF nb
  <2> QED BY <2>1, <1>10, PageFileGrows DEF IInv
<1>17. HeapType'
  BY <1>2, <1>6, <1>10, <1>14 DEF HeapType
<1>18. NothingFreed'
  BY <1>2, <1>6, <1>8, <1>10 DEF NothingFreed, IInv
<1> QED BY <1>11, <1>12, <1>15, <1>16, <1>17, <1>18 DEF IInv

Split(es, i, x, y) == SubSeq(es, 1, i - 1) \o <<x, y>> \o SubSeq(es, i + 1, Len(es))

IsSplit(fs, es, i, x, y) ==
  /\ fs \in Seq(EntryType) /\ Len(fs) = Len(es) + 1
  /\ fs[i] = x /\ fs[i + 1] = y
  /\ \A k \in 1..(i - 1) : fs[k] = es[k]
  /\ \A k \in (i + 1)..Len(es) : fs[k + 1] = es[k]

\* An entry replaced by two.
LEMMA SplitEntries ==
  ASSUME NEW es \in Seq(EntryType), NEW i \in 1..Len(es), NEW x \in EntryType, NEW y \in EntryType
  PROVE  IsSplit(Split(es, i, x, y), es, i, x, y)
<1> DEFINE p == SubSeq(es, 1, i - 1)
           q == SubSeq(es, i + 1, Len(es))
           m == p \o <<x, y>>
<1>1. /\ Len(es) \in Nat /\ i \in Nat
      /\ p \in Seq(EntryType) /\ Len(p) = i - 1 /\ \A k \in 1..(i - 1) : p[k] = es[k]
  OBVIOUS
<1>2. /\ q \in Seq(EntryType) /\ Len(q) = Len(es) - i
      /\ \A k \in 1..(Len(es) - i) : q[k] = es[i + k]
  OBVIOUS
<1>3. /\ m \in Seq(EntryType) /\ Len(m) = i + 1 /\ m[i] = x /\ m[i + 1] = y
      /\ \A k \in 1..(i - 1) : m[k] = es[k]
  <2> HIDE DEF p
  <2> QED BY <1>1
<1> HIDE DEF p, q, m
<1> DEFINE r == m \o q
<1>4. r \in Seq(EntryType) /\ Len(r) = Len(es) + 1
  <2>1. m \in Seq(EntryType) /\ q \in Seq(EntryType)
    BY <1>2, <1>3
  <2>2. Len(m) = i + 1 /\ Len(q) = Len(es) - i /\ i \in Nat /\ Len(es) \in Nat
    BY <1>1, <1>2, <1>3
  <2>3. r \in Seq(EntryType) /\ Len(r) = Len(m) + Len(q)
    BY <2>1
  <2> QED BY <2>2, <2>3
<1>7. \A k \in 1..(i + 1) : r[k] = m[k]
  BY <1>1, <1>2, <1>3
<1>8. \A k \in (i + 2)..(Len(es) + 1) : r[k] = q[k - (i + 1)]
  BY <1>1, <1>2, <1>3
<1> HIDE DEF r
<1>5. ASSUME NEW k \in (i + 1)..Len(es) PROVE r[k + 1] = es[k]
  <2>1. /\ k + 1 \in (i + 2)..(Len(es) + 1) /\ (k + 1) - (i + 1) = k - i
        /\ k - i \in 1..(Len(es) - i) /\ i + (k - i) = k
    <3>1. i \in Nat /\ Len(es) \in Nat /\ k \in Int /\ i + 1 <= k /\ k <= Len(es)
      BY <1>1
    <3> QED BY <3>1
  <2>2. r[k + 1] = q[k - i]
    BY <2>1, <1>8
  <2>3. q[k - i] = es[i + (k - i)]
    BY <2>1, <1>2
  <2> QED BY <2>1, <2>2, <2>3
<1>6. /\ r[i] = x /\ r[i + 1] = y
      /\ \A k \in 1..(i - 1) : r[k] = es[k]
  BY <1>1, <1>3, <1>7
<1>9. IsSplit(r, es, i, x, y)
  BY <1>4, <1>5, <1>6 DEF IsSplit
<1> QED BY <1>9 DEF r, m, p, q, Split

\* The hole that a block is put into: a run of freed entries, the first of which
\* is at the address that malloc returns.
LEMMA HoleFacts ==
  ASSUME IInv, NEW num \in Nat \ {0}, NEW i \in Holes(num)
  PROVE  LET index == RunStart(i)
         IN  /\ i \in Allocated
             /\ index \in 1..(i - 1) /\ index - 1 \in Allocated \cup {0}
             /\ \A k \in index..(i - 1) : k \notin Allocated
             /\ Count(i) = Sum[i - 1] - Sum[index - 1]
             /\ Sum[i - 1] \in Int /\ Sum[index - 1] \in Nat /\ Sum[index - 1] + num <= Sum[i - 1]
             /\ entries[index].address = Sum[index - 1] * PAGE_SIZE
             /\ entries[i].address - Count(i) * PAGE_SIZE = Sum[index - 1] * PAGE_SIZE
<1> DEFINE index == RunStart(i)
<1>1. /\ entries \in Seq(EntryType) /\ Len(entries) \in Nat
      /\ i \in 1..Len(entries) /\ entries[i].changed /\ Count(i) >= num
  BY DEF IInv, HeapType, Holes
<1>2. /\ index \in 1..i
      /\ \A k \in index..(i - 1) : ~entries[k].changed
      /\ index = 1 \/ entries[index - 1].changed
  BY <1>1, RunDefined
<1>3. Count(i) = Sum[i - 1] - Sum[index - 1]
  BY <1>1, CountDifference DEF Sum
<1> HIDE DEF index
<1>4. i - 1 \in 0..Len(entries) /\ index - 1 \in 0..Len(entries)
  BY <1>1, <1>2
<1>5. Sum[i - 1] \in Int /\ Sum[index - 1] \in Int
  BY <1>4, EntryFacts
<1>6. index # i
  BY <1>1, <1>3, <1>5
<1>7. index \in 1..(i - 1) /\ index \in 1..Len(entries)
  BY <1>1, <1>2, <1>6
<1>8. i \in Allocated /\ index - 1 \in Allocated \cup {0}
  BY <1>1, <1>2, <1>7 DEF Allocated
<1>9. \A k \in index..(i - 1) : k \notin Allocated
  BY <1>2 DEF Allocated
<1>10. Sum[index - 1] \in Nat
  BY <1>8, EntryFacts
<1>11. /\ entries[index].address = Sum[index - 1] * PAGE_SIZE
       /\ entries[i].address = Sum[i - 1] * PAGE_SIZE
  BY <1>1, <1>7 DEF IInv, EntriesTileTheHeap, Sum
<1>12. entries[i].address - Count(i) * PAGE_SIZE = Sum[index - 1] * PAGE_SIZE
  <2>1. /\ Sum[i - 1] * PAGE_SIZE - Count(i) * PAGE_SIZE = (Sum[i - 1] - Count(i)) * PAGE_SIZE
    <3>1. Count(i) \in Int
      BY <1>3, <1>5
    <3> QED BY <3>1, <1>5, PagesAdd
  <2>2. Sum[i - 1] - Count(i) = Sum[index - 1]
    BY <1>3, <1>5
  <2> QED BY <2>1, <2>2, <1>11
<1>13. Sum[index - 1] + num <= Sum[i - 1]
  BY <1>1, <1>3, <1>5
<1> QED BY <1>3, <1>5, <1>7, <1>8, <1>9, <1>10, <1>11, <1>12, <1>13 DEF index

\* A block in the best hole.
LEMMA ReuseKeeps ==
  ASSUME IInv, WholePages, NEW size \in Sizes, Holes(NumPages(size)) # {}, changes,
         NEW got \in Nat, got <= NumPages(size), Reuse(size, got), mallocs' = mallocs + 1
  PROVE  IInv'
<1> DEFINE L == Len(entries)
           num == NumPages(size)
           i == BestHole(num)
           index == RunStart(i)
           va == entries[i].address - Count(i) * PAGE_SIZE
           x == Entry(entries[index].address, num, TRUE)
           y == Entry(va + size, entries[index].numOfPages - num, FALSE)
<1>1. num \in Nat \ {0} /\ size = num * PAGE_SIZE
  BY PagesOfSize
<1>2. entries \in Seq(EntryType) /\ L \in Nat /\ mallocs \in Nat
  BY DEF IInv, HeapType
<1>3. i \in Holes(num)
  BY <1>1, <1>2, BestHoleExists
<1>4. /\ i \in Allocated
      /\ index \in 1..(i - 1) /\ index - 1 \in Allocated \cup {0}
      /\ \A k \in index..(i - 1) : k \notin Allocated
      /\ Sum[i - 1] \in Int /\ Sum[index - 1] \in Nat /\ Sum[index - 1] + num <= Sum[i - 1]
      /\ entries[index].address = Sum[index - 1] * PAGE_SIZE
      /\ va = Sum[index - 1] * PAGE_SIZE
  BY <1>1, <1>3, HoleFacts
<1>5. /\ sys_allocateMem(va, got) /\ Returns(va, size, got) /\ changes' = changes
      /\ last_addres' = last_addres
      /\ entries' = SubSeq(entries, 1, index - 1) \o <<x, y>> \o SubSeq(entries, index + 1, L)
  BY DEF Reuse
<1> HIDE DEF num, i, index, va
<1>6. i \in 1..L /\ index \in 1..L /\ index < i
  BY <1>2, <1>4 DEF Allocated
<1>7. entries[index] \in EntryType /\ va \in Int /\ size \in Int
  <2>1. Sum[index - 1] \in Int
    BY <1>4
  <2>2. Sum[index - 1] * PAGE_SIZE \in Int
    BY <2>1, PageAddress
  <2> QED BY <2>2, <1>2, <1>4, <1>6, HeapConstants
<1>8. /\ x \in EntryType /\ x.address = va /\ x.numOfPages = num /\ x.changed = TRUE
      /\ y \in EntryType /\ y.address = va + size /\ y.changed = FALSE
      /\ y.numOfPages = entries[index].numOfPages - num
      /\ x.numOfPages + y.numOfPages = entries[index].numOfPages
  <2>1. entries[index].numOfPages \in Int
    BY <1>7 DEF EntryType
  <2> QED BY <2>1, <1>1, <1>4, <1>7 DEF Entry, EntryType
<1> HIDE DEF x, y
<1>9. /\ entries' \in Seq(EntryType) /\ Len(entries') = L + 1
      /\ entries'[index] = x /\ entries'[index + 1] = y
      /\ \A k \in 1..(index - 1) : entries'[k] = entries[k]
      /\ \A k \in (index + 1)..L : entries'[k + 1] = entries[k]
  <2>1. entries' = Split(entries, index, x, y)
    BY <1>5 DEF Split
  <2>2. entries \in Seq(EntryType) /\ index \in 1..Len(entries) /\ x \in EntryType /\ y \in EntryType
    BY <1>2, <1>6, <1>8
  <2>3. IsSplit(Split(entries, index, x, y), entries, index, x, y)
    BY <2>2, SplitEntries
  <2> QED BY <2>1, <2>3 DEF IsSplit
<1>10. /\ \A k \in 0..(index - 1) : Sum'[k] = Sum[k]
       /\ Sum'[index] = Sum[index - 1] + num
       /\ \A k \in index..L : Sum'[k + 1] = Sum[k]
  BY <1>2, <1>6, <1>8, <1>9, SumSplit DEF Sum
\* The allocated entries before and behind the hole, and the new one.
<1>11. ASSUME NEW k \in Allocated, k < index
       PROVE  k \in Allocated' /\ entries'[k] = entries[k] /\ Sum'[k] = Sum[k] /\ Sum'[k - 1] = Sum[k - 1]
  <2>1. k \in 1..(index - 1) /\ k \in 0..(index - 1) /\ k - 1 \in 0..(index - 1) /\ k \in 1..(L + 1)
    BY <1>2, <1>6, <1>11 DEF Allocated
  <2> QED BY <2>1, <1>9, <1>10 DEF Allocated
<1>12. ASSUME NEW k \in Allocated, k >= index
       PROVE  /\ k >= i /\ k + 1 \in Allocated' /\ entries'[k + 1] = entries[k]
              /\ Sum'[k + 1] = Sum[k] /\ Sum'[k] = Sum[k - 1]
  <2>1. k >= i
    <3>1. k \in Int /\ i \in Int /\ index \in Int
      BY <1>6 DEF Allocated
    <3>2. k \notin index..(i - 1)
      BY <1>4
    <3> QED BY <3>1, <3>2, <1>12
  <2>2. k \in (index + 1)..L /\ k \in index..L /\ k - 1 \in index..L /\ (k - 1) + 1 = k /\ k + 1 \in 1..(L + 1)
    BY <1>2, <1>6, <2>1 DEF Allocated
  <2> QED BY <2>1, <2>2, <1>9, <1>10 DEF Allocated
<1>13. index \in Allocated' /\ Sum'[index - 1] = Sum[index - 1] /\ index - 1 \in 0..(index - 1)
  BY <1>2, <1>6, <1>8, <1>9, <1>10 DEF Allocated
<1>14. ASSUME NEW k \in Allocated'
       PROVE  \/ k \in Allocated /\ k < index
              \/ k = index
              \/ k - 1 \in Allocated /\ k - 1 >= index /\ (k - 1) + 1 = k
  <2>1. k \in 1..(L + 1) /\ entries'[k].changed
    BY <1>9 DEF Allocated
  <2>2. CASE k < index
    <3>1. k \in 1..(index - 1) /\ k \in 1..L
      BY <2>1, <2>2, <1>2, <1>6
    <3> QED BY <3>1, <2>1, <2>2, <1>9 DEF Allocated
  <2>3. CASE k > index + 1
    <3>1. k - 1 \in (index + 1)..L /\ k - 1 \in 1..L /\ (k - 1) + 1 = k /\ k - 1 >= index
      BY <2>1, <2>3, <1>2, <1>6
    <3>2. entries'[(k - 1) + 1] = entries[k - 1]
      BY <3>1, <1>9
    <3> QED BY <3>1, <3>2, <2>1 DEF Allocated
  <2>4. k # index + 1
    BY <2>1, <1>8, <1>9
  <2> QED BY <2>1, <2>2, <2>3, <2>4, <1>6
<1>15. EntriesTileTheHeap'
  <2>1. ASSUME NEW k \in 1..Len(entries') PROVE entries'[k].address = Sum'[k - 1] * PAGE_SIZE
    <3>1. k \in 1..(L + 1)
      BY <1>9
    <3>2. CASE k < index
      <4>1. k \in 1..(index - 1) /\ k - 1 \in 0..(index - 1) /\ k \in 1..L
        BY <3>1, <3>2, <1>2, <1>6
      <4>2. entries[k].address = Sum[k - 1] * PAGE_SIZE
        BY <4>1 DEF IInv, EntriesTileTheHeap, Sum
      <4> QED BY <4>1, <4>2, <1>9, <1>10
    <3>3. CASE k = index
      BY <3>3, <1>4, <1>8, <1>9, <1>13
    <3>4. CASE k = index + 1
      <4>1. k - 1 = index
        BY <3>4, <1>6
      <4>2. va + size = (Sum[index - 1] + num) * PAGE_SIZE
        <5>1. Sum[index - 1] \in Int /\ num \in Int
          BY <1>1, <1>4 DEF num
        <5>2. Sum[index - 1] * PAGE_SIZE + num * PAGE_SIZE = (Sum[index - 1] + num) * PAGE_SIZE
          BY <5>1, PagesAdd
        <5> QED BY <5>2, <1>1, <1>4 DEF num
      <4> QED BY <3>4, <4>1, <4>2, <1>8, <1>9, <1>10
    <3>5. CASE k > index + 1
      <4>1. /\ k - 1 \in (index + 1)..L /\ k - 1 \in 1..L /\ (k - 1) + 1 = k
            /\ (k - 1) - 1 \in index..L /\ ((k - 1) - 1) + 1 = k - 1
        BY <3>1, <3>5, <1>2, <1>6
      <4>2. entries[k - 1].address = Sum[(k - 1) - 1] * PAGE_SIZE
        BY <4>1 DEF IInv, EntriesTileTheHeap, Sum
      <4>3. entries'[k] = entries[k - 1]
        BY <4>1, <1>9
      <4>4. Sum'[k - 1] = Sum[(k - 1) - 1]
        BY <4>1, <1>10
      <4> QED BY <4>2, <4>3, <4>4
    <3> QED BY <3>1, <3>2, <3>3, <3>4, <3>5, <1>6
  <2>2. last_addres' = Sum'[Len(entries')] * PAGE_SIZE
    <3>1. L \in index..L
      BY <1>2, <1>6
    <3>2. last_addres = Sum[L] * PAGE_SIZE
      BY DEF IInv, EntriesTileTheHeap, Sum
    <3> QED BY <3>1, <3>2, <1>5, <1>9, <1>10
  <2> QED BY <2>1, <2>2 DEF EntriesTileTheHeap, Sum
<1>16. ASSUME NEW k \in Allocated PROVE k \in Nat /\ Sum[k] \in Nat /\ Sum[k - 1] \in Nat /\ Sum[k - 1] < Sum[k]
  BY EntryFacts
\* What is before the hole and what is behind it.
<1>17. ASSUME NEW k \in Allocated \cup {0}, k < index PROVE Sum[k] <= Sum[index - 1]
  <2>1. Sum[0] = 0
    BY EntryFacts
  <2>2. CASE k = index - 1
    BY <2>2, <1>4
  <2>3. CASE k # index - 1
    <3>1. k < index - 1 /\ index - 1 \in Allocated
      BY <2>3, <1>4, <1>6, <1>16, <1>17
    <3>2. Sum[k] <= Sum[(index - 1) - 1]
      BY <3>1, <2>1 DEF IInv, RunsNotNegative
    <3> QED BY <3>1, <3>2, <2>1, <1>16
  <2> QED BY <2>2, <2>3
<1>18. ASSUME NEW k \in Allocated \cup {L + 1}, k >= i PROVE Sum[i - 1] <= Sum[k - 1] /\ Sum[k - 1] \in Nat
  <2>1. Sum[k - 1] \in Nat
    <3>1. (L + 1) - 1 = L
      BY <1>2
    <3> QED BY <3>1, EntryFacts
  <2>2. CASE k = i
    BY <2>1, <2>2
  <2>3. CASE k # i
    <3>1. i < k
      BY <2>3, <1>2, <1>6, <1>16, <1>18
    <3>2. Sum[i] <= Sum[k - 1]
      BY <3>1, <1>4 DEF IInv, RunsNotNegative
    <3> QED BY <3>2, <2>1, <1>4, <1>16
  <2> QED BY <2>1, <2>2, <2>3
<1>19. RunsNotNegative'
  <2> SUFFICES ASSUME NEW q \in Allocated' \cup {Len(entries') + 1}, NEW p \in Allocated' \cup {0},
                      p < q
               PROVE  Sum'[p] <= Sum'[q - 1]
    BY DEF RunsNotNegative
  <2>1. Sum'[0] = 0 /\ Sum[0] = 0
    BY <1>6, <1>10, EntryFacts
  <2>2. p \in Int /\ q \in Int
    BY <1>2, <1>9 DEF Allocated
  <2>3. CASE q \in Allocated /\ q < index
    <3>1. p \in Allocated \cup {0} /\ p < index
      BY <2>2, <2>3, <1>6, <1>14
    <3>2. Sum[p] <= Sum[q - 1]
      BY <2>3, <3>1 DEF IInv, RunsNotNegative
    <3> QED BY <2>1, <2>3, <3>1, <3>2, <1>11
  <2>4. CASE q = index
    <3>1. p \in Allocated \cup {0} /\ p < index
      BY <2>2, <2>4, <1>6, <1>14
    <3>2. Sum'[p] = Sum[p]
      BY <3>1, <2>1, <1>11
    <3> QED BY <2>4, <3>1, <3>2, <1>13, <1>17
  <2>5. CASE q > index
    <3> DEFINE r == q - 1
    <3>1. r \in Allocated \cup {L + 1} /\ r >= i /\ Sum'[q - 1] = Sum[r - 1]
      <4>1. CASE q = Len(entries') + 1
        <5>1. q = L + 2 /\ r = L + 1 /\ q - 1 = L + 1 /\ r - 1 = L /\ L \in index..L
          BY <4>1, <1>2, <1>6, <1>9
        <5>2. Sum'[L + 1] = Sum[L]
          BY <5>1, <1>10
        <5> QED BY <5>1, <5>2, <1>6
      <4>2. CASE q \in Allocated'
        <5>1. r \in Allocated /\ r >= index
          BY <4>2, <2>2, <2>5, <1>6, <1>14
        <5> QED BY <5>1, <1>12
      <4> QED BY <4>1, <4>2
    <3> HIDE DEF r
    <3>2. CASE p \in Allocated \cup {0} /\ p < index
      <4>1. Sum'[p] = Sum[p]
        BY <3>2, <2>1, <1>11
      <4>2. p < r
        BY <3>1, <3>2, <2>2, <1>6, <1>2, <1>16
      <4>3. Sum[p] <= Sum[r - 1]
        BY <3>1, <3>2, <4>2 DEF IInv, RunsNotNegative
      <4> QED BY <3>1, <4>1, <4>3
    <3>3. CASE p = index
      BY <3>1, <3>3, <1>1, <1>4, <1>10, <1>18, SMTT(30) DEF num
    <3>4. CASE p - 1 \in Allocated /\ p - 1 >= index /\ (p - 1) + 1 = p
      <4>1. Sum'[p] = Sum[p - 1]
        BY <3>4, <1>12
      <4>2. p - 1 < r
        BY <2>2 DEF r
      <4>3. Sum[p - 1] <= Sum[r - 1]
        BY <3>1, <3>4, <4>2 DEF IInv, RunsNotNegative
      <4> QED BY <3>1, <4>1, <4>3
    <3> QED BY <3>2, <3>3, <3>4, <1>6, <1>14
  <2> QED BY <2>2, <2>3, <2>4, <2>5, <1>2, <1>6, <1>9, <1>14
<1>20. ASSUME NEW b \in blocks PROVE b.address # va
  <2> SUFFICES ASSUME b.address = va PROVE FALSE
    OBVIOUS
  <2>1. PICK k \in Allocated : b.address = Sum[k - 1] * PAGE_SIZE
    BY BlockFacts
  <2>2. Sum[k - 1] \in Int /\ Sum[index - 1] \in Int
    BY <1>4, <1>16
  <2>3. Sum[k - 1] * PAGE_SIZE = Sum[index - 1] * PAGE_SIZE
    BY <2>1, <1>4
  <2>4. Sum[k - 1] = Sum[index - 1]
    BY <2>2, <2>3, PagesCompare
  <2>5. CASE k < index
    <3>1. Sum[k] <= Sum[index - 1] /\ Sum[k - 1] < Sum[k] /\ Sum[k] \in Nat
      BY <2>5, <1>16, <1>17
    <3> QED BY <3>1, <2>2, <2>4
  <2>6. CASE k >= index
    <3>1. k >= i
      BY <2>6, <1>12
    <3>2. Sum[i - 1] <= Sum[k - 1]
      BY <3>1, <1>18
    <3> QED BY <3>2, <2>2, <2>4, <1>1, <1>4 DEF num
  <2> QED BY <2>5, <2>6, <1>6, <1>16
<1>21. /\ blocks' \subseteq [id : Nat, address : Int, size : Sizes, got : Nat]
       /\ \A b \in blocks' : b.got <= NumPages(b.size)
       /\ \A b \in blocks' : b.id < mallocs'
       /\ \A a, b \in blocks' : a.address = b.address \/ a.id = b.id => a = b
  BY <1>5, <1>7, <1>20, BlocksGrow
<1> DEFINE nb == [id |-> mallocs, address |-> va, size |-> size, got |-> got]
<1>22. blocks' = blocks \cup {nb} /\ nb.address = va /\ nb.size = size /\ nb.got = got
  BY <1>5 DEF Returns
<1> HIDE DEF nb
<1>23. BlocksAreEntries'
  <2>1. \A k \in Allocated' : entries'[k].numOfPages > 0
    <3> SUFFICES ASSUME NEW k \in Allocated' PROVE entries'[k].numOfPages > 0
      OBVIOUS
    <3>1. \A l \in Allocated : entries[l].numOfPages > 0
      BY DEF IInv, BlocksAreEntries
    <3>2. entries'[index].numOfPages > 0
      BY <1>1, <1>8, <1>9 DEF num
    <3> QED BY <3>1, <3>2, <1>11, <1>12, <1>14
  <2>2. ASSUME NEW l \in Allocated
        PROVE  \E k \in Allocated' : entries'[k] = entries[l]
    <3>1. l < index \/ l >= index
      BY <1>6, <1>16
    <3> QED BY <3>1, <1>11, <1>12
  <2>3. \A b \in blocks' : \E k \in Allocated' : /\ b.address = entries'[k].address
                                                 /\ b.size = entries'[k].numOfPages * PAGE_SIZE
    <3>1. ASSUME NEW b \in blocks
          PROVE  \E k \in Allocated' : /\ b.address = entries'[k].address
                                       /\ b.size = entries'[k].numOfPages * PAGE_SIZE
      <4>1. PICK l \in Allocated : /\ b.address = entries[l].address
                                   /\ b.size = entries[l].numOfPages * PAGE_SIZE
        BY DEF IInv, BlocksAreEntries
      <4> QED BY <4>1, <2>2
    <3>2. index \in Allocated' /\ nb.address = entries'[index].address
                               /\ nb.size = entries'[index].numOfPages * PAGE_SIZE
      BY <1>1, <1>8, <1>9, <1>13, <1>22 DEF num
    <3> QED BY <3>1, <3>2, <1>22
  <2>4. ASSUME NEW k \in Allocated' PROVE \E b \in blocks' : b.address = entries'[k].address
    <3>1. \A l \in Allocated : \E b \in blocks : b.address = entries[l].address
      BY DEF IInv, BlocksAreEntries
    <3>2. nb.address = entries'[index].address
      BY <1>8, <1>9, <1>22
    <3>3. CASE k \in Allocated /\ k < index
      BY <3>1, <3>3, <1>11, <1>22
    <3>4. CASE k = index
      BY <3>2, <3>4, <1>22
    <3>5. CASE k - 1 \in Allocated /\ k - 1 >= index /\ (k - 1) + 1 = k
      <4>1. entries'[k] = entries[k - 1]
        BY <3>5, <1>12
      <4> QED BY <3>1, <3>5, <4>1, <1>22
    <3> QED BY <3>3, <3>4, <3>5, <1>14
  <2> QED BY <2>1, <2>3, <2>4, <1>21 DEF BlocksAreEntries
<1>24. PageFileHoldsBlocks'
  BY <1>5, <1>22, PageFileGrows DEF IInv
<1>25. HeapType'
  BY <1>2, <1>5, <1>9, <1>21 DEF HeapType, IInv
<1>26. NothingFreed'
  BY <1>5 DEF NothingFreed
<1> QED BY <1>15, <1>19, <1>23, <1>24, <1>25, <1>26 DEF IInv

\* free finds the entry of the block, and no other.
LEMMA FoundEntry ==
  ASSUME IInv, NEW b \in blocks
  PROVE  /\ Found(b.address) # {}
         /\ Min(Found(b.address)) \in Allocated
         /\ entries[Min(Found(b.address))].address = b.address
         /\ entries[Min(Found(b.address))].numOfPages * PAGE_SIZE = b.size
<1> DEFINE F == Found(b.address)
<1>1. PICK i \in Allocated : /\ b.address = entries[i].address
                             /\ b.size = entries[i].numOfPages * PAGE_SIZE
  BY BlockFacts
<1>2. F = {j \in Allocated : entries[j].address = b.address}
  BY DEF Found, Allocated
<1>3. F \subseteq Nat /\ F # {}
  BY <1>1, <1>2 DEF Allocated
<1>4. \E x \in F : \A y \in F : x <= y
  <2> HIDE DEF F
  <2> QED BY <1>3, LeastNumber
<1>5. Min(F) \in F
  <2> HIDE DEF F
  <2> QED BY <1>4 DEF Min
<1>6. Min(F) = i
  BY <1>1, <1>2, <1>5, EntryOfAddress
<1> QED BY <1>1, <1>3, <1>6

LEMMA FreeKeeps ==
  ASSUME IInv, NEW b \in blocks, free(b)
  PROVE  IInv'
<1> DEFINE L == Len(entries)
           index == Min(Found(b.address))
<1>1. /\ Found(b.address) # {} /\ index \in Allocated
      /\ entries[index].address = b.address /\ entries[index].numOfPages * PAGE_SIZE = b.size
  BY FoundEntry
<1>2. /\ blocks' = blocks \ {b} /\ last_addres' = last_addres /\ mallocs' = mallocs
      /\ sys_freeMem(b.address, b.size)
      /\ entries' = [entries EXCEPT ![index].changed = FALSE]
      /\ changes' = TRUE
  BY <1>1 DEF free
<1> HIDE DEF index
<1>3. entries \in Seq(EntryType) /\ L \in Nat /\ index \in 1..L
  BY <1>1 DEF IInv, HeapType, Allocated
<1>4. /\ entries' \in Seq(EntryType) /\ Len(entries') = L
      /\ \A k \in 1..L : /\ entries'[k].address = entries[k].address
                         /\ entries'[k].numOfPages = entries[k].numOfPages
                         /\ entries'[k].changed <=> entries[k].changed /\ k # index
  <2>1. \A k \in 1..L : entries[k] \in EntryType
    BY <1>3
  <2>2. /\ [entries[index] EXCEPT !.changed = FALSE] \in EntryType
        /\ [entries[index] EXCEPT !.changed = FALSE].address = entries[index].address
        /\ [entries[index] EXCEPT !.changed = FALSE].numOfPages = entries[index].numOfPages
        /\ [entries[index] EXCEPT !.changed = FALSE].changed = FALSE
    BY <1>3, <2>1 DEF EntryType
  <2>3. entries' = [entries EXCEPT ![index] = [entries[index] EXCEPT !.changed = FALSE]]
    BY <1>2
  <2>4. entries' \in Seq(EntryType) /\ Len(entries') = L
    BY <2>2, <2>3, <1>3
  <2>5. \A k \in 1..L : entries'[k] = IF k = index THEN [entries[index] EXCEPT !.changed = FALSE]
                                                   ELSE entries[k]
    BY <2>3, <1>3
  <2> QED BY <2>1, <2>2, <2>4, <2>5
<1>5. Allocated' = Allocated \ {index}
  BY <1>3, <1>4 DEF Allocated
<1>6. \A k \in 0..L : Sum'[k] = Sum[k]
  <2>1. L \in 0..L /\ L <= Len(entries') /\ \A k \in 1..L : entries'[k].numOfPages = entries[k].numOfPages
    BY <1>3, <1>4
  <2> QED BY <2>1, <1>3, <1>4, SumSame DEF Sum
<1>7. EntriesTileTheHeap'
  <2>1. \A k \in 1..L : k - 1 \in 0..L
    BY <1>3
  <2>2. L \in 0..L
    BY <1>3
  <2> QED BY <2>1, <2>2, <1>2, <1>4, <1>6 DEF IInv, EntriesTileTheHeap, Sum
<1>8. RunsNotNegative'
  <2>1. \A k \in Allocated : k \in 0..L /\ k - 1 \in 0..L
    BY EntryFacts
  <2>2. 0 \in 0..L /\ (L + 1) - 1 \in 0..L
    BY <1>3
  <2> QED BY <2>1, <2>2, <1>4, <1>5, <1>6 DEF IInv, RunsNotNegative
<1>9. BlocksAreEntries'
  <2>1. \A k \in Allocated : k \in 1..L
    BY DEF Allocated
  <2>2. \A k \in Allocated' : entries'[k].numOfPages > 0
    BY <2>1, <1>4, <1>5 DEF IInv, BlocksAreEntries
  <2>3. ASSUME NEW c \in blocks'
        PROVE  \E i \in Allocated' : /\ c.address = entries'[i].address
                                     /\ c.size = entries'[i].numOfPages * PAGE_SIZE
    <3>1. PICK i \in Allocated : /\ c.address = entries[i].address
                                 /\ c.size = entries[i].numOfPages * PAGE_SIZE
      BY <1>2 DEF IInv, BlocksAreEntries
    <3>2. i # index
      BY <3>1, <1>1, <1>2 DEF IInv, BlocksAreEntries
    <3> QED BY <3>1, <3>2, <2>1, <1>4, <1>5
  <2>4. ASSUME NEW i \in Allocated' PROVE \E c \in blocks' : c.address = entries'[i].address
    <3>1. i \in Allocated /\ i # index
      BY <1>5
    <3>2. PICK c \in blocks : c.address = entries[i].address
      BY <3>1 DEF IInv, BlocksAreEntries
    <3>3. c # b
      BY <3>1, <3>2, <1>1, EntryOfAddress
    <3> QED BY <3>1, <3>2, <3>3, <2>1, <1>2, <1>4
  <2>5. /\ \A c \in blocks' : c.id < mallocs'
        /\ \A a, c \in blocks' : a.address = c.address \/ a.id = c.id => a = c
    BY <1>2 DEF IInv, BlocksAreEntries
  <2> QED BY <2>2, <2>3, <2>4, <2>5 DEF BlocksAreEntries
<1>10. PageFileHoldsBlocks'
  <2>1. ASSUME NEW p
        PROVE  p \in pf' <=> \E c \in blocks' : p \in PagesFrom(c.address, c.got)
    <3>1. p \in pf <=> \E c \in blocks : p \in PagesFrom(c.address, c.got)
      BY DEF IInv, PageFileHoldsBlocks
    <3>2. p \in pf' <=> p \in pf /\ p \notin PagesAt(b.address, b.size)
      BY <1>2 DEF sys_freeMem
    <3>3. \A c \in blocks : p \in PagesFrom(c.address, c.got) => p \in PagesAt(c.address, c.size)
      BY GotPages
    <3>4. \A c \in blocks : c # b /\ p \in PagesAt(c.address, c.size) => p \notin PagesAt(b.address, b.size)
      BY BlocksApart
    <3> QED BY <3>1, <3>2, <3>3, <3>4, <1>2
  <2>2. pf' = UNION {PagesFrom(c.address, c.got) : c \in blocks'}
    BY <2>1
  <2> QED BY <2>2 DEF PageFileHoldsBlocks
<1>11. HeapType' /\ NothingFreed'
  BY <1>2, <1>4 DEF HeapType, NothingFreed, IInv
<1> QED BY <1>7, <1>8, <1>9, <1>10, <1>11 DEF IInv

\* Every step keeps the invariant, if whole pages are asked for.
LEMMA NextKeeps ==
  ASSUME WholePages, IInv, [Next]_vars
  PROVE  IInv'
<1>1. ASSUME NEW size \in Sizes, malloc(size) PROVE IInv'
  <2>1. mallocs' = mallocs + 1
    BY <1>1 DEF malloc
  <2>2. CASE NoSpace(size) /\ UNCHANGED <<last_addres, changes, entries, pf, blocks>>
    <3>1. mallocs \in Nat /\ \A b \in blocks : b.id \in Nat /\ b.id < mallocs
      BY DEF IInv, HeapType, BlocksAreEntries
    <3>2. HeapType' /\ NothingFreed' /\ RunsNotNegative' /\ EntriesTileTheHeap' /\ PageFileHoldsBlocks'
      BY <2>1, <2>2, <3>1 DEF IInv, HeapType, NothingFreed, Allocated, RunsNotNegative, Sum,
                              EntriesTileTheHeap, PageFileHoldsBlocks
    <3>3. Allocated' = Allocated /\ entries' = entries /\ blocks' = blocks
      BY <2>2 DEF Allocated
    <3>4. \A b \in blocks : b.id < mallocs'
      BY <2>1, <3>1
    <3>5. BlocksAreEntries'
      BY <3>3, <3>4 DEF IInv, BlocksAreEntries
    <3> QED BY <3>2, <3>5 DEF IInv
  <2>3. ASSUME NEW room \in Rooms, Extend(size, Granted(size, room)) PROVE IInv'
    BY <2>1, <2>3, ExtendKeeps, GrantedPages
  <2>4. ASSUME NEW room \in Rooms, changes, Holes(NumPages(size)) # {},
               Reuse(size, Granted(size, room))
        PROVE  IInv'
    BY <2>1, <2>4, ReuseKeeps, GrantedPages
  <2> QED BY <1>1, <2>2, <2>3, <2>4 DEF malloc
<1>2. ASSUME NEW b \in blocks, free(b) PROVE IInv'
  BY <1>2, FreeKeeps
<1>3. CASE UNCHANGED vars
  BY <1>3 DEF vars, IInv, HeapType, NothingFreed, Allocated, RunsNotNegative, Sum, BlocksAreEntries,
              EntriesTileTheHeap, PageFileHoldsBlocks
<1> QED BY <1>1, <1>2, <1>3 DEF Next

\* The invariant of the heap, for every number of calls of malloc and free and
\* every sequence of requests of whole pages.
THEOREM Invariance == WholePages /\ Spec => []IInv
<1> SUFFICES ASSUME WholePages PROVE Spec => []IInv
  OBVIOUS
<1>1. IInv /\ [Next]_vars => IInv'
  BY NextKeeps
<1> QED BY <1>1, InitIInv, PTL DEF Spec

\* No byte belongs to two blocks that malloc has given out: addresses are
\* computed backwards from the entry behind a hole, and the rest of a split hole
\* may have a negative number of pages.
THEOREM BlocksKeptApart == WholePages /\ Spec => []BlocksDisjoint
<1> SUFFICES ASSUME WholePages PROVE Spec => []BlocksDisjoint
  OBVIOUS
<1> QED BY Invariance, IInvImplies, PTL

\* The arrays of the library, the blocks of the program and the page file of the
\* kernel describe one heap.
THEOREM HeapKept == WholePages /\ Spec => []HeapConsistent
<1> SUFFICES ASSUME WholePages PROVE Spec => []HeapConsistent
  OBVIOUS
<1> QED BY Invariance, IInvImplies, PTL

-----------------------------------------------------------------------------
(* Best fit *)

\* The pages in use are those of the allocated entries.
LEMMA PagesInUse ==
  ASSUME IInv, NEW p
  PROVE  p \in InUse <=> \E k \in Allocated : p \in Sum[k - 1]..(Sum[k] - 1)
<1>1. p \in InUse <=> \E b \in blocks : p \in PagesAt(b.address, b.size)
  BY DEF InUse
<1>2. ASSUME NEW b \in blocks, p \in PagesAt(b.address, b.size)
      PROVE  \E k \in Allocated : p \in Sum[k - 1]..(Sum[k] - 1)
  BY <1>2, BlockFacts
<1>3. ASSUME NEW k \in Allocated, p \in Sum[k - 1]..(Sum[k] - 1) PROVE p \in InUse
  <2>1. PICK b \in blocks : b.address = entries[k].address
    BY DEF IInv, BlocksAreEntries
  <2>2. PICK i \in Allocated : /\ b.address = entries[i].address
                               /\ PagesAt(b.address, b.size) = Sum[i - 1]..(Sum[i] - 1)
    BY BlockFacts
  <2>3. i = k
    BY <2>1, <2>2, EntryOfAddress
  <2> QED BY <2>2, <2>3, <1>1, <1>3
<1> QED BY <1>1, <1>2, <1>3

\* Entries in order, also those with nothing between them.
LEMMA EntriesOrdered ==
  ASSUME IInv, NEW i \in Allocated \cup {0}, NEW j \in Allocated, i <= j
  PROVE  /\ Sum[i] \in Nat /\ Sum[i] <= Sum[j] /\ (i < j => Sum[i] <= Sum[j - 1])
         /\ (i \in Allocated => Sum[i - 1] <= Sum[j - 1])
<1>1. Sum[0] = 0 /\ j \in Int /\ i \in Int
  BY EntryFacts
<1>2. \A k \in Allocated : Sum[k - 1] \in Nat /\ Sum[k] \in Nat /\ Sum[k - 1] < Sum[k]
  BY EntryFacts, SMTT(30)
<1>3. i < j => Sum[i] <= Sum[j - 1]
  BY DEF IInv, RunsNotNegative
<1>4. CASE i < j
  BY <1>1, <1>2, <1>3, <1>4
<1>5. CASE i = j
  <2>1. i \in Allocated /\ ~(i < j)
    BY <1>1, <1>5
  <2> QED BY <2>1, <1>2, <1>5
<1> QED BY <1>1, <1>4, <1>5

\* A gap that is large enough, and not too large for the initial minimum, is a
\* hole that malloc finds, of the same size.
LEMMA GapIsHole ==
  ASSUME IInv, NEW size \in Sizes, WholePages, NEW g \in Fits(size), g[2] - g[1] < LargestHole
  PROVE  \E i \in Holes(NumPages(size)) :
           g[1] = Sum[RunStart(i) - 1] /\ g[2] = Sum[i - 1] /\ Count(i) = g[2] - g[1]
<1> DEFINE num == NumPages(size)
<1>1. num \in Nat \ {0}
  BY PagesOfSize
<1>2. /\ g[1] \in Nat /\ g[2] \in Nat /\ g[1] < g[2]
      /\ \A p \in g[1]..(g[2] - 1) : p \notin InUse
      /\ g[1] = 0 \/ g[1] - 1 \in InUse
      /\ g[2] \in InUse
      /\ num <= g[2] - g[1] /\ g[2] - g[1] < LargestHole
  BY DEF Fits, Gaps
<1> HIDE DEF num
<1>3. PICK i \in Allocated : g[2] \in Sum[i - 1]..(Sum[i] - 1)
  BY <1>2, PagesInUse
<1>4. i \in 1..Len(entries) /\ Sum[i - 1] \in Nat /\ Sum[i] \in Nat /\ Sum[i - 1] < Sum[i]
  BY EntryFacts
<1>5. g[2] = Sum[i - 1]
  <2> SUFFICES ASSUME g[2] # Sum[i - 1] PROVE FALSE
    OBVIOUS
  <2>1. g[2] - 1 \in Sum[i - 1]..(Sum[i] - 1) /\ g[2] - 1 \in g[1]..(g[2] - 1)
    <3>1. /\ g[1] \in Int /\ g[2] \in Int /\ g[1] < g[2]
          /\ Sum[i - 1] <= g[2] /\ g[2] <= Sum[i] - 1
      BY <1>2, <1>3, <1>4
    <3> QED BY <3>1, <1>4
  <2> QED BY <2>1, <1>2, PagesInUse
<1>6. PICK k \in Allocated \cup {0} : g[1] = Sum[k]
  <2>1. CASE g[1] = 0
    BY <2>1, EntryFacts
  <2>2. CASE g[1] - 1 \in InUse
    <3>1. PICK k \in Allocated : g[1] - 1 \in Sum[k - 1]..(Sum[k] - 1)
      BY <2>2, PagesInUse
    <3>2. Sum[k - 1] \in Nat /\ Sum[k] \in Nat
      BY EntryFacts
    <3>3. g[1] \notin Sum[k - 1]..(Sum[k] - 1)
      BY <1>2, PagesInUse
    <3>4. g[1] = Sum[k]
      BY <3>1, <3>2, <3>3, <1>2
    <3> QED BY <3>4
  <2> QED BY <2>1, <2>2, <1>2
<1>7. k < i /\ k \in Int /\ i \in Int
  <2>1. k \in Int /\ i \in Int
    BY EntryFacts
  <2>2. ASSUME i <= k PROVE FALSE
    <3>1. k \in Allocated
      BY <2>2, <1>4
    <3>2. i \in Allocated \cup {0} /\ i <= k
      BY <2>2
    <3>3. Sum[i] <= Sum[k] /\ Sum[k] \in Nat
      BY <3>1, <3>2, EntriesOrdered, EntryFacts
    <3> QED BY <3>3, <1>2, <1>4, <1>5, <1>6
  <2> QED BY <2>1, <2>2
<1> DEFINE j == RunStart(i)
<1>8. /\ j \in 1..i /\ \A l \in j..(i - 1) : l \notin Allocated
      /\ j - 1 \in Allocated \cup {0}
      /\ Count(i) = Sum[i - 1] - Sum[j - 1]
  <2>1. entries \in Seq(EntryType) /\ Len(entries) \in Nat /\ i \in 1..(Len(entries) + 1) /\ i \in Nat \ {0}
    BY <1>4 DEF IInv, HeapType
  <2>2. /\ j \in 1..i /\ \A l \in j..(i - 1) : ~entries[l].changed
        /\ j = 1 \/ entries[j - 1].changed
    BY <2>1, RunDefined
  <2>3. Count(i) = Sum[i - 1] - Sum[j - 1]
    BY <2>1, CountDifference DEF Sum
  <2> HIDE DEF j
  <2> QED BY <2>1, <2>2, <2>3, <1>4 DEF Allocated
<1> HIDE DEF j
<1>9. k = j - 1
  <2> SUFFICES ASSUME k # j - 1 PROVE FALSE
    OBVIOUS
  <2>1. k < j - 1 /\ j - 1 \in Allocated /\ j - 1 < i /\ j \in Int /\ k \in Int /\ i \in Int
    <3>1. k \notin j..(i - 1)
      BY <1>7, <1>8, <1>4
    <3>2. j \in Int /\ 1 <= j /\ j <= i /\ k \in Int /\ 0 <= k /\ k < i /\ i \in Int
      BY <1>7, <1>8, EntryFacts
    <3>3. k < j - 1 /\ j - 1 # 0
      BY <3>1, <3>2
    <3> QED BY <3>2, <3>3, <1>8
  <2>2. Sum[k] <= Sum[(j - 1) - 1] /\ Sum[j - 1] <= Sum[i - 1]
    <3>1. k <= j - 1 /\ j - 1 <= i
      BY <2>1
    <3>2. k < j - 1 => Sum[k] <= Sum[(j - 1) - 1]
      BY <2>1, <3>1, EntriesOrdered
    <3>3. j - 1 < i => Sum[j - 1] <= Sum[i - 1]
      BY <2>1, <3>1, EntriesOrdered
    <3> QED BY <2>1, <3>2, <3>3
  <2>3. Sum[(j - 1) - 1] \in Nat /\ Sum[j - 1] \in Nat /\ Sum[(j - 1) - 1] < Sum[j - 1]
    <3> DEFINE m == j - 1
    <3>1. m \in Allocated
      BY <2>1
    <3> HIDE DEF m
    <3>2. /\ entries[m].numOfPages \in Nat \ {0} /\ Sum[m] = Sum[m - 1] + entries[m].numOfPages
          /\ Sum[m - 1] \in Nat /\ Sum[m] \in Nat
      BY <3>1, EntryFacts
    <3>3. Sum[m - 1] < Sum[m]
      BY <3>2
    <3> QED BY <3>2, <3>3 DEF m
  <2>4. /\ Sum[(j - 1) - 1] \in g[1]..(g[2] - 1)
        /\ Sum[(j - 1) - 1] \in Sum[(j - 1) - 1]..(Sum[j - 1] - 1)
    BY <2>2, <2>3, <1>2, <1>4, <1>5, <1>6
  <2> QED BY <2>1, <2>4, <1>2, PagesInUse
<1>10. Count(i) = g[2] - g[1]
  BY <1>5, <1>6, <1>8, <1>9
<1>11. i \in Holes(num)
  BY <1>1, <1>2, <1>4, <1>10 DEF Holes, Allocated
<1> QED BY <1>5, <1>6, <1>9, <1>10, <1>11 DEF j, num

\* The page behind the highest one in use.
LEMMA TopExists ==
  ASSUME IInv
  PROVE  LET Top == Max({0} \cup {p + 1 : p \in InUse})
         IN  Top \in Int /\ \A p \in InUse : p \in Nat /\ p < Top
<1> DEFINE T == {0} \cup {p + 1 : p \in InUse}
           N == Sum[Len(entries)]
           D == {N - x : x \in T}
<1>1. N \in Nat
  BY EntryFacts
<1>2. ASSUME NEW p \in InUse PROVE p \in Nat /\ p + 1 <= N
  <2>1. PICK k \in Allocated : p \in Sum[k - 1]..(Sum[k] - 1)
    BY PagesInUse
  <2>2. Sum[k - 1] \in Nat /\ Sum[k] \in Nat /\ Sum[k] <= N
    BY EntryFacts
  <2> HIDE DEF N
  <2> QED BY <2>1, <2>2, <1>1
<1> HIDE DEF N
<1>3. \A x \in T : x \in Nat /\ x <= N
  BY <1>1, <1>2
<1>4. D \subseteq Nat /\ D # {}
  BY <1>1, <1>3
<1>5. PICK d \in D : \A e \in D : d <= e
  <2> HIDE DEF D
  <2> QED BY <1>4, LeastNumber
<1>6. PICK x \in T : d = N - x
  OBVIOUS
<1>7. \A y \in T : x >= y
  <2> SUFFICES ASSUME NEW y \in T PROVE x >= y
    OBVIOUS
  <2>1. N - y \in D
    OBVIOUS
  <2>2. x \in Nat /\ y \in Nat /\ N - x <= N - y
    BY <2>1, <1>3, <1>5, <1>6
  <2> QED BY <2>2, <1>1
<1>8. Max(T) \in T /\ \A y \in T : Max(T) >= y
  <2> HIDE DEF T
  <2> QED BY <1>7 DEF Max
<1>9. ASSUME NEW p \in InUse PROVE p \in Nat /\ p < Max(T)
  <2>1. p + 1 \in T /\ p \in Nat /\ Max(T) \in Nat
    BY <1>2, <1>3, <1>8
  <2>2. Max(T) >= p + 1
    BY <2>1, <1>8
  <2> HIDE DEF T
  <2> QED BY <2>1, <2>2
<1> HIDE DEF T
<1>10. Max(T) \in Int
  BY <1>3, <1>8
<1>11. Max(T) \in Int /\ \A p \in InUse : p \in Nat /\ p < Max(T)
  BY <1>9, <1>10
<1> QED BY <1>11 DEF T

\* A hole that malloc finds is a gap.
LEMMA HoleIsGap ==
  ASSUME IInv, WholePages, NEW size \in Sizes, NEW i \in Holes(NumPages(size))
  PROVE  <<Sum[RunStart(i) - 1], Sum[i - 1]>> \in Fits(size)
<1> DEFINE num == NumPages(size)
           index == RunStart(i)
           a == Sum[index - 1]
           z == Sum[i - 1]
           Top == Max({0} \cup {p + 1 : p \in InUse})
<1>1. num \in Nat \ {0}
  BY PagesOfSize
<1>2. /\ i \in Allocated /\ index \in 1..(i - 1) /\ index - 1 \in Allocated \cup {0}
      /\ \A k \in index..(i - 1) : k \notin Allocated
      /\ Count(i) = z - a /\ z \in Int /\ a \in Nat /\ a + num <= z
  BY <1>1, HoleFacts
<1>3. Count(i) >= num /\ Count(i) < LargestHole
  BY DEF Holes
<1>4. Sum[i] \in Nat /\ z < Sum[i] /\ i \in Nat /\ Sum[0] = 0
  BY <1>2, EntryFacts, SMTT(30)
<1> HIDE DEF num, index
<1>5. z \in InUse
  <2>1. z \in z..(Sum[i] - 1)
    BY <1>2, <1>4
  <2> QED BY <2>1, <1>2, PagesInUse
<1>6. a = 0 \/ a - 1 \in InUse
  <2>1. CASE index - 1 = 0
    BY <2>1, <1>4
  <2>2. CASE index - 1 \in Allocated
    <3>1. Sum[(index - 1) - 1] \in Nat /\ Sum[(index - 1) - 1] < a
      BY <2>2, EntryFacts
    <3>2. a - 1 \in Sum[(index - 1) - 1]..(a - 1)
      BY <3>1, <1>2
    <3> QED BY <2>2, <3>2, PagesInUse
  <2> QED BY <2>1, <2>2, <1>2
<1>7. ASSUME NEW p \in a..(z - 1) PROVE p \notin InUse
  <2> SUFFICES ASSUME p \in InUse PROVE FALSE
    OBVIOUS
  <2>1. PICK k \in Allocated : p \in Sum[k - 1]..(Sum[k] - 1)
    BY PagesInUse
  <2>2. k \in Nat /\ Sum[k - 1] \in Nat /\ Sum[k] \in Nat
    BY EntryFacts
  <2>3. CASE k <= index - 1
    <3>1. index - 1 \in Allocated
      BY <2>2, <2>3, <1>2, EntryFacts
    <3>2. Sum[k] <= a
      BY <2>3, <3>1, EntriesOrdered
    <3> QED BY <3>2, <2>1, <2>2, <1>2
  <2>4. CASE k >= i
    <3>1. i <= k /\ i \in Allocated \cup {0}
      BY <2>4, <1>2
    <3>2. z <= Sum[k - 1]
      BY <3>1, <1>2, EntriesOrdered
    <3> QED BY <3>2, <2>1, <2>2, <1>2
  <2>5. k \notin index..(i - 1)
    BY <1>2
  <2> QED BY <2>2, <2>3, <2>4, <2>5, <1>2, <1>4
<1>8. Top \in Int /\ \A p \in InUse : p < Top
  BY TopExists
<1> HIDE DEF Top
<1>9. a < z /\ z \in Nat
  BY <1>1, <1>2, SMTT(30) DEF num
<1> HIDE DEF a, z
<1>10. a \in 0..Top /\ z \in 0..Top
  <2>1. z < Top
    BY <1>5, <1>8
  <2> QED BY <2>1, <1>2, <1>8, <1>9
<1>11. <<a, z>> \in Gaps
  <2> DEFINE g == <<a, z>>
  <2>1. g \in (0..Top) \X (0..Top) /\ g[1] = a /\ g[2] = z
    BY <1>10
  <2>2. g[1] < g[2] /\ g[1]..(g[2] - 1) \cap InUse = {}
    BY <2>1, <1>7, <1>9
  <2> HIDE DEF g
  <2>3. g \in Gaps
    BY <2>1, <2>2, <1>5, <1>6 DEF Gaps, Top
  <2> QED BY <2>3 DEF g
<1>12. num <= z - a
  BY <1>2, <1>3
<1> QED BY <1>11, <1>12 DEF Fits, num, a, z, index

\* malloc puts every block into the best gap.
THEOREM BlocksFitBest == WholePages /\ Spec => BestFit
<1> DEFINE Best(b, g) == /\ b.address = g[1] * PAGE_SIZE
                         /\ \A h \in Fits(b.size) : \/ g[2] - g[1] < h[2] - h[1]
                                                    \/ g[2] - g[1] = h[2] - h[1] /\ g[1] <= h[1]
           Placed == \A b \in blocks' \ blocks :
                       (\E g \in Fits(b.size) : g[2] - g[1] < LargestHole) => \E g \in Fits(b.size) : Best(b, g)
<1> SUFFICES ASSUME WholePages PROVE Spec => BestFit
  OBVIOUS
<1>1. ASSUME IInv, NEW size \in Sizes, malloc(size) PROVE Placed
  <2> DEFINE num == NumPages(size)
  <2>1. num \in Nat \ {0}
    BY PagesOfSize
  <2> SUFFICES ASSUME NEW b \in blocks' \ blocks,
                      \E g \in Fits(b.size) : g[2] - g[1] < LargestHole
               PROVE  \E g \in Fits(b.size) : Best(b, g)
    OBVIOUS
  <2>2. ASSUME NEW room \in Rooms, Extend(size, Granted(size, room)), ~changes \/ Holes(num) = {}
        PROVE  \E g \in Fits(b.size) : Best(b, g)
    <3>1. b.size = size
      BY <2>2 DEF Extend, Returns
    <3>2. PICK g \in Fits(size) : g[2] - g[1] < LargestHole
      BY <3>1
    <3>3. PICK i \in Holes(num) : TRUE
      BY <1>1, <3>2, GapIsHole
    <3>4. i \in Allocated /\ RunStart(i) \in 1..(i - 1) /\ RunStart(i) \notin Allocated
      <4>1. i \in Allocated /\ RunStart(i) \in 1..(i - 1) /\ \A k \in RunStart(i)..(i - 1) : k \notin Allocated
        BY <1>1, <2>1, <3>3, HoleFacts
      <4>2. RunStart(i) \in RunStart(i)..(i - 1)
        BY <4>1
      <4> QED BY <4>1, <4>2
    <3>5. RunStart(i) \in 1..Len(entries)
      BY <3>4 DEF Allocated
    <3> QED BY <1>1, <2>2, <3>3, <3>4, <3>5 DEF IInv, NothingFreed
  <2>3. ASSUME NEW room \in Rooms, Reuse(size, Granted(size, room)), Holes(num) # {}
        PROVE  \E g \in Fits(b.size) : Best(b, g)
    <3> DEFINE i == BestHole(num)
               g == <<Sum[RunStart(i) - 1], Sum[i - 1]>>
    <3>1. /\ i \in Holes(num)
          /\ \A j \in Holes(num) : Count(i) < Count(j) \/ (Count(i) = Count(j) /\ i <= j)
      BY <1>1, <2>1, <2>3, BestHoleExists DEF IInv, HeapType
    <3>2. b.size = size /\ b.address = entries[i].address - Count(i) * PAGE_SIZE
      BY <2>3 DEF Reuse, Returns
    <3> HIDE DEF i
    <3>3. g \in Fits(size) /\ g[1] = Sum[RunStart(i) - 1] /\ g[2] = Sum[i - 1]
      BY <1>1, <3>1, HoleIsGap
    <3>4. /\ i \in Allocated /\ b.address = g[1] * PAGE_SIZE /\ Count(i) = g[2] - g[1]
          /\ g[1] \in Int /\ g[2] \in Int
      BY <1>1, <2>1, <3>1, <3>2, HoleFacts
    <3> HIDE DEF g
    <3>5. ASSUME NEW h \in Fits(size)
          PROVE  g[2] - g[1] < h[2] - h[1] \/ (g[2] - g[1] = h[2] - h[1] /\ g[1] <= h[1])
      <4>0. CASE h[2] - h[1] >= LargestHole
        <5>1. Count(i) < LargestHole /\ LargestHole \in Nat /\ h[1] \in Int /\ h[2] \in Int
          BY <3>1, HeapConstants DEF Holes, Fits, Gaps
        <5> QED BY <5>1, <4>0, <3>4
      <4> SUFFICES ASSUME h[2] - h[1] < LargestHole
                   PROVE  g[2] - g[1] < h[2] - h[1] \/ (g[2] - g[1] = h[2] - h[1] /\ g[1] <= h[1])
        <5>1. LargestHole \in Int /\ h[2] - h[1] \in Int
          BY HeapConstants DEF Fits, Gaps
        <5> QED BY <5>1, <4>0
      <4>1. PICK j \in Holes(num) :
              h[1] = Sum[RunStart(j) - 1] /\ h[2] = Sum[j - 1] /\ Count(j) = h[2] - h[1]
        BY <1>1, GapIsHole
      <4>2. j \in Allocated /\ h[1] \in Int /\ h[2] \in Int
        BY <1>1, <2>1, <4>1, HoleFacts
      <4>3. CASE Count(i) < Count(j)
        BY <3>4, <4>1, <4>3
      <4>4. CASE Count(i) = Count(j) /\ i <= j
        <5>1. Sum[i - 1] <= Sum[j - 1]
          BY <1>1, <3>4, <4>2, <4>4, EntriesOrdered
        <5> QED BY <5>1, <3>3, <3>4, <4>1, <4>2, <4>4
      <4> QED BY <3>1, <4>3, <4>4
    <3> QED BY <3>2, <3>3, <3>4, <3>5
  <2>4. CASE blocks' = blocks
    BY <2>4
  <2> HIDE DEF Best
  <2> QED BY <1>1, <2>2, <2>3, <2>4 DEF malloc
<1>2. ASSUME NEW b \in blocks, free(b) PROVE Placed
  BY <1>2 DEF free
<1>3. IInv /\ [Next]_vars => [Placed]_vars
  <2> HIDE DEF Placed
  <2> QED BY <1>1, <1>2 DEF Next
<1>4. Spec => []IInv
  BY Invariance
<1> QED BY <1>3, <1>4, PTL DEF Spec, BestFit

=============================================================================
