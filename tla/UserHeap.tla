------------------------------ MODULE UserHeap ------------------------------
(***************************************************************************)
(* malloc and free of the user library (lib/uheap.c), with the effect that *)
(* sys_allocateMem and sys_freeMem have on the page file.                  *)
(*                                                                         *)
(* The parallel arrays addresses, numOfPages and changed (up to            *)
(* sizeofarray) are one sequence of entries, in the order of the array.    *)
(* Addresses and sizes are in units of which a page has PAGE_SIZE; an      *)
(* address is counted from USER_HEAP_START.                                *)
(***************************************************************************)
EXTENDS Integers, Sequences, FiniteSets, FiniteSetsExt

CONSTANTS
  PAGE_SIZE,
  HeapSize,    \* USER_HEAP_MAX - USER_HEAP_START
  LargestHole, \* initial value of "min", in pages: larger holes are not used
  Sizes,       \* sizes that the program asks for
  Rooms,       \* numbers of free frames that malloc may find in the page file
  MaxMallocs   \* bound on the calls of malloc

ASSUME HeapConstants ==
  /\ PAGE_SIZE \in Nat \ {0} /\ HeapSize \in Nat /\ LargestHole \in Nat
  /\ Sizes \subseteq Nat \ {0} /\ Rooms \subseteq Nat /\ MaxMallocs \in Nat

VARIABLES
  last_addres,
  changes,   \* a block has been freed
  entries,   \* sequence of [address, numOfPages, changed]
  pf,        \* pages that the kernel has allocated in the page file
  blocks,    \* what the program holds: [id, address, size, got], got the number
             \* of its pages for which the page file had a frame
  mallocs    \* calls of malloc so far

vars == <<last_addres, changes, entries, pf, blocks, mallocs>>

-----------------------------------------------------------------------------
(* The kernel *)

NumPages(size) == (size + PAGE_SIZE - 1) \div PAGE_SIZE

PagesFrom(va, n) == (va \div PAGE_SIZE)..((va \div PAGE_SIZE) + n - 1)

PagesAt(va, size) == PagesFrom(va, NumPages(size))

\* The pages of a block that get a frame when the page file has room for so many.
\* The page file is shared with the other programs.
Granted(size, room) == IF room < NumPages(size) THEN room ELSE NumPages(size)

\* allocateMem ignores that pf_add_empty_env_page finds the page file full:
\* the program is not told that the pages from there on do not exist.
sys_allocateMem(va, got) == pf' = pf \cup PagesFrom(va, got)
sys_freeMem(va, size)    == pf' = pf \ PagesAt(va, size)

-----------------------------------------------------------------------------
(* malloc *)

Entry(a, n, c) == [address |-> a, numOfPages |-> n, changed |-> c]

\* First entry of the run of freed entries that ends before entry i.
RunStart(i) == Min({j \in 1..i : \A k \in j..(i - 1) : ~entries[k].changed})

\* "count" when the loop meets entry i.
Count(i) ==
  LET count[k \in 0..Len(entries)] ==
        IF k = 0 THEN 0
        ELSE IF entries[k].changed THEN 0 ELSE count[k - 1] + entries[k].numOfPages
  IN  count[i - 1]

\* The entries that end a hole of at least num pages.
Holes(num) ==
  {i \in 1..Len(entries) : entries[i].changed /\ Count(i) >= num /\ Count(i) < LargestHole}

\* Mutant of BestHole: "min" is not updated, so that the last hole is taken.
BestHole_last(num) == CHOOSE i \in Holes(num) : \A j \in Holes(num) : i >= j

\* The first of the smallest holes.
BestHole(num) ==
  CHOOSE i \in Holes(num) :
    \A j \in Holes(num) : Count(i) < Count(j) \/ (Count(i) = Count(j) /\ i <= j)

Returns(va, size, got) ==
  blocks' = blocks \cup {[id |-> mallocs, address |-> va, size |-> size, got |-> got]}

\* The block is placed behind all others.
Extend(size, got) ==
  /\ sys_allocateMem(last_addres, got)
  /\ last_addres' = last_addres + NumPages(size) * PAGE_SIZE
  /\ entries' = Append(entries, Entry(last_addres, NumPages(size), TRUE))
  /\ Returns(last_addres, size, got)
  /\ UNCHANGED changes

\* Mutant of Reuse: the rest of the hole is counted from the whole of it.
Reuse_whole_hole(size, got) ==
  LET num   == NumPages(size)
      i     == BestHole(num)
      index == RunStart(i)
      va    == entries[i].address - Count(i) * PAGE_SIZE
  IN  /\ sys_allocateMem(va, got)
      /\ entries' =
           SubSeq(entries, 1, index - 1)
             \o <<Entry(entries[index].address, num, TRUE),
                  Entry(va + size, Count(i) - num, FALSE)>>
             \o SubSeq(entries, index + 1, Len(entries))
      /\ Returns(va, size, got)
      /\ UNCHANGED <<last_addres, changes>>

\* The block is placed at the start of the best hole, whose first entry it
\* takes over; a new entry for the rest is inserted behind it.
Reuse(size, got) ==
  LET num   == NumPages(size)
      i     == BestHole(num)
      index == RunStart(i)
      va    == entries[i].address - Count(i) * PAGE_SIZE
  IN  /\ sys_allocateMem(va, got)
      /\ entries' =
           SubSeq(entries, 1, index - 1)
             \o <<Entry(entries[index].address, num, TRUE),
                  Entry(va + size, entries[index].numOfPages - num, FALSE)>>
             \o SubSeq(entries, index + 1, Len(entries))
      /\ Returns(va, size, got)
      /\ UNCHANGED <<last_addres, changes>>

\* malloc returns NULL.  The difference is unsigned: it is never too small once
\* last_addres is beyond the heap.
NoSpace(size) ==
  \/ size > HeapSize
  \/ /\ changes /\ Holes(NumPages(size)) = {}
     /\ last_addres <= HeapSize /\ size > HeapSize - last_addres

malloc(size) ==
  /\ mallocs < MaxMallocs
  /\ mallocs' = mallocs + 1
  /\ \/ NoSpace(size) /\ UNCHANGED <<last_addres, changes, entries, pf, blocks>>
     \/ /\ ~NoSpace(size) /\ (~changes \/ Holes(NumPages(size)) = {})
        /\ \E room \in Rooms : Extend(size, Granted(size, room))
     \/ /\ ~NoSpace(size) /\ changes /\ Holes(NumPages(size)) # {}
        /\ \E room \in Rooms : Reuse(size, Granted(size, room))

-----------------------------------------------------------------------------
(* free *)

\* Mutant of Found: entries of freed blocks are found too.
Found_freed(va) == {i \in 1..Len(entries) : entries[i].address = va}

Found(va) == {i \in 1..Len(entries) : entries[i].address = va /\ entries[i].changed}

\* The program frees a block it holds; an address that is not found is ignored.
free(b) ==
  /\ b \in blocks
  /\ blocks' = blocks \ {b}
  /\ IF Found(b.address) = {} THEN UNCHANGED <<entries, changes, pf>>
     ELSE LET index == Min(Found(b.address))
          IN  /\ sys_freeMem(b.address, entries[index].numOfPages * PAGE_SIZE)
              /\ entries' = [entries EXCEPT ![index].changed = FALSE]
              /\ changes' = TRUE
  /\ UNCHANGED <<last_addres, mallocs>>

-----------------------------------------------------------------------------

Init ==
  /\ last_addres = 0
  /\ changes = FALSE
  /\ entries = <<>>
  /\ pf = {}
  /\ blocks = {}
  /\ mallocs = 0

Next ==
  \/ \E size \in Sizes : malloc(size)
  \/ \E b \in blocks : free(b)

Spec == Init /\ [][Next]_vars

-----------------------------------------------------------------------------
(* Properties *)

\* The pages of the first k entries of es, by k.
PagesUpTo(es) ==
  LET sum[k \in 0..Len(es)] == IF k = 0 THEN 0 ELSE sum[k - 1] + es[k].numOfPages
  IN  sum

\* The address of every entry follows from the entries before it, freed and
\* split ones included, and last_addres from all: malloc computes the address of
\* a hole from the entry behind it, although the rest of a split hole may be
\* recorded with a negative numOfPages.
EntriesTileTheHeap ==
  /\ \A i \in 1..Len(entries) : entries[i].address = PagesUpTo(entries)[i - 1] * PAGE_SIZE
  /\ last_addres = PagesUpTo(entries)[Len(entries)] * PAGE_SIZE

\* No byte belongs to two blocks that the program holds.
BlocksDisjoint ==
  \A a, b \in blocks :
    a.id # b.id => \/ a.address + a.size <= b.address
                   \/ b.address + b.size <= a.address

\* The page file keeps the pages that it granted to the blocks that the program
\* holds, and no others: free finds each block with its size, and takes no page
\* of another.
PageFileHoldsBlocks == pf = UNION {PagesFrom(b.address, b.got) : b \in blocks}

\* kern/memory_manager.c: "This function should allocate ALL pages of the required
\* range in the PAGE FILE".  Every page of a block is in the page file.
BlocksAreBacked == \A b \in blocks : PagesAt(b.address, b.size) \subseteq pf

\* The pages of the blocks that the program holds.
InUse == UNION {PagesAt(b.address, b.size) : b \in blocks}

\* The maximal runs of free pages below a block, from the pages in use alone:
\* their first page and the page behind them.
Gaps ==
  LET Top == Max({0} \cup {p + 1 : p \in InUse})
  IN  {g \in (0..Top) \X (0..Top) :
         /\ g[1] < g[2] /\ g[1]..(g[2] - 1) \cap InUse = {}
         /\ g[1] = 0 \/ g[1] - 1 \in InUse
         /\ g[2] \in InUse}

\* The gaps that can take a block of this size.
Fits(size) == {g \in Gaps : NumPages(size) <= g[2] - g[1]}

\* lib/uheap.c: "This function should find the space of the required range using
\* the BEST FIT strategy".  A block goes to the first of the smallest gaps below
\* the highest block that can take it, if one of those that can is smaller than
\* the initial minimum.  (If all are larger the block goes behind all others:
\* the README has this among the departures of the code.)
BestFit ==
  [][\A b \in blocks' \ blocks : (\E g \in Fits(b.size) : g[2] - g[1] < LargestHole) =>
       \E g \in Fits(b.size) :
         /\ b.address = g[1] * PAGE_SIZE
         /\ \A h \in Fits(b.size) : \/ g[2] - g[1] < h[2] - h[1]
                                    \/ g[2] - g[1] = h[2] - h[1] /\ g[1] <= h[1]]_vars

\* The array of entries, the blocks handed out and the kernel's page file are
\* three records of one heap, kept by different code.
HeapConsistent == EntriesTileTheHeap /\ PageFileHoldsBlocks

=============================================================================
