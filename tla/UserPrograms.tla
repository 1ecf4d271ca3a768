---------------------------- MODULE UserPrograms ----------------------------
(***************************************************************************)
(* The test programs of user/ that exercise the heap and the page fault    *)
(* handler, run on malloc and free (UserHeap) and on the memory of one     *)
(* environment: LRU lists, page file, page tables.                         *)
(*                                                                         *)
(* A program is a script of calls and memory accesses together with what   *)
(* the program expects of each (the conditions under which it panics).     *)
(* Sizes are the real ones.  A page is its page number counted from        *)
(* USER_HEAP_START, so that the pages of the program are negative.  A      *)
(* value stored in memory is not modelled here (VirtualMemory is about     *)
(* values).                                                                *)
(***************************************************************************)
EXTENDS UserHeap, SequencesExt

CONSTANT NULL

VARIABLES
  prog,     \* the program
  pc,       \* its next operation
  ptr,      \* ptr_allocations
  mem,      \* [act, sec, pool, tables, dtables], see below
  busy,     \* the operation has begun
  todo,     \* pages it has still to go through
  before,   \* pages on disk and frames in use when it began
  start,    \* frames in use when the program started
  failed    \* an expectation was not met: the program panics

pvars == <<prog, pc, ptr, mem, busy, todo, before, start, failed>>

kilo == 1024
Mega == 1024 * 1024
PTSIZE == 1024                \* pages to a page table
P(page) == page - \h80000      \* \h80000 is the page of USER_HEAP_START
USTACKTOP == P(\heebfe)
ANY == -1                      \* the program does not check

PDX(p) == p \div PTSIZE

-----------------------------------------------------------------------------
(* Operations of a script *)

M(i, size, at, disk, frames) ==
  [op |-> "malloc", i |-> i, size |-> size, at |-> at, disk |-> disk, frames |-> frames]
F(i, disk, frames, sizes) ==
  [op |-> "free", i |-> i, disk |-> disk, frames |-> frames, sizes |-> sizes]
\* Accesses to the block i at the given offsets.
T(i, offsets, frames) ==
  [op |-> "touch", i |-> i, offsets |-> offsets, disk |-> 0, frames |-> frames]
\* Instructions of page code that access the pages, in this order.
A(code, pages, disk, frames) ==
  [op |-> "access", code |-> code, pages |-> pages, disk |-> disk, frames |-> frames]
\* Accesses to block i that must fault (bypassPageFault).
X(i, offsets) == [op |-> "bypass", i |-> i, offsets |-> offsets]
\* An access that must panic the kernel.
I(page) == [op |-> "illegal", page |-> page]
L(active, second) == [op |-> "lists", active |-> active, second |-> second]
E(frames) == [op |-> "end", frames |-> frames]

\* Where a block may be placed: from the first to the second address.
Exactly(a) == <<a, a>>
About(a)   == <<a, a + PAGE_SIZE>>
AtLeast(a) == <<a, HeapSize>>
Nowhere    == << >>            \* malloc returns NULL
LastOf(size) == size - 1       \* the last byte of a block

-----------------------------------------------------------------------------
(* user/tst_best_fit_1.c *)

best_fit_1_allocate ==
  << M(0, 3 * Mega - kilo, Exactly(0), 768, 1),
     M(1, 3 * Mega - kilo, Exactly(3 * Mega), 768, 1),
     M(2, 2 * Mega - kilo, Exactly(6 * Mega), 512, 0),
     M(3, 2 * Mega - kilo, Exactly(8 * Mega), 512, 1),
     M(4, Mega - kilo, Exactly(10 * Mega), 256, 0),
     M(5, Mega - kilo, Exactly(11 * Mega), 256, 0),
     M(6, Mega - kilo, Exactly(12 * Mega), 256, 1),
     M(7, Mega - kilo, Exactly(13 * Mega), 256, 0),
     F(1, 768, 0, << >>), F(3, 512, 0, << >>), F(5, 256, 0, << >>) >>

best_fit_1_again ==
  << M(8, 512 * kilo, Exactly(11 * Mega), 128, 0),
     M(9, Mega - kilo, Exactly(8 * Mega), 256, 0),
     M(10, 256 * kilo - kilo, Exactly(11 * Mega + 512 * kilo), 64, 0),
     M(11, 4 * Mega - kilo, Exactly(14 * Mega), 1024, 1),
     F(4, 256, 0, << >>), F(8, 128, 0, << >>),
     M(12, 2 * Mega - kilo, Exactly(9 * Mega), 512, 0) >>

(* user/tst_best_fit_2.c; the size of the heap plus one does not fit *)

best_fit_2_fill ==
  << M(0, HeapSize + 1, Nowhere, ANY, ANY),
     M(0, 2 * Mega - kilo, Exactly(0), 512, ANY),
     M(1, 2 * Mega - kilo, Exactly(2 * Mega), 512, ANY),
     M(2, 2 * kilo, Exactly(4 * Mega), 1, ANY),
     M(3, 2 * kilo, Exactly(4 * Mega + 4 * kilo), 1, ANY),
     F(2, 1, ANY, << >>),
     M(4, 7 * kilo, Exactly(4 * Mega + 8 * kilo), 2, ANY),
     F(0, 512, ANY, << >>),
     M(5, 3 * Mega - kilo, Exactly(4 * Mega + 16 * kilo), 768, ANY),
     M(6, 2 * Mega + 6 * kilo, Exactly(7 * Mega + 16 * kilo), 514, ANY),
     M(7, 5 * Mega - kilo, Exactly(9 * Mega + 24 * kilo), 1280, ANY) >>

best_fit_2_holes ==
  << F(6, 514, ANY, << >>), F(1, 512, ANY, << >>),
     M(8, 2 * Mega - kilo, Exactly(7 * Mega + 16 * kilo), 512, ANY),
     M(9, 6 * kilo, Exactly(9 * Mega + 16 * kilo), 2, ANY),
     F(5, 768, ANY, << >>),
     M(10, 3 * Mega - kilo, Exactly(4 * Mega + 16 * kilo), 768, ANY),
     M(11, 4 * Mega - kilo, Exactly(0), 1024, ANY),
     M(12, HeapSize - 14 * Mega, Nowhere, ANY, ANY) >>

-----------------------------------------------------------------------------
(* user/tst_malloc_1.c, tst_malloc_2.c, tst_malloc_5.c and tst_malloc_3.c *)

malloc_1 ==
  << M(0, 2 * Mega - kilo, About(0), 512, 1),
     M(1, 2 * Mega - kilo, About(2 * Mega), 512, 0),
     M(2, 3 * kilo, About(4 * Mega), 1, 1),
     M(3, 3 * kilo, About(4 * Mega + 4 * kilo), 1, 0),
     M(4, 7 * kilo, About(4 * Mega + 8 * kilo), 2, 0),
     M(5, 3 * Mega - kilo, About(4 * Mega + 16 * kilo), 768, 0),
     M(6, 2 * Mega - kilo, About(7 * Mega + 16 * kilo), 512, 1) >>

malloc_2 ==
  << M(0, 2 * Mega - kilo, AtLeast(0), ANY, ANY), T(0, <<0, LastOf(2 * Mega - kilo)>>, ANY),
     M(1, 2 * Mega - kilo, AtLeast(0), ANY, ANY), T(1, <<0, LastOf(2 * Mega - kilo)>>, ANY),
     M(2, 3 * kilo, AtLeast(0), ANY, ANY), T(2, <<0, LastOf(2 * kilo)>>, ANY),
     M(3, 7 * kilo, AtLeast(0), ANY, ANY), T(3, <<0, LastOf(7 * kilo)>>, ANY) >>

malloc_5 ==
  << M(0, 2 * Mega - kilo, AtLeast(0), ANY, ANY), T(0, <<0, LastOf(2 * Mega - kilo)>>, ANY),
     M(1, 2 * Mega - kilo, AtLeast(0), ANY, ANY), T(1, <<0, LastOf(2 * Mega - kilo)>>, ANY),
     M(2, 2 * kilo, AtLeast(0), ANY, ANY), T(2, <<0, LastOf(2 * kilo)>>, ANY),
     M(3, 7 * kilo, AtLeast(0), ANY, ANY), T(3, <<0, LastOf(7 * kilo)>>, ANY) >>

malloc_3_small ==
  << M(0, 2 * Mega - kilo, About(0), 512, ANY),
     T(0, <<0, LastOf(2 * Mega - kilo)>>, 2 + 1),
     M(1, 2 * Mega - kilo, About(2 * Mega), 512, ANY),
     T(1, <<0, LastOf(2 * Mega - kilo)>>, 2),
     M(2, 3 * kilo, About(4 * Mega), 1, ANY),
     T(2, <<0, LastOf(2 * kilo)>>, 1 + 1),
     M(3, 3 * kilo, About(4 * Mega + 4 * kilo), 1, ANY) >>

malloc_3_large ==
  << M(4, 7 * kilo, About(4 * Mega + 8 * kilo), 2, ANY),
     T(4, <<0, LastOf(7 * kilo)>>, 2),
     M(5, 3 * Mega - kilo, About(4 * Mega + 16 * kilo), 768, ANY),
     M(6, 6 * Mega - kilo, About(7 * Mega + 16 * kilo), 1536, ANY),
     T(6, <<0, LastOf(6 * Mega - kilo) \div 2, LastOf(6 * Mega - kilo)>>, 3 + 2),
     M(7, 14 * kilo, About(13 * Mega + 16 * kilo), 4, ANY),
     T(7, <<0, LastOf(14 * kilo)>>, 2) >>

-----------------------------------------------------------------------------
(* user/tst_free_1.c, which fills the active list of 800 pages.  It accesses *)
(* toAccess pages of a block of 768, so that the list must hold 24 pages or  *)
(* more at the start: a program of 32 is taken.                              *)

free_1_started == << \heebfd >> \o [k \in 1..23 |-> \h817 - k] \o << \h207, \h206 >> \o
                  << \h205, \h204, \h203, \h202, \h201, \h200 >>
toAccess == 800 - Len(free_1_started) - 8

free_1_small ==
  << M(0, 2 * Mega - kilo, About(0), 512, ANY),
     T(0, <<0, LastOf(2 * Mega - kilo)>>, 2 + 1),
     M(1, 2 * Mega - kilo, About(2 * Mega), 512, ANY),
     T(1, <<0, LastOf(2 * Mega - kilo)>>, 2),
     M(2, 3 * kilo, About(4 * Mega), 1, ANY),
     T(2, <<0, LastOf(3 * kilo)>>, 1 + 1),
     M(3, 3 * kilo, About(4 * Mega + 4 * kilo), 1, ANY) >>

free_1_large ==
  << M(4, 7 * kilo, About(4 * Mega + 8 * kilo), 2, ANY),
     T(4, <<0, LastOf(7 * kilo)>>, 2),
     M(5, 3 * Mega - kilo, About(4 * Mega + 16 * kilo), 768, ANY),
     T(5, [k \in 1..toAccess |-> (k - 1) * PAGE_SIZE], ANY),
     M(6, 6 * Mega - kilo, About(7 * Mega + 16 * kilo), 1536, ANY),
     T(6, <<0, LastOf(6 * Mega - kilo) \div 2, LastOf(6 * Mega - kilo)>>, 3 + 2),
     M(7, 14 * kilo, About(13 * Mega + 16 * kilo), 4, ANY),
     T(7, <<0, LastOf(14 * kilo)>>, 2) >>

free_1_free ==
  << F(6, 1536, 3 + 1, <<800, 1>>), F(0, 512, 2, <<799, 0>>),
     F(1, 512, 2 + 1, <<797, 0>>), F(4, 2, 2, <<795, 0>>),
     F(5, 768, toAccess, << >>) >>

free_1_rest ==
  << F(2, 1, 1 + 1, <<794, 0>>), F(3, 1, 0, << >>), F(7, 4, 2 + 1, <<792, 0>>), E(4) >>

(* user/tst_free_2.c: an access to a freed block faults *)

free_2_allocate ==
  << M(0, 2 * Mega - kilo, AtLeast(0), 512, ANY),
     M(1, 2 * Mega - kilo, AtLeast(2 * Mega), 512, ANY),
     M(2, 3 * kilo, AtLeast(4 * Mega), 1, ANY),
     M(3, 3 * kilo, AtLeast(4 * Mega + 4 * kilo), 1, ANY),
     M(4, 7 * kilo, AtLeast(4 * Mega + 8 * kilo), 2, ANY),
     M(5, 3 * Mega - kilo, AtLeast(4 * Mega + 16 * kilo), 768, ANY),
     M(6, 2 * Mega - kilo, AtLeast(7 * Mega + 16 * kilo), 512, ANY) >>

free_2_free ==
  << F(0, 512, ANY, << >>), X(0, <<0, LastOf(2 * Mega - kilo)>>),
     F(1, 512, ANY, << >>), X(1, <<0, LastOf(2 * Mega - kilo)>>),
     F(2, 1, ANY, << >>), X(2, <<0, LastOf(3 * kilo)>>),
     F(3, 1, ANY, << >>), X(3, <<0, LastOf(3 * kilo)>>),
     F(4, 2, ANY, << >>), X(4, <<0, LastOf(7 * kilo)>>),
     F(5, 768, ANY, << >>), X(5, <<0, LastOf(3 * Mega - kilo)>>),
     F(6, 512, ANY, << >>), X(6, <<0, LastOf(2 * Mega - kilo)>>), E(3) >>

-----------------------------------------------------------------------------
(* user/tst_placement_1.c to tst_placement_3.c: pages of an array on the   *)
(* stack, of which the first is resident, 4 MB apart.                      *)

Started == << \hedbfd, \heebfd, \h803, \h802, \h801, \h800,
              \h205, \h204, \h203, \h202, \h201, \h200 >>
ArrayPages == << \hedbfd, \hedbfe, \hedffd, \hedffe, \hee3fd, \hee3fe >>
Placed == << \hee3fe, \hee3fd, \hedffe, \hedffd, \hedbfe >>

placement_1 ==
  << L(Started, << >>), A(\h800, ArrayPages, 5, 9), L(Placed \o Started, << >>) >>

placement_2 ==
  << L(Started, << >>), A(\h800, ArrayPages, 5, 9),
     L(Placed \o SubSeq(Started, 1, 8), SubSeq(Started, 9, 12)) >>

placement_3 ==
  << L(Started, << >>), A(\h800, ArrayPages, 5, 9), A(\h800, << \h200, \h202 >>, 0, 0),
     L(<< \h202, \h200 >> \o Placed \o SubSeq(Started, 1, 6),
       << \h205, \h204, \h203, \h201 >>) >>

(* user/tst_page_replacement_LRU_Lists_1.c, _2.c and                       *)
(* tst_page_replacement_stack_LRU_Lists.c: the working set is full.  One   *)
(* round of the loop uses i on the stack, the next half page of arr, *ptr, *)
(* *ptr2 and ptr.                                                          *)

LoopPages(pages) ==
  FlattenSeq([k \in 1..Len(pages) |-> << \heebfd, pages[k], \h801, \h804, \h803 >>])
arrPages == [k \in 1..20 |-> \h803 + (k - 1) \div 2]

LRU_Lists_1 ==
  << L(<< \h803, \h801, \h800, \heebfd, \h203 >>, << \h202, \h201, \h200, \h802, \h205 >>),
     A(\h800, << \h80d, \h80e >> \o LoopPages(arrPages), 0, 0),
     A(\h800, arrPages, 0, 0) >>

LRU_Lists_2 ==
  << L(<< \h803, \h801, \h800, \heebfd, \h204, \h203 >>,
       << \h202, \h201, \h200, \h802, \h205 >>),
     A(\h800, << \h80e, \h80f >> \o LoopPages(arrPages), 0, 0),
     L(<< \h803, \h801, \h800, \heebfd, \h804, \h80c >>,
       << \h80b, \h80a, \h809, \h808, \h807 >>),
     A(\h800, << \h809, \h807, \h804, \heebfd >>, 0, 0), A(\h801, << \h801 >>, 0, 0),
     L(<< \h801, \h800, \heebfd, \h804, \h807, \h809 >>,
       << \h803, \h80c, \h80b, \h80a, \h808 >>),
     A(\h800, << \h810 >>, 0, 0),
     L(<< \h810, \h801, \h800, \heebfd, \h804, \h807 >>,
       << \h809, \h803, \h80c, \h80b, \h80a >>) >>

stack_LRU_Lists ==
  LET arr == [k \in 1..20 |-> \heebf4 + (k - 1) \div 2]
  IN  << A(\h800, arr \o arr, 9, 0) >>

-----------------------------------------------------------------------------
(* user/fos_alloc.c; user/tst_invalid_access.c, whose first write to the  *)
(* heap must panic the kernel, since nothing has been allocated.          *)

fos_alloc ==
  << M(0, 100, AtLeast(0), ANY, ANY), T(0, <<0, LastOf(100)>>, ANY), F(0, ANY, ANY, << >>),
     M(0, 100, AtLeast(0), ANY, ANY), T(0, <<LastOf(100)>>, ANY), F(0, ANY, ANY, << >>) >>

invalid_access == << I(\h80000) >>

-----------------------------------------------------------------------------
(* The programs: sizes of the lists, resident pages and script *)

Program(sizes, act, sec, script) ==
  [sizes |-> sizes, act |-> act, sec |-> sec, script |-> script]

Heap(script) == Program(<<800, 200>>, Started, << >>, script)

Programs ==
  [ best_fit_1      |-> Heap(best_fit_1_allocate \o best_fit_1_again),
    best_fit_2      |-> Heap(best_fit_2_fill \o best_fit_2_holes),
    malloc_1        |-> Heap(malloc_1),
    malloc_2        |-> Heap(malloc_2),
    malloc_5        |-> Heap(malloc_5),
    fos_alloc       |-> Heap(fos_alloc),
    invalid_access  |-> Program(<<13, 2>>, Started, << >>, invalid_access),
    malloc_3        |-> Heap(malloc_3_small \o malloc_3_large),
    free_1          |-> Program(<<800, 200>>, free_1_started, << >>, free_1_small \o free_1_large \o free_1_free \o free_1_rest),
    free_2          |-> Heap(free_2_allocate \o free_2_free),
    placement_1     |-> Program(<<18, 2>>, Started, << >>, placement_1),
    placement_2     |-> Program(<<13, 7>>, Started, << >>, placement_2),
    placement_3     |-> Program(<<13, 7>>, Started, << >>, placement_3),
    LRU_Lists_1     |-> Program(<<5, 5>>, LRU_Lists_1[1].active, LRU_Lists_1[1].second, LRU_Lists_1),
    LRU_Lists_2     |-> Program(<<6, 5>>, LRU_Lists_2[1].active, LRU_Lists_2[1].second, LRU_Lists_2),
    stack_LRU_Lists |-> Program(<<3, 3>>, << \heebfd, \h801, \h800 >>,
                                << \h802, \h803, \h200 >>, stack_LRU_Lists) ]

\* Pages of a program that are in the page file from the start (env_create).
Image == {P(p) : p \in (\h200..\h207) \cup (\h800..\h816) \cup {\heebfd, \hedbfd}}

-----------------------------------------------------------------------------
(* The memory of the environment *)

Pages(seq) == [k \in 1..Len(seq) |-> P(seq[k])]
Resident(m) == ToSet(m.act) \cup ToSet(m.sec)
FramesUsed(m) == Len(m.act) + Len(m.sec) + Cardinality(m.tables) + Cardinality(m.dtables)

\* Mutant of Placement: the limit of the active list is off by one.
Placement_off_by_one(size, m, p) ==
  IF Len(m.act) <= size THEN [m EXCEPT !.act = <<p>> \o @]
  ELSE [m EXCEPT !.act = <<p>> \o Front(@), !.sec = <<Last(m.act)>> \o @]

\* Page p enters the active list; a full list demotes its last page.
Placement(size, m, p) ==
  IF Len(m.act) < size THEN [m EXCEPT !.act = <<p>> \o @]
  ELSE [m EXCEPT !.act = <<p>> \o Front(@), !.sec = <<Last(m.act)>> \o @]

\* A page of the second list changes places with the last one of the active
\* list.  Another page takes an element, the one of the last page of the second
\* list when none is left, and a frame, and gets its page tables.
Fault(m, p) ==
  IF Contains(m.sec, p)
  THEN [m EXCEPT !.act = <<p>> \o Front(@),
                 !.sec = <<Last(m.act)>> \o SelectSeq(@, LAMBDA q : q # p)]
  ELSE LET elem == IF m.pool > 0 THEN [m EXCEPT !.pool = @ - 1] ELSE [m EXCEPT !.sec = Front(@)]
       IN  [Placement(Programs[prog].sizes[1], elem, p)
              EXCEPT !.tables = @ \cup {PDX(p)}, !.dtables = @ \cup {PDX(p)}]

\* Pages that need not be in the page file: the stack.
Stack(p) == p >= HeapSize \div PAGE_SIZE /\ p < USTACKTOP
Illegal(p) == p \notin pf /\ ~Stack(p)

\* freeMem of page p: the element of an active page is lost, and the first page
\* of the second list takes its place.
FreePage(m, p) ==
  CASE Contains(m.act, p) ->
         LET rest == SelectSeq(m.act, LAMBDA q : q # p)
         IN  IF m.sec = << >> THEN [m EXCEPT !.act = rest]
             ELSE [m EXCEPT !.act = Append(rest, Head(m.sec)), !.sec = Tail(@)]
    [] Contains(m.sec, p) ->
         [m EXCEPT !.sec = SelectSeq(@, LAMBDA q : q # p), !.pool = @ + 1]
    [] OTHER -> m

\* Mutant of EmptyTables: removed without a look at their entries.
EmptyTables_unchecked(m, va, n) == {PDX(va + k * PTSIZE) : k \in 0..(n \div PTSIZE)}

\* The tables that freeMem removes: it looks at va, va + 4 MB, ...
EmptyTables(m, va, n) ==
  {t \in {PDX(va + k * PTSIZE) : k \in 0..(n \div PTSIZE)} : \A p \in Resident(m) : PDX(p) # t}

-----------------------------------------------------------------------------
(* Execution of a script: an operation begins, and the kernel or the       *)
(* program goes through the pages in todo before it is checked.            *)

Script == Programs[prog].script
Op == Script[pc]

Begins(op) ==
  /\ ~failed /\ pc <= Len(Script) /\ Op.op = op /\ ~busy
  /\ before' = [disk |-> Cardinality(pf), frames |-> FramesUsed(mem)]

InPlace(address, at) ==
  IF at = Nowhere THEN address = NULL
  ELSE address # NULL /\ address >= at[1] /\ address <= at[2]
Met(expected, value) == expected = ANY \/ expected = value

Checked(ok) == failed' = ~ok /\ pc' = pc + 1 /\ busy' = FALSE
Continues == UNCHANGED <<failed, pc, before>>

Malloc ==
  /\ Begins("malloc")
  /\ malloc(Op.size)
  /\ ptr' = [ptr EXCEPT ![Op.i] = IF blocks' = blocks THEN NULL
                                   ELSE (CHOOSE b \in blocks' : b \notin blocks).address]
  /\ mem' = [mem EXCEPT !.dtables = @ \cup {PDX(p) : p \in pf'}]
  /\ Checked(/\ InPlace(ptr'[Op.i], Op.at)
             /\ Met(Op.disk, Cardinality(pf') - Cardinality(pf))
             /\ Met(Op.frames, FramesUsed(mem') - FramesUsed(mem)))
  /\ UNCHANGED <<prog, todo, start>>

Block(i) == CHOOSE b \in blocks : b.address = ptr[i]

\* free, and the removal of the block from the page file by freeMem.
Free ==
  /\ Begins("free")
  /\ free(Block(Op.i))
  /\ LET va    == ptr[Op.i] \div PAGE_SIZE
         freed == (pf \ pf') \cap Resident(mem)
     IN  todo' = SelectSeq([k \in 1..Cardinality(pf \ pf') |-> va + k - 1], LAMBDA p : p \in freed)
  /\ busy' = TRUE
  /\ UNCHANGED <<prog, pc, ptr, mem, start, failed>>

freeMem ==
  /\ busy /\ Op.op = "free"
  /\ \/ /\ todo # << >>
        /\ mem' = FreePage(mem, Head(todo))
        /\ todo' = Tail(todo)
        /\ UNCHANGED busy /\ Continues
     \/ /\ todo = << >>
        /\ LET va == ptr[Op.i] \div PAGE_SIZE
               n  == before.disk - Cardinality(pf)
           IN  /\ mem' = [mem EXCEPT !.tables = @ \ EmptyTables(mem, va, n)]
               /\ Checked(/\ Met(Op.disk, n)
                          /\ Met(Op.frames, before.frames - FramesUsed(mem'))
                          /\ va..(va + n - 1) \cap Resident(mem) = {}
                          /\ Op.sizes = << >> \/ Len(mem.act) = Op.sizes[1]
                                               \/ Len(mem.sec) = Op.sizes[2])
        /\ UNCHANGED <<before, todo>>
  /\ UNCHANGED <<vars, prog, ptr, start>>

Touch ==
  /\ Begins("touch")
  /\ todo' = [k \in 1..Len(Op.offsets) |-> (ptr[Op.i] + Op.offsets[k]) \div PAGE_SIZE]
  /\ busy' = TRUE
  /\ UNCHANGED <<vars, prog, pc, ptr, mem, start, failed>>

AccessPages ==
  /\ Begins("access")
  /\ todo' = Pages(Op.pages)
  /\ busy' = TRUE
  /\ UNCHANGED <<vars, prog, pc, ptr, mem, start, failed>>

\* The instruction that accesses the first page of todo is executed when both
\* its pages are in the active list; it faults on the first that is not.
Code == P(IF Op.op = "touch" THEN \h800 ELSE Op.code)

page_fault_handler ==
  /\ busy /\ Op.op \in {"touch", "access"}
  /\ \/ /\ todo # << >>
        /\ Contains(mem.act, Code) /\ Contains(mem.act, Head(todo))
        /\ todo' = Tail(todo)
        /\ UNCHANGED <<mem, pf, busy>> /\ Continues
     \/ /\ todo # << >>
        /\ LET p == IF Contains(mem.act, Code) THEN Head(todo) ELSE Code
           IN  /\ ~Contains(mem.act, p)
               /\ mem' = Fault(mem, p)
               /\ pf' = IF p \in pf THEN pf ELSE pf \cup {p}
               /\ failed' = Illegal(p)
        /\ UNCHANGED <<busy, pc, before, todo>>
     \/ /\ todo = << >>
        /\ Checked(/\ Met(Op.disk, Cardinality(pf) - before.disk)
                   /\ Met(Op.frames, FramesUsed(mem) - before.frames)
                   /\ Op.op = "touch" =>
                        \A k \in 1..Len(Op.offsets) :
                          (ptr[Op.i] + Op.offsets[k]) \div PAGE_SIZE \in Resident(mem))
        /\ UNCHANGED <<mem, pf, before, todo>>
  /\ UNCHANGED <<last_addres, changes, entries, blocks, mallocs, prog, ptr, start>>

\* The program looks at its memory, or accesses freed pages and sees the fault.
Look ==
  /\ \/ /\ Begins("bypass")
        /\ Checked(\A k \in 1..Len(Op.offsets) :
                     (ptr[Op.i] + Op.offsets[k]) \div PAGE_SIZE \notin ToSet(mem.act))
     \/ Begins("illegal") /\ Checked(Illegal(P(Op.page)))
     \/ Begins("lists") /\ Checked(mem.act = Pages(Op.active) /\ mem.sec = Pages(Op.second))
     \/ Begins("end") /\ Checked(FramesUsed(mem) - start = Op.frames)
  /\ UNCHANGED <<vars, prog, ptr, mem, todo, start>>

\* Only a program that has come to its end may stop: TLC checks for deadlock.
Done == pc > Len(Script) /\ UNCHANGED <<vars, pvars>>

ProgramInit ==
  /\ last_addres = 0 /\ changes = FALSE /\ entries = << >> /\ blocks = {} /\ mallocs = 0
  /\ prog \in DOMAIN Programs
  /\ pc = 1
  /\ ptr = [i \in 0..19 |-> NULL]
  /\ pf = Image
  /\ LET g == Programs[prog]
     IN  mem = [act |-> Pages(g.act), sec |-> Pages(g.sec),
                pool |-> g.sizes[1] + g.sizes[2] - Len(g.act) - Len(g.sec),
                tables |-> {PDX(P(p)) : p \in ToSet(g.act) \cup ToSet(g.sec)},
                dtables |-> {PDX(p) : p \in Image}]
  /\ start = FramesUsed(mem)
  /\ busy = FALSE /\ todo = << >> /\ before = [disk |-> 0, frames |-> 0]
  /\ failed = FALSE

ProgramNext ==
  Malloc \/ Free \/ freeMem \/ Touch \/ AccessPages \/ page_fault_handler \/ Look \/ Done

ProgramSpec == ProgramInit /\ [][ProgramNext]_<<vars, pvars>>

-----------------------------------------------------------------------------
(* Properties *)

\* No panic of a test program is reached: every address malloc returns, every
\* number of pages and frames taken and returned, and the LRU lists after every
\* group of accesses are what the programs of user/ expect.
TestsPass == ~failed

\* Between two operations the heap, the page file and the working set agree:
\* the heap's pages on disk are those of the blocks not yet freed, a page is in
\* memory only when it is on disk and in one list only, and every page in memory
\* has its page table.  free changes the three one after the other.
MemoryFollowsHeap ==
  ~busy => LET heap == 0..(HeapSize \div PAGE_SIZE - 1)
               resident == Resident(mem)
           IN  /\ pf \cap heap = UNION {PagesAt(b.address, b.size) : b \in blocks}
               /\ resident \subseteq pf
               /\ Cardinality(resident) = Len(mem.act) + Len(mem.sec)
               /\ \A p \in resident : PDX(p) \in mem.tables

\* The programs of user/ run to their end with all they expect, and heap, page
\* file and working set agree on the way.
ProgramsPass == TestsPass /\ MemoryFollowsHeap

=============================================================================
