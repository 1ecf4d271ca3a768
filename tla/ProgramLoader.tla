--------------------------- MODULE ProgramLoader ---------------------------
(***************************************************************************)
(* kern/user_environment.c: how env_create puts a segment of a program in  *)
(* memory and in the page file.  Pages read from the page file later must  *)
(* be the ones loaded here: they are marked as not modified.               *)
(*                                                                         *)
(* A segment has its address, its two sizes and its bytes in the image of  *)
(* the kernel: byte k of the segment is seg.image[k], and the image goes   *)
(* on behind the segment.  A page file maps addresses of pages to contents.*)
(* Frames and working set entries are those of FrameManager and LRUPaging. *)
(***************************************************************************)
EXTENDS Addresses, Sequences

CONSTANTS
  CappedVA,      \* 0x200000: of a segment there, at most 6 pages are loaded
  STALE          \* a byte that nobody wrote

Bytes == 0..(PAGE_SIZE - 1)

Zeros == [k \in Bytes |-> 0]

\* program_segment_alloc_map_copy_workingset: pages of the segment in memory.
LoadedPages(seg, remaining_ws_pages) ==
  LET first == ROUNDDOWN(seg.va)
      room  == IF first = CappedVA /\ remaining_ws_pages > 6 THEN 6 ELSE remaining_ws_pages
      all   == (ROUNDUP(seg.va + seg.size_in_memory) - first) \div PAGE_SIZE
  IN  {first + i * PAGE_SIZE : i \in 0..((IF room < all THEN room ELSE all) - 1)}

\* The bytes of the file are copied, and what follows in the pages is zeroed.
\* What is in front of the segment keeps what the frame had.
program_segment_alloc_map_copy_workingset(seg, remaining_ws_pages) ==
  [p \in LoadedPages(seg, remaining_ws_pages) |->
     [k \in Bytes |-> IF p + k < seg.va THEN STALE
                      ELSE IF p + k < seg.va + seg.size_in_file
                      THEN seg.image[p + k - seg.va] ELSE 0]]

pf_add_env_page(pf, va, contents) ==
  [p \in DOMAIN pf \cup {va} |-> IF p = va THEN contents ELSE pf[p]]

\* The pages that pf_add_env_page or pf_add_empty_env_page get from..to, one
\* after the other, with their contents.
PagesFrom(from, to) == {p \in from..(to - 1) : p % PAGE_SIZE = 0}

AddPages(pf, pages) == [p \in DOMAIN pf \cup DOMAIN pages |->
                          IF p \in DOMAIN pages THEN pages[p] ELSE pf[p]]

\* [1]: the bytes up to the end of the first page, which is empty when the
\* segment begins with the page.
FirstPage(pf, seg) ==
  LET start == ROUNDDOWN(seg.va)
      end   == ROUNDUP(seg.va)
  IN  pf_add_env_page(pf, start,
        [k \in Bytes |-> IF start + k >= seg.va /\ start + k < end
                         THEN seg.image[start + k - seg.va] ELSE 0])

\* [2]: the pages up to the one in which the file's bytes end.
MiddlePages(pf, seg) ==
  AddPages(pf, [p \in PagesFrom(ROUNDUP(seg.va), ROUNDDOWN(seg.va + seg.size_in_file)) |->
                  [k \in Bytes |-> seg.image[p + k - seg.va]]])

\* [3]: src_ptr is where the copies before it have left it.
LastPage(pf, seg) ==
  LET start  == ROUNDDOWN(seg.va + seg.size_in_file)
      first  == ROUNDUP(seg.va) - seg.va
      middle == IF start > ROUNDUP(seg.va) THEN start - ROUNDUP(seg.va) ELSE 0
  IN  pf_add_env_page(pf, start,
        [k \in Bytes |-> IF start + k < seg.va + seg.size_in_file
                         THEN seg.image[first + middle + k] ELSE 0])

\* Mutant of RemainingPages: a last page that is not filled is left out.
RemainingPages_full(pf, seg) ==
  LET start  == ROUNDUP(seg.va + seg.size_in_file)
      length == seg.va + seg.size_in_memory - start
  IN  AddPages(pf, [p \in PagesFrom(start, start + ROUNDDOWN(length)) |-> Zeros])

\* [4]: the length is unsigned, and rounds up to 0 when the segment ends before
\* the area begins.
RemainingPages(pf, seg) ==
  LET start  == ROUNDUP(seg.va + seg.size_in_file)
      length == (seg.va + seg.size_in_memory - start) % ADDRESSES
  IN  AddPages(pf, [p \in PagesFrom(start, start + ROUNDUP(length)) |-> Zeros])

SegmentToPageFile(pf, seg) ==
  RemainingPages(LastPage(MiddlePages(FirstPage(pf, seg), seg), seg), seg)

-----------------------------------------------------------------------------
(* The headers of a program: ph[0], ph[1], ... with their types, of which   *)
(* e_phnum belong to it.  A loop over the segments has a segment_id, or -1. *)

NoSegment == -1

\* The while loop of both operations.  It reads the header before it compares
\* the index, so the one behind the last is looked at too.
SkipToLoad(ph, e_phnum, id) ==
  CHOOSE i \in id..e_phnum :
    /\ i = e_phnum \/ ph[i] = "LOAD"
    /\ \A j \in id..(i - 1) : ph[j] # "LOAD"

\* Mutant of PROGRAM_SEGMENT_FIRST: the first header is taken as it is.
PROGRAM_SEGMENT_FIRST_zero(ph, e_phnum) == IF e_phnum > 0 THEN 0 ELSE NoSegment

PROGRAM_SEGMENT_FIRST(ph, e_phnum) ==
  LET id == SkipToLoad(ph, e_phnum, 0) IN IF id < e_phnum THEN id ELSE NoSegment

PROGRAM_SEGMENT_NEXT(ph, e_phnum, id) ==
  LET next == SkipToLoad(ph, e_phnum, id + 1) IN IF next < e_phnum THEN next ELSE NoSegment

\* The segments that a loop visits.
PROGRAM_SEGMENT_FOREACH(ph, e_phnum) ==
  LET from[k \in 0..e_phnum] ==
        LET next == PROGRAM_SEGMENT_NEXT(ph, e_phnum, k)
        IN  <<k>> \o (IF next = NoSegment THEN <<>> ELSE from[next])
      first == PROGRAM_SEGMENT_FIRST(ph, e_phnum)
  IN  IF first = NoSegment THEN <<>> ELSE from[first]

-----------------------------------------------------------------------------

\* The byte that the program expects at an address of the segment.
Expected(seg, a) == IF a < seg.va + seg.size_in_file THEN seg.image[a - seg.va] ELSE 0

HoldsByte(pages, seg, a) ==
  ROUNDDOWN(a) \in DOMAIN pages /\ pages[ROUNDDOWN(a)][a % PAGE_SIZE] = Expected(seg, a)

\* The segment begins inside a page and its bytes end inside the same page.
InsideOnePage(seg) ==
  seg.va % PAGE_SIZE # 0 /\ ROUNDDOWN(seg.va + seg.size_in_file) = ROUNDDOWN(seg.va)

=============================================================================
