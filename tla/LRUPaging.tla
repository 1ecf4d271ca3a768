------------------------------ MODULE LRUPaging ------------------------------
(***************************************************************************)
(* Demand paging of one environment with the LRU-lists approximation:      *)
(* fault_handler, page_fault_handler and Placement of kern/trap.c,         *)
(* allocateMem and freeMem of kern/memory_manager.c, the page file         *)
(* operations of kern/file_manager.c, the loading of the program by        *)
(* env_create and its removal by env_free.                                 *)
(*                                                                         *)
(* A page is its page number; a page table covers PTSIZE page numbers.     *)
(* A page keeps one value.  A user instruction is fetched from one page    *)
(* and accesses one page; it executes when both are PRESENT and otherwise  *)
(* faults and is restarted.  The kernel does not run concurrently with     *)
(* itself: a fault is one action, and the loops of allocateMem and freeMem *)
(* are steps, one for each page, with which nothing interleaves.           *)
(*                                                                         *)
(* A list is a sequence of pages, head first.  The elements of             *)
(* PageWorkingSetList carry nothing: the list is its length.  Frames and   *)
(* the page file are shared with the other environments: allocate_frame    *)
(* may panic at every allocation, and the page file may be full whenever   *)
(* this environment asks it for a disk frame.                              *)
(***************************************************************************)
EXTENDS ListSequences

CONSTANTS
  Pages,            \* the page numbers the program may touch
  Code,             \* sequence of the segments' pages, in loading order
  StackTop,         \* the page below USTACKTOP, loaded by env_create
  Stack,            \* the pages of USTACKBOTTOM..USTACKTOP
  Heap,             \* the pages handed to allocateMem and freeMem
  PTSIZE,           \* page numbers per page table (1024)
  ListSizes,        \* pairs of list sizes with which env_create may be called
  DiskFrames,       \* frames of the page file (PAGES_PER_FILE - 1)
  Values, LOADED, GARBAGE, NOPAGE,  \* contents, as in VirtualMemory
  NONE              \* no instruction, no kernel loop

ASSUME PagesAssumption ==
  /\ Pages \subseteq Nat /\ IsFiniteSet(Pages)
  /\ Code \in Seq(Pages) /\ Code # <<>>
  /\ \A i, j \in 1..Len(Code) : Code[i] = Code[j] => i = j
  /\ Stack \subseteq Pages /\ Heap \subseteq Pages /\ StackTop \in Stack
  /\ ToSet(Code) \cap Stack = {} /\ Heap \cap (Stack \cup ToSet(Code)) = {}
ASSUME SizesAssumption ==
  /\ PTSIZE \in Nat \ {0} /\ ListSizes \subseteq (Nat \ {0}) \X Nat
  /\ DiskFrames \in Nat
ASSUME ContentsAssumption ==
  /\ NOPAGE \notin Values \cup {LOADED, GARBAGE}
  /\ NONE \notin Values \cup {"load"} /\ "load" \notin Values

VARIABLES
  ActiveListSize, SecondListSize,
  ActiveList, SecondList,
  PageWorkingSetList,  \* number of available working set elements
  mapped,              \* pages whose PTE holds a frame
  present, modified,   \* pages whose PTE has PERM_PRESENT, PERM_MODIFIED
  frame,               \* content of the page's frame
  pf,                  \* pages with a disk frame
  disk,                \* content of the page's disk frame
  tables,              \* page tables that exist
  insn,                \* the user instruction being executed
  kcall,               \* the loop of allocateMem or freeMem in progress
  reg,                 \* what the last load returned
  mode                 \* "run", "exited", "crashed" or "freed"

sizes  == <<ActiveListSize, SecondListSize>>
wsvars == <<ActiveList, SecondList, PageWorkingSetList>>
ptvars == <<mapped, present, modified, frame>>
pfvars == <<pf, disk>>
vars == <<ActiveListSize, SecondListSize, ActiveList, SecondList,
          PageWorkingSetList, mapped, present, modified, frame, pf, disk, tables, insn, kcall, reg, mode>>

page_WS_max_size == ActiveListSize + SecondListSize
Contents == Values \cup {LOADED, GARBAGE}
PDX(p) == p \div PTSIZE

\* The contents once the pages outside S have given their frame back.
Keep(contents, S) == [p \in Pages |-> IF p \in S THEN contents[p] ELSE GARBAGE]

-----------------------------------------------------------------------------
(* Loading.  n pages of the segments go to the working set, one of which   *)
(* is left for the stack; the first ActiveListSize - 1 enter the active    *)
(* list, the others the second list.  Every page of the segments is in the *)
(* page file (it is a panic if not); the stack page, cleared by the kernel *)
(* and so MODIFIED, is there only if the page file still had room for it.  *)

env_create(n) ==
  LET act == SubSeq(Code, 1, IF n < ActiveListSize - 1 THEN n ELSE ActiveListSize - 1)
      sec == SubSeq(Code, Len(act) + 1, n)
  IN  /\ n <= Len(Code) /\ n <= page_WS_max_size - 1
      /\ ActiveList = <<StackTop>> \o Reverse(act)
      /\ SecondList = Reverse(sec)
      /\ PageWorkingSetList = page_WS_max_size - (n + 1)
      /\ mapped = ToSet(ActiveList) \cup ToSet(SecondList)
      /\ present = ToSet(ActiveList)
      /\ modified = {StackTop}
      /\ frame = [p \in Pages |-> IF p \in mapped THEN LOADED ELSE GARBAGE]
      /\ pf \in {ToSet(Code), ToSet(Code) \cup {StackTop}} /\ Cardinality(pf) <= DiskFrames
      /\ disk = [p \in Pages |-> IF p \in pf THEN LOADED ELSE GARBAGE]
      /\ tables = {PDX(p) : p \in mapped}

Init ==
  /\ \E sz \in ListSizes : ActiveListSize = sz[1] /\ SecondListSize = sz[2]
  /\ \E n \in 0..Len(Code) : env_create(n)
  /\ insn = NONE
  /\ kcall = NONE
  /\ reg = LOADED
  /\ mode = "run"

-----------------------------------------------------------------------------
(* The user program *)

Running == mode = "run" /\ kcall = NONE

\* The program fetches an instruction at page c that loads from page p, or
\* stores op in it.
Issue(c, p, op) ==
  /\ Running /\ insn = NONE
  /\ insn' = [fetch |-> c, data |-> p, op |-> op]
  /\ UNCHANGED <<sizes, wsvars, ptvars, pfvars, tables, kcall, reg, mode>>

\* The MMU performs the instruction: a store sets PERM_MODIFIED.
Execute ==
  /\ Running /\ insn # NONE
  /\ {insn.fetch, insn.data} \subseteq present
  /\ insn' = NONE
  /\ IF insn.op = "load"
     THEN reg' = frame[insn.data] /\ UNCHANGED <<frame, modified>>
     ELSE /\ frame' = [frame EXCEPT ![insn.data] = insn.op]
          /\ modified' = modified \cup {insn.data}
          /\ UNCHANGED reg
  /\ UNCHANGED <<sizes, wsvars, mapped, present, pfvars, tables, kcall, mode>>

\* The page on which the current instruction faults.
FaultsOn(p) ==
  /\ Running /\ insn # NONE
  /\ p = IF insn.fetch \in present THEN insn.data ELSE insn.fetch
  /\ p \notin present

-----------------------------------------------------------------------------
(* Panics stop the environment (env_exit); a read through NULL in the      *)
(* fault handler faults again, without end, and takes the kernel down.     *)

Stop(how) == mode' = how /\ insn' = NONE /\ kcall' = NONE /\ UNCHANGED reg

Resume == UNCHANGED <<insn, kcall, reg, mode>>

-----------------------------------------------------------------------------
(* The fault handler *)

table_fault_handler(p) ==
  /\ FaultsOn(p)
  /\ PDX(p) \notin tables
  /\ \/ tables' = tables \cup {PDX(p)} /\ Resume
     \/ UNCHANGED tables /\ Stop("exited")
  /\ UNCHANGED <<sizes, wsvars, ptvars, pfvars>>

\* Mutant of InsertActive: the demoted page keeps PERM_PRESENT.
InsertActive_still_present(p, act, sec, pres) ==
  IF Len(act) < ActiveListSize
  THEN ActiveList' = <<p>> \o act /\ SecondList' = sec /\ present' = pres \cup {p}
  ELSE /\ ActiveList' = <<p>> \o Front(act)
       /\ SecondList' = <<Last(act)>> \o sec
       /\ present' = pres \cup {p}

\* Mutant of InsertActive: the size limit is off by one.
InsertActive_off_by_one(p, act, sec, pres) ==
  IF Len(act) <= ActiveListSize
  THEN ActiveList' = <<p>> \o act /\ SecondList' = sec /\ present' = pres \cup {p}
  ELSE /\ ActiveList' = <<p>> \o Front(act)
       /\ SecondList' = <<Last(act)>> \o sec
       /\ present' = (pres \ {Last(act)}) \cup {p}

\* Page p enters the active list; a full list demotes its last page.
InsertActive(p, act, sec, pres) ==
  IF Len(act) < ActiveListSize
  THEN ActiveList' = <<p>> \o act /\ SecondList' = sec /\ present' = pres \cup {p}
  ELSE /\ ActiveList' = <<p>> \o Front(act)
       /\ SecondList' = <<Last(act)>> \o sec
       /\ present' = (pres \ {Last(act)}) \cup {p}

\* Placement: one of ws available elements is taken for p.  act, sec, map,
\* pres and dsk are the lists, the page table and the page file so far.
Placement(p, act, sec, ws, map, pres, dsk) ==
  /\ PageWorkingSetList' = ws - 1
  /\ \/ \* allocate_frame panics
        /\ ActiveList' = act /\ SecondList' = sec
        /\ mapped' = map /\ present' = pres
        /\ modified' = modified \cap map /\ disk' = dsk
        /\ frame' = Keep(frame, map)
        /\ UNCHANGED pf
        /\ Stop("exited")
     \/ \* the page is read from the page file
        /\ p \in pf
        /\ InsertActive(p, act, sec, pres)
        /\ mapped' = map \cup {p}
        /\ modified' = modified \cap map
        /\ frame' = [Keep(frame, map) EXCEPT ![p] = dsk[p]]
        /\ disk' = dsk
        /\ UNCHANGED pf
        /\ Resume
     \/ \* a new stack page, whose content nobody initialises
        /\ p \notin pf /\ p \in Stack /\ Cardinality(pf) < DiskFrames
        /\ InsertActive(p, act, sec, pres)
        /\ mapped' = map \cup {p}
        /\ modified' = modified \cap map
        /\ frame' = Keep(frame, map)
        /\ pf' = pf \cup {p}
        /\ disk' = [dsk EXCEPT ![p] = GARBAGE]
        /\ Resume
     \/ \* an illegal access, no room in the page file for a new stack page or
        \* no frame for a table of it: a panic, with p mapped
        /\ p \notin pf
        /\ ActiveList' = act /\ SecondList' = sec
        /\ mapped' = map \cup {p} /\ present' = pres \cup {p}
        /\ modified' = modified \cap map
        /\ frame' = Keep(frame, map)
        /\ disk' = dsk
        /\ UNCHANGED pf
        /\ Stop("exited")

\* Mutant of WriteBack: a modified victim is dropped.
WriteBack_never(v) == disk

\* The page file after victim v has been written back, if it was modified; a
\* page without a disk frame is not, and the error is not looked at.
WriteBack(v) ==
  IF v \in modified /\ v \in pf THEN [disk EXCEPT ![v] = frame[v]] ELSE disk

\* Mutant of SecondListHit: the page goes to the tail of the active list.
SecondListHit_at_tail(p) ==
  LET tmp == Last(ActiveList)
  IN  /\ ActiveList' = Append(Front(ActiveList), p)
      /\ SecondList' = <<tmp>> \o LIST_REMOVE(SecondList, p)
      /\ present' = (present \cup {p}) \ {tmp}
      /\ UNCHANGED <<PageWorkingSetList, mapped, modified, frame, pfvars>>
      /\ Resume

\* The faulted page is in the second list: it changes places with the last
\* page of the active list.
SecondListHit(p) ==
  LET tmp == Last(ActiveList)
  IN  /\ ActiveList' = <<p>> \o Front(ActiveList)
      /\ SecondList' = <<tmp>> \o LIST_REMOVE(SecondList, p)
      /\ present' = (present \cup {p}) \ {tmp}
      /\ UNCHANGED <<PageWorkingSetList, mapped, modified, frame, pfvars>>
      /\ Resume

\* No element is available: the last page of the second list (of the active
\* list when the second list has size 0) is written back and unmapped.
Replace(p) ==
  LET list == IF SecondListSize > 0 THEN SecondList ELSE ActiveList
      victim == Last(list)
  IN  IF list = <<>>
      THEN UNCHANGED <<wsvars, ptvars, pfvars>> /\ Stop("crashed")
      ELSE Placement(p, IF SecondListSize > 0 THEN ActiveList ELSE Front(ActiveList),
                     IF SecondListSize > 0 THEN Front(SecondList) ELSE SecondList,
                     1, mapped \ {victim}, present \ {victim}, WriteBack(victim))

\* Mutant of page_fault_handler: Placement without an available element.
page_fault_handler_unguarded(p) ==
  /\ FaultsOn(p)
  /\ PDX(p) \in tables
  /\ \/ p \in ToSet(SecondList) /\ SecondListHit(p)
     \/ /\ p \notin ToSet(SecondList)
        /\ Placement(p, ActiveList, SecondList, PageWorkingSetList, mapped, present, disk)
  /\ UNCHANGED <<sizes, tables>>

page_fault_handler(p) ==
  /\ FaultsOn(p)
  /\ PDX(p) \in tables
  /\ \/ p \in ToSet(SecondList) /\ SecondListHit(p)
     \/ /\ p \notin ToSet(SecondList) /\ PageWorkingSetList > 0
        /\ Placement(p, ActiveList, SecondList, PageWorkingSetList, mapped, present, disk)
     \/ p \notin ToSet(SecondList) /\ PageWorkingSetList = 0 /\ Replace(p)
  /\ UNCHANGED <<sizes, tables>>

-----------------------------------------------------------------------------
(* System calls *)

\* sys_allocateMem and sys_freeMem of the pages va .. va+n-1, when the page
\* file has room for so many more.
SysCall(op, va, n, room) ==
  /\ Running /\ insn = NONE
  /\ va..(va + n - 1) \subseteq Heap
  /\ IF op = "freeMem" THEN room = 0 ELSE Cardinality(pf) + room <= DiskFrames
  /\ kcall' = [op |-> op, va |-> va, n |-> n, i |-> 0, room |-> room]
  /\ UNCHANGED <<sizes, wsvars, ptvars, pfvars, tables, insn, reg, mode>>

NextPage(room) == kcall' = [kcall EXCEPT !.i = @ + 1, !.room = room]

\* One round of allocateMem: pf_add_empty_env_page.  A full page file is not
\* reported; a disk page table that cannot be allocated is a panic.
allocateMem ==
  /\ kcall # NONE /\ kcall.op = "allocateMem"
  /\ \/ /\ kcall.i = kcall.n
        /\ kcall' = NONE
        /\ UNCHANGED <<pfvars, insn, reg, mode>>
     \/ /\ kcall.i < kcall.n
        /\ LET p == kcall.va + kcall.i
           IN  IF p \in pf \/ kcall.room = 0
               THEN UNCHANGED pfvars /\ NextPage(kcall.room)
               ELSE /\ pf' = pf \cup {p} /\ disk' = [disk EXCEPT ![p] = GARBAGE]
                    /\ NextPage(kcall.room - 1)
        /\ UNCHANGED <<insn, reg, mode>>
     \/ kcall.i < kcall.n /\ Stop("exited") /\ UNCHANGED pfvars
  /\ UNCHANGED <<sizes, wsvars, ptvars, tables>>

\* Mutant of FreeResident: only the active list is searched.
FreeResident_active_only(p) ==
  \/ /\ p \in ToSet(ActiveList)
     /\ ActiveList' = LIST_REMOVE(ActiveList, p)
     /\ present' = present \ {p}
     /\ mapped' = mapped \ {p}
     /\ modified' = modified \ {p}
     /\ UNCHANGED <<SecondList, PageWorkingSetList>>
  \/ p \notin ToSet(ActiveList) /\ UNCHANGED <<wsvars, mapped, present, modified>>

\* The element of an active page is not returned to PageWorkingSetList, and the
\* first page of the second list takes its place at the end of the active list.
FreeActive(p) ==
  /\ p \in ToSet(ActiveList)
  /\ IF SecondList = <<>>
     THEN /\ ActiveList' = LIST_REMOVE(ActiveList, p)
          /\ present' = present \ {p}
          /\ UNCHANGED SecondList
     ELSE /\ ActiveList' = Append(LIST_REMOVE(ActiveList, p), Head(SecondList))
          /\ SecondList' = Tail(SecondList)
          /\ present' = (present \ {p}) \cup {Head(SecondList)}
  /\ mapped' = mapped \ {p}
  /\ modified' = modified \ {p}
  /\ UNCHANGED PageWorkingSetList

\* Mutant of FreeSecond: the element is not returned here either.
FreeSecond_lost(p) ==
  /\ p \notin ToSet(ActiveList) /\ ActiveList # <<>> /\ p \in ToSet(SecondList)
  /\ SecondList' = LIST_REMOVE(SecondList, p)
  /\ mapped' = mapped \ {p}
  /\ modified' = modified \ {p}
  /\ UNCHANGED <<ActiveList, present, PageWorkingSetList>>

\* The second list is searched from within the loop over the active list.
FreeSecond(p) ==
  /\ p \notin ToSet(ActiveList) /\ ActiveList # <<>> /\ p \in ToSet(SecondList)
  /\ SecondList' = LIST_REMOVE(SecondList, p)
  /\ PageWorkingSetList' = PageWorkingSetList + 1
  /\ mapped' = mapped \ {p}
  /\ modified' = modified \ {p}
  /\ UNCHANGED <<ActiveList, present>>

\* Page p leaves the working set, if it is there.
FreeResident(p) ==
  \/ FreeActive(p)
  \/ FreeSecond(p)
  \/ /\ p \notin ToSet(ActiveList) /\ (ActiveList = <<>> \/ p \notin ToSet(SecondList))
     /\ UNCHANGED <<wsvars, mapped, present, modified>>

\* Mutant of FreedTables: the entries of the table are not examined.
FreedTables_unchecked(va, n) ==
  {t \in tables : \E k \in 0..n : k % PTSIZE = 0 /\ PDX(va + k) = t}

\* The tables that freeMem removes: it looks at va, va + PTSIZE, ... up to the
\* end of the range, and frees a table whose entries are all 0.
FreedTables(va, n) ==
  {t \in tables : /\ \E k \in 0..n : k % PTSIZE = 0 /\ PDX(va + k) = t
                  /\ \A p \in mapped : PDX(p) # t}

\* One round of freeMem, and the removal of tables after the last one.
freeMem ==
  /\ kcall # NONE /\ kcall.op = "freeMem"
  /\ \/ /\ kcall.i < kcall.n
        /\ LET p == kcall.va + kcall.i
           IN  FreeResident(p) /\ pf' = pf \ {p} /\ disk' = Keep(disk, pf \ {p})
        /\ frame' = Keep(frame, mapped')
        /\ NextPage(0)
        /\ UNCHANGED tables
     \/ /\ kcall.i = kcall.n
        /\ tables' = tables \ FreedTables(kcall.va, kcall.n)
        /\ kcall' = NONE
        /\ UNCHANGED <<wsvars, ptvars, pfvars>>
  /\ UNCHANGED <<sizes, insn, reg, mode>>

-----------------------------------------------------------------------------
(* The environment is killed, between two of its steps, or after it exited *)

\* Mutant of env_free: the pages of the second list are not unmapped.
env_free_active ==
  /\ mode \in {"run", "exited"} /\ kcall = NONE
  /\ ActiveList' = <<>>
  /\ SecondList' = <<>>
  /\ PageWorkingSetList' = PageWorkingSetList + Len(ActiveList) + Len(SecondList)
  /\ LET unmapped == ToSet(ActiveList)
     IN  mapped' = mapped \ unmapped /\ present' = present \ unmapped
           /\ modified' = modified \ unmapped /\ frame' = Keep(frame, mapped \ unmapped)
  /\ tables' = {}
  /\ pf' = {}
  /\ disk' = Keep(disk, {})
  /\ mode' = "freed"
  /\ insn' = NONE
  /\ UNCHANGED <<sizes, kcall, reg>>

env_free ==
  /\ mode \in {"run", "exited"} /\ kcall = NONE
  /\ ActiveList' = <<>>
  /\ SecondList' = <<>>
  /\ PageWorkingSetList' = PageWorkingSetList + Len(ActiveList) + Len(SecondList)
  /\ LET unmapped == ToSet(ActiveList) \cup ToSet(SecondList)
     IN  mapped' = mapped \ unmapped /\ present' = present \ unmapped
           /\ modified' = modified \ unmapped /\ frame' = Keep(frame, mapped \ unmapped)
  /\ tables' = {}
  /\ pf' = {}
  /\ disk' = Keep(disk, {})
  /\ mode' = "freed"
  /\ insn' = NONE
  /\ UNCHANGED <<sizes, kcall, reg>>

\* Nothing happens to an environment that is gone, or after a kernel crash.
Ended == mode \in {"crashed", "freed"} /\ UNCHANGED vars

Next ==
  \/ \E c \in ToSet(Code), p \in Pages, op \in Values \cup {"load"} : Issue(c, p, op)
  \/ Execute
  \/ \E p \in Pages : table_fault_handler(p) \/ page_fault_handler(p)
  \/ \E op \in {"allocateMem", "freeMem"}, va \in Heap, n \in 1..Cardinality(Heap) :
       \E room \in 0..n : SysCall(op, va, n, room)
  \/ allocateMem
  \/ freeMem
  \/ env_free
  \/ Ended

Spec == Init /\ [][Next]_vars

\* The CPU restarts a faulted instruction, and the scheduler runs every
\* environment again and again (ReadyEventuallyRuns of Scheduler).
FairSpec ==
  /\ Spec
  /\ WF_vars(Execute)
  /\ WF_vars(\E p \in Pages : table_fault_handler(p) \/ page_fault_handler(p))

-----------------------------------------------------------------------------
(* Properties *)

TypeOK ==
  /\ sizes \in ListSizes
  /\ ActiveList \in Seq(Pages) /\ SecondList \in Seq(Pages)
  /\ PageWorkingSetList \in Nat
  /\ mapped \subseteq Pages /\ present \subseteq Pages /\ modified \subseteq Pages
  /\ frame \in [Pages -> Contents]
  /\ pf \subseteq Pages /\ disk \in [Pages -> Contents]
  /\ insn = NONE \/ insn \in [fetch : ToSet(Code), data : Pages, op : Values \cup {"load"}]
  /\ kcall = NONE \/ kcall \in [op : {"allocateMem", "freeMem"}, va : Heap, n : Nat, i : Nat,
                                room : Nat]
  /\ reg \in Contents
  /\ mode \in {"run", "exited", "crashed", "freed"}

\* While the environment runs, a page is PRESENT exactly when it is in the
\* active list, and holds a frame exactly when it is in one of the lists, once:
\* faults, swaps, evictions and freeMem keep page table and lists in step.
ListsMatchPageTable ==
  mode = "run" =>
    /\ present = ToSet(ActiveList)
    /\ mapped = ToSet(ActiveList) \cup ToSet(SecondList)
    /\ ToSet(ActiveList) \cap ToSet(SecondList) = {}
    /\ Cardinality(mapped) = Len(ActiveList) + Len(SecondList)

\* inc/environment_definitions.h: the lists stay within their "Max allowed
\* size", and the second list is in use only when the active list is full, on
\* which the fault handler (LIST_LAST of the active list) and freeMem (the
\* second list is searched from the loop over the active one) both rely.
SizesKept ==
  /\ Len(ActiveList) <= ActiveListSize
  /\ Len(SecondList) <= SecondListSize
  /\ (mode = "run" /\ SecondList # <<>>) => Len(ActiveList) = ActiveListSize
  /\ Len(ActiveList) + Len(SecondList) + PageWorkingSetList <= page_WS_max_size

\* Every page with a frame has its page table: pt_set_page_permissions panics
\* on a victim or a demoted page whose table freeMem has removed.
ResidentHasTable ==
  mode = "run" => \A p \in mapped : PDX(p) \in tables

\* Evicting a page that is not MODIFIED loses nothing: it has a disk frame that
\* agrees with its frame.  Of the others only the stack page of env_create may
\* have no disk frame to be written back to.
CleanPagesAreOnDisk ==
  mode = "run" => /\ \A p \in mapped \ modified : p \in pf /\ frame[p] = disk[p]
                  /\ mapped \ pf \subseteq {StackTop}

\* The environment that uses the pages sees a memory that keeps what it stored,
\* but for the stack page of env_create when the page file had no room for it:
\* the content of a page is its frame if it is in a list, else its disk frame.
Listed == ToSet(ActiveList) \cup ToSet(SecondList)

VM == INSTANCE VirtualMemory WITH
        Image   <- ToSet(Code) \cup {StackTop},
        Fragile <- {StackTop},
        mem     <- [p \in Pages |-> IF p \in Listed THEN frame[p]
                                    ELSE IF p \in pf THEN disk[p] ELSE NOPAGE],
        unsaved <- Listed \ pf,
        alive   <- mode = "run"

PagingIsTransparent == VM!Spec

\* "update it in the page file before release it" (page_fault_handler): a
\* modified page that is released for another one is in the page file.
EvictedIsSaved ==
  [][(kcall = NONE /\ mode' = "run") =>
       \A p \in (mapped \ mapped') \cap modified : p \in pf /\ disk'[p] = frame[p]]_vars

\* With a second list, a faulted instruction is completed or the environment is
\* stopped: the pages it needs do not push each other out for ever.
InstructionCompletes == (insn # NONE /\ SecondListSize > 0) ~> insn = NONE

\* Elements of the working set are neither made nor lost, but for one in each
\* round of freeMem that finds its page in the active list.
Elements == PageWorkingSetList + Len(ActiveList) + Len(SecondList)

FreesActive ==
  /\ kcall # NONE /\ kcall.op = "freeMem" /\ kcall.i < kcall.n
  /\ kcall.va + kcall.i \in ToSet(ActiveList)

ElementsLostByFree ==
  mode' = "run" => Elements' = IF FreesActive THEN Elements - 1 ELSE Elements

\* env_free gives back every frame but that of a page that Placement had mapped
\* before it found the access illegal, or no room in the page file for a new
\* page of the stack: one page at most, and none of the program's segments.
FreeKeepsOnlyUnplaced ==
  mode = "freed" => Cardinality(mapped) <= 1 /\ mapped \cap ToSet(Code) = {}

\* The lists, the page table and the page tables that exist are one consistent
\* working set between any two faults and calls.
WorkingSetConsistent == ListsMatchPageTable /\ SizesKept /\ ResidentHasTable

\* What is lost, and when: an element for each active page that freeMem frees,
\* and the frame of a page that was never placed when the environment is freed.
\* No other step loses an element or a frame.
LossesAreKnown == [][ElementsLostByFree /\ FreeKeepsOnlyUnplaced']_vars

=============================================================================
