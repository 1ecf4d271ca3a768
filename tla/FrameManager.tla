---------------------------- MODULE FrameManager ----------------------------
(***************************************************************************)
(* Who owns each physical frame: the free frame list and the reference     *)
(* counts of kern/memory_manager.c, the page directories, page tables and  *)
(* pages of the environments, and the in-memory directory and tables of    *)
(* their page files (kern/file_manager.c).                                 *)
(*                                                                         *)
(* A handler that allocates frames is a sequence of steps, "todo", carried *)
(* out for the environment "job" with nothing in between: each allocation  *)
(* may find the free list empty, and the panic of allocate_frame leaves    *)
(* behind what the earlier steps did.  "held" is a frame between           *)
(* allocate_frame and map_frame.                                           *)
(*                                                                         *)
(* Which pages are in the active and which in the second list is left to   *)
(* LRUPaging: ws is their union, and any page of it may be the victim.     *)
(* The free list is a set, from which allocate_frame takes some element:   *)
(* frames are alike, so its order does not matter.                         *)
(***************************************************************************)
EXTENDS Naturals, Sequences, FiniteSets

CONSTANTS
  Envs, Frames, Pages, Tables,
  PDX,         \* PDX[p]: the page table of page p
  Code,        \* sequence of the pages of the segments
  StackTop,    \* the stack page that env_create loads
  Stack,       \* pages of the stack area
  Heap,        \* pages handed to allocateMem and freeMem
  WSSize,      \* page_WS_max_size
  DiskFrames,  \* disk frames of the page file
  NULL

ASSUME FrameConstants ==
  /\ IsFiniteSet(Frames) /\ NULL \notin Frames \cup Envs
  /\ PDX \in [Pages -> Tables]
  /\ Code \in Seq(Pages) /\ Stack \subseteq Pages /\ Heap \subseteq Pages
  /\ StackTop \in Stack /\ \A i \in 1..Len(Code) : Code[i] \notin Stack
  /\ \A i, j \in 1..Len(Code) : Code[i] = Code[j] => i = j
  /\ WSSize \in Nat \ {0} /\ DiskFrames \in Nat

VARIABLES
  free_frame_list,
  references,          \* of every frame
  env_page_directory,  \* frame of the environment's page directory
  page_table,          \* frame that the directory entry of a table holds
  page_table_entry,    \* frame that the entry of a page holds
  disk_env_pgdir,      \* frame of the page file's directory
  disk_page_table,     \* frame of the page file's table
  ws,                  \* pages in the active or second list
  pf,                  \* pages with a disk frame
  status,              \* see Status
  todo, job, held,     \* the allocating handler in progress
  corrupted            \* free_frame was given a frame that was free

framevars == <<free_frame_list, references, corrupted>>
dirvars   == <<env_page_directory, page_table, page_table_entry>>
diskvars  == <<disk_env_pgdir, disk_page_table>>
vars == <<free_frame_list, references, env_page_directory, page_table,
          page_table_entry, disk_env_pgdir, disk_page_table, ws, pf, status, todo,
          job, held, corrupted>>

\* "lost": its creation panicked after it had left the free environment list;
\* "panicked": exited by a panic in one of its handlers.
Status == {"free", "creating", "live", "exited", "panicked", "lost"}

-----------------------------------------------------------------------------
(* Frames *)

\* LIST_FIRST of the free list leaves it, for a use that counts refs.
allocate_frame(f, refs) ==
  /\ free_frame_list # {}
  /\ f = CHOOSE g \in free_frame_list : TRUE
  /\ free_frame_list' = free_frame_list \ {f}
  /\ references' = [references EXCEPT ![f] = refs]
  /\ UNCHANGED corrupted

\* decrement_references of the frames in S, of which those without further
\* references are freed, and free_frame of the frames in T.
Release(S, T) ==
  LET count(f) == (references[f] + 65535) % 65536
      freed    == {f \in S : count(f) = 0} \cup T
  IN  /\ free_frame_list' = free_frame_list \cup freed
      /\ references' = [f \in Frames |-> IF f \in freed THEN 0
                                         ELSE IF f \in S THEN count(f)
                                         ELSE references[f]]
      /\ corrupted' = (corrupted \/ freed \cap free_frame_list # {} \/ S \cap T # {})

\* The frames that unmap_frame finds in the entries of the pages P of e.
FramesOf(e, P) == {page_table_entry[e][p] : p \in P} \ {NULL}

unmap_frame(e, P) ==
  /\ Release(FramesOf(e, P), {})
  /\ page_table_entry' =
       [page_table_entry EXCEPT ![e] = [p \in Pages |-> IF p \in P THEN NULL ELSE @[p]]]

-----------------------------------------------------------------------------
(* Steps of the handler in progress.  Each of the five places that allocate *)
(* has its condition, Needs..., shared with the panic when no frame is left. *)

Step(op, p) == [op |-> op, page |-> p]

Doing(ops) == todo # <<>> /\ Head(todo).op \in ops
page  == Head(todo).page
table == PDX[page]

NeedsDirectory == Doing({"directory"})
NeedsPage      == Doing({"load", "map"}) /\ held = NULL
NeedsTable     == \/ Doing({"table"})
                  \/ Doing({"load", "map"}) /\ held # NULL /\ page_table[job][table] = NULL
NeedsDiskDir   == Doing({"pf", "pf_or_panic"}) /\ disk_env_pgdir[job] = NULL
NeedsDiskTable == Doing({"pf", "pf_or_panic"}) /\ disk_env_pgdir[job] # NULL
                    /\ disk_page_table[job][table] = NULL

\* The directory of the new environment, which then leaves the free list.
AllocateDirectory ==
  /\ NeedsDirectory
  /\ \E f \in Frames :
       /\ allocate_frame(f, 1)
       /\ env_page_directory' = [env_page_directory EXCEPT ![job] = f]
  /\ todo' = Tail(todo)
  /\ UNCHANGED <<page_table, page_table_entry, diskvars, ws, pf, status, job, held>>

\* The frame of a page, not mapped yet.
AllocatePage ==
  /\ NeedsPage
  /\ \E f \in Frames : allocate_frame(f, 0) /\ held' = f
  /\ UNCHANGED <<dirvars, diskvars, ws, pf, status, todo, job>>

static_cpt ==
  /\ NeedsTable
  /\ \E f \in Frames :
       /\ allocate_frame(f, 1)
       /\ page_table' = [page_table EXCEPT ![job][table] = f]
  /\ todo' = IF Doing({"table"}) THEN Tail(todo) ELSE todo
  /\ UNCHANGED <<env_page_directory, page_table_entry, diskvars, ws, pf, status, job, held>>

get_disk_page_directory ==
  /\ NeedsDiskDir
  /\ \E f \in Frames :
       /\ allocate_frame(f, 1)
       /\ disk_env_pgdir' = [disk_env_pgdir EXCEPT ![job] = f]
  /\ UNCHANGED <<dirvars, disk_page_table, ws, pf, status, todo, job, held>>

\* Mutant of get_disk_page_table: the table's frame has no reference.
get_disk_page_table_uncounted ==
  /\ NeedsDiskTable
  /\ \E f \in Frames :
       /\ allocate_frame(f, 0)
       /\ disk_page_table' = [disk_page_table EXCEPT ![job][table] = f]
  /\ UNCHANGED <<dirvars, disk_env_pgdir, ws, pf, status, todo, job, held>>

get_disk_page_table ==
  /\ NeedsDiskTable
  /\ \E f \in Frames :
       /\ allocate_frame(f, 1)
       /\ disk_page_table' = [disk_page_table EXCEPT ![job][table] = f]
  /\ UNCHANGED <<dirvars, disk_env_pgdir, ws, pf, status, todo, job, held>>

\* Mutant of Panics: the frame between allocate_frame and map_frame is kept.
Panics_keeps_frame ==
  /\ status' = [status EXCEPT ![job] =
                  IF @ # "creating" THEN "panicked"
                  ELSE IF env_page_directory[job] = NULL THEN "free" ELSE "lost"]
  /\ todo' = <<>> /\ job' = NULL /\ UNCHANGED held

\* A panic in the handler of job.  A new environment without a directory is
\* still on the free environment list; one that has it is on no list at all.
Panics ==
  /\ status' = [status EXCEPT ![job] =
                  IF @ # "creating" THEN "panicked"
                  ELSE IF env_page_directory[job] = NULL THEN "free" ELSE "lost"]
  /\ todo' = <<>> /\ job' = NULL /\ held' = NULL

\* allocate_frame finds the free list empty.
OutOfFrames ==
  /\ NeedsDirectory \/ NeedsPage \/ NeedsTable \/ NeedsDiskDir \/ NeedsDiskTable
  /\ free_frame_list = {}
  /\ Panics
  /\ UNCHANGED <<framevars, dirvars, diskvars, ws, pf>>

\* The held frame is mapped; env_create enters the page in the working set at
\* once, Placement after it has read it.
map_frame ==
  /\ Doing({"load", "map"}) /\ held # NULL /\ page_table[job][table] # NULL
  /\ references' = [references EXCEPT ![held] = @ + 1]
  /\ page_table_entry' = [page_table_entry EXCEPT ![job][page] = held]
  /\ held' = NULL
  /\ ws' = IF Doing({"load"}) THEN [ws EXCEPT ![job] = @ \cup {page}] ELSE ws
  /\ todo' = Tail(todo)
  /\ UNCHANGED <<free_frame_list, corrupted, env_page_directory, page_table, diskvars, pf,
                 status, job>>

DiskFull == Cardinality({x \in Envs \X Pages : x[2] \in pf[x[1]]}) >= DiskFrames

\* allocate_disk_frame.  allocateMem, and env_create for the stack page, ignore
\* that the disk is full; the others panic.
pf_add_env_page ==
  /\ Doing({"pf", "pf_or_panic"})
  /\ disk_env_pgdir[job] # NULL /\ disk_page_table[job][table] # NULL
  /\ IF page \in pf[job] \/ ~DiskFull
     THEN /\ pf' = [pf EXCEPT ![job] = @ \cup {page}]
          /\ todo' = Tail(todo)
          /\ UNCHANGED <<status, job, held>>
     ELSE /\ UNCHANGED pf
          /\ IF Doing({"pf"}) THEN todo' = Tail(todo) /\ UNCHANGED <<status, job, held>>
             ELSE Panics
  /\ UNCHANGED <<framevars, dirvars, diskvars, ws>>

\* The end of Placement: the page enters the working set, or was not to be
\* accessed.
Placed ==
  /\ Doing({"ws", "illegal"})
  /\ IF Doing({"ws"})
     THEN /\ ws' = [ws EXCEPT ![job] = @ \cup {page}]
          /\ todo' = Tail(todo)
          /\ UNCHANGED <<status, job, held>>
     ELSE Panics /\ UNCHANGED ws
  /\ UNCHANGED <<framevars, dirvars, diskvars, pf>>

\* The handler returns.
Returns ==
  /\ todo = <<>> /\ job # NULL
  /\ status' = [status EXCEPT ![job] = IF @ = "creating" THEN "live" ELSE @]
  /\ job' = NULL
  /\ UNCHANGED <<framevars, dirvars, diskvars, ws, pf, todo, held>>

-----------------------------------------------------------------------------
(* The handlers *)

Idle(e, s) == job = NULL /\ status[e] = s

Begin(e, steps) == job' = e /\ todo' = steps /\ UNCHANGED held

Steps(op, pages) == [i \in 1..Len(pages) |-> Step(op, pages[i])]

\* The first n pages of the segments are loaded, all go to the page file, and
\* the stack page is loaded and added.
env_create(e, n) ==
  /\ Idle(e, "free") /\ n <= Len(Code) /\ n < WSSize
  /\ status' = [status EXCEPT ![e] = "creating"]
  /\ Begin(e, <<Step("directory", StackTop)>> \o Steps("load", SubSeq(Code, 1, n))
                \o Steps("pf_or_panic", Code)
                \o <<Step("load", StackTop), Step("pf", StackTop)>>)
  /\ UNCHANGED <<framevars, dirvars, diskvars, ws, pf>>

table_fault_handler(e, p) ==
  /\ Idle(e, "live") /\ page_table[e][PDX[p]] = NULL
  /\ Begin(e, <<Step("table", p)>>)
  /\ UNCHANGED <<framevars, dirvars, diskvars, ws, pf, status>>

\* Placement, which reads the page from the page file or adds a stack page.
Placement(e, p) ==
  Begin(e, <<Step("map", p)>> \o
           IF p \in pf[e] THEN <<Step("ws", p)>>
           ELSE IF p \in Stack THEN <<Step("pf_or_panic", p), Step("ws", p)>>
           ELSE <<Step("illegal", p)>>)

\* Mutant of page_fault_handler: the victim stays in the working set.
page_fault_handler_victim_listed(e, p) ==
  /\ Idle(e, "live") /\ page_table[e][PDX[p]] # NULL /\ p \notin ws[e]
  /\ \/ /\ Cardinality(ws[e]) < WSSize
        /\ UNCHANGED <<framevars, page_table_entry, ws>>
     \/ \E victim \in ws[e] :
          /\ unmap_frame(e, {victim})
          /\ UNCHANGED ws
  /\ Placement(e, p)
  /\ UNCHANGED <<env_page_directory, page_table, diskvars, pf, status>>

\* A fault on a page that is in none of the lists, with an available element
\* or with a victim.
page_fault_handler(e, p) ==
  /\ Idle(e, "live") /\ page_table[e][PDX[p]] # NULL /\ p \notin ws[e]
  /\ \/ /\ Cardinality(ws[e]) < WSSize
        /\ UNCHANGED <<framevars, page_table_entry, ws>>
     \/ \E victim \in ws[e] :
          /\ unmap_frame(e, {victim})
          /\ ws' = [ws EXCEPT ![e] = @ \ {victim}]
  /\ Placement(e, p)
  /\ UNCHANGED <<env_page_directory, page_table, diskvars, pf, status>>

allocateMem(e, p) ==
  /\ Idle(e, "live")
  /\ Begin(e, <<Step("pf", p)>>)
  /\ UNCHANGED <<framevars, dirvars, diskvars, ws, pf, status>>

\* Mutant of freeMem: the entry of a freed table stays in the directory.
freeMem_keeps_entry(e, p) ==
  LET P      == {p} \cap ws[e]
      tables == {t \in {PDX[p]} : /\ page_table[e][t] # NULL
                                  /\ \A q \in Pages \ P :
                                       PDX[q] = t => page_table_entry[e][q] = NULL}
  IN  /\ Idle(e, "live")
      /\ Release(FramesOf(e, P), {page_table[e][t] : t \in tables})
      /\ page_table_entry' = [page_table_entry EXCEPT ![e][p] = IF p \in P THEN NULL ELSE @]
      /\ ws' = [ws EXCEPT ![e] = @ \ P]
      /\ pf' = [pf EXCEPT ![e] = @ \ {p}]
      /\ UNCHANGED <<env_page_directory, page_table, diskvars, status, todo, job, held>>

\* freeMem of one page (LRUPaging has the ranges): its table is freed when no
\* entry of it is in use.
freeMem(e, p) ==
  LET P      == {p} \cap ws[e]
      tables == {t \in {PDX[p]} : /\ page_table[e][t] # NULL
                                  /\ \A q \in Pages \ P :
                                       PDX[q] = t => page_table_entry[e][q] = NULL}
  IN  /\ Idle(e, "live")
      /\ Release(FramesOf(e, P), {page_table[e][t] : t \in tables})
      /\ page_table_entry' = [page_table_entry EXCEPT ![e][p] = IF p \in P THEN NULL ELSE @]
      /\ page_table' =
           [page_table EXCEPT ![e] = [t \in Tables |-> IF t \in tables THEN NULL ELSE @[t]]]
      /\ ws' = [ws EXCEPT ![e] = @ \ P]
      /\ pf' = [pf EXCEPT ![e] = @ \ {p}]
      /\ UNCHANGED <<env_page_directory, diskvars, status, todo, job, held>>

env_exit(e) ==
  /\ Idle(e, "live")
  /\ status' = [status EXCEPT ![e] = "exited"]
  /\ UNCHANGED <<framevars, dirvars, diskvars, ws, pf, todo, job, held>>

TablesOf(table_frames) == {table_frames[t] : t \in Tables} \ {NULL}

\* Mutant of env_free: pf_free_env keeps the page file's tables.
env_free_keeps_disk_tables(e) ==
  /\ job = NULL /\ status[e] \in {"live", "exited", "panicked"}
  /\ Release(FramesOf(e, ws[e]) \cup {disk_env_pgdir[e]},
             TablesOf(page_table[e]) \cup {env_page_directory[e]})
  /\ env_page_directory' = [env_page_directory EXCEPT ![e] = NULL]
  /\ page_table' = [page_table EXCEPT ![e] = [t \in Tables |-> NULL]]
  /\ page_table_entry' = [page_table_entry EXCEPT ![e] = [p \in Pages |-> NULL]]
  /\ disk_env_pgdir' = [disk_env_pgdir EXCEPT ![e] = NULL]
  /\ disk_page_table' = [disk_page_table EXCEPT ![e] = [t \in Tables |-> NULL]]
  /\ ws' = [ws EXCEPT ![e] = {}]
  /\ pf' = [pf EXCEPT ![e] = {}]
  /\ status' = [status EXCEPT ![e] = "free"]
  /\ UNCHANGED <<todo, job, held>>

\* The pages of the working set are unmapped, the tables and the directory
\* freed, and the page file with its tables and its directory.
env_free(e) ==
  /\ job = NULL /\ status[e] \in {"live", "exited", "panicked"}
  /\ Release(FramesOf(e, ws[e]) \cup TablesOf(disk_page_table[e]) \cup {disk_env_pgdir[e]},
             TablesOf(page_table[e]) \cup {env_page_directory[e]})
  /\ env_page_directory' = [env_page_directory EXCEPT ![e] = NULL]
  /\ page_table' = [page_table EXCEPT ![e] = [t \in Tables |-> NULL]]
  /\ page_table_entry' = [page_table_entry EXCEPT ![e] = [p \in Pages |-> NULL]]
  /\ disk_env_pgdir' = [disk_env_pgdir EXCEPT ![e] = NULL]
  /\ disk_page_table' = [disk_page_table EXCEPT ![e] = [t \in Tables |-> NULL]]
  /\ ws' = [ws EXCEPT ![e] = {}]
  /\ pf' = [pf EXCEPT ![e] = {}]
  /\ status' = [status EXCEPT ![e] = "free"]
  /\ UNCHANGED <<todo, job, held>>

-----------------------------------------------------------------------------

\* initialize_paging: all frames that the kernel does not use are free.
Init ==
  /\ free_frame_list = Frames
  /\ references = [f \in Frames |-> 0]
  /\ env_page_directory = [e \in Envs |-> NULL]
  /\ page_table = [e \in Envs |-> [t \in Tables |-> NULL]]
  /\ page_table_entry = [e \in Envs |-> [p \in Pages |-> NULL]]
  /\ disk_env_pgdir = [e \in Envs |-> NULL]
  /\ disk_page_table = [e \in Envs |-> [t \in Tables |-> NULL]]
  /\ ws = [e \in Envs |-> {}]
  /\ pf = [e \in Envs |-> {}]
  /\ status = [e \in Envs |-> "free"]
  /\ todo = <<>> /\ job = NULL /\ held = NULL
  /\ corrupted = FALSE

Proceed ==
  \/ AllocateDirectory \/ AllocatePage \/ static_cpt
  \/ get_disk_page_directory \/ get_disk_page_table
  \/ OutOfFrames \/ map_frame \/ pf_add_env_page \/ Placed \/ Returns

Next ==
  \/ Proceed
  \/ \E e \in Envs :
       \/ \E n \in 0..Len(Code) : env_create(e, n)
       \/ \E p \in Pages : table_fault_handler(e, p) \/ page_fault_handler(e, p)
       \/ \E p \in Heap : allocateMem(e, p) \/ freeMem(e, p)
       \/ env_exit(e)
       \/ env_free(e)

Spec == Init /\ [][Next]_vars

-----------------------------------------------------------------------------
(* Properties *)

FrameOrNull == Frames \cup {NULL}
Counts == 0..65535  \* a uint16
StepType == [op : {"directory", "load", "map", "table", "pf", "pf_or_panic", "ws", "illegal"},
             page : Pages]

TypeOK ==
  /\ free_frame_list \subseteq Frames
  /\ references \in [Frames -> Counts]
  /\ env_page_directory \in [Envs -> FrameOrNull]
  /\ page_table \in [Envs -> [Tables -> FrameOrNull]]
  /\ page_table_entry \in [Envs -> [Pages -> FrameOrNull]]
  /\ disk_env_pgdir \in [Envs -> FrameOrNull]
  /\ disk_page_table \in [Envs -> [Tables -> FrameOrNull]]
  /\ ws \in [Envs -> SUBSET Pages] /\ pf \in [Envs -> SUBSET Pages]
  /\ status \in [Envs -> Status]
  /\ job \in Envs \cup {NULL} /\ held \in FrameOrNull
  /\ todo \in Seq(StepType)
  /\ corrupted \in BOOLEAN
  /\ job = NULL => todo = <<>> /\ held = NULL

\* The places that may hold a frame.
Places == ({"directory", "disk_directory"} \X Envs \X {NULL})
          \cup ({"table", "disk_table"} \X Envs \X Tables)
          \cup ({"page"} \X Envs \X Pages)
          \cup {<<"held", NULL, NULL>>}

FrameAt(x) ==
  CASE x[1] = "directory"      -> env_page_directory[x[2]]
    [] x[1] = "disk_directory" -> disk_env_pgdir[x[2]]
    [] x[1] = "table"          -> page_table[x[2]][x[3]]
    [] x[1] = "disk_table"     -> disk_page_table[x[2]][x[3]]
    [] x[1] = "page"           -> page_table_entry[x[2]][x[3]]
    [] x[1] = "held"           -> held

InUse == {FrameAt(x) : x \in Places} \ {NULL}

\* Two environments, or two uses of one, never get the same frame, no frame in
\* use is on the free list, and none is put on it twice: what one environment
\* writes to a page, a table or a directory is never another's.
NoFrameShared ==
  /\ \A x, y \in Places : FrameAt(x) = FrameAt(y) /\ FrameAt(x) # NULL => x = y
  /\ InUse \cap free_frame_list = {}
  /\ ~corrupted

\* kern/memory_manager.c, of free_frame: "should only be called when
\* ptr_frame_info->references reaches 0".  A frame in use has one reference, and
\* one on the free list, or on its way to map_frame, has none.
ReferencesCounted ==
  /\ \A f \in InUse \ {held} : references[f] = 1
  /\ \A f \in free_frame_list \cup ({held} \ {NULL}) : references[f] = 0

\* A live environment between two handlers: exactly the pages of its working
\* set hold frames, and the table of each exists, so that env_free finds and
\* returns every one of them.
WorkingSetHoldsFrames ==
  \A e \in Envs : (status[e] = "live" /\ job # e) =>
    /\ {p \in Pages : page_table_entry[e][p] # NULL} = ws[e]
    /\ \A p \in ws[e] : page_table[e][PDX[p]] # NULL
    /\ env_page_directory[e] # NULL /\ disk_env_pgdir[e] # NULL

Leaked == Frames \ (free_frame_list \cup InUse)

\* No step loses a frame, be it freeMem, an eviction, or the killing of an
\* environment that is live or has exited, but a panic during env_create (the
\* frame not yet mapped) and the freeing of an environment stopped by a panic
\* (the page mapped but not yet in the working set).
LeakedOnlyByPanic ==
  [][\/ Leaked' = Leaked
     \/ \E e \in Envs : status[e] = "creating" /\ status'[e] = "lost"
     \/ \E e \in Envs : status[e] = "panicked" /\ status'[e] = "free"]_vars

\* Every frame is accounted for: one owner, the count that free_frame relies on,
\* and the working set through which env_free finds it again.
FramesAccounted == NoFrameShared /\ ReferencesCounted /\ WorkingSetHoldsFrames

=============================================================================
