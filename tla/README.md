# A TLA+ model of FOS

FOS is a small teaching operating system for one x86 CPU: a kernel with
environments (processes), demand paging with an LRU approximation, a page file,
a round-robin scheduler and a command prompt, and a user library with `malloc`
and `free`. This directory holds TLA+ modules for it, from the scheduler and
the pager down to the list macros and the string routines, the TLC
configurations that check them on small instances, and proofs that TLAPS checks
for every number of environments, pages, frames, list elements and calls. Paths below are relative to `src/`.

The build modelled is the one in the repository: `USE_KHEAP` is 0
(`inc/memlayout.h`), and `kern/init.c` boots with the LRU-lists page
replacement, best fit in the user heap, no buffering and round robin with a
quantum of 10 ms.

## 1. Inventory

| Component | State | Operations | Correct means |
|---|---|---|---|
| Scheduler and life cycle (`kern/sched.c`, `kern/user_environment.c`, `kern/init.c`) | `envs[]`, free list, new/ready/exit queues, `curenv`, scheduler status, loaded `cr3` | create, run, exit, kill, clock interrupt, panic; prompt commands | an environment is in one place, with the matching status; FIFO turns; nobody starves; the loaded directory is alive |
| Fault handler and working set (`kern/trap.c`) | active and second list, available elements, PTE bits | table fault, placement, swap with the second list, replacement | lists and page table agree; no store is lost; the faulting instruction completes |
| User memory in the kernel (`kern/memory_manager.c`) | page tables, directories | `allocateMem`, `freeMem`, `env_free` | pages, frames and empty tables are released, nothing in use is |
| Frame allocator (`kern/memory_manager.c`) | free frame list, `references` | `allocate_frame`, `free_frame`, `map_frame`, `unmap_frame` | one owner per frame, exact counts, no leak |
| Page file (`kern/file_manager.c`) | disk frames, disk directory and tables (kept in frames) | add, update, read, remove a page; free all | what was written is read back; its tables are freed |
| User heap (`lib/uheap.c`) | `addresses`, `numOfPages`, `changed`, `last_addres` | `malloc`, `free` | blocks are disjoint, inside the heap, placed best-fit, backed by the page file |
| Environment ids (`kern/helpers.c`, `inc/environment_definitions.h`) | `env_id` per slot | generation, `envid2env` | unique, found again, stale ids rejected |
| Traps, system calls (`kern/trap.c`, `kern/syscall.c`, `kern/trapentry.S`, `lib/syscall.c`) | saved trap frames, registers, interrupt flag, a few globals | stub, entry, dispatch, return; masking; print | each call gets its arguments and its answer, whoever runs in between; a masked section is alone |
| Timer (`kern/kclock.c`, `lib/concurrency.c`) | 16-bit counter, time stamp | set, stop, resume; `env_sleep` | a quantum is not shorter than asked for; a sleep does not end early |
| Lists (`inc/queue.h`) | links, ends, size | insert, remove, concatenate, iterate | they behave as sequences |
| Loader (`kern/user_environment.c`) | ELF image | walk headers, copy segments | memory and page file hold the same image, the rest is zero |
| Boot-time memory (`kern/memory_manager.c`, `kern/helpers.c`) | kernel directory, `ptr_free_mem`, first free list | detect, allocate, map | the kernel is mapped, what it uses is not free |
| Page table operations (`kern/memory_manager.c`, `kern/utilities.c`) | entries of a directory | set, clear, read permissions; count frames | they change the entry meant, and count what is missing |
| Console (`kern/console.c`, `lib/readline.c`) | ring buffer, shift state, screen | keyboard and serial input, read, echo | what is typed is read, in order; the screen shows the line |
| Prompt (`kern/command_prompt.c`) | line, cursor, history | keys, completion, dispatch | the line executed is the one typed |
| Library (`lib/string.c`, `lib/printfmt.c`, `kern/kdebug.c`) | none | strings, formats, symbol search | they compute what their comments say |
| Programs (`user/`) | script position, blocks, arrays | tests of the heap and the pager; interactive sorts | they pass; dialogues are not mixed up |

Shared memory, semaphores, the kernel heap, priorities, the MLFQ scheduler,
the buddy allocator, `realloc` and `moveMem` are stubs that panic with "this
function is not required" (or "not implemented").

**How the parts interact.** User programs enter the kernel by system calls,
faults and the clock interrupt. A fault uses the frame allocator and the page
file; the page file itself takes frames for its tables. `malloc` and `free`
call `sys_allocateMem` and `sys_freeMem`, which change the page file, the working set
and the page tables. Whatever panics inside the kernel exits the running
environment and calls the scheduler; when nothing is left to run, the scheduler
calls the command prompt, from which environments are created, started and
killed. All of them share `curenv` and the links in `struct Env`.

**What is hard.** The kernel never sets the interrupt flag, and all gates but
three are interrupt gates, which clear it, so the kernel hardly interleaves with itself. The exceptions
are the vectors 1, 3 and 4 (`kern/trap.c:106-109`): these are trap gates open to programs, and the
clock can come inside `trap()` as long as it has not stopped the timer. The other difficulties
are the orders in which user steps, clock interrupts, commands and faults
follow each other; handlers that allocate several things and panic half-way;
state that is cached or spread (the loaded `cr3`, MODIFIED bits, list membership
against PTE bits); fixed pools; and ids that outlive their environment. The
list with source lines is `hazards` in `PROJECT.json`.

## 2. Modules

| Module | Models | Runs |
|---|---|---|
| `Scheduler`, `MCScheduler` | environment life cycle, round robin, panics, commands | `sched_safety` |
| `ListSequences` | the macros of `inc/queue.h` as sequence operations, for the modules that use them so | (used by `Scheduler`, `LRUPaging`) |
| `ListProofs` | lemmas about lists without repetitions; induction and counting | |
| `SchedulerProofs` | theorems about `Scheduler` | |
| `VirtualMemory` | abstract: a memory without paging, page by page | (refined by `LRUPaging`) |
| `LRUPaging`, `MCLRUPaging` | one environment's demand paging | `paging_safety`, `stack_lost` |
| `LRUPagingProofs` | theorems about `LRUPaging`; it implements `VirtualMemory` | |
| `FrameManager`, `MCFrameManager` | ownership of all frames among several environments | `frames_safety` |
| `FrameManagerProofs` | theorems about `FrameManager` | |
| `UserHeap` | `malloc` and `free` | `heap_safety`, `heap_overlap`, `heap_backing` |
| `UserHeapProofs` | theorems about `UserHeap` | |
| `UserPrograms` | the test programs of `user/` on `UserHeap` and one environment's memory | `programs` |
| `SortAlgorithms`, `SortPrograms` | the interactive sorts, two at a time | `programs` |
| `MCPrograms` | the instance of both kinds of programs | `programs` |
| `EnvIds` | ids and their lookup | `library`, `stale_ids` |
| `Console` | keyboard, serial line, ring, screen, `readline` | `terminal` |
| `ConsoleProofs` | theorems about `Console` and `LineEditor` | |
| `LineEditor` | the prompt's line editor, history, completion | `terminal` |
| `MCTerminal` | the instance of `Console` and of `LineEditor` | `terminal` |
| `SystemCalls`, `MCSystemCalls` | stubs, trap entry and return, dispatch, printing | `library`, `bypass` |
| `SystemCallProofs` | theorems about `SystemCalls` | |
| `IntrusiveList` | the macros of `inc/queue.h` | `library` |
| `CString`, `PrintFormat` | strings, memory, numbers, formatted output | `library` |
| `Stabs` | the symbol search of back traces | `library` |
| `IntervalTimer` | counts of the timer, `env_sleep` | `library` |
| `Addresses` | rounding and the parts of an address | (used by the next three) |
| `ProgramLoader`, `BootMapping`, `PageTables` | segments, the kernel's address space, table entries | `library` |
| `Library`, `MCLibrary` | calls of the routines above, with their properties | `library` |
| `LibraryProofs` | the list macros implement sequences; the symbol search brackets the address; quanta and sleeps last as asked | |

`Library` extends the modules of routines and turns each into a call with an
input and a result; `MCLibrary` puts those calls and the programs of
`MCSystemCalls` and the ids of `EnvIds` into one run. `MCPrograms` and `MCTerminal`
choose in the initial state which of their two components the behaviour is about. `UserPrograms` composes `malloc` and `free` of
`UserHeap` with lists, page file and tables of one environment.

Definitions keep the names of the C functions and variables; the `map` in
`PROJECT.json` gives the lines of each. A definition whose comment says "Mutant
of X" is a deliberately wrong X with which the properties are tested: it is
used by no action. Every property is broken by at least one of them.

### Scheduler

State: the status of every slot of `envs[]`, the four lists as sequences (head
first; `enqueue` inserts at the head, the scheduler takes the last), `curenv`,
the scheduler's status, whose directory `cr3` holds, the saved interrupt flag,
the self-check switch, and `mode`: the CPU runs `curenv` in user mode, polls the
console in the prompt, or the kernel has crashed on a NULL `curenv`.
Each command, system call and trap is one action that includes everything up to
the return to user mode or the prompt: `env_exit`, for instance, ends with the
scheduler's choice of the next environment. Creation can panic early (the slot
stays on the free list) or late (it is on no list any more). Killing an id
follows `sched_kill_env` through its searches to the assertion on `curenv`.

Not told apart: program names, priorities, registers other than the interrupt
flag. `ENVX[e]` is a constant function that says which slot the index bits of
e's id select, since with 12 slots it is not always e (see `EnvIds`).

### LRUPaging and VirtualMemory

One environment's pages, with the active and second lists, the number of
available working set elements, PRESENT and MODIFIED per page, the content of
each frame and disk frame as a single value, and the page tables that exist. An
instruction is fetched from one page and loads from or stores to another; it
executes when both are present and otherwise faults, is handled, and starts
over. `allocateMem` and `freeMem` take one step per page, with nothing in
between. Whether `allocate_frame` finds a frame depends on the other
environments, so every allocation may panic. The page file is shared too: when a program is
loaded it may have no room for the stack page, which then is in memory only, and
MODIFIED because the kernel has cleared it.

`VirtualMemory` has only a value per page (or none) and the operations load,
store, allocate, free and stop. `PagingIsTransparent` is the refinement: a page's
abstract content is its frame's if it is in a list, otherwise its disk frame's. The one
thing that `VirtualMemory` lets go wrong is that the stack page of the loader is lost as long as
it is `unsaved`; the run `stack_lost` shows that this happens. The panic of
`allocate_frame` inside `get_disk_page_table`, after a stack page has been mapped, is in `FrameManager` and not here.

### FrameManager

Several environments and all frames: free list, `references`, directories, page
tables, page table entries, and the page file's directories and tables. A handler that
allocates is broken into steps (`todo`), because each allocation may be
the one that panics and leaves the rest behind. The order of the LRU lists is
left to `LRUPaging`: any page of the working set can be the victim.
`freeMem` frees one page here; ranges are in `LRUPaging`.

### UserHeap

The three parallel arrays as one sequence of entries, in the same order,
including the insertion when a hole is split and the negative page counts that
the code produces. Addresses count from `USER_HEAP_START`, in units of which a
page has `PAGE_SIZE`. The kernel side is the set of pages in the page file, in which `malloc` finds
room for some number of pages (`Rooms`); a block records how many of its pages got
a frame, which the code does not.
`Count(i)` is what the scan of `malloc` has added up when it meets entry i, since the last
allocated one; `Gaps` and `Fits`, with which `BestFit` is stated, are the holes between
the blocks themselves, without the array and without a limit.
`LargestHole` is the code's initial `min` (4000 pages): holes of that size are passed over, so `BestFit`
speaks of requests for which a smaller hole would do.

### EnvIds

The id arithmetic with bitwise operators, the real shift (12) and the real number
of slots: `NENV` is 1 MB divided by `sizeof(struct Env)`, 12 in this build.

### Programs

`UserPrograms` runs the scripts of the tests in `user/` that get past what the
kernel implements: a script is a sequence of calls and memory accesses with the
expectation the program checks after each (free frames, page file pages, blocks,
working set), at the real sizes. The working set that a program starts with is not computed by loading its
image but taken from the first list that the test expects (so that check says nothing), and `tst_free_1`, which
states none, starts with 32 resident pages: it needs at least 24 for the number of pages that it computes to
lie in its block. `SortPrograms` has one record per sort program:
how it sorts, where it masks interrupts, what it frees. A dialogue is a prompt
and an answer; the clock may interrupt wherever the program has not masked it.
The arithmetic fault of one or two semi-random elements, and the store behind the
array in `quicksort1.c`, are steps like any other.

### Console and LineEditor

`Console` takes scan codes byte by byte, with the E0 escape, the shift table and
the key tables reduced to the keys of the instance, the serial line beside it,
the ring, and the two readers: `cons_getc`, with which the kernel polls until
something comes, and `cons_getc2`, which gives a program a character only
when the keyboard has just delivered one. The screen has rows and columns and
scrolls. `LineEditor` is the prompt's own `readline`, a step per key, with the
buffer as bytes (what lies behind the terminator matters), cursor, end, history
and the completions of Tab, down to the dispatch of the line.

### SystemCalls

A program is a sequence of library calls, of instructions of any length that access memory, and of exceptions. Registers, the frame that processor
and entry code push, its copy in the environment, the dispatcher's arguments and
the answer's way back are separate steps, with the clock between any two
instructions. Handlers return values here; what they do to memory and queues is
in the other modules.

While some program has asked for it, every page fault is skipped by the number of bytes it gave.
In another program, or with another length, that leads into an instruction, and what the program does from
there is the action `Strays`: any other program. In the kernel, which faults on the
text and structures that programs pass, either one instruction that reads is skipped and something else is
printed (`TextRead`), or the kernel is lost (`KernelStrays`), after which nothing is followed. `ClockInTrap` is
the clock behind a trap gate: no frame is copied, so the program is restarted with the frame of its last trap
and repeats what it has done since; `saved` keeps what that was.
Left out: the clock between `kclock_resume` and the `iret` of a trap behind a trap gate, vectors with an error
code raised by `int n` (the processor then pushes none), and the panic on an unexpected trap in the kernel, which
only a lost kernel meets.

### Routines

`IntrusiveList` maps a store of heads and links to a store, one assignment at
a time, in the order of the macro. `CString` works on a memory of bytes,
`PrintFormat` on sequences of characters, with the width of integers as a constant.
`Stabs`, `IntervalTimer`, `ProgramLoader`, `BootMapping` and `PageTables` are
functions from an input to a result, with unsigned arithmetic modulo the word
size where the code relies on it or suffers from it. Each is checked against a
definition that says what it is for.

## 3. Runs, bounds and what they show

| Run | Bounds | Distinct states | Shows |
|---|---|---|---|
| `sched_safety` | 4 slots | 30,484 | places, statuses, loaded directory, order of turns and `LifeCycle`, and that a ready environment eventually runs |
| `paging_safety` | 5 pages in three tables, active 2, second 1 or 0, 3 disk frames | 263,756 | lists, tables, disk copies, refinement and completion of restarted instructions, in the LRU and the FIFO branch of the handler, with and without a disk frame for the stack page |
| `frames_safety` | 2 environments, 4 pages each, 13 frames, working set 2, 4 disk frames | 123,640 | ownership, counts, leaks |
| `heap_safety` | 6 mallocs of 1 to 3 pages, pages of 2 units, heap of 7 pages, holes below 4, room for 1 or 3 pages | 1.04 million | tiling, disjointness, page file, best fit |
| `programs` | the scripts as they are, real sizes; 2 sorts of 0, 1, 4 or 7 elements, 4 to a page, 2 rounds | 2.48 million | every test of the heap and of the pager reaches its end, memory follows the blocks; locked dialogues, sorted arrays, no leak |
| `terminal` | ring of 3, screen 3 by 3, line of 4, 4 key events, 1 serial byte; at the prompt a line of 5, history of 2 and one, 7 keys | 1.03 million | ring, modifiers, echo, and that the kernel reads everything; edited, executed, recalled and completed lines |
| `library` | 2 programs; 12 slots (the real number); lists of at most 3 elements; memories of 6 bytes; 12-bit numbers; pages of 3 bytes, tables of 16 entries | 611,017 | system calls, ids, and every routine against its reference |

The other five runs, `stack_lost`, `heap_overlap`, `heap_backing`, `stale_ids` and `bypass`, are expected to be
violated: see below.

A property that is a conjunction has named parts, each with its comment and
most with a mutant of their own: `LifeCycle` in `Scheduler`; `WorkingSetConsistent` and
`LossesAreKnown` in `LRUPaging`; `FramesAccounted`, `HeapConsistent`,
`IdsNameSlots`, `ProgramsPass`, `RoundsEndClean`, `InputInOrder`, `LineIsMeant`,
`RecallExecutes`, `CallsTransparent` and `SectionsAlone` in their modules; and at
the end of `Library` one for each kind of routine.

Why they are enough: four slots let an environment be free, new, ready and
running at the same time while the prompt commands and the self-destruction of
one of them go on, and the proofs cover any number. The pages include one
code page, stack pages that are loaded and that grow, and two heap pages in one
page table, so that `freeMem` leaves it empty or not (ranges over several tables are in the proofs and,
for the tables that are looked at, in `TablesReached`); there are more pages than the working set or the disk
holds, so replacement, write-back and a full page file happen. Thirteen frames are
fewer than two environments want. Frames are alike, so `frames_safety` uses a view
that identifies states up to a permutation of them. Six mallocs are enough for
a hole made of several freed entries to be split, merged and split again.
The ring, the line and the history are overrun within the number of keys: a ring of
three is lapped by four characters, a line of five filled and edited by seven keys. The
sort arrays cover none, one, a full page and more than one. Word and page sizes of
`library` are small so that every wrap, carry and boundary occurs among the inputs;
the formulas have no other constants in them.
Deadlock is checked except where the system may really stop: all slots lost
(`FrameManager`), or the program done (`UserHeap`).

### Where the code disagrees with its documentation

Five runs are expected to be violated. Each checks one sentence of the repository against the code:

* `heap_overlap`: with sizes that are not whole pages, `malloc` hands out overlapping blocks
  (`lib/uheap.c:96` against `lib/uheap.c:5`).
* `heap_backing`: `allocateMem` ignores that the page file is full, so a block of `malloc` has pages that are
  nowhere (`kern/memory_manager.c:764` against `:769`, "should allocate ALL pages").
* `stack_lost`: `env_create` ignores the same for the stack page (`kern/user_environment.c:725`), and the
  handler releases that page, which is modified, without having written it (`kern/trap.c:570`, "update it in the page file
  before release it").
* `stale_ids`: a slot issues the same id again (`kern/user_environment.c:229`), so the id of an environment that
  is gone finds the next one (`inc/environment_definitions.h:20-22`, `kern/helpers.c:417-420`).
* `bypass`: the length to skip is a global, so a page fault of another program is skipped by it too, and the program
  goes on inside an instruction (`kern/trap.c:240` against `:26`, "continue executing the next one").

Other departures of the code from what is written beside it are not judged by a run. The property
of the place named claims nothing of these cases (it does not say that they come out wrong), and its comment
says where it stops:

* `LIST_CONCAT` of two lists that are not empty does not add the second size (`inc/queue.h:287`; `:114` documents
  the size as the number of elements): `ListsAreSequences`.
* `ltostr` drops what is above a digit 0 and cannot negate the smallest number (`lib/string.c:245`, `:238`);
  the flag `-`, and blanks between a sign and the digits, spoil numbers, and a width does not fill strings
  (`lib/printfmt.c:11-13`, `:108`): `NumbersReadBack`, `StringsCutAtPrecision`.
* `stab_binsearch` adds 4 where its comment means 1, `addr++` on a pointer to a word, so an address that is exactly
  that of a stab with another one at most 4 bytes behind it may get the wrong region; the example at
  `kern/kdebug.c:45-53` has such stabs: `SearchBrackets` (`Misled` is the case).
* A quantum of 53 ms passes the check and is documented as valid (`kern/kclock.c:50`, `:200`), but does not fit
  the timer: `QuantumKept`.
* `freeMem` does not look at the last table of a range that begins further into its table than it ends
  (`kern/memory_manager.c:866` against `:832` and `lib/uheap.c:134`): `TablesReached`.
* `scarce_memory` takes an unsigned difference, which wraps when less is free than asked for
  (`kern/utilities.c:24`): `ScarceWhenAsked`.
* `malloc` passes over holes of 4000 pages and more (`lib/uheap.c:53`), although it is to use best fit
  (`lib/uheap.c:123-124`): `BestFit`. Until the first `free` it does not check `USER_HEAP_MAX` (`:40`).
* A program is given a character only when the keyboard has just delivered one (`kern/console.c:478`), not
  "the next input character" (`:428`), once a byte came over the serial line: `UserReadsTyped`.
* The dispatcher drops the answer of `__sys_allocate_page` (`kern/syscall.c:641`), which is declared to be 0 or an
  error (`:134`): `AnswersReturn`.
* With 12 slots the mask of `ENVX` (`inc/environment_definitions.h:158`) keeps `envid2env` from finding the
  slots 4 to 7: `LookupSound`.
* A segment that lies inside one page is not loaded right (`kern/user_environment.c:617`, and the length at `:649`
  wraps): `SegmentLoaded`.

And some are stated as they are, because no sentence of the repository says otherwise and
the property shows that they are the only ones of their kind:

* `DestroyFreesOthers`: `sched_kill_env` asserts `env_id == ENV_RUNNABLE`
  (`kern/sched.c:583`), so whoever destroys another frees it, but an environment
  that destroys itself is exited by the panic.
* `ElementsLostByFree`: `freeMem` loses the working set element of a page it
  takes off the active list (`kern/memory_manager.c:799`); nothing else does.
* `FreeKeepsOnlyUnplaced`: an illegal access maps a frame before it panics
  (`kern/trap.c:502`); this frame alone is not returned by `env_free`.
* `ListsAreSequences`: `LIST_CONCAT` empties the second list unless the first was empty; then both hold
  the elements (`inc/queue.h:280`).
* `EndInBuffer`: typing over characters moves `lastIndex`, which nothing bounds
  (`kern/command_prompt.c:383`).

Because of `heap_overlap`, `heap_safety` is about requests of whole pages, and `frames_safety` excuses the two panic paths by name:
`LeakedOnlyByPanic` says that nothing else leaks.

### Fairness

`ReadyEventuallyRuns` assumes strong fairness of the clock interrupt and
weak fairness of re-enabling interrupts. The timer runs whenever user code does;
a tick that arrives while the flag is clear stays pending in the interrupt
controller and is delivered when the flag is set, so an interrupt that is
enabled again and again is taken. Programs that clear the flag do so around
short sections (`lib/libmain.c`); one that never sets it again does starve the
others, and the assumption says so openly. It also excludes a program that traps
so often that `kclock_resume`, which raises a rest below 20 counts to 20
(`kern/kclock.c:130`), keeps the tick away.

`KernelReadsAll` assumes weak fairness of the kernel's poll: `getchar` at the
prompt loops on `cons_getc` until a character comes. Nothing is assumed of who
types.

`InstructionCompletes` assumes weak fairness of executing an instruction and of
the fault handlers: the CPU restarts a faulted instruction, and the scheduler
runs every environment again. It needs an active list of at least two pages. With
one, which `kern/command_prompt.c:828` accepts, an instruction's code and data pages
push each other out for ever. It also needs a second list: without one, the
elements that `freeMem` loses (`ElementsLostByFree`) leave in the end a single
page to replace, with the same effect; with one, the handler finds no victim
and the kernel crashes instead.

## 4. What is proved

Each theorem holds for every value of the constants that meets the named assumptions of the
module; TLC evaluates those assumptions in the runs. A property's theorem and its run
state the same definition.

| Component | Theorem | Property of the run |
|---|---|---|
| `Scheduler` | `TypeCorrect`, `NeverLinkedTwice`, `StatusSound`, `PromptIdle`, `LoadedDirectoryLive` | `TypeOK`, `EachEnvOnce`, `StatusMatchesPlace`, `PromptIsIdle`, `AddressSpaceLive` |
| | `LifeCycleKept`, `RoundRobinKept` | the action properties `LifeCycle`, `RoundRobinOrder` |
| `LRUPaging` | `TypeCorrect`, `WorkingSetKept`, `CleanOnDisk`, `LossesKnown` | `TypeOK`, `WorkingSetConsistent`, `CleanPagesAreOnDisk`, `LossesAreKnown` |
| | `PagingRefinement` | `PagingIsTransparent`: it implements `VirtualMemory` |
| `FrameManager` | `TypeCorrect`, `FramesKept`, `LeaksKnown` | `TypeOK`, `FramesAccounted`, `LeakedOnlyByPanic` |
| `UserHeap` | `BlocksKeptApart`, `HeapKept`, `BlocksFitBest` | `BlocksDisjoint`, `HeapConsistent`, `BestFit` |
| `Console` | `InputKeepsOrder`, `LineIsShown` | `InputInOrder`, `ScreenShowsLine` |
| `LineEditor` | `LineIsKept`, `RecallIsExact` | `LineIsMeant`, `RecallExecutes` |
| `SystemCalls` | `CallsAreTransparent`, `SectionsRunAlone` | `CallsTransparent`, `SectionsAlone` |
| `IntrusiveList` | `ListsCorrect` | `ListsImplementSequences` |
| `Stabs` | `SearchesCorrect` | `SearchBrackets` |
| `IntervalTimer` | `TimesCorrect` | `TimeKept` |

None of the invariants is inductive alone. In the proof modules of the kernel and the heap `IInv` is the
strengthening, and the theorem `Invariance` (in `SchedulerProofs`, `InductiveInvariant`) says that it holds;
`SystemCallProofs` has one strengthening for each of its theorems, and `ConsoleProofs` one for each part of `Console` and `EditorInv` for the editor.

**Scheduler.** Assumptions: the slots are finite and do not contain NULL, and ENVX maps slots to
slots. That a queue operation does not link an
environment twice needs to know that it was in no other queue, the status that
the code tests before it acts must match the queue, and the directory that is
loaded can only be shown to be alive from where its environment is. `IInv`
is the conjunction, split by who changes what: `Live` (running, ready and exited
environments, their statuses and disjointness), which the scheduler, exit and panic
change, and `Resting` (free and new environments, disjoint from the set
`Held` of the live ones), which creation and killing change; then the types, the
idle prompt and `Loaded`. Because the handlers are composed of a few operators
that end in `env_run` or `EnterPrompt`, the proof has one lemma for each of those
operators, about arbitrary intermediate queues, and one for each action that
cites them. The action properties follow from `IInv` along the same operators.

**LRUPaging.** Assumptions: finitely many pages, an image whose pages differ and lie outside
stack and heap, and an active list of at least one page; the page file may be of any size.
Beside the lists and the page table, `IInv` has to say what is
true half-way: the page for which a fault is being handled, the pages a broken off
`allocateMem` has left, that at most one page, outside the image, ever has a frame and is in no list
(`Unplaced`, the illegal access), and that a resident page is `Backed`: it has a disk frame, or it is the stack page of
the loader and is still MODIFIED. The latter is why `CleanOnDisk` needs no assumption on the page file. The refinement uses the same invariant:
a store is kept because a page that loses its frame either was modified and is written,
or equals its disk copy already, or is the `unsaved` stack page; a page enters the
abstract memory at the step that gives it a disk frame.

**FrameManager.** Assumptions: finitely many frames, code pages that differ and are not stack
pages, a working set of at least one page. Ownership is a relation between frames
and places (a directory, a table, a page, a disk directory or table, or the hand of the running
handler); each of the five ways of moving a frame has one lemma that it keeps
`NoFrameShared` and `ReferencesCounted`. What
is left to do (`todo`) fixes what the handler has recorded so far: `Progress` says which
prefix of a handler has been executed for every suffix that can remain. With it
`LeaksKnown` can name the only two steps at which the set `Leaked` changes.

**UserHeap.** The theorems are about requests of whole pages (`WholePages`), because of
`heap_overlap`; the constants are otherwise arbitrary, and so is the number of calls. The code leaves entries with
negative page counts when it splits a hole made of several entries. `IInv` therefore speaks about
sums: the entries' counts add up to the address of each allocated entry and to `last_addres`
(`EntriesTileTheHeap`), no run of free entries has a negative sum (`RunsNotNegative`), and the blocks
are the allocated entries. How much of a block the page file had room for is arbitrary: `HeapKept` says that it
holds just what was granted, since a block's pages are its own. `BestFit` needs in addition that the holes the scan
finds are the gaps between blocks, but for those of `LargestHole` pages and more: the sum over a run of free entries is the distance of its neighbours.

**Console.** Assumptions: a ring of at least two places, a screen of at least one row more than the
prompt and the longest line take, and keys with 7-bit scan codes of which none is that of the E0 escape (`KeysAssumption`).
`lap`, the last `CONSBUFSIZE` characters put into the ring, is in it, each at its number modulo the size, and
`rpos` and `wpos` are the numbers of characters read and written modulo the size (`RingInv`); the
rest is arithmetic of remainders. For the modifiers the invariant has to look at the bytes that are
still on their way: decoding all of them from the present shift state (`Decoding`) ends in a state that matches
the keys that are held. For the screen it says besides the property that the line is no longer than what
stands in front of the cursor, which a scroll does not change because prompt and line fit in the other rows.

**LineEditor.** Assumptions: a buffer of at least two bytes, no NUL among the characters typed, tables of names that are not
empty and hold no blank, and commands with a program argument that are in the table (`EditorAssumption`).
`EditorInv` says more than the property where the code relies on it: until the cursor is moved into the line, the buffer
is that line with NUL bytes up to its end (`LineInv`), which is why backspace, which moves one byte, DEL behind the end,
and the NUL that Enter puts at a `lastIndex` beyond the line do no harm; a completion overwrites the line without a NUL of its own, so
it must not be shorter (`FoundExecutes`). Every entry that a Tab has left in `PrefixList` executes (`ListInv`), because `last_c` and
`prefix_list_size` are not initialised and the next prompt may go on with the list of the one before. The
loop that collects the completions has its equation from `SelectExists`, and a completed argument
leaves the first one alone (`FirstArgKept`).

**SystemCalls.** Assumptions: environments numbered from 1, a print buffer of more than one
character, and programs that are sequences of calls of the stubs (each with as many arguments as
its stub has), of memory accesses and of exceptions, and that end with `exit` as
`lib/libmain.c` does (`Programs`). Instructions have any length, and a program asks the kernel to skip
any; where it strays to there is again such a program. The programs are otherwise arbitrary, and so is their number.
Two facts carry the proof. Popping what was pushed gives back the registers, for every vector with a
gate, whether the processor or the entry code pushes the word of the error code. And the tables agree: the
number that a stub passes has a case in the dispatcher with the same handler and the same number of arguments. With
them `Placed` says what the registers of a program hold at each of its instructions, and it holds
for the running program in the processor and for all others in their saved frames (`CallsInv`). Since a clock interrupt
inside `trap()` restarts a program with the frame of its last trap, `FramesInv` says the same of that
frame and of what the program had still to do when it was saved. A
program that has masked the clock is `curenv` because nothing else gives up the processor. For the
printed lines the invariant adds, for every program, that what it still has to print of
a line continues what is on the console (`Continues`), and `FrameLines` that this is so of the old frame as well:
between two traps nothing is printed, so what is repeated prints nothing twice. That needs programs in which a line is
handed over in several pieces only if it fills the buffer, and masked if it is meant to be
(`PrintsLines`); `CprintfPrintsLines` and `AtomicPrintsLines` show that `cprintf` and `atomic_cprintf` are of that kind. A
line is named by its length and how it is printed, so each program prints a given line once. Nothing is claimed of the
lines of a program that has strayed: `SectionsRunAlone` lets it stray only to code that prints none (`Silent`).

**IntrusiveList.** `ListsCorrect` is about calls of the macros with any well-formed lists over a finite
set of elements, any values in the links of elements that are in no list, and calls of
other routines in between. Each macro has a lemma with its net effect on links and
ends (`Linked`, `Unlinked`), proved assignment by assignment, and one
with the sequence that the resulting store holds. A loop is followed round by round: after i rounds it
has visited the first i elements and the list holds the others that were not removed. This
theorem is what entitles `Scheduler` and `LRUPaging` to use sequences for the queues and the working set.

**Stabs.** `SearchesCorrect` is about calls of the search with any address on any table that is `Ordered`: the stabs
of source files are in increasing order, and so are those of functions, which is what the comment above
`stab_binsearch` asks for. Nothing is claimed of an address at which there is a stab with another of its type at most
`AddrIncrement` behind it (`Misled`), because of `addr++` on a pointer to a word. `Searching` holds between any two rounds: the stabs
of the type below `l` are not above the address, those above `r` are, `left` and `right` hold what these two
facts imply, and the address, once incremented, still parts the stabs as the one asked for did. Every round
shortens `l..r`, but for one that finds the address itself, and after that none can; so the loop
ends within the rounds of the model (`SearchEnds`), and what is left is the scan back to the last stab of the type.

**IntervalTimer.** Assumptions: a turn of the low half is at least one tick, and the cycles of a millisecond are a natural
number (`TimerAssumption`). `TimesCorrect` is about calls with any quantum of 8 bits, any count of 16 bits left in the timer, and
any non-decreasing times at which a sleeping program comes to ask. A period that is rounded down to a whole frequency and
back by `TIMER_DIV` is never shorter than it was (`CountLasts`) as long as it fits 16 bits, which it does up to 52 ms. The low halves of two times differ by what has passed between them, modulo
a turn (`ElapsedIs`), so a comparison of low halves can be late but not early.

Induction over data is done without the library's induction theorems: a property that fails for some number
fails for a least one (`LeastNumber`, from the well-foundedness of the naturals), so the lemmas of
`ListProofs` take the set where the property holds as their parameter. With it the
recursive functions `Count`, `Sum` and `Remaining` could be reasoned about; each is shown to have its
defining equation first. `LoopExists` gives the equation of a loop of boundedly many rounds.

**Only model-checked.** Liveness under fairness (`ReadyEventuallyRuns`, `InstructionCompletes`,
`KernelReadsAll`), which is out of the prover's reach. `EnvIds` uses `Bitwise`, and is checked with the real
constants instead; so are the scripts of `UserPrograms`. `SortAlgorithms` has
recursive operators; `CString`, `PrintFormat`, `ProgramLoader`, `BootMapping` and `PageTables` are loops over
data, of which each would need an induction of its own: they are
compared with their references on all bounded inputs. `SortPrograms` uses the recursive operators of
`SortAlgorithms`.

## 5. Not modelled

* Device registers (interrupt controller, IDE disk, the protocol of the timer chip,
  the printer port), the boot loader and the entry code: below the level of the
  models, or run once before their state exists.
* The stubs listed in section 1 only panic; a system call that reaches one is the
  action `trap_panics` of `Scheduler`. The tables of shared objects and semaphores
  are initialised and never used. The programs of `user/` that test sharing,
  semaphores, `realloc`, the buddy allocator, the kernel heap, priorities or
  other replacement policies stop at the first such call.
* The table file: page tables are never swapped out.
* Commands that print, and those that choose another heap strategy, replacement
  policy or buffering than the kernel boots with: most of those panic when used.
* The second free of a table's frame after `remove_table`; `PageTables` has the
  command, `FrameManager` does not.

Numbers of disk frames are not told apart, nor, outside `ProgramLoader`, bytes inside
a page. `malloc(0)` and a working set of size 0 are excluded by the constants.

## 6. Where to go on

Runs are kept to a dozen: a new question joins the run of its component. The first thing to add is a run for each of the
departures of section 3 that no run judges. What could still be
proved, in the order of what it would say about the system:

1. `AnswersReachAsker` of `SortPrograms`, after its programs are separated from the recursive operators
   of `SortAlgorithms`.
2. `IdsNameSlots` of `EnvIds` for any number of slots, with the bit operators as sums of powers of two.
3. The loops of `CString`, `PageTables` and `ProgramLoader`, each with the induction of `ListProofs`.
