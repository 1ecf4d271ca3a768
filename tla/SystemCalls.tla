---------------------------- MODULE SystemCalls ----------------------------
(***************************************************************************)
(* From a library call of a program to its handler in the kernel and back: *)
(* the stubs load the registers and raise T_SYSCALL; the entry code of the *)
(* trap and the processor build a frame on the kernel's stack; trap()      *)
(* copies it to the environment, the dispatcher hands the arguments to the *)
(* handler, and the answer goes into the saved frame, from which env_run   *)
(* reloads the processor.  The clock may come at any instruction of a      *)
(* program that has not masked it, and page faults and unexpected traps    *)
(* take the same way.  The console output of the programs is kept, since   *)
(* printing is where programs meet.                                        *)
(*                                                                         *)
(* Registers, addresses and arguments are integers.  What a handler does   *)
(* to memory, page file and queues is in the other modules; here it is the *)
(* value it returns and what it changes of the kernel's globals.           *)
(***************************************************************************)
EXTENDS Integers, Sequences, SequencesExt, FiniteSets, TLC

CONSTANTS
  Envs,       \* the loaded environments, 1..n by their place in envs[]
  PRINTBUF,   \* size of the buffer of cprintf, 256
  KEY,        \* a key typed at the console
  MAX_SHARES

ASSUME SystemCallsAssumption ==
  /\ Cardinality(Envs) \in Nat /\ Envs = 1..Cardinality(Envs)
  /\ PRINTBUF \in Nat /\ PRINTBUF > 1 /\ KEY \in Int /\ MAX_SHARES \in Int

VARIABLES
  cpu,        \* the registers of the processor, in user mode
  env_tf,     \* env_tf of each environment
  curenv,     \* the running environment, NoEnv at the prompt
  ready,      \* the ready queue
  prog,       \* what each program has still to do
  saved,      \* what it had still to do where env_tf was saved
  kern,       \* tstcnt, bypassInstrLength, the strategy and the number of free frames
  console,    \* what was printed
  served,     \* history: the last call served for each environment
  masked      \* history: who disabled the clock and has not enabled it

sysvars == <<cpu, env_tf, curenv, ready, prog, saved, kern, console, served, masked>>

NoEnv == 0

T_PGFLT == 14

T_DBLFLT == 8

IRQ0_Clock == 32

T_SYSCALL == 48

-----------------------------------------------------------------------------
(* The stubs of the library: the number each passes and the number of its  *)
(* arguments, which go to DX, CX, BX, DI and SI in the order of the call.  *)

CallNumbers == <<"cputs", "cgetc", "getenvid", "getenvindex", "getparentenvid", "env_destroy",
  "env_exit", "allocate_page", "map_frame", "unmap_frame", "calc_req_frames",
  "calc_free_frames", "calc_modified_frames", "calc_notmod_frames", "pf_calc_allocated_pages",
  "calculate_pages_tobe_removed_ready_exit", "scarce_memory", "freeMem", "allocateMem",
  "moveMem", "disableINTR", "enableINTR", "cputc", "clearFFL", "create_semaphore",
  "wait_semaphore", "signal_semaphore", "get_semaphore_value", "create_shared_object",
  "get_size_of_shared_object", "get_shared_object", "free_shared_object", "get_max_shares",
  "create_env", "run_env", "free_env", "get_virtual_time", "rcr2", "bypassPageFault",
  "testNum", "rsttst", "chktst", "inctst", "gettst", "get_heap_strategy",
  "set_heap_strategy", "check_LRU_lists", "check_LRU_lists_free">>

EnvironmentStubs == [sys_cputs |-> <<"cputs", 3>>, sys_cgetc |-> <<"cgetc", 0>>,
  sys_env_destroy |-> <<"env_destroy", 1>>, sys_getenvid |-> <<"getenvid", 0>>,
  sys_getenvindex |-> <<"getenvindex", 0>>, sys_getparentenvid |-> <<"getparentenvid", 0>>,
  sys_env_exit |-> <<"env_exit", 0>>]

MemoryStubs == [__sys_allocate_page |-> <<"allocate_page", 2>>,
  __sys_map_frame |-> <<"map_frame", 5>>, __sys_unmap_frame |-> <<"unmap_frame", 2>>,
  sys_calculate_required_frames |-> <<"calc_req_frames", 2>>,
  sys_calculate_free_frames |-> <<"calc_free_frames", 0>>,
  sys_calculate_modified_frames |-> <<"calc_modified_frames", 0>>,
  sys_calculate_notmod_frames |-> <<"calc_notmod_frames", 0>>,
  sys_freeMem |-> <<"freeMem", 2>>, sys_allocateMem |-> <<"allocateMem", 2>>,
  sys_pf_calculate_allocated_pages |-> <<"pf_calc_allocated_pages", 0>>,
  sys_calculate_pages_tobe_removed_ready_exit |->
    <<"calculate_pages_tobe_removed_ready_exit", 1>>,
  sys_scarce_memory |-> <<"scarce_memory", 0>>, sys_disable_interrupt |-> <<"disableINTR", 0>>,
  sys_enable_interrupt |-> <<"enableINTR", 0>>, sys_cputc |-> <<"cputc", 1>>,
  sys_clear_ffl |-> <<"clearFFL", 0>>]

ObjectStubs == [sys_createSemaphore |-> <<"create_semaphore", 2>>,
  sys_getSemaphoreValue |-> <<"get_semaphore_value", 2>>,
  sys_waitSemaphore |-> <<"wait_semaphore", 2>>,
  sys_signalSemaphore |-> <<"signal_semaphore", 2>>,
  sys_createSharedObject |-> <<"create_shared_object", 4>>,
  sys_getSizeOfSharedObject |-> <<"get_size_of_shared_object", 2>>,
  sys_getSharedObject |-> <<"get_shared_object", 3>>,
  sys_freeSharedObject |-> <<"free_shared_object", 2>>,
  sys_getMaxShares |-> <<"get_max_shares", 0>>, sys_create_env |-> <<"create_env", 4>>,
  sys_run_env |-> <<"run_env", 1>>, sys_free_env |-> <<"free_env", 1>>,
  sys_get_virtual_time |-> <<"get_virtual_time", 2>>]

TestStubs == [sys_moveMem |-> <<"moveMem", 3>>, sys_rcr2 |-> <<"rcr2", 0>>,
  sys_bypassPageFault |-> <<"bypassPageFault", 1>>, rsttst |-> <<"rsttst", 0>>,
  tst |-> <<"testNum", 5>>, chktst |-> <<"chktst", 1>>, inctst |-> <<"inctst", 0>>,
  gettst |-> <<"gettst", 0>>, sys_get_heap_strategy |-> <<"get_heap_strategy", 0>>,
  sys_set_uheap_strategy |-> <<"set_heap_strategy", 1>>,
  sys_check_LRU_lists |-> <<"check_LRU_lists", 4>>,
  sys_check_LRU_lists_free |-> <<"check_LRU_lists_free", 2>>]

\* A table in two parts.
Joined(f, g) == [x \in DOMAIN f \cup DOMAIN g |-> IF x \in DOMAIN f THEN f[x] ELSE g[x]]

Stub == Joined(Joined(EnvironmentStubs, MemoryStubs), Joined(ObjectStubs, TestStubs))

\* The number of the enumeration.
Number(name) == (CHOOSE i \in DOMAIN CallNumbers : CallNumbers[i] = name) - 1

\* Mutant: two registers exchanged between the stub and the kernel.
syscall_swapped(c, num, args) ==
  LET a(i) == IF i <= Len(args) THEN args[i] ELSE 0
  IN  [c EXCEPT !.eax = num, !.edx = a(1), !.ecx = a(2), !.ebx = a(3), !.edi = a(5),
                !.esi = a(4)]

\* The registers as the inline assembly of syscall() loads them.
syscall(c, num, args) ==
  LET a(i) == IF i <= Len(args) THEN args[i] ELSE 0
  IN  [c EXCEPT !.eax = num, !.edx = a(1), !.ecx = a(2), !.ebx = a(3), !.edi = a(4),
                !.esi = a(5)]

-----------------------------------------------------------------------------
(* The library on top of the stubs: the calls that a routine makes. *)

Does(fn, args) == [fn |-> fn, args |-> args]

\* The text of n characters, printed with the clock masked or not, as the
\* address of its buffer.
Line(n, atomic) == 10 * n + atomic

\* Mutant: every character is handed over by itself.
vcprintf_unbuffered(s, n, printProgName) ==
  [i \in 1..n |-> Does("sys_cputs", <<s, 1, printProgName>>)]

\* putch hands the buffer over whenever it holds PRINTBUF - 1 characters, and
\* vcprintf what is left, even if nothing is.
vcprintf(s, n, printProgName) ==
  LET full == n \div (PRINTBUF - 1)
  IN  [i \in 1..(full + 1) |->
         Does("sys_cputs", <<s, IF i <= full THEN PRINTBUF - 1 ELSE n % (PRINTBUF - 1),
                             printProgName>>)]

cprintf(n) == vcprintf(Line(n, 0), n, 1)

\* Does not set printProgName, which the call before has reset.
atomic_cprintf(n) ==
  <<Does("sys_disable_interrupt", <<>>)>> \o vcprintf(Line(n, 1), n, 0)
  \o <<Does("sys_enable_interrupt", <<>>)>>

cputchar(ch) == <<Does("sys_cputc", <<ch>>)>>

atomic_cputchar(ch) ==
  <<Does("sys_disable_interrupt", <<>>)>> \o cputchar(ch) \o <<Does("sys_enable_interrupt", <<>>)>>

\* Asks until there is a key (see StubReturns).
getchar == <<Does("sys_cgetc", <<>>)>>

atomic_getchar ==
  <<Does("sys_disable_interrupt", <<>>)>> \o getchar \o <<Does("sys_enable_interrupt", <<>>)>>

exit == <<Does("sys_env_exit", <<>>)>>

\* The place, the message of n characters and the end of the line.
user_panic(n) == cprintf(1) \o vcprintf(Line(n, 0), n, 0) \o vcprintf(Line(0, 0), 1, 0) \o exit

-----------------------------------------------------------------------------
(* What a program is made of. *)

OperationSet == [fn : DOMAIN Stub \cup {"access", "exception"}, args : Seq(Int)]

\* A call of a stub with its arguments; an instruction of some length that
\* accesses a page, which is there or not; or an instruction that raises an
\* exception, with the distance from it to the address that the processor
\* pushes: 0 for a fault, its length for a trap.
Operation(op) ==
  \/ op.fn \in DOMAIN Stub /\ Len(op.args) = Stub[op.fn][2]
  \/ op.fn = "access" /\ Len(op.args) = 2 /\ op.args[1] \in Nat \ {0} /\ op.args[2] \in {0, 1}
  \/ op.fn = "exception" /\ Len(op.args) = 2 /\ op.args[2] \in Nat

\* The line that the operation prints, or a number below those of lines.
Printed(op) == IF op.fn \in {"sys_cputs", "sys_cputc"} THEN op.args[1] ELSE 0

\* Between the a-th and the b-th operation the clock stays masked, if it is
\* masked or not at the start.
StaysMasked(p, startsMasked, a, b) ==
  \/ startsMasked /\ \A x \in 1..(b - 1) : p[x].fn # "sys_enable_interrupt"
  \/ \E c \in 1..(a - 1) : /\ p[c].fn = "sys_disable_interrupt"
                           /\ \A x \in c..(b - 1) : p[x].fn # "sys_enable_interrupt"

\* A line (see Line) is handed over in several pieces only if it is longer than
\* the buffer, and with the clock masked between them if it was meant to be.
PrintsLines(p, startsMasked) ==
  \A a, b \in 1..Len(p) :
    a < b /\ Printed(p[a]) > 9 /\ Printed(p[b]) = Printed(p[a]) =>
      /\ Printed(p[a]) \div 10 >= PRINTBUF - 1
      /\ Printed(p[a]) % 10 = 1 => StaysMasked(p, startsMasked, a, b)

\* libmain calls exit at the end.
Program(p) ==
  p # <<>> /\ p[Len(p)] = Does("sys_env_exit", <<>>) /\ \A i \in 1..Len(p) : Operation(p[i])

\* A program that prints none of the lines of the library's routines.
Silent(p) == \A i \in 1..Len(p) : ~(Printed(p[i]) > 9)

Programs(ps) == ps \in [Envs -> Seq(OperationSet)] /\ \A e \in Envs : Program(ps[e])

-----------------------------------------------------------------------------
(* Traps.  The stack is written from its top, the word pushed last, on. *)

\* The vectors for which the processor pushes an error code.
ErrorCode == {8, 10, 11, 12, 13, 14, 17}

\* Mutant: the alignment check taken for a trap without an error code.
NoErrorCode_align == (0..7) \cup {16, 17, 18, 19} \cup (32..48)

\* The vectors whose entry is made with TRAPHANDLER_NOEC, which pushes 0.
NoErrorCode == (0..7) \cup {16, 18, 19} \cup (32..48)

\* What the processor pushes when it enters the kernel from a program: ss, esp,
\* eflags, cs, eip and for some vectors an error code.
Pushed(c, v) == (IF v \in ErrorCode THEN <<4>> ELSE <<>>) \o <<c.eip, 27, c.eflags, c.esp, 35>>

\* The frame that trap() is given: TRAPHANDLER and _alltraps push the rest.
Stack(c, v) ==
  <<c.edi, c.esi, c.ebp, 0, c.ebx, c.edx, c.ecx, c.eax>> \o <<35, 35>> \o <<v>>
  \o (IF v \in NoErrorCode THEN <<0>> ELSE <<>>) \o Pushed(c, v)

\* The vectors whose gate is a trap gate, which leaves interrupts as they are; all
\* other gates are interrupt gates, which disable them.
TrapGates == {1, 3, 4}

\* The vectors with a gate.
idt_init == (0..8) \cup (10..14) \cup (16..19) \cup (32..48)

\* struct Trapframe, struct PushRegs first.
Trapframe == <<"edi", "esi", "ebp", "oesp", "ebx", "edx", "ecx", "eax", "es", "ds",
               "trapno", "err", "eip", "cs", "eflags", "esp", "ss">>

AsTrapframe(stack) ==
  [f \in ToSet(Trapframe) |-> stack[CHOOSE i \in DOMAIN Trapframe : Trapframe[i] = f]]

\* Mutant: EAX and ECX popped in the wrong order.
env_pop_tf_order(tf) ==
  LET w == [i \in DOMAIN Trapframe |-> tf[Trapframe[i]]]
  IN  [edi |-> w[1], esi |-> w[2], ebp |-> w[3], ebx |-> w[5], edx |-> w[6], ecx |-> w[8],
       eax |-> w[7], eip |-> w[13], eflags |-> w[15], esp |-> w[16]]

\* popal, popl es, popl ds, skip two words, iret.
env_pop_tf(tf) ==
  LET w == [i \in DOMAIN Trapframe |-> tf[Trapframe[i]]]
  IN  [edi |-> w[1], esi |-> w[2], ebp |-> w[3], ebx |-> w[5], edx |-> w[6], ecx |-> w[7],
       eax |-> w[8], eip |-> w[13], eflags |-> w[15], esp |-> w[16]]

\* trap() on a trap of a program: the frame is copied to curenv->env_tf, and
\* it is the copy that the rest of the kernel sees and changes.
trap(c, v) == AsTrapframe(Stack(c, v))

\* env_run of e with the frames tfs.
env_run(e, tfs) == curenv' = e /\ cpu' = env_pop_tf(tfs[e]) /\ env_tf' = tfs

\* The scheduler with the queue q.
fos_scheduler(q, tfs) ==
  IF q = <<>> THEN curenv' = NoEnv /\ ready' = q /\ env_tf' = tfs /\ UNCHANGED cpu
  ELSE env_run(Head(q), tfs) /\ ready' = Tail(q)

-----------------------------------------------------------------------------
(* The dispatcher: for each number the handler, the number of arguments it *)
(* is given, and whether its value is returned (0 is if not).              *)

FirstCases == [cputs |-> <<"sys_cputs", 3, FALSE>>, cgetc |-> <<"sys_cgetc", 0, TRUE>>,
  getenvindex |-> <<"sys_getenvindex", 0, TRUE>>, getenvid |-> <<"sys_getenvid", 0, TRUE>>,
  getparentenvid |-> <<"sys_getparentenvid", 0, TRUE>>,
  env_destroy |-> <<"sys_env_destroy", 1, TRUE>>, env_exit |-> <<"sys_env_exit", 0, FALSE>>,
  calc_req_frames |-> <<"sys_calculate_required_frames", 2, TRUE>>,
  calc_free_frames |-> <<"sys_calculate_free_frames", 0, TRUE>>,
  calc_modified_frames |-> <<"sys_calculate_modified_frames", 0, TRUE>>,
  calc_notmod_frames |-> <<"sys_calculate_notmod_frames", 0, TRUE>>,
  pf_calc_allocated_pages |-> <<"sys_pf_calculate_allocated_pages", 0, TRUE>>,
  calculate_pages_tobe_removed_ready_exit |->
    <<"sys_calculate_pages_tobe_removed_ready_exit", 1, TRUE>>,
  scarce_memory |-> <<"sys_scarce_memory", 0, FALSE>>, freeMem |-> <<"sys_freeMem", 2, FALSE>>,
  allocate_page |-> <<"__sys_allocate_page", 2, FALSE>>,
  map_frame |-> <<"__sys_map_frame", 5, FALSE>>,
  unmap_frame |-> <<"__sys_unmap_frame", 2, FALSE>>,
  allocateMem |-> <<"sys_allocateMem", 2, FALSE>>,
  disableINTR |-> <<"sys_disable_interrupt", 0, FALSE>>,
  enableINTR |-> <<"sys_enable_interrupt", 0, FALSE>>, cputc |-> <<"sys_cputc", 1, FALSE>>,
  clearFFL |-> <<"sys_clear_ffl", 0, FALSE>>]

ObjectCases == [create_semaphore |-> <<"sys_createSemaphore", 2, TRUE>>,
  wait_semaphore |-> <<"sys_waitSemaphore", 2, FALSE>>,
  signal_semaphore |-> <<"sys_signalSemaphore", 2, FALSE>>,
  get_semaphore_value |-> <<"sys_getSemaphoreValue", 2, TRUE>>,
  create_shared_object |-> <<"sys_createSharedObject", 4, TRUE>>,
  get_shared_object |-> <<"sys_getSharedObject", 3, TRUE>>,
  free_shared_object |-> <<"sys_freeSharedObject", 2, TRUE>>,
  get_size_of_shared_object |-> <<"sys_getSizeOfSharedObject", 2, TRUE>>,
  get_max_shares |-> <<"sys_getMaxShares", 0, TRUE>>]

LastCases == [create_env |-> <<"sys_create_env", 4, TRUE>>,
  free_env |-> <<"sys_free_env", 1, FALSE>>, run_env |-> <<"sys_run_env", 1, FALSE>>,
  get_virtual_time |-> <<"sys_get_virtual_time", 2, FALSE>>,
  moveMem |-> <<"sys_moveMem", 3, FALSE>>, rcr2 |-> <<"sys_rcr2", 0, TRUE>>,
  bypassPageFault |-> <<"sys_bypassPageFault", 1, FALSE>>, rsttst |-> <<"rsttst", 0, FALSE>>,
  inctst |-> <<"inctst", 0, FALSE>>, chktst |-> <<"chktst", 1, FALSE>>,
  gettst |-> <<"gettst", 0, TRUE>>, testNum |-> <<"tst", 5, FALSE>>,
  get_heap_strategy |-> <<"sys_get_heap_strategy", 0, TRUE>>,
  set_heap_strategy |-> <<"sys_set_uheap_strategy", 1, FALSE>>,
  check_LRU_lists |-> <<"sys_check_LRU_lists", 4, TRUE>>,
  check_LRU_lists_free |-> <<"sys_check_LRU_lists_free", 2, TRUE>>]

Case == Joined(FirstCases, Joined(ObjectCases, LastCases))

\* inc/error.h.  Already negative: -E_INVAL, the answer to a number without a
\* case, is 3.
E_INVAL == -3

-----------------------------------------------------------------------------
(* The handlers, on what a call may change: the kernel's globals, the      *)
(* console, the flags in the saved frame, the value returned, and whether  *)
(* the environment is ended (by exit or by a panic, which prints).         *)

\* A value that another component computes.
Value(fn) == 200 + Number(Stub[fn][1])

\* cprintf of the kernel: the name of the program first if asked.
sys_cputs(d, s, len, printProgName) ==
  [d EXCEPT !.console = Append(@, [env |-> d.env, s |-> s, len |-> len, head |-> printProgName])]

sys_cputc(d, ch) == [d EXCEPT !.console = Append(@, [env |-> d.env, s |-> ch, len |-> 1, head |-> 0])]

\* Does not wait: 0 if there is no key.
sys_cgetc(d) == {[d EXCEPT !.value = k] : k \in {0, KEY}}

sys_getenvindex(d) == [d EXCEPT !.value = d.env - 1]

panic(d) == [sys_cputs(d, 0, 1, 0) EXCEPT !.ends = TRUE]

\* A frame is taken before the arguments are looked at, and is lost if they
\* are refused.
__sys_allocate_page(d, va, perm) ==
  IF d.kern.free = 0 THEN panic(d)
  ELSE [d EXCEPT !.kern.free = @ - 1,
                 !.value = IF va % 4096 # 0 \/ perm \notin {4, 6} THEN E_INVAL ELSE 0]

\* Takes every frame of the free list.
sys_clear_ffl(d) == [d EXCEPT !.kern.free = 0]

sys_calculate_free_frames(d) == [d EXCEPT !.value = d.kern.free]

\* Mutant: the flags of the kernel are changed, not those of the frame.
sys_disable_interrupt_kernel(d) == d

\* The flags in the saved frame, with which env_run restarts the program.
sys_disable_interrupt(d) == [d EXCEPT !.eflags = 0]

sys_enable_interrupt(d) == [d EXCEPT !.eflags = 1]

\* Mapping and unmapping frames on behalf of a program, and moveMem.
NotImplemented(d) == panic(d)

\* A uint8, and one for all programs.
sys_bypassPageFault(d, instrLength) == [d EXCEPT !.kern.bypass = instrLength % 256]

\* One counter for all programs.
rsttst(d) == [d EXCEPT !.kern.tstcnt = 0]

inctst(d) == [d EXCEPT !.kern.tstcnt = @ + 1]

gettst(d) == [d EXCEPT !.value = d.kern.tstcnt]

sys_get_heap_strategy(d) == [d EXCEPT !.value = d.kern.strategy]

sys_set_uheap_strategy(d, heapStrategy) == [d EXCEPT !.kern.strategy = heapStrategy]

\* Creating, waiting and signalling, and all calls on shared objects, are not
\* implemented; the value of a semaphore that does not exist fails an assertion.
Semaphores(d) == panic(d)

SharedObjects(d) == panic(d)

\* tst(): v2 is not looked at, and a 'b' asks for equality.
TestHolds(n, v1, v2, ch, inv) ==
  CASE ch = 1 -> n < v1 \/ inv # 0          \* 'l'
    [] ch = 2 -> n > v1 \/ inv # 0          \* 'g'
    [] ch = 3 -> n = v1 \/ inv # 0          \* 'e'
    [] ch = 4 -> n >= v1 /\ n <= v1         \* 'b'
    [] OTHER  -> FALSE

tst(d, a) == IF TestHolds(a[1], a[2], a[3], a[4], a[5]) THEN [d EXCEPT !.kern.tstcnt = @ + 1]
             ELSE panic(d)

\* Prints, or panics.
chktst(d, n) == IF d.kern.tstcnt = n THEN sys_cputs(d, 0, 1, 0) ELSE panic(d)

\* What the kernel reads of a program's text at s.  If the page is absent it is
\* brought in; but while faults are skipped, the instruction that reads is skipped
\* in the kernel too, and something else is printed.
TextRead(d, s) == IF d.kern.bypass = 0 THEN {s} ELSE {s, 0}

\* The outcomes of the handler fn with the arguments a.
Handled(fn, d, a) ==
  CASE fn = "sys_cputs"                 -> {sys_cputs(d, s, a[2], a[3]) : s \in TextRead(d, a[1])}
    [] fn = "sys_cputc"                 -> {sys_cputc(d, a[1])}
    [] fn = "sys_cgetc"                 -> sys_cgetc(d)
    [] fn = "sys_getenvindex"           -> {sys_getenvindex(d)}
    [] fn = "sys_env_exit"              -> {[d EXCEPT !.ends = TRUE]}
    [] fn = "__sys_allocate_page"       -> {__sys_allocate_page(d, a[1], a[2])}
    [] fn = "sys_clear_ffl"             -> {sys_clear_ffl(d)}
    [] fn = "sys_calculate_free_frames" -> {sys_calculate_free_frames(d)}
    [] fn = "sys_disable_interrupt"     -> {sys_disable_interrupt(d)}
    [] fn = "sys_enable_interrupt"      -> {sys_enable_interrupt(d)}
    [] fn \in {"__sys_map_frame", "__sys_unmap_frame", "sys_moveMem"} -> {NotImplemented(d)}
    [] fn \in {"sys_createSemaphore", "sys_waitSemaphore", "sys_signalSemaphore",
               "sys_getSemaphoreValue"}                -> {Semaphores(d)}
    [] fn \in {"sys_createSharedObject", "sys_getSizeOfSharedObject",
               "sys_getSharedObject", "sys_freeSharedObject"} -> {SharedObjects(d)}
    [] fn = "sys_getMaxShares"          -> {[d EXCEPT !.value = MAX_SHARES]}
    [] fn = "sys_bypassPageFault"       -> {sys_bypassPageFault(d, a[1])}
    [] fn = "rsttst"                    -> {rsttst(d)}
    [] fn = "inctst"                    -> {inctst(d)}
    [] fn = "gettst"                    -> {gettst(d)}
    [] fn = "tst"                       -> {tst(d, a)}
    [] fn = "chktst"                    -> {chktst(d, a[1])}
    [] fn = "sys_get_heap_strategy"     -> {sys_get_heap_strategy(d)}
    [] fn = "sys_set_uheap_strategy"    -> {sys_set_uheap_strategy(d, a[1])}
    [] OTHER                            -> {[d EXCEPT !.value = Value(fn)]}

-----------------------------------------------------------------------------
(* Steps.  Where a program is: 0 before its next operation, 1 at the int   *)
(* instruction of a stub, 2 behind it, 3 at another instruction that may   *)
(* trap, and 3 + n at the n-th byte from there.                            *)

Registers == [eax |-> 0, ebx |-> 0, ecx |-> 0, edx |-> 0, esi |-> 0, edi |-> 0, ebp |-> 7,
              esp |-> 8, eip |-> 0, eflags |-> 1]

SysInit ==
  /\ curenv = NoEnv /\ ready = <<>> /\ cpu = Registers
  /\ env_tf = [e \in Envs |-> trap(Registers, 0)]
  /\ prog = [e \in Envs |-> <<>>] /\ saved = prog
  /\ kern = [tstcnt |-> 0, bypass |-> 0, strategy |-> 2, free |-> 1]
  /\ console = <<>>
  /\ served = [e \in Envs |-> [fn |-> "none", args |-> <<>>, value |-> 0]]
  /\ masked = {}

\* The prompt loads the programs ps and runs them all.
Run(ps) ==
  /\ curenv = NoEnv /\ \A e \in Envs : served[e].fn = "none"
  /\ prog' = ps /\ saved' = ps
  /\ fos_scheduler([e \in Envs |-> e], env_tf)
  /\ UNCHANGED <<kern, console, served, masked>>

Op == Head(prog[curenv])

\* Behind the operation.
Behind(op) == CASE op.fn \in DOMAIN Stub -> 2
                [] op.fn = "access"       -> 3 + op.args[1]
                [] OTHER                  -> 3 + op.args[2]

\* The frame of the current environment is saved, with what is left of p to do.
Saves(p) == prog' = [prog EXCEPT ![curenv] = p] /\ saved' = [saved EXCEPT ![curenv] = p]

\* A stub is called: the registers are loaded.
CallStub ==
  /\ curenv # NoEnv /\ cpu.eip = 0 /\ Op.fn \in DOMAIN Stub
  /\ cpu' = [syscall(cpu, Number(Stub[Op.fn][1]), Op.args) EXCEPT !.eip = 1]
  /\ UNCHANGED <<env_tf, curenv, ready, prog, saved, kern, console, served, masked>>

\* An instruction that accesses memory or raises an exception is reached.
Reach ==
  /\ curenv # NoEnv /\ cpu.eip = 0 /\ Op.fn \notin DOMAIN Stub
  /\ cpu' = [cpu EXCEPT !.eip = 3]
  /\ UNCHANGED <<env_tf, curenv, ready, prog, saved, kern, console, served, masked>>

\* int T_SYSCALL: trap(), trap_dispatch() and syscall() of the kernel.
SystemCall ==
  /\ curenv # NoEnv /\ cpu.eip = 1
  /\ LET e    == curenv
         tf   == trap([cpu EXCEPT !.eip = 2], T_SYSCALL)
         case == Case[CallNumbers[tf.eax + 1]]
         args == SubSeq(<<tf.edx, tf.ecx, tf.ebx, tf.edi, tf.esi>>, 1, case[2])
         d    == [env |-> e, kern |-> kern, console |-> console, eflags |-> tf.eflags,
                  value |-> 0, ends |-> FALSE]
     IN  \E r \in Handled(case[1], d, args) :
           LET tf2 == [tf EXCEPT !.eax = IF case[3] THEN r.value ELSE 0, !.eflags = r.eflags]
               tfs == [env_tf EXCEPT ![e] = tf2]
           IN  /\ kern' = r.kern /\ console' = r.console
               /\ served' = [served EXCEPT ![e] = [fn |-> case[1], args |-> args,
                                                   value |-> r.value]]
               /\ masked' = CASE r.ends \/ case[1] = "sys_enable_interrupt" -> masked \ {e}
                              [] case[1] = "sys_disable_interrupt"          -> masked \cup {e}
                              [] OTHER                                      -> masked
               /\ IF r.ends
                  THEN Saves(<<>>) /\ fos_scheduler(ready, tfs)
                  ELSE Saves(prog[e]) /\ env_run(e, tfs) /\ UNCHANGED ready

\* The handlers that read or write the memory of the program.
Touches == {"sys_cputs", "sys_create_env", "sys_get_virtual_time", "sys_check_LRU_lists",
            "sys_check_LRU_lists_free"}

\* A handler faults on the memory of the program while faults are skipped: the
\* kernel goes on somewhere inside or behind its own instruction.  If that is not
\* the next one it is lost, and nothing is followed any further.
KernelStrays ==
  /\ curenv # NoEnv /\ cpu.eip = 1 /\ Op.fn \in Touches /\ kern.bypass # 0
  /\ served' = [served EXCEPT ![curenv] = [fn |-> Op.fn, args |-> Op.args, value |-> 0]]
  /\ prog' = [e \in Envs |-> <<>>] /\ saved' = prog'
  /\ curenv' = NoEnv /\ ready' = <<>> /\ masked' = {}
  /\ UNCHANGED <<cpu, env_tf, kern, console>>

\* The operation is done; getchar asks again as long as there is no key.
StubReturns ==
  /\ curenv # NoEnv /\ cpu.eip \notin {0, 1, 3} /\ cpu.eip = Behind(Op)
  /\ prog' = IF Op.fn = "sys_cgetc" /\ cpu.eax = 0 THEN prog
             ELSE [prog EXCEPT ![curenv] = Tail(@)]
  /\ cpu' = [cpu EXCEPT !.eip = 0]
  /\ UNCHANGED <<env_tf, curenv, ready, saved, kern, console, served, masked>>

\* A skip of another length than the instruction's has led into an instruction:
\* the bytes there are some other program p.
Strays(p) ==
  /\ curenv # NoEnv /\ cpu.eip > 3 /\ cpu.eip # Behind(Op)
  /\ prog' = [prog EXCEPT ![curenv] = p]
  /\ cpu' = [cpu EXCEPT !.eip = 0]
  /\ UNCHANGED <<env_tf, curenv, ready, saved, kern, console, served, masked>>

\* IRQ0, if the program has not masked it.
clock_interrupt ==
  /\ curenv # NoEnv /\ cpu.eflags = 1
  /\ Saves(prog[curenv])
  /\ LET tfs == [env_tf EXCEPT ![curenv] = trap(cpu, IRQ0_Clock)]
     IN  fos_scheduler(Append(ready, curenv), tfs)
  /\ UNCHANGED <<kern, console, served, masked>>

\* IRQ0 in the kernel, before trap() has stopped the clock: only a trap gate lets
\* it through.  The second trap is not one of a program, so no frame is copied,
\* and the environment is scheduled with the frame of its last trap: it will do
\* again what it has done since.
ClockInTrap ==
  /\ curenv # NoEnv /\ cpu.eip = 3 /\ Op.fn = "exception" /\ Op.args[1] \in TrapGates
  /\ cpu.eflags = 1
  /\ prog' = [prog EXCEPT ![curenv] = saved[curenv]]
  /\ fos_scheduler(Append(ready, curenv), env_tf)
  /\ UNCHANGED <<saved, kern, console, served, masked>>

\* The page of the access is absent.  It is brought in and the instruction
\* restarted; or, as long as some program asks for it, the number of bytes that
\* it gave is skipped.
PageFault ==
  /\ curenv # NoEnv /\ cpu.eip = 3 /\ Op.fn = "access" /\ Op.args[2] = 0
  /\ LET tf  == trap(cpu, T_PGFLT)
         tf2 == [tf EXCEPT !.eip = @ + kern.bypass]
     IN  env_run(curenv, [env_tf EXCEPT ![curenv] = tf2])
  /\ Saves(IF kern.bypass # 0 THEN prog[curenv]
           ELSE <<Does("access", <<Op.args[1], 1>>)>> \o Tail(prog[curenv]))
  /\ UNCHANGED <<ready, kern, console, served, masked>>

\* The page is there.
Access ==
  /\ curenv # NoEnv /\ cpu.eip = 3 /\ Op.fn = "access" /\ Op.args[2] = 1
  /\ cpu' = [cpu EXCEPT !.eip = Behind(Op)]
  /\ UNCHANGED <<env_tf, curenv, ready, prog, saved, kern, console, served, masked>>

\* An exception that the kernel does not expect: nothing is done, and the
\* program goes on where the processor says, at the instruction or behind it.
UnexpectedTrap ==
  /\ curenv # NoEnv /\ cpu.eip = 3 /\ Op.fn = "exception"
  /\ Op.args[1] \in idt_init \ {T_PGFLT, T_SYSCALL, T_DBLFLT, IRQ0_Clock}
  /\ LET tf == trap([cpu EXCEPT !.eip = Behind(Op)], Op.args[1])
     IN  env_run(curenv, [env_tf EXCEPT ![curenv] = tf])
  /\ Saves(prog[curenv])
  /\ UNCHANGED <<ready, kern, console, served, masked>>

\* A panic, which prints and ends the environment.
DoubleFault ==
  /\ curenv # NoEnv /\ cpu.eip = 3 /\ Op.fn = "exception" /\ Op.args[1] = T_DBLFLT
  /\ console' = Append(console, [env |-> curenv, s |-> 0, len |-> 1, head |-> 0])
  /\ masked' = masked \ {curenv}
  /\ Saves(<<>>)
  /\ fos_scheduler(ready, [env_tf EXCEPT ![curenv] = trap(cpu, T_DBLFLT)])
  /\ served' = [served EXCEPT ![curenv] = [fn |-> "panic", args |-> <<>>, value |-> 0]]
  /\ UNCHANGED kern

\* Every program has ended and the prompt waits.
AtPrompt == curenv = NoEnv /\ (\E e \in Envs : served[e].fn # "none") /\ UNCHANGED sysvars

SysStep ==
  \/ CallStub \/ Reach \/ SystemCall \/ StubReturns \/ clock_interrupt
  \/ PageFault \/ Access \/ UnexpectedTrap \/ ClockInTrap \/ DoubleFault \/ KernelStrays
  \/ AtPrompt

-----------------------------------------------------------------------------
Loaded(e) == prog[e] # <<>>

\* The registers of e, wherever they are.
Regs(e) == IF e = curenv THEN cpu ELSE env_pop_tf(env_tf[e])

\* Stubs that return the value of the call.  (__sys_allocate_page is declared to,
\* but its value is dropped by the dispatcher; nothing is said of it here.)
Answering == {"sys_cgetc", "sys_env_destroy", "sys_getenvid", "sys_getenvindex",
  "sys_getparentenvid", "sys_calculate_required_frames", "sys_calculate_free_frames",
  "sys_calculate_modified_frames", "sys_calculate_notmod_frames",
  "sys_pf_calculate_allocated_pages", "sys_calculate_pages_tobe_removed_ready_exit",
  "sys_getMaxShares", "sys_create_env", "sys_rcr2", "gettst", "sys_get_heap_strategy",
  "sys_check_LRU_lists", "sys_check_LRU_lists_free"}

\* When a stub has its answer, the kernel has run the handler it is for with
\* the arguments the program gave, in their order, whoever ran in between.
CallsArrive ==
  \A e \in Envs : Loaded(e) /\ Regs(e).eip = 2 =>
    served[e].fn = Head(prog[e]).fn /\ served[e].args = Head(prog[e]).args

\* The value that the handler computed is in EAX when the stub returns.
AnswersReturn ==
  \A e \in Envs : Loaded(e) /\ Regs(e).eip = 2 /\ Head(prog[e]).fn \in Answering =>
    Regs(e).eax = served[e].value

\* A program that asks for its page faults to be skipped goes on at the next
\* instruction, and so does every other program: a trap leads back to a place
\* between instructions.
AtInstruction ==
  \A e \in Envs : Loaded(e) => Regs(e).eip \in {0, 1, 2, 3, Behind(Head(prog[e]))}

\* A program that has masked the clock is the only one that runs until it
\* unmasks it or ends.
MaskedIsAlone == \A e \in masked : curenv = e

\* A line shorter than the buffer goes out in one piece, and one printed by
\* atomic_cprintf has nothing of another program in it, however long it is.
LinesContiguous ==
  \A i, j \in DOMAIN console :
    /\ i < j /\ console[i].env = console[j].env /\ console[i].s = console[j].s /\ console[i].s > 9
    => /\ console[i].s \div 10 >= PRINTBUF - 1
       /\ console[i].s % 10 = 1 => \A k \in i..j : console[k].env = console[i].env

\* A system call is a function call to the program: its arguments and its answer
\* survive the entry code, the dispatcher, whoever ran in between, and a restart
\* with the frame of an earlier trap.
CallsTransparent == CallsArrive /\ AnswersReturn

\* What is meant to be one piece is: a masked section and a buffered line.
SectionsAlone == MaskedIsAlone /\ LinesContiguous

=============================================================================
