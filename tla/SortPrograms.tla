---------------------------- MODULE SortPrograms ----------------------------
(***************************************************************************)
(* The interactive sort programs of user/, two or more of which share the  *)
(* CPU and the console.  A program asks for the number of elements and for *)
(* the way to initialise them, sorts, checks, reports and asks whether to  *)
(* repeat.  What matters is which of its sections run with interrupts      *)
(* masked (sys_disable_interrupt ... sys_enable_interrupt, which clear and *)
(* set IF in the environment's saved flags and do not nest), what is left  *)
(* allocated, and what happens when the arithmetic or the memory access    *)
(* fails.                                                                  *)
(***************************************************************************)
EXTENDS SortAlgorithms, FiniteSetsExt

CONSTANTS
  Envs,       \* environments
  Loaded,     \* pairs (sequences over programs) that are tried
  Numbers,    \* numbers of elements that are typed
  PAGE_INTS,  \* int elements to a page
  MaxRounds   \* how often a program is repeated

ASSUME Envs # {} /\ IsFiniteSet(Envs) /\ Numbers \subseteq Nat

VARIABLES
  sorter,      \* program of each environment
  at,        \* what it does next
  n, chose,  \* NumOfElements, Chose
  arr,       \* Elements, once they are sorted
  held,      \* blocks malloc has given and free has not got back
  round,     \* Iteration, numOfRep
  IF_flag,   \* environments with interrupts enabled
  cpu,       \* the running environment
  screen,    \* whose prompt is the last on the screen
  misread    \* environments that took an answer to another's prompt

sortvars == <<sorter, at, n, chose, arr, held, round, IF_flag, cpu, screen, misread>>

-----------------------------------------------------------------------------
(* The programs.  A flag says that the dialogue is locked; wrong choices    *)
(* are asked again; one element past the end is written; what is freed;     *)
(* anything but y ends it, or y or n must be typed; fixed answers.          *)

Base == [sort |-> "QSort", locks |-> TRUE, insists |-> TRUE, pastEnd |-> FALSE,
         frees |-> {"Elements"}, yes_or_no |-> FALSE, fixed |-> << >>]

quicksort            == [Base EXCEPT !.locks = FALSE]
quicksort1           == [Base EXCEPT !.pastEnd = TRUE]
quicksort2           == [Base EXCEPT !.pastEnd = TRUE]
quicksort3           == [Base EXCEPT !.pastEnd = TRUE, !.insists = FALSE]
quicksort_heap       == [Base EXCEPT !.frees = {}, !.yes_or_no = TRUE]
quicksort_noleakage  == Base
quicksort_interrupt  == [Base EXCEPT !.frees = {}]
quicksort_freeheap   == [Base EXCEPT !.locks = FALSE, !.frees = {}]
mergesort_leakage    == [Base EXCEPT !.sort = "MSort", !.frees = {}, !.yes_or_no = TRUE]
mergesort_noleakage  == [Base EXCEPT !.sort = "MSort", !.frees = {"Elements", "Left", "Right"},
                                     !.yes_or_no = TRUE]
ef_mergesort_leakage ==
  [mergesort_leakage EXCEPT !.fixed = << [n |-> 32, chose |-> "a", again |-> "y"],
                                        [n |-> 32, chose |-> "c", again |-> "n"] >>]
\* 2000 elements in the program; a merge sort of 20 makes the same steps.
ef_mergesort_noleakage ==
  [mergesort_noleakage EXCEPT !.fixed = << [n |-> 20, chose |-> "a", again |-> "n"] >>]

Sorters ==
  [quicksort |-> quicksort, quicksort1 |-> quicksort1, quicksort2 |-> quicksort2,
   quicksort3 |-> quicksort3, quicksort_heap |-> quicksort_heap,
   quicksort_noleakage |-> quicksort_noleakage, quicksort_interrupt |-> quicksort_interrupt,
   quicksort_freeheap |-> quicksort_freeheap, mergesort_leakage |-> mergesort_leakage,
   mergesort_noleakage |-> mergesort_noleakage, ef_mergesort_leakage |-> ef_mergesort_leakage,
   ef_mergesort_noleakage |-> ef_mergesort_noleakage]

SorterOf(e) == Sorters[sorter[e]]
Fixed(e) == SorterOf(e).fixed # << >>
Answers(e, field, typed) ==
  IF Fixed(e) THEN {SorterOf(e).fixed[round[e]][field]} ELSE typed

-----------------------------------------------------------------------------
(* Interrupts and the console *)

\* Mutant of sys_disable_interrupt: IF is left set.
sys_disable_interrupt_none(e) == IF_flag' = IF_flag

sys_disable_interrupt(e) == IF_flag' = IF_flag \ {e}

sys_enable_interrupt(e)  == IF_flag' = IF_flag \cup {e}

Locked(e) == IF SorterOf(e).locks THEN sys_disable_interrupt(e) ELSE UNCHANGED IF_flag
Unlocked(e) == IF SorterOf(e).locks THEN sys_enable_interrupt(e) ELSE UNCHANGED IF_flag

Prompt(e) == screen' = e
\* getchar and readline take what is typed, whoever was asked.
Answered(e) == misread' = IF Fixed(e) \/ screen = e THEN misread ELSE misread \cup {e}

Step(e, from, to) == cpu = e /\ at[e] = from /\ at' = [at EXCEPT ![e] = to]
Exited(e) == at[e] = "exited"

\* env_exit: the scheduler runs another environment, if there is one.
env_exit(e) ==
  /\ at' = [at EXCEPT ![e] = "exited"]
  /\ cpu' \in IF \A f \in Envs \ {e} : Exited(f) THEN {e} ELSE {f \in Envs \ {e} : ~Exited(f)}

-----------------------------------------------------------------------------
(* Steps of a program *)

AskNumber(e) ==
  /\ Step(e, "start", "number")
  /\ round' = [round EXCEPT ![e] = @ + 1]
  /\ Locked(e) /\ Prompt(e)
  /\ UNCHANGED <<sorter, n, chose, arr, held, cpu, misread>>

\* Elements[NumOfElements] = 10 faults when the block ends with its last page,
\* and the kernel panics, which ends the environment.
Overruns(e, num) == SorterOf(e).pastEnd /\ num % PAGE_INTS = 0

ReadNumber(e) ==
  /\ cpu = e /\ at[e] = "number"
  /\ Answered(e)
  /\ \E num \in Answers(e, "n", Numbers) :
       /\ n' = [n EXCEPT ![e] = num]
       /\ held' = [held EXCEPT ![e] = @ + 1]
       /\ IF Overruns(e, num) THEN env_exit(e) /\ UNCHANGED screen
          ELSE Step(e, "number", "select") /\ Prompt(e) /\ UNCHANGED cpu
  /\ UNCHANGED <<sorter, chose, arr, round, IF_flag>>

Select(e) ==
  /\ cpu = e /\ at[e] = "select"
  /\ Answered(e)
  /\ \E c \in Answers(e, "chose", {"a", "b", "c", "x"}) :
       IF c = "x" /\ SorterOf(e).insists THEN Prompt(e) /\ UNCHANGED <<at, chose, IF_flag>>
       ELSE /\ chose' = [chose EXCEPT ![e] = c]
            /\ Step(e, "select", "sort")
            /\ Unlocked(e)
            /\ UNCHANGED screen
  /\ UNCHANGED <<sorter, n, arr, held, round, cpu>>

\* Initialize* of the choice.  A division by zero traps, the kernel returns to
\* the instruction and it traps again.
DividesByZero(num, c) == c \notin {"a", "b"} /\ num > 0 /\ Repetition(num) = 0
Divides(e) == DividesByZero(n[e], chose[e])

Initial(num, c) ==
  CASE c = "a" -> InitializeAscending(num)
    [] c = "b" -> InitializeDescending(num)
    [] OTHER   -> InitializeSemiRandom(num)

Sorted(e) ==
  LET A == Initial(n[e], chose[e])
  IN  IF SorterOf(e).sort = "QSort" THEN QSort(A, 0, n[e] - 1) ELSE MSort(A, 1, n[e])

DivideTrap(e) ==
  /\ cpu = e /\ at[e] = "sort" /\ Divides(e)
  /\ UNCHANGED sortvars

\* Mutant of Kept: the arrays of a merge are freed by no program.
Kept_merge(e) == IF SorterOf(e).sort = "MSort" THEN 2 * Merges(1, n[e]) ELSE 0

\* Blocks that a sort leaves allocated.
Kept(e) ==
  IF SorterOf(e).sort = "MSort" /\ ~({"Left", "Right"} \subseteq SorterOf(e).frees)
  THEN 2 * Merges(1, n[e]) ELSE 0

Sort(e) ==
  /\ Step(e, "sort", "check") /\ ~Divides(e)
  /\ arr' = [arr EXCEPT ![e] = Sorted(e)]
  /\ held' = [held EXCEPT ![e] = @ + Kept(e)]
  /\ UNCHANGED <<sorter, n, chose, round, IF_flag, cpu, screen, misread>>

\* The report is masked and unmasked again in some programs; panic ends the
\* environment.
Check(e) ==
  /\ cpu = e /\ at[e] = "check"
  /\ IF CheckSorted(arr[e])
     THEN /\ Step(e, "check", "again")
          /\ held' = [held EXCEPT ![e] = @ - (IF "Elements" \in SorterOf(e).frees THEN 1 ELSE 0)]
          /\ UNCHANGED cpu
     ELSE env_exit(e) /\ UNCHANGED held
  /\ arr' = [arr EXCEPT ![e] = << >>]
  /\ UNCHANGED <<sorter, n, chose, round, IF_flag, screen, misread>>

AskRepeat(e) ==
  /\ Step(e, "again", "repeat")
  /\ Locked(e) /\ Prompt(e)
  /\ UNCHANGED <<sorter, n, chose, arr, held, round, cpu, misread>>

Repeat(e) ==
  /\ cpu = e /\ at[e] = "repeat"
  /\ Answered(e)
  /\ \E c \in Answers(e, "again", IF round[e] < MaxRounds THEN {"y", "n", "x"} ELSE {"n", "x"}) :
       IF c = "x" /\ SorterOf(e).yes_or_no THEN Prompt(e) /\ UNCHANGED <<at, IF_flag>>
       ELSE /\ Step(e, "repeat", IF c = "y" THEN "start" ELSE "exit")
            /\ Unlocked(e)
            /\ UNCHANGED screen
  /\ UNCHANGED <<sorter, n, chose, arr, held, round, cpu>>

Exit(e) ==
  /\ cpu = e /\ at[e] = "exit"
  /\ env_exit(e)
  /\ UNCHANGED <<sorter, n, chose, arr, held, round, IF_flag, screen, misread>>

\* A clock interrupt reaches an environment that has interrupts enabled.
Preempt(e) ==
  /\ cpu = e /\ ~Exited(e) /\ e \in IF_flag
  /\ cpu' \in {f \in Envs \ {e} : ~Exited(f)}
  /\ UNCHANGED <<sorter, at, n, chose, arr, held, round, IF_flag, screen, misread>>

AllExited == (\A e \in Envs : Exited(e)) /\ UNCHANGED sortvars

SortInit ==
  /\ sorter \in Loaded
  /\ at = [e \in Envs |-> "start"]
  /\ n = [e \in Envs |-> 0] /\ chose = [e \in Envs |-> "n"]
  /\ arr = [e \in Envs |-> << >>]
  /\ held = [e \in Envs |-> 0] /\ round = [e \in Envs |-> 0]
  /\ IF_flag = Envs
  /\ cpu \in Envs /\ screen = cpu
  /\ misread = {}

Runs(e) ==
  \/ AskNumber(e) \/ ReadNumber(e) \/ Select(e) \/ DivideTrap(e) \/ Sort(e)
  \/ Check(e) \/ AskRepeat(e) \/ Repeat(e) \/ Exit(e)

SortNext == (\E e \in Envs : Runs(e) \/ Preempt(e)) \/ AllExited

SortSpec == SortInit /\ [][SortNext]_sortvars

-----------------------------------------------------------------------------
(* Properties *)

\* A program that masks interrupts around its dialogues never takes an answer
\* meant for another program's prompt, whatever else runs and wherever the clock
\* interrupts: no path leaves it waiting for input with interrupts enabled.
AnswersReachAsker == \A e \in misread : ~SorterOf(e).locks

\* When a program checks its array, it is a sorted permutation of what was
\* initialised, for every number of elements, also 0 and 1.
SortedAtCheck ==
  \A e \in Envs :
    at[e] = "check" =>
      /\ CheckSorted(arr[e])
      /\ LET A == Initial(n[e], chose[e])
         IN  /\ DOMAIN arr[e] = DOMAIN A
             /\ \A v \in {A[i] : i \in DOMAIN A} :
                  Cardinality({i \in DOMAIN A : arr[e][i] = v})
                    = Cardinality({i \in DOMAIN A : A[i] = v})

\* The programs that claim not to leak hold no block when they ask to repeat,
\* after any number of rounds.
NoLeakage ==
  \A e \in Envs :
    at[e] \in {"again", "repeat"} /\ sorter[e] \in {"quicksort_noleakage", "mergesort_noleakage",
                                                   "ef_mergesort_noleakage"}
      => held[e] = 0

\* A round of a program does what it prints: the array is sorted when it is
\* checked, and a program that claims not to leak holds nothing afterwards.
RoundsEndClean == SortedAtCheck /\ NoLeakage

=============================================================================
