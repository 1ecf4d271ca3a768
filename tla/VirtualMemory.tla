---------------------------- MODULE VirtualMemory ----------------------------
(***************************************************************************)
(* What the memory management of FOS promises to one user environment: a   *)
(* set of pages that keep what was last stored in them.  Working sets,     *)
(* frames, the page file and faults do not appear.  The promise has one    *)
(* gap: a page that could not be saved when the program was loaded may be  *)
(* lost, once.  LRUPaging implements this specification.                   *)
(***************************************************************************)
CONSTANTS
  Pages,     \* virtual pages of the environment
  Image,     \* the pages the program is loaded with
  Fragile,   \* those of them that are loaded even if they cannot be saved
  Stack,     \* the pages that appear when they are touched
  Heap,      \* the pages that the program allocates and releases
  Values,    \* what the program stores
  LOADED,    \* what the loader put in a page
  GARBAGE,   \* the unspecified content of a page nobody has written
  NOPAGE     \* the page does not exist

VARIABLES
  mem,       \* content of every page
  unsaved,   \* the pages that may still be lost
  reg,       \* what the last load returned
  alive      \* FALSE once the environment has been stopped

vars == <<mem, unsaved, reg, alive>>

Contents == Values \cup {LOADED, GARBAGE}

Exists(p) == mem[p] # NOPAGE

Init ==
  /\ mem = [p \in Pages |-> IF p \in Image THEN LOADED ELSE NOPAGE]
  /\ unsaved \in SUBSET Fragile
  /\ reg = LOADED
  /\ alive = TRUE

Load(p) ==
  /\ alive
  /\ Exists(p)
  /\ reg' = mem[p]
  /\ UNCHANGED <<mem, unsaved, alive>>

Store(p, v) ==
  /\ alive
  /\ Exists(p)
  /\ mem' = [mem EXCEPT ![p] = v]
  /\ UNCHANGED <<unsaved, reg, alive>>

\* Some of the unsaved pages, or none, cease to exist.
Lost(lost, m) == [p \in Pages |-> IF p \in lost THEN NOPAGE ELSE m[p]]

\* A heap page is allocated, or a stack page is touched for the first time or
\* after it was lost; another page may be lost for it.
Appear(p, lost) ==
  /\ alive
  /\ ~Exists(p)
  /\ p \in Stack \cup Heap
  /\ mem' = [Lost(lost, mem) EXCEPT ![p] = GARBAGE]
  /\ unsaved' = unsaved \ lost
  /\ UNCHANGED <<reg, alive>>

Release(p) ==
  /\ alive
  /\ p \in Heap
  /\ mem' = [mem EXCEPT ![p] = NOPAGE]
  /\ UNCHANGED <<unsaved, reg, alive>>

\* Unsaved pages are lost.
Lose(lost) ==
  /\ alive
  /\ mem' = Lost(lost, mem)
  /\ unsaved' = unsaved \ lost
  /\ UNCHANGED <<reg, alive>>

\* The environment exits or is stopped by a panic, which may lose a page too.
Stop(lost) ==
  /\ alive
  /\ alive' = FALSE
  /\ mem' = Lost(lost, mem)
  /\ unsaved' = unsaved \ lost
  /\ UNCHANGED reg

\* The environment is killed, or was stopped before, and is freed with its pages.
Reclaim ==
  /\ mem' = [p \in Pages |-> NOPAGE]
  /\ unsaved' = {}
  /\ alive' = FALSE
  /\ UNCHANGED reg

Next ==
  \/ \E p \in Pages :
       \/ Load(p)
       \/ \E v \in Values : Store(p, v)
       \/ \E lost \in SUBSET unsaved : Appear(p, lost)
       \/ Release(p)
  \/ \E lost \in SUBSET unsaved : Lose(lost) \/ Stop(lost)
  \/ Reclaim

Spec == Init /\ [][Next]_vars
=============================================================================
