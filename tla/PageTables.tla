----------------------------- MODULE PageTables -----------------------------
(***************************************************************************)
(* kern/memory_manager.c, kern/utilities.c: the operations on single       *)
(* entries of an environment's tables, and the counts that system calls    *)
(* take of them.                                                           *)
(*                                                                         *)
(* A table of a directory is in memory, absent (the entry is 0), or        *)
(* removed (not 0, but not PRESENT), the state that the command            *)
(* remove_table leaves.  The kernel then looks for the table in the page   *)
(* file, where no table is ever put.                                       *)
(***************************************************************************)
EXTENDS Addresses, FiniteSets

CONSTANT COUNTS          \* 2 ^ (number of bits of a count)

\* Whether an entry holds the address of a frame, and its permissions.
Unmapped == [frame |-> FALSE, perms |-> {}]

InMemory(dir, va) == dir[PDX(va)].is = "memory"

Done(dir) == [panic |-> FALSE, dir |-> dir]

\* The entry is 0, or the table is not found in the page file.
Panics(dir) == [panic |-> TRUE, dir |-> dir]

\* Mutant of pt_set_page_permissions: what is to be cleared goes first.
pt_set_page_permissions_order(dir, va, set, clear) ==
  IF ~InMemory(dir, va) THEN Panics(dir)
  ELSE Done([dir EXCEPT ![PDX(va)].table[PTX(va)].perms = (@ \ clear) \cup set])

pt_set_page_permissions(dir, va, set, clear) ==
  IF ~InMemory(dir, va) THEN Panics(dir)
  ELSE Done([dir EXCEPT ![PDX(va)].table[PTX(va)].perms = (@ \cup set) \ clear])

pt_clear_page_table_entry(dir, va) ==
  IF ~InMemory(dir, va) THEN Panics(dir)
  ELSE Done([dir EXCEPT ![PDX(va)].table[PTX(va)] = Unmapped])

\* Nothing is wrong with an address that has no table.
pt_get_page_permissions(dir, va) ==
  IF InMemory(dir, va) THEN dir[PDX(va)].table[PTX(va)].perms
  ELSE IF dir[PDX(va)].is = "removed" THEN {"panic"} ELSE {}

pd_clear_page_dir_entry(dir, va) == [dir EXCEPT ![PDX(va)].is = "absent"]

command_remove_table(dir, va) == [dir EXCEPT ![PDX(va)].is = "removed"]

-----------------------------------------------------------------------------

\* The addresses that a loop from..end - 1 by steps of n looks at.
Stepped(from, end, n) == {a \in from..(end - 1) : (a - from) % n = 0}

\* Mutant of calculate_required_frames: the pages begin at the address given.
calculate_required_frames_unrounded(dir, start, size) ==
  LET tables == Stepped(RoundDownTo(start, PTSIZE), start + size, PTSIZE)
      pages  == Stepped(start, start + size, PAGE_SIZE)
  IN  Cardinality({va \in tables : dir[PDX(va)].is = "absent"})
      + Cardinality({va \in pages : ~InMemory(dir, va) \/ dir[PDX(va)].table[PTX(va)] = Unmapped})

\* Of a directory without removed tables.
calculate_required_frames(dir, start, size) ==
  LET tables == Stepped(RoundDownTo(start, PTSIZE), start + size, PTSIZE)
      pages  == Stepped(ROUNDDOWN(start), start + size, PAGE_SIZE)
  IN  Cardinality({va \in tables : dir[PDX(va)].is = "absent"})
      + Cardinality({va \in pages : ~InMemory(dir, va) \/ dir[PDX(va)].table[PTX(va)] = Unmapped})

\* Mutant of freeMem_tables: the end is not looked at.
freeMem_tables_before(va, size) == {PDX(a) : a \in Stepped(va, va + size, PTSIZE)}

\* The tables that freeMem looks at, to remove the empty ones.
freeMem_tables(va, size) == {PDX(a) : a \in Stepped(va, va + size + 1, PTSIZE)}

\* Mutant of scarce_memory: the loop ends one earlier.
scarce_memory_less(frames, free, percentage) ==
  LET share == (100 - percentage) * frames
      total == share \div 100 + (IF share % 100 > 0 THEN 1 ELSE 0)
      size  == (total - (frames - free)) % COUNTS
  IN  IF size > free THEN -1 ELSE free - size

\* The free frames left, or -1 when allocate_frame finds none and panics.  The
\* count is unsigned, and its end is included.
scarce_memory(frames, free, percentage) ==
  LET share == (100 - percentage) * frames
      total == share \div 100 + (IF share % 100 > 0 THEN 1 ELSE 0)
      size  == (total - (frames - free)) % COUNTS
  IN  IF size + 1 > free THEN -1 ELSE free - (size + 1)

=============================================================================
