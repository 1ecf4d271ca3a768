---------------------------- MODULE BootMapping ----------------------------
(***************************************************************************)
(* kern/memory_manager.c and kern/helpers.c, before the first environment: *)
(* how much memory there is, the address space of the kernel, and which    *)
(* frames are free afterwards.                                             *)
(*                                                                         *)
(* The state of the boot is a record: frames is number_of_frames, free is  *)
(* ptr_free_mem, areas the ones allocated so far, pgdir the physical       *)
(* address of the directory, tables the directory and the tables by their  *)
(* physical addresses, and ok is FALSE after a panic.                      *)
(***************************************************************************)
EXTENDS Addresses, Sequences, SequencesExt

CONSTANTS
  KERNEL_BASE,
  KERNEL_STACK_SIZE,
  PHYS_IO_MEM,         \* the hole for I/O begins here, and the kernel is behind it
  FRAME_INFO,          \* sizeof(struct Frame_Info)
  PAGES_PER_FILE       \* frames of the page file

VPT              == KERNEL_BASE - PTSIZE
KERNEL_STACK_TOP == VPT
USER_LIMIT       == KERNEL_STACK_TOP - PTSIZE
UVPT             == USER_LIMIT - PTSIZE
UENVS            == UVPT - 2 * PTSIZE

PERM_PRESENT   == "PRESENT"
PERM_WRITEABLE == "WRITEABLE"
PERM_USER      == "USER"

\* An entry of a table is an address and permissions, 0, or what was in memory.
CONSTRUCT_ENTRY(pa, perms) == [pa |-> pa, perms |-> perms]

Zero == CONSTRUCT_ENTRY(0, {})

Unset == CONSTRUCT_ENTRY(-1, {})

Table(entry) == [i \in 0..(ENTRIES - 1) |-> entry]

STATIC_KERNEL_PHYSICAL_ADDRESS(kva) == kva - KERNEL_BASE

-----------------------------------------------------------------------------

\* Every caller aligns on a page.  There is no test for the end of memory.
boot_allocate_space(s, size) ==
  LET start == ROUNDUP(s.free)
  IN  [s EXCEPT !.free = start + size, !.areas = Append(@, [start |-> start, size |-> size])]

\* What the last allocation returned, as a physical address.
Allocated(s) == STATIC_KERNEL_PHYSICAL_ADDRESS(Last(s.areas).start)

AddTable(s, entry) ==
  [s EXCEPT !.tables = [pa \in DOMAIN @ \cup {Allocated(s)} |->
                          IF pa \in DOMAIN @ THEN @[pa] ELSE Table(entry)]]

Dir(s) == s.tables[s.pgdir]

SetDir(s, va, entry) == [s EXCEPT !.tables[s.pgdir][PDX(va)] = entry]

\* Mutant of boot_get_page_table: an existing table is not looked for.
boot_get_page_table_new(s, va) ==
  LET new == AddTable(boot_allocate_space(s, PAGE_SIZE), Unset)
  IN  SetDir(new, va, CONSTRUCT_ENTRY(Allocated(new), {PERM_PRESENT, PERM_WRITEABLE}))

\* A new table is not cleared.  The address of an existing one is checked
\* against the number of frames.
boot_get_page_table(s, va) ==
  LET pa  == Dir(s)[PDX(va)].pa
      new == AddTable(boot_allocate_space(s, PAGE_SIZE), Unset)
  IN  IF pa # 0 THEN [s EXCEPT !.ok = @ /\ pa \div PAGE_SIZE < s.frames]
      ELSE SetDir(new, va, CONSTRUCT_ENTRY(Allocated(new), {PERM_PRESENT, PERM_WRITEABLE}))

boot_map_page(s, va, pa, perms) ==
  LET t == boot_get_page_table(s, va)
  IN  [t EXCEPT !.tables[Dir(t)[PDX(va)].pa][PTX(va)] =
         CONSTRUCT_ENTRY(pa, perms \cup {PERM_PRESENT})]

\* Step k is i = (k - 1) * PAGE_SIZE; the loop ends at the first i >= size.
boot_map_range(s, va, size, pa, perms) ==
  LET step[k \in 0..ENTRIES * ENTRIES] ==
        IF k = 0 THEN s
        ELSE LET t == step[k - 1]
                 i == (k - 1) * PAGE_SIZE
             IN  IF t.ok THEN boot_map_page(t, va + i, pa + i, perms) ELSE t
  IN  step[(size + PAGE_SIZE - 1) \div PAGE_SIZE]

setup_listing_to_all_page_tables_entries(s) ==
  SetDir(SetDir(s, VPT, CONSTRUCT_ENTRY(s.pgdir, {PERM_PRESENT, PERM_WRITEABLE})), UVPT,
         CONSTRUCT_ENTRY(s.pgdir, {PERM_USER, PERM_PRESENT}))

\* The tables of the kernel's addresses, before anything else is allocated.
boot_tables(s) ==
  LET step[k \in 0..ENTRIES] ==
        IF k = 0 THEN s
        ELSE LET t == step[k - 1] IN boot_get_page_table(t, KERNEL_BASE + (k - 1) * PTSIZE)
  IN  step[(ADDRESSES - KERNEL_BASE) \div PTSIZE]

create_directory(number_of_frames, end_of_kernel) ==
  LET s == boot_allocate_space([frames |-> number_of_frames, free |-> end_of_kernel,
                                areas |-> <<>>, pgdir |-> 0, tables |-> <<>>, ok |-> TRUE],
                               PAGE_SIZE)
  IN  AddTable([s EXCEPT !.pgdir = Allocated(s)], Zero)

initialize_kernel_VM(number_of_frames, end_of_kernel, stack_bottom, envs_size) ==
  LET dir    == create_directory(number_of_frames, end_of_kernel)
      stack  == boot_map_range(dir, KERNEL_STACK_TOP - KERNEL_STACK_SIZE, KERNEL_STACK_SIZE,
                               STATIC_KERNEL_PHYSICAL_ADDRESS(stack_bottom), {PERM_WRITEABLE})
      tables == boot_tables(stack)
      frames == boot_allocate_space(tables, number_of_frames * FRAME_INFO)
      disk   == boot_allocate_space(frames, PAGES_PER_FILE * FRAME_INFO)
      listed == setup_listing_to_all_page_tables_entries(disk)
      envs   == boot_allocate_space(listed, envs_size)
      mapped == boot_map_range(envs, UENVS, envs_size, Allocated(envs), {PERM_USER})
      user   == [mapped EXCEPT !.tables[mapped.pgdir][PDX(UENVS)].perms =
                   @ \cup {PERM_USER, PERM_PRESENT}]
  IN  boot_map_range(user, KERNEL_BASE, ADDRESSES - 1 - KERNEL_BASE, 0, {PERM_WRITEABLE})

\* Mutant of initialize_paging: the frame of ptr_temp_page is given away.
initialize_paging_temp(number_of_frames, free) ==
  LET range_end == ROUNDUP(STATIC_KERNEL_PHYSICAL_ADDRESS(free))
  IN  {i \in 0..(number_of_frames - 1) :
         \/ i >= 2 /\ i < ROUNDUP(PHYS_IO_MEM) \div PAGE_SIZE
         \/ i >= range_end \div PAGE_SIZE}

\* The frames that are put in free_frame_list.
initialize_paging(number_of_frames, free) ==
  LET range_end == ROUNDUP(STATIC_KERNEL_PHYSICAL_ADDRESS(free))
  IN  {i \in 0..(number_of_frames - 1) :
         \/ i >= 3 /\ i < ROUNDUP(PHYS_IO_MEM) \div PAGE_SIZE
         \/ i >= range_end \div PAGE_SIZE}

-----------------------------------------------------------------------------
(* The processor's walk of the tables, which check_va2pa repeats. *)

NotMapped == -2

Entry(s, va) ==
  LET dir == Dir(s)[PDX(va)]
  IN  IF PERM_PRESENT \in dir.perms THEN s.tables[dir.pa][PTX(va)] ELSE Zero

check_va2pa(s, va) == IF PERM_PRESENT \in Entry(s, va).perms THEN Entry(s, va).pa ELSE NotMapped

\* What a program may do at an address: both levels have to allow it.
UserPerms(s, va) == Dir(s)[PDX(va)].perms \cap Entry(s, va).perms

-----------------------------------------------------------------------------
(* detect_memory, in KB.  The machine reports what it has below 1 MB, the  *)
(* KB above, and the units of 64 KB above 16 MB.                           *)

PHYS_EXTENDED_KB == 1024
Sixteen == 16 * 1024

\* The machine, with mem KB; Reported is what it fits in two bytes.
Reported(units) == IF units > 65535 THEN 65535 ELSE units

Nvram(mem) ==
  [ext   |-> Reported(IF mem > PHYS_EXTENDED_KB THEN mem - PHYS_EXTENDED_KB ELSE 0),
   other |-> Reported(IF mem > Sixteen THEN (mem - Sixteen) \div 64 ELSE 0)]

KernelArea == 256 * 1024

KBRounded(kb) == kb - (kb % 4)

\* Mutant of detect_memory: the first 16 MB are forgotten.
detect_memory_above(nv) ==
  LET maxpa == IF nv.other > 0 THEN nv.other * 64
               ELSE IF KBRounded(nv.ext) > 0 THEN PHYS_EXTENDED_KB + KBRounded(nv.ext) ELSE 0
  IN  IF maxpa > KernelArea THEN -1 ELSE maxpa \div 4

\* number_of_frames, or -1 when the kernel stops here.
detect_memory(nv) ==
  LET maxpa == IF nv.other > 0 THEN nv.other * 64 + Sixteen
               ELSE IF KBRounded(nv.ext) > 0 THEN PHYS_EXTENDED_KB + KBRounded(nv.ext) ELSE 0
  IN  IF maxpa > KernelArea THEN -1 ELSE maxpa \div 4

=============================================================================
