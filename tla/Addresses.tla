----------------------------- MODULE Addresses -----------------------------
(***************************************************************************)
(* inc/types.h, inc/mmu.h, inc/memlayout.h: rounding, and the parts of a   *)
(* virtual address.  A directory and a table have the same number of       *)
(* entries, which is what lets the directory stand in for a table.         *)
(***************************************************************************)
EXTENDS Integers

CONSTANTS
  PAGE_SIZE,     \* bytes of a page
  ENTRIES,       \* entries of a directory and of a table
  ADDRESSES      \* 2 ^ (number of bits of an address)

PTSIZE == PAGE_SIZE * ENTRIES

ASSUME AddressAssumption ==
  /\ PAGE_SIZE \in Nat \ {0} /\ ENTRIES \in Nat \ {0}
  /\ ADDRESSES = PTSIZE * ENTRIES

RoundDownTo(a, n) == a - (a % n)

ROUNDDOWN(a) == RoundDownTo(a, PAGE_SIZE)
ROUNDUP(a)   == ROUNDDOWN((a + PAGE_SIZE - 1) % ADDRESSES)

PDX(va) == (va \div PTSIZE) % ENTRIES
PTX(va) == (va \div PAGE_SIZE) % ENTRIES

=============================================================================
