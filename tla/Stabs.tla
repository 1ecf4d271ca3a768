------------------------------- MODULE Stabs -------------------------------
(***************************************************************************)
(* kern/kdebug.c: the search of the table of stabs for the source file and *)
(* the function of an instruction address.                                 *)
(*                                                                         *)
(* A table is a function from 0..N-1 to records of a type and an address.  *)
(* Names are left out: the result is the index of the stab that has the    *)
(* name.                                                                   *)
(***************************************************************************)
EXTENDS Integers, FiniteSets

\* addr is a pointer to 4 bytes, so that addr++ adds 4.
AddrIncrement == 4

\* One round of the loop of stab_binsearch.  l..r is still to be searched,
\* left and right are *region_left and *region_right.
SearchRound(stabs, type, s) ==
  LET true_m  == (s.l + s.r) \div 2
      matches == {i \in s.l..true_m : stabs[i].type = type}
      m       == CHOOSE i \in matches : \A j \in matches : j <= i
  IN  IF matches = {} THEN [s EXCEPT !.l = true_m + 1]
      ELSE IF stabs[m].value < s.addr
      THEN [s EXCEPT !.any = TRUE, !.left = m, !.l = true_m + 1]
      ELSE IF stabs[m].value > s.addr
      THEN [s EXCEPT !.any = TRUE, !.right = m - 1, !.r = m - 1]
      ELSE [s EXCEPT !.any = TRUE, !.left = m, !.l = m, !.addr = @ + AddrIncrement]

\* Mutant of stab_binsearch: an exact match is not moved to the rightmost stab.
stab_binsearch_exact(stabs, left, right, type, addr) ==
  LET rounds == 2 * Cardinality(DOMAIN stabs) + 2
      run[k \in 0..rounds] ==
        IF k = 0 THEN [l |-> left, r |-> right, left |-> left, right |-> right,
                       any |-> FALSE, addr |-> addr - 1]
        ELSE LET t == run[k - 1]
             IN  IF t.l > t.r THEN t ELSE SearchRound(stabs, type, t)
      s    == run[rounds]
      last == {i \in (s.left + 1)..s.right : stabs[i].type = type}
  IN  IF ~s.any THEN [left |-> s.left, right |-> s.left - 1]
      ELSE [left  |-> IF last # {} THEN CHOOSE i \in last : \A j \in last : j <= i
                      ELSE IF s.right > s.left THEN s.left ELSE s.right,
            right |-> s.right]

\* The rounds, each of which shrinks l..r or follows an exact match, then the
\* scan from right down to a stab of the type.
stab_binsearch(stabs, left, right, type, addr) ==
  LET rounds == 2 * Cardinality(DOMAIN stabs) + 2
      run[k \in 0..rounds] ==
        IF k = 0 THEN [l |-> left, r |-> right, left |-> left, right |-> right,
                       any |-> FALSE, addr |-> addr]
        ELSE LET t == run[k - 1]
             IN  IF t.l > t.r THEN t ELSE SearchRound(stabs, type, t)
      s    == run[rounds]
      last == {i \in (s.left + 1)..s.right : stabs[i].type = type}
  IN  IF ~s.any THEN [left |-> s.left, right |-> s.left - 1]
      ELSE [left  |-> IF last # {} THEN CHOOSE i \in last : \A j \in last : j <= i
                      ELSE IF s.right > s.left THEN s.left ELSE s.right,
            right |-> s.right]

\* The stabs of the source file and of the function, -1 where there is none.
\* The scan back from the function (or the end of the file) to a stab that
\* names a file stops at the file's own stab.
debuginfo_eip(stabs, addr) ==
  LET file == stab_binsearch(stabs, 0, Cardinality(DOMAIN stabs) - 1, "SO", addr)
      fun  == stab_binsearch(stabs, file.left, file.right, "FUN", addr)
      found == fun.left <= fun.right
      lline == IF found THEN fun.left ELSE file.left
      names == {i \in file.left..lline : \/ stabs[i].type = "SOL"
                                         \/ stabs[i].type = "SO" /\ stabs[i].value # 0}
  IN  IF file.left = 0 THEN [ret |-> -1, fn |-> -1, file |-> -1]
      ELSE [ret  |-> 0,
            fn   |-> IF found THEN fun.left ELSE -1,
            file |-> IF names = {} THEN -1
                     ELSE CHOOSE i \in names : \A j \in names : j <= i]

-----------------------------------------------------------------------------
(* What the comment above stab_binsearch promises. *)

\* The last stab of the type in l..r that is not above addr, or -1.
LastUpTo(stabs, l, r, type, addr) ==
  LET S == {i \in l..r : stabs[i].type = type /\ stabs[i].value <= addr}
  IN  IF S = {} THEN -1 ELSE CHOOSE i \in S : \A j \in S : j <= i

\* The position before the next stab of the type, or r.
BeforeNext(stabs, l, r, type, addr) ==
  LET S == {i \in l..r : stabs[i].type = type /\ stabs[i].value > addr}
  IN  IF S = {} THEN r ELSE (CHOOSE i \in S : \A j \in S : j >= i) - 1

\* The search that meets a stab at addr goes on for an address behind another
\* stab of the type, up to which the increment has carried it.
Misled(stabs, type, addr) ==
  \E i, j \in DOMAIN stabs :
    /\ stabs[i].type = type /\ stabs[i].value = addr
    /\ stabs[j].type = type /\ stabs[j].value \in (addr + 1)..(addr + AddrIncrement)

=============================================================================
