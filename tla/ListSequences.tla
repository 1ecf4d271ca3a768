---------------------------- MODULE ListSequences ----------------------------
(***************************************************************************)
(* The lists of inc/queue.h as their users see them: a sequence, head      *)
(* first, in which an element occurs at most once (it has one pair of      *)
(* links).  LIST_INSERT_HEAD(list, e) is <<e>> \o list, LIST_FIRST Head,   *)
(* LIST_LAST Last.  IntrusiveList has the links and shows that the macros  *)
(* do this.                                                                *)
(***************************************************************************)
EXTENDS Naturals, Sequences, FiniteSets, SequencesExt

NoDup(list) == \A i, j \in 1..Len(list) : list[i] = list[j] => i = j

\* LIST_REMOVE: unlink the (only) occurrence of e, if any.
LIST_REMOVE(list, e) ==
  IF e \in ToSet(list)
  THEN LET k == CHOOSE i \in 1..Len(list) : list[i] = e
       IN  [i \in 1..(Len(list) - 1) |-> IF i < k THEN list[i] ELSE list[i+1]]
  ELSE list
=============================================================================
