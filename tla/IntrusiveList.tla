--------------------------- MODULE IntrusiveList ---------------------------
(***************************************************************************)
(* The doubly linked lists of inc/queue.h, on which every queue of the     *)
(* kernel is built: the links are in the elements, and a head keeps the    *)
(* first and the last element and the size.                                *)
(*                                                                         *)
(* A store s holds the heads of the lists and the links of all elements.   *)
(* A macro maps the store before to the store after, one EXCEPT for each   *)
(* assignment, in the order of the assignments.                            *)
(***************************************************************************)
EXTENDS Naturals, Sequences, FiniteSets

CONSTANTS Elements, Lists, NULL

\* The elements are in memory, and none of them is at the address NULL.
ASSUME ListConstants == IsFiniteSet(Elements) /\ NULL \notin Elements

LIST_FIRST(s, list) == s.head[list].first
LIST_LAST(s, list)  == s.head[list].last
LIST_SIZE(s, list)  == s.head[list].size
LIST_NEXT(s, e)     == s.next[e]
LIST_PREV(s, e)     == s.prev[e]

SetFirst(s, list, e) == [s EXCEPT !.head[list].first = e]
SetLast(s, list, e)  == [s EXCEPT !.head[list].last = e]
SetNext(s, e, n)     == [s EXCEPT !.next[e] = n]
SetPrev(s, e, p)     == [s EXCEPT !.prev[e] = p]
Grow(s, list, n)     == [s EXCEPT !.head[list].size = @ + n]

LIST_INIT(s, list) == [s EXCEPT !.head[list] = [first |-> NULL, last |-> NULL, size |-> 0]]

LIST_INSERT_AFTER(s, list, at, e) ==
  LET s1 == SetNext(s, e, LIST_NEXT(s, at))
      s2 == IF LIST_NEXT(s1, e) # NULL THEN SetPrev(s1, LIST_NEXT(s1, at), e) ELSE s1
      s3 == SetPrev(SetNext(s2, at, e), e, at)
      s4 == IF LIST_NEXT(s3, e) = NULL THEN SetLast(s3, list, e) ELSE s3
  IN  Grow(s4, list, 1)

LIST_INSERT_BEFORE(s, list, at, e) ==
  LET s1 == SetNext(SetPrev(s, e, LIST_PREV(s, at)), e, at)
      s2 == IF LIST_PREV(s1, at) # NULL THEN SetNext(s1, LIST_PREV(s1, at), e)
                                        ELSE SetFirst(s1, list, e)
  IN  Grow(SetPrev(s2, at, e), list, 1)

LIST_INSERT_HEAD(s, list, e) ==
  LET s1 == SetNext(s, e, LIST_FIRST(s, list))
      s2 == IF LIST_NEXT(s1, e) # NULL THEN SetPrev(s1, LIST_FIRST(s1, list), e)
                                       ELSE SetLast(s1, list, e)
  IN  Grow(SetPrev(SetFirst(s2, list, e), e, NULL), list, 1)

LIST_INSERT_TAIL(s, list, e) ==
  LET s1 == SetPrev(s, e, LIST_LAST(s, list))
      s2 == IF LIST_PREV(s1, e) # NULL THEN SetNext(s1, LIST_LAST(s1, list), e)
                                       ELSE SetFirst(s1, list, e)
  IN  Grow(SetNext(SetLast(s2, list, e), e, NULL), list, 1)

\* Mutant of LIST_REMOVE: the last element of the head is not updated.
LIST_REMOVE_last(s, list, e) ==
  LET n  == LIST_NEXT(s, e)
      p  == LIST_PREV(s, e)
      s1 == IF n # NULL THEN SetPrev(s, n, p) ELSE s
      s2 == IF p # NULL THEN SetNext(s1, p, n) ELSE SetFirst(s1, list, n)
      s3 == SetPrev(SetNext(s2, e, NULL), e, NULL)
  IN  [s3 EXCEPT !.head[list].size = @ - 1]

LIST_REMOVE(s, list, e) ==
  LET n  == LIST_NEXT(s, e)
      p  == LIST_PREV(s, e)
      s1 == IF n # NULL THEN SetPrev(s, n, p) ELSE SetLast(s, list, p)
      s2 == IF p # NULL THEN SetNext(s1, p, n) ELSE SetFirst(s1, list, n)
      s3 == SetPrev(SetNext(s2, e, NULL), e, NULL)
  IN  [s3 EXCEPT !.head[list].size = @ - 1]

\* The size of the second list is added after LIST_INIT has cleared it.
LIST_CONCAT(s, list1, list2) ==
  LET first2 == LIST_FIRST(s, list2)
      last2  == LIST_LAST(s, list2)
      s1 == IF LIST_FIRST(s, list1) = NULL
            THEN SetLast(SetFirst(s, list1, first2), list1, last2)
            ELSE IF first2 = NULL THEN s
            ELSE LET t == SetPrev(SetNext(s, LIST_LAST(s, list1), first2),
                                  first2, LIST_LAST(s, list1))
                 IN  LIST_INIT(SetLast(t, list1, last2), list2)
  IN  Grow(s1, list1, LIST_SIZE(s1, list2))

LOOP_LIST_NEXT(s, e) == IF e = NULL THEN NULL ELSE LIST_NEXT(s, e)

\* A loop over a list of distinct elements ends within this many rounds.
Rounds == Cardinality(Elements) + 1

\* Mutant of LIST_FOREACH: the next element is read after the body.
LIST_FOREACH_late(s, list, removed) ==
  LET loop[i \in 0..Rounds] ==
        IF i = 0 THEN [at |-> LIST_FIRST(s, list), visited |-> <<>>, store |-> s]
        ELSE LET l == loop[i - 1] IN
             IF l.at = NULL THEN l
             ELSE LET after == IF l.at \in removed THEN LIST_REMOVE(l.store, list, l.at)
                                                   ELSE l.store
                  IN  [at |-> LOOP_LIST_NEXT(after, l.at),
                       visited |-> Append(l.visited, l.at),
                       store |-> after]
  IN  loop[Rounds]

\* A loop whose body removes the element it is at when that is in "removed":
\* the next element, in ___ptr_next, is read before the body runs.
LIST_FOREACH(s, list, removed) ==
  LET loop[i \in 0..Rounds] ==
        IF i = 0 THEN [at |-> LIST_FIRST(s, list), visited |-> <<>>, store |-> s]
        ELSE LET l == loop[i - 1]
                 ___ptr_next == LOOP_LIST_NEXT(l.store, l.at)
             IN  IF ___ptr_next = NULL /\ l.at = NULL THEN l
                 ELSE [at |-> ___ptr_next,
                       visited |-> Append(l.visited, l.at),
                       store |-> IF l.at \in removed THEN LIST_REMOVE(l.store, list, l.at)
                                                     ELSE l.store]
  IN  loop[Rounds]

-----------------------------------------------------------------------------
(* What a list promises: it is a sequence of elements. *)

\* The list holds the elements of q, in that order.
Holds(s, list, q) ==
  /\ LIST_FIRST(s, list) = IF q = <<>> THEN NULL ELSE q[1]
  /\ LIST_LAST(s, list)  = IF q = <<>> THEN NULL ELSE q[Len(q)]
  /\ \A i \in DOMAIN q :
       /\ LIST_NEXT(s, q[i]) = IF i = Len(q) THEN NULL ELSE q[i + 1]
       /\ LIST_PREV(s, q[i]) = IF i = 1 THEN NULL ELSE q[i - 1]

\* The store in which each list holds its sequence, and every other element the
\* links "stale" that an earlier use may have left.
Store(q, stale) ==
  LET in(e)  == \E l \in Lists : \E i \in DOMAIN q[l] : q[l][i] = e
      seq(e) == q[CHOOSE l \in Lists : \E i \in DOMAIN q[l] : q[l][i] = e]
      pos(e) == CHOOSE i \in DOMAIN seq(e) : seq(e)[i] = e
  IN  [head |-> [l \in Lists |->
                   [first |-> IF q[l] = <<>> THEN NULL ELSE q[l][1],
                    last  |-> IF q[l] = <<>> THEN NULL ELSE q[l][Len(q[l])],
                    size  |-> Len(q[l])]],
       next |-> [e \in Elements |->
                   IF ~in(e) THEN stale
                   ELSE IF pos(e) = Len(seq(e)) THEN NULL ELSE seq(e)[pos(e) + 1]],
       prev |-> [e \in Elements |->
                   IF ~in(e) THEN stale
                   ELSE IF pos(e) = 1 THEN NULL ELSE seq(e)[pos(e) - 1]]]

=============================================================================
