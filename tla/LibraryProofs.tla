--------------------------- MODULE LibraryProofs ---------------------------
(***************************************************************************)
(* The macros of inc/queue.h implement sequences, for any number of        *)
(* elements and lists and whatever links the elements were left with: the  *)
(* other modules may take a list for a sequence.                           *)
(*                                                                         *)
(* Each macro is first reduced to its net effect on the links (Linked,     *)
(* Unlinked), then that effect is shown to insert an element into the      *)
(* sequence, or to remove one.                                             *)
(*                                                                         *)
(* The search of the stabs brackets the address, on tables of any length:  *)
(* Searching holds between any two rounds.                                 *)
(*                                                                         *)
(* The timer's counts and env_sleep keep the time, for all quanta and all  *)
(* times at which a program comes to ask.                                  *)
(***************************************************************************)
EXTENDS Library, FunctionTheorems, FiniteSetTheorems, SequenceTheorems, TLAPS

Shared == INSTANCE ListProofs

Link == Elements \cup {NULL}

Heads == [first : Link, last : Link, size : Int]

StoreType == [head : [Lists -> Heads], next : [Elements -> Link], prev : [Elements -> Link]]

\* The sequences of the lists: an element is in one place of one list at most.
WellFormed(q) ==
  /\ q \in [Lists -> Seq(Elements)]
  /\ \A k, l \in Lists : \A i \in 1..Len(q[k]), j \in 1..Len(q[l]) :
       q[k][i] = q[l][j] => k = l /\ i = j

\* Every list holds its sequence.
HoldAll(s, q) == \A l \in Lists : Holds(s, l, q[l]) /\ LIST_SIZE(s, l) = Len(q[l])

\* The store holds the sequences.
Represents(s, q) == s \in StoreType /\ HoldAll(s, q)

-----------------------------------------------------------------------------
(* The assignments of the macros. *)

LEMMA SetNextLinks ==
  ASSUME NEW s \in StoreType, NEW e \in Elements, NEW n \in Link
  PROVE  /\ SetNext(s, e, n) \in StoreType
         /\ SetNext(s, e, n).head = s.head
         /\ SetNext(s, e, n).prev = s.prev
         /\ SetNext(s, e, n).next = [s.next EXCEPT ![e] = n]
BY DEF SetNext, StoreType

LEMMA SetPrevLinks ==
  ASSUME NEW s \in StoreType, NEW e \in Elements, NEW n \in Link
  PROVE  /\ SetPrev(s, e, n) \in StoreType
         /\ SetPrev(s, e, n).head = s.head
         /\ SetPrev(s, e, n).next = s.next
         /\ SetPrev(s, e, n).prev = [s.prev EXCEPT ![e] = n]
BY DEF SetPrev, StoreType

LEMMA SetHead ==
  ASSUME NEW s \in StoreType, NEW l \in Lists, NEW h \in Heads
  PROVE  /\ [s EXCEPT !.head[l] = h] \in StoreType
         /\ [s EXCEPT !.head[l] = h].next = s.next
         /\ [s EXCEPT !.head[l] = h].prev = s.prev
         /\ [s EXCEPT !.head[l] = h].head = [s.head EXCEPT ![l] = h]
BY DEF StoreType

LEMMA SetFirstHead ==
  ASSUME NEW s \in StoreType, NEW l \in Lists, NEW n \in Link
  PROVE  /\ SetFirst(s, l, n) \in StoreType
         /\ SetFirst(s, l, n).next = s.next /\ SetFirst(s, l, n).prev = s.prev
         /\ SetFirst(s, l, n).head = [s.head EXCEPT ![l] = [s.head[l] EXCEPT !.first = n]]
<1>1. s.head[l] \in Heads
  BY DEF StoreType
<1>2. [s.head[l] EXCEPT !.first = n] \in Heads
  BY <1>1 DEF Heads
<1>3. SetFirst(s, l, n) = [s EXCEPT !.head[l] = [s.head[l] EXCEPT !.first = n]]
  BY DEF SetFirst, StoreType
<1> QED BY <1>2, <1>3, SetHead

LEMMA SetLastHead ==
  ASSUME NEW s \in StoreType, NEW l \in Lists, NEW n \in Link
  PROVE  /\ SetLast(s, l, n) \in StoreType
         /\ SetLast(s, l, n).next = s.next /\ SetLast(s, l, n).prev = s.prev
         /\ SetLast(s, l, n).head = [s.head EXCEPT ![l] = [s.head[l] EXCEPT !.last = n]]
<1>1. s.head[l] \in Heads
  BY DEF StoreType
<1>2. [s.head[l] EXCEPT !.last = n] \in Heads
  BY <1>1 DEF Heads
<1>3. SetLast(s, l, n) = [s EXCEPT !.head[l] = [s.head[l] EXCEPT !.last = n]]
  BY DEF SetLast, StoreType
<1> QED BY <1>2, <1>3, SetHead

LEMMA GrowHead ==
  ASSUME NEW s \in StoreType, NEW l \in Lists, NEW k \in Int
  PROVE  /\ Grow(s, l, k) \in StoreType
         /\ Grow(s, l, k).next = s.next /\ Grow(s, l, k).prev = s.prev
         /\ Grow(s, l, k).head = [s.head EXCEPT ![l] = [s.head[l] EXCEPT !.size = @ + k]]
<1>1. s.head[l] \in Heads
  BY DEF StoreType
<1>2. [s.head[l] EXCEPT !.size = @ + k] \in Heads
  BY <1>1 DEF Heads
<1>3. Grow(s, l, k) = [s EXCEPT !.head[l] = [s.head[l] EXCEPT !.size = @ + k]]
  BY DEF Grow, StoreType
<1> QED BY <1>2, <1>3, SetHead

-----------------------------------------------------------------------------
(* The net effect of the macros. *)

\* A list without repetitions, held by the store.
Listed(s, l, q) ==
  /\ s \in StoreType /\ l \in Lists /\ q \in Seq(Elements)
  /\ \A i, j \in 1..Len(q) : q[i] = q[j] => i = j
  /\ Holds(s, l, q)

\* Store t is s with e linked in at position p of the list l, which holds q.
Linked(s, t, l, q, p, e) ==
  /\ t \in StoreType
  /\ \A x \in Elements :
       t.next[x] = IF x = e THEN IF p = Len(q) + 1 THEN NULL ELSE q[p]
                   ELSE IF p > 1 /\ x = q[p - 1] THEN e ELSE s.next[x]
  /\ \A x \in Elements :
       t.prev[x] = IF x = e THEN IF p = 1 THEN NULL ELSE q[p - 1]
                   ELSE IF p <= Len(q) /\ x = q[p] THEN e ELSE s.prev[x]
  /\ t.head[l].first = IF p = 1 THEN e ELSE s.head[l].first
  /\ t.head[l].last = IF p = Len(q) + 1 THEN e ELSE s.head[l].last
  /\ t.head[l].size = s.head[l].size + 1
  /\ \A k \in Lists \ {l} : t.head[k] = s.head[k]

\* The ends and the links of a list that is held, and the types of all.
LEMMA ListedFacts ==
  ASSUME NEW s, NEW l, NEW q, Listed(s, l, q)
  PROVE  /\ Len(q) \in Nat /\ DOMAIN q = 1..Len(q) /\ \A i \in 1..Len(q) : q[i] \in Elements
         /\ s.next \in [Elements -> Link] /\ s.prev \in [Elements -> Link]
         /\ s.head \in [Lists -> Heads] /\ s.head[l] \in Heads
         /\ Len(q) = 0 => q = <<>> /\ s.head[l].first = NULL /\ s.head[l].last = NULL
         /\ Len(q) # 0 => q # <<>> /\ s.head[l].first = q[1] /\ s.head[l].last = q[Len(q)]
         /\ \A i \in 1..Len(q) : /\ s.next[q[i]] = IF i = Len(q) THEN NULL ELSE q[i + 1]
                                 /\ s.prev[q[i]] = IF i = 1 THEN NULL ELSE q[i - 1]
<1>1. s \in StoreType /\ l \in Lists /\ q \in Seq(Elements) /\ Holds(s, l, q)
  BY DEF Listed
<1>2. Len(q) \in Nat /\ DOMAIN q = 1..Len(q) /\ \A i \in 1..Len(q) : q[i] \in Elements
  BY <1>1
<1>3. Len(q) = 0 <=> q = <<>>
  BY <1>1
<1>4. /\ s.next \in [Elements -> Link] /\ s.prev \in [Elements -> Link]
      /\ s.head \in [Lists -> Heads] /\ s.head[l] \in Heads
  BY <1>1 DEF StoreType
<1> QED BY <1>1, <1>2, <1>3, <1>4 DEF Holds, LIST_FIRST, LIST_LAST, LIST_NEXT, LIST_PREV

\* The elements before and after position p of a list that is held.
LEMMA Neighbours ==
  ASSUME NEW s, NEW l, NEW q, Listed(s, l, q), NEW p \in 1..Len(q),
         NEW n, n = IF p = Len(q) THEN NULL ELSE q[p + 1],
         NEW b, b = IF p = 1 THEN NULL ELSE q[p - 1]
  PROVE  /\ q[p] \in Elements /\ n \in Link /\ b \in Link
         /\ LIST_NEXT(s, q[p]) = n /\ LIST_PREV(s, q[p]) = b
         /\ (n # NULL <=> p < Len(q)) /\ (n # NULL => n \in Elements)
         /\ (b # NULL <=> p > 1) /\ (b # NULL => b \in Elements)
         /\ n # q[p] /\ b # q[p]
<1>1. Len(q) \in Nat /\ \A i \in 1..Len(q) : q[i] \in Elements
  BY ListedFacts
<1>2. NULL \notin Elements
  BY ListConstants
<1>3. \A i, j \in 1..Len(q) : q[i] = q[j] => i = j
  BY DEF Listed
<1>4. LIST_NEXT(s, q[p]) = n /\ LIST_PREV(s, q[p]) = b
  BY ListedFacts DEF LIST_NEXT, LIST_PREV
<1>5. CASE p = Len(q) /\ p = 1
  BY <1>1, <1>2, <1>4, <1>5 DEF Link
<1>6. CASE p = Len(q) /\ p # 1
  <2>1. p - 1 \in 1..Len(q) /\ p - 1 # p /\ n = NULL /\ b = q[p - 1]
    BY <1>1, <1>6
  <2>2. b \in Elements /\ b # q[p] /\ q[p] \in Elements
    BY <2>1, <1>1, <1>3
  <2> QED BY <1>1, <1>2, <1>4, <1>6, <2>1, <2>2 DEF Link
<1>7. CASE p # Len(q) /\ p = 1
  <2>1. p + 1 \in 1..Len(q) /\ p + 1 # p /\ n = q[p + 1] /\ b = NULL
    BY <1>1, <1>7
  <2>2. n \in Elements /\ n # q[p] /\ q[p] \in Elements
    BY <2>1, <1>1, <1>3
  <2> QED BY <1>1, <1>2, <1>4, <1>7, <2>1, <2>2 DEF Link
<1>8. CASE p # Len(q) /\ p # 1
  <2>1. /\ p + 1 \in 1..Len(q) /\ p + 1 # p /\ n = q[p + 1]
        /\ p - 1 \in 1..Len(q) /\ p - 1 # p /\ b = q[p - 1]
    BY <1>1, <1>8
  <2>2. n \in Elements /\ n # q[p] /\ b \in Elements /\ b # q[p] /\ q[p] \in Elements
    BY <2>1, <1>1, <1>3
  <2> QED BY <1>1, <1>2, <1>4, <1>8, <2>1, <2>2 DEF Link
<1> QED BY <1>5, <1>6, <1>7, <1>8

LEMMA InsertHeadLinks ==
  ASSUME NEW s, NEW l, NEW q, Listed(s, l, q),
         NEW e \in Elements, \A i \in 1..Len(q) : q[i] # e
  PROVE  Linked(s, LIST_INSERT_HEAD(s, l, e), l, q, 1, e)
<1> DEFINE s1 == SetNext(s, e, LIST_FIRST(s, l))
           s2 == IF LIST_NEXT(s1, e) # NULL THEN SetPrev(s1, LIST_FIRST(s1, l), e)
                                            ELSE SetLast(s1, l, e)
           s3 == SetFirst(s2, l, e)
           s4 == SetPrev(s3, e, NULL)
           t  == Grow(s4, l, 1)
           f  == s.head[l].first
<1>0. s \in StoreType /\ l \in Lists /\ e \in Link /\ NULL \in Link /\ f \in Link
      /\ (f # NULL => f \in Elements) /\ (Len(q) = 0 <=> f = NULL) /\ f # e
      /\ Elements \subseteq Link
  BY ListedFacts, ListConstants DEF Listed, Link, Heads
<1>b. s \in StoreType /\ l \in Lists /\ e \in Link /\ 1 \in Int
  BY <1>0
<1>1. s1 \in StoreType /\ s1.head = s.head /\ s1.prev = s.prev /\ s1.next = [s.next EXCEPT ![e] = f]
  <2>1. f = LIST_FIRST(s, l)
    BY DEF LIST_FIRST
  <2> HIDE DEF f
  <2> QED BY <1>0, <2>1, SetNextLinks
<1>2. LIST_NEXT(s1, e) = f /\ LIST_FIRST(s1, l) = f
  BY <1>1, ListedFacts DEF LIST_NEXT, LIST_FIRST
<1> HIDE DEF s1
<1>3. CASE f # NULL
  <2>1. s2 = SetPrev(s1, f, e) /\ f \in Elements
    BY <1>3, <1>2, <1>0
  <2>2. s2 \in StoreType /\ s2.head = s.head /\ s2.prev = [s.prev EXCEPT ![f] = e] /\ s2.next = s1.next
    BY <2>1, <1>0, <1>1, SetPrevLinks
  <2> HIDE DEF s2
  <2>3. s3 \in StoreType /\ s3.next = s1.next /\ s3.prev = [s.prev EXCEPT ![f] = e]
        /\ s3.head = [s.head EXCEPT ![l] = [s.head[l] EXCEPT !.first = e]]
    <3>1. s2 \in StoreType /\ l \in Lists /\ e \in Link
      BY <2>2, <1>b
    <3>2. /\ SetFirst(s2, l, e) \in StoreType /\ SetFirst(s2, l, e).next = s2.next /\ SetFirst(s2, l, e).prev = s2.prev
          /\ SetFirst(s2, l, e).head = [s2.head EXCEPT ![l] = [s2.head[l] EXCEPT !.first = e]]
      BY <3>1, SetFirstHead
    <3> QED BY <3>2, <2>2
  <2> HIDE DEF s3
  <2>4. s4 \in StoreType /\ s4.next = s1.next /\ s4.head = s3.head
        /\ s4.prev = [s3.prev EXCEPT ![e] = NULL]
    <3>1. s3 \in StoreType /\ e \in Elements /\ NULL \in Link
      BY <2>3, <1>0
    <3>2. /\ SetPrev(s3, e, NULL) \in StoreType /\ SetPrev(s3, e, NULL).head = s3.head
          /\ SetPrev(s3, e, NULL).next = s3.next /\ SetPrev(s3, e, NULL).prev = [s3.prev EXCEPT ![e] = NULL]
      BY <3>1, SetPrevLinks
    <3> QED BY <3>2, <2>3
  <2> HIDE DEF s4
  <2>5. t \in StoreType /\ t.next = s1.next /\ t.prev = s4.prev
        /\ t.head = [s4.head EXCEPT ![l] = [s4.head[l] EXCEPT !.size = @ + 1]]
    <3>1. s4 \in StoreType /\ l \in Lists /\ 1 \in Int
      BY <2>4, <1>b
    <3>2. /\ Grow(s4, l, 1) \in StoreType /\ Grow(s4, l, 1).next = s4.next /\ Grow(s4, l, 1).prev = s4.prev
          /\ Grow(s4, l, 1).head = [s4.head EXCEPT ![l] = [s4.head[l] EXCEPT !.size = @ + 1]]
      BY <3>1, GrowHead
    <3> QED BY <3>2, <2>4
  <2> HIDE DEF t
  <2>6. Linked(s, t, l, q, 1, e)
    BY <2>3, <2>4, <2>5, <1>0, <1>1, <1>3, ListedFacts DEF Linked, Heads
  <2> QED BY <2>6 DEF LIST_INSERT_HEAD, t, s4, s3, s2, s1
<1>4. CASE f = NULL
  <2>1. s2 = SetLast(s1, l, e)
    BY <1>4, <1>2
  <2>2. s2 \in StoreType /\ s2.prev = s.prev /\ s2.next = s1.next
        /\ s2.head = [s.head EXCEPT ![l] = [s.head[l] EXCEPT !.last = e]]
    BY <2>1, <1>0, <1>1, SetLastHead
  <2> HIDE DEF s2
  <2>3. s3 \in StoreType /\ s3.next = s1.next /\ s3.prev = s.prev
        /\ s3.head = [s2.head EXCEPT ![l] = [s2.head[l] EXCEPT !.first = e]]
    <3>1. s2 \in StoreType /\ l \in Lists /\ e \in Link
      BY <2>2, <1>b
    <3>2. /\ SetFirst(s2, l, e) \in StoreType /\ SetFirst(s2, l, e).next = s2.next /\ SetFirst(s2, l, e).prev = s2.prev
          /\ SetFirst(s2, l, e).head = [s2.head EXCEPT ![l] = [s2.head[l] EXCEPT !.first = e]]
      BY <3>1, SetFirstHead
    <3> QED BY <3>2, <2>2
  <2> HIDE DEF s3
  <2>4. s4 \in StoreType /\ s4.next = s1.next /\ s4.head = s3.head
        /\ s4.prev = [s3.prev EXCEPT ![e] = NULL]
    <3>1. s3 \in StoreType /\ e \in Elements /\ NULL \in Link
      BY <2>3, <1>0
    <3>2. /\ SetPrev(s3, e, NULL) \in StoreType /\ SetPrev(s3, e, NULL).head = s3.head
          /\ SetPrev(s3, e, NULL).next = s3.next /\ SetPrev(s3, e, NULL).prev = [s3.prev EXCEPT ![e] = NULL]
      BY <3>1, SetPrevLinks
    <3> QED BY <3>2, <2>3
  <2> HIDE DEF s4
  <2>5. t \in StoreType /\ t.next = s1.next /\ t.prev = s4.prev
        /\ t.head = [s4.head EXCEPT ![l] = [s4.head[l] EXCEPT !.size = @ + 1]]
    <3>1. s4 \in StoreType /\ l \in Lists /\ 1 \in Int
      BY <2>4, <1>b
    <3>2. /\ Grow(s4, l, 1) \in StoreType /\ Grow(s4, l, 1).next = s4.next /\ Grow(s4, l, 1).prev = s4.prev
          /\ Grow(s4, l, 1).head = [s4.head EXCEPT ![l] = [s4.head[l] EXCEPT !.size = @ + 1]]
      BY <3>1, GrowHead
    <3> QED BY <3>2, <2>4
  <2> HIDE DEF t
  <2>6. Linked(s, t, l, q, 1, e)
    BY <2>2, <2>3, <2>4, <2>5, <1>0, <1>1, <1>4, ListedFacts DEF Linked, Heads
  <2> QED BY <2>6 DEF LIST_INSERT_HEAD, t, s4, s3, s2, s1
<1> QED BY <1>3, <1>4


LEMMA InsertTailLinks ==
  ASSUME NEW s, NEW l, NEW q, Listed(s, l, q),
         NEW e \in Elements, \A i \in 1..Len(q) : q[i] # e
  PROVE  Linked(s, LIST_INSERT_TAIL(s, l, e), l, q, Len(q) + 1, e)
<1> DEFINE s1 == SetPrev(s, e, LIST_LAST(s, l))
           s2 == IF LIST_PREV(s1, e) # NULL THEN SetNext(s1, LIST_LAST(s1, l), e)
                                            ELSE SetFirst(s1, l, e)
           s3 == SetLast(s2, l, e)
           s4 == SetNext(s3, e, NULL)
           t  == Grow(s4, l, 1)
           f  == s.head[l].last
<1>0. s \in StoreType /\ l \in Lists /\ e \in Link /\ NULL \in Link /\ f \in Link
      /\ (f # NULL => f \in Elements) /\ (Len(q) = 0 <=> f = NULL) /\ f # e
      /\ Elements \subseteq Link
  BY ListedFacts, ListConstants DEF Listed, Link, Heads
<1>b. s \in StoreType /\ l \in Lists /\ e \in Link /\ 1 \in Int
  BY <1>0
<1>1. s1 \in StoreType /\ s1.head = s.head /\ s1.next = s.next /\ s1.prev = [s.prev EXCEPT ![e] = f]
  <2>1. f = LIST_LAST(s, l)
    BY DEF LIST_LAST
  <2> HIDE DEF f
  <2> QED BY <1>0, <2>1, SetPrevLinks
<1>2. LIST_PREV(s1, e) = f /\ LIST_LAST(s1, l) = f
  BY <1>1, ListedFacts DEF LIST_PREV, LIST_LAST
<1> HIDE DEF s1
<1>3. CASE f # NULL
  <2>1. s2 = SetNext(s1, f, e) /\ f \in Elements
    BY <1>3, <1>2, <1>0
  <2>2. s2 \in StoreType /\ s2.head = s.head /\ s2.next = [s.next EXCEPT ![f] = e] /\ s2.prev = s1.prev
    BY <2>1, <1>0, <1>1, SetNextLinks
  <2> HIDE DEF s2
  <2>3. s3 \in StoreType /\ s3.prev = s1.prev /\ s3.next = [s.next EXCEPT ![f] = e]
        /\ s3.head = [s.head EXCEPT ![l] = [s.head[l] EXCEPT !.last = e]]
    <3>1. s2 \in StoreType /\ l \in Lists /\ e \in Link
      BY <2>2, <1>b
    <3>2. /\ SetLast(s2, l, e) \in StoreType /\ SetLast(s2, l, e).next = s2.next /\ SetLast(s2, l, e).prev = s2.prev
          /\ SetLast(s2, l, e).head = [s2.head EXCEPT ![l] = [s2.head[l] EXCEPT !.last = e]]
      BY <3>1, SetLastHead
    <3> QED BY <3>2, <2>2
  <2> HIDE DEF s3
  <2>4. s4 \in StoreType /\ s4.prev = s1.prev /\ s4.head = s3.head
        /\ s4.next = [s3.next EXCEPT ![e] = NULL]
    <3>1. s3 \in StoreType /\ e \in Elements /\ NULL \in Link
      BY <2>3, <1>0
    <3>2. /\ SetNext(s3, e, NULL) \in StoreType /\ SetNext(s3, e, NULL).head = s3.head
          /\ SetNext(s3, e, NULL).prev = s3.prev /\ SetNext(s3, e, NULL).next = [s3.next EXCEPT ![e] = NULL]
      BY <3>1, SetNextLinks
    <3> QED BY <3>2, <2>3
  <2> HIDE DEF s4
  <2>5. t \in StoreType /\ t.prev = s1.prev /\ t.next = s4.next
        /\ t.head = [s4.head EXCEPT ![l] = [s4.head[l] EXCEPT !.size = @ + 1]]
    <3>1. s4 \in StoreType /\ l \in Lists /\ 1 \in Int
      BY <2>4, <1>b
    <3>2. /\ Grow(s4, l, 1) \in StoreType /\ Grow(s4, l, 1).next = s4.next /\ Grow(s4, l, 1).prev = s4.prev
          /\ Grow(s4, l, 1).head = [s4.head EXCEPT ![l] = [s4.head[l] EXCEPT !.size = @ + 1]]
      BY <3>1, GrowHead
    <3> QED BY <3>2, <2>4
  <2> HIDE DEF t
  <2>6. Linked(s, t, l, q, Len(q) + 1, e)
    BY <2>3, <2>4, <2>5, <1>0, <1>1, <1>3, ListedFacts DEF Linked, Heads
  <2> QED BY <2>6 DEF LIST_INSERT_TAIL, t, s4, s3, s2, s1
<1>4. CASE f = NULL
  <2>1. s2 = SetFirst(s1, l, e)
    BY <1>4, <1>2
  <2>2. s2 \in StoreType /\ s2.next = s.next /\ s2.prev = s1.prev
        /\ s2.head = [s.head EXCEPT ![l] = [s.head[l] EXCEPT !.first = e]]
    BY <2>1, <1>0, <1>1, SetFirstHead
  <2> HIDE DEF s2
  <2>3. s3 \in StoreType /\ s3.prev = s1.prev /\ s3.next = s.next
        /\ s3.head = [s2.head EXCEPT ![l] = [s2.head[l] EXCEPT !.last = e]]
    <3>1. s2 \in StoreType /\ l \in Lists /\ e \in Link
      BY <2>2, <1>b
    <3>2. /\ SetLast(s2, l, e) \in StoreType /\ SetLast(s2, l, e).next = s2.next /\ SetLast(s2, l, e).prev = s2.prev
          /\ SetLast(s2, l, e).head = [s2.head EXCEPT ![l] = [s2.head[l] EXCEPT !.last = e]]
      BY <3>1, SetLastHead
    <3> QED BY <3>2, <2>2
  <2> HIDE DEF s3
  <2>4. s4 \in StoreType /\ s4.prev = s1.prev /\ s4.head = s3.head
        /\ s4.next = [s3.next EXCEPT ![e] = NULL]
    <3>1. s3 \in StoreType /\ e \in Elements /\ NULL \in Link
      BY <2>3, <1>0
    <3>2. /\ SetNext(s3, e, NULL) \in StoreType /\ SetNext(s3, e, NULL).head = s3.head
          /\ SetNext(s3, e, NULL).prev = s3.prev /\ SetNext(s3, e, NULL).next = [s3.next EXCEPT ![e] = NULL]
      BY <3>1, SetNextLinks
    <3> QED BY <3>2, <2>3
  <2> HIDE DEF s4
  <2>5. t \in StoreType /\ t.prev = s1.prev /\ t.next = s4.next
        /\ t.head = [s4.head EXCEPT ![l] = [s4.head[l] EXCEPT !.size = @ + 1]]
    <3>1. s4 \in StoreType /\ l \in Lists /\ 1 \in Int
      BY <2>4, <1>b
    <3>2. /\ Grow(s4, l, 1) \in StoreType /\ Grow(s4, l, 1).next = s4.next /\ Grow(s4, l, 1).prev = s4.prev
          /\ Grow(s4, l, 1).head = [s4.head EXCEPT ![l] = [s4.head[l] EXCEPT !.size = @ + 1]]
      BY <3>1, GrowHead
    <3> QED BY <3>2, <2>4
  <2> HIDE DEF t
  <2>6. Linked(s, t, l, q, Len(q) + 1, e)
    BY <2>2, <2>3, <2>4, <2>5, <1>0, <1>1, <1>4, ListedFacts DEF Linked, Heads
  <2> QED BY <2>6 DEF LIST_INSERT_TAIL, t, s4, s3, s2, s1
<1> QED BY <1>3, <1>4

LEMMA InsertAfterLinks ==
  ASSUME NEW s, NEW l, NEW q, Listed(s, l, q),
         NEW e \in Elements, \A i \in 1..Len(q) : q[i] # e, NEW p \in 1..Len(q)
  PROVE  Linked(s, LIST_INSERT_AFTER(s, l, q[p], e), l, q, p + 1, e)
<1> DEFINE at == q[p]
           n  == IF p = Len(q) THEN NULL ELSE q[p + 1]
           s1 == SetNext(s, e, LIST_NEXT(s, at))
           s2 == IF LIST_NEXT(s1, e) # NULL THEN SetPrev(s1, LIST_NEXT(s1, at), e) ELSE s1
           s3 == SetNext(s2, at, e)
           s4 == SetPrev(s3, e, at)
           s5 == IF LIST_NEXT(s4, e) = NULL THEN SetLast(s4, l, e) ELSE s4
           t  == Grow(s5, l, 1)
<1>0. /\ s \in StoreType /\ l \in Lists /\ e \in Link /\ Elements \subseteq Link
      /\ at \in Elements /\ at # e /\ n \in Link /\ n # e /\ LIST_NEXT(s, at) = n
      /\ (n # NULL <=> p < Len(q)) /\ (n # NULL => n \in Elements)
      /\ s.next \in [Elements -> Link] /\ s.prev \in [Elements -> Link]
      /\ s.head \in [Lists -> Heads] /\ s.head[l] \in Heads
  <2>1. s \in StoreType /\ l \in Lists /\ e \in Link /\ Elements \subseteq Link
    BY DEF Listed, Link
  <2>2. /\ at \in Elements /\ n \in Link /\ LIST_NEXT(s, at) = n
        /\ (n # NULL <=> p < Len(q)) /\ (n # NULL => n \in Elements)
    BY Neighbours
  <2>3. at # e
    OBVIOUS
  <2>4. n # e
    BY ListedFacts, ListConstants
  <2>5. /\ s.next \in [Elements -> Link] /\ s.prev \in [Elements -> Link]
        /\ s.head \in [Lists -> Heads] /\ s.head[l] \in Heads
    BY ListedFacts
  <2> HIDE DEF at, n
  <2> QED BY <2>1, <2>2, <2>3, <2>4, <2>5
<1>a. at = q[p] /\ Len(q) \in Nat /\ (p = Len(q) => n = NULL) /\ (p # Len(q) => n = q[p + 1])
  BY ListedFacts
<1> HIDE DEF n, at
<1>b. s \in StoreType /\ l \in Lists /\ e \in Link /\ 1 \in Int
  BY <1>0
<1>1. s1 \in StoreType /\ s1.head = s.head /\ s1.prev = s.prev /\ s1.next = [s.next EXCEPT ![e] = n]
  BY <1>0, SetNextLinks
<1>2. LIST_NEXT(s1, e) = n /\ LIST_NEXT(s1, at) = n
  BY <1>0, <1>1 DEF LIST_NEXT
<1> HIDE DEF s1
<1>3. /\ s2 \in StoreType /\ s2.head = s.head /\ s2.next = s1.next
      /\ s2.prev = IF n # NULL THEN [s.prev EXCEPT ![n] = e] ELSE s.prev
  <2>1. CASE n # NULL
    <3>1. s2 = SetPrev(s1, n, e)
      BY <1>2, <2>1
    <3> QED BY <3>1, <2>1, <1>0, <1>1, SetPrevLinks
  <2>2. CASE n = NULL
    BY <2>2, <1>1, <1>2
  <2> QED BY <2>1, <2>2
<1> HIDE DEF s2
<1>4. /\ s3 \in StoreType /\ s3.head = s.head /\ s3.prev = s2.prev
      /\ s3.next = [s1.next EXCEPT ![at] = e]
  BY <1>0, <1>3, SetNextLinks
<1> HIDE DEF s3
<1>5. /\ s4 \in StoreType /\ s4.head = s.head /\ s4.next = s3.next
      /\ s4.prev = [s2.prev EXCEPT ![e] = at]
  BY <1>0, <1>4, SetPrevLinks
<1>6. LIST_NEXT(s4, e) = n
  BY <1>0, <1>1, <1>4, <1>5 DEF LIST_NEXT
<1> HIDE DEF s4
<1>7. /\ s5 \in StoreType /\ s5.next = s4.next /\ s5.prev = s4.prev
      /\ n # NULL => s5.head = s.head
      /\ n = NULL => s5.head = [s.head EXCEPT ![l] = [s.head[l] EXCEPT !.last = e]]
  <2>1. CASE n # NULL
    BY <2>1, <1>5, <1>6
  <2>2. CASE n = NULL
    <3>1. s5 = SetLast(s4, l, e)
      BY <2>2, <1>6
    <3> QED BY <3>1, <2>2, <1>0, <1>5, SetLastHead
  <2> QED BY <2>1, <2>2
<1> HIDE DEF s5
<1>8. /\ t \in StoreType /\ t.next = s4.next /\ t.prev = s4.prev
      /\ t.head = [s5.head EXCEPT ![l] = [s5.head[l] EXCEPT !.size = @ + 1]]
  BY <1>b, <1>7, GrowHead
<1> HIDE DEF t
<1>9. Linked(s, t, l, q, p + 1, e)
  <2>1. \A x \in Elements :
          t.next[x] = IF x = e THEN IF p + 1 = Len(q) + 1 THEN NULL ELSE q[p + 1]
                      ELSE IF p + 1 > 1 /\ x = q[(p + 1) - 1] THEN e ELSE s.next[x]
    BY <1>0, <1>a, <1>1, <1>4, <1>5, <1>8
  <2>2. \A x \in Elements :
          t.prev[x] = IF x = e THEN IF p + 1 = 1 THEN NULL ELSE q[(p + 1) - 1]
                      ELSE IF p + 1 <= Len(q) /\ x = q[p + 1] THEN e ELSE s.prev[x]
    BY <1>0, <1>a, <1>3, <1>5, <1>8
  <2>3. /\ t.head[l].first = s.head[l].first
        /\ t.head[l].last = IF p + 1 = Len(q) + 1 THEN e ELSE s.head[l].last
        /\ t.head[l].size = s.head[l].size + 1
        /\ \A k \in Lists \ {l} : t.head[k] = s.head[k]
    <3>1. s5.head \in [Lists -> Heads]
      BY <1>7 DEF StoreType
    <3>2. /\ t.head[l] = [s5.head[l] EXCEPT !.size = @ + 1]
          /\ \A k \in Lists \ {l} : t.head[k] = s5.head[k]
      BY <3>1, <1>8, <1>b
    <3>3. \A k \in Lists \ {l} : s5.head[k] = s.head[k]
      BY <1>7, <1>0
    <3>4. /\ s5.head[l].first = s.head[l].first /\ s5.head[l].size = s.head[l].size
          /\ s5.head[l].last = IF n = NULL THEN e ELSE s.head[l].last
      BY <1>7, <1>0 DEF Heads
    <3>5. s5.head[l] \in Heads
      BY <3>1, <1>b
    <3>6. n = NULL <=> p + 1 = Len(q) + 1
      BY <1>0, <1>a
    <3> QED BY <3>2, <3>3, <3>4, <3>5, <3>6 DEF Heads
  <2> QED BY <1>8, <2>1, <2>2, <2>3 DEF Linked
<1> QED BY <1>9, <1>a DEF LIST_INSERT_AFTER, t, s5, s4, s3, s2, s1

LEMMA InsertBeforeLinks ==
  ASSUME NEW s, NEW l, NEW q, Listed(s, l, q),
         NEW e \in Elements, \A i \in 1..Len(q) : q[i] # e, NEW p \in 1..Len(q)
  PROVE  Linked(s, LIST_INSERT_BEFORE(s, l, q[p], e), l, q, p, e)
<1> DEFINE at == q[p]
           b  == IF p = 1 THEN NULL ELSE q[p - 1]
           s1 == SetPrev(s, e, LIST_PREV(s, at))
           s2 == SetNext(s1, e, at)
           s3 == IF LIST_PREV(s2, at) # NULL THEN SetNext(s2, LIST_PREV(s2, at), e)
                                             ELSE SetFirst(s2, l, e)
           s4 == SetPrev(s3, at, e)
           t  == Grow(s4, l, 1)
<1>0. /\ s \in StoreType /\ l \in Lists /\ e \in Link /\ Elements \subseteq Link
      /\ at \in Elements /\ at # e /\ b \in Link /\ b # e /\ LIST_PREV(s, at) = b
      /\ (b # NULL <=> p > 1) /\ (b # NULL => b \in Elements)
      /\ s.next \in [Elements -> Link] /\ s.prev \in [Elements -> Link]
      /\ s.head \in [Lists -> Heads] /\ s.head[l] \in Heads
  <2>1. s \in StoreType /\ l \in Lists /\ e \in Link /\ Elements \subseteq Link
    BY DEF Listed, Link
  <2>2. /\ at \in Elements /\ b \in Link /\ LIST_PREV(s, at) = b
        /\ (b # NULL <=> p > 1) /\ (b # NULL => b \in Elements)
    BY Neighbours
  <2>3. at # e
    OBVIOUS
  <2>4. b # e
    BY ListedFacts, ListConstants
  <2>5. /\ s.next \in [Elements -> Link] /\ s.prev \in [Elements -> Link]
        /\ s.head \in [Lists -> Heads] /\ s.head[l] \in Heads
    BY ListedFacts
  <2> HIDE DEF at, b
  <2> QED BY <2>1, <2>2, <2>3, <2>4, <2>5
<1>a. at = q[p] /\ Len(q) \in Nat /\ (p = 1 => b = NULL) /\ (p # 1 => b = q[p - 1])
  BY ListedFacts
<1> HIDE DEF b, at
<1>b. s \in StoreType /\ l \in Lists /\ e \in Link /\ 1 \in Int
  BY <1>0
<1>1. s1 \in StoreType /\ s1.head = s.head /\ s1.next = s.next /\ s1.prev = [s.prev EXCEPT ![e] = b]
  BY <1>0, SetPrevLinks
<1> HIDE DEF s1
<1>2. s2 \in StoreType /\ s2.head = s.head /\ s2.prev = s1.prev /\ s2.next = [s.next EXCEPT ![e] = at]
  BY <1>0, <1>1, SetNextLinks
<1>3. LIST_PREV(s2, at) = b
  BY <1>0, <1>1, <1>2 DEF LIST_PREV
<1> HIDE DEF s2
<1>4. /\ s3 \in StoreType /\ s3.prev = s1.prev
      /\ b # NULL => s3.head = s.head /\ s3.next = [s2.next EXCEPT ![b] = e]
      /\ b = NULL => /\ s3.next = s2.next
                     /\ s3.head = [s.head EXCEPT ![l] = [s.head[l] EXCEPT !.first = e]]
  <2>1. CASE b # NULL
    <3>1. s3 = SetNext(s2, b, e)
      BY <1>3, <2>1
    <3>2. b \in Elements
      BY <1>0, <2>1
    <3>3. /\ s3 \in StoreType /\ s3.head = s2.head /\ s3.prev = s2.prev
          /\ s3.next = [s2.next EXCEPT ![b] = e]
      BY <3>1, <3>2, <1>b, <1>2, SetNextLinks
    <3> QED BY <3>3, <2>1, <1>2
  <2>2. CASE b = NULL
    <3>1. s3 = SetFirst(s2, l, e)
      BY <1>3, <2>2
    <3> QED BY <3>1, <2>2, <1>0, <1>2, SetFirstHead
  <2> QED BY <2>1, <2>2
<1> HIDE DEF s3
<1>5. /\ s4 \in StoreType /\ s4.head = s3.head /\ s4.next = s3.next
      /\ s4.prev = [s1.prev EXCEPT ![at] = e]
  BY <1>0, <1>4, SetPrevLinks
<1> HIDE DEF s4
<1>6. /\ t \in StoreType /\ t.next = s3.next /\ t.prev = s4.prev
      /\ t.head = [s3.head EXCEPT ![l] = [s3.head[l] EXCEPT !.size = @ + 1]]
  <2>1. /\ t \in StoreType /\ t.next = s4.next /\ t.prev = s4.prev
        /\ t.head = [s4.head EXCEPT ![l] = [s4.head[l] EXCEPT !.size = @ + 1]]
    <3>1. s4 \in StoreType /\ l \in Lists /\ 1 \in Int
      BY <1>b, <1>5
    <3> QED BY <3>1, GrowHead
  <2> QED BY <2>1, <1>5
<1> HIDE DEF t
<1>7. Linked(s, t, l, q, p, e)
  <2>1. \A x \in Elements :
          t.next[x] = IF x = e THEN IF p = Len(q) + 1 THEN NULL ELSE q[p]
                      ELSE IF p > 1 /\ x = q[p - 1] THEN e ELSE s.next[x]
    BY <1>0, <1>a, <1>2, <1>4, <1>6
  <2>2. \A x \in Elements :
          t.prev[x] = IF x = e THEN IF p = 1 THEN NULL ELSE q[p - 1]
                      ELSE IF p <= Len(q) /\ x = q[p] THEN e ELSE s.prev[x]
    BY <1>0, <1>a, <1>1, <1>5, <1>6
  <2>3. /\ t.head[l].first = IF p = 1 THEN e ELSE s.head[l].first
        /\ t.head[l].last = IF p = Len(q) + 1 THEN e ELSE s.head[l].last
        /\ t.head[l].size = s.head[l].size + 1
        /\ \A k \in Lists \ {l} : t.head[k] = s.head[k]
    <3>1. s3.head \in [Lists -> Heads]
      BY <1>4 DEF StoreType
    <3>2. /\ s3.head[l].first = IF p = 1 THEN e ELSE s.head[l].first
          /\ s3.head[l].last = s.head[l].last /\ s3.head[l].size = s.head[l].size
          /\ \A k \in Lists \ {l} : s3.head[k] = s.head[k]
      <4>1. p = 1 <=> b = NULL
        BY <1>0, <1>a
      <4>2. CASE b # NULL
        BY <4>1, <4>2, <1>4
      <4>3. CASE b = NULL
        BY <4>1, <4>3, <1>0, <1>4 DEF Heads
      <4> QED BY <4>2, <4>3
    <3>3. /\ t.head[l] = [s3.head[l] EXCEPT !.size = @ + 1]
          /\ \A k \in Lists \ {l} : t.head[k] = s3.head[k]
      BY <3>1, <1>0, <1>6
    <3>4. s3.head[l] \in Heads
      BY <3>1, <1>0
    <3>5. /\ t.head[l].first = s3.head[l].first /\ t.head[l].last = s3.head[l].last
          /\ t.head[l].size = s3.head[l].size + 1
      BY <3>3, <3>4 DEF Heads
    <3>6. p # Len(q) + 1
      BY <1>a
    <3> QED BY <3>2, <3>3, <3>5, <3>6
  <2> QED BY <1>6, <2>1, <2>2, <2>3 DEF Linked
<1> QED BY <1>7, <1>a DEF LIST_INSERT_BEFORE, t, s4, s3, s2, s1

\* Store t is s with the element at position p of the list l unlinked.
Unlinked(s, t, l, q, p) ==
  LET n == IF p = Len(q) THEN NULL ELSE q[p + 1]
      b == IF p = 1 THEN NULL ELSE q[p - 1]
  IN  /\ t \in StoreType
      /\ \A x \in Elements :
           t.next[x] = IF x = q[p] THEN NULL ELSE IF p > 1 /\ x = q[p - 1] THEN n ELSE s.next[x]
      /\ \A x \in Elements :
           t.prev[x] = IF x = q[p] THEN NULL
                       ELSE IF p < Len(q) /\ x = q[p + 1] THEN b ELSE s.prev[x]
      /\ t.head[l].first = IF p = 1 THEN n ELSE s.head[l].first
      /\ t.head[l].last = IF p = Len(q) THEN b ELSE s.head[l].last
      /\ t.head[l].size = s.head[l].size - 1
      /\ \A k \in Lists \ {l} : t.head[k] = s.head[k]

LEMMA RemoveLinks ==
  ASSUME NEW s, NEW l, NEW q, Listed(s, l, q), NEW p \in 1..Len(q)
  PROVE  Unlinked(s, LIST_REMOVE(s, l, q[p]), l, q, p)
<1> DEFINE e  == q[p]
           n  == IF p = Len(q) THEN NULL ELSE q[p + 1]
           b  == IF p = 1 THEN NULL ELSE q[p - 1]
           s1 == IF n # NULL THEN SetPrev(s, n, b) ELSE SetLast(s, l, b)
           s2 == IF b # NULL THEN SetNext(s1, b, n) ELSE SetFirst(s1, l, n)
           s3 == SetNext(s2, e, NULL)
           s4 == SetPrev(s3, e, NULL)
           t  == [s4 EXCEPT !.head[l].size = @ - 1]
<1>0. /\ s \in StoreType /\ l \in Lists /\ e \in Elements /\ NULL \in Link /\ n \in Link /\ b \in Link
      /\ LIST_NEXT(s, e) = n /\ LIST_PREV(s, e) = b
  <2>1. s \in StoreType /\ l \in Lists /\ NULL \in Link
    BY DEF Listed, Link
  <2> QED BY <2>1, Neighbours
<1>1. /\ (n # NULL <=> p < Len(q)) /\ (n # NULL => n \in Elements)
      /\ (b # NULL <=> p > 1) /\ (b # NULL => b \in Elements)
      /\ n # e /\ b # e
  BY Neighbours
<1>2. /\ s.next \in [Elements -> Link] /\ s.prev \in [Elements -> Link]
      /\ s.head \in [Lists -> Heads] /\ s.head[l] \in Heads
  BY ListedFacts
<1>3. /\ e = q[p] /\ (p # Len(q) => n = q[p + 1]) /\ (p # 1 => b = q[p - 1])
      /\ (p = Len(q) <=> n = NULL) /\ (p = 1 <=> b = NULL) /\ Len(q) \in Nat
  BY <1>1, ListedFacts
<1>4. t = LIST_REMOVE(s, l, q[p])
  BY <1>0 DEF LIST_REMOVE
<1>5. Unlinked(s, t, l, q, p) <=>
        /\ t \in StoreType
        /\ \A x \in Elements :
             t.next[x] = IF x = e THEN NULL ELSE IF b # NULL /\ x = b THEN n ELSE s.next[x]
        /\ \A x \in Elements :
             t.prev[x] = IF x = e THEN NULL ELSE IF n # NULL /\ x = n THEN b ELSE s.prev[x]
        /\ t.head[l].first = IF b = NULL THEN n ELSE s.head[l].first
        /\ t.head[l].last = IF n = NULL THEN b ELSE s.head[l].last
        /\ t.head[l].size = s.head[l].size - 1
        /\ \A k \in Lists \ {l} : t.head[k] = s.head[k]
  <2> HIDE DEF t
  <2> QED BY <1>3 DEF Unlinked
<1> HIDE DEF e, n, b
<1>6. /\ s1 \in StoreType /\ s1.next = s.next
      /\ n # NULL => s1.head = s.head /\ s1.prev = [s.prev EXCEPT ![n] = b]
      /\ n = NULL => /\ s1.prev = s.prev
                     /\ s1.head = [s.head EXCEPT ![l] = [s.head[l] EXCEPT !.last = b]]
  <2>1. CASE n # NULL
    <3>1. s1 = SetPrev(s, n, b) /\ n \in Elements
      BY <2>1, <1>1
    <3>2. s1 \in StoreType /\ s1.head = s.head /\ s1.next = s.next /\ s1.prev = [s.prev EXCEPT ![n] = b]
      BY <3>1, <1>0, SetPrevLinks
    <3> QED BY <3>2, <2>1
  <2>2. CASE n = NULL
    <3>1. s1 = SetLast(s, l, b)
      BY <2>2
    <3> QED BY <3>1, <2>2, <1>0, SetLastHead
  <2> QED BY <2>1, <2>2
<1> HIDE DEF s1
<1>7. /\ s2 \in StoreType /\ s2.prev = s1.prev
      /\ b # NULL => s2.head = s1.head /\ s2.next = [s.next EXCEPT ![b] = n]
      /\ b = NULL => /\ s2.next = s.next
                     /\ s2.head = [s1.head EXCEPT ![l] = [s1.head[l] EXCEPT !.first = n]]
  <2>1. CASE b # NULL
    <3>1. s2 = SetNext(s1, b, n) /\ b \in Elements
      BY <2>1, <1>1
    <3>2. s2 \in StoreType /\ s2.head = s1.head /\ s2.prev = s1.prev /\ s2.next = [s1.next EXCEPT ![b] = n]
      BY <3>1, <1>0, <1>6, SetNextLinks
    <3> QED BY <3>2, <2>1, <1>6
  <2>2. CASE b = NULL
    <3>1. s2 = SetFirst(s1, l, n)
      BY <2>2
    <3>2. s1 \in StoreType /\ l \in Lists /\ n \in Link
      BY <1>0, <1>6
    <3>3. s2 \in StoreType /\ s2.next = s1.next /\ s2.prev = s1.prev
          /\ s2.head = [s1.head EXCEPT ![l] = [s1.head[l] EXCEPT !.first = n]]
      BY <3>1, <3>2, SetFirstHead
    <3> QED BY <3>3, <2>2, <1>6
  <2> QED BY <2>1, <2>2
<1> HIDE DEF s2
<1>8. s3 \in StoreType /\ s3.head = s2.head /\ s3.prev = s1.prev /\ s3.next = [s2.next EXCEPT ![e] = NULL]
  BY <1>0, <1>7, SetNextLinks
<1> HIDE DEF s3
<1>9. s4 \in StoreType /\ s4.head = s2.head /\ s4.next = s3.next /\ s4.prev = [s1.prev EXCEPT ![e] = NULL]
  BY <1>0, <1>8, SetPrevLinks
<1> HIDE DEF s4
<1>10. /\ t \in StoreType /\ t.next = s3.next /\ t.prev = s4.prev
       /\ t.head = [s4.head EXCEPT ![l] = [s4.head[l] EXCEPT !.size = @ - 1]]
  <2>1. s4.head[l] \in Heads /\ s4 \in StoreType /\ l \in Lists
    BY <1>0, <1>9 DEF StoreType
  <2>2. [s4.head[l] EXCEPT !.size = @ - 1] \in Heads
    BY <2>1 DEF Heads
  <2>3. t = [s4 EXCEPT !.head[l] = [s4.head[l] EXCEPT !.size = @ - 1]]
    BY <2>1 DEF StoreType
  <2> HIDE DEF t
  <2>4. /\ t \in StoreType /\ t.next = s4.next /\ t.prev = s4.prev
        /\ t.head = [s4.head EXCEPT ![l] = [s4.head[l] EXCEPT !.size = @ - 1]]
    BY <2>1, <2>2, <2>3, SetHead
  <2> QED BY <2>4, <1>9
<1> HIDE DEF t
<1>11. \A x \in Elements :
         t.next[x] = IF x = e THEN NULL ELSE IF b # NULL /\ x = b THEN n ELSE s.next[x]
  BY <1>0, <1>1, <1>2, <1>7, <1>8, <1>10
<1>12. \A x \in Elements :
         t.prev[x] = IF x = e THEN NULL ELSE IF n # NULL /\ x = n THEN b ELSE s.prev[x]
  BY <1>0, <1>1, <1>2, <1>6, <1>9, <1>10
<1>13. /\ t.head[l].first = IF b = NULL THEN n ELSE s.head[l].first
       /\ t.head[l].last = IF n = NULL THEN b ELSE s.head[l].last
       /\ t.head[l].size = s.head[l].size - 1
       /\ \A k \in Lists \ {l} : t.head[k] = s.head[k]
  <2>1. s1.head \in [Lists -> Heads] /\ s2.head \in [Lists -> Heads] /\ s4.head = s2.head
    BY <1>6, <1>7, <1>9 DEF StoreType
  <2>2. /\ s1.head[l] \in Heads /\ s1.head[l].first = s.head[l].first
        /\ s1.head[l].size = s.head[l].size
        /\ s1.head[l].last = IF n = NULL THEN b ELSE s.head[l].last
        /\ \A k \in Lists \ {l} : s1.head[k] = s.head[k]
    <3>1. s1.head[l] \in Heads
      BY <2>1, <1>0
    <3>2. CASE n = NULL
      BY <3>1, <3>2, <1>0, <1>2, <1>6 DEF Heads
    <3>3. CASE n # NULL
      BY <3>1, <3>3, <1>6
    <3> QED BY <3>2, <3>3
  <2>3. /\ s2.head[l] \in Heads /\ s2.head[l].last = s1.head[l].last
        /\ s2.head[l].size = s1.head[l].size
        /\ s2.head[l].first = IF b = NULL THEN n ELSE s1.head[l].first
        /\ \A k \in Lists \ {l} : s2.head[k] = s1.head[k]
    BY <2>1, <2>2, <1>0, <1>7 DEF Heads
  <2>4. /\ t.head[l] = [s2.head[l] EXCEPT !.size = @ - 1]
        /\ \A k \in Lists \ {l} : t.head[k] = s2.head[k]
    BY <2>1, <1>0, <1>10
  <2>5. /\ t.head[l].last = s2.head[l].last /\ t.head[l].first = s2.head[l].first
        /\ t.head[l].size = s2.head[l].size - 1
    BY <2>3, <2>4 DEF Heads
  <2> QED BY <2>2, <2>3, <2>4, <2>5
<1> QED BY <1>4, <1>5, <1>10, <1>11, <1>12, <1>13

-----------------------------------------------------------------------------
(* The effects on the sequences. *)

\* The sequence r is q with e inserted at position p.
Inserted(r, q, p, e) ==
  /\ r \in Seq(Elements) /\ Len(r) = Len(q) + 1
  /\ \A i \in 1..Len(r) : r[i] = IF i < p THEN q[i] ELSE IF i = p THEN e ELSE q[i - 1]

\* The sequence r is q without the element at position p.
Removed(r, q, p) ==
  /\ r \in Seq(Elements) /\ Len(r) = Len(q) - 1
  /\ \A i \in 1..Len(r) : r[i] = IF i < p THEN q[i] ELSE q[i + 1]

LEMMA WellFormedFacts ==
  ASSUME NEW q, WellFormed(q), NEW l \in Lists
  PROVE  /\ q[l] \in Seq(Elements) /\ Len(q[l]) \in Nat /\ DOMAIN q[l] = 1..Len(q[l])
         /\ \A i \in 1..Len(q[l]) : q[l][i] \in Elements
         /\ \A i, j \in 1..Len(q[l]) : q[l][i] = q[l][j] => i = j
         /\ \A k \in Lists \ {l} : \A i \in 1..Len(q[l]), j \in 1..Len(q[k]) : q[l][i] # q[k][j]
<1>1. q[l] \in Seq(Elements)
  BY DEF WellFormed
<1>2. /\ Len(q[l]) \in Nat /\ DOMAIN q[l] = 1..Len(q[l])
      /\ \A i \in 1..Len(q[l]) : q[l][i] \in Elements
  BY <1>1
<1> QED BY <1>1, <1>2 DEF WellFormed

LEMMA RepresentsListed ==
  ASSUME NEW s, NEW q, WellFormed(q), Represents(s, q), NEW l \in Lists
  PROVE  Listed(s, l, q[l])
BY WellFormedFacts DEF Listed, Represents, HoldAll

\* A list is held whatever happens to the links of other elements.
LEMMA HoldsOther ==
  ASSUME NEW s, NEW t, NEW k, NEW q \in Seq(Elements),
         Holds(s, k, q), t.head[k] = s.head[k],
         \A i \in 1..Len(q) : t.next[q[i]] = s.next[q[i]] /\ t.prev[q[i]] = s.prev[q[i]]
  PROVE  Holds(t, k, q)
<1>1. DOMAIN q = 1..Len(q)
  OBVIOUS
<1> QED BY <1>1 DEF Holds, LIST_FIRST, LIST_LAST, LIST_NEXT, LIST_PREV

\* The definition of Holds by positions.
LEMMA HoldsByLinks ==
  ASSUME NEW t, NEW l, NEW r \in Seq(Elements),
         t.head[l].first = IF Len(r) = 0 THEN NULL ELSE r[1],
         t.head[l].last = IF Len(r) = 0 THEN NULL ELSE r[Len(r)],
         \A i \in 1..Len(r) : t.next[r[i]] = IF i = Len(r) THEN NULL ELSE r[i + 1],
         \A i \in 1..Len(r) : t.prev[r[i]] = IF i = 1 THEN NULL ELSE r[i - 1]
  PROVE  Holds(t, l, r)
<1>1. DOMAIN r = 1..Len(r) /\ (r = <<>> <=> Len(r) = 0)
  OBVIOUS
<1> QED BY <1>1 DEF Holds, LIST_FIRST, LIST_LAST, LIST_NEXT, LIST_PREV

LEMMA LinkedInserts ==
  ASSUME NEW s, NEW q, WellFormed(q), Represents(s, q), NEW l \in Lists,
         NEW e \in Elements, \A k \in Lists : \A i \in 1..Len(q[k]) : q[k][i] # e,
         NEW p \in 1..(Len(q[l]) + 1), NEW t, Linked(s, t, l, q[l], p, e),
         NEW r, Inserted(r, q[l], p, e)
  PROVE  HoldAll(t, [q EXCEPT ![l] = r])
<1> DEFINE n == Len(q[l])
<1>1. /\ n \in Nat /\ q \in [Lists -> Seq(Elements)] /\ p \in 1..(n + 1)
      /\ \A i \in 1..n : q[l][i] \in Elements /\ q[l][i] # e
      /\ \A i, j \in 1..n : q[l][i] = q[l][j] => i = j
  BY WellFormedFacts DEF WellFormed
<1>2. Listed(s, l, q[l])
  BY RepresentsListed
<1>3. /\ n # 0 => s.head[l].first = q[l][1] /\ s.head[l].last = q[l][n]
      /\ \A i \in 1..n : /\ s.next[q[l][i]] = IF i = n THEN NULL ELSE q[l][i + 1]
                         /\ s.prev[q[l][i]] = IF i = 1 THEN NULL ELSE q[l][i - 1]
  BY <1>2, ListedFacts
<1>4. /\ r \in Seq(Elements) /\ Len(r) = n + 1 /\ r[p] = e
      /\ \A i \in 1..(p - 1) : r[i] = q[l][i]
      /\ \A i \in (p + 1)..(n + 1) : r[i] = q[l][i - 1]
  <2>1. r \in Seq(Elements) /\ Len(r) = n + 1
    BY DEF Inserted
  <2>2. \A i \in 1..(n + 1) : r[i] = IF i < p THEN q[l][i] ELSE IF i = p THEN e ELSE q[l][i - 1]
    BY <2>1 DEF Inserted
  <2> HIDE DEF n
  <2>3. r[p] = e
    BY <2>2, <1>1
  <2>4. \A i \in 1..(p - 1) : r[i] = q[l][i]
    BY <2>2, <1>1
  <2>5. \A i \in (p + 1)..(n + 1) : r[i] = q[l][i - 1]
    BY <2>2, <1>1
  <2> QED BY <2>1, <2>3, <2>4, <2>5
<1>5. Holds(t, l, r)
  <2>1. t.head[l].first = r[1]
    BY <1>1, <1>3, <1>4 DEF Linked
  <2>2. t.head[l].last = r[n + 1]
    BY <1>1, <1>3, <1>4 DEF Linked
  <2>3. ASSUME NEW i \in 1..(n + 1) PROVE t.next[r[i]] = IF i = n + 1 THEN NULL ELSE r[i + 1]
    <3>1. CASE i < p - 1
      <4>1. r[i] = q[l][i] /\ r[i + 1] = q[l][i + 1] /\ i \in 1..n /\ i # n /\ i # p - 1
            /\ i # n + 1 /\ p - 1 \in 1..n
        <5>1. i \in 1..(p - 1) /\ i + 1 \in 1..(p - 1) /\ i \in 1..n /\ i # n /\ i # p - 1
              /\ i # n + 1 /\ p - 1 \in 1..n
          BY <3>1, <1>1
        <5> QED BY <5>1, <1>4
      <4>2. r[i] # e /\ r[i] # q[l][p - 1] /\ r[i] \in Elements
        BY <4>1, <1>1
      <4>3. t.next[r[i]] = s.next[r[i]]
        BY <4>2 DEF Linked
      <4> QED BY <4>1, <4>3, <1>3
    <3>2. CASE i = p - 1
      <4>1. r[i] = q[l][p - 1] /\ r[i] \in Elements /\ r[i] # e /\ p > 1 /\ i # n + 1 /\ i + 1 = p
        <5>1. i \in 1..(p - 1) /\ p - 1 \in 1..n /\ p > 1 /\ i # n + 1 /\ i + 1 = p
          BY <3>2, <1>1
        <5> QED BY <5>1, <3>2, <1>1, <1>4
      <4> QED BY <4>1, <1>4 DEF Linked
    <3>3. CASE i = p
      <4>1. t.next[e] = IF p = n + 1 THEN NULL ELSE q[l][p]
        BY DEF Linked
      <4>2. p # n + 1 => r[p + 1] = q[l][p]
        <5>1. p # n + 1 => p + 1 \in (p + 1)..(n + 1) /\ (p + 1) - 1 = p
          BY <1>1
        <5> QED BY <5>1, <1>4
      <4> QED BY <3>3, <4>1, <4>2, <1>4
    <3>4. CASE i > p
      <4>1. r[i] = q[l][i - 1] /\ i - 1 \in 1..n /\ (p > 1 => i - 1 # p - 1 /\ p - 1 \in 1..n)
            /\ (i - 1 = n <=> i = n + 1) /\ (i # n + 1 => r[i + 1] = q[l][i])
        <5> HIDE DEF n
        <5>1. /\ i \in (p + 1)..(n + 1) /\ i - 1 \in 1..n
              /\ (p > 1 => i - 1 # p - 1 /\ p - 1 \in 1..n) /\ (i - 1 = n <=> i = n + 1)
              /\ (i # n + 1 => i + 1 \in (p + 1)..(n + 1) /\ (i + 1) - 1 = i)
          BY <3>4, <1>1
        <5> QED BY <5>1, <1>4
      <4>2. r[i] # e /\ r[i] \in Elements /\ (p > 1 => r[i] # q[l][p - 1])
        BY <4>1, <1>1
      <4>3. t.next[r[i]] = s.next[r[i]]
        BY <4>2 DEF Linked
      <4>4. s.next[r[i]] = IF i - 1 = n THEN NULL ELSE q[l][(i - 1) + 1]
        BY <4>1, <1>3
      <4>5. (i - 1) + 1 = i
        OBVIOUS
      <4> QED BY <4>1, <4>3, <4>4, <4>5
    <3> QED BY <3>1, <3>2, <3>3, <3>4, <1>1
  <2>4. ASSUME NEW i \in 1..(n + 1) PROVE t.prev[r[i]] = IF i = 1 THEN NULL ELSE r[i - 1]
    <3>1. CASE i < p
      <4>1. r[i] = q[l][i] /\ (i # 1 => r[i - 1] = q[l][i - 1]) /\ i \in 1..n
            /\ (p <= n => i # p /\ p \in 1..n)
        BY <3>1, <1>1, <1>4
      <4>2. r[i] # e /\ r[i] \in Elements /\ (p <= n => r[i] # q[l][p])
        BY <4>1, <1>1
      <4>3. t.prev[r[i]] = s.prev[r[i]]
        BY <4>2 DEF Linked
      <4> QED BY <4>1, <4>3, <1>3
    <3>2. CASE i = p
      <4>1. t.prev[e] = IF p = 1 THEN NULL ELSE q[l][p - 1]
        BY DEF Linked
      <4>2. p # 1 => r[p - 1] = q[l][p - 1]
        <5>1. p # 1 => p - 1 \in 1..(p - 1)
          BY <1>1
        <5> QED BY <5>1, <1>4
      <4> QED BY <3>2, <4>1, <4>2, <1>4
    <3>3. CASE i = p + 1
      <4>1. r[i] = q[l][p] /\ p <= n /\ r[i] \in Elements /\ r[i] # e /\ i # 1 /\ i - 1 = p
        <5>1. i \in (p + 1)..(n + 1) /\ i - 1 = p /\ p \in 1..n /\ p <= n /\ i # 1
          BY <3>3, <1>1
        <5> QED BY <5>1, <1>1, <1>4
      <4> QED BY <4>1, <1>4 DEF Linked
    <3>4. CASE i > p + 1
      <4>1. r[i] = q[l][i - 1] /\ r[i - 1] = q[l][(i - 1) - 1] /\ i - 1 \in 1..n /\ i - 1 # 1
            /\ i # 1 /\ i - 1 # p /\ p \in 1..n
        <5>1. /\ i \in (p + 1)..(n + 1) /\ i - 1 \in (p + 1)..(n + 1)
              /\ i - 1 \in 1..n /\ i - 1 # 1 /\ i # 1 /\ i - 1 # p /\ p \in 1..n
          BY <3>4, <1>1
        <5> QED BY <5>1, <1>4
      <4>2. r[i] # e /\ r[i] \in Elements /\ r[i] # q[l][p]
        BY <4>1, <1>1
      <4>3. t.prev[r[i]] = s.prev[r[i]]
        BY <4>2 DEF Linked
      <4> QED BY <4>1, <4>3, <1>3
    <3> QED BY <3>1, <3>2, <3>3, <3>4, <1>1
  <2>5. Len(r) # 0
    BY <1>1, <1>4
  <2> HIDE DEF n
  <2> QED BY <2>1, <2>2, <2>3, <2>4, <2>5, <1>4, HoldsByLinks
<1>6. LIST_SIZE(t, l) = Len(r)
  BY <1>4 DEF Linked, Represents, HoldAll, LIST_SIZE
<1>7. ASSUME NEW k \in Lists \ {l} PROVE Holds(t, k, q[k]) /\ LIST_SIZE(t, k) = Len(q[k])
  <2>1. t.head[k] = s.head[k] /\ Holds(s, k, q[k]) /\ LIST_SIZE(s, k) = Len(q[k])
    BY DEF Linked, Represents, HoldAll
  <2>2. ASSUME NEW i \in 1..Len(q[k])
        PROVE  t.next[q[k][i]] = s.next[q[k][i]] /\ t.prev[q[k][i]] = s.prev[q[k][i]]
    <3>1. q[k][i] \in Elements /\ q[k][i] # e /\ \A j \in 1..n : q[k][i] # q[l][j]
      BY WellFormedFacts
    <3>2. (p > 1 => p - 1 \in 1..n) /\ (p <= n => p \in 1..n)
      BY <1>1
    <3> QED BY <3>1, <3>2 DEF Linked
  <2>3. Holds(t, k, q[k])
    BY <2>1, <2>2, <1>1, HoldsOther
  <2> QED BY <2>1, <2>3 DEF LIST_SIZE
<1> QED BY <1>1, <1>5, <1>6, <1>7 DEF HoldAll

LEMMA UnlinkedRemoves ==
  ASSUME NEW s, NEW q, WellFormed(q), Represents(s, q), NEW l \in Lists,
         NEW p \in 1..Len(q[l]), NEW t, Unlinked(s, t, l, q[l], p),
         NEW r, Removed(r, q[l], p)
  PROVE  WellFormed([q EXCEPT ![l] = r]) /\ Represents(t, [q EXCEPT ![l] = r])
<1> DEFINE n == Len(q[l])
           q2 == [q EXCEPT ![l] = r]
           after == IF p = n THEN NULL ELSE q[l][p + 1]
           before == IF p = 1 THEN NULL ELSE q[l][p - 1]
<1>1. /\ n \in Nat /\ q \in [Lists -> Seq(Elements)] /\ p \in 1..n
      /\ \A i \in 1..n : q[l][i] \in Elements
      /\ \A i, j \in 1..n : q[l][i] = q[l][j] => i = j
  BY WellFormedFacts DEF WellFormed
<1>2. Listed(s, l, q[l])
  BY RepresentsListed
<1>3. /\ s.head[l].first = q[l][1] /\ s.head[l].last = q[l][n]
      /\ \A i \in 1..n : /\ s.next[q[l][i]] = IF i = n THEN NULL ELSE q[l][i + 1]
                         /\ s.prev[q[l][i]] = IF i = 1 THEN NULL ELSE q[l][i - 1]
  BY <1>1, <1>2, ListedFacts
<1>4. /\ r \in Seq(Elements) /\ Len(r) = n - 1
      /\ \A i \in 1..(p - 1) : r[i] = q[l][i]
      /\ \A i \in p..(n - 1) : r[i] = q[l][i + 1]
  <2>1. r \in Seq(Elements) /\ Len(r) = n - 1
    BY DEF Removed
  <2>2. \A i \in 1..(n - 1) : r[i] = IF i < p THEN q[l][i] ELSE q[l][i + 1]
    BY <2>1 DEF Removed
  <2> HIDE DEF n
  <2>3. \A i \in 1..(p - 1) : r[i] = q[l][i]
    BY <2>2, <1>1
  <2>4. \A i \in p..(n - 1) : r[i] = q[l][i + 1]
    BY <2>2, <1>1
  <2> QED BY <2>1, <2>3, <2>4
<1>5. /\ t \in StoreType
      /\ \A x \in Elements :
           t.next[x] = IF x = q[l][p] THEN NULL
                       ELSE IF p > 1 /\ x = q[l][p - 1] THEN after ELSE s.next[x]
      /\ \A x \in Elements :
           t.prev[x] = IF x = q[l][p] THEN NULL
                       ELSE IF p < n /\ x = q[l][p + 1] THEN before ELSE s.prev[x]
      /\ t.head[l].first = IF p = 1 THEN after ELSE s.head[l].first
      /\ t.head[l].last = IF p = n THEN before ELSE s.head[l].last
      /\ t.head[l].size = s.head[l].size - 1
      /\ \A k \in Lists \ {l} : t.head[k] = s.head[k]
  BY DEF Unlinked
\* Where the element i of r was in q.
<1> DEFINE was(i) == IF i < p THEN i ELSE i + 1
<1>6. \A i \in 1..(n - 1) : was(i) \in 1..n /\ was(i) # p /\ r[i] = q[l][was(i)]
  BY <1>1, <1>4
<1>7. Holds(t, l, r)
  <2>1. t.head[l].first = IF Len(r) = 0 THEN NULL ELSE r[1]
    <3>1. CASE p = 1 /\ n = 1
      BY <3>1, <1>1, <1>4, <1>5
    <3>2. CASE p = 1 /\ n # 1
      <4> HIDE DEF n
      <4>1. 1 \in p..(n - 1) /\ n - 1 # 0
        BY <3>2, <1>1
      <4> QED BY <4>1, <3>2, <1>4, <1>5
    <3>3. CASE p # 1
      <4>1. 1 \in 1..(p - 1) /\ n - 1 # 0
        BY <3>3, <1>1
      <4> QED BY <4>1, <3>3, <1>3, <1>4, <1>5
    <3> QED BY <3>1, <3>2, <3>3
  <2>2. t.head[l].last = IF Len(r) = 0 THEN NULL ELSE r[Len(r)]
    <3>1. CASE p = n /\ n = 1
      BY <3>1, <1>1, <1>4, <1>5
    <3>2. CASE p = n /\ n # 1
      <4> HIDE DEF n
      <4>1. n - 1 \in 1..(p - 1) /\ n - 1 # 0 /\ p # 1 /\ p - 1 = n - 1
        BY <3>2, <1>1
      <4> QED BY <4>1, <3>2, <1>4, <1>5
    <3>3. CASE p # n
      <4>1. n - 1 \in p..(n - 1) /\ n - 1 # 0 /\ (n - 1) + 1 = n
        BY <3>3, <1>1
      <4> QED BY <4>1, <3>3, <1>3, <1>4, <1>5
    <3> QED BY <3>1, <3>2, <3>3
  <2>3. ASSUME NEW i \in 1..(n - 1) PROVE t.next[r[i]] = IF i = n - 1 THEN NULL ELSE r[i + 1]
    <3>0. r[i] \in Elements /\ r[i] # q[l][p]
      BY <1>1, <1>6
    <3>1. CASE i = p - 1
      <4>1. r[i] = q[l][p - 1] /\ p > 1 /\ i \in 1..(p - 1)
        BY <3>1, <1>1, <1>4
      <4>2. t.next[r[i]] = after
        BY <4>1, <3>0, <1>5
      <4>3. (p = n <=> i = n - 1) /\ (p # n => p \in p..(n - 1)) /\ i + 1 = p
        BY <3>1, <1>1
      <4> QED BY <4>2, <4>3, <1>4
    <3>2. CASE i # p - 1
      <4>1. /\ was(i) \in 1..n /\ (p > 1 => was(i) # p - 1 /\ p - 1 \in 1..n)
            /\ r[i] = q[l][was(i)] /\ (was(i) = n <=> i = n - 1)
            /\ (i # n - 1 => was(i + 1) = was(i) + 1 /\ i + 1 \in 1..(n - 1))
        <5>1. was(i) \in 1..n /\ r[i] = q[l][was(i)]
          BY <1>6
        <5>2. /\ (p > 1 => was(i) # p - 1 /\ p - 1 \in 1..n) /\ (was(i) = n <=> i = n - 1)
              /\ (i # n - 1 => was(i + 1) = was(i) + 1 /\ i + 1 \in 1..(n - 1))
          BY <3>2, <1>1
        <5> QED BY <5>1, <5>2
      <4> HIDE DEF was
      <4>2. t.next[r[i]] = s.next[r[i]]
        BY <4>1, <3>0, <1>1, <1>5
      <4>3. s.next[r[i]] = IF was(i) = n THEN NULL ELSE q[l][was(i) + 1]
        BY <4>1, <1>3
      <4> QED BY <4>1, <4>2, <4>3, <1>6
    <3> QED BY <3>1, <3>2
  <2>4. ASSUME NEW i \in 1..(n - 1) PROVE t.prev[r[i]] = IF i = 1 THEN NULL ELSE r[i - 1]
    <3>0. r[i] \in Elements /\ r[i] # q[l][p]
      BY <1>1, <1>6
    <3>1. CASE i = p
      <4>1. r[i] = q[l][p + 1] /\ p < n /\ i \in p..(n - 1)
        BY <3>1, <1>1, <1>4
      <4>2. t.prev[r[i]] = before
        BY <4>1, <3>0, <1>5
      <4>3. p # 1 => p - 1 \in 1..(p - 1)
        BY <1>1
      <4> QED BY <3>1, <4>2, <4>3, <1>4
    <3>2. CASE i # p
      <4>1. /\ was(i) \in 1..n /\ (p < n => was(i) # p + 1 /\ p + 1 \in 1..n)
            /\ r[i] = q[l][was(i)] /\ (was(i) = 1 <=> i = 1)
            /\ (i # 1 => was(i - 1) = was(i) - 1 /\ i - 1 \in 1..(n - 1))
        <5>1. was(i) \in 1..n /\ r[i] = q[l][was(i)]
          BY <1>6
        <5>2. /\ (p < n => was(i) # p + 1 /\ p + 1 \in 1..n) /\ (was(i) = 1 <=> i = 1)
              /\ (i # 1 => was(i - 1) = was(i) - 1 /\ i - 1 \in 1..(n - 1))
          BY <3>2, <1>1
        <5> QED BY <5>1, <5>2
      <4> HIDE DEF was
      <4>2. t.prev[r[i]] = s.prev[r[i]]
        BY <4>1, <3>0, <1>1, <1>5
      <4>3. s.prev[r[i]] = IF was(i) = 1 THEN NULL ELSE q[l][was(i) - 1]
        BY <4>1, <1>3
      <4> QED BY <4>1, <4>2, <4>3, <1>6
    <3> QED BY <3>1, <3>2
  <2> HIDE DEF n
  <2> QED BY <2>1, <2>2, <2>3, <2>4, <1>4, HoldsByLinks
<1>8. LIST_SIZE(t, l) = Len(r)
  BY <1>4, <1>5 DEF Represents, HoldAll, LIST_SIZE
<1>9. ASSUME NEW k \in Lists \ {l} PROVE Holds(t, k, q[k]) /\ LIST_SIZE(t, k) = Len(q[k])
  <2>1. t.head[k] = s.head[k] /\ Holds(s, k, q[k]) /\ LIST_SIZE(s, k) = Len(q[k])
    BY <1>5 DEF Represents, HoldAll
  <2>2. ASSUME NEW i \in 1..Len(q[k])
        PROVE  t.next[q[k][i]] = s.next[q[k][i]] /\ t.prev[q[k][i]] = s.prev[q[k][i]]
    <3>1. q[k][i] \in Elements /\ \A j \in 1..n : q[k][i] # q[l][j]
      BY WellFormedFacts
    <3>2. (p > 1 => p - 1 \in 1..n) /\ (p < n => p + 1 \in 1..n)
      BY <1>1
    <3> QED BY <3>1, <3>2, <1>1, <1>5
  <2>3. Holds(t, k, q[k])
    BY <2>1, <2>2, <1>1, HoldsOther
  <2> QED BY <2>1, <2>3 DEF LIST_SIZE
<1>10. Represents(t, q2)
  BY <1>1, <1>5, <1>7, <1>8, <1>9 DEF Represents, HoldAll
<1>11. WellFormed(q2)
  <2>1. q2 \in [Lists -> Seq(Elements)]
    BY <1>1, <1>4
  <2>2. ASSUME NEW k \in Lists, NEW m \in Lists, NEW i \in 1..Len(q2[k]), NEW j \in 1..Len(q2[m]),
               q2[k][i] = q2[m][j]
        PROVE  k = m /\ i = j
    <3> DEFINE from(x, a) == IF x = l THEN was(a) ELSE a
    <3>1. from(k, i) \in 1..Len(q[k]) /\ q2[k][i] = q[k][from(k, i)]
      BY <1>1, <1>4, <1>6
    <3>2. from(m, j) \in 1..Len(q[m]) /\ q2[m][j] = q[m][from(m, j)]
      BY <1>1, <1>4, <1>6
    <3>3. k = m /\ from(k, i) = from(m, j)
      <4>1. q[k][from(k, i)] = q[m][from(m, j)]
        BY <3>1, <3>2, <2>2
      <4>2. \A a \in 1..Len(q[k]), b \in 1..Len(q[m]) : q[k][a] = q[m][b] => k = m /\ a = b
        BY DEF WellFormed
      <4> HIDE DEF from, q2
      <4> QED BY <3>1, <3>2, <4>1, <4>2
    <3>4. i \in Nat /\ j \in Nat
      OBVIOUS
    <3> QED BY <3>3, <3>4, <1>1
  <2> QED BY <2>1, <2>2 DEF WellFormed
<1> QED BY <1>10, <1>11

\* The store that a call begins with holds the sequences it was made from.
LEMMA StoreRepresents ==
  ASSUME NEW q, WellFormed(q), NEW stale \in Link
  PROVE  Represents(Store(q, stale), q)
<1> DEFINE in(e)  == \E l \in Lists : \E i \in DOMAIN q[l] : q[l][i] = e
           list(e) == CHOOSE l \in Lists : \E i \in DOMAIN q[l] : q[l][i] = e
           seq(e) == q[list(e)]
           pos(e) == CHOOSE i \in DOMAIN seq(e) : seq(e)[i] = e
           h == [l \in Lists |-> [first |-> IF q[l] = <<>> THEN NULL ELSE q[l][1],
                                  last  |-> IF q[l] = <<>> THEN NULL ELSE q[l][Len(q[l])],
                                  size  |-> Len(q[l])]]
           n == [e \in Elements |-> IF ~in(e) THEN stale
                                    ELSE IF pos(e) = Len(seq(e)) THEN NULL ELSE seq(e)[pos(e) + 1]]
           p == [e \in Elements |-> IF ~in(e) THEN stale
                                    ELSE IF pos(e) = 1 THEN NULL ELSE seq(e)[pos(e) - 1]]
           s == [head |-> h, next |-> n, prev |-> p]
<1>1. s = Store(q, stale)
  BY DEF Store
<1>2. ASSUME NEW l \in Lists, NEW i \in 1..Len(q[l])
      PROVE  /\ q[l][i] \in Elements /\ in(q[l][i])
             /\ seq(q[l][i]) = q[l] /\ pos(q[l][i]) = i
  <2> DEFINE e == q[l][i]
  <2>1. e \in Elements /\ DOMAIN q[l] = 1..Len(q[l])
    BY WellFormedFacts
  <2>2. in(e)
    BY <2>1
  <2>3. list(e) \in Lists /\ \E j \in DOMAIN q[list(e)] : q[list(e)][j] = e
    BY <2>2
  <2>4. list(e) = l
    <3> HIDE DEF list
    <3>1. DOMAIN q[list(e)] = 1..Len(q[list(e)])
      BY <2>3, WellFormedFacts
    <3>2. PICK j \in 1..Len(q[list(e)]) : q[list(e)][j] = e
      BY <2>3, <3>1
    <3> QED BY <2>3, <3>2 DEF WellFormed
  <2>5. seq(e) = q[l]
    BY <2>4
  <2> HIDE DEF seq
  <2>6. pos(e) \in 1..Len(q[l]) /\ q[l][pos(e)] = e
    BY <2>1, <2>5
  <2>7. pos(e) = i
    <3> HIDE DEF pos
    <3> QED BY <2>6, WellFormedFacts
  <2> QED BY <2>1, <2>2, <2>5, <2>7
<1>3. ASSUME NEW e \in Elements, in(e)
      PROVE  \E l \in Lists : \E i \in 1..Len(q[l]) : e = q[l][i]
  BY <1>3, WellFormedFacts
<1> HIDE DEF in, seq, pos
<1>4. ASSUME NEW l \in Lists, NEW i \in 1..Len(q[l])
      PROVE  /\ n[q[l][i]] = IF i = Len(q[l]) THEN NULL ELSE q[l][i + 1]
             /\ p[q[l][i]] = IF i = 1 THEN NULL ELSE q[l][i - 1]
  BY <1>2
<1>5. n \in [Elements -> Link] /\ p \in [Elements -> Link]
  <2>1. ASSUME NEW e \in Elements PROVE n[e] \in Link /\ p[e] \in Link
    <3>1. CASE ~in(e)
      BY <3>1
    <3>2. CASE in(e)
      <4>1. PICK l \in Lists : \E i \in 1..Len(q[l]) : e = q[l][i]
        BY <3>2, <1>3
      <4>2. PICK i \in 1..Len(q[l]) : e = q[l][i]
        BY <4>1
      <4>3. /\ n[e] = IF i = Len(q[l]) THEN NULL ELSE q[l][i + 1]
            /\ p[e] = IF i = 1 THEN NULL ELSE q[l][i - 1]
        BY <4>2, <1>4
      <4>4. /\ Len(q[l]) \in Nat /\ \A j \in 1..Len(q[l]) : q[l][j] \in Elements
        BY WellFormedFacts
      <4>5. (i # Len(q[l]) => i + 1 \in 1..Len(q[l])) /\ (i # 1 => i - 1 \in 1..Len(q[l]))
        BY <4>4
      <4> HIDE DEF n, p
      <4> QED BY <4>3, <4>4, <4>5 DEF Link
    <3> QED BY <3>1, <3>2
  <2> QED BY <2>1
<1>6. h \in [Lists -> Heads]
  <2>1. ASSUME NEW l \in Lists PROVE h[l] \in Heads
    <3>1. /\ q[l] \in Seq(Elements) /\ Len(q[l]) \in Nat
          /\ \A j \in 1..Len(q[l]) : q[l][j] \in Elements
      BY WellFormedFacts
    <3>2. q[l] # <<>> => 1 \in 1..Len(q[l]) /\ Len(q[l]) \in 1..Len(q[l])
      BY <3>1
    <3> QED BY <3>1, <3>2 DEF Heads, Link
  <2> QED BY <2>1
<1>7. s \in StoreType
  <2> HIDE DEF h, n, p
  <2> QED BY <1>5, <1>6 DEF StoreType
<1>8. ASSUME NEW l \in Lists PROVE Holds(s, l, q[l]) /\ LIST_SIZE(s, l) = Len(q[l])
  <2>1. DOMAIN q[l] = 1..Len(q[l])
    BY WellFormedFacts
  <2>2. /\ s.head[l].first = IF q[l] = <<>> THEN NULL ELSE q[l][1]
        /\ s.head[l].last = IF q[l] = <<>> THEN NULL ELSE q[l][Len(q[l])]
        /\ s.head[l].size = Len(q[l])
    OBVIOUS
  <2>3. s.next = n /\ s.prev = p
    OBVIOUS
  <2> HIDE DEF s, h, n, p
  <2> QED BY <2>1, <2>2, <2>3, <1>4 DEF Holds, LIST_FIRST, LIST_LAST, LIST_NEXT, LIST_PREV, LIST_SIZE
<1>9. Represents(s, q)
  <2> HIDE DEF s
  <2> QED BY <1>7, <1>8 DEF Represents, HoldAll
<1> QED BY <1>1, <1>9

LEMMA HeadInserts ==
  ASSUME NEW q \in Seq(Elements), NEW e \in Elements
  PROVE  Inserted(<<e>> \o q, q, 1, e)
<1>1. /\ <<e>> \o q \in Seq(Elements) /\ Len(<<e>> \o q) = Len(q) + 1
      /\ (<<e>> \o q)[1] = e /\ \A i \in 2..(Len(q) + 1) : (<<e>> \o q)[i] = q[i - 1]
  OBVIOUS
<1> QED BY <1>1 DEF Inserted

LEMMA TailInserts ==
  ASSUME NEW q \in Seq(Elements), NEW e \in Elements
  PROVE  Inserted(Append(q, e), q, Len(q) + 1, e)
BY DEF Inserted

LEMMA InsertAtInserts ==
  ASSUME NEW q \in Seq(Elements), NEW e \in Elements, NEW p \in 1..(Len(q) + 1)
  PROVE  Inserted(InsertAt(q, p, e), q, p, e)
<1> DEFINE a == SubSeq(q, 1, p - 1)
           b == SubSeq(q, p, Len(q))
           c == a \o <<e>>
           r == c \o b
<1>1. a \in Seq(Elements) /\ Len(a) = p - 1 /\ \A i \in 1..(p - 1) : a[i] = q[i]
  OBVIOUS
<1>2. /\ b \in Seq(Elements) /\ Len(b) = (Len(q) - p) + 1
      /\ \A i \in 1..Len(b) : b[i] = q[(p + i) - 1]
  OBVIOUS
<1> HIDE DEF a, b
<1>3. c \in Seq(Elements) /\ Len(c) = p /\ c[p] = e /\ \A i \in 1..(p - 1) : c[i] = q[i]
  BY <1>1
<1> HIDE DEF c
<1>4. /\ r \in Seq(Elements) /\ Len(r) = Len(q) + 1
      /\ \A i \in 1..p : r[i] = c[i]
      /\ \A i \in (p + 1)..(Len(q) + 1) : r[i] = b[i - p]
  BY <1>2, <1>3
<1> HIDE DEF r
<1>5. \A i \in (p + 1)..(Len(q) + 1) : r[i] = q[i - 1]
  BY <1>2, <1>4
<1>6. Inserted(r, q, p, e)
  <2>1. ASSUME NEW i \in 1..Len(r)
        PROVE  r[i] = IF i < p THEN q[i] ELSE IF i = p THEN e ELSE q[i - 1]
    <3>1. Len(q) \in Nat /\ Len(r) = Len(q) + 1
      BY <1>4
    <3>2. CASE i < p
      BY <3>2, <1>3, <1>4
    <3>3. CASE i = p
      BY <3>3, <1>3, <1>4
    <3>4. CASE i > p
      <4>1. i \in (p + 1)..(Len(q) + 1)
        BY <3>1, <3>4
      <4> QED BY <3>4, <4>1, <1>5
    <3> QED BY <3>2, <3>3, <3>4
  <2> QED BY <1>4, <2>1 DEF Inserted
<1> QED BY <1>6 DEF InsertAt, a, b, c, r

LEMMA RemoveAtRemoves ==
  ASSUME NEW q \in Seq(Elements), NEW p \in 1..Len(q)
  PROVE  Removed(RemoveAt(q, p), q, p)
<1> DEFINE a == SubSeq(q, 1, p - 1)
           b == SubSeq(q, p + 1, Len(q))
           r == a \o b
<1>1. a \in Seq(Elements) /\ Len(a) = p - 1 /\ \A i \in 1..(p - 1) : a[i] = q[i]
  OBVIOUS
<1>2. /\ b \in Seq(Elements) /\ Len(b) = Len(q) - p
      /\ \A i \in 1..Len(b) : b[i] = q[p + i]
  OBVIOUS
<1> HIDE DEF a, b
<1>3. /\ r \in Seq(Elements) /\ Len(r) = Len(q) - 1
      /\ \A i \in 1..(p - 1) : r[i] = a[i]
      /\ \A i \in p..(Len(q) - 1) : r[i] = b[(i - p) + 1]
  <2>1. /\ r \in Seq(Elements) /\ Len(r) = Len(a) + Len(b)
        /\ \A i \in 1..(Len(a) + Len(b)) : r[i] = IF i <= Len(a) THEN a[i] ELSE b[i - Len(a)]
    BY <1>1, <1>2, ConcatProperties
  <2>2. Len(q) \in Nat /\ Len(a) = p - 1 /\ Len(b) = Len(q) - p
    BY <1>1, <1>2
  <2> HIDE DEF r
  <2>3. Len(r) = Len(q) - 1
    BY <2>1, <2>2
  <2>4. \A i \in 1..(p - 1) : r[i] = a[i]
    BY <2>1, <2>2
  <2>5. ASSUME NEW i \in p..(Len(q) - 1) PROVE r[i] = b[(i - p) + 1]
    <3>1. i \in 1..(Len(a) + Len(b)) /\ ~(i <= Len(a)) /\ i - Len(a) = (i - p) + 1
      BY <2>2
    <3> QED BY <3>1, <2>1
  <2> QED BY <2>1, <2>3, <2>4, <2>5
<1> HIDE DEF r
<1>4. ASSUME NEW i \in p..(Len(q) - 1) PROVE r[i] = q[i + 1]
  <2>1. (i - p) + 1 \in 1..(Len(q) - p) /\ p + ((i - p) + 1) = i + 1
    OBVIOUS
  <2> QED BY <2>1, <1>2, <1>3
<1>5. Removed(r, q, p)
  <2>1. ASSUME NEW i \in 1..Len(r) PROVE r[i] = IF i < p THEN q[i] ELSE q[i + 1]
    <3>1. Len(q) \in Nat /\ Len(r) = Len(q) - 1
      BY <1>3
    <3>2. CASE i < p
      BY <3>2, <1>1, <1>3
    <3>3. CASE ~(i < p)
      <4>1. i \in p..(Len(q) - 1)
        BY <3>1, <3>3
      <4> QED BY <3>3, <4>1, <1>4
    <3> QED BY <3>2, <3>3
  <2> QED BY <1>3, <2>1 DEF Removed
<1> QED BY <1>5 DEF RemoveAt, a, b, r

-----------------------------------------------------------------------------
(* The calls. *)

\* The lists after an operation.
After(q, op) == [q EXCEPT ![op.list] = Sequence(@, op)]

\* The position of an element of a list is unique.
LEMMA PositionOf ==
  ASSUME NEW q, WellFormed(q), NEW l \in Lists, NEW at \in {q[l][i] : i \in DOMAIN q[l]}
  PROVE  \E p \in 1..Len(q[l]) : q[l][p] = at /\ (CHOOSE i \in DOMAIN q[l] : q[l][i] = at) = p
<1>1. DOMAIN q[l] = 1..Len(q[l]) /\ \A i, j \in 1..Len(q[l]) : q[l][i] = q[l][j] => i = j
  BY WellFormedFacts
<1> QED BY <1>1

\* LIST_INIT clears the head; the other lists are not touched.
LEMMA InitClears ==
  ASSUME NEW s, NEW q, WellFormed(q), Represents(s, q), NEW l \in Lists
  PROVE  HoldAll(LIST_INIT(s, l), [q EXCEPT ![l] = <<>>])
<1> DEFINE h == [first |-> NULL, last |-> NULL, size |-> 0]
           t == LIST_INIT(s, l)
<1>1. h \in Heads
  BY DEF Heads, Link
<1>2. t = [s EXCEPT !.head[l] = h] /\ s \in StoreType /\ s.head \in [Lists -> Heads]
  BY DEF LIST_INIT, Represents, HoldAll, StoreType
<1> HIDE DEF t
<1>3. t.next = s.next /\ t.prev = s.prev /\ t.head = [s.head EXCEPT ![l] = h]
  BY <1>1, <1>2, SetHead
<1>4. t.head[l] = h /\ \A k \in Lists \ {l} : t.head[k] = s.head[k]
  BY <1>2, <1>3
<1>5. Holds(t, l, <<>>) /\ LIST_SIZE(t, l) = Len(<<>>)
  BY <1>4 DEF Holds, LIST_FIRST, LIST_LAST, LIST_SIZE
<1>6. ASSUME NEW k \in Lists \ {l} PROVE Holds(t, k, q[k]) /\ LIST_SIZE(t, k) = Len(q[k])
  BY <1>3, <1>4, HoldsOther, WellFormedFacts DEF Represents, HoldAll, LIST_SIZE
<1>7. q \in [Lists -> Seq(Elements)]
  BY DEF WellFormed
<1> QED BY <1>5, <1>6, <1>7 DEF t, HoldAll

\* Every operation leaves the store with the sequences after it.
LEMMA OperationApplied ==
  ASSUME NEW s, NEW q, WellFormed(q), Represents(s, q), NEW op \in Operations(q)
  PROVE  HoldAll(Apply(s, op), After(q, op))
<1>1. PICK l \in Lists :
        \/ op \in [name : {"init"}, list : {l}]
        \/ op \in [name : {"head", "tail"}, list : {l}, e : Free(q)]
        \/ op \in [name : {"after", "before"}, list : {l}, at : {q[l][i] : i \in DOMAIN q[l]},
                   e : Free(q)]
        \/ op \in [name : {"remove"}, list : {l}, at : {q[l][i] : i \in DOMAIN q[l]}]
  BY DEF Operations
<1>2. q[l] \in Seq(Elements) /\ Listed(s, l, q[l]) /\ Len(q[l]) \in Nat
  BY WellFormedFacts, RepresentsListed
<1>3. \A e \in Free(q) : /\ e \in Elements /\ \A k \in Lists : \A i \in 1..Len(q[k]) : q[k][i] # e
                         /\ \A i \in 1..Len(q[l]) : q[l][i] # e
  BY WellFormedFacts DEF Free
<1>4. CASE op \in [name : {"init"}, list : {l}]
  <2>1. op.name = "init" /\ op.list = l
    BY <1>4
  <2>2. Apply(s, op) = LIST_INIT(s, l) /\ After(q, op) = [q EXCEPT ![l] = <<>>]
    BY <2>1 DEF Apply, After, Sequence
  <2>3. HoldAll(LIST_INIT(s, l), [q EXCEPT ![l] = <<>>])
    BY InitClears
  <2> QED BY <2>2, <2>3
<1>5. CASE op \in [name : {"head", "tail"}, list : {l}, e : Free(q)]
  <2>1. op.name \in {"head", "tail"} /\ op.list = l /\ op.e \in Free(q)
    BY <1>5
  <2>2. op.e \in Elements /\ \A k \in Lists : \A i \in 1..Len(q[k]) : q[k][i] # op.e
    BY <2>1, <1>3
  <2>3. CASE op.name = "head"
    <3>1. Apply(s, op) = LIST_INSERT_HEAD(s, l, op.e)
      BY <2>1, <2>3 DEF Apply
    <3>2. After(q, op) = [q EXCEPT ![l] = <<op.e>> \o q[l]]
      BY <2>1, <2>3 DEF After, Sequence
    <3>3. Linked(s, LIST_INSERT_HEAD(s, l, op.e), l, q[l], 1, op.e)
      BY <1>2, <2>2, InsertHeadLinks
    <3>4. Inserted(<<op.e>> \o q[l], q[l], 1, op.e) /\ 1 \in 1..(Len(q[l]) + 1)
      BY <1>2, <2>2, HeadInserts
    <3>6. HoldAll(LIST_INSERT_HEAD(s, l, op.e), [q EXCEPT ![l] = <<op.e>> \o q[l]])
      BY <2>2, <3>3, <3>4, LinkedInserts
    <3> QED BY <3>1, <3>2, <3>6
  <2>4. CASE op.name = "tail"
    <3>1. Apply(s, op) = LIST_INSERT_TAIL(s, l, op.e)
      BY <2>1, <2>4 DEF Apply
    <3>2. After(q, op) = [q EXCEPT ![l] = Append(q[l], op.e)]
      BY <2>1, <2>4 DEF After, Sequence
    <3>3. Linked(s, LIST_INSERT_TAIL(s, l, op.e), l, q[l], Len(q[l]) + 1, op.e)
      BY <1>2, <2>2, InsertTailLinks
    <3>4. Inserted(Append(q[l], op.e), q[l], Len(q[l]) + 1, op.e) /\ Len(q[l]) + 1 \in 1..(Len(q[l]) + 1)
      BY <1>2, <2>2, TailInserts
    <3>6. HoldAll(LIST_INSERT_TAIL(s, l, op.e), [q EXCEPT ![l] = Append(q[l], op.e)])
      BY <2>2, <3>3, <3>4, LinkedInserts
    <3> QED BY <3>1, <3>2, <3>6
  <2> QED BY <2>1, <2>3, <2>4
<1>6. CASE op \in [name : {"after", "before"}, list : {l}, at : {q[l][i] : i \in DOMAIN q[l]}, e : Free(q)]
  <2>1. op.name \in {"after", "before"} /\ op.list = l /\ op.e \in Free(q)
        /\ op.at \in {q[l][i] : i \in DOMAIN q[l]}
    BY <1>6
  <2>2. op.e \in Elements /\ \A k \in Lists : \A i \in 1..Len(q[k]) : q[k][i] # op.e
    BY <2>1, <1>3
  <2>3. PICK p \in 1..Len(q[l]) : q[l][p] = op.at /\ (CHOOSE i \in DOMAIN q[l] : q[l][i] = op.at) = p
    BY <2>1, PositionOf
  <2>4. CASE op.name = "after"
    <3>1. Apply(s, op) = LIST_INSERT_AFTER(s, l, q[l][p], op.e)
      BY <2>1, <2>3, <2>4 DEF Apply
    <3>2. After(q, op) = [q EXCEPT ![l] = InsertAt(q[l], p + 1, op.e)]
      BY <2>1, <2>3, <2>4 DEF After, Sequence
    <3>3. Linked(s, LIST_INSERT_AFTER(s, l, q[l][p], op.e), l, q[l], p + 1, op.e)
      BY <1>2, <2>2, InsertAfterLinks
    <3>4. p + 1 \in 1..(Len(q[l]) + 1)
      BY <1>2
    <3>5. Inserted(InsertAt(q[l], p + 1, op.e), q[l], p + 1, op.e)
      BY <1>2, <2>2, <3>4, InsertAtInserts
    <3>6. HoldAll(LIST_INSERT_AFTER(s, l, q[l][p], op.e), [q EXCEPT ![l] = InsertAt(q[l], p + 1, op.e)])
      BY <2>2, <3>3, <3>4, <3>5, LinkedInserts
    <3> QED BY <3>1, <3>2, <3>6
  <2>5. CASE op.name = "before"
    <3>1. Apply(s, op) = LIST_INSERT_BEFORE(s, l, q[l][p], op.e)
      BY <2>1, <2>3, <2>5 DEF Apply
    <3>2. After(q, op) = [q EXCEPT ![l] = InsertAt(q[l], p, op.e)]
      BY <2>1, <2>3, <2>5 DEF After, Sequence
    <3>3. Linked(s, LIST_INSERT_BEFORE(s, l, q[l][p], op.e), l, q[l], p, op.e)
      BY <1>2, <2>2, InsertBeforeLinks
    <3>4. p \in 1..(Len(q[l]) + 1)
      BY <1>2
    <3>5. Inserted(InsertAt(q[l], p, op.e), q[l], p, op.e)
      BY <1>2, <2>2, <3>4, InsertAtInserts
    <3>6. HoldAll(LIST_INSERT_BEFORE(s, l, q[l][p], op.e), [q EXCEPT ![l] = InsertAt(q[l], p, op.e)])
      BY <2>2, <3>3, <3>4, <3>5, LinkedInserts
    <3> QED BY <3>1, <3>2, <3>6
  <2> QED BY <2>1, <2>4, <2>5
<1>7. CASE op \in [name : {"remove"}, list : {l}, at : {q[l][i] : i \in DOMAIN q[l]}]
  <2>1. op.name = "remove" /\ op.list = l /\ op.at \in {q[l][i] : i \in DOMAIN q[l]}
    BY <1>7
  <2> DEFINE at == op.at
  <2>a. at \in {q[l][i] : i \in DOMAIN q[l]}
    BY <2>1
  <2> HIDE DEF at
  <2>2. PICK p \in 1..Len(q[l]) : q[l][p] = at /\ (CHOOSE i \in DOMAIN q[l] : q[l][i] = at) = p
    BY <2>a, PositionOf
  <2> USE DEF at
  <2>3. Apply(s, op) = LIST_REMOVE(s, l, q[l][p])
    BY <2>1, <2>2 DEF Apply
  <2>4. After(q, op) = [q EXCEPT ![l] = RemoveAt(q[l], p)]
    BY <2>1, <2>2 DEF After, Sequence
  <2>5. Unlinked(s, LIST_REMOVE(s, l, q[l][p]), l, q[l], p) /\ Removed(RemoveAt(q[l], p), q[l], p)
    BY <1>2, RemoveLinks, RemoveAtRemoves
  <2>6. Represents(LIST_REMOVE(s, l, q[l][p]), [q EXCEPT ![l] = RemoveAt(q[l], p)])
    BY <2>5, UnlinkedRemoves
  <2> QED BY <2>3, <2>4, <2>6 DEF Represents
<1> QED BY <1>1, <1>4, <1>5, <1>6, <1>7

\* LIST_CONCAT leaves the links and the ends of the two lists in a row, the size
\* of that if one of the two was empty, and the second list empty unless the
\* first one was.
LEMMA ConcatApplied ==
  ASSUME NEW s, NEW q, WellFormed(q), Represents(s, q)
  PROVE  /\ Holds(LIST_CONCAT(s, 1, 2), 1, q[1] \o q[2])
         /\ (q[1] = <<>> \/ q[2] = <<>>) => LIST_SIZE(LIST_CONCAT(s, 1, 2), 1) = Len(q[1] \o q[2])
         /\ LET left == IF q[1] = <<>> THEN q[2] ELSE <<>>
            IN  Holds(LIST_CONCAT(s, 1, 2), 2, left) /\ LIST_SIZE(LIST_CONCAT(s, 1, 2), 2) = Len(left)
<1> DEFINE m == Len(q[1])
           n == Len(q[2])
           r == q[1] \o q[2]
           first2 == s.head[2].first
           last2  == s.head[2].last
           last1  == s.head[1].last
           t == LIST_CONCAT(s, 1, 2)
<1>1. 1 \in Lists /\ 2 \in Lists /\ s \in StoreType /\ 1 # 2
  BY ListsUsed DEF Represents
<1>2. /\ q[1] \in Seq(Elements) /\ m \in Nat /\ (q[1] = <<>> <=> m = 0)
      /\ q[2] \in Seq(Elements) /\ n \in Nat /\ (q[2] = <<>> <=> n = 0)
      /\ \A i \in 1..m : q[1][i] \in Elements
      /\ \A i \in 1..n : q[2][i] \in Elements
      /\ \A i, j \in 1..m : q[1][i] = q[1][j] => i = j
      /\ \A i, j \in 1..n : q[2][i] = q[2][j] => i = j
      /\ \A i \in 1..m, j \in 1..n : q[1][i] # q[2][j]
  <2>1. q[1] \in Seq(Elements) /\ q[2] \in Seq(Elements)
    BY <1>1, WellFormedFacts
  <2>2. (q[1] = <<>> <=> m = 0) /\ (q[2] = <<>> <=> n = 0)
    BY <2>1
  <2> QED BY <1>1, <2>2, WellFormedFacts
<1>3. /\ r \in Seq(Elements) /\ Len(r) = m + n
      /\ \A i \in 1..m : r[i] = q[1][i]
      /\ \A i \in (m + 1)..(m + n) : r[i] = q[2][i - m]
  <2>1. /\ r \in Seq(Elements) /\ Len(r) = m + n
        /\ \A i \in 1..(m + n) : r[i] = IF i <= m THEN q[1][i] ELSE q[2][i - m]
    <3>1. q[1] \in Seq(Elements) /\ q[2] \in Seq(Elements)
      BY <1>2
    <3> QED BY <3>1, ConcatProperties
  <2> HIDE DEF r, m, n
  <2>2. m \in Nat /\ n \in Nat
    BY <1>2
  <2>3. ASSUME NEW i \in 1..m PROVE r[i] = q[1][i]
    <3>1. i \in 1..(m + n) /\ i <= m
      BY <2>2
    <3> QED BY <3>1, <2>1
  <2>4. ASSUME NEW i \in (m + 1)..(m + n) PROVE r[i] = q[2][i - m]
    <3>1. i \in 1..(m + n) /\ ~(i <= m)
      BY <2>2
    <3> QED BY <3>1, <2>1
  <2> QED BY <2>1, <2>3, <2>4
<1>4. Listed(s, 1, q[1]) /\ Listed(s, 2, q[2])
  BY <1>1, RepresentsListed
<1>5. /\ s.next \in [Elements -> Link] /\ s.prev \in [Elements -> Link]
      /\ s.head \in [Lists -> Heads] /\ s.head[1] \in Heads /\ s.head[2] \in Heads
      /\ s.head[1].size = m /\ s.head[2].size = n
      /\ m = 0 => s.head[1].first = NULL /\ last1 = NULL
      /\ m # 0 => s.head[1].first = q[1][1] /\ last1 = q[1][m]
      /\ n = 0 => first2 = NULL /\ last2 = NULL
      /\ n # 0 => first2 = q[2][1] /\ last2 = q[2][n]
  BY <1>1, <1>4, ListedFacts DEF Represents, HoldAll, LIST_SIZE
<1>6. /\ \A i \in 1..m : /\ s.next[q[1][i]] = IF i = m THEN NULL ELSE q[1][i + 1]
                         /\ s.prev[q[1][i]] = IF i = 1 THEN NULL ELSE q[1][i - 1]
      /\ \A i \in 1..n : /\ s.next[q[2][i]] = IF i = n THEN NULL ELSE q[2][i + 1]
                         /\ s.prev[q[2][i]] = IF i = 1 THEN NULL ELSE q[2][i - 1]
  <2>1. \A i \in 1..m : /\ s.next[q[1][i]] = IF i = m THEN NULL ELSE q[1][i + 1]
                        /\ s.prev[q[1][i]] = IF i = 1 THEN NULL ELSE q[1][i - 1]
    BY <1>4, ListedFacts
  <2>2. \A i \in 1..n : /\ s.next[q[2][i]] = IF i = n THEN NULL ELSE q[2][i + 1]
                        /\ s.prev[q[2][i]] = IF i = 1 THEN NULL ELSE q[2][i - 1]
    BY <1>4, ListedFacts
  <2> QED BY <2>1, <2>2
<1>7. /\ LIST_FIRST(s, 1) = s.head[1].first /\ LIST_FIRST(s, 2) = first2
      /\ LIST_LAST(s, 2) = last2 /\ LIST_LAST(s, 1) = last1
  BY DEF LIST_FIRST, LIST_LAST
<1>8. first2 \in Link /\ last2 \in Link /\ last1 \in Link
  BY <1>5 DEF Heads
<1> HIDE DEF m, n, r, first2, last2, last1
<1>9. CASE m = 0
  <2> DEFINE a == SetFirst(s, 1, first2)
             b == SetLast(a, 1, last2)
  <2>1. t = Grow(b, 1, LIST_SIZE(b, 2))
    BY <1>9, <1>5, <1>7 DEF LIST_CONCAT
  <2>2. /\ a \in StoreType /\ a.next = s.next /\ a.prev = s.prev
        /\ a.head = [s.head EXCEPT ![1] = [s.head[1] EXCEPT !.first = first2]]
    BY <1>1, <1>8, SetFirstHead
  <2> HIDE DEF a
  <2>3. /\ b \in StoreType /\ b.next = a.next /\ b.prev = a.prev
        /\ b.head = [a.head EXCEPT ![1] = [a.head[1] EXCEPT !.last = last2]]
    BY <1>1, <1>8, <2>2, SetLastHead
  <2> HIDE DEF b
  <2>4. LIST_SIZE(b, 2) = n
    BY <1>1, <1>5, <2>2, <2>3 DEF LIST_SIZE
  <2>5. /\ t.next = s.next /\ t.prev = s.prev
        /\ t.head = [b.head EXCEPT ![1] = [b.head[1] EXCEPT !.size = @ + n]]
    <3>1. n \in Int
      BY <1>2
    <3>2. /\ Grow(b, 1, n).next = b.next /\ Grow(b, 1, n).prev = b.prev
          /\ Grow(b, 1, n).head = [b.head EXCEPT ![1] = [b.head[1] EXCEPT !.size = @ + n]]
      BY <3>1, <1>1, <2>3, GrowHead
    <3> QED BY <3>2, <2>1, <2>2, <2>3, <2>4
  <2>6. t.head[1].first = first2 /\ t.head[1].last = last2 /\ t.head[1].size = n
    <3>1. a.head[1] = [s.head[1] EXCEPT !.first = first2] /\ a.head \in [Lists -> Heads]
      BY <1>1, <1>5, <2>2 DEF StoreType
    <3>2. b.head[1] = [a.head[1] EXCEPT !.last = last2] /\ b.head \in [Lists -> Heads]
      BY <1>1, <2>3, <3>1 DEF StoreType
    <3>3. t.head[1] = [b.head[1] EXCEPT !.size = @ + n]
      BY <1>1, <2>5, <3>2
    <3> HIDE DEF t
    <3>4. a.head[1] \in Heads /\ a.head[1].first = first2 /\ a.head[1].size = 0
      BY <3>1, <1>1, <1>5, <1>9 DEF Heads
    <3>5. b.head[1] \in Heads /\ b.head[1].first = first2 /\ b.head[1].last = last2 /\ b.head[1].size = 0
      BY <3>2, <3>4, <1>1 DEF Heads
    <3> QED BY <3>3, <3>5, <1>2 DEF Heads
  <2>7. r = q[2]
    <3>1. q[1] = <<>> /\ q[2] \in Seq(Elements)
      BY <1>2, <1>9
    <3> QED BY <3>1, ConcatEmptySeq DEF r
  <2> HIDE DEF t
  <2>8. Holds(t, 1, q[2])
    <3>1. /\ t.head[1].first = IF n = 0 THEN NULL ELSE q[2][1]
          /\ t.head[1].last = IF n = 0 THEN NULL ELSE q[2][n]
      BY <2>6, <1>5
    <3>2. /\ \A i \in 1..n : t.next[q[2][i]] = IF i = n THEN NULL ELSE q[2][i + 1]
          /\ \A i \in 1..n : t.prev[q[2][i]] = IF i = 1 THEN NULL ELSE q[2][i - 1]
      BY <2>5, <1>6
    <3> QED BY <3>1, <3>2, <1>2, HoldsByLinks DEF n
  <2>9. LIST_SIZE(t, 1) = Len(r)
    BY <2>6, <1>2, <1>3, <1>9 DEF LIST_SIZE
  <2>10. t.head[2] = s.head[2]
    BY <2>2, <2>3, <2>5, <1>1, <1>5
  <2>11. Holds(t, 2, q[2]) /\ LIST_SIZE(t, 2) = Len(q[2])
    BY <2>5, <2>10, <1>1, <1>2, HoldsOther DEF Represents, HoldAll, LIST_SIZE
  <2> QED BY <2>7, <2>8, <2>9, <2>11, <1>2, <1>9 DEF r, t
<1>10. CASE m # 0 /\ n = 0
  <2>1. t = Grow(s, 1, LIST_SIZE(s, 2)) /\ LIST_SIZE(s, 2) = 0
    <3>1. s.head[1].first # NULL
      BY <1>10, <1>2, <1>5, ListConstants
    <3> QED BY <3>1, <1>10, <1>5, <1>7 DEF LIST_CONCAT, LIST_SIZE
  <2>2. /\ t.next = s.next /\ t.prev = s.prev
        /\ t.head = [s.head EXCEPT ![1] = [s.head[1] EXCEPT !.size = @ + 0]]
    <3>1. /\ Grow(s, 1, 0).next = s.next /\ Grow(s, 1, 0).prev = s.prev
          /\ Grow(s, 1, 0).head = [s.head EXCEPT ![1] = [s.head[1] EXCEPT !.size = @ + 0]]
      BY <1>1, GrowHead
    <3> QED BY <3>1, <2>1
  <2> HIDE DEF t
  <2>3. t.head[1] = s.head[1]
    BY <2>2, <1>1, <1>2, <1>5 DEF Heads
  <2>4. r = q[1]
    <3>1. q[2] = <<>> /\ q[1] \in Seq(Elements)
      BY <1>2, <1>10
    <3> QED BY <3>1, ConcatEmptySeq DEF r
  <2>5. Holds(t, 1, q[1])
    BY <2>2, <2>3, <1>1, <1>2, HoldsOther DEF Represents, HoldAll
  <2>6. LIST_SIZE(t, 1) = Len(r)
    BY <2>3, <2>4, <1>5 DEF LIST_SIZE, m
  <2>7. t.head[2] = s.head[2]
    BY <2>2, <1>1, <1>5
  <2>8. Holds(t, 2, q[2]) /\ LIST_SIZE(t, 2) = Len(q[2])
    BY <2>2, <2>7, <1>1, <1>2, HoldsOther DEF Represents, HoldAll, LIST_SIZE
  <2>9. q[1] # <<>> /\ q[2] = <<>>
    BY <1>2, <1>10
  <2> QED BY <2>4, <2>5, <2>6, <2>8, <2>9 DEF r, t
<1>11. CASE m # 0 /\ n # 0
  <2> DEFINE a == SetNext(s, last1, first2)
             b == SetPrev(a, first2, last1)
             c == SetLast(b, 1, last2)
             h == [first |-> NULL, last |-> NULL, size |-> 0]
             d == LIST_INIT(c, 2)
  <2>0. 1 \in 1..m /\ m \in 1..m /\ 1 \in 1..n /\ n \in 1..n
    BY <1>11, <1>2
  <2>1. /\ last1 = q[1][m] /\ first2 = q[2][1] /\ last2 = q[2][n] /\ s.head[1].first = q[1][1]
        /\ last1 \in Elements /\ first2 \in Elements /\ s.head[1].first \in Elements
    BY <1>11, <2>0, <1>2, <1>5
  <2>2. t = Grow(d, 1, LIST_SIZE(d, 2))
    <3>1. s.head[1].first # NULL /\ first2 # NULL
      BY <2>1, ListConstants
    <3> QED BY <3>1, <1>7 DEF LIST_CONCAT
  <2>3. /\ a \in StoreType /\ a.head = s.head /\ a.prev = s.prev
        /\ a.next = [s.next EXCEPT ![last1] = first2]
    BY <2>1, <1>1, <1>8, SetNextLinks
  <2> HIDE DEF a
  <2>4. /\ b \in StoreType /\ b.head = s.head /\ b.next = a.next
        /\ b.prev = [s.prev EXCEPT ![first2] = last1]
    BY <2>1, <2>3, <1>8, SetPrevLinks
  <2> HIDE DEF b
  <2>5. /\ c \in StoreType /\ c.next = a.next /\ c.prev = b.prev
        /\ c.head = [s.head EXCEPT ![1] = [s.head[1] EXCEPT !.last = last2]]
    BY <2>4, <1>1, <1>8, SetLastHead
  <2> HIDE DEF c
  <2>6. /\ d \in StoreType /\ d.next = a.next /\ d.prev = b.prev
        /\ d.head = [c.head EXCEPT ![2] = h]
    <3>1. h \in Heads
      BY DEF Heads, Link
    <3>2. d = [c EXCEPT !.head[2] = h]
      BY DEF LIST_INIT
    <3> HIDE DEF h, d
    <3>3. /\ [c EXCEPT !.head[2] = h] \in StoreType
          /\ [c EXCEPT !.head[2] = h].next = c.next
          /\ [c EXCEPT !.head[2] = h].prev = c.prev
          /\ [c EXCEPT !.head[2] = h].head = [c.head EXCEPT ![2] = h]
      BY <3>1, <2>5, <1>1, SetHead
    <3> QED BY <3>2, <3>3, <2>5
  <2>7. LIST_SIZE(d, 2) = 0
    <3> HIDE DEF d
    <3>1. c.head \in [Lists -> Heads]
      BY <2>5 DEF StoreType
    <3>2. d.head[2] = h
      BY <3>1, <2>6, <1>1
    <3> QED BY <3>2 DEF LIST_SIZE
  <2> HIDE DEF d
  <2>8. /\ t.next = a.next /\ t.prev = b.prev
        /\ t.head = [d.head EXCEPT ![1] = [d.head[1] EXCEPT !.size = @ + 0]]
    <3>1. /\ Grow(d, 1, 0).next = d.next /\ Grow(d, 1, 0).prev = d.prev
          /\ Grow(d, 1, 0).head = [d.head EXCEPT ![1] = [d.head[1] EXCEPT !.size = @ + 0]]
      <4>1. d \in StoreType /\ 1 \in Lists /\ 0 \in Int
        BY <1>1, <2>6
      <4>2. /\ Grow(d, 1, 0) \in StoreType
            /\ Grow(d, 1, 0).next = d.next /\ Grow(d, 1, 0).prev = d.prev
            /\ Grow(d, 1, 0).head = [d.head EXCEPT ![1] = [d.head[1] EXCEPT !.size = @ + 0]]
        BY <4>1, GrowHead, Zenon
      <4> QED BY <4>2
    <3> QED BY <3>1, <2>2, <2>6, <2>7
  <2> HIDE DEF t
  <2>9. t.head[1].first = q[1][1] /\ t.head[1].last = q[2][n] /\ t.head[1].size = m
    <3>1. c.head \in [Lists -> Heads] /\ d.head \in [Lists -> Heads]
      BY <2>5, <2>6 DEF StoreType
    <3>2. c.head[1] = [s.head[1] EXCEPT !.last = last2] /\ c.head[1] \in Heads
      BY <3>1, <2>5, <1>1, <1>5
    <3>3. d.head[1] = c.head[1]
      BY <3>1, <2>6, <1>1
    <3>4. t.head[1] = [d.head[1] EXCEPT !.size = @ + 0]
      BY <3>1, <2>8, <1>1
    <3>5. c.head[1].first = q[1][1] /\ c.head[1].last = q[2][n] /\ c.head[1].size = m
      BY <3>2, <2>1, <1>5 DEF Heads
    <3> QED BY <3>2, <3>3, <3>4, <3>5, <1>2 DEF Heads
  <2>10. ASSUME NEW i \in 1..(m + n) PROVE t.next[r[i]] = IF i = m + n THEN NULL ELSE r[i + 1]
    <3>1. CASE i < m
      <4>1. i \in 1..m /\ i + 1 \in 1..m /\ i # m /\ i # m + n
        BY <3>1, <1>2
      <4>2. r[i] = q[1][i] /\ r[i + 1] = q[1][i + 1] /\ r[i] # last1 /\ r[i] \in Elements
        BY <4>1, <2>0, <2>1, <1>2, <1>3
      <4>3. t.next[r[i]] = s.next[r[i]]
        BY <4>2, <2>3, <2>8, <1>5
      <4> QED BY <4>1, <4>2, <4>3, <1>6
    <3>2. CASE i = m
      <4>1. i # m + n /\ i + 1 \in (m + 1)..(m + n) /\ (i + 1) - m = 1
        BY <3>2, <1>2, <1>11
      <4>2. r[i] = last1 /\ r[i + 1] = first2
        BY <3>2, <4>1, <2>0, <2>1, <1>3
      <4> QED BY <4>1, <4>2, <2>1, <2>3, <2>8, <1>5
    <3>3. CASE i > m
      <4>1. i \in (m + 1)..(m + n) /\ i - m \in 1..n /\ (i - m = n <=> i = m + n)
            /\ (i # m + n => i + 1 \in (m + 1)..(m + n) /\ (i + 1) - m = (i - m) + 1)
        BY <3>3, <1>2
      <4>2. r[i] = q[2][i - m] /\ (i # m + n => r[i + 1] = q[2][(i - m) + 1])
        BY <4>1, <1>3
      <4>3. r[i] # last1 /\ r[i] \in Elements
        BY <4>1, <4>2, <2>0, <2>1, <1>2
      <4>4. t.next[r[i]] = s.next[r[i]]
        BY <4>3, <2>3, <2>8, <1>5
      <4>5. s.next[r[i]] = IF i - m = n THEN NULL ELSE q[2][(i - m) + 1]
        BY <4>1, <4>2, <1>6
      <4> QED BY <4>1, <4>2, <4>4, <4>5
    <3> QED BY <3>1, <3>2, <3>3, <1>2
  <2>11. ASSUME NEW i \in 1..(m + n) PROVE t.prev[r[i]] = IF i = 1 THEN NULL ELSE r[i - 1]
    <3>1. CASE i <= m
      <4>1. i \in 1..m /\ (i # 1 => i - 1 \in 1..m)
        BY <3>1, <1>2
      <4>2. r[i] = q[1][i] /\ (i # 1 => r[i - 1] = q[1][i - 1]) /\ r[i] \in Elements /\ r[i] # first2
        BY <4>1, <2>0, <2>1, <1>2, <1>3
      <4>3. t.prev[r[i]] = s.prev[r[i]]
        BY <4>2, <2>4, <2>8, <1>5
      <4> QED BY <4>1, <4>2, <4>3, <1>6
    <3>2. CASE i = m + 1
      <4>1. i # 1 /\ i \in (m + 1)..(m + n) /\ i - m = 1 /\ i - 1 = m
        BY <3>2, <1>2, <1>11
      <4>2. r[i] = first2 /\ r[i - 1] = last1
        BY <4>1, <2>0, <2>1, <1>3
      <4> QED BY <4>1, <4>2, <2>1, <2>4, <2>8, <1>5
    <3>3. CASE i > m + 1
      <4>1. /\ i \in (m + 1)..(m + n) /\ i - m \in 1..n /\ i - m # 1 /\ i # 1
            /\ i - 1 \in (m + 1)..(m + n) /\ (i - 1) - m = (i - m) - 1
        BY <3>3, <1>2
      <4>2. r[i] = q[2][i - m] /\ r[i - 1] = q[2][(i - m) - 1]
        BY <4>1, <1>3
      <4>3. r[i] # first2 /\ r[i] \in Elements
        BY <4>1, <4>2, <2>0, <2>1, <1>2
      <4>4. t.prev[r[i]] = s.prev[r[i]]
        BY <4>3, <2>4, <2>8, <1>5
      <4>5. s.prev[r[i]] = q[2][(i - m) - 1]
        BY <4>1, <4>2, <1>6
      <4> QED BY <4>1, <4>2, <4>4, <4>5
    <3> QED BY <3>1, <3>2, <3>3, <1>2
  <2>12. r[1] = q[1][1] /\ r[m + n] = q[2][n] /\ m + n # 0
    <3>1. m + n \in (m + 1)..(m + n) /\ (m + n) - m = n /\ m + n # 0
      BY <1>2, <1>11
    <3> QED BY <3>1, <2>0, <1>3
  <2>13. Holds(t, 1, r)
    BY <2>9, <2>10, <2>11, <2>12, <1>3, HoldsByLinks
  <2>14. t.head[2] = h
    <3>1. c.head \in [Lists -> Heads] /\ d.head \in [Lists -> Heads]
      BY <2>5, <2>6 DEF StoreType
    <3> HIDE DEF h
    <3> QED BY <3>1, <2>6, <2>8, <1>1
  <2>15. Holds(t, 2, <<>>) /\ LIST_SIZE(t, 2) = Len(<<>>)
    <3>1. t.head[2].first = NULL /\ t.head[2].last = NULL /\ t.head[2].size = 0
      BY <2>14
    <3> QED BY <3>1 DEF Holds, LIST_SIZE, LIST_FIRST, LIST_LAST
  <2> QED BY <2>13, <2>15, <1>2, <1>11 DEF r, t
<1> QED BY <1>9, <1>10, <1>11

-----------------------------------------------------------------------------
(* The loops. *)

\* One round of LIST_FOREACH.
Round(l, list, removed) ==
  LET ___ptr_next == LOOP_LIST_NEXT(l.store, l.at)
  IN  IF ___ptr_next = NULL /\ l.at = NULL THEN l
      ELSE [at |-> ___ptr_next,
            visited |-> Append(l.visited, l.at),
            store |-> IF l.at \in removed THEN LIST_REMOVE(l.store, list, l.at) ELSE l.store]

\* The loop runs through its rounds, one after the other.
LEMMA ForeachRounds ==
  ASSUME NEW s, NEW list, NEW removed, Rounds \in Nat
  PROVE  \E g : /\ g[0] = [at |-> LIST_FIRST(s, list), visited |-> <<>>, store |-> s]
                /\ \A i \in 1..Rounds : g[i] = Round(g[i - 1], list, removed)
                /\ LIST_FOREACH(s, list, removed) = g[Rounds]
<1> DEFINE a == [at |-> LIST_FIRST(s, list), visited |-> <<>>, store |-> s]
           F(l) == Round(l, list, removed)
           Eq(f) == f = [i \in 0..Rounds |-> IF i = 0 THEN a ELSE F(f[i - 1])]
           c == CHOOSE f : Eq(f)
           G(m, g) == /\ g = [k \in 0..m |-> g[k]]
                      /\ g[0] = a
                      /\ \A k \in 1..m : g[k] = F(g[k - 1])
           P == {m \in Nat : \E g : G(m, g)}
<1>1. LIST_FOREACH(s, list, removed) = c[Rounds]
  BY DEF LIST_FOREACH, Round
<1> HIDE DEF a, F
<1>2. 0 \in P
  <2>1. G(0, [k \in 0..0 |-> a])
    OBVIOUS
  <2> QED BY <2>1
<1>3. ASSUME NEW m \in Nat, m \in P PROVE m + 1 \in P
  <2>1. PICK g : G(m, g)
    BY <1>3
  <2> DEFINE v == F(g[m])
             h == [k \in 0..(m + 1) |-> IF k = m + 1 THEN v ELSE g[k]]
  <2> HIDE DEF v
  <2>2. h = [k \in 0..(m + 1) |-> h[k]] /\ h[0] = a
    BY <2>1
  <2>3. ASSUME NEW k \in 1..(m + 1) PROVE h[k] = F(h[k - 1])
    <3>1. CASE k = m + 1
      <4>1. h[k] = v /\ h[k - 1] = g[m]
        BY <3>1
      <4> QED BY <4>1 DEF v
    <3>2. CASE k # m + 1
      <4>1. k \in 1..m /\ h[k] = g[k] /\ h[k - 1] = g[k - 1]
        BY <3>2
      <4> QED BY <4>1, <2>1
    <3> QED BY <3>1, <3>2
  <2>4. G(m + 1, h)
    <3> HIDE DEF h
    <3> QED BY <2>2, <2>3
  <2> HIDE DEF G, h
  <2> QED BY <2>4
<1>4. Rounds \in P
  <2> HIDE DEF P
  <2> QED BY <1>2, <1>3, Shared!SetInduction
<1>5. PICK g : G(Rounds, g)
  BY <1>4
<1>6. Eq(g)
  <2> DEFINE e == [i \in 0..Rounds |-> IF i = 0 THEN a ELSE F(g[i - 1])]
  <2>1. ASSUME NEW i \in 0..Rounds PROVE g[i] = e[i]
    <3>1. CASE i = 0
      BY <3>1, <1>5
    <3>2. CASE i # 0
      <4>1. i \in 1..Rounds
        BY <3>2
      <4> QED BY <3>2, <4>1, <1>5
    <3> QED BY <3>1, <3>2
  <2>2. g = [i \in 0..Rounds |-> g[i]] /\ e = [i \in 0..Rounds |-> e[i]]
    BY <1>5
  <2> HIDE DEF e
  <2>3. g = e
    BY <2>1, <2>2
  <2> QED BY <2>3 DEF e
<1>7. Eq(c)
  <2> HIDE DEF Eq
  <2> QED BY <1>6
<1> HIDE DEF c
<1>8. c[0] = a /\ \A i \in 1..Rounds : c[i] = F(c[i - 1])
  BY <1>7
<1> QED BY <1>1, <1>8 DEF a, F

\* The elements that remain of the first i of q.
LEMMA RemainingDefined ==
  ASSUME NEW q \in Seq(Elements), NEW removed
  PROVE  \E g : /\ g[0] = <<>>
                /\ \A i \in 1..Len(q) : g[i] = IF q[i] \in removed THEN g[i - 1]
                                               ELSE Append(g[i - 1], q[i])
                /\ Remaining(q, removed) = g[Len(q)]
<1> DEFINE n == Len(q)
           F(i, l) == IF q[i] \in removed THEN l ELSE Append(l, q[i])
           Eq(f) == f = [i \in 0..n |-> IF i = 0 THEN <<>>
                                        ELSE IF q[i] \in removed THEN f[i - 1]
                                        ELSE Append(f[i - 1], q[i])]
           c == CHOOSE f : Eq(f)
           G(m, g) == /\ g = [k \in 0..m |-> g[k]]
                      /\ g[0] = <<>>
                      /\ \A k \in 1..m : g[k] = F(k, g[k - 1])
           P == {m \in Nat : \E g : G(m, g)}
<1>0. n \in Nat
  OBVIOUS
<1>1. Remaining(q, removed) = c[n]
  BY DEF Remaining
<1>e. \A f : Eq(f) <=> f = [i \in 0..n |-> IF i = 0 THEN <<>> ELSE F(i, f[i - 1])]
  OBVIOUS
<1> HIDE DEF F, n
<1>2. 0 \in P
  <2>1. G(0, [k \in 0..0 |-> <<>>])
    OBVIOUS
  <2> QED BY <2>1
<1>3. ASSUME NEW m \in Nat, m \in P PROVE m + 1 \in P
  <2>1. PICK g : G(m, g)
    BY <1>3
  <2> DEFINE v == F(m + 1, g[m])
             h == [k \in 0..(m + 1) |-> IF k = m + 1 THEN v ELSE g[k]]
  <2> HIDE DEF v
  <2>2. h = [k \in 0..(m + 1) |-> h[k]] /\ h[0] = <<>>
    BY <2>1
  <2>3. ASSUME NEW k \in 1..(m + 1) PROVE h[k] = F(k, h[k - 1])
    <3>1. CASE k = m + 1
      <4>1. h[k] = v /\ h[k - 1] = g[m]
        BY <3>1
      <4> QED BY <4>1, <3>1 DEF v
    <3>2. CASE k # m + 1
      <4>1. k \in 1..m /\ h[k] = g[k] /\ h[k - 1] = g[k - 1]
        BY <3>2
      <4> QED BY <4>1, <2>1
    <3> QED BY <3>1, <3>2
  <2>4. G(m + 1, h)
    <3> HIDE DEF h
    <3> QED BY <2>2, <2>3
  <2> HIDE DEF G, h
  <2> QED BY <2>4
<1>4. n \in P
  <2> HIDE DEF P
  <2> QED BY <1>0, <1>2, <1>3, Shared!SetInduction
<1>5. PICK g : G(n, g)
  BY <1>4
<1>6. Eq(g)
  <2> DEFINE e == [i \in 0..n |-> IF i = 0 THEN <<>> ELSE F(i, g[i - 1])]
  <2>1. ASSUME NEW i \in 0..n PROVE g[i] = e[i]
    <3>1. CASE i = 0
      BY <3>1, <1>5
    <3>2. CASE i # 0
      <4>1. i \in 1..n
        BY <3>2, <1>0
      <4> QED BY <3>2, <4>1, <1>5
    <3> QED BY <3>1, <3>2
  <2>2. g = [i \in 0..n |-> g[i]] /\ e = [i \in 0..n |-> e[i]]
    BY <1>5
  <2> HIDE DEF e
  <2>3. g = e
    BY <2>1, <2>2
  <2> HIDE DEF Eq
  <2> QED BY <2>3, <1>e DEF e
<1>7. Eq(c)
  <2> HIDE DEF Eq
  <2> QED BY <1>6
<1> HIDE DEF c
<1>8. c[0] = <<>> /\ \A i \in 1..n : c[i] = F(i, c[i - 1])
  <2>1. c = [i \in 0..n |-> IF i = 0 THEN <<>> ELSE F(i, c[i - 1])]
    <3> HIDE DEF Eq
    <3> QED BY <1>7, <1>e
  <2> QED BY <2>1, <1>0
<1> QED BY <1>1, <1>8 DEF n, F

\* There are more rounds than a list has elements.
LEMMA RoundsSuffice ==
  ASSUME NEW q, WellFormed(q), NEW l \in Lists
  PROVE  Rounds \in Nat /\ Len(q[l]) < Rounds
<1> DEFINE n == Len(q[l])
<1>1. /\ q[l] \in Seq(Elements) /\ n \in Nat
      /\ \A i, j \in 1..n : q[l][i] = q[l][j] => i = j
  BY WellFormedFacts
<1>2. q[l] \in Injection(1..n, Elements)
  <2>1. q[l] \in [1..n -> Elements]
    BY <1>1
  <2> QED BY <2>1, <1>1 DEF Injection, IsInjective
<1>3. Cardinality(1..n) <= Cardinality(Elements)
  BY <1>2, ListConstants, FS_Injection
<1>4. Cardinality(1..n) = n
  BY <1>1, FS_Interval
<1>5. Cardinality(Elements) \in Nat
  BY ListConstants, FS_CardinalityType
<1> HIDE DEF n
<1>6. n < Rounds /\ Rounds \in Nat
  BY <1>1, <1>3, <1>4, <1>5 DEF Rounds
<1> QED BY <1>6 DEF n

\* The loop visits every element once, in order, and leaves those that its body
\* does not remove.
LEMMA ForeachApplied ==
  ASSUME NEW s, NEW q, WellFormed(q), Represents(s, q), NEW removed
  PROVE  LET r    == LIST_FOREACH(s, 1, removed)
             left == Remaining(q[1], removed)
         IN  /\ r.visited = q[1] /\ r.at = NULL
             /\ Holds(r.store, 1, left) /\ LIST_SIZE(r.store, 1) = Len(left)
<1> DEFINE z == q[1]
           n == Len(z)
<1>0. 1 \in Lists
  BY ListsUsed
<1>1. /\ z \in Seq(Elements) /\ n \in Nat
      /\ \A i \in 1..n : z[i] \in Elements
  BY <1>0, WellFormedFacts
<1>2. Rounds \in Nat /\ n < Rounds
  BY <1>0, RoundsSuffice
<1>3. PICK g : /\ g[0] = [at |-> LIST_FIRST(s, 1), visited |-> <<>>, store |-> s]
               /\ \A i \in 1..Rounds : g[i] = Round(g[i - 1], 1, removed)
               /\ LIST_FOREACH(s, 1, removed) = g[Rounds]
  BY <1>2, ForeachRounds
<1>4. PICK f : /\ f[0] = <<>>
               /\ \A i \in 1..n : f[i] = IF z[i] \in removed THEN f[i - 1]
                                         ELSE Append(f[i - 1], z[i])
               /\ Remaining(z, removed) = f[n]
  BY <1>1, RemainingDefined
\* After i rounds the list holds c: what is left of the first i elements, and
\* the others.
<1> DEFINE Cur(c, i) == /\ c \in Seq(Elements) /\ Len(c) = Len(f[i]) + (n - i)
                        /\ \A k \in 1..Len(f[i]) : c[k] = f[i][k]
                        /\ \A k \in 1..(n - i) : c[Len(f[i]) + k] = z[i + k]
           Seen(i) == /\ g[i].at = IF i < n THEN z[i + 1] ELSE NULL
                      /\ g[i].visited \in Seq(Elements) /\ Len(g[i].visited) = i
                      /\ \A k \in 1..i : g[i].visited[k] = z[k]
           Left(i) == \E c : /\ Cur(c, i)
                             /\ WellFormed([q EXCEPT ![1] = c])
                             /\ Represents(g[i].store, [q EXCEPT ![1] = c])
           P == {i \in 0..n : f[i] \in Seq(Elements) /\ Seen(i) /\ Left(i)}
<1>w. q \in [Lists -> Seq(Elements)]
  BY DEF WellFormed
<1>5. 0 \in P
  <2>1. f[0] \in Seq(Elements) /\ Len(f[0]) = 0
    BY <1>4
  <2>2. Seen(0)
    <3>1. Listed(s, 1, z)
      BY <1>0, RepresentsListed
    <3>2. s.head[1].first = IF 0 < n THEN z[0 + 1] ELSE NULL
      BY <3>1, <1>1, ListedFacts
    <3> QED BY <3>2, <1>3 DEF LIST_FIRST
  <2>3. Left(0)
    <3>1. Cur(z, 0)
      BY <2>1, <1>1
    <3>2. [q EXCEPT ![1] = z] = q /\ g[0].store = s
      BY <1>w, <1>3
    <3> HIDE DEF Cur, z
    <3> QED BY <3>1, <3>2
  <2> HIDE DEF Seen, Left
  <2> QED BY <2>1, <2>2, <2>3, <1>1
<1>6. ASSUME NEW i \in 0..(n - 1), i \in P PROVE i + 1 \in P
  <2>1. f[i] \in Seq(Elements) /\ Seen(i) /\ Left(i) /\ i \in Nat /\ i < n
    <3> HIDE DEF Seen, Left, n
    <3> QED BY <1>6, <1>1
  <2> DEFINE m == Len(f[i])
             p == m + 1
             e == z[i + 1]
  <2>2. PICK c : /\ Cur(c, i)
                 /\ WellFormed([q EXCEPT ![1] = c])
                 /\ Represents(g[i].store, [q EXCEPT ![1] = c])
    BY <2>1
  <2> DEFINE w == [q EXCEPT ![1] = c]
             st == g[i].store
  <2>3. /\ i + 1 \in 1..n /\ i + 1 \in 1..Rounds /\ (i + 1) - 1 = i /\ i + 1 \in 0..n
        /\ e \in Elements /\ m \in Nat
    BY <2>1, <1>1, <1>2
  <2>a. m \in Nat /\ n \in Nat /\ i \in Nat /\ i < n
    BY <2>1, <2>3, <1>1
  <2>4. /\ c \in Seq(Elements) /\ Len(c) = m + (n - i)
        /\ \A k \in 1..m : c[k] = f[i][k]
        /\ \A k \in 1..(n - i) : c[m + k] = z[i + k]
    BY <2>2
  <2>5. p \in 1..Len(c) /\ c[p] = e /\ (p = Len(c) <=> i + 1 = n)
        /\ (i + 1 # n => c[p + 1] = z[i + 2])
    <3>1. p \in 1..Len(c) /\ (p = Len(c) <=> i + 1 = n)
      <4>1. Len(c) = m + (n - i) /\ m \in Nat /\ n \in Nat /\ i \in Nat /\ i < n
        BY <2>1, <2>3, <2>4, <1>1
      <4> HIDE DEF m, n
      <4> QED BY <4>1
    <3>2. 1 \in 1..(n - i) /\ (i + 1 # n => 2 \in 1..(n - i)) /\ p + 1 = m + 2
      BY <2>1, <2>3, <1>1
    <3>3. c[m + 1] = z[i + 1] /\ (i + 1 # n => c[m + 2] = z[i + 2])
      BY <3>2, <2>4
    <3> QED BY <3>1, <3>2, <3>3
  <2>6. w[1] = c /\ Listed(st, 1, c)
    <3>1. w[1] = c
      BY <1>0, <1>w
    <3>2. Listed(st, 1, w[1])
      BY <2>2, <1>0, RepresentsListed
    <3> HIDE DEF w
    <3> QED BY <3>1, <3>2
  <2>7. g[i].at = e
    BY <2>1
  <2>8. LOOP_LIST_NEXT(st, e) = IF i + 1 < n THEN z[i + 2] ELSE NULL
    <3>1. LOOP_LIST_NEXT(st, e) = st.next[c[p]]
      BY <2>3, <2>5, ListConstants DEF LOOP_LIST_NEXT, LIST_NEXT
    <3>2. st.next[c[p]] = IF p = Len(c) THEN NULL ELSE c[p + 1]
      <4>1. \A k \in 1..Len(c) : st.next[c[k]] = IF k = Len(c) THEN NULL ELSE c[k + 1]
        BY <2>6, ListedFacts
      <4> HIDE DEF p, st
      <4> QED BY <4>1, <2>5
    <3>3. i + 1 < n <=> i + 1 # n
      BY <2>1, <1>1
    <3> HIDE DEF st, e, p
    <3> QED BY <3>1, <3>2, <3>3, <2>5
  <2>9. e # NULL
    BY <2>3, ListConstants
  <2>10. /\ g[i + 1].at = IF i + 1 < n THEN z[i + 2] ELSE NULL
         /\ g[i + 1].visited = Append(g[i].visited, e)
         /\ g[i + 1].store = IF e \in removed THEN LIST_REMOVE(st, 1, e) ELSE st
    <3>1. g[i + 1] = Round(g[i], 1, removed)
      BY <2>3, <1>3
    <3>2. Round(g[i], 1, removed) =
            [at |-> LOOP_LIST_NEXT(st, e), visited |-> Append(g[i].visited, e),
             store |-> IF e \in removed THEN LIST_REMOVE(st, 1, e) ELSE st]
      <4> HIDE DEF e
      <4> QED BY <2>7, <2>9 DEF Round
    <3> HIDE DEF st, e
    <3> QED BY <3>1, <3>2, <2>8
  <2>11. Seen(i + 1)
    <3>1. (i + 1) + 1 = i + 2
      BY <2>1
    <3>2. /\ g[i + 1].visited \in Seq(Elements) /\ Len(g[i + 1].visited) = i + 1
          /\ \A k \in 1..i : g[i + 1].visited[k] = z[k]
          /\ g[i + 1].visited[i + 1] = z[i + 1]
      <4> DEFINE v == g[i].visited
      <4>1. v \in Seq(Elements) /\ Len(v) = i /\ \A k \in 1..i : v[k] = z[k]
        BY <2>1
      <4> HIDE DEF v, e
      <4>2. /\ Append(v, e) \in Seq(Elements) /\ Len(Append(v, e)) = i + 1
            /\ \A k \in 1..i : Append(v, e)[k] = v[k]
            /\ Append(v, e)[i + 1] = e
        BY <4>1, <2>3
      <4> QED BY <4>1, <4>2, <2>10 DEF v, e
    <3>3. \A k \in 1..(i + 1) : k \in 1..i \/ k = i + 1
      BY <2>1
    <3> QED BY <3>1, <3>2, <3>3, <2>10
  <2>12. CASE e \in removed
    <3>1. f[i + 1] = f[i]
      BY <2>3, <2>12, <1>4
    <3> DEFINE d == RemoveAt(c, p)
               t == LIST_REMOVE(st, 1, c[p])
    <3>2. Removed(d, c, p)
      BY <2>4, <2>5, RemoveAtRemoves
    <3>3. Unlinked(st, t, 1, c, p)
      BY <2>5, <2>6, RemoveLinks
    <3> HIDE DEF d, t
    <3>4. WellFormed([w EXCEPT ![1] = d]) /\ Represents(t, [w EXCEPT ![1] = d])
      <4> HIDE DEF w, st
      <4>1. WellFormed(w) /\ Represents(st, w) /\ p \in 1..Len(w[1])
            /\ Unlinked(st, t, 1, w[1], p) /\ Removed(d, w[1], p)
        BY <2>2, <2>5, <2>6, <3>2, <3>3 DEF w, st
      <4> HIDE DEF p
      <4> QED BY <4>1, <1>0, UnlinkedRemoves
    <3>5. [w EXCEPT ![1] = d] = [q EXCEPT ![1] = d]
      BY <1>0, <1>w
    <3>6. Cur(d, i + 1)
      <4>1. d \in Seq(Elements) /\ Len(d) = Len(c) - 1
            /\ \A k \in 1..Len(d) : d[k] = IF k < p THEN c[k] ELSE c[k + 1]
        BY <3>2 DEF Removed
      <4>2. Len(f[i + 1]) = m /\ Len(d) = m + (n - (i + 1))
        BY <3>1, <4>1, <2>4, <2>1, <2>3
      <4> HIDE DEF m, n
      <4>3. ASSUME NEW k \in 1..m PROVE d[k] = f[i + 1][k]
        <5>1. k \in 1..Len(d) /\ k < p
          BY <4>2, <2>a
        <5> QED BY <5>1, <4>1, <2>4, <3>1
      <4>4. ASSUME NEW k \in 1..(n - (i + 1)) PROVE d[m + k] = z[(i + 1) + k]
        <5>1. m + k \in 1..Len(d) /\ ~(m + k < p) /\ (m + k) + 1 = m + (k + 1)
              /\ k + 1 \in 1..(n - i) /\ i + (k + 1) = (i + 1) + k
          BY <4>2, <2>a
        <5>2. d[m + k] = c[m + (k + 1)]
          BY <5>1, <4>1
        <5> QED BY <5>1, <5>2, <2>4
      <4> QED BY <4>1, <4>2, <4>3, <4>4
    <3>7. g[i + 1].store = t
      BY <2>10, <2>12, <2>5 DEF t
    <3>8. Left(i + 1)
      <4> HIDE DEF Cur, w
      <4> QED BY <3>4, <3>5, <3>6, <3>7
    <3>9. f[i + 1] \in Seq(Elements)
      BY <3>1, <2>1
    <3> HIDE DEF Seen, Left
    <3> QED BY <2>3, <2>11, <3>8, <3>9
  <2>13. CASE e \notin removed
    <3>1. f[i + 1] = Append(f[i], e)
      BY <2>3, <2>13, <1>4
    <3>2. /\ f[i + 1] \in Seq(Elements) /\ Len(f[i + 1]) = m + 1
          /\ \A k \in 1..m : f[i + 1][k] = f[i][k]
          /\ f[i + 1][m + 1] = e
      <4>1. f[i] \in Seq(Elements) /\ e \in Elements
        BY <2>1, <2>3
      <4> HIDE DEF e
      <4> QED BY <3>1, <4>1
    <3>3. Cur(c, i + 1)
      <4>1. Len(c) = Len(f[i + 1]) + (n - (i + 1))
        <5> HIDE DEF m, n
        <5> QED BY <3>2, <2>a, <2>4
      <4>2. ASSUME NEW k \in 1..(m + 1) PROVE c[k] = f[i + 1][k]
        <5>1. k \in 1..m \/ k = m + 1
          BY <2>3
        <5> HIDE DEF m
        <5> QED BY <5>1, <3>2, <2>4, <2>5 DEF p
      <4>3. ASSUME NEW k \in 1..(n - (i + 1)) PROVE c[(m + 1) + k] = z[(i + 1) + k]
        <5>1. (m + 1) + k = m + (k + 1) /\ k + 1 \in 1..(n - i) /\ i + (k + 1) = (i + 1) + k
          <6> HIDE DEF m, n
          <6> QED BY <2>a
        <5> QED BY <5>1, <2>4
      <4> HIDE DEF m
      <4> QED BY <3>2, <4>1, <4>2, <4>3, <2>4
    <3>4. g[i + 1].store = st
      BY <2>10, <2>13
    <3>5. Left(i + 1)
      <4> HIDE DEF Cur
      <4> QED BY <3>3, <3>4, <2>2
    <3> HIDE DEF Seen, Left
    <3> QED BY <2>3, <2>11, <3>2, <3>5
  <2> QED BY <2>12, <2>13
<1>7. n \in P
  <2> HIDE DEF P, n
  <2>1. \A k \in 0..n : k \in P
    BY <1>1, <1>5, <1>6, Shared!IntervalInduction
  <2> QED BY <2>1, <1>1
<1>8. g[n].at = NULL
  BY <1>7
<1>9. g[n].visited = z
  <2>1. /\ g[n].visited \in Seq(Elements) /\ Len(g[n].visited) = n
        /\ \A k \in 1..n : g[n].visited[k] = z[k]
    BY <1>7
  <2> DEFINE v == g[n].visited
  <2> HIDE DEF v, z
  <2> QED BY <2>1, <1>1, SeqEqual DEF v
<1>10. Holds(g[n].store, 1, f[n]) /\ LIST_SIZE(g[n].store, 1) = Len(f[n])
  <2>1. f[n] \in Seq(Elements) /\ Left(n)
    BY <1>7
  <2>2. PICK c : Cur(c, n) /\ Represents(g[n].store, [q EXCEPT ![1] = c])
    BY <2>1
  <2>3. /\ c \in Seq(Elements) /\ Len(c) = Len(f[n]) /\ \A k \in 1..Len(f[n]) : c[k] = f[n][k]
    BY <2>1, <2>2, <1>1
  <2>4. c = f[n]
    <3> HIDE DEF n
    <3> QED BY <2>1, <2>3, SeqEqual
  <2>5. [q EXCEPT ![1] = c][1] = c
    BY <1>0, <1>w
  <2> QED BY <2>2, <2>4, <2>5, <1>0 DEF Represents, HoldAll
<1>11. g[Rounds] = g[n]
  <2> DEFINE R == {i \in Nat : g[i] = g[n]}
  <2>1. n \in R
    BY <1>1
  <2>2. ASSUME NEW i \in n..(Rounds - 1), i \in R PROVE i + 1 \in R
    <3>1. i + 1 \in 1..Rounds /\ (i + 1) - 1 = i
      BY <1>1, <1>2
    <3>2. g[i + 1] = Round(g[i], 1, removed) /\ g[i].at = NULL
      BY <3>1, <2>2, <1>3, <1>8
    <3>3. Round(g[i], 1, removed) = g[i]
      BY <3>2 DEF Round, LOOP_LIST_NEXT
    <3> QED BY <3>1, <3>2, <3>3, <2>2
  <2>3. \A k \in n..Rounds : k \in R
    <3> HIDE DEF R, n
    <3> QED BY <2>1, <2>2, <1>1, <1>2, Shared!IntervalInduction
  <2> QED BY <2>3, <1>1, <1>2
<1> HIDE DEF n
<1> QED BY <1>3, <1>4, <1>8, <1>9, <1>10, <1>11

-----------------------------------------------------------------------------
(* The calls of the lists, on lists of any length and whatever links the   *)
(* elements were left with, between calls of the other routines.           *)

ListFunctions == {"list", "concat", "foreach"}

ListNext ==
  \/ \E q : \E stale \in Link : \E removed \in SUBSET Elements :
       WellFormed(q) /\ (ListCall(q, stale) \/ ConcatCall(q, stale) \/ ForeachCall(q, stale, removed))
  \/ \E fn, in, out : fn \notin ListFunctions /\ Call(fn, in, out)
  \/ Return

ListSpec == LibraryInit /\ [][ListNext]_libvars

\* A call of an operation, of LIST_CONCAT or of a loop ends with the lists that
\* the sequences say.
LEMMA ListCallCorrect ==
  ASSUME NEW q, WellFormed(q), NEW stale \in Link, ListCall(q, stale)
  PROVE  ListsImplementSequences'
<1>1. PICK op \in Operations(q) : Call("list", [q |-> q, op |-> op], Apply(Store(q, stale), op))
  BY DEF ListCall
<1>2. /\ call'.fn = "list" /\ call'.in.q = q /\ call'.in.op = op
      /\ result' = Apply(Store(q, stale), op)
  BY <1>1 DEF Call
<1>3. HoldAll(Apply(Store(q, stale), op), After(q, op))
  BY StoreRepresents, OperationApplied
<1>4. ListsAreSequences'
  BY <1>2, <1>3 DEF ListsAreSequences, HoldAll, After
<1>5. ForeachVisitsEach'
  BY <1>2 DEF ForeachVisitsEach
<1> QED BY <1>4, <1>5 DEF ListsImplementSequences

LEMMA ConcatCallCorrect ==
  ASSUME NEW q, WellFormed(q), NEW stale \in Link, ConcatCall(q, stale)
  PROVE  ListsImplementSequences'
<1>1. /\ call'.fn = "concat" /\ call'.in.q = q
      /\ result' = LIST_CONCAT(Store(q, stale), 1, 2)
  BY DEF ConcatCall, Call
<1>2. Represents(Store(q, stale), q)
  BY StoreRepresents
<1>3. /\ Holds(LIST_CONCAT(Store(q, stale), 1, 2), 1, q[1] \o q[2])
      /\ (q[1] = <<>> \/ q[2] = <<>>)
         => LIST_SIZE(LIST_CONCAT(Store(q, stale), 1, 2), 1) = Len(q[1] \o q[2])
      /\ LET left == IF q[1] = <<>> THEN q[2] ELSE <<>>
         IN  /\ Holds(LIST_CONCAT(Store(q, stale), 1, 2), 2, left)
             /\ LIST_SIZE(LIST_CONCAT(Store(q, stale), 1, 2), 2) = Len(left)
  BY <1>2, ConcatApplied
<1>4. ListsAreSequences'
  BY <1>1, <1>3 DEF ListsAreSequences
<1>5. ForeachVisitsEach'
  BY <1>1 DEF ForeachVisitsEach
<1> QED BY <1>4, <1>5 DEF ListsImplementSequences

LEMMA ForeachCallCorrect ==
  ASSUME NEW q, WellFormed(q), NEW stale \in Link, NEW removed, ForeachCall(q, stale, removed)
  PROVE  ListsImplementSequences'
<1>1. /\ call'.fn = "foreach" /\ call'.in.q = q /\ call'.in.removed = removed
      /\ result' = LIST_FOREACH(Store(q, stale), 1, removed)
  BY DEF ForeachCall, Call
<1>2. Represents(Store(q, stale), q)
  BY StoreRepresents
<1>3. LET r    == LIST_FOREACH(Store(q, stale), 1, removed)
          left == Remaining(q[1], removed)
      IN  /\ r.visited = q[1] /\ r.at = NULL
          /\ Holds(r.store, 1, left) /\ LIST_SIZE(r.store, 1) = Len(left)
  BY <1>2, ForeachApplied
<1>4. ForeachVisitsEach'
  BY <1>1, <1>3 DEF ForeachVisitsEach
<1>5. ListsAreSequences'
  BY <1>1 DEF ListsAreSequences
<1> QED BY <1>4, <1>5 DEF ListsImplementSequences

\* The macros of inc/queue.h implement sequences: insertion at either end and
\* next to an element, removal, LIST_INIT, LIST_CONCAT (but for the size of the
\* result of two lists with elements) and the loops that remove while they
\* iterate, on any lists.
THEOREM ListsCorrect == ListSpec => []ListsImplementSequences
<1>1. LibraryInit => ListsImplementSequences
  <2>1. ASSUME LibraryInit PROVE call.fn = "none"
    BY <2>1 DEF LibraryInit, Idle
  <2> QED BY <2>1 DEF ListsImplementSequences, ListsAreSequences, ForeachVisitsEach
<1>2. ASSUME ListsImplementSequences, [ListNext]_libvars PROVE ListsImplementSequences'
  <2>1. CASE \E q : \E stale \in Link : \E removed \in SUBSET Elements :
               /\ WellFormed(q)
               /\ ListCall(q, stale) \/ ConcatCall(q, stale) \/ ForeachCall(q, stale, removed)
    BY <2>1, ListCallCorrect, ConcatCallCorrect, ForeachCallCorrect
  <2>2. CASE \E fn, in, out : fn \notin ListFunctions /\ Call(fn, in, out)
    <3>1. call'.fn \notin ListFunctions
      BY <2>2 DEF Call
    <3> QED BY <3>1 DEF ListFunctions, ListsImplementSequences, ListsAreSequences, ForeachVisitsEach
  <2>3. CASE Return
    <3>1. call'.fn = "none"
      BY <2>3 DEF Return, Idle
    <3> QED BY <3>1 DEF ListsImplementSequences, ListsAreSequences, ForeachVisitsEach
  <2>4. CASE UNCHANGED libvars
    BY <1>2, <2>4 DEF libvars, ListsImplementSequences, ListsAreSequences, ForeachVisitsEach
  <2> QED BY <1>2, <2>1, <2>2, <2>3, <2>4 DEF ListNext
<1> QED BY <1>1, <1>2, PTL DEF ListSpec

-----------------------------------------------------------------------------
(* The search of the stabs *)

\* The types of stabs that mark addresses, as the comment above stab_binsearch
\* has them.
AddressTypes == {"SO", "FUN"}

\* "some stab types are arranged in increasing order by instruction address": a
\* table in which the addresses of the stabs of such a type do not fall, and a
\* source file has an address.
Ordered(stabs) ==
  /\ \E n \in Nat : DOMAIN stabs = 0..(n - 1)
  /\ \A i \in DOMAIN stabs : /\ stabs[i].value \in Int
                             /\ stabs[i].type = "SO" => stabs[i].value # 0
  /\ \A i, j \in DOMAIN stabs :
       i < j /\ stabs[i].type = stabs[j].type /\ stabs[i].type \in AddressTypes =>
         stabs[i].value <= stabs[j].value

\* The part L..R of such a table, and the stabs of the type there, in which the
\* increment of addr from a passes no stab.
Region(stabs, L, R, type, a) ==
  /\ L \in Nat /\ R \in Int /\ L <= R + 1
  /\ \A i \in L..R : stabs[i].type = type => stabs[i].value \in Int
  /\ \A i, j \in L..R :
       stabs[i].type = type /\ stabs[j].type = type =>
         /\ i < j => stabs[i].value <= stabs[j].value
         /\ stabs[i].value = a => stabs[j].value <= a \/ stabs[j].value > a + 4

SearchType == [l : Int, r : Int, left : Int, right : Int, any : BOOLEAN, addr : Int]

\* What holds after k rounds of a search for a: the stabs below l are not above
\* a and those behind r are, all of which have been counted as matches; right
\* has followed r, left is a match or where it was; addr, whether it has been
\* incremented or not, parts the stabs as a does; and each round has shortened
\* l..r but for the one that increments addr.
Searching(stabs, L, R, type, a, s, k) ==
  /\ s \in SearchType
  /\ L <= s.l /\ s.l <= R + 1 /\ L - 1 <= s.r /\ s.r <= R /\ s.right = s.r
  /\ \A i \in L..R : stabs[i].type = type =>
       /\ i < s.l => stabs[i].value <= a /\ s.any
       /\ i > s.r => stabs[i].value > a /\ s.any
       /\ stabs[i].value <= s.addr <=> stabs[i].value <= a
       /\ s.addr # a => stabs[i].value # s.addr
  /\ s.r # R => s.r + 1 \in L..R /\ stabs[s.r + 1].type = type
  /\ s.left # L => s.left \in L..R /\ stabs[s.left].type = type /\ stabs[s.left].value <= a
  /\ s.any => \E i \in L..R : stabs[i].type = type
  /\ s.l > s.r \/ s.r - s.l + k <= R - L + (IF s.addr = a THEN 0 ELSE 1)
  /\ ~s.any => s.left = L

\* A round keeps what holds of the search.
LEMMA RoundSearches ==
  ASSUME NEW stabs, NEW L, NEW R, NEW type, NEW a \in Int, Region(stabs, L, R, type, a),
         NEW k \in Nat, NEW s, Searching(stabs, L, R, type, a, s, k), s.l <= s.r
  PROVE  Searching(stabs, L, R, type, a, SearchRound(stabs, type, s), k + 1)
<1> DEFINE true_m  == (s.l + s.r) \div 2
           matches == {i \in s.l..true_m : stabs[i].type = type}
           m       == CHOOSE i \in matches : \A j \in matches : j <= i
           t       == SearchRound(stabs, type, s)
<1>0. L \in Nat /\ R \in Int /\ s \in SearchType
  BY DEF Region, Searching
<1>1. s.l \in Int /\ s.r \in Int /\ s.left \in Int /\ s.addr \in Int /\ s.any \in BOOLEAN
  BY <1>0 DEF SearchType
<1>2. true_m \in Int /\ s.l <= true_m /\ true_m <= s.r
  BY <1>1
<1>3. L <= s.l /\ s.l <= R + 1 /\ L - 1 <= s.r /\ s.r <= R /\ s.right = s.r
  BY DEF Searching
<1>4. s.r - s.l + k <= R - L + (IF s.addr = a THEN 0 ELSE 1)
  BY <1>1 DEF Searching
<1> HIDE DEF true_m
<1>5. CASE matches = {}
  <2>1. t = [s EXCEPT !.l = true_m + 1]
    BY <1>5 DEF SearchRound, true_m
  <2> HIDE DEF t
  <2>2. /\ t \in SearchType /\ t.l = true_m + 1 /\ t.r = s.r /\ t.left = s.left /\ t.right = s.right
        /\ t.any = s.any /\ t.addr = s.addr
    BY <2>1, <1>0, <1>2 DEF SearchType
  <2>3. ASSUME NEW i \in L..R, stabs[i].type = type, i < t.l PROVE i < s.l
    BY <2>3, <2>2, <1>0, <1>1, <1>2, <1>5
  <2>4. t.l > t.r \/ t.r - t.l + (k + 1) <= R - L + (IF t.addr = a THEN 0 ELSE 1)
    BY <2>2, <1>0, <1>1, <1>2, <1>4
  <2>5. L <= t.l /\ t.l <= R + 1
    BY <2>2, <1>0, <1>1, <1>2, <1>3
  <2> QED BY <2>2, <2>3, <2>4, <2>5 DEF Searching, t
<1>6. CASE matches # {}
  <2>1. m \in matches /\ \A j \in matches : j <= m
    <3>1. \E i \in matches : \A j \in matches : j <= i
      <4>1. matches \subseteq s.l..true_m
        OBVIOUS
      <4> HIDE DEF matches
      <4> QED BY <4>1, <1>1, <1>2, <1>6, Shared!GreatestInInterval
    <3> HIDE DEF matches
    <3> QED BY <3>1
  <2> HIDE DEF m
  <2>2. m \in Int /\ s.l <= m /\ m <= true_m /\ m \in L..R /\ stabs[m].type = type
    BY <2>1, <1>0, <1>1, <1>2, <1>3
  <2>3. ASSUME NEW i \in L..R, stabs[i].type = type, i > m, i <= true_m PROVE FALSE
    BY <2>1, <2>2, <2>3, <1>0, <1>1, <1>2
  <2>4. stabs[m].value \in Int
    BY <2>2 DEF Region
  <2>5. /\ (stabs[m].value <= s.addr <=> stabs[m].value <= a)
        /\ (s.addr # a => stabs[m].value # s.addr)
    BY <2>2 DEF Searching
  <2>6. ASSUME NEW i \in L..R, stabs[i].type = type
        PROVE  /\ stabs[i].value \in Int
               /\ i <= m => stabs[i].value <= stabs[m].value
               /\ i >= m => stabs[i].value >= stabs[m].value
               /\ stabs[m].value = a => stabs[i].value <= a \/ stabs[i].value > a + 4
    <3>1. stabs[i].value \in Int /\ i \in Int
      BY <2>6, <1>0 DEF Region
    <3>2. /\ i < m => stabs[i].value <= stabs[m].value
          /\ m < i => stabs[m].value <= stabs[i].value
          /\ stabs[m].value = a => stabs[i].value <= a \/ stabs[i].value > a + 4
      BY <2>2, <2>6 DEF Region
    <3> QED BY <3>1, <3>2, <2>2, <2>4
  <2>7. CASE stabs[m].value < s.addr
    <3>1. t = [s EXCEPT !.any = TRUE, !.left = m, !.l = true_m + 1]
      BY <1>6, <2>7 DEF SearchRound, true_m, m
    <3> HIDE DEF t
    <3>2. /\ t \in SearchType /\ t.l = true_m + 1 /\ t.r = s.r /\ t.left = m /\ t.right = s.right
          /\ t.any = TRUE /\ t.addr = s.addr
      <4>1. s = [l |-> s.l, r |-> s.r, left |-> s.left, right |-> s.right, any |-> s.any, addr |-> s.addr]
            /\ s.right \in Int
        BY <1>0 DEF SearchType
      <4>2. t.l = true_m + 1 /\ t.r = s.r /\ t.left = m /\ t.right = s.right /\ t.addr = s.addr
        BY <3>1, <1>0, <1>2, <2>2, <4>1
      <4>3. t.any = TRUE
        BY <3>1, <4>1
      <4>4. t = [l |-> t.l, r |-> t.r, left |-> t.left, right |-> t.right, any |-> t.any, addr |-> t.addr]
        BY <3>1, <4>1
      <4>5. t.l \in Int /\ t.r \in Int /\ t.left \in Int /\ t.right \in Int /\ t.addr \in Int
        BY <1>0, <1>2, <2>2, <4>1, <4>2, <1>1
      <4>6. t.any \in BOOLEAN
        BY <4>3
      <4>7. t \in SearchType
        BY <4>4, <4>5, <4>6 DEF SearchType
      <4> QED BY <4>2, <4>3, <4>7
    <3>3. stabs[m].value <= a
      BY <2>4, <2>5, <2>7, <1>1
    <3>4. ASSUME NEW i \in L..R, stabs[i].type = type, i < t.l PROVE stabs[i].value <= a
      <4>1. i <= m
        BY <3>2, <3>4, <2>2, <2>3, <1>0, <1>2
      <4> QED BY <4>1, <3>3, <3>4, <2>4, <2>6
    <3>5. t.l > t.r \/ t.r - t.l + (k + 1) <= R - L + (IF t.addr = a THEN 0 ELSE 1)
      BY <3>2, <1>0, <1>1, <1>2, <1>4
    <3>6. L <= t.l /\ t.l <= R + 1
      BY <3>2, <1>0, <1>1, <1>2, <1>3
    <3> QED BY <3>2, <3>3, <3>4, <3>5, <3>6, <2>2 DEF Searching, t
  <2>8. CASE stabs[m].value > s.addr
    <3>1. t = [s EXCEPT !.any = TRUE, !.right = m - 1, !.r = m - 1]
      BY <1>6, <2>4, <1>1, <2>8 DEF SearchRound, true_m, m
    <3> HIDE DEF t
    <3>2. /\ t \in SearchType /\ t.l = s.l /\ t.r = m - 1 /\ t.left = s.left /\ t.right = m - 1
          /\ t.any = TRUE /\ t.addr = s.addr
      <4>1. s = [l |-> s.l, r |-> s.r, left |-> s.left, right |-> s.right, any |-> s.any, addr |-> s.addr]
            /\ s.right \in Int
        BY <1>0 DEF SearchType
      <4>2. t.l = s.l /\ t.r = m - 1 /\ t.left = s.left /\ t.right = m - 1 /\ t.addr = s.addr
        BY <3>1, <1>0, <2>2, <4>1
      <4>3. t.any = TRUE
        BY <3>1, <4>1
      <4>4. t = [l |-> t.l, r |-> t.r, left |-> t.left, right |-> t.right, any |-> t.any, addr |-> t.addr]
        BY <3>1, <4>1
      <4>5. t.l \in Int /\ t.r \in Int /\ t.left \in Int /\ t.right \in Int /\ t.addr \in Int
        BY <1>0, <2>2, <4>1, <4>2, <1>1
      <4>6. t.any \in BOOLEAN
        BY <4>3
      <4>7. t \in SearchType
        BY <4>4, <4>5, <4>6 DEF SearchType
      <4> QED BY <4>2, <4>3, <4>7
    <3>3. stabs[m].value > a
      BY <2>4, <2>5, <2>8, <1>1
    <3>4. ASSUME NEW i \in L..R, stabs[i].type = type, i > t.r PROVE stabs[i].value > a
      <4>1. i >= m
        BY <3>2, <3>4, <2>2, <1>0
      <4> QED BY <4>1, <3>3, <3>4, <2>4, <2>6
    <3>5. t.l > t.r \/ t.r - t.l + (k + 1) <= R - L + (IF t.addr = a THEN 0 ELSE 1)
      BY <3>2, <2>2, <1>0, <1>1, <1>2, <1>4
    <3>6. L - 1 <= t.r /\ t.r <= R /\ t.r + 1 = m
      BY <3>2, <2>2, <1>0, <1>1, <1>2, <1>3
    <3> QED BY <3>2, <3>4, <3>5, <3>6, <2>2 DEF Searching, t
  <2>9. CASE stabs[m].value = s.addr
    <3>1. t = [s EXCEPT !.any = TRUE, !.left = m, !.l = m, !.addr = @ + 4]
      BY <1>6, <2>4, <1>1, <2>9 DEF SearchRound, true_m, m, AddrIncrement
    <3> HIDE DEF t
    <3>2. /\ t \in SearchType /\ t.l = m /\ t.r = s.r /\ t.left = m /\ t.right = s.right
          /\ t.any = TRUE /\ t.addr = s.addr + 4
      <4>1. s = [l |-> s.l, r |-> s.r, left |-> s.left, right |-> s.right, any |-> s.any, addr |-> s.addr]
            /\ s.right \in Int
        BY <1>0 DEF SearchType
      <4>2. t.l = m /\ t.r = s.r /\ t.left = m /\ t.right = s.right /\ t.addr = s.addr + 4
        BY <3>1, <1>0, <1>1, <2>2, <4>1
      <4>3. t.any = TRUE
        BY <3>1, <4>1
      <4>4. t = [l |-> t.l, r |-> t.r, left |-> t.left, right |-> t.right, any |-> t.any, addr |-> t.addr]
        BY <3>1, <4>1
      <4>5. t.l \in Int /\ t.r \in Int /\ t.left \in Int /\ t.right \in Int /\ t.addr \in Int
        BY <1>0, <1>1, <2>2, <4>1, <4>2
      <4>6. t.any \in BOOLEAN
        BY <4>3
      <4>7. t \in SearchType
        BY <4>4, <4>5, <4>6 DEF SearchType
      <4> QED BY <4>2, <4>3, <4>7
    <3>3. s.addr = a /\ stabs[m].value = a /\ t.addr = a + 4
      BY <2>5, <2>9, <3>2
    <3>4. ASSUME NEW i \in L..R, stabs[i].type = type, i < t.l PROVE stabs[i].value <= a
      BY <3>2, <3>3, <3>4, <2>2, <2>4, <2>6, <1>0
    <3>5. ASSUME NEW i \in L..R, stabs[i].type = type
          PROVE  (stabs[i].value <= t.addr <=> stabs[i].value <= a) /\ stabs[i].value # t.addr
      BY <3>3, <3>5, <2>6
    <3>6. t.l > t.r \/ t.r - t.l + (k + 1) <= R - L + (IF t.addr = a THEN 0 ELSE 1)
      BY <3>2, <3>3, <2>2, <1>0, <1>1, <1>2, <1>4
    <3>7. L <= t.l /\ t.l <= R + 1
      BY <3>2, <2>2, <1>0, <1>1, <1>2, <1>3
    <3> QED BY <3>2, <3>3, <3>4, <3>5, <3>6, <3>7, <2>2 DEF Searching, t
  <2> QED BY <2>4, <2>7, <2>8, <2>9, <1>1
<1> QED BY <1>5, <1>6

\* A round stays in the type of the search's state.
LEMMA RoundTyped ==
  ASSUME NEW stabs, NEW type, NEW s \in SearchType
  PROVE  (IF s.l > s.r THEN s ELSE SearchRound(stabs, type, s)) \in SearchType
<1> DEFINE true_m  == (s.l + s.r) \div 2
           matches == {i \in s.l..true_m : stabs[i].type = type}
           m       == CHOOSE i \in matches : \A j \in matches : j <= i
           t       == SearchRound(stabs, type, s)
<1>1. /\ s.l \in Int /\ s.r \in Int /\ s.left \in Int /\ s.right \in Int /\ s.addr \in Int
      /\ s.any \in BOOLEAN
      /\ s = [l |-> s.l, r |-> s.r, left |-> s.left, right |-> s.right, any |-> s.any, addr |-> s.addr]
  BY DEF SearchType
<1>2. true_m \in Int
  BY <1>1
<1> HIDE DEF true_m
<1>3. matches # {} => m \in Int
  <2>1. SUFFICES ASSUME matches # {} PROVE m \in Int
    OBVIOUS
  <2>2. matches \subseteq s.l..true_m
    OBVIOUS
  <2> HIDE DEF matches
  <2>3. \E i \in matches : \A j \in matches : j <= i
    BY <2>1, <2>2, <1>1, <1>2, Shared!GreatestInInterval
  <2>4. m \in matches
    BY <2>3
  <2> HIDE DEF m
  <2> QED BY <2>2, <2>4, <1>1, <1>2
<1> HIDE DEF m, matches
<1>4. \/ t = [s EXCEPT !.l = true_m + 1]
      \/ matches # {} /\ \/ t = [s EXCEPT !.any = TRUE, !.left = m, !.l = true_m + 1]
                         \/ t = [s EXCEPT !.any = TRUE, !.right = m - 1, !.r = m - 1]
                         \/ t = [s EXCEPT !.any = TRUE, !.left = m, !.l = m, !.addr = @ + 4]
  BY DEF SearchRound, true_m, m, matches, AddrIncrement
<1> HIDE DEF t
<1>5. /\ t = [l |-> t.l, r |-> t.r, left |-> t.left, right |-> t.right, any |-> t.any, addr |-> t.addr]
      /\ t.l \in Int /\ t.r \in Int /\ t.left \in Int /\ t.right \in Int /\ t.addr \in Int
  <2>1. CASE t = [s EXCEPT !.l = true_m + 1]
    BY <2>1, <1>1, <1>2
  <2>2. CASE matches # {} /\ t = [s EXCEPT !.any = TRUE, !.left = m, !.l = true_m + 1]
    <3>1. t = [l |-> t.l, r |-> t.r, left |-> t.left, right |-> t.right, any |-> t.any, addr |-> t.addr]
      BY <2>2, <1>1
    <3>2. t.l \in Int /\ t.r \in Int /\ t.left \in Int /\ t.right \in Int /\ t.addr \in Int
      BY <2>2, <1>1, <1>2, <1>3
    <3> QED BY <3>1, <3>2
  <2>3. CASE matches # {} /\ t = [s EXCEPT !.any = TRUE, !.right = m - 1, !.r = m - 1]
    <3>1. t = [l |-> t.l, r |-> t.r, left |-> t.left, right |-> t.right, any |-> t.any, addr |-> t.addr]
      BY <2>3, <1>1
    <3>2. t.l \in Int /\ t.r \in Int /\ t.left \in Int /\ t.right \in Int /\ t.addr \in Int
      BY <2>3, <1>1, <1>2, <1>3
    <3> QED BY <3>1, <3>2
  <2>4. CASE matches # {} /\ t = [s EXCEPT !.any = TRUE, !.left = m, !.l = m, !.addr = @ + 4]
    <3>1. t = [l |-> t.l, r |-> t.r, left |-> t.left, right |-> t.right, any |-> t.any, addr |-> t.addr]
      BY <2>4, <1>1
    <3>2. t.l \in Int /\ t.r \in Int /\ t.left \in Int /\ t.right \in Int /\ t.addr \in Int
      BY <2>4, <1>1, <1>2, <1>3
    <3> QED BY <3>1, <3>2
  <2> QED BY <1>4, <2>1, <2>2, <2>3, <2>4
<1>6. t.any \in BOOLEAN
  <2>1. t.any = s.any \/ t.any = TRUE
    BY <1>4, <1>1
  <2> QED BY <2>1, <1>1
<1>7. t \in SearchType
  BY <1>5, <1>6 DEF SearchType
<1> QED BY <1>7 DEF t

\* The state of the search after all rounds.
LEMMA SearchEnds ==
  ASSUME NEW stabs, NEW L, NEW R, NEW type, NEW a \in Int, Region(stabs, L, R, type, a),
         NEW N \in Nat, Cardinality(DOMAIN stabs) = N, R - L < N
  PROVE  \E s : /\ Searching(stabs, L, R, type, a, s, 2 * N + 2) /\ s.l > s.r
                /\ stab_binsearch(stabs, L, R, type, a) =
                     LET last == {i \in (s.left + 1)..s.right : stabs[i].type = type}
                     IN  IF ~s.any THEN [left |-> s.left, right |-> s.left - 1]
                         ELSE [left  |-> IF last # {} THEN CHOOSE i \in last : \A j \in last : j <= i
                                         ELSE IF s.right > s.left THEN s.left ELSE s.right,
                               right |-> s.right]
<1> DEFINE n == 2 * N + 2
           F(t) == IF t.l > t.r THEN t ELSE SearchRound(stabs, type, t)
           b == [l |-> L, r |-> R, left |-> L, right |-> R, any |-> FALSE, addr |-> a]
           Eq(f) == f = [k \in 0..n |-> IF k = 0 THEN b ELSE F(f[k - 1])]
           c == CHOOSE f : Eq(f)
           step == [s \in SearchType |-> F(s)]
           Found(s) == LET last == {i \in (s.left + 1)..s.right : stabs[i].type = type}
                       IN  IF ~s.any THEN [left |-> s.left, right |-> s.left - 1]
                           ELSE [left  |-> IF last # {} THEN CHOOSE i \in last : \A j \in last : j <= i
                                           ELSE IF s.right > s.left THEN s.left ELSE s.right,
                                 right |-> s.right]
<1>0. L \in Nat /\ R \in Int /\ L <= R + 1 /\ n \in Nat
  BY DEF Region
<1>1. stab_binsearch(stabs, L, R, type, a) = Found(c[n])
  BY DEF stab_binsearch
<1> HIDE DEF n
<1>2. b \in SearchType
  BY <1>0 DEF SearchType
<1>3. step \in [SearchType -> SearchType] /\ \A s \in SearchType : step[s] = F(s)
  BY RoundTyped
<1> HIDE DEF F, step
<1>4. PICK g \in [0..n -> SearchType] : g[0] = b /\ \A k \in 1..n : g[k] = step[g[k - 1]]
  <2>1. n \in Nat /\ b \in SearchType /\ step \in [SearchType -> SearchType]
    BY <1>0, <1>2, <1>3
  <2> HIDE DEF b, Found, Eq, c
  <2>2. \A S : \A x \in S : \A st \in [S -> S] :
          \E g \in [0..n -> S] : g[0] = x /\ \A k \in 1..n : g[k] = st[g[k - 1]]
    BY <2>1, Shared!LoopExists
  <2>3. \A x \in SearchType : \A st \in [SearchType -> SearchType] :
          \E g \in [0..n -> SearchType] : g[0] = x /\ \A k \in 1..n : g[k] = st[g[k - 1]]
    BY <2>2
  <2>4. \E g \in [0..n -> SearchType] : g[0] = b /\ \A k \in 1..n : g[k] = step[g[k - 1]]
    BY <2>1, <2>3
  <2> QED BY <2>4
<1>5. Eq(g)
  <2> DEFINE e == [k \in 0..n |-> IF k = 0 THEN b ELSE F(g[k - 1])]
  <2> HIDE DEF b
  <2>1. ASSUME NEW k \in 0..n PROVE g[k] = e[k]
    <3>1. CASE k = 0
      BY <3>1, <1>4
    <3>2. CASE k # 0
      <4>1. k \in 1..n /\ k - 1 \in 0..n
        BY <3>2, <1>0
      <4>2. g[k - 1] \in SearchType /\ g[k] = step[g[k - 1]]
        BY <4>1, <1>4
      <4>3. g[k] = F(g[k - 1])
        BY <4>2, <1>3
      <4> QED BY <3>2, <4>3
    <3> QED BY <3>1, <3>2
  <2>2. g = [k \in 0..n |-> g[k]] /\ e = [k \in 0..n |-> e[k]]
    BY <1>4
  <2> HIDE DEF e
  <2>3. g = e
    BY <2>1, <2>2
  <2> QED BY <2>3 DEF e
<1>6. Eq(c)
  <2> HIDE DEF Eq
  <2> QED BY <1>5
<1>7. c[0] = b /\ \A k \in 1..n : c[k] = F(c[k - 1])
  <2> HIDE DEF c, b
  <2> QED BY <1>6, <1>0
<1> HIDE DEF c
<1>8. Searching(stabs, L, R, type, a, c[0], 0)
  BY <1>0, <1>2, <1>7 DEF Searching
<1> DEFINE P == {k \in Nat : Searching(stabs, L, R, type, a, c[k], k)}
<1>9. ASSUME NEW k \in 0..(n - 1), k \in P PROVE k + 1 \in P
  <2>1. k + 1 \in 1..n /\ (k + 1) - 1 = k /\ k \in Nat
    BY <1>0
  <2>2. c[k + 1] = F(c[k]) /\ Searching(stabs, L, R, type, a, c[k], k)
    BY <2>1, <1>7, <1>9
  <2>3. CASE c[k].l > c[k].r
    <3>1. c[k + 1] = c[k]
      BY <2>2, <2>3 DEF F
    <3>2. Searching(stabs, L, R, type, a, c[k], k + 1)
      BY <2>2, <2>3 DEF Searching
    <3> QED BY <3>1, <3>2, <2>1
  <2>4. CASE ~(c[k].l > c[k].r)
    <3>1. c[k + 1] = SearchRound(stabs, type, c[k])
      BY <2>2, <2>4 DEF F
    <3>2. c[k].l <= c[k].r
      BY <2>2, <2>4 DEF Searching, SearchType
    <3>3. Searching(stabs, L, R, type, a, SearchRound(stabs, type, c[k]), k + 1)
      BY <2>1, <2>2, <3>2, RoundSearches
    <3> QED BY <3>1, <3>3, <2>1
  <2> QED BY <2>3, <2>4
<1>10. Searching(stabs, L, R, type, a, c[n], n)
  <2>1. 0 \in P
    BY <1>8
  <2>2. \A k \in 0..n : k \in P
    <3> HIDE DEF P
    <3> QED BY <2>1, <1>0, <1>9, Shared!IntervalInduction
  <2> QED BY <2>2, <1>0
<1>11. c[n].l > c[n].r
  <2>1. c[n].l \in Int /\ c[n].r \in Int /\ L <= c[n].l /\ c[n].r <= R
    BY <1>10 DEF Searching, SearchType
  <2>2. \/ c[n].l > c[n].r
        \/ c[n].r - c[n].l + n <= R - L + (IF c[n].addr = a THEN 0 ELSE 1)
    BY <1>10 DEF Searching
  <2> QED BY <2>1, <2>2, <1>0 DEF n
<1> HIDE DEF Found
<1>12. \E s : Searching(stabs, L, R, type, a, s, n) /\ s.l > s.r
             /\ stab_binsearch(stabs, L, R, type, a) = Found(s)
  BY <1>1, <1>10, <1>11
<1> QED BY <1>12 DEF Found, n

\* stab_binsearch finds the last stab of the type that is not above the address
\* and what lies before the next, if there is such a stab, and none if the region
\* has no stab of the type.
Bracketed(stabs, L, R, type, a) ==
  LET found == stab_binsearch(stabs, L, R, type, a)
      last  == LastUpTo(stabs, L, R, type, a)
  IN  /\ last # -1 => /\ found.left = last
                      /\ found.right = BeforeNext(stabs, L, R, type, a)
                      /\ last \in L..R /\ stabs[last].type = type
                      /\ found.right \in Int /\ last <= found.right /\ found.right <= R
      /\ (\A i \in L..R : stabs[i].type # type) => found.left > found.right

LEMMA SearchFinds ==
  ASSUME NEW stabs, NEW L, NEW R, NEW type, NEW a \in Int, Region(stabs, L, R, type, a),
         NEW N \in Nat, Cardinality(DOMAIN stabs) = N, R - L < N
  PROVE  Bracketed(stabs, L, R, type, a)
<1> DEFINE found == stab_binsearch(stabs, L, R, type, a)
           last  == LastUpTo(stabs, L, R, type, a)
<1>1. PICK s : /\ Searching(stabs, L, R, type, a, s, 2 * N + 2) /\ s.l > s.r
               /\ found =
                    LET scan == {i \in (s.left + 1)..s.right : stabs[i].type = type}
                    IN  IF ~s.any THEN [left |-> s.left, right |-> s.left - 1]
                        ELSE [left  |-> IF scan # {} THEN CHOOSE i \in scan : \A j \in scan : j <= i
                                        ELSE IF s.right > s.left THEN s.left ELSE s.right,
                              right |-> s.right]
  BY SearchEnds
<1> HIDE DEF found
<1>2. /\ L \in Nat /\ R \in Int
      /\ s.l \in Int /\ s.r \in Int /\ s.left \in Int /\ s.right = s.r /\ s.r <= R
  BY <1>1 DEF Region, Searching, SearchType
<1>3. ASSUME NEW i \in L..R, stabs[i].type = type
      PROVE  /\ stabs[i].value \in Int /\ s.any
             /\ i <= s.r => stabs[i].value <= a
             /\ i > s.r => stabs[i].value > a
  <2>1. stabs[i].value \in Int /\ i \in Int
    BY <1>3, <1>2 DEF Region
  <2>2. /\ i < s.l => stabs[i].value <= a /\ s.any
        /\ i > s.r => stabs[i].value > a /\ s.any
    BY <1>1, <1>3 DEF Searching
  <2> QED BY <2>1, <2>2, <1>1, <1>2
<1>4. ASSUME last # -1
      PROVE  /\ found.left = last
             /\ found.right = BeforeNext(stabs, L, R, type, a)
             /\ last \in L..R /\ stabs[last].type = type
             /\ found.right \in Int /\ last <= found.right /\ found.right <= R
  <2> DEFINE S == {i \in L..R : stabs[i].type = type /\ stabs[i].value <= a}
             T == {i \in L..R : stabs[i].type = type /\ stabs[i].value > a}
             scan == {i \in (s.left + 1)..s.right : stabs[i].type = type}
  <2>1. S # {} /\ last = CHOOSE i \in S : \A j \in S : j <= i
    BY <1>4 DEF LastUpTo
  <2> HIDE DEF last
  <2>2. last \in S /\ \A j \in S : j <= last
    <3>1. \E i \in S : \A j \in S : j <= i
      <4>1. S \subseteq L..R
        OBVIOUS
      <4> HIDE DEF S
      <4>2. S # {} /\ L \in Int /\ R \in Int
        BY <2>1, <1>2
      <4> QED BY <4>1, <4>2, Shared!GreatestInInterval
    <3> HIDE DEF S
    <3> QED BY <3>1, <2>1
  <2>3. last \in L..R /\ stabs[last].type = type /\ stabs[last].value <= a /\ last \in Int
    BY <2>2, <1>2
  <2>4. s.any /\ last <= s.r
    BY <2>3, <1>2, <1>3
  <2>5. ASSUME NEW i \in L..R, stabs[i].type = type, i <= s.r PROVE i <= last
    BY <2>2, <2>5, <1>3
  <2>6. L <= s.left /\ s.left <= last
    <3>1. CASE s.left = L
      BY <3>1, <2>3, <1>2
    <3>2. CASE s.left # L
      <4>1. s.left \in L..R /\ stabs[s.left].type = type /\ stabs[s.left].value <= a
        BY <3>2, <1>1 DEF Searching
      <4> QED BY <4>1, <2>2, <1>2
    <3> QED BY <3>1, <3>2
  <2>7. /\ found.left = IF scan # {} THEN CHOOSE i \in scan : \A j \in scan : j <= i
                        ELSE IF s.r > s.left THEN s.left ELSE s.r
        /\ found.right = s.r
    BY <2>4, <1>1, <1>2
  <2>8. ASSUME NEW i \in scan PROVE i \in Int /\ i > s.left /\ i <= last
    <3>1. i \in L..R /\ stabs[i].type = type /\ i <= s.r /\ i \in Int /\ i > s.left
      BY <2>6, <1>2
    <3> QED BY <3>1, <2>5
  <2>9. found.left = last
    <3>1. CASE last = s.left
      <4>1. scan = {}
        BY <3>1, <2>3, <2>8
      <4> HIDE DEF scan
      <4> QED BY <3>1, <4>1, <2>3, <2>4, <2>7, <1>2
    <3>2. CASE last # s.left
      <4>1. last \in scan
        BY <3>2, <2>3, <2>4, <2>6, <1>2
      <4>2. \A i \in scan : i \in Int /\ i <= last
        BY <2>8
      <4> HIDE DEF scan
      <4>3. (CHOOSE i \in scan : \A j \in scan : j <= i) = last
        <5>1. \E i \in scan : \A j \in scan : j <= i
          BY <4>1, <4>2
        <5>2. PICK c \in scan : /\ c = CHOOSE i \in scan : \A j \in scan : j <= i
                                /\ \A j \in scan : j <= c
          BY <5>1
        <5> QED BY <5>2, <4>1, <4>2
      <4> QED BY <4>1, <4>3, <2>7
    <3> QED BY <3>1, <3>2
  <2>10. s.r = BeforeNext(stabs, L, R, type, a)
    <3>1. \A i \in T : i \in L..R /\ i \in Int /\ i > s.r
      <4>1. ASSUME NEW i \in T PROVE i \in L..R /\ i \in Int /\ i > s.r
        <5>1. i \in L..R /\ stabs[i].type = type /\ stabs[i].value > a /\ i \in Int
          BY <1>2
        <5> QED BY <5>1, <1>2, <1>3
      <4> QED BY <4>1
    <3>2. BeforeNext(stabs, L, R, type, a) =
            IF T = {} THEN R ELSE (CHOOSE i \in T : \A j \in T : j >= i) - 1
      BY DEF BeforeNext
    <3>3. CASE s.r = R
      <4>1. T = {}
        BY <3>1, <3>3, <1>2
      <4> HIDE DEF T
      <4> QED BY <3>2, <3>3, <4>1
    <3>4. CASE s.r # R
      <4>1. s.r + 1 \in L..R /\ stabs[s.r + 1].type = type
        BY <3>4, <1>1 DEF Searching
      <4>2. s.r + 1 \in T
        BY <4>1, <1>2, <1>3
      <4> HIDE DEF T
      <4>3. \A i \in T : i >= s.r + 1 /\ i \in Int
        BY <3>1, <1>2
      <4> DEFINE c == CHOOSE i \in T : \A j \in T : j >= i
      <4>4. c \in T /\ \A j \in T : j >= c
        BY <4>2, <4>3
      <4>5. BeforeNext(stabs, L, R, type, a) = c - 1
        BY <3>2, <4>2
      <4> HIDE DEF c
      <4>6. c = s.r + 1
        BY <4>2, <4>3, <4>4, <1>2
      <4> QED BY <4>5, <4>6, <1>2
    <3> QED BY <3>3, <3>4
  <2> QED BY <2>3, <2>4, <2>7, <2>9, <2>10, <1>2
<1>5. ASSUME \A i \in L..R : stabs[i].type # type PROVE found.left > found.right
  <2>1. ~s.any
    BY <1>1, <1>5 DEF Searching
  <2>2. found = [left |-> s.left, right |-> s.left - 1]
    BY <1>1, <2>1
  <2> QED BY <2>2, <1>2
<1> QED BY <1>4, <1>5 DEF Bracketed, found

\* The positions of an ordered table, and the stabs of a type in a part of it.
LEMMA OrderedFacts ==
  ASSUME NEW stabs, Ordered(stabs)
  PROVE  /\ Cardinality(DOMAIN stabs) \in Nat /\ DOMAIN stabs = 0..(Cardinality(DOMAIN stabs) - 1)
         /\ \A type \in AddressTypes : \A a, R \in Int : \A L \in Nat :
              L <= R + 1 /\ R < Cardinality(DOMAIN stabs) /\ ~Misled(stabs, type, a) =>
                Region(stabs, L, R, type, a)
<1>1. PICK n \in Nat : DOMAIN stabs = 0..(n - 1)
  BY DEF Ordered
<1>2. Cardinality(0..(n - 1)) = n
  BY FS_Interval
<1>3. ASSUME NEW type \in AddressTypes, NEW a \in Int, NEW L \in Nat, NEW R \in Int,
             L <= R + 1, R < n, ~Misled(stabs, type, a)
      PROVE  Region(stabs, L, R, type, a)
  <2>1. \A i \in L..R : i \in DOMAIN stabs /\ stabs[i].value \in Int
    BY <1>1, <1>3 DEF Ordered
  <2>2. ASSUME NEW i \in L..R, NEW j \in L..R, stabs[i].type = type, stabs[j].type = type
        PROVE  /\ i < j => stabs[i].value <= stabs[j].value
               /\ stabs[i].value = a => stabs[j].value <= a \/ stabs[j].value > a + 4
    <3>1. i < j => stabs[i].value <= stabs[j].value
      BY <2>1, <2>2 DEF Ordered
    <3>2. stabs[i].value = a => ~(stabs[j].value \in (a + 1)..(a + 4))
      BY <2>1, <2>2, <1>3 DEF Misled, AddrIncrement
    <3> QED BY <3>1, <3>2, <2>1
  <2> QED BY <2>1, <2>2, <1>3 DEF Region
<1> QED BY <1>1, <1>2, <1>3

\* debuginfo_eip reports the last function of the file that does not begin
\* behind the address, and a file stab between the two.
LEMMA DebugFinds ==
  ASSUME NEW stabs, Ordered(stabs), NEW addr \in Int, NEW info, info = debuginfo_eip(stabs, addr),
         NEW N, N = Cardinality(DOMAIN stabs),
         NEW file, file = LastUpTo(stabs, 0, N - 1, "SO", addr),
         NEW next, next = BeforeNext(stabs, 0, N - 1, "SO", addr),
         NEW fn, fn = LastUpTo(stabs, file, next, "FUN", addr),
         file > 0, fn # -1, ~Misled(stabs, "SO", addr), ~Misled(stabs, "FUN", addr)
  PROVE  info.ret = 0 /\ info.fn = fn /\ info.file \in file..fn
<1> DEFINE f == stab_binsearch(stabs, 0, N - 1, "SO", addr)
           g == stab_binsearch(stabs, f.left, f.right, "FUN", addr)
           names == {i \in f.left..g.left : \/ stabs[i].type = "SOL"
                                            \/ stabs[i].type = "SO" /\ stabs[i].value # 0}
<1>1. N \in Nat /\ DOMAIN stabs = 0..(N - 1)
  BY OrderedFacts
<1>2. Region(stabs, 0, N - 1, "SO", addr)
  BY <1>1, OrderedFacts DEF AddressTypes
<1>3. file # -1
  OBVIOUS
<1>4. /\ f.left = file /\ f.right = next
      /\ file \in 0..(N - 1) /\ stabs[file].type = "SO"
      /\ f.right \in Int /\ file <= f.right /\ f.right <= N - 1
  <2>1. N - 1 \in Int /\ (N - 1) - 0 < N /\ Cardinality(DOMAIN stabs) = N
    BY <1>1
  <2>2. f = stab_binsearch(stabs, 0, N - 1, "SO", addr)
    OBVIOUS
  <2> HIDE DEF f, g, names
  <2>3. Bracketed(stabs, 0, N - 1, "SO", addr)
    BY <2>1, <1>1, <1>2, SearchFinds
  <2> QED BY <2>2, <2>3, <1>3 DEF Bracketed
<1>5. file \in Nat /\ next \in Int /\ file <= next /\ next <= N - 1 /\ next - file < N
  BY <1>1, <1>4
<1>6. Region(stabs, file, next, "FUN", addr)
  <2>1. file <= next + 1 /\ next < N
    BY <1>1, <1>5
  <2> QED BY <2>1, <1>5, OrderedFacts DEF AddressTypes
<1>7. g = stab_binsearch(stabs, file, next, "FUN", addr)
  BY <1>4
<1>8. info = LET found == g.left <= g.right
                 lline == IF found THEN g.left ELSE f.left
                 at    == {i \in f.left..lline : \/ stabs[i].type = "SOL"
                                                 \/ stabs[i].type = "SO" /\ stabs[i].value # 0}
             IN  IF f.left = 0 THEN [ret |-> -1, fn |-> -1, file |-> -1]
                 ELSE [ret  |-> 0, fn |-> IF found THEN g.left ELSE -1,
                       file |-> IF at = {} THEN -1 ELSE CHOOSE i \in at : \A j \in at : j <= i]
  BY DEF debuginfo_eip
<1> HIDE DEF g, f
<1>9. g.left = fn /\ fn \in file..next /\ g.right \in Int /\ fn <= g.right
  <2>1. Cardinality(DOMAIN stabs) = N
    OBVIOUS
  <2> HIDE DEF names
  <2>2. Bracketed(stabs, file, next, "FUN", addr)
    BY <2>1, <1>1, <1>5, <1>6, SearchFinds
  <2> QED BY <2>2, <1>7 DEF Bracketed
<1>10. g.left <= g.right /\ f.left # 0
  BY <1>4, <1>9
<1>11. info = [ret |-> 0, fn |-> g.left,
               file |-> IF names = {} THEN -1 ELSE CHOOSE i \in names : \A j \in names : j <= i]
  BY <1>8, <1>10
<1>12. file \in names
  <2>1. file \in DOMAIN stabs
    BY <1>1, <1>4
  <2>2. stabs[file].value # 0
    BY <2>1, <1>4 DEF Ordered
  <2>3. file \in f.left..g.left
    BY <1>4, <1>5, <1>9
  <2> QED BY <2>2, <2>3, <1>4
<1>13. (CHOOSE i \in names : \A j \in names : j <= i) \in names
  <2>1. names \subseteq file..fn /\ names # {} /\ file \in Int /\ fn \in Int
    BY <1>4, <1>5, <1>9, <1>12
  <2> HIDE DEF names
  <2>2. \E i \in names : \A j \in names : j <= i
    BY <2>1, Shared!GreatestInInterval
  <2> QED BY <2>2
<1>14. names \subseteq file..fn
  BY <1>4, <1>9
<1> DEFINE top == CHOOSE i \in names : \A j \in names : j <= i
<1> HIDE DEF names
<1>15. info = [ret |-> 0, fn |-> g.left, file |-> top]
  BY <1>11, <1>12
<1> HIDE DEF top
<1>16. top \in file..fn
  BY <1>13, <1>14 DEF top
<1> QED BY <1>9, <1>15, <1>16

\* Calls of the search, on any ordered table, between calls of other routines.
SearchNext ==
  \/ \E stabs : \E addr \in Int :
       Ordered(stabs) /\ ((\E type \in AddressTypes : SearchCall(stabs, type, addr)) \/ DebugCall(stabs, addr))
  \/ \E fn, in, out : fn \notin {"search", "debug"} /\ Call(fn, in, out)
  \/ Return

SearchSpec == LibraryInit /\ [][SearchNext]_libvars

\* On every table whose file and function stabs are in order, stab_binsearch
\* brackets the address as its comment says, and debuginfo_eip names the function
\* and a file of the instruction, unless the increment of addr misleads it.
THEOREM SearchesCorrect == SearchSpec => []SearchBrackets
<1>1. LibraryInit => SearchBrackets
  <2>1. ASSUME LibraryInit PROVE call.fn = "none"
    BY <2>1 DEF LibraryInit, Idle
  <2> QED BY <2>1 DEF SearchBrackets
<1>2. ASSUME SearchBrackets, [SearchNext]_libvars PROVE SearchBrackets'
  <2>1. ASSUME NEW stabs, NEW addr \in Int, Ordered(stabs), NEW type \in AddressTypes,
               SearchCall(stabs, type, addr)
        PROVE  SearchBrackets'
    <3> DEFINE N == Cardinality(DOMAIN stabs)
    <3>1. /\ call'.fn = "search" /\ call'.in = [stabs |-> stabs, type |-> type, addr |-> addr]
          /\ result' = stab_binsearch(stabs, 0, N - 1, type, addr)
      BY <2>1 DEF SearchCall, Call
    <3>2. N \in Nat /\ DOMAIN stabs = 0..(N - 1) /\ N - 1 \in Int /\ (N - 1) - 0 < N
      BY <2>1, OrderedFacts
    <3>3. CASE Misled(stabs, type, addr)
      BY <3>1, <3>3 DEF SearchBrackets
    <3>4. ASSUME ~Misled(stabs, type, addr) PROVE Region(stabs, 0, N - 1, type, addr)
      BY <2>1, <3>2, <3>4, OrderedFacts
    <3>5. ASSUME ~Misled(stabs, type, addr)
          PROVE
          /\ LastUpTo(stabs, 0, N - 1, type, addr) # -1 =>
               /\ result'.left = LastUpTo(stabs, 0, N - 1, type, addr)
               /\ result'.right = BeforeNext(stabs, 0, N - 1, type, addr)
          /\ (\A i \in 0..(N - 1) : stabs[i].type # type) => result'.left > result'.right
      <4>1. Bracketed(stabs, 0, N - 1, type, addr)
        BY <3>2, <3>4, <3>5, SearchFinds
      <4> QED BY <4>1, <3>1 DEF Bracketed
    <3>6. CASE ~Misled(stabs, type, addr)
      BY <3>1, <3>2, <3>5, <3>6 DEF SearchBrackets
    <3> QED BY <3>3, <3>6
  <2>2. ASSUME NEW stabs, NEW addr \in Int, Ordered(stabs), DebugCall(stabs, addr)
        PROVE  SearchBrackets'
    <3>1. /\ call'.fn = "debug" /\ call'.in = [stabs |-> stabs, addr |-> addr]
          /\ result' = debuginfo_eip(stabs, addr)
      BY <2>2 DEF DebugCall, Call
    <3> DEFINE N    == Cardinality(DOMAIN stabs)
               file == LastUpTo(stabs, 0, N - 1, "SO", addr)
               next == BeforeNext(stabs, 0, N - 1, "SO", addr)
               fn   == LastUpTo(stabs, file, next, "FUN", addr)
    <3>2. file > 0 /\ fn # -1 /\ ~Misled(stabs, "SO", addr) /\ ~Misled(stabs, "FUN", addr)
          => result'.ret = 0 /\ result'.fn = fn /\ result'.file \in file..fn
      BY <2>2, <3>1, DebugFinds
    <3> QED BY <3>1, <3>2 DEF SearchBrackets
  <2>3. CASE \E fn, in, out : fn \notin {"search", "debug"} /\ Call(fn, in, out)
    <3>1. call'.fn \notin {"search", "debug"}
      BY <2>3 DEF Call
    <3> QED BY <3>1 DEF SearchBrackets
  <2>4. CASE Return
    <3>1. call'.fn = "none"
      BY <2>4 DEF Return, Idle
    <3> QED BY <3>1 DEF SearchBrackets
  <2>5. CASE UNCHANGED libvars
    BY <1>2, <2>5 DEF libvars, SearchBrackets
  <2> QED BY <1>2, <2>1, <2>2, <2>3, <2>4, <2>5 DEF SearchNext
<1> QED BY <1>1, <1>2, PTL DEF SearchSpec

-----------------------------------------------------------------------------
(* The timer *)

\* Division with remainder.
LEMMA Divided ==
  ASSUME NEW a \in Nat, NEW n \in Nat \ {0}
  PROVE  /\ a \div n \in Nat /\ a % n \in 0..(n - 1)
         /\ n * (a \div n) <= a /\ a < n * (a \div n) + n
BY SMT

LEMMA EvenCount ==
  ASSUME NEW n \in Nat
  PROVE  Even(n) \in Nat /\ Even(n) % 2 = 0 /\ Even(n) - n \in {0, 1}
BY SMT DEF Even

\* The longest quantum that passes the check is 53 ms.
LEMMA Limit == QUANTUM_LIMIT = 54
BY SMT DEF QUANTUM_LIMIT, TIMER_FREQ

\* The count for a frequency of at least 19 Hz fits the timer.
LEMMA CountFits ==
  ASSUME NEW x \in 19..1000
  PROVE  TIMER_DIV(x) \in Nat /\ TIMER_DIV(x) <= 65000
<1> DEFINE h == x \div 2
           d == (1193182 + h) \div x
<1>1. h \in Nat /\ 2 * h <= x
  BY SMT
<1>2. d \in Nat /\ x * d <= 1193182 + h
  <2>1. 1193182 + h \in Nat /\ x \in Nat \ {0}
    BY <1>1, SMT
  <2> HIDE DEF h
  <2> DEFINE m == 1193182 + h
  <2> HIDE DEF m
  <2>2. m \in Nat
    BY <2>1, SMT DEF m
  <2>3. m \div x \in Nat /\ x * (m \div x) <= m
    BY ONLY <2>1, <2>2, SMT
  <2> QED BY ONLY <2>3, SMT DEF m
<1> HIDE DEF d, h
<1>3. d <= 65000
  <2> SUFFICES ASSUME d > 65000 PROVE FALSE
    BY <1>2, SMT
  <2>1. x * d >= x * 65001
    BY <1>2, SMT
  <2> QED BY <1>1, <1>2, <2>1, SMT
<1> QED BY <1>2, <1>3, SMT DEF TIMER_DIV, TIMER_FREQ, d, h

\* Rounded to a frequency and back, a period is not shorter.
LEMMA CountLasts ==
  ASSUME NEW q \in 1..255
  PROVE  /\ 1000 \div q \in 1..1000 /\ Period(q) \in Nat
         /\ TIMER_DIV(1000 \div q) \in Nat /\ TIMER_DIV(1000 \div q) >= Period(q)
<1> DEFINE x == 1000 \div q
           h == x \div 2
           d == (1193182 + h) \div x
           p == (q * 1193182) \div 1000
<1>1. x \in Nat /\ q * x <= 1000 /\ 1000 < q * x + q
  BY Divided, SMT
<1>2. x \in 1..1000
  <2> HIDE DEF x
  <2>1. x >= 1
    <3> SUFFICES ASSUME x = 0 PROVE FALSE
      BY <1>1, SMT
    <3> QED BY <1>1, SMT
  <2>2. q * x >= x
    BY <1>1, SMT
  <2> QED BY <1>1, <2>1, <2>2, SMT
<1> HIDE DEF x
<1>3. h \in Nat
  BY <1>2, SMT
<1> HIDE DEF h
<1>4. d \in Nat /\ 1193182 + h < x * d + x
  <2>1. 1193182 + h \in Nat /\ x \in Nat \ {0}
    BY <1>2, <1>3, SMT
  <2> DEFINE m == 1193182 + h
  <2> HIDE DEF m
  <2>2. m \in Nat
    BY <2>1, SMT DEF m
  <2>3. m \div x \in Nat /\ m < x * (m \div x) + x
    BY ONLY <2>1, <2>2, SMT
  <2> QED BY ONLY <2>3, SMT DEF m
<1>5. p \in Nat /\ 1000 * p <= q * 1193182
  <2>1. q * 1193182 \in Nat
    BY SMT
  <2> QED BY <2>1, Divided, SMT
<1> HIDE DEF d, p
<1>6. d >= p
  <2> SUFFICES ASSUME d + 1 <= p PROVE FALSE
    BY <1>4, <1>5, SMT
  <2> DEFINE z == x * (d + 1)
  <2>1. z \in Nat /\ z > 1193182
    BY <1>2, <1>3, <1>4, SMT
  <2>2. q * z = (q * x) * (d + 1)
    BY <1>2, <1>4, SMT
  <2>3. (q * x) * (d + 1) <= 1000 * (d + 1)
    BY <1>1, <1>4, SMT
  <2> HIDE DEF z
  <2>4. q * z > q * 1193182
    BY <2>1, SMT
  <2>5. 1000 * (d + 1) <= 1000 * p
    BY <1>4, <1>5, SMT
  <2>6. q * z \in Nat /\ (q * x) * (d + 1) \in Nat /\ 1000 * (d + 1) \in Nat /\ 1000 * p \in Nat
        /\ q * 1193182 \in Nat
    BY <1>1, <1>4, <1>5, <2>1, SMT
  <2> QED BY ONLY <1>5, <2>2, <2>3, <2>4, <2>5, <2>6, SMT
<1> QED BY <1>2, <1>4, <1>5, <1>6, SMT DEF TIMER_DIV, TIMER_FREQ, Period, x, h, d, p

\* 53 ms pass the check, and their count is cut to 16 bits.
LEMMA LongestCut ==
  1000 \div 53 = 18 /\ TIMER_DIV(18) = 66288 /\ Period(53) = 63238
BY SMT DEF TIMER_DIV, TIMER_FREQ, Period

LEMMA QuantumExact ==
  ASSUME NEW q \in 0..255, kclock_set_quantum(q) # None
  PROVE  LET set == kclock_set_quantum(q)
             start == kclock_start(q)
         IN  /\ set % 2 = 0 /\ set - start \in {0, 1}
             /\ q < QUANTUM_LIMIT - 1 => set >= Period(q)
<1> DEFINE x == 1000 \div q
           d == TIMER_DIV(x)
           e == Even(d)
<1>1. q % 256 = q /\ q # 0 /\ q < 54
  BY Limit, SMT DEF kclock_set_quantum, IS_VALID_QUANTUM
<1>2. kclock_set_quantum(q) = e % 65536 /\ kclock_start(q) = d % 65536
  BY <1>1, Limit, SMT DEF kclock_set_quantum, kclock_start, IS_VALID_QUANTUM, kclock_write_cnt0_LSB_first
<1>3. x \in 1..1000 /\ Period(q) \in Nat /\ d \in Nat /\ d >= Period(q)
  BY <1>1, CountLasts, SMT
<1> HIDE DEF d
<1>4. e \in Nat /\ e % 2 = 0 /\ e - d \in {0, 1}
  BY <1>3, EvenCount, SMT
<1> HIDE DEF e
<1>5. CASE q < 53
  <2>1. q * x <= 1000 /\ 1000 < q * x + q
    BY <1>1, Divided, SMT
  <2> HIDE DEF x
  <2>2. x >= 19
    <3> SUFFICES ASSUME x <= 18 PROVE FALSE
      BY <1>3, SMT
    <3>1. q * x <= q * 18
      BY <1>1, <1>3, SMT
    <3>2. q * 18 + q <= 988
      BY <1>1, <1>5, SMT
    <3>3. q * x \in Nat /\ q * 18 \in Nat
      BY <1>1, <1>3, SMT
    <3> QED BY ONLY <2>1, <3>1, <3>2, <3>3, q \in 0..255, SMT
  <2>3. d \in Nat /\ d <= 65000
    <3>1. x \in 19..1000
      BY <1>3, <2>2, SMT
    <3> QED BY ONLY <3>1, CountFits, SMT DEF d
  <2>4. e % 65536 = e /\ d % 65536 = d
    BY <1>4, <2>3, SMT
  <2> QED BY <1>2, <1>3, <1>4, <1>5, <2>4, Limit, SMT
<1>6. CASE q = 53
  <2>1. d = 66288 /\ Period(q) = 63238
    BY <1>6, LongestCut, SMT DEF d
  <2>2. e = 66288
    BY <2>1, SMT DEF e, Even
  <2>3. e % 65536 = 752 /\ d % 65536 = 752
    BY <2>1, <2>2, SMT
  <2> QED BY <1>2, <1>6, <2>1, <2>3, Limit, SMT
<1> QED BY <1>1, <1>5, <1>6, SMT

LEMMA ResumeExact ==
  ASSUME NEW c \in Nat, c <= 65535
  PROVE  LET r == Counted(kclock_resume(c))
         IN  r % 2 = 0 /\ r >= c /\ (c >= 20 => r <= c + 1)
<1> DEFINE n == IF c < 20 THEN 20 ELSE c
           e == Even(n)
<1>1. n \in Nat /\ n >= 20 /\ n <= 65535 /\ n >= c /\ (c >= 20 => n = c)
  BY SMT
<1> HIDE DEF n
<1>2. e \in Nat /\ e % 2 = 0 /\ e - n \in {0, 1}
  <2>1. n \in Nat
    BY <1>1, SMT
  <2> QED BY ONLY <2>1, EvenCount, SMT
<1>3. kclock_resume(c) = e % 65536
  BY SMT DEF kclock_resume, kclock_write_cnt0_LSB_first, n
<1> HIDE DEF e
<1>4. e = 65536 \/ (e >= 20 /\ e % 65536 = e)
  BY <1>1, <1>2, SMT
<1>5. 65536 % 65536 = 0 /\ 65536 % 2 = 0
  BY SMT
<1> QED BY <1>1, <1>2, <1>3, <1>4, <1>5, SMT DEF Counted

\* The times at which a sleeping program asks.
Polls == {polls \in Seq(Nat) : \A j, k \in 1..Len(polls) : j <= k => polls[j] <= polls[k]}

\* The low halves differ by what has passed, modulo a turn of the low half.
LEMMA ElapsedIs ==
  ASSUME NEW a \in Nat, NEW b \in Nat, a <= b
  PROVE  LET e == ((b % TICKS) - (a % TICKS)) % TICKS
         IN  e \in Nat /\ e <= b - a /\ (b - a < TICKS => e = b - a)
<1> DEFINE T == TICKS
           qa == a \div T
           ra == a % T
           qb == b \div T
           rb == b % T
           d  == rb - ra
           e  == d % T
<1>1. T \in Nat \ {0}
  BY TimerAssumption
<1> HIDE DEF T
<1>2. qa \in Nat /\ ra \in 0..(T - 1) /\ a = T * qa + ra /\ qb \in Nat /\ rb \in 0..(T - 1) /\ b = T * qb + rb
  BY <1>1
<1> HIDE DEF qa, ra, qb, rb
<1>3. d \in Int /\ -T < d /\ d < T
  BY <1>1, <1>2
<1>4. e = IF d >= 0 THEN d ELSE d + T
  <2> HIDE DEF d
  <2>1. CASE d >= 0
    BY <1>1, <1>3, <2>1
  <2>2. CASE d < 0
    <3>1. d + T \in Nat /\ d + T < T
      BY <1>1, <1>3, <2>2
    <3>2. d % T = d + T
      BY <1>1, <1>3, <2>2, <3>1
    <3>3. ~(d >= 0)
      BY <1>3, <2>2
    <3> QED BY <3>2, <3>3 DEF e
  <2> QED BY <1>3, <2>1, <2>2
<1> HIDE DEF e
<1>5. b - a = T * (qb - qa) + d
  BY <1>1, <1>2
<1>6. CASE qb - qa <= -1
  <2>1. T * (qb - qa) <= -T
    BY <1>1, <1>2, <1>6
  <2> QED BY <1>1, <1>2, <1>3, <1>5, <2>1
<1>7. CASE qb - qa = 0
  <2>1. T * (qb - qa) = 0
    BY <1>1, <1>7
  <2> QED BY <1>2, <1>3, <1>4, <1>5, <2>1 DEF e, d, ra, rb, T
<1>8. CASE qb - qa = 1
  <2>1. T * (qb - qa) = T
    BY <1>1, <1>8
  <2> QED BY <1>1, <1>2, <1>3, <1>4, <1>5, <2>1 DEF e, d, ra, rb, T
<1>9. CASE qb - qa >= 2
  <2>1. T * (qb - qa) >= 2 * T
    BY <1>1, <1>2, <1>9
  <2> QED BY <1>1, <1>2, <1>3, <1>4, <1>5, <2>1 DEF e, d, ra, rb, T
<1> QED BY <1>2, <1>6, <1>7, <1>8, <1>9

\* env_sleep returns at the first poll that finds the time over.
LEMMA SleepExact ==
  ASSUME NEW ms \in Nat, NEW polls \in Polls, ms * CYCLES_PER_MILLISEC < TICKS
  PROVE  LET asked == ms * CYCLES_PER_MILLISEC
             r     == env_sleep(ms, polls)
             past(k) == polls[k] - polls[1]
         IN  /\ r # NotYet => past(r) >= asked
             /\ \A k \in 2..Len(polls) : past(k) \in asked..(TICKS - 1) => r # NotYet /\ r <= k
<1> DEFINE asked == ms * CYCLES_PER_MILLISEC
           r     == env_sleep(ms, polls)
           N     == Len(polls)
           spent(k) == IF k = 1 THEN 0 ELSE Elapsed(polls, k)
           over(k) == spent(k) >= asked % TICKS
           first(k) == over(k) /\ \A j \in 1..(k - 1) : ~over(j)
<1>1. asked \in Nat /\ TICKS \in Nat \ {0}
  BY TimerAssumption
<1>2. asked % TICKS = asked
  <2> HIDE DEF asked
  <2>1. asked < TICKS
    BY DEF asked
  <2> QED BY <1>1, <2>1
<1>3. polls \in Seq(Nat) /\ N \in Nat /\ DOMAIN polls = 1..N
      /\ \A j, k \in 1..N : j <= k => polls[j] <= polls[k]
  BY DEF Polls
<1>4. r = IF \A k \in 1..N : ~over(k) THEN 0 ELSE CHOOSE k \in 1..N : first(k)
  <2>1. r = IF \A k \in DOMAIN polls : ~over(k) THEN NotYet ELSE CHOOSE k \in DOMAIN polls : first(k)
    BY Zenon DEF env_sleep
  <2> HIDE DEF r, over, first, N
  <2> QED BY <1>3, <2>1 DEF NotYet
<1> HIDE DEF asked
<1>5. \A k \in 1..N : /\ polls[k] \in Nat /\ polls[1] \in Nat
                      /\ spent(k) \in Nat /\ spent(k) <= polls[k] - polls[1]
                      /\ polls[k] - polls[1] < TICKS => spent(k) = polls[k] - polls[1]
  <2> SUFFICES ASSUME NEW k \in 1..N
               PROVE  /\ polls[k] \in Nat /\ polls[1] \in Nat
                      /\ spent(k) \in Nat /\ spent(k) <= polls[k] - polls[1]
                      /\ polls[k] - polls[1] < TICKS => spent(k) = polls[k] - polls[1]
    OBVIOUS
  <2>1. 1 \in 1..N /\ 1 <= k
    BY <1>3
  <2>2. polls[k] \in Nat /\ polls[1] \in Nat /\ polls[1] <= polls[k]
    BY <1>3, <2>1
  <2>3. CASE k = 1
    BY <2>2, <2>3
  <2>4. CASE k # 1
    <3>1. /\ Elapsed(polls, k) \in Nat /\ Elapsed(polls, k) <= polls[k] - polls[1]
          /\ polls[k] - polls[1] < TICKS => Elapsed(polls, k) = polls[k] - polls[1]
      BY <2>2, ElapsedIs DEF Elapsed
    <3> QED BY <2>2, <2>4, <3>1
  <2> QED BY <2>3, <2>4
<1> HIDE DEF spent, asked, r, N
<1>6. ASSUME NEW k \in 1..N, over(k)
      PROVE  \E m \in 1..N : first(m) /\ m <= k
  <2> DEFINE S == {x \in Nat : x \in 1..N /\ over(x)}
  <2>1. S \subseteq Nat /\ k \in S
    BY <1>3, <1>6
  <2>2. PICK m \in S : \A x \in S : m <= x
    BY <2>1, Shared!LeastNumber
  <2>3. m \in 1..N /\ over(m) /\ m <= k
    BY <2>1, <2>2
  <2>4. ASSUME NEW j \in 1..(m - 1), over(j) PROVE FALSE
    <3>1. j \in Nat /\ j \in 1..N /\ j < m
      BY <1>3, <2>3
    <3>2. j \in S
      BY <2>4, <3>1
    <3> QED BY <2>2, <2>3, <3>1, <3>2
  <2> QED BY <2>3, <2>4
<1>7. r # 0 => r \in 1..N /\ first(r)
  <2> SUFFICES ASSUME r # 0 PROVE r \in 1..N /\ first(r)
    OBVIOUS
  <2>1. r = CHOOSE k \in 1..N : first(k)
    BY <1>4
  <2>2. \E k \in 1..N : over(k)
    BY <1>4
  <2>3. \E k \in 1..N : first(k)
    BY <1>6, <2>2
  <2> HIDE DEF first
  <2> QED BY <2>1, <2>3
<1>8. r # 0 => polls[r] - polls[1] >= asked
  <2> SUFFICES ASSUME r # 0 PROVE polls[r] - polls[1] >= asked
    OBVIOUS
  <2>1. r \in 1..N /\ spent(r) >= asked
    BY <1>2, <1>7
  <2>2. spent(r) \in Nat /\ spent(r) <= polls[r] - polls[1] /\ polls[r] \in Nat /\ polls[1] \in Nat
    BY <1>5, <2>1
  <2> QED BY <1>1, <2>1, <2>2
<1>9. ASSUME NEW k \in 2..N, polls[k] - polls[1] \in asked..(TICKS - 1)
      PROVE  r # 0 /\ r <= k
  <2>1. k \in 1..N
    BY <1>3
  <2>2. polls[k] - polls[1] < TICKS /\ polls[k] - polls[1] >= asked
    BY <1>1, <1>5, <1>9, <2>1
  <2>3. over(k)
    BY <1>2, <1>5, <2>1, <2>2
  <2>4. PICK m \in 1..N : first(m) /\ m <= k
    BY <1>6, <2>1, <2>3
  <2>5. r = CHOOSE n \in 1..N : first(n)
    BY <1>4, <2>1, <2>3
  <2>6. r \in 1..N /\ first(r)
    <3> HIDE DEF first
    <3> QED BY <2>4, <2>5
  <2>7. ~(m < r)
    <3> SUFFICES ASSUME m < r PROVE FALSE
      OBVIOUS
    <3>1. m \in 1..(r - 1)
      BY <1>3, <2>6
    <3> QED BY <2>4, <2>6, <3>1
  <2> QED BY <1>3, <2>4, <2>6, <2>7
<1> QED BY <1>8, <1>9 DEF asked, r, N, NotYet

\* Calls of the timer's routines with any argument, of env_sleep with any times at
\* which the program comes to ask, and of others in between.
TimeNext ==
  \/ \E q \in 0..255 : QuantumCall(q)
  \/ \E cnt0 \in Nat : cnt0 <= 65535 /\ ResumeCall(cnt0)
  \/ \E ms \in Nat, polls \in Polls : SleepCall(ms, polls)
  \/ \E fn, in, out : fn \notin {"quantum", "resume", "sleep"} /\ Call(fn, in, out)
  \/ Return

TimeSpec == LibraryInit /\ [][TimeNext]_libvars

\* kclock_set_quantum and kclock_resume load the timer with counts that do not cut
\* a quantum short, but for the longest; env_sleep does not end early, and ends
\* at the first poll that finds the time over, for all times and both constants.
THEOREM TimesCorrect == TimeSpec => []TimeKept
<1>1. LibraryInit => TimeKept
  <2>1. ASSUME LibraryInit PROVE call.fn \notin {"quantum", "resume", "sleep"}
    BY <2>1 DEF LibraryInit, Idle
  <2>2. ASSUME LibraryInit PROVE QuantumKept
    BY <2>1, <2>2 DEF QuantumKept
  <2>3. ASSUME LibraryInit PROVE SleepLongEnough
    BY <2>1, <2>3 DEF SleepLongEnough
  <2> QED BY <2>2, <2>3 DEF TimeKept
<1>2. ASSUME TimeKept, [TimeNext]_libvars PROVE TimeKept'
  <2>1. ASSUME NEW q \in 0..255, QuantumCall(q) PROVE TimeKept'
    <3>1. /\ call'.fn = "quantum" /\ call'.in.q = q
          /\ result'.set = kclock_set_quantum(q) /\ result'.start = kclock_start(q)
      BY <2>1 DEF QuantumCall, Call
    <3>2. QuantumKept'
      BY <3>1, QuantumExact DEF QuantumKept
    <3>3. SleepLongEnough'
      BY <3>1 DEF SleepLongEnough
    <3> QED BY <3>2, <3>3 DEF TimeKept
  <2>2. ASSUME NEW cnt0 \in Nat, cnt0 <= 65535, ResumeCall(cnt0) PROVE TimeKept'
    <3>1. call'.fn = "resume" /\ call'.in.cnt0 = cnt0 /\ result' = kclock_resume(cnt0)
      BY <2>2 DEF ResumeCall, Call
    <3>2. QuantumKept'
      BY <2>2, <3>1, ResumeExact DEF QuantumKept
    <3>3. SleepLongEnough'
      BY <3>1 DEF SleepLongEnough
    <3> QED BY <3>2, <3>3 DEF TimeKept
  <2>3. ASSUME NEW ms \in Nat, NEW polls \in Polls, SleepCall(ms, polls) PROVE TimeKept'
    <3>1. /\ call'.fn = "sleep" /\ call'.in.ms = ms /\ call'.in.polls = polls
          /\ result' = env_sleep(ms, polls)
      BY <2>3 DEF SleepCall, Call
    <3>2. SleepLongEnough'
      BY <3>1, SleepExact DEF SleepLongEnough
    <3>3. QuantumKept'
      BY <3>1 DEF QuantumKept
    <3> QED BY <3>2, <3>3 DEF TimeKept
  <2>4. CASE \E fn, in, out : fn \notin {"quantum", "resume", "sleep"} /\ Call(fn, in, out)
    <3>1. call'.fn \notin {"quantum", "resume", "sleep"}
      BY <2>4 DEF Call
    <3>2. QuantumKept'
      BY <3>1 DEF QuantumKept
    <3>3. SleepLongEnough'
      BY <3>1 DEF SleepLongEnough
    <3> QED BY <3>2, <3>3 DEF TimeKept
  <2>5. CASE Return
    <3>1. call'.fn \notin {"quantum", "resume", "sleep"}
      BY <2>5 DEF Return, Idle
    <3>2. QuantumKept'
      BY <3>1 DEF QuantumKept
    <3>3. SleepLongEnough'
      BY <3>1 DEF SleepLongEnough
    <3> QED BY <3>2, <3>3 DEF TimeKept
  <2>6. CASE UNCHANGED libvars
    <3>1. call' = call /\ result' = result
      BY <2>6 DEF libvars
    <3>2. QuantumKept'
      <4>1. QuantumKept
        BY <1>2 DEF TimeKept
      <4> QED BY <3>1, <4>1 DEF QuantumKept
    <3>3. SleepLongEnough'
      BY <1>2, <3>1, SMT DEF TimeKept, SleepLongEnough
    <3> QED BY <3>2, <3>3 DEF TimeKept
  <2> QED BY <1>2, <2>1, <2>2, <2>3, <2>4, <2>5, <2>6 DEF TimeNext
<1> QED BY <1>1, <1>2, PTL DEF TimeSpec

=============================================================================
