--------------------------- MODULE SortAlgorithms ---------------------------
(***************************************************************************)
(* The sorting functions of the programs of user/ (quicksort*.c,           *)
(* mergesort*.c, ef_mergesort*.c), on arrays indexed from 0.               *)
(***************************************************************************)
EXTENDS Integers, FiniteSets

Last0(A) == Cardinality(DOMAIN A) - 1

Swap(Elements, First, Second) ==
  [Elements EXCEPT ![First] = Elements[Second], ![Second] = Elements[First]]

-----------------------------------------------------------------------------
(* Quick sort *)

\* The first index from i on, up to finalIndex + 1, with a larger element than
\* the pivot, and the last one up to j, down to the pivot, with a smaller one.
ScanUp(A, pivot, i, finalIndex) ==
  CHOOSE k \in i..(finalIndex + 1) :
    /\ k = finalIndex + 1 \/ A[pivot] < A[k]
    /\ \A l \in i..(k - 1) : A[pivot] >= A[l]
ScanDown(A, pivot, j) ==
  CHOOSE k \in pivot..j :
    /\ k = pivot \/ A[pivot] > A[k]
    /\ \A l \in (k + 1)..j : A[pivot] <= A[l]

\* The loop of QSort: the array and the two indices when they have crossed.
RECURSIVE Partition(_, _, _, _, _)
Partition(A, pivot, finalIndex, i, j) ==
  IF i > j THEN [arr |-> A, i |-> i, j |-> j]
  ELSE LET up   == ScanUp(A, pivot, i, finalIndex)
           down == ScanDown(A, pivot, j)
       IN  Partition(IF up <= down THEN Swap(A, up, down) ELSE A, pivot, finalIndex, up, down)

\* Mutant of QSort: the pivot is not put between the two parts.
RECURSIVE QSort_pivot_left(_, _, _)
QSort_pivot_left(A, startIndex, finalIndex) ==
  IF startIndex >= finalIndex THEN A
  ELSE LET p == Partition(A, startIndex, finalIndex, startIndex + 1, finalIndex)
       IN  QSort_pivot_left(QSort_pivot_left(p.arr, startIndex, p.j - 1), p.i, finalIndex)

RECURSIVE QSort(_, _, _)
QSort(A, startIndex, finalIndex) ==
  IF startIndex >= finalIndex THEN A
  ELSE LET p == Partition(A, startIndex, finalIndex, startIndex + 1, finalIndex)
           B == Swap(p.arr, startIndex, p.j)
       IN  QSort(QSort(B, startIndex, p.j - 1), p.i, finalIndex)

-----------------------------------------------------------------------------
(* Merge sort; p, q and r count from 1 *)

\* Elements that Left and Right give to A[p - 1], A[p], ...
RECURSIVE MergeFrom(_, _, _, _, _, _, _)
MergeFrom(A, Left, Right, l, r, k, last) ==
  IF k > last THEN A
  ELSE LET fromLeft == \/ r > Last0(Right)
                       \/ l <= Last0(Left) /\ Left[l] < Right[r]
       IN  IF fromLeft
           THEN MergeFrom([A EXCEPT ![k] = Left[l]], Left, Right, l + 1, r, k + 1, last)
           ELSE MergeFrom([A EXCEPT ![k] = Right[r]], Left, Right, l, r + 1, k + 1, last)

Merge(A, p, q, r) ==
  LET Left  == [i \in 0..(q - p) |-> A[p + i - 1]]
      Right == [j \in 0..(r - q - 1) |-> A[q + j]]
  IN  MergeFrom(A, Left, Right, 0, 0, p - 1, r - 1)

RECURSIVE MSort(_, _, _)
MSort(A, p, r) ==
  IF p >= r THEN A
  ELSE LET q == (p + r) \div 2
       IN  Merge(MSort(MSort(A, p, q), q + 1, r), p, q, r)

\* How often Merge is called, with two arrays allocated each time.
RECURSIVE Merges(_, _)
Merges(p, r) ==
  IF p >= r THEN 0
  ELSE LET q == (p + r) \div 2 IN Merges(p, q) + Merges(q + 1, r) + 1

-----------------------------------------------------------------------------
(* The functions the programs share *)

CheckSorted(Elements) == \A i \in 0..(Last0(Elements) - 1) : Elements[i] <= Elements[i + 1]

InitializeAscending(n)  == [i \in 0..(n - 1) |-> i]
InitializeDescending(n) == [i \in 0..(n - 1) |-> n - i - 1]
\* Only defined when the division by Repetition is.
Repetition(n) == n \div 3
InitializeSemiRandom(n) == [i \in 0..(n - 1) |-> i % Repetition(n)]

=============================================================================
