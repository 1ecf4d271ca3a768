----------------------------- MODULE ListProofs -----------------------------
(***************************************************************************)
(* What the proofs about the modules share.                                *)
(*                                                                         *)
(* Induction over the natural numbers for facts given as a set, and the    *)
(* existence of the functions that the loops of the code compute.          *)
(*                                                                         *)
(* What the list operations of ListSequences do, for lists over any set S: *)
(* each keeps a list well formed, and adds, removes or moves exactly the   *)
(* elements it is meant to.  The proofs about the queues of environments   *)
(* and about the lists of resident pages rest on these lemmas.             *)
(***************************************************************************)
EXTENDS Integers, ListSequences, SequenceTheorems, FunctionTheorems, FiniteSetTheorems,
        WellFoundedInduction, TLAPS

-----------------------------------------------------------------------------
(* Induction *)

\* Every set of natural numbers that is not empty has a least element, which is
\* what the searches for a minimum in the models denote.
LEMMA LeastNumber ==
  ASSUME NEW T, T \subseteq Nat, T # {}
  PROVE  \E x \in T : \A y \in T : x <= y
<1>1. IsWellFoundedOn({ss \in Nat \X Nat : ss[1] < ss[2]}, Nat)
  BY NatLessThanWellFounded DEF OpToRel
<1>2. PICK x \in T : \A y \in T : ~(<<y, x>> \in {ss \in Nat \X Nat : ss[1] < ss[2]})
  BY <1>1, WFMin
<1>3. ASSUME NEW y \in T PROVE x <= y
  <2>1. x \in Nat /\ y \in Nat
    OBVIOUS
  <2>2. ~(y < x)
    <3>1. ASSUME y < x PROVE <<y, x>> \in {ss \in Nat \X Nat : ss[1] < ss[2]}
      BY <3>1, <2>1
    <3> QED BY <3>1, <1>2
  <2> QED BY <2>1, <2>2
<1> QED BY <1>3

\* Induction: a set that contains 0 and with every number its successor.
LEMMA SetInduction ==
  ASSUME NEW P, 0 \in P, \A n \in Nat : n \in P => n + 1 \in P
  PROVE  \A n \in Nat : n \in P
<1>1. SUFFICES ASSUME Nat \ P # {} PROVE FALSE
  OBVIOUS
<1>2. PICK x \in Nat \ P : \A y \in Nat \ P : x <= y
  BY <1>1, LeastNumber
<1>3. x # 0 /\ x - 1 \in Nat /\ x - 1 \notin Nat \ P
  BY <1>2
<1> QED BY <1>2, <1>3

\* Induction from a to b.
LEMMA IntervalInduction ==
  ASSUME NEW a \in Nat, NEW b \in Nat, NEW P,
         a \in P, \A k \in a..(b - 1) : k \in P => k + 1 \in P
  PROVE  \A k \in a..b : k \in P
<1> DEFINE Q == {n \in Nat : a + n <= b => a + n \in P}
<1>1. 0 \in Q
  OBVIOUS
<1>2. ASSUME NEW n \in Nat, n \in Q PROVE n + 1 \in Q
  <2>1. CASE a + n + 1 <= b
    <3>1. a + n \in P /\ a + n \in a..(b - 1)
      BY <2>1, <1>2
    <3>2. (a + n) + 1 \in P
      BY <3>1
    <3> QED BY <3>2
  <2>2. CASE ~(a + n + 1 <= b)
    BY <2>2
  <2> QED BY <2>1, <2>2
<1>3. \A n \in Nat : n \in Q
  <2> HIDE DEF Q
  <2> QED BY <1>1, <1>2, SetInduction
<1>4. ASSUME NEW k \in a..b PROVE k \in P
  <2>1. k - a \in Nat /\ k - a \in Q
    BY <1>3
  <2> QED BY <2>1
<1> QED BY <1>4

\* A loop over an array of n elements that adds a[k] to its count at element k,
\* or clears it where z[k], computes a function of the number of elements passed.
LEMMA CountExists ==
  ASSUME NEW n \in Nat, NEW a \in [1..n -> Int], NEW z \in [1..n -> BOOLEAN]
  PROVE  \E g \in [0..n -> Int] :
           /\ g[0] = 0
           /\ \A k \in 1..n : g[k] = IF z[k] THEN 0 ELSE g[k - 1] + a[k]
<1> DEFINE G(m, g) == /\ g \in [0..m -> Int]
                      /\ g[0] = 0
                      /\ \A k \in 1..m : g[k] = IF z[k] THEN 0 ELSE g[k - 1] + a[k]
           P == {m \in Nat : m <= n => \E g : G(m, g)}
<1>1. 0 \in P
  <2>1. G(0, [k \in 0..0 |-> 0]) OBVIOUS
  <2> QED BY <2>1
<1>2. ASSUME NEW m \in Nat, m \in P PROVE m + 1 \in P
  <2>1. SUFFICES ASSUME m + 1 <= n PROVE \E g : G(m + 1, g)
    OBVIOUS
  <2>2. PICK g : G(m, g)
    BY <1>2, <2>1
  <2>3. m + 1 \in 1..n /\ a[m + 1] \in Int /\ g[m] \in Int
    BY <2>1, <2>2
  <2> DEFINE v == IF z[m + 1] THEN 0 ELSE g[m] + a[m + 1]
             h == [k \in 0..(m + 1) |-> IF k = m + 1 THEN v ELSE g[k]]
  <2>4. v \in Int
    BY <2>3
  <2>5. h \in [0..(m + 1) -> Int] /\ h[0] = 0
    <3> HIDE DEF v
    <3> QED BY <2>2, <2>4
  <2>6. ASSUME NEW k \in 1..(m + 1)
        PROVE  h[k] = IF z[k] THEN 0 ELSE h[k - 1] + a[k]
    <3>1. CASE k = m + 1
      BY <3>1, <2>3
    <3>2. CASE k # m + 1
      BY <3>2, <2>2
    <3> QED BY <3>1, <3>2
  <2>7. G(m + 1, h)
    <3> HIDE DEF h
    <3> QED BY <2>5, <2>6
  <2> QED BY <2>7
<1>3. n \in P
  <2> HIDE DEF P
  <2> QED BY <1>1, <1>2, SetInduction
<1> QED BY <1>3

\* Every set of integers between a and b that is not empty has a greatest element.
LEMMA GreatestInInterval ==
  ASSUME NEW a \in Int, NEW b \in Int, NEW T, T \subseteq a..b, T # {}
  PROVE  \E x \in T : \A y \in T : y <= x
<1> DEFINE D == {b - y : y \in T}
<1>1. D \subseteq Nat /\ D # {}
  OBVIOUS
<1>2. PICK d \in D : \A e \in D : d <= e
  <2> HIDE DEF D
  <2> QED BY <1>1, LeastNumber
<1>3. PICK x \in T : d = b - x
  OBVIOUS
<1>4. ASSUME NEW y \in T PROVE y <= x
  <2>1. b - y \in D /\ x \in Int /\ y \in Int
    OBVIOUS
  <2>2. d <= b - y
    BY <1>2, <2>1
  <2> QED BY <1>3, <2>1, <2>2
<1> QED BY <1>4

\* A loop of n rounds, each of which is a step from one state in S to another,
\* computes a function of the number of rounds.
LEMMA LoopExists ==
  ASSUME NEW n \in Nat, NEW S, NEW a \in S, NEW step \in [S -> S]
  PROVE  \E g \in [0..n -> S] : g[0] = a /\ \A k \in 1..n : g[k] = step[g[k - 1]]
<1> DEFINE G(m, g) == g \in [0..m -> S] /\ g[0] = a /\ \A k \in 1..m : g[k] = step[g[k - 1]]
           P == {m \in Nat : \E g : G(m, g)}
<1>1. 0 \in P
  <2>1. G(0, [k \in 0..0 |-> a])
    OBVIOUS
  <2> QED BY <2>1
<1>2. ASSUME NEW m \in Nat, m \in P PROVE m + 1 \in P
  <2>1. PICK g : G(m, g)
    BY <1>2
  <2> DEFINE h == [k \in 0..(m + 1) |-> IF k = m + 1 THEN step[g[m]] ELSE g[k]]
  <2>2. g[m] \in S /\ step[g[m]] \in S
    BY <2>1
  <2>3. h \in [0..(m + 1) -> S] /\ h[0] = a
    BY <2>1, <2>2
  <2>4. ASSUME NEW k \in 1..(m + 1) PROVE h[k] = step[h[k - 1]]
    <3>1. CASE k = m + 1
      BY <3>1, <2>1
    <3>2. CASE k # m + 1
      <4>1. k \in 1..m /\ h[k] = g[k] /\ h[k - 1] = g[k - 1]
        BY <3>2
      <4> QED BY <4>1, <2>1
    <3> QED BY <3>1, <3>2
  <2>5. G(m + 1, h)
    <3> HIDE DEF h
    <3> QED BY <2>3, <2>4
  <2> HIDE DEF G, h
  <2> QED BY <2>5
<1>3. n \in P
  <2> HIDE DEF P
  <2> QED BY <1>1, <1>2, SetInduction
<1> QED BY <1>3

-----------------------------------------------------------------------------
(* Lists *)

\* A well-formed list of elements of S.
IsList(q, S) == q \in Seq(S) /\ NoDup(q)

\* The links of a list hold its elements.
LEMMA ListMembers ==
  ASSUME NEW S, NEW q, IsList(q, S)
  PROVE  ToSet(q) \subseteq S
BY DEF IsList, ToSet

\* LIST_INIT yields a well-formed list that holds nothing.
LEMMA ListEmpty == \A S : IsList(<<>>, S) /\ ToSet(<<>>) = {} /\ Len(<<>>) = 0
BY DEF IsList, NoDup, ToSet

\* LIST_INSERT_HEAD of an element that is not on the list.
LEMMA ListInsertHead ==
  ASSUME NEW S, NEW q, IsList(q, S), NEW e \in S, e \notin ToSet(q)
  PROVE  /\ IsList(<<e>> \o q, S) /\ ToSet(<<e>> \o q) = ToSet(q) \cup {e}
         /\ Len(<<e>> \o q) = Len(q) + 1
<1> DEFINE r == <<e>> \o q
<1>1. q \in Seq(S) /\ NoDup(q)
  BY DEF IsList
<1>2. r \in Seq(S) /\ Len(r) = Len(q) + 1 /\ r[1] = e
      /\ \A i \in 1..Len(q) : r[i+1] = q[i]
  BY <1>1
<1> HIDE DEF r
<1>3. \A i \in 1..Len(q) : q[i] # e
  BY <1>1 DEF ToSet
<1>4. \A i \in 2..Len(r) : r[i] = q[i-1] /\ i-1 \in 1..Len(q)
  BY <1>1, <1>2
<1>5. NoDup(r)
  <2> SUFFICES ASSUME NEW i \in 1..Len(r), NEW j \in 1..Len(r), r[i] = r[j]
               PROVE  i = j
    BY DEF NoDup
  <2>1. Len(q) \in Nat
    BY <1>1
  <2>2. CASE i = 1
    BY <1>2, <1>3, <1>4, <2>1, <2>2
  <2>3. CASE j = 1
    BY <1>2, <1>3, <1>4, <2>1, <2>3
  <2>4. CASE i \in 2..Len(r) /\ j \in 2..Len(r)
    BY <1>1, <1>4, <2>4 DEF NoDup
  <2> QED BY <2>1, <2>2, <2>3, <2>4, <1>2
<1>6. ToSet(r) = ToSet(q) \cup {e}
  <2>1. DOMAIN r = 1..Len(r) /\ DOMAIN q = 1..Len(q) /\ Len(q) \in Nat
    BY <1>1, <1>2
  <2>2. ASSUME NEW x \in ToSet(r) PROVE x \in ToSet(q) \cup {e}
    <3>1. PICK i \in 1..Len(r) : x = r[i]
      BY <2>1 DEF ToSet
    <3> QED BY <3>1, <2>1, <1>2, <1>4 DEF ToSet
  <2>3. ASSUME NEW x \in ToSet(q) PROVE x \in ToSet(r)
    <3>1. PICK i \in 1..Len(q) : x = q[i]
      BY <2>1 DEF ToSet
    <3>2. i+1 \in 1..Len(r) /\ r[i+1] = x
      BY <3>1, <1>2, <2>1
    <3> QED BY <3>2, <2>1 DEF ToSet
  <2>4. e \in ToSet(r)
    BY <1>2, <2>1 DEF ToSet
  <2> QED BY <2>2, <2>3, <2>4
<1> QED BY <1>2, <1>5, <1>6 DEF IsList, r

\* LIST_LAST leaves the list.
LEMMA ListFront ==
  ASSUME NEW S, NEW q, IsList(q, S), q # <<>>
  PROVE  /\ IsList(Front(q), S)
         /\ Last(q) \in ToSet(q)
         /\ ToSet(Front(q)) = ToSet(q) \ {Last(q)}
         /\ Len(Front(q)) = Len(q) - 1 /\ Len(q) > 0
<1> DEFINE n == Len(q)
           f == SubSeq(q, 1, n - 1)
<1>1. q \in Seq(S) /\ NoDup(q) /\ n \in Nat /\ n > 0 /\ DOMAIN q = 1..n
  BY DEF IsList
<1>2. f \in Seq(S) /\ Len(f) = n - 1 /\ \A i \in 1..(n-1) : f[i] = q[i]
  BY <1>1
<1>3. DOMAIN f = 1..(n-1)
  BY <1>2
<1>a. f = Front(q) /\ q[n] = Last(q)
  BY DEF Front, Last
<1> HIDE DEF n, f
<1>4. NoDup(f)
  BY <1>1, <1>2 DEF NoDup
<1>5. q[n] \in ToSet(q)
  BY <1>1 DEF ToSet
<1>6. ToSet(f) = ToSet(q) \ {q[n]}
  <2>1. ASSUME NEW x \in ToSet(f) PROVE x \in ToSet(q) /\ x # q[n]
    <3>1. PICK i \in 1..(n-1) : x = f[i]
      BY <1>3 DEF ToSet
    <3>2. i \in 1..n /\ i # n /\ x = q[i]
      BY <3>1, <1>1, <1>2
    <3> QED BY <3>2, <1>1 DEF ToSet, NoDup
  <2>2. ASSUME NEW x \in ToSet(q), x # q[n] PROVE x \in ToSet(f)
    <3>1. PICK i \in 1..n : x = q[i]
      BY <1>1 DEF ToSet
    <3>2. i \in 1..(n-1) /\ f[i] = x
      BY <3>1, <2>2, <1>1, <1>2
    <3> QED BY <3>2, <1>3 DEF ToSet
  <2> QED BY <2>1, <2>2
<1> QED BY <1>1, <1>2, <1>4, <1>5, <1>6, <1>a DEF IsList, n

\* LIST_FIRST leaves the list.
LEMMA ListTail ==
  ASSUME NEW S, NEW q, IsList(q, S), q # <<>>
  PROVE  /\ IsList(Tail(q), S)
         /\ Head(q) \in ToSet(q)
         /\ ToSet(Tail(q)) = ToSet(q) \ {Head(q)}
         /\ Len(Tail(q)) = Len(q) - 1 /\ Len(q) > 0
<1> DEFINE n == Len(q)
           t == Tail(q)
<1>1. q \in Seq(S) /\ NoDup(q) /\ n \in Nat /\ n > 0 /\ DOMAIN q = 1..n
  BY DEF IsList
<1>2. t \in Seq(S) /\ Len(t) = n - 1 /\ \A i \in 1..(n-1) : t[i] = q[i+1]
  BY <1>1
<1>3. DOMAIN t = 1..(n-1) /\ Head(q) = q[1] /\ t = Tail(q)
  BY <1>1, <1>2
<1> HIDE DEF n, t
<1>4. NoDup(t)
  BY <1>1, <1>2, SMTT(30) DEF NoDup
<1>5. q[1] \in ToSet(q)
  BY <1>1 DEF ToSet
<1>6. ToSet(t) = ToSet(q) \ {q[1]}
  <2>1. ASSUME NEW x \in ToSet(t) PROVE x \in ToSet(q) /\ x # q[1]
    <3>1. PICK i \in 1..(n-1) : x = t[i]
      BY <1>3 DEF ToSet
    <3>2. i+1 \in 1..n /\ i+1 # 1 /\ x = q[i+1]
      BY <3>1, <1>1, <1>2
    <3> QED BY <3>2, <1>1 DEF ToSet, NoDup
  <2>2. ASSUME NEW x \in ToSet(q), x # q[1] PROVE x \in ToSet(t)
    <3>1. PICK i \in 1..n : x = q[i]
      BY <1>1 DEF ToSet
    <3>2. i-1 \in 1..(n-1) /\ t[i-1] = x
      BY <3>1, <2>2, <1>1, <1>2
    <3> QED BY <3>2, <1>3 DEF ToSet
  <2> QED BY <2>1, <2>2
<1> QED BY <1>1, <1>2, <1>3, <1>4, <1>5, <1>6 DEF IsList, n

\* LIST_REMOVE takes exactly the given element off the list.
LEMMA ListRemove ==
  ASSUME NEW S, NEW q, IsList(q, S), NEW e
  PROVE  /\ IsList(LIST_REMOVE(q, e), S)
         /\ ToSet(LIST_REMOVE(q, e)) = ToSet(q) \ {e}
         /\ Len(LIST_REMOVE(q, e)) = IF e \in ToSet(q) THEN Len(q) - 1 ELSE Len(q)
<1>1. CASE e \notin ToSet(q)
  <2>1. LIST_REMOVE(q, e) = q
    BY <1>1 DEF LIST_REMOVE
  <2> QED BY <1>1, <2>1
<1>2. CASE e \in ToSet(q)
  <2> DEFINE n == Len(q)
             k == CHOOSE i \in 1..Len(q) : q[i] = e
             r == [i \in 1..(n - 1) |-> IF i < k THEN q[i] ELSE q[i+1]]
  <2>1. q \in Seq(S) /\ NoDup(q) /\ n \in Nat /\ DOMAIN q = 1..n
    BY DEF IsList
  <2>2. \E i \in 1..n : q[i] = e
    BY <1>2, <2>1 DEF ToSet
  <2>3. k \in 1..n /\ q[k] = e
    BY <2>2
  <2>4. LIST_REMOVE(q, e) = r
    BY <1>2 DEF LIST_REMOVE
  <2> HIDE DEF k
  <2>5. n - 1 \in Nat /\ \A i \in 1..(n-1) : i \in 1..n /\ i+1 \in 1..n
    BY <2>1, <2>3
  <2>6. r \in [1..(n-1) -> S]
    BY <2>1, <2>5
  <2>7. r \in Seq(S) /\ Len(r) = n - 1 /\ DOMAIN r = 1..(n-1)
    BY <2>5, <2>6
  <2>8. \A i \in 1..(n-1) : r[i] = IF i < k THEN q[i] ELSE q[i+1]
    OBVIOUS
  <2> HIDE DEF n, r
  <2>9. NoDup(r)
    <3> SUFFICES ASSUME NEW i \in 1..(n-1), NEW j \in 1..(n-1), r[i] = r[j]
                 PROVE  i = j
      BY <2>7 DEF NoDup
    <3>1. \A x, y \in 1..n : q[x] = q[y] => x = y
      BY <2>1 DEF NoDup, n
    <3> QED BY <2>1, <2>3, <2>5, <2>8, <3>1
  <2>10. ToSet(r) = ToSet(q) \ {e}
    <3>0. \A x, y \in 1..n : q[x] = q[y] => x = y
      BY <2>1 DEF NoDup, n
    <3>1. ASSUME NEW x \in ToSet(r) PROVE x \in ToSet(q) /\ x # e
      <4>1. PICK i \in 1..(n-1) : x = r[i]
        BY <2>7 DEF ToSet
      <4>2. PICK j \in 1..n : j # k /\ x = q[j]
        BY <4>1, <2>1, <2>3, <2>5, <2>8
      <4> QED BY <4>2, <3>0, <2>1, <2>3 DEF ToSet
    <3>2. ASSUME NEW x \in ToSet(q), x # e PROVE x \in ToSet(r)
      <4>1. PICK i \in 1..n : x = q[i]
        BY <2>1 DEF ToSet
      <4>2. CASE i < k
        <5>1. i \in 1..(n-1) /\ r[i] = x
          BY <4>1, <4>2, <2>1, <2>3, <2>8
        <5> QED BY <5>1, <2>7 DEF ToSet
      <4>3. CASE i > k
        <5>1. i-1 \in 1..(n-1) /\ r[i-1] = x
          BY <4>1, <4>3, <2>1, <2>3, <2>8
        <5> QED BY <5>1, <2>7 DEF ToSet
      <4> QED BY <4>1, <4>2, <4>3, <3>2, <2>1, <2>3
    <3> QED BY <3>1, <3>2
  <2> QED BY <1>2, <2>4, <2>7, <2>9, <2>10 DEF IsList, n
<1> QED BY <1>1, <1>2

\* Moving a list head first onto another one reverses it.
LEMMA ListReverse ==
  ASSUME NEW S, NEW q, IsList(q, S)
  PROVE  IsList(Reverse(q), S) /\ ToSet(Reverse(q)) = ToSet(q) /\ Len(Reverse(q)) = Len(q)
<1> DEFINE n == Len(q)
           r == [i \in 1..n |-> q[(n - i) + 1]]
<1>1. q \in Seq(S) /\ NoDup(q) /\ n \in Nat /\ DOMAIN q = 1..n
  BY DEF IsList
<1>2. \A i \in 1..n : (n - i) + 1 \in 1..n
  BY <1>1
<1>3. r \in [1..n -> S]
  BY <1>1, <1>2
<1>4. r \in Seq(S) /\ Len(r) = n /\ DOMAIN r = 1..n
  BY <1>1, <1>3
<1>5. r = Reverse(q)
  BY DEF Reverse
<1>6. \A i \in 1..n : r[i] = q[(n - i) + 1] /\ r[(n - i) + 1] = q[i]
  BY <1>1, <1>2
<1> HIDE DEF n, r
<1>7. \A x, y \in 1..n : q[x] = q[y] => x = y
  BY <1>1 DEF NoDup, n
<1>8. NoDup(r)
  <2> SUFFICES ASSUME NEW i \in 1..n, NEW j \in 1..n, r[i] = r[j]
               PROVE  i = j
    BY <1>4 DEF NoDup
  <2>1. (n - i) + 1 = (n - j) + 1
    BY <1>2, <1>6, <1>7
  <2> QED BY <2>1, <1>1
<1>9. ToSet(r) = ToSet(q)
  <2>1. \A i \in 1..n : r[i] \in ToSet(q) /\ q[i] \in ToSet(r)
    BY <1>1, <1>2, <1>4, <1>6 DEF ToSet
  <2> QED BY <2>1, <1>1, <1>4 DEF ToSet
<1> QED BY <1>4, <1>5, <1>8, <1>9 DEF IsList, n

\* Joining two lists that share no element.
LEMMA ListConcat ==
  ASSUME NEW S, NEW p, NEW q, IsList(p, S), IsList(q, S), ToSet(p) \cap ToSet(q) = {}
  PROVE  IsList(p \o q, S) /\ ToSet(p \o q) = ToSet(p) \cup ToSet(q)
<1> DEFINE m == Len(p)
           n == Len(q)
           r == p \o q
<1>1. /\ p \in Seq(S) /\ NoDup(p) /\ m \in Nat /\ DOMAIN p = 1..m
      /\ q \in Seq(S) /\ NoDup(q) /\ n \in Nat /\ DOMAIN q = 1..n
  BY DEF IsList
<1>2. r \in Seq(S) /\ Len(r) = m + n /\ DOMAIN r = 1..(m + n)
  BY <1>1
<1>3. /\ \A i \in 1..m : r[i] = p[i]
      /\ \A i \in 1..n : r[m + i] = q[i]
  BY <1>1
<1>4. \A i \in 1..(m + n) : \/ i \in 1..m /\ r[i] = p[i]
                            \/ i - m \in 1..n /\ r[i] = q[i - m]
  BY <1>1
<1>5. p \o q = r
  OBVIOUS
<1> HIDE DEF m, n, r
<1>6. /\ \A x, y \in 1..m : p[x] = p[y] => x = y
      /\ \A x, y \in 1..n : q[x] = q[y] => x = y
      /\ \A x \in 1..m, y \in 1..n : p[x] # q[y]
  <2>1. /\ \A x, y \in 1..m : p[x] = p[y] => x = y
        /\ \A x, y \in 1..n : q[x] = q[y] => x = y
    BY <1>1, Zenon DEF NoDup, m, n
  <2>2. \A x \in 1..m : p[x] \in ToSet(p)
    BY <1>1, Zenon DEF ToSet
  <2>3. \A y \in 1..n : q[y] \in ToSet(q)
    BY <1>1, Zenon DEF ToSet
  <2>4. \A x \in 1..m, y \in 1..n : p[x] # q[y]
    BY <2>2, <2>3, Zenon
  <2> QED BY <2>1, <2>4, Zenon
<1>7. NoDup(r)
  <2> SUFFICES ASSUME NEW i \in 1..(m+n), NEW j \in 1..(m+n), r[i] = r[j]
               PROVE  i = j
    BY <1>2 DEF NoDup
  <2>1. i - m \in 1..n /\ j - m \in 1..n /\ i - m = j - m => i = j
    BY <1>1
  <2> QED BY <1>4, <1>6, <2>1
<1>8. ToSet(r) = ToSet(p) \cup ToSet(q)
  <2>1. \A i \in 1..(m + n) : r[i] \in ToSet(p) \cup ToSet(q)
    BY <1>1, <1>4 DEF ToSet
  <2>3. /\ \A i \in 1..n : m + i \in 1..(m + n)
        /\ \A i \in 1..m : i \in 1..(m + n)
    BY <1>1
  <2>2. \A i \in 1..m : p[i] \in ToSet(r)
    BY <2>3, <1>2, <1>3 DEF ToSet
  <2>4. \A i \in 1..n : q[i] \in ToSet(r)
    BY <2>3, <1>2, <1>3 DEF ToSet
  <2> QED BY <2>1, <2>2, <2>4, <1>1, <1>2 DEF ToSet
<1> QED BY <1>2, <1>5, <1>7, <1>8 DEF IsList

\* LIST_INSERT_HEAD leaves the other end of a list that holds something alone.
LEMMA ListKeepsLast ==
  ASSUME NEW S, NEW q \in Seq(S), q # <<>>, NEW e \in S
  PROVE  /\ Last(<<e>> \o q) = Last(q)
         /\ Front(<<e>> \o q) = <<e>> \o Front(q)
<1> DEFINE n == Len(q)
           r == <<e>> \o q
           f == SubSeq(q, 1, n - 1)
           g == SubSeq(r, 1, n)
           h == <<e>> \o f
<1>1. n \in Nat /\ n > 0 /\ r \in Seq(S) /\ Len(r) = n + 1
  OBVIOUS
<1>2. r[1] = e /\ \A i \in 1..n : r[i + 1] = q[i]
  OBVIOUS
<1>3. f \in Seq(S) /\ Len(f) = n - 1 /\ \A i \in 1..(n-1) : f[i] = q[i]
  <2>1. q \in Seq(S) /\ n \in Nat /\ n > 0 /\ DOMAIN q = 1..n
    BY <1>1
  <2> HIDE DEF r, g, h
  <2> QED BY <2>1
<1> HIDE DEF f
<1>4. h \in Seq(S) /\ Len(h) = n /\ h[1] = e /\ \A i \in 1..(n-1) : h[i + 1] = f[i]
  BY <1>1, <1>3
<1> HIDE DEF r
<1>5. g \in Seq(S) /\ Len(g) = n /\ \A i \in 1..n : g[i] = r[i]
  BY <1>1
<1> HIDE DEF g, h, n
<1>6. \A i \in 1..n : g[i] = h[i]
  <2> TAKE i \in 1..n
  <2>1. CASE i = 1
    BY <2>1, <1>1, <1>2, <1>4, <1>5
  <2>2. CASE i # 1
    <3>1. i - 1 \in 1..(n-1) /\ i - 1 \in 1..n /\ (i - 1) + 1 = i
      BY <2>2, <1>1
    <3>2. h[i] = f[i-1] /\ f[i-1] = q[i-1] /\ r[i] = q[i-1]
      BY <3>1, <1>2, <1>3, <1>4
    <3> QED BY <3>2, <1>5
  <2> QED BY <2>1, <2>2
<1>7. g = h
  BY <1>4, <1>5, <1>6
<1>8. r[n + 1] = q[n]
  BY <1>1, <1>2
<1>9. Front(r) = g /\ Front(q) = f
  BY <1>1 DEF Front, g, f, n
<1>10. Last(r) = r[n + 1] /\ Last(q) = q[n]
  BY <1>1 DEF Last, n
<1> QED BY <1>7, <1>8, <1>9, <1>10 DEF h, r

\* Appending at the tail.
LEMMA ListAppend ==
  ASSUME NEW S, NEW q, IsList(q, S), NEW e \in S, e \notin ToSet(q)
  PROVE  /\ IsList(Append(q, e), S) /\ ToSet(Append(q, e)) = ToSet(q) \cup {e}
         /\ Len(Append(q, e)) = Len(q) + 1
<1> DEFINE n == Len(q)
           r == Append(q, e)
<1>1. q \in Seq(S) /\ NoDup(q) /\ n \in Nat /\ DOMAIN q = 1..n
  BY DEF IsList
<1>2. r \in Seq(S) /\ Len(r) = n + 1 /\ DOMAIN r = 1..(n + 1)
  BY <1>1
<1>3. r[n + 1] = e /\ \A i \in 1..n : r[i] = q[i]
  BY <1>1
<1>4. Append(q, e) = r
  OBVIOUS
<1> HIDE DEF r, n
<1>5. \A i \in 1..(n + 1) : i = n + 1 \/ i \in 1..n
  BY <1>1
<1>6. \A i \in 1..n : i \in 1..(n + 1)
  BY <1>1
<1>7. n + 1 \in 1..(n + 1)
  BY <1>1
<1>8. ToSet(r) = ToSet(q) \cup {e}
  <2>1. \A i \in 1..(n + 1) : r[i] \in ToSet(q) \cup {e}
    BY <1>1, <1>3, <1>5, Zenon DEF ToSet
  <2>2. e \in ToSet(r)
    BY <1>2, <1>3, <1>7, Zenon DEF ToSet
  <2>3. \A i \in 1..n : q[i] \in ToSet(r)
    BY <1>2, <1>3, <1>6, Zenon DEF ToSet
  <2> QED BY <2>1, <2>2, <2>3, <1>1, <1>2 DEF ToSet
<1>9. NoDup(r)
  <2> SUFFICES ASSUME NEW i \in 1..(n+1), NEW j \in 1..(n+1), r[i] = r[j]
               PROVE  i = j
    BY <1>2 DEF NoDup
  <2>1. \A x, y \in 1..n : q[x] = q[y] => x = y
    BY <1>1 DEF NoDup, n
  <2>2. \A x \in 1..n : q[x] # e
    BY <1>1 DEF ToSet
  <2> QED BY <2>1, <2>2, <1>3, <1>5, Zenon
<1> QED BY <1>2, <1>4, <1>8, <1>9 DEF IsList, n

\* A stretch of a list is a list.
LEMMA ListPart ==
  ASSUME NEW S, NEW q, IsList(q, S), NEW m \in Nat, NEW n \in Nat, 1 <= m, n <= Len(q)
  PROVE  /\ IsList(SubSeq(q, m, n), S)
         /\ ToSet(SubSeq(q, m, n)) = {q[i] : i \in m..n}
         /\ Len(SubSeq(q, m, n)) = IF m <= n THEN (n - m) + 1 ELSE 0
<1> DEFINE r == SubSeq(q, m, n)
           k == IF m <= n THEN (n - m) + 1 ELSE 0
<1>1. q \in Seq(S) /\ NoDup(q) /\ Len(q) \in Nat /\ DOMAIN q = 1..Len(q)
  BY DEF IsList
<1>2. k \in Nat /\ \A i \in 1..k : (m + i) - 1 \in m..n /\ (m + i) - 1 \in 1..Len(q)
  BY <1>1
<1>3. \A j \in m..n : (j - m) + 1 \in 1..k /\ (m + ((j - m) + 1)) - 1 = j
  BY <1>1
<1>4. r \in Seq(S) /\ Len(r) = k /\ \A i \in 1..k : r[i] = q[(m + i) - 1]
  <2>1. \A i \in m..n : q[i] \in S
    BY <1>1
  <2>2. CASE m <= n
    BY <2>1, <2>2, SubSeqProperties, <1>1
  <2>3. CASE ~(m <= n)
    <3>1. r = <<>>
      BY <2>3, SubSeqEmpty
    <3> QED BY <3>1, <2>3
  <2> QED BY <2>2, <2>3
<1>5. DOMAIN r = 1..k
  BY <1>4
<1>6. r = SubSeq(q, m, n) /\ k = IF m <= n THEN (n - m) + 1 ELSE 0
  OBVIOUS
<1> HIDE DEF r, k
<1>7. NoDup(r)
  <2> SUFFICES ASSUME NEW i \in 1..k, NEW j \in 1..k, r[i] = r[j]
               PROVE  i = j
    BY <1>4 DEF NoDup
  <2>1. \A x, y \in 1..Len(q) : q[x] = q[y] => x = y
    BY <1>1 DEF NoDup
  <2>2. (m + i) - 1 = (m + j) - 1
    BY <1>2, <1>4, <2>1
  <2> QED BY <2>2
<1>8. ToSet(r) = {q[i] : i \in m..n}
  <2>1. ASSUME NEW x \in ToSet(r) PROVE x \in {q[i] : i \in m..n}
    <3>1. PICK i \in 1..k : x = r[i]
      BY <1>5 DEF ToSet
    <3> QED BY <3>1, <1>2, <1>4
  <2>2. ASSUME NEW x \in m..n PROVE q[x] \in ToSet(r)
    <3>1. r[(x - m) + 1] = q[x] /\ (x - m) + 1 \in DOMAIN r
      BY <1>3, <1>4, <1>5
    <3> QED BY <3>1 DEF ToSet
  <2> QED BY <2>1, <2>2
<1> QED BY <1>4, <1>6, <1>7, <1>8 DEF IsList

\* LIST_SIZE is the number of elements.
LEMMA ListCardinality ==
  ASSUME NEW S, NEW q, IsList(q, S)
  PROVE  IsFiniteSet(ToSet(q)) /\ Cardinality(ToSet(q)) = Len(q)
<1>1. q \in Seq(S) /\ NoDup(q) /\ Len(q) \in Nat /\ DOMAIN q = 1..Len(q)
  BY DEF IsList
<1>2. q \in [1..Len(q) -> ToSet(q)]
  BY <1>1 DEF ToSet
<1>3. \A t \in ToSet(q) : \E i \in 1..Len(q) : q[i] = t
  BY <1>1 DEF ToSet
<1>4. q \in Bijection(1..Len(q), ToSet(q))
  <2>1. \A a, b \in 1..Len(q) : q[a] = q[b] => a = b
    BY <1>1 DEF NoDup
  <2> QED BY <1>2, <1>3, <2>1, Fun_IsBij
<1>5. ExistsBijection(1..Len(q), ToSet(q))
  BY <1>4, Fun_ExistsBij
<1>6. IsFiniteSet(1..Len(q)) /\ Cardinality(1..Len(q)) = Len(q)
  BY <1>1, FS_Interval
<1> QED BY <1>5, <1>6, FS_Bijection

=============================================================================
