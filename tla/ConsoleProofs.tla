--------------------------- MODULE ConsoleProofs ---------------------------
(***************************************************************************)
(* Proofs about Console: for a ring, a screen and a line buffer of any     *)
(* size and any keys, input keeps its order from the key to the reader and *)
(* the screen shows the line that readline holds.                          *)
(* About LineEditor: whatever the keys, the buffer, the history and the    *)
(* completions hold the line that was meant.                               *)
(*                                                                         *)
(* The ring, the modifiers and the screen are proved apart, for they share *)
(* no state but the character that goes from one to the next; each has a   *)
(* part of the invariant and a lemma for each of the operators that the    *)
(* actions are made of.                                                    *)
(*                                                                         *)
(* The editor's buffer is a string with NUL bytes behind it as long as the *)
(* line is edited at its end: each key is shown to keep that.              *)
(***************************************************************************)
EXTENDS Console, LineEditor, ListProofs, SequenceTheorems

-----------------------------------------------------------------------------
(* Positions in the ring *)

\* Division with remainder.
LEMMA ModRange ==
  ASSUME NEW N \in Nat \ {0}, NEW a \in Int
  PROVE  a % N \in 0..(N - 1) /\ a \div N \in Int /\ a = N * (a \div N) + (a % N)
OBVIOUS

\* There is one remainder.
LEMMA ModUnique ==
  ASSUME NEW N \in Nat \ {0}, NEW a \in Int, NEW q \in Int, NEW r \in 0..(N - 1), a = N * q + r
  PROVE  a % N = r
<1> DEFINE p == a \div N
           s == a % N
<1>1. p \in Int /\ s \in 0..(N - 1) /\ a = N * p + s
  BY ModRange
<1> HIDE DEF p, s
<1>2. N * (p - q) = r - s
  BY <1>1
<1>3. CASE p - q >= 1
  <2>1. N * (p - q) >= N
    BY <1>3, <1>1
  <2> QED BY <2>1, <1>2, <1>1
<1>4. CASE q - p >= 1
  <2>1. N * (q - p) >= N
    BY <1>4, <1>1
  <2>2. N * (q - p) = s - r
    BY <1>1
  <2> QED BY <2>1, <2>2, <1>1
<1> QED BY <1>1, <1>2, <1>3, <1>4 DEF s

\* Where the character with number a is.
Slot(a) == a % CONSBUFSIZE

\* The next position, as the code computes it.
LEMMA SlotNext ==
  ASSUME NEW a \in Int
  PROVE  Slot(a) \in 0..(CONSBUFSIZE - 1) /\ Advance(Slot(a)) = Slot(a + 1)
<1> DEFINE N == CONSBUFSIZE
           q == a \div N
           r == a % N
<1>1. N \in Nat \ {0} /\ N > 1
  BY ConsoleAssumption
<1>2. q \in Int /\ r \in 0..(N - 1) /\ a = N * q + r
  BY <1>1, ModRange
<1> HIDE DEF q, r
<1>3. CASE r + 1 = N
  <2>1. a + 1 = N * (q + 1) + 0 /\ q + 1 \in Int /\ 0 \in 0..(N - 1)
    BY <1>1, <1>2, <1>3
  <2>2. (a + 1) % N = 0
    BY <1>1, <2>1, ModUnique
  <2> QED BY <1>2, <1>3, <2>2 DEF Slot, Advance, r
<1>4. CASE r + 1 # N
  <2>1. a + 1 = N * q + (r + 1) /\ r + 1 \in 0..(N - 1)
    BY <1>1, <1>2, <1>4
  <2>2. (a + 1) % N = r + 1
    BY <1>1, <1>2, <2>1, ModUnique
  <2> QED BY <1>2, <1>4, <2>2 DEF Slot, Advance, r
<1> QED BY <1>3, <1>4

\* Positions of numbers that differ by whole laps are the same.
LEMMA SlotLaps ==
  ASSUME NEW a \in Int, NEW b \in Int, NEW k \in Int, a = b + CONSBUFSIZE * k
  PROVE  Slot(a) = Slot(b)
<1> DEFINE N == CONSBUFSIZE
           q == b \div N
           r == b % N
<1>1. N \in Nat \ {0}
  BY ConsoleAssumption
<1>2. q \in Int /\ r \in 0..(N - 1) /\ b = N * q + r
  BY <1>1, ModRange
<1> HIDE DEF q, r
<1>3. a = N * (q + k) + r /\ q + k \in Int
  BY <1>1, <1>2
<1>4. a % N = r
  BY <1>1, <1>2, <1>3, ModUnique
<1> QED BY <1>4 DEF Slot, r

\* A number is its position and whole laps.
LEMMA SlotOf ==
  ASSUME NEW a \in Int
  PROVE  \E k \in Int : a = Slot(a) + CONSBUFSIZE * k
<1>1. CONSBUFSIZE \in Nat \ {0}
  BY ConsoleAssumption
<1>2. a \div CONSBUFSIZE \in Int /\ a = CONSBUFSIZE * (a \div CONSBUFSIZE) + (a % CONSBUFSIZE)
      /\ a % CONSBUFSIZE \in Int
  BY <1>1, ModRange
<1>3. a = (a % CONSBUFSIZE) + CONSBUFSIZE * (a \div CONSBUFSIZE)
  BY <1>1, <1>2
<1> QED BY <1>2, <1>3 DEF Slot

\* A number below CONSBUFSIZE is its own position.
LEMMA SlotSmall ==
  ASSUME NEW a \in 0..(CONSBUFSIZE - 1)
  PROVE  Slot(a) = a
<1>1. CONSBUFSIZE \in Nat \ {0}
  BY ConsoleAssumption
<1>2. a = CONSBUFSIZE * 0 + a /\ a \in Int
  BY <1>1
<1> QED BY <1>1, <1>2, ModUnique DEF Slot

\* Positions can be added.
LEMMA SlotSum ==
  ASSUME NEW a \in Int, NEW b \in Int
  PROVE  Slot(Slot(a) + b) = Slot(a + b)
<1>1. PICK k \in Int : a = Slot(a) + CONSBUFSIZE * k
  BY SlotOf
<1>2. CONSBUFSIZE \in Nat /\ Slot(a) \in Int
  BY ConsoleAssumption, SlotNext
<1> DEFINE s == Slot(a)
<1> HIDE DEF s
<1>3. s \in Int /\ a = s + CONSBUFSIZE * k
  BY <1>1, <1>2 DEF s
<1>4. a + b = (s + b) + CONSBUFSIZE * k
  BY <1>2, <1>3
<1> QED BY <1>3, <1>4, SlotLaps DEF s

\* The distance of two positions is that of the numbers, but for whole laps.
LEMMA SlotDifference ==
  ASSUME NEW a \in Int, NEW b \in Int
  PROVE  /\ Slot(Slot(a) - Slot(b)) = Slot(a - b)
         /\ Slot(a - Slot(a - b)) = Slot(b)
<1> DEFINE s == Slot(a)
           t == Slot(b)
           d == Slot(a - b)
<1>1. PICK k \in Int : a = s + CONSBUFSIZE * k
  BY SlotOf
<1>2. PICK m \in Int : b = t + CONSBUFSIZE * m
  BY SlotOf
<1>3. PICK n \in Int : a - b = d + CONSBUFSIZE * n
  BY SlotOf
<1>4. CONSBUFSIZE \in Nat /\ s \in Int /\ t \in Int /\ d \in Int
  BY ConsoleAssumption, SlotNext
<1> HIDE DEF s, t, d
<1>5. a - b = (s - t) + CONSBUFSIZE * (k - m)
  BY <1>1, <1>2, <1>4
<1>6. Slot(a - b) = Slot(s - t)
  <2>1. a - b \in Int /\ s - t \in Int /\ k - m \in Int
    BY <1>4
  <2> QED BY <1>5, <2>1, SlotLaps
<1>7. a - d = b + CONSBUFSIZE * n
  BY <1>3, <1>4
<1>8. Slot(a - d) = Slot(b)
  <2>1. a - d \in Int
    BY <1>4
  <2> QED BY <1>7, <2>1, SlotLaps
<1> QED BY <1>6, <1>8 DEF s, t, d

\* Less than a lap apart, numbers have positions of their own.
LEMMA SlotApart ==
  ASSUME NEW a \in Int, NEW b \in Int, Slot(a) = Slot(b), a - b \in 0..(CONSBUFSIZE - 1)
  PROVE  a = b
<1>1. CONSBUFSIZE \in Nat \ {0} /\ Slot(a) \in Int /\ Slot(b) \in Int
  BY ConsoleAssumption, SlotNext
<1>2. Slot(a - b) = Slot(0)
  <2>1. Slot(a) - Slot(b) = 0
    BY <1>1
  <2> QED BY <2>1, SlotDifference
<1>3. 0 \in 0..(CONSBUFSIZE - 1)
  BY <1>1
<1> QED BY <1>2, <1>3, SlotSmall

-----------------------------------------------------------------------------
(* The ring *)

\* The ring of the code: an array and two positions in it.
Rings == [buf : [0..(CONSBUFSIZE - 1) -> Int], rpos : 0..(CONSBUFSIZE - 1), wpos : 0..(CONSBUFSIZE - 1)]

\* w characters were written, the last of them are in the slots behind the
\* next one to write, and r were read.
RingInv(ring, last, w, r) ==
  /\ w \in Int /\ r \in Int /\ ring \in Rings
  /\ last \in Seq(Int) /\ Len(last) = CONSBUFSIZE
  /\ ring.rpos = Slot(r) /\ ring.wpos = Slot(w)
  /\ \A n \in 1..CONSBUFSIZE : ring.buf[Slot(w + n - 1)] = last[n]

\* cons_intr writes over the oldest slot.
LEMMA PutKeeps ==
  ASSUME NEW ring, NEW last, NEW w, NEW r, NEW c \in Int, RingInv(ring, last, w, r)
  PROVE  RingInv(Put(ring, c), LapAfter(last, c), w + Counted(c), r)
<1> DEFINE N     == CONSBUFSIZE
           ring2 == Put(ring, c)
           last2 == LapAfter(last, c)
<1>1. N \in Nat \ {0}
  BY ConsoleAssumption
<1>2. CASE c = 0
  <2>1. w + 0 = w
    BY DEF RingInv
  <2> QED BY <1>2, <2>1 DEF Put, LapAfter, Counted
<1>3. CASE c # 0
  <2>1. w \in Int /\ r \in Int /\ ring \in Rings /\ last \in Seq(Int) /\ Len(last) = N
        /\ ring.rpos = Slot(r) /\ ring.wpos = Slot(w)
        /\ \A n \in 1..N : ring.buf[Slot(w + n - 1)] = last[n]
    BY DEF RingInv
  <2>2. ring2 \in Rings /\ ring2.rpos = Slot(r) /\ ring2.wpos = Slot(w + 1)
        /\ ring2.buf = [ring.buf EXCEPT ![Slot(w)] = c]
    <3>1. Slot(w) \in 0..(N - 1) /\ Advance(Slot(w)) = Slot(w + 1) /\ Slot(w + 1) \in 0..(N - 1)
      BY <2>1, SlotNext
    <3> QED BY <1>3, <2>1, <3>1 DEF Put, Rings
  <2>3. last2 \in Seq(Int) /\ Len(last2) = N /\ last2[N] = c
        /\ \A n \in 1..(N - 1) : last2[n] = last[n + 1]
    <3>1. Tail(last) \in Seq(Int) /\ Len(Tail(last)) = N - 1
          /\ \A n \in 1..(N - 1) : Tail(last)[n] = last[n + 1]
      BY <1>1, <2>1
    <3> HIDE DEF N
    <3>2. last2 = Append(Tail(last), c)
      BY <1>3 DEF LapAfter
    <3> QED BY <1>1, <3>1, <3>2
  <2>4. Counted(c) = 1 /\ w + 1 \in Int
    BY <1>3, <2>1 DEF Counted
  <2> HIDE DEF ring2, last2
  <2>5. ASSUME NEW n \in 1..N PROVE ring2.buf[Slot((w + 1) + n - 1)] = last2[n]
    <3>1. CASE n = N
      <4>1. Slot((w + 1) + n - 1) = Slot(w)
        <5>1. (w + 1) + n - 1 = w + N * 1
          BY <1>1, <2>1, <3>1
        <5>2. (w + 1) + n - 1 \in Int
          BY <1>1, <2>1
        <5> QED BY <2>1, <5>1, <5>2, SlotLaps
      <4>2. Slot(w) \in DOMAIN ring.buf
        BY <2>1, SlotNext DEF Rings
      <4> QED BY <2>2, <2>3, <3>1, <4>1, <4>2
    <3>2. CASE n # N
      <4>1. n + 1 \in 1..N /\ w + n \in Int /\ (w + 1) + n - 1 = w + n /\ w + (n + 1) - 1 = w + n
        BY <1>1, <2>1, <3>2
      <4>2. Slot(w + n) # Slot(w)
        <5>1. (w + n) - w \in 0..(N - 1) /\ w + n # w
          BY <1>1, <2>1, <3>2
        <5> QED BY <2>1, <4>1, <5>1, SlotApart
      <4>3. Slot(w + n) \in DOMAIN ring.buf
        BY <2>1, <4>1, SlotNext DEF Rings
      <4>4. ring.buf[Slot(w + n)] = last[n + 1]
        BY <2>1, <4>1
      <4>5. last2[n] = last[n + 1]
        BY <1>1, <2>3, <3>2
      <4> QED BY <2>2, <4>1, <4>2, <4>3, <4>4, <4>5
    <3> QED BY <3>1, <3>2
  <2> QED BY <2>1, <2>2, <2>3, <2>4, <2>5 DEF RingInv, ring2, last2
<1> QED BY <1>2, <1>3

\* Taking a character moves the reader only.
LEMMA GetKeeps ==
  ASSUME NEW ring, NEW last, NEW w, NEW r, RingInv(ring, last, w, r)
  PROVE  /\ RingInv([ring EXCEPT !.rpos = Advance(@)], last, w, r + 1)
         /\ ring.buf[ring.rpos] \in Int
<1>1. r \in Int /\ ring \in Rings /\ ring.rpos = Slot(r)
  BY DEF RingInv
<1>2. Advance(Slot(r)) = Slot(r + 1) /\ Slot(r + 1) \in 0..(CONSBUFSIZE - 1) /\ r + 1 \in Int
  BY <1>1, SlotNext
<1>3. [ring EXCEPT !.rpos = Advance(@)] \in Rings
      /\ [ring EXCEPT !.rpos = Advance(@)].rpos = Slot(r + 1)
      /\ [ring EXCEPT !.rpos = Advance(@)].wpos = ring.wpos
      /\ [ring EXCEPT !.rpos = Advance(@)].buf = ring.buf
  BY <1>1, <1>2 DEF Rings
<1>4. ring.buf[ring.rpos] \in Int
  BY <1>1 DEF Rings
<1> QED BY <1>2, <1>3, <1>4 DEF RingInv

\* Something waits unless all was read, but for whole laps.
LEMMA WaitingMeans ==
  ASSUME NEW ring, NEW last, NEW w, NEW r, RingInv(ring, last, w, r), w - r \in 1..(CONSBUFSIZE - 1)
  PROVE  Waiting(ring)
<1>1. w \in Int /\ r \in Int /\ ring.rpos = Slot(r) /\ ring.wpos = Slot(w)
  BY DEF RingInv
<1>2. w - r \in 0..(CONSBUFSIZE - 1) /\ w # r
  BY <1>1, ConsoleAssumption
<1> QED BY <1>1, <1>2, SlotApart DEF Waiting

\* What waits is the end of what was written.
LEMMA RingShows ==
  ASSUME RingInv(cons, lap, written, read)
  PROVE  RingHoldsLastLap
<1> DEFINE N == CONSBUFSIZE
           count == (cons.wpos - cons.rpos) % CONSBUFSIZE
           m == Slot(written - read)
<1>1. written \in Int /\ read \in Int /\ lap \in Seq(Int) /\ Len(lap) = N /\ cons \in Rings
      /\ cons.rpos = Slot(read) /\ cons.wpos = Slot(written) /\ N \in Nat \ {0}
  BY ConsoleAssumption DEF RingInv
<1>2. written - read \in Int /\ m \in 0..(N - 1) /\ count = m /\ (written - read) % CONSBUFSIZE = m
  <2>1. count = Slot(Slot(written) - Slot(read))
    BY <1>1 DEF Slot
  <2>2. written - read \in Int
    BY <1>1
  <2> QED BY <1>1, <2>1, <2>2, SlotDifference, SlotNext DEF Slot
<1>3. Slot(written - m) = Slot(read)
  BY <1>1, SlotDifference
<1> HIDE DEF m
<1>4. ASSUME NEW n \in 1..m
      PROVE  cons.buf[(cons.rpos + n - 1) % CONSBUFSIZE] = lap[(N - m + 1) + n - 1]
  <2>1. n \in Int /\ n - 1 \in Int /\ m \in Int /\ N - m + n \in 1..N
        /\ (N - m + 1) + n - 1 = N - m + n
    BY <1>1, <1>2
  <2>2. cons.buf[Slot(written + (N - m + n) - 1)] = lap[N - m + n]
    BY <2>1 DEF RingInv
  <2>3. Slot(written + (N - m + n) - 1) = Slot(read + (n - 1))
    <3>1. written + (N - m + n) - 1 \in Int /\ (written - m) + (n - 1) \in Int /\ written - m \in Int
      BY <1>1, <2>1
    <3>2. written + (N - m + n) - 1 = ((written - m) + (n - 1)) + CONSBUFSIZE * 1
      BY <1>1, <2>1
    <3>3. Slot(written + (N - m + n) - 1) = Slot((written - m) + (n - 1))
      BY <3>1, <3>2, SlotLaps
    <3>4. Slot((written - m) + (n - 1)) = Slot(Slot(written - m) + (n - 1))
      BY <2>1, <3>1, SlotSum
    <3>5. Slot(Slot(read) + (n - 1)) = Slot(read + (n - 1))
      BY <1>1, <2>1, SlotSum
    <3> QED BY <1>3, <3>3, <3>4, <3>5
  <2>4. Slot(read + (n - 1)) = Slot(Slot(read) + (n - 1))
    BY <1>1, <2>1, SlotSum
  <2>5. (cons.rpos + n - 1) % CONSBUFSIZE = Slot(Slot(read) + (n - 1))
    <3>1. Slot(read) \in Int
      BY <1>1, SlotNext
    <3>2. cons.rpos + n - 1 = Slot(read) + (n - 1)
      BY <1>1, <2>1, <3>1
    <3> QED BY <3>2 DEF Slot
  <2> QED BY <2>1, <2>2, <2>3, <2>4, <2>5
<1>5. SubSeq(lap, N - m + 1, N) = [n \in 1..m |-> lap[(N - m + 1) + n - 1]]
  BY <1>1, <1>2
<1>6. Contents = [n \in 1..m |-> cons.buf[(cons.rpos + n - 1) % CONSBUFSIZE]]
  BY <1>2 DEF Contents
<1>7. Contents = SubSeq(lap, N - m + 1, N)
  BY <1>4, <1>5, <1>6
<1> QED BY <1>2, <1>7 DEF RingHoldsLastLap

-----------------------------------------------------------------------------
(* The modifiers *)

Byte == 0..255

\* A key has its codes.
LEMMA KeyBytes ==
  ASSUME NEW key \in Keys
  PROVE  /\ key.code \in Byte /\ key.code + 128 \in Byte /\ key.ext \in BOOLEAN
         /\ \hE0 \in Byte
<1>1. key.code \in 0..127 /\ key.ext \in BOOLEAN
  BY KeysAssumption
<1> QED BY <1>1 DEF Byte

Modifiers == {SHIFT, CTL, ALT}

\* The code by which the tables know a key.
TableCode(key) == IF key.ext THEN key.code + 128 ELSE key.code

\* The modifiers that are set belong to keys that are held, and no escape waits
\* for its second byte.
Held(flags, held) ==
  /\ E0ESC \notin flags
  /\ \A f \in flags \cap Modifiers : \E key \in held : f \in shiftcode(TableCode(key))

\* t has the value of `shift' after every byte that waits.
Decoding(t, flags, bytes) ==
  /\ DOMAIN t = 0..Len(bytes) /\ t[0] = flags
  /\ \A j \in 1..Len(bytes) : t[j] = ShiftAfter(t[j - 1], bytes[j])

\* Once the bytes are decoded, the modifiers will be those of keys held.
ModifierInv(flags, bytes, held) ==
  /\ bytes \in Seq(Byte) /\ held \subseteq Keys
  /\ \E t : Decoding(t, flags, bytes) /\ Held(t[Len(bytes)], held)

\* The tables know modifiers and toggles apart.
LEMMA Codes ==
  ASSUME NEW d \in Int
  PROVE  shiftcode(d) \subseteq Modifiers /\ togglecode(d) \cap (Modifiers \cup {E0ESC}) = {}
<1>1. shiftcode(d) \subseteq Modifiers
  BY DEF shiftcode, Modifiers
<1>2. togglecode(d) \cap (Modifiers \cup {E0ESC}) = {}
  BY DEF togglecode, Modifiers, SHIFT, CTL, ALT, CAPSLOCK, NUMLOCK, E0ESC
<1> QED BY <1>1, <1>2

\* `shift' after the bytes of a key that is pressed or released.
LastByte(key, released) == IF released THEN key.code + 128 ELSE key.code

AfterKey(flags, key, released) ==
  IF key.ext THEN ShiftAfter(ShiftAfter(flags, \hE0), LastByte(key, released))
  ELSE ShiftAfter(flags, LastByte(key, released))

\* A release clears the modifier of the key, a press sets it or toggles a lock.
LEMMA KeyDecoded ==
  ASSUME NEW flags, E0ESC \notin flags, NEW key \in Keys
  PROVE  /\ AfterKey(flags, key, TRUE) = flags \ (shiftcode(TableCode(key)) \cup {E0ESC})
         /\ AfterKey(flags, key, FALSE) =
              ((flags \cup shiftcode(TableCode(key))) \ togglecode(TableCode(key)))
                \cup (togglecode(TableCode(key)) \ (flags \cup shiftcode(TableCode(key))))
<1> DEFINE sc == shiftcode(TableCode(key))
           tc == togglecode(TableCode(key))
<1>1. key.code \in 0..127 /\ key.code # 96 /\ key.ext \in BOOLEAN
  BY KeysAssumption
<1>2. key.code + 128 >= 128 /\ key.code + 128 # 224 /\ key.code # 224 /\ ~(key.code >= 128)
      /\ (key.code + 128) - 128 = key.code
  BY <1>1
<1>3. flags \ {E0ESC} = flags /\ (flags \cup {E0ESC}) \ {E0ESC} = flags
      /\ (flags \cup {E0ESC}) \ (sc \cup {E0ESC}) = flags \ (sc \cup {E0ESC})
  OBVIOUS
<1>4. LastByte(key, TRUE) = key.code + 128 /\ LastByte(key, FALSE) = key.code
  BY DEF LastByte
<1>5. CASE ~key.ext
  <2>1. TableCode(key) = key.code
    BY <1>5 DEF TableCode
  <2>2. ShiftAfter(flags, key.code + 128) = flags \ (sc \cup {E0ESC})
    BY <1>2, <2>1 DEF ShiftAfter, Released
  <2>3. ShiftAfter(flags, key.code) = ((flags \cup sc) \ tc) \cup (tc \ (flags \cup sc))
    BY <1>2, <1>3, <2>1 DEF ShiftAfter, Pressed
  <2> QED BY <1>5, <1>4, <2>2, <2>3 DEF AfterKey
<1>6. CASE key.ext
  <2>1. ShiftAfter(flags, \hE0) = flags \cup {E0ESC}
    BY DEF ShiftAfter
  <2>2. TableCode(key) = key.code + 128
    BY <1>6 DEF TableCode
  <2>3. ShiftAfter(flags \cup {E0ESC}, key.code + 128) = flags \ (sc \cup {E0ESC})
    BY <1>2, <1>3, <2>2 DEF ShiftAfter, Released
  <2>4. ShiftAfter(flags \cup {E0ESC}, key.code) = ((flags \cup sc) \ tc) \cup (tc \ (flags \cup sc))
    BY <1>2, <1>3, <2>2 DEF ShiftAfter, Pressed
  <2> QED BY <1>6, <1>4, <2>1, <2>3, <2>4 DEF AfterKey
<1> QED BY <1>1, <1>5, <1>6

\* One and two elements at the end of a sequence.
LEMMA Appended ==
  ASSUME NEW S, NEW s \in Seq(S), NEW x \in S, NEW y \in S
  PROVE  s \o <<x>> = Append(s, x) /\ s \o (<<x>> \o <<y>>) = Append(Append(s, x), y)
<1>1. \A q \in Seq(S), z \in S : q \o <<z>> = Append(q, z) /\ Append(q, z) \in Seq(S) /\ <<z>> \in Seq(S)
  OBVIOUS
<1>2. s \o (<<x>> \o <<y>>) = (s \o <<x>>) \o <<y>>
  BY <1>1, ConcatAssociative
<1> QED BY <1>1, <1>2

\* A byte more to decode.
LEMMA DecodeMore ==
  ASSUME NEW flags, NEW bytes \in Seq(Byte), NEW t, Decoding(t, flags, bytes), NEW b \in Byte
  PROVE  /\ Append(bytes, b) \in Seq(Byte) /\ Len(Append(bytes, b)) = Len(bytes) + 1
         /\ \E u : /\ Decoding(u, flags, Append(bytes, b))
                   /\ u[Len(bytes) + 1] = ShiftAfter(t[Len(bytes)], b)
<1> DEFINE n == Len(bytes)
           more == Append(bytes, b)
           u == [j \in 0..(n + 1) |-> IF j <= n THEN t[j] ELSE ShiftAfter(t[n], b)]
<1>1. n \in Nat /\ more \in Seq(Byte) /\ Len(more) = n + 1 /\ more[n + 1] = b
      /\ \A j \in 1..n : more[j] = bytes[j]
  OBVIOUS
<1> HIDE DEF more
<1>2. DOMAIN u = 0..Len(more) /\ u[0] = flags /\ u[n + 1] = ShiftAfter(t[n], b) /\ u[n] = t[n]
  BY <1>1 DEF Decoding
<1>3. ASSUME NEW j \in 1..Len(more) PROVE u[j] = ShiftAfter(u[j - 1], more[j])
  <2>1. CASE j = n + 1
    <3>1. j - 1 = n
      BY <1>1, <2>1
    <3> QED BY <1>1, <1>2, <2>1, <3>1
  <2>2. CASE j # n + 1
    <3>1. j \in 1..n /\ j - 1 \in 0..n /\ j <= n /\ j - 1 <= n /\ j \in 0..(n + 1) /\ j - 1 \in 0..(n + 1)
      BY <1>1, <2>2
    <3>2. u[j] = t[j] /\ u[j - 1] = t[j - 1]
      BY <3>1
    <3>3. t[j] = ShiftAfter(t[j - 1], bytes[j])
      BY <3>1 DEF Decoding
    <3> QED BY <1>1, <3>1, <3>2, <3>3
  <2> QED BY <2>1, <2>2
<1>4. Decoding(u, flags, more)
  BY <1>2, <1>3 DEF Decoding
<1> QED BY <1>1, <1>2, <1>4 DEF more

\* The bytes of a key, decoded behind those that wait.
LEMMA BytesDecoded ==
  ASSUME NEW flags, NEW bytes \in Seq(Byte), NEW t, Decoding(t, flags, bytes),
         NEW key \in Keys, NEW released \in BOOLEAN
  PROVE  /\ bytes \o Bytes(key, released) \in Seq(Byte)
         /\ \E u : /\ Decoding(u, flags, bytes \o Bytes(key, released))
                   /\ u[Len(bytes \o Bytes(key, released))] = AfterKey(t[Len(bytes)], key, released)
<1> DEFINE last == LastByte(key, released)
           all  == bytes \o Bytes(key, released)
           esc  == Append(bytes, \hE0)
<1>1. key.ext \in BOOLEAN
  BY KeyBytes
<1>2. last \in Byte /\ \hE0 \in Byte
  BY KeyBytes DEF LastByte
<1>3. CASE ~key.ext
  <2>1. Bytes(key, released) = <<last>>
    <3>1. Bytes(key, released) = <<>> \o <<last>>
      BY <1>3 DEF Bytes, LastByte
    <3> HIDE DEF last
    <3>2. <<last>> \in Seq(Byte)
      BY <1>2
    <3> QED BY <3>1, <3>2, ConcatEmptySeq
  <2> HIDE DEF last
  <2>2. all = Append(bytes, last)
    BY <1>2, <2>1, Appended
  <2>3. /\ Append(bytes, last) \in Seq(Byte) /\ Len(Append(bytes, last)) = Len(bytes) + 1
        /\ \E u : /\ Decoding(u, flags, Append(bytes, last))
                  /\ u[Len(bytes) + 1] = ShiftAfter(t[Len(bytes)], last)
    BY <1>2, DecodeMore
  <2> HIDE DEF all
  <2> QED BY <1>3, <2>2, <2>3 DEF all, last, AfterKey
<1>4. CASE key.ext
  <2>1. Bytes(key, released) = <<\hE0>> \o <<last>>
    BY <1>4 DEF Bytes, LastByte
  <2>2. all = Append(esc, last)
    BY <1>2, <2>1, Appended
  <2>3. esc \in Seq(Byte) /\ Len(esc) = Len(bytes) + 1
        /\ \E u : Decoding(u, flags, esc) /\ u[Len(bytes) + 1] = ShiftAfter(t[Len(bytes)], \hE0)
    BY <1>2, DecodeMore
  <2>4. PICK u : Decoding(u, flags, esc) /\ u[Len(esc)] = ShiftAfter(t[Len(bytes)], \hE0)
    BY <2>3
  <2> HIDE DEF esc, last
  <2>5. /\ Append(esc, last) \in Seq(Byte) /\ Len(Append(esc, last)) = Len(esc) + 1
        /\ \E v : /\ Decoding(v, flags, Append(esc, last))
                  /\ v[Len(esc) + 1] = ShiftAfter(u[Len(esc)], last)
    BY <1>2, <2>3, <2>4, DecodeMore
  <2> HIDE DEF all
  <2> QED BY <1>4, <2>2, <2>4, <2>5 DEF last, all, AfterKey
<1> QED BY <1>1, <1>3, <1>4

\* The same of bytes that keep the invariant.
LEMMA KeyWaits ==
  ASSUME NEW flags, NEW bytes, NEW held, ModifierInv(flags, bytes, held),
         NEW key \in Keys, NEW rel \in BOOLEAN
  PROVE  /\ bytes \o Bytes(key, rel) \in Seq(Byte)
         /\ \E f, u : /\ Held(f, held) /\ Decoding(u, flags, bytes \o Bytes(key, rel))
                      /\ u[Len(bytes \o Bytes(key, rel))] = AfterKey(f, key, rel)
<1>1. PICK t : Decoding(t, flags, bytes) /\ Held(t[Len(bytes)], held)
  BY DEF ModifierInv
<1>2. bytes \in Seq(Byte)
  BY DEF ModifierInv
<1>3. Decoding(t, flags, bytes)
  BY <1>1
<1>4. bytes \o Bytes(key, rel) \in Seq(Byte)
  BY <1>2, <1>3, BytesDecoded
<1>5. \E u : /\ Decoding(u, flags, bytes \o Bytes(key, rel))
             /\ u[Len(bytes \o Bytes(key, rel))] = AfterKey(t[Len(bytes)], key, rel)
  BY <1>2, <1>3, BytesDecoded
<1> QED BY <1>1, <1>4, <1>5

\* A key is pressed: its modifier, if it has one, belongs to it.
LEMMA PressKeeps ==
  ASSUME NEW flags, NEW bytes, NEW held, ModifierInv(flags, bytes, held), NEW key \in Keys
  PROVE  ModifierInv(flags, bytes \o Bytes(key, FALSE), held \cup {key})
<1> DEFINE all  == bytes \o Bytes(key, FALSE)
           code == TableCode(key)
<1>0. held \subseteq Keys
  BY DEF ModifierInv
<1>1. PICK rel \in BOOLEAN : rel = FALSE
  OBVIOUS
<1>2. /\ bytes \o Bytes(key, rel) \in Seq(Byte)
      /\ \E f, u : /\ Held(f, held) /\ Decoding(u, flags, bytes \o Bytes(key, rel))
                   /\ u[Len(bytes \o Bytes(key, rel))] = AfterKey(f, key, rel)
  BY KeyWaits
<1>3. key.code \in 0..127 /\ key.ext \in BOOLEAN /\ code \in Int
  BY KeysAssumption DEF TableCode
<1>4. PICK f, u : /\ Held(f, held) /\ Decoding(u, flags, all)
                  /\ u[Len(all)] = AfterKey(f, key, FALSE)
  BY <1>1, <1>2
<1> DEFINE set == f \cup shiftcode(code)
           g   == (set \ togglecode(code)) \cup (togglecode(code) \ set)
<1>5. E0ESC \notin f
  BY <1>4 DEF Held
<1>6. u[Len(all)] = g
  BY <1>4, <1>5, KeyDecoded
<1>7. shiftcode(code) \subseteq Modifiers /\ togglecode(code) \cap (Modifiers \cup {E0ESC}) = {}
  BY <1>3, Codes
<1>8. E0ESC \notin Modifiers
  BY DEF Modifiers, E0ESC, SHIFT, CTL, ALT
<1>9. Held(g, held \cup {key})
  <2>1. E0ESC \notin g
    BY <1>5, <1>7, <1>8
  <2>2. ASSUME NEW m \in g \cap Modifiers
        PROVE  \E k \in held \cup {key} : m \in shiftcode(TableCode(k))
    <3>1. m \in f \/ m \in shiftcode(code)
      BY <1>7
    <3> QED BY <1>4, <3>1 DEF Held
  <2> QED BY <2>1, <2>2 DEF Held
<1> QED BY <1>1, <1>2, <1>4, <1>6, <1>9, <1>0 DEF ModifierInv

\* A key is released: the modifiers left set belong to other keys.
LEMMA ReleaseKeeps ==
  ASSUME NEW flags, NEW bytes, NEW held, ModifierInv(flags, bytes, held), NEW key \in Keys
  PROVE  ModifierInv(flags, bytes \o Bytes(key, TRUE), held \ {key})
<1> DEFINE all  == bytes \o Bytes(key, TRUE)
           code == TableCode(key)
<1>0. held \subseteq Keys
  BY DEF ModifierInv
<1>1. PICK rel \in BOOLEAN : rel = TRUE
  OBVIOUS
<1>2. /\ bytes \o Bytes(key, rel) \in Seq(Byte)
      /\ \E f, u : /\ Held(f, held) /\ Decoding(u, flags, bytes \o Bytes(key, rel))
                   /\ u[Len(bytes \o Bytes(key, rel))] = AfterKey(f, key, rel)
  BY KeyWaits
<1>3. PICK f, u : /\ Held(f, held) /\ Decoding(u, flags, all)
                  /\ u[Len(all)] = AfterKey(f, key, TRUE)
  BY <1>1, <1>2
<1> DEFINE g == f \ (shiftcode(code) \cup {E0ESC})
<1>4. E0ESC \notin f
  BY <1>3 DEF Held
<1>5. u[Len(all)] = g
  BY <1>3, <1>4, KeyDecoded
<1>6. Held(g, held \ {key})
  <2>1. ASSUME NEW m \in g \cap Modifiers
        PROVE  \E k \in held \ {key} : m \in shiftcode(TableCode(k))
    BY <1>3, <2>1 DEF Held
  <2> QED BY <2>1 DEF Held
<1> QED BY <1>1, <1>2, <1>3, <1>5, <1>6, <1>0 DEF ModifierInv

\* The kernel decodes a byte.
LEMMA DecodeKeeps ==
  ASSUME NEW flags, NEW bytes, NEW held, ModifierInv(flags, bytes, held), bytes # <<>>
  PROVE  /\ ModifierInv(ShiftAfter(flags, Head(bytes)), Tail(bytes), held)
         /\ Head(bytes) \in Byte
<1> DEFINE rest == Tail(bytes)
<1>1. PICK t : Decoding(t, flags, bytes) /\ Held(t[Len(bytes)], held)
  BY DEF ModifierInv
<1>2. bytes \in Seq(Byte)
  BY DEF ModifierInv
<1>3. rest \in Seq(Byte) /\ Len(bytes) \in Nat /\ Len(rest) = Len(bytes) - 1 /\ Len(bytes) > 0
      /\ Head(bytes) = bytes[1] /\ Head(bytes) \in Byte
      /\ \A j \in 1..Len(rest) : rest[j] = bytes[j + 1]
  <2>1. Len(bytes) \in Nat /\ Len(bytes) > 0 /\ Head(bytes) = bytes[1]
    BY <1>2
  <2> QED BY <1>2, <2>1, HeadTailProperties
<1> HIDE DEF rest
<1> DEFINE u == [j \in 0..Len(rest) |-> t[j + 1]]
<1>4. u[0] = ShiftAfter(flags, Head(bytes))
  BY <1>1, <1>3 DEF Decoding
<1>5. ASSUME NEW j \in 1..Len(rest) PROVE u[j] = ShiftAfter(u[j - 1], rest[j])
  <2>1. j + 1 \in 1..Len(bytes) /\ j \in 0..Len(rest) /\ j - 1 \in 0..Len(rest) /\ (j - 1) + 1 = j
        /\ (j + 1) - 1 = j
    BY <1>3
  <2>2. t[j + 1] = ShiftAfter(t[j], bytes[j + 1])
    BY <1>1, <2>1 DEF Decoding
  <2>3. u[j] = t[j + 1] /\ u[j - 1] = t[j]
    BY <2>1
  <2> QED BY <1>3, <2>2, <2>3
<1>6. u[Len(rest)] = t[Len(bytes)] /\ DOMAIN u = 0..Len(rest)
  BY <1>3
<1>7. Decoding(u, ShiftAfter(flags, Head(bytes)), rest)
  BY <1>4, <1>5, <1>6 DEF Decoding
<1> QED BY <1>1, <1>3, <1>6, <1>7 DEF ModifierInv, rest

\* With all bytes decoded, `shift' itself is such a value.
LEMMA ModifiersShown ==
  ASSUME ModifierInv(shift, inbox, down)
  PROVE  NoStuckModifier
<1> SUFFICES ASSUME inbox = <<>>
             PROVE  \A f \in shift \cap {SHIFT, CTL, ALT} : \E key \in down :
                      f \in shiftcode(IF key.ext THEN key.code + 128 ELSE key.code)
  BY DEF NoStuckModifier
<1>1. PICK t : Decoding(t, shift, inbox) /\ Held(t[Len(inbox)], down)
  BY DEF ModifierInv
<1>2. Len(inbox) = 0 /\ t[0] = shift
  BY <1>1 DEF Decoding
<1> QED BY <1>1, <1>2 DEF Held, TableCode, Modifiers

-----------------------------------------------------------------------------
(* The characters *)

\* The decoder's tables hold character codes.
LEMMA TableCodes ==
  ASSUME NEW flags, NEW data \in Int
  PROVE  charcode(flags, data) \in {0, 1, BS, NL, CR, SPACE, 33, 49, 65, 97, KEY_LF, KEY_RT, KEY_DEL, KEY_SPACE}
<1> DEFINE all == {0, 1, BS, NL, CR, SPACE, 33, 49, 65, 97, KEY_LF, KEY_RT, KEY_DEL, KEY_SPACE}
           row == CASE data = \h02 -> <<49, 33, 0>>
                    [] data = \h0E -> <<BS, BS, 0>>
                    [] data = \h1C -> <<NL, NL, CR>>
                    [] data = \h1E -> <<97, 65, 1>>
                    [] data = \h39 -> <<SPACE, SPACE, KEY_SPACE>>
                    [] data = \hCB -> <<KEY_LF, KEY_LF, KEY_LF>>
                    [] data = \hCD -> <<KEY_RT, KEY_RT, KEY_RT>>
                    [] data = \hD3 -> <<KEY_DEL, KEY_DEL, KEY_DEL>>
                    [] OTHER -> <<0, 0, 0>>
<1>1. row[1] \in all /\ row[2] \in all /\ row[3] \in all
  <2>1. CASE data = \h02
    BY <2>1
  <2>2. CASE data = \h0E
    BY <2>2
  <2>3. CASE data = \h1C
    BY <2>3
  <2>4. CASE data = \h1E
    BY <2>4
  <2>5. CASE data = \h39
    BY <2>5
  <2>6. CASE data = \hCB
    BY <2>6
  <2>7. CASE data = \hCD
    BY <2>7
  <2>8. CASE data = \hD3
    BY <2>8
  <2>9. CASE data \notin {\h02, \h0E, \h1C, \h1E, \h39, \hCB, \hCD, \hD3}
    BY <2>9
  <2> QED BY <2>1, <2>2, <2>3, <2>4, <2>5, <2>6, <2>7, <2>8, <2>9
<1>2. charcode(flags, data) = IF CTL \in flags THEN row[3] ELSE IF SHIFT \in flags THEN row[2] ELSE row[1]
  BY DEF charcode
<1> HIDE DEF row, all
<1> QED BY <1>1, <1>2 DEF all

\* A byte completes a key or nothing; cursor keys, DEL and the codes below the
\* space keep their codes.
LEMMA CharCodes ==
  ASSUME NEW flags, NEW data \in Byte
  PROVE  /\ CharOf(flags, data) \in {0, 1, BS, NL, CR, SPACE, 33, 49, 65, 97, KEY_LF, KEY_RT, KEY_DEL}
         /\ CharOf(flags, data) = KEY_DEL => DelAllowed
<1> DEFINE now == ShiftAfter(flags, data)
           p   == Pressed(flags, data)
           c   == charcode(now, p)
<1>1. p \in Int
  BY DEF Byte, Pressed
<1>2. c \in {0, 1, BS, NL, CR, SPACE, 33, 49, 65, 97, KEY_LF, KEY_RT, KEY_DEL, KEY_SPACE}
  BY <1>1, TableCodes
<1>3. CharOf(flags, data) =
        IF data >= 128 THEN 0
        ELSE IF c = KEY_DEL THEN (IF DelAllowed THEN c ELSE 0)
        ELSE IF now = {NUMLOCK} /\ c \in 48..57 THEN 0
        ELSE IF c = KEY_SPACE THEN 0
        ELSE IF CAPSLOCK \in now /\ c \in 97..122 THEN c - 32
        ELSE IF CAPSLOCK \in now /\ c \in 65..90 THEN c + 32
        ELSE c
  BY DEF CharOf
<1> HIDE DEF now, c
<1> QED BY <1>2, <1>3 DEF BS, NL, CR, SPACE, KEY_LF, KEY_RT, KEY_DEL, KEY_SPACE

-----------------------------------------------------------------------------
(* The input *)

\* While they fit in the ring, a program is behind by the bytes that the serial
\* port has delivered.
UserLag ==
  LET lag == received - Len(serial)
  IN  reader = "user" /\ lag < CONSBUFSIZE - 1 => written - read = lag

\* The invariant: the ring, the modifiers, what the serial port holds, and how
\* far a program is behind.
InputInv ==
  /\ RingInv(cons, lap, written, read)
  /\ ModifierInv(shift, inbox, down)
  /\ serial \in Seq({SERIAL_CHAR}) /\ received \in Int /\ received - Len(serial) \in Nat
  /\ UserLag

LEMMA InputInit ==
  Init => InputInv
<1> SUFFICES ASSUME Init PROVE InputInv
  OBVIOUS
<1> DEFINE N == CONSBUFSIZE
<1>1. N \in Nat \ {0}
  BY ConsoleAssumption
<1>2. RingInv(cons, lap, written, read)
  <2>1. Slot(0) = 0
    BY <1>1, SlotSmall
  <2>2. cons = [buf |-> [n \in 0..N - 1 |-> 0], rpos |-> 0, wpos |-> 0] /\ written = 0 /\ read = 0
        /\ lap = [n \in 1..N |-> 0]
    BY DEF Init
  <2>3. cons \in Rings
    BY <1>1, <2>2 DEF Rings
  <2>4. lap \in Seq(Int) /\ Len(lap) = N
    <3>1. [n \in 1..N |-> 0] \in Seq(Int) /\ Len([n \in 1..N |-> 0]) = N
      BY <1>1
    <3> QED BY <2>2, <3>1
  <2>5. ASSUME NEW n \in 1..N PROVE cons.buf[Slot(written + n - 1)] = lap[n]
    <3>1. Slot(n - 1) = n - 1 /\ n - 1 \in 0..(N - 1) /\ 0 + n - 1 = n - 1
      BY <1>1, SlotSmall
    <3> QED BY <2>2, <3>1
  <2>6. cons.rpos = 0 /\ cons.wpos = 0 /\ written \in Int /\ read \in Int
    BY <2>2
  <2>7. cons.rpos = Slot(read) /\ cons.wpos = Slot(written)
    BY <2>1, <2>2, <2>6
  <2> QED BY <2>3, <2>4, <2>5, <2>6, <2>7 DEF RingInv
<1>3. ModifierInv(shift, inbox, down)
  <2>1. inbox = <<>> /\ shift = {} /\ down = {}
    BY DEF Init
  <2>2. Decoding([j \in 0..0 |-> {}], {}, <<>>)
    BY DEF Decoding
  <2>3. Held({}, {})
    BY DEF Held
  <2>4. Len(<<>>) = 0 /\ <<>> \in Seq(Byte) /\ [j \in 0..0 |-> {}][0] = {}
    OBVIOUS
  <2> HIDE DEF Decoding, Held
  <2> QED BY <2>1, <2>2, <2>3, <2>4 DEF ModifierInv
<1>4. serial \in Seq({SERIAL_CHAR}) /\ received \in Int /\ received - Len(serial) \in Nat
      /\ received - Len(serial) = 0
  <2>1. serial = <<>> /\ received = 0
    BY DEF Init
  <2>2. <<>> \in Seq({SERIAL_CHAR})
    OBVIOUS
  <2>3. Len(serial) = 0
    BY <2>1
  <2>4. received - Len(serial) = 0
    <3>1. received = 0
      BY <2>1
    <3> QED BY <2>3, <3>1
  <2> QED BY <2>1, <2>2, <2>4
<1>5. UserLag
  BY <1>4 DEF UserLag, Init
<1> QED BY <1>2, <1>3, <1>4, <1>5 DEF InputInv

\* What serial_proc_data returns.
LEMMA SerialHead ==
  ASSUME serial \in Seq({SERIAL_CHAR}), serial # <<>>
  PROVE  /\ Head(serial) = SERIAL_CHAR /\ Head(serial) \in Int /\ Counted(Head(serial)) = 1
         /\ Tail(serial) \in Seq({SERIAL_CHAR}) /\ Len(Tail(serial)) = Len(serial) - 1
         /\ Len(serial) \in Nat
<1>1. Head(serial) \in {SERIAL_CHAR} /\ Tail(serial) \in Seq({SERIAL_CHAR})
      /\ Len(Tail(serial)) = Len(serial) - 1
  BY HeadTailProperties
<1> QED BY <1>1 DEF Counted, SERIAL_CHAR

\* The character that a byte of the keyboard completes.
LEMMA KeyHead ==
  ASSUME ModifierInv(shift, inbox, down), inbox # <<>>
  PROVE  /\ CharOf(shift, Head(inbox)) \in Nat
         /\ ModifierInv(ShiftAfter(shift, Head(inbox)), Tail(inbox), down)
<1>1. Head(inbox) \in Byte /\ ModifierInv(ShiftAfter(shift, Head(inbox)), Tail(inbox), down)
  BY DecodeKeeps
<1>2. CharOf(shift, Head(inbox)) \in Nat
  BY <1>1, CharCodes DEF BS, NL, CR, SPACE, KEY_LF, KEY_RT, KEY_DEL
<1> QED BY <1>1, <1>2

\* A program that asks for a key falls behind by the serial byte and no more.
LEMMA UserKeeps ==
  ASSUME InputInv, UserGetc
  PROVE  InputInv'
<1> DEFINE N     == CONSBUFSIZE
           c1    == IF serial = <<>> THEN 0 ELSE Head(serial)
           c2    == IF inbox = <<>> THEN 0 ELSE CharOf(shift, Head(inbox))
           ring1 == Put(cons, c1)
           ring  == Put(ring1, c2)
           w1    == written + Counted(c1)
           w2    == w1 + Counted(c2)
           last2 == LapAfter(LapAfter(lap, c1), c2)
           lag   == received - Len(serial)
<1>1. N \in Nat /\ N > 1
  BY ConsoleAssumption
<1>2. RingInv(cons, lap, written, read) /\ ModifierInv(shift, inbox, down)
      /\ serial \in Seq({SERIAL_CHAR}) /\ received \in Int /\ lag \in Nat /\ UserLag
  BY DEF InputInv
<1>3. c1 \in Int /\ Counted(c1) \in {0, 1} /\ (Counted(c1) = 1 <=> serial # <<>>)
  BY <1>2, SerialHead DEF Counted
<1>4. c2 \in Nat /\ Counted(c2) \in {0, 1} /\ (Counted(c2) = 1 <=> c2 > 0)
  BY <1>2, KeyHead DEF Counted
<1>5. RingInv(ring1, LapAfter(lap, c1), w1, read)
  <2> HIDE DEF c1
  <2> QED BY <1>2, <1>3, PutKeeps
<1>6. RingInv(ring, last2, w2, read)
  <2> HIDE DEF c1, c2, ring1, w1
  <2>1. c2 \in Int
    BY <1>4
  <2> QED BY <1>5, <2>1, PutKeeps
<1>7. ModifierInv(shift', inbox', down')
  <2>1. shift' = (IF inbox = <<>> THEN shift ELSE ShiftAfter(shift, Head(inbox)))
        /\ inbox' = (IF inbox = <<>> THEN inbox ELSE Tail(inbox)) /\ down' = down
    BY DEF UserGetc
  <2>2. CASE inbox = <<>>
    BY <1>2, <2>1, <2>2
  <2>3. CASE inbox # <<>>
    BY <1>2, <2>1, <2>3, KeyHead
  <2> QED BY <2>2, <2>3
<1>8. serial' \in Seq({SERIAL_CHAR}) /\ received' = received /\ received' - Len(serial') = lag + Counted(c1)
  <2>1. serial' = (IF serial = <<>> THEN serial ELSE Tail(serial)) /\ received' = received
    BY DEF UserGetc
  <2>2. CASE serial = <<>>
    <3>1. Counted(c1) = 0 /\ serial' = serial
      BY <1>3, <2>1, <2>2
    <3> HIDE DEF c1
    <3>2. Len(serial') = Len(serial)
      BY <3>1
    <3>3. lag + Counted(c1) = lag
      BY <1>2, <3>1
    <3> QED BY <1>2, <2>1, <3>1, <3>2, <3>3
  <2>3. CASE serial # <<>>
    <3>1. Counted(c1) = 1 /\ serial' = Tail(serial) /\ Len(serial') = Len(serial) - 1 /\ Len(serial) \in Nat
          /\ serial' \in Seq({SERIAL_CHAR})
      BY <1>2, <1>3, <2>1, <2>3, SerialHead
    <3>2. received' - Len(serial') = lag + 1
      <4>1. received' = received /\ received \in Int
        BY <1>2, <2>1
      <4> QED BY <3>1, <4>1
    <3> HIDE DEF c1
    <3>3. lag + Counted(c1) = lag + 1
      BY <3>1
    <3> QED BY <2>1, <3>1, <3>2, <3>3
  <2> QED BY <2>2, <2>3
<1>9. written' = w2 /\ lap' = last2 /\ reader' = reader
      /\ IF Takes(c2, ring)
         THEN cons' = [ring EXCEPT !.rpos = Advance(@)] /\ read' = read + 1
         ELSE cons' = ring /\ read' = read
  BY DEF UserGetc
<1>10. RingInv(cons', lap', written', read')
  <2> HIDE DEF c1, c2, ring1, ring, w1, w2, last2
  <2>1. RingInv([ring EXCEPT !.rpos = Advance(@)], last2, w2, read + 1)
    BY <1>6, GetKeeps
  <2> QED BY <1>6, <1>9, <2>1
<1>11. UserLag'
  <2> HIDE DEF c1, c2, ring1, ring, last2
  <2>1. SUFFICES ASSUME reader' = "user", received' - Len(serial') < N - 1
                 PROVE  written' - read' = received' - Len(serial')
    BY DEF UserLag
  <2>2. lag + Counted(c1) < N - 1
    BY <1>8, <2>1
  <2>3. written \in Int /\ read \in Int
    BY <1>2 DEF RingInv
  <2>4. written - read = lag
    <3>1. lag < N - 1
      BY <1>1, <1>2, <1>3, <2>2
    <3> QED BY <1>2, <1>9, <2>1, <3>1 DEF UserLag
  <2>5. w1 = written + Counted(c1) /\ w2 = written + Counted(c1) + Counted(c2)
    OBVIOUS
  <2> HIDE DEF w1, w2, lag
  <2>6. CASE c2 = 0
    <3>1. ~Takes(c2, ring) /\ Counted(c2) = 0
      BY <1>4, <2>6 DEF Takes
    <3> QED BY <1>2, <1>3, <1>8, <1>9, <2>3, <2>4, <2>5, <3>1
  <2>7. CASE c2 # 0
    <3>1. Counted(c2) = 1 /\ c2 > 0
      BY <1>4, <2>7
    <3>2. w2 - read = lag + Counted(c1) + 1
      BY <1>2, <1>3, <2>3, <2>4, <2>5, <3>1
    <3>3. w2 - read \in 1..(N - 1)
      BY <1>1, <1>2, <1>3, <2>2, <3>2
    <3>4. Waiting(ring)
      BY <1>6, <3>3, WaitingMeans
    <3>5. read' = read + 1
      BY <1>9, <3>1, <3>4 DEF Takes
    <3>6. w2 \in Int
      BY <1>3, <1>4, <2>3, <2>5
    <3> QED BY <1>2, <1>3, <1>8, <1>9, <2>3, <3>2, <3>5, <3>6
  <2> QED BY <2>6, <2>7
<1>12. received' \in Int /\ received' - Len(serial') \in Nat
  BY <1>2, <1>3, <1>8
<1> QED BY <1>7, <1>8, <1>10, <1>11, <1>12 DEF InputInv

\* The keyboard, the serial port and the kernel's reader.
LEMMA InputStep ==
  ASSUME InputInv, [Next]_vars
  PROVE  InputInv'
<1> USE DEF InputInv
<1>1. CASE UNCHANGED vars
  <2>1. UNCHANGED <<cons, lap, written, read, shift, inbox, down, serial, received, reader>>
    BY <1>1 DEF vars
  <2> QED BY <2>1 DEF UserLag
<1>2. ASSUME NEW key \in Keys, Press(key) PROVE InputInv'
  <2>1. /\ inbox' = inbox \o Bytes(key, FALSE) /\ down' = down \cup {key}
        /\ UNCHANGED <<cons, lap, written, read, shift, serial, received, reader>>
    BY <1>2 DEF Press
  <2>2. ModifierInv(shift', inbox', down')
    BY <2>1, PressKeeps
  <2> QED BY <2>1, <2>2 DEF UserLag
<1>3. ASSUME NEW key \in Keys, Release(key) PROVE InputInv'
  <2>1. /\ inbox' = inbox \o Bytes(key, TRUE) /\ down' = down \ {key}
        /\ UNCHANGED <<cons, lap, written, read, shift, serial, received, reader>>
    BY <1>3 DEF Release
  <2>2. ModifierInv(shift', inbox', down')
    BY <2>1, ReleaseKeeps
  <2> QED BY <2>1, <2>2 DEF UserLag
<1>4. CASE SerialArrives
  <2>1. /\ serial' = Append(serial, SERIAL_CHAR) /\ received' = received + 1
        /\ UNCHANGED <<cons, lap, written, read, shift, inbox, down, reader>>
    BY <1>4 DEF SerialArrives
  <2>2. serial' \in Seq({SERIAL_CHAR}) /\ Len(serial') = Len(serial) + 1 /\ Len(serial) \in Nat
    BY <2>1
  <2>3. received' \in Int /\ received' - Len(serial') = received - Len(serial)
    <3>1. received \in Int
      OBVIOUS
    <3> QED BY <2>1, <2>2, <3>1
  <2> QED BY <2>1, <2>2, <2>3 DEF UserLag
<1>5. CASE KernelPolls
  <2>1. reader' = "kernel" /\ received' = received /\ down' = down
    BY <1>5 DEF KernelPolls, KernelSerial, KernelSerialDone, KernelKbd, KernelGetc
  <2>2. UserLag'
    BY <2>1 DEF UserLag
  <2>3. /\ RingInv(cons', lap', written', read') /\ ModifierInv(shift', inbox', down')
        /\ serial' \in Seq({SERIAL_CHAR}) /\ received' \in Int /\ received' - Len(serial') \in Nat
    <3>1. CASE KernelSerial
      <4>1. /\ serial # <<>> /\ serial' = Tail(serial) /\ PutIn(Head(serial))
            /\ read' = read /\ shift' = shift /\ inbox' = inbox
        BY <3>1 DEF KernelSerial
      <4>2. Head(serial) \in Int /\ serial' \in Seq({SERIAL_CHAR}) /\ Len(serial') = Len(serial) - 1
            /\ Len(serial) \in Nat
        BY <4>1, SerialHead
      <4>3. RingInv(cons', lap', written', read')
        BY <4>1, <4>2, PutKeeps DEF PutIn
      <4>4. received' - Len(serial') \in Nat
        <5>1. received - Len(serial) \in Nat /\ received \in Int
          OBVIOUS
        <5> QED BY <2>1, <4>2, <5>1
      <4> QED BY <2>1, <4>1, <4>2, <4>3, <4>4
    <3>2. CASE KernelSerialDone
      <4>1. UNCHANGED <<cons, lap, written, read, shift, inbox, serial>>
        BY <3>2 DEF KernelSerialDone
      <4> QED BY <2>1, <4>1
    <3>3. CASE KernelKbd
      <4>1. /\ inbox # <<>> /\ inbox' = Tail(inbox) /\ shift' = ShiftAfter(shift, Head(inbox))
            /\ PutIn(CharOf(shift, Head(inbox))) /\ read' = read /\ serial' = serial
        BY <3>3 DEF KernelKbd
      <4>2. CharOf(shift, Head(inbox)) \in Int /\ ModifierInv(shift', inbox', down')
        BY <2>1, <4>1, KeyHead
      <4>3. RingInv(cons', lap', written', read')
        BY <4>1, <4>2, PutKeeps DEF PutIn
      <4> QED BY <2>1, <4>1, <4>2, <4>3
    <3>4. CASE KernelGetc
      <4>1. /\ UNCHANGED <<lap, written, shift, inbox, serial>>
            /\ \/ cons' = [cons EXCEPT !.rpos = Advance(@)] /\ read' = read + 1
               \/ cons' = cons /\ read' = read
        BY <3>4 DEF KernelGetc
      <4>2. RingInv([cons EXCEPT !.rpos = Advance(@)], lap, written, read + 1)
        BY GetKeeps
      <4> QED BY <2>1, <4>1, <4>2
    <3> QED BY <1>5, <3>1, <3>2, <3>3, <3>4 DEF KernelPolls
  <2> QED BY <2>2, <2>3
<1>6. CASE UserGetc
  BY <1>6, UserKeeps
<1> QED BY <1>1, <1>2, <1>3, <1>4, <1>5, <1>6 DEF Next

\* Input keeps its order and its meaning from the key to the reader: the ring
\* holds the end of what was typed, the modifiers that are set are those of keys
\* held down, and a program that asks for a key at a time keeps up with the
\* keyboard as long as the serial port is silent, whatever the size of the ring.
THEOREM InputKeepsOrder == Spec => []InputInOrder
<1>1. Init => InputInv
  BY InputInit
<1>2. InputInv /\ [Next]_vars => InputInv'
  BY InputStep
<1>3. InputInv => InputInOrder
  <2>1. InputInv => RingHoldsLastLap
    BY RingShows DEF InputInv
  <2>2. InputInv => NoStuckModifier
    BY ModifiersShown DEF InputInv
  <2>3. ASSUME InputInv PROVE UserReadsTyped
    <3>1. SUFFICES ASSUME reader = "user", received = Len(serial) PROVE read = written
      BY DEF UserReadsTyped
    <3>2. /\ UserLag /\ received \in Int /\ read \in Int /\ written \in Int
          /\ CONSBUFSIZE \in Nat /\ CONSBUFSIZE > 1
      BY <2>3, ConsoleAssumption DEF InputInv, RingInv
    <3> QED BY <3>1, <3>2 DEF UserLag
  <2> QED BY <2>1, <2>2, <2>3 DEF InputInOrder
<1> QED BY <1>1, <1>2, <1>3, PTL DEF Spec

-----------------------------------------------------------------------------
(* The screen *)

Cells == 0..(CRT_SIZE - 1)

\* A screen whose cursor stands in column n of the memory at most.
ScreensTo(n) == [buf : [Cells -> Int], pos : 0..n, text : Int]

Screens == ScreensTo(CRT_SIZE - 1)

LEMMA Sizes ==
  /\ CRT_COLS \in Nat \ {0} /\ CRT_SIZE \in Nat \ {0} /\ BUFLEN \in Nat \ {0} /\ PROMPT \in Nat \ {0}
  /\ LastRow = CRT_SIZE - CRT_COLS /\ LastRow \in Nat
  /\ BUFLEN - 1 + PROMPT <= LastRow /\ BUFLEN - 1 < LastRow
BY ConsoleAssumption DEF LastRow

LEMMA RowStart ==
  ASSUME NEW p \in Nat
  PROVE  StartOfRow(p) \in 0..p
<1>1. CRT_COLS \in Nat \ {0} /\ p % CRT_COLS \in 0..(CRT_COLS - 1)
  BY Sizes, ModRange
<1>2. CASE p < CRT_COLS
  <2>1. p = CRT_COLS * 0 + p /\ p \in 0..(CRT_COLS - 1)
    BY <1>1, <1>2
  <2>2. p % CRT_COLS = p
    BY <1>1, <2>1, ModUnique
  <2> QED BY <2>2 DEF StartOfRow
<1>3. CASE ~(p < CRT_COLS)
  BY <1>1, <1>3 DEF StartOfRow
<1> QED BY <1>2, <1>3

\* The last rows move up when the cursor leaves the screen.
LEMMA Scrolled ==
  ASSUME NEW s \in ScreensTo(CRT_SIZE - 1 + CRT_COLS)
  PROVE  /\ Scroll(s) \in Screens
         /\ s.pos < CRT_SIZE => Scroll(s) = s
         /\ ~(s.pos < CRT_SIZE) => /\ Scroll(s).pos = s.pos - CRT_COLS
                                   /\ \A p \in Cells : p < LastRow => Scroll(s).buf[p] = s.buf[p + CRT_COLS]
<1>1. s.buf \in [Cells -> Int] /\ s.pos \in 0..(CRT_SIZE - 1 + CRT_COLS) /\ s.text \in Int
      /\ s = [buf |-> s.buf, pos |-> s.pos, text |-> s.text]
  BY DEF ScreensTo
<1>2. CASE s.pos < CRT_SIZE
  <2>1. s.pos \in 0..(CRT_SIZE - 1)
    BY <1>1, <1>2, Sizes
  <2>2. Scroll(s) = s
    BY <1>2 DEF Scroll
  <2> QED BY <1>1, <1>2, <2>1, <2>2 DEF Screens, ScreensTo
<1>3. CASE ~(s.pos < CRT_SIZE)
  <2> DEFINE b == [p \in Cells |-> IF p < LastRow THEN s.buf[p + CRT_COLS] ELSE SPACE]
  <2>1. Scroll(s) = [buf |-> b, pos |-> s.pos - CRT_COLS, text |-> s.text]
    BY <1>1, <1>3 DEF Scroll
  <2>2. ASSUME NEW p \in Cells PROVE b[p] \in Int
    <3>1. p < LastRow => p + CRT_COLS \in Cells
      BY Sizes DEF Cells
    <3> QED BY <1>1, <3>1 DEF SPACE
  <2>3. b \in [Cells -> Int]
    BY <2>2
  <2>4. s.pos - CRT_COLS \in 0..(CRT_SIZE - 1)
    BY <1>1, <1>3, Sizes
  <2>5. \A p \in Cells : p < LastRow => b[p] = s.buf[p + CRT_COLS]
    OBVIOUS
  <2> HIDE DEF b
  <2> QED BY <1>1, <1>3, <2>1, <2>3, <2>4, <2>5 DEF Screens, ScreensTo
<1> QED BY <1>2, <1>3

\* cga_putc before the scroll.
Written(s, c) ==
  CASE c = BS -> IF s.pos > 0
                 THEN [s EXCEPT !.pos = @ - 1, !.buf[s.pos - 1] = SPACE]
                 ELSE s
    [] c = NL -> [s EXCEPT !.pos = StartOfRow(@ + CRT_COLS), !.text = 0]
    [] c = CR -> [s EXCEPT !.pos = StartOfRow(@)]
    [] c = KEY_LF -> [s EXCEPT !.pos = IF @ > 0 THEN @ - 1 ELSE @]
    [] c = KEY_RT -> [s EXCEPT !.pos = IF @ < CRT_SIZE THEN @ + 1 ELSE @]
    [] OTHER -> [s EXCEPT !.buf[s.pos] = c,
                          !.pos = @ + 1,
                          !.text = IF s.pos + 1 > LastRow + @ THEN @ + 1 ELSE @]

LEMMA WrittenTyped ==
  ASSUME NEW s \in Screens, NEW c \in Int
  PROVE  Written(s, c) \in ScreensTo(CRT_SIZE - 1 + CRT_COLS)
<1>1. s.buf \in [Cells -> Int] /\ s.pos \in Cells /\ s.text \in Int /\ s.pos \in Nat
      /\ s = [buf |-> s.buf, pos |-> s.pos, text |-> s.text]
  BY DEF Screens, ScreensTo, Cells
<1>2. CASE c = BS
  <2>1. CASE s.pos > 0
    <3>1. s.pos - 1 \in Cells /\ s.pos - 1 \in 0..(CRT_SIZE - 1 + CRT_COLS)
      BY <1>1, <2>1, Sizes DEF Cells
    <3>2. Written(s, c) = [buf |-> [s.buf EXCEPT ![s.pos - 1] = SPACE], pos |-> s.pos - 1, text |-> s.text]
      <4>1. Written(s, c) = [s EXCEPT !.pos = @ - 1, !.buf[s.pos - 1] = SPACE]
        BY <1>2, <2>1 DEF Written, BS, NL, CR, KEY_LF, KEY_RT
      <4> QED BY <1>1, <4>1
    <3>3. [s.buf EXCEPT ![s.pos - 1] = SPACE] \in [Cells -> Int]
      BY <1>1, <3>1 DEF SPACE
    <3> QED BY <1>1, <3>1, <3>2, <3>3 DEF ScreensTo
  <2>2. CASE ~(s.pos > 0)
    <3>1. Written(s, c) = s /\ s.pos \in 0..(CRT_SIZE - 1 + CRT_COLS)
      BY <1>1, <1>2, <2>2, Sizes DEF Written, Cells, BS, NL, CR, KEY_LF, KEY_RT
    <3> QED BY <1>1, <3>1 DEF ScreensTo
  <2> QED BY <2>1, <2>2
<1>3. CASE c = NL
  <2>1. StartOfRow(s.pos + CRT_COLS) \in 0..(s.pos + CRT_COLS)
    BY <1>1, Sizes, RowStart
  <2>2. StartOfRow(s.pos + CRT_COLS) \in 0..(CRT_SIZE - 1 + CRT_COLS)
    BY <1>1, <2>1, Sizes DEF Cells
  <2>3. Written(s, c) = [buf |-> s.buf, pos |-> StartOfRow(s.pos + CRT_COLS), text |-> 0]
    <3>1. Written(s, c) = [s EXCEPT !.pos = StartOfRow(@ + CRT_COLS), !.text = 0]
      BY <1>3 DEF Written, BS, NL, CR, KEY_LF, KEY_RT
    <3> QED BY <1>1, <3>1
  <2> QED BY <1>1, <2>2, <2>3 DEF ScreensTo
<1>4. CASE c = CR
  <2>1. StartOfRow(s.pos) \in 0..s.pos
    BY <1>1, RowStart
  <2>2. StartOfRow(s.pos) \in 0..(CRT_SIZE - 1 + CRT_COLS)
    BY <1>1, <2>1, Sizes DEF Cells
  <2>3. Written(s, c) = [buf |-> s.buf, pos |-> StartOfRow(s.pos), text |-> s.text]
    BY <1>1, <1>4 DEF Written, BS, NL, CR, KEY_LF, KEY_RT
  <2> QED BY <1>1, <2>2, <2>3 DEF ScreensTo
<1>5. CASE c = KEY_LF
  <2> DEFINE q == IF s.pos > 0 THEN s.pos - 1 ELSE s.pos
  <2>1. q \in 0..(CRT_SIZE - 1 + CRT_COLS)
    BY <1>1, Sizes DEF Cells
  <2>2. Written(s, c) = [buf |-> s.buf, pos |-> q, text |-> s.text]
    BY <1>1, <1>5 DEF Written, BS, NL, CR, KEY_LF, KEY_RT
  <2> HIDE DEF q
  <2> QED BY <1>1, <2>1, <2>2 DEF ScreensTo
<1>6. CASE c = KEY_RT
  <2> DEFINE q == IF s.pos < CRT_SIZE THEN s.pos + 1 ELSE s.pos
  <2>1. q \in 0..(CRT_SIZE - 1 + CRT_COLS)
    BY <1>1, Sizes DEF Cells
  <2>2. Written(s, c) = [buf |-> s.buf, pos |-> q, text |-> s.text]
    BY <1>1, <1>6 DEF Written, BS, NL, CR, KEY_LF, KEY_RT
  <2> HIDE DEF q
  <2> QED BY <1>1, <2>1, <2>2 DEF ScreensTo
<1>7. CASE c \notin {BS, NL, CR, KEY_LF, KEY_RT}
  <2> DEFINE x == IF s.pos + 1 > LastRow + s.text THEN s.text + 1 ELSE s.text
  <2>1. s.pos + 1 \in 0..(CRT_SIZE - 1 + CRT_COLS) /\ x \in Int
    BY <1>1, Sizes DEF Cells
  <2>2. Written(s, c) = [buf |-> [s.buf EXCEPT ![s.pos] = c], pos |-> s.pos + 1, text |-> x]
    BY <1>1, <1>7 DEF Written
  <2>3. [s.buf EXCEPT ![s.pos] = c] \in [Cells -> Int]
    BY <1>1
  <2> HIDE DEF x
  <2> QED BY <1>1, <2>1, <2>2, <2>3 DEF ScreensTo
<1> QED BY <1>2, <1>3, <1>4, <1>5, <1>6, <1>7

\* A character goes to the screen and the cursor stays on it.
LEMMA PutcTyped ==
  ASSUME NEW s \in Screens, NEW c \in Int
  PROVE  cga_putc(s, c) = Scroll(Written(s, c)) /\ cga_putc(s, c) \in Screens
<1>1. cga_putc(s, c) = Scroll(Written(s, c))
  BY DEF cga_putc, Written
<1>2. Written(s, c) \in ScreensTo(CRT_SIZE - 1 + CRT_COLS)
  BY WrittenTyped
<1> QED BY <1>1, <1>2, Scrolled

\* The prompt is PROMPT characters.
LEMMA PromptTyped ==
  ASSUME NEW s \in Screens
  PROVE  ShowPrompt(s) \in Screens
<1> DEFINE n == PROMPT
           Eq(f) == f = [k \in 0..n |-> IF k = 0 THEN s ELSE cga_putc(f[k - 1], PROMPT_CHAR)]
           shown == CHOOSE f : Eq(f)
           step  == [x \in Screens |-> cga_putc(x, PROMPT_CHAR)]
<1>1. n \in Nat
  BY Sizes
<1>2. \A x \in Screens : cga_putc(x, PROMPT_CHAR) \in Screens
  <2>1. PROMPT_CHAR \in Int
    BY DEF PROMPT_CHAR
  <2> QED BY <2>1, PutcTyped
<1>3. step \in [Screens -> Screens] /\ \A x \in Screens : step[x] = cga_putc(x, PROMPT_CHAR)
  BY <1>2
<1>4. ShowPrompt(s) = shown[n]
  BY DEF ShowPrompt
<1> HIDE DEF n, step
<1>5. PICK g \in [0..n -> Screens] : g[0] = s /\ \A k \in 1..n : g[k] = step[g[k - 1]]
  <2> HIDE DEF Eq, shown
  <2>1. \A S : \A x \in S : \A st \in [S -> S] :
          \E g \in [0..n -> S] : g[0] = x /\ \A k \in 1..n : g[k] = st[g[k - 1]]
    BY <1>1, LoopExists
  <2>2. \A x \in Screens : \A st \in [Screens -> Screens] :
          \E g \in [0..n -> Screens] : g[0] = x /\ \A k \in 1..n : g[k] = st[g[k - 1]]
    BY <2>1
  <2>3. \E g \in [0..n -> Screens] : g[0] = s /\ \A k \in 1..n : g[k] = step[g[k - 1]]
    BY <1>3, <2>2
  <2> QED BY <2>3
<1>6. Eq(g)
  <2> DEFINE e == [k \in 0..n |-> IF k = 0 THEN s ELSE cga_putc(g[k - 1], PROMPT_CHAR)]
  <2>1. ASSUME NEW k \in 0..n PROVE g[k] = e[k]
    <3>1. CASE k = 0
      BY <1>5, <3>1
    <3>2. CASE k # 0
      <4>1. k \in 1..n /\ k - 1 \in 0..n
        BY <1>1, <3>2
      <4>2. g[k - 1] \in Screens /\ g[k] = step[g[k - 1]]
        BY <1>5, <4>1
      <4>3. g[k] = cga_putc(g[k - 1], PROMPT_CHAR)
        BY <1>3, <4>2
      <4> QED BY <3>2, <4>3
    <3> QED BY <3>1, <3>2
  <2>2. g = [k \in 0..n |-> g[k]] /\ e = [k \in 0..n |-> e[k]]
    BY <1>5
  <2> HIDE DEF e
  <2>3. g = e
    BY <2>1, <2>2
  <2> QED BY <2>3 DEF e
<1>7. Eq(shown)
  <2> HIDE DEF Eq
  <2> QED BY <1>6
<1>8. shown[0] = s /\ \A k \in 1..n : shown[k] = cga_putc(shown[k - 1], PROMPT_CHAR)
  <2> HIDE DEF shown
  <2> QED BY <1>1, <1>7
<1> HIDE DEF Eq, shown
<1> DEFINE P == {k \in Nat : shown[k] \in Screens}
<1>9. ASSUME NEW k \in 0..(n - 1), k \in P PROVE k + 1 \in P
  <2>1. k + 1 \in 1..n /\ (k + 1) - 1 = k /\ k + 1 \in Nat
    BY <1>1
  <2>2. shown[k + 1] = cga_putc(shown[k], PROMPT_CHAR)
    BY <1>8, <2>1
  <2> QED BY <1>2, <1>9, <2>1, <2>2
<1>10. 0 \in P
  BY <1>8
<1>11. \A k \in 0..n : k \in P
  <2> HIDE DEF P
  <2> QED BY <1>1, <1>9, <1>10, IntervalInduction
<1> QED BY <1>1, <1>4, <1>11

\* DEL moves cells behind the cursor.
LEMMA DecodeScreen ==
  ASSUME screen \in Screens, NEW c \in Int
  PROVE  /\ ScreenAfterDecode(c) \in Screens /\ ScreenAfterDecode(c).pos = screen.pos
         /\ \A p \in Cells : p < screen.pos => ScreenAfterDecode(c).buf[p] = screen.buf[p]
<1>1. screen.buf \in [Cells -> Int] /\ screen.pos \in Cells /\ screen.text \in Int
      /\ screen = [buf |-> screen.buf, pos |-> screen.pos, text |-> screen.text]
  BY DEF Screens, ScreensTo, Cells
<1>2. CASE c # KEY_DEL
  BY <1>2 DEF ScreenAfterDecode
<1>3. CASE c = KEY_DEL
  <2> DEFINE last == LastRow + PROMPT + screen.text - 1
             b    == [p \in Cells |-> IF p \in screen.pos..last
                                      THEN (IF p + 1 < CRT_SIZE THEN screen.buf[p + 1] ELSE SPACE)
                                      ELSE screen.buf[p]]
  <2>1. ScreenAfterDecode(c) = [buf |-> b, pos |-> screen.pos, text |-> screen.text - 1]
    BY <1>1, <1>3 DEF ScreenAfterDecode
  <2>2. ASSUME NEW p \in Cells PROVE b[p] \in Int /\ (p < screen.pos => b[p] = screen.buf[p])
    <3>1. p + 1 < CRT_SIZE => p + 1 \in Cells
      BY Sizes DEF Cells
    <3>2. b[p] \in {SPACE, screen.buf[p]} \/ (p + 1 < CRT_SIZE /\ b[p] = screen.buf[p + 1])
      OBVIOUS
    <3>3. b[p] \in Int
      <4> HIDE DEF b
      <4> QED BY <1>1, <3>1, <3>2 DEF SPACE
    <3>4. p < screen.pos => p \notin screen.pos..last
      BY <1>1 DEF Cells
    <3> QED BY <3>3, <3>4
  <2>3. b \in [Cells -> Int]
    BY <2>2
  <2>4. \A p \in Cells : p < screen.pos => b[p] = screen.buf[p]
    BY <2>2
  <2> HIDE DEF b
  <2>5. screen.pos \in 0..(CRT_SIZE - 1) /\ screen.text - 1 \in Int
    BY <1>1 DEF Cells
  <2> QED BY <2>1, <2>3, <2>4, <2>5 DEF Screens, ScreensTo
<1> QED BY <1>2, <1>3

\* The cells before the cursor show the characters of the line.
Shown(s, l) ==
  /\ Len(l) <= s.pos
  /\ \A n \in 1..Len(l) : s.buf[s.pos - Len(l) + n - 1] = l[n]

\* The invariant: what was read fits on the screen and is shown on it.
ScreenInv ==
  /\ screen \in Screens
  /\ line \in Seq(Int) /\ Len(line) <= BUFLEN - 1
  /\ arrowed \in BOOLEAN
  /\ ~arrowed => Shown(screen, line)

\* A character that is stored and echoed.
LEMMA EchoShown ==
  ASSUME NEW s \in Screens, NEW l \in Seq(Int), Len(l) < BUFLEN - 1, Shown(s, l),
         NEW c \in Int, c >= SPACE, c \notin {KEY_LF, KEY_RT}
  PROVE  Shown(cga_putc(s, c), Append(l, c))
<1> DEFINE t    == Written(s, c)
           u    == cga_putc(s, c)
           more == Append(l, c)
           m    == Len(l)
<1>1. s.buf \in [Cells -> Int] /\ s.pos \in Cells /\ s.pos \in Nat /\ s.pos < CRT_SIZE /\ s.text \in Int
      /\ s = [buf |-> s.buf, pos |-> s.pos, text |-> s.text]
  BY Sizes DEF Screens, ScreensTo, Cells
<1>2. m \in Nat /\ Len(more) = m + 1 /\ more[m + 1] = c /\ \A n \in 1..m : more[n] = l[n]
  OBVIOUS
<1>3. m <= s.pos /\ m + 1 <= LastRow /\ \A n \in 1..m : s.buf[s.pos - m + n - 1] = l[n]
  <2>1. m + 1 <= LastRow
    BY <1>2, Sizes
  <2> QED BY <2>1 DEF Shown
<1> HIDE DEF m, more
<1>4. t.buf = [s.buf EXCEPT ![s.pos] = c] /\ t.pos = s.pos + 1
  <2>1. c \notin {BS, NL, CR, KEY_LF, KEY_RT}
    BY DEF SPACE, BS, NL, CR
  <2>2. t = [s EXCEPT !.buf[s.pos] = c,
                      !.pos = @ + 1,
                      !.text = IF s.pos + 1 > LastRow + @ THEN @ + 1 ELSE @]
    BY <2>1 DEF Written
  <2> HIDE DEF t
  <2> QED BY <1>1, <2>2
<1>5. u = Scroll(t) /\ t \in ScreensTo(CRT_SIZE - 1 + CRT_COLS) /\ u \in Screens
  BY PutcTyped, WrittenTyped
<1> HIDE DEF t, u
\* Before the scroll the cells before the cursor show the longer line.
<1>6. ASSUME NEW n \in 1..(m + 1) PROVE t.buf[s.pos - m + n - 1] = more[n] /\ s.pos - m + n - 1 \in Cells
  <2>1. s.pos - m + n - 1 \in Cells
    <3>1. s.pos \in Nat /\ s.pos < CRT_SIZE /\ m \in Nat /\ m <= s.pos /\ CRT_SIZE \in Nat
      BY <1>1, <1>2, <1>3, Sizes
    <3>2. s.pos - m + n - 1 \in Int /\ 0 <= s.pos - m + n - 1 /\ s.pos - m + n - 1 <= CRT_SIZE - 1
      BY <3>1
    <3> QED BY <3>2 DEF Cells
  <2>2. CASE n = m + 1
    <3>1. s.pos - m + n - 1 = s.pos
      BY <1>1, <1>2, <2>2
    <3> QED BY <1>1, <1>2, <1>4, <2>1, <2>2, <3>1
  <2>3. CASE n # m + 1
    <3>1. n \in 1..m /\ s.pos - m + n - 1 # s.pos
      BY <1>1, <1>2, <2>3
    <3>2. t.buf[s.pos - m + n - 1] = s.buf[s.pos - m + n - 1]
      BY <1>1, <1>4, <2>1, <3>1
    <3> QED BY <1>2, <1>3, <2>1, <3>1, <3>2
  <2> QED BY <2>2, <2>3
<1>7. CASE t.pos < CRT_SIZE
  <2>1. u = t
    BY <1>5, <1>7, Scrolled
  <2>2. ASSUME NEW n \in 1..(m + 1) PROVE u.buf[u.pos - (m + 1) + n - 1] = more[n]
    <3>1. u.pos - (m + 1) + n - 1 = s.pos - m + n - 1
      BY <1>1, <1>2, <1>4, <2>1
    <3> QED BY <1>6, <2>1, <3>1
  <2>3. m + 1 <= u.pos
    BY <1>1, <1>2, <1>3, <1>4, <2>1
  <2> QED BY <1>2, <2>2, <2>3 DEF Shown, more, u
<1>8. CASE ~(t.pos < CRT_SIZE)
  <2>1. s.pos = CRT_SIZE - 1
    <3>1. s.pos \in Nat /\ s.pos < CRT_SIZE /\ CRT_SIZE \in Nat
      BY <1>1, Sizes
    <3>2. ~(s.pos + 1 < CRT_SIZE)
      BY <1>4, <1>8
    <3> QED BY <3>1, <3>2
  <2>2. u.pos = t.pos - CRT_COLS /\ \A p \in Cells : p < LastRow => u.buf[p] = t.buf[p + CRT_COLS]
    BY <1>5, <1>8, Scrolled
  <2>3. u.pos = LastRow
    BY <1>1, <1>4, <2>1, <2>2, Sizes
  <2>4. ASSUME NEW n \in 1..(m + 1) PROVE u.buf[u.pos - (m + 1) + n - 1] = more[n]
    <3>1. u.pos - (m + 1) + n - 1 \in Cells /\ u.pos - (m + 1) + n - 1 < LastRow
          /\ (u.pos - (m + 1) + n - 1) + CRT_COLS = s.pos - m + n - 1
      BY <1>2, <1>3, <2>1, <2>3, Sizes DEF Cells
    <3> QED BY <1>6, <2>2, <3>1
  <2>5. m + 1 <= u.pos
    BY <1>3, <2>3
  <2> QED BY <1>2, <2>4, <2>5 DEF Shown, more, u
<1> QED BY <1>7, <1>8

\* A backspace takes the last character from both.
LEMMA EraseShown ==
  ASSUME NEW s \in Screens, NEW l \in Seq(Int), l # <<>>, Shown(s, l)
  PROVE  Shown(cga_putc(s, BS), Front(l)) /\ Front(l) \in Seq(Int) /\ Len(Front(l)) = Len(l) - 1
<1> DEFINE t == Written(s, BS)
           u == cga_putc(s, BS)
           less == Front(l)
           m    == Len(l)
<1>1. s.buf \in [Cells -> Int] /\ s.pos \in Nat /\ s.pos < CRT_SIZE /\ s.text \in Int
      /\ s = [buf |-> s.buf, pos |-> s.pos, text |-> s.text]
  BY Sizes DEF Screens, ScreensTo
<1>2. m \in Nat /\ m > 0 /\ less \in Seq(Int) /\ Len(less) = m - 1 /\ \A n \in 1..(m - 1) : less[n] = l[n]
  <2>1. m \in Nat /\ m > 0 /\ \A n \in 1..m : l[n] \in Int
    OBVIOUS
  <2>2. less = [n \in 1..(m - 1) |-> l[n]]
    BY DEF Front
  <2> HIDE DEF m, less
  <2> QED BY <2>1, <2>2
<1>3. m <= s.pos /\ \A n \in 1..m : s.buf[s.pos - m + n - 1] = l[n]
  BY DEF Shown
<1> HIDE DEF m, less
<1>4. s.pos > 0 /\ s.pos - 1 \in Cells
  BY <1>1, <1>2, <1>3, Sizes DEF Cells
<1>5. t.buf = [s.buf EXCEPT ![s.pos - 1] = SPACE] /\ t.pos = s.pos - 1
  <2>1. t = [s EXCEPT !.pos = @ - 1, !.buf[s.pos - 1] = SPACE]
    BY <1>4 DEF Written, BS, NL, CR, KEY_LF, KEY_RT
  <2> HIDE DEF t
  <2> QED BY <1>1, <2>1
<1>6. u = t
  <2>1. BS \in Int
    BY DEF BS
  <2>2. u = Scroll(t) /\ t \in ScreensTo(CRT_SIZE - 1 + CRT_COLS)
    BY <2>1, PutcTyped, WrittenTyped
  <2>3. t.pos < CRT_SIZE
    <3>1. t.pos = s.pos - 1 /\ s.pos \in Nat /\ s.pos < CRT_SIZE /\ CRT_SIZE \in Nat
      BY <1>1, <1>5, Sizes
    <3> HIDE DEF t
    <3> QED BY <3>1
  <2> HIDE DEF t, u
  <2> QED BY <2>2, <2>3, Scrolled
<1> HIDE DEF t
<1>7. ASSUME NEW n \in 1..(m - 1) PROVE u.buf[u.pos - (m - 1) + n - 1] = less[n]
  <2>1. n \in 1..m /\ s.pos - m + n - 1 # s.pos - 1 /\ (s.pos - 1) - (m - 1) + n - 1 = s.pos - m + n - 1
    BY <1>1, <1>2
  <2>2. s.pos - m + n - 1 \in Cells
    <3>1. m <= s.pos /\ s.pos < CRT_SIZE /\ s.pos \in Nat /\ CRT_SIZE \in Nat
      BY <1>1, <1>3, Sizes
    <3>2. m \in Nat
      BY <1>2
    <3>3. s.pos - m + n - 1 \in Int /\ 0 <= s.pos - m + n - 1 /\ s.pos - m + n - 1 <= CRT_SIZE - 1
      BY <3>1, <3>2
    <3> QED BY <3>3 DEF Cells
  <2>3. u.buf[s.pos - m + n - 1] = s.buf[s.pos - m + n - 1]
    BY <1>1, <1>5, <1>6, <2>1, <2>2
  <2> QED BY <1>2, <1>3, <1>5, <1>6, <2>1, <2>3
<1>8. m - 1 <= u.pos
  BY <1>1, <1>2, <1>3, <1>5, <1>6
<1> QED BY <1>2, <1>7, <1>8 DEF Shown, less, u, m

\* One character of readline keeps the screen and the line alike.
LEMMA ReadlineKeeps ==
  ASSUME NEW s \in Screens, NEW c \in Int,
         line \in Seq(Int), Len(line) <= BUFLEN - 1, arrowed \in BOOLEAN,
         ~arrowed => Shown(s, line), ReadlineStep(s, c)
  PROVE  ScreenInv'
<1>1. Len(line) \in Nat
  OBVIOUS
<1>2. cga_putc(s, c) \in Screens
  BY PutcTyped
<1>3. CASE c >= SPACE /\ Len(line) < BUFLEN - 1
  <2>1. line' = Append(line, c) /\ arrowed' = (arrowed \/ c \in {KEY_LF, KEY_RT}) /\ screen' = cga_putc(s, c)
    BY <1>3 DEF ReadlineStep, SPACE, BS, NL, CR
  <2>2. line' \in Seq(Int) /\ Len(line') = Len(line) + 1
    BY <2>1
  <2>3. Len(line') <= BUFLEN - 1
    BY <1>1, <1>3, <2>2, Sizes
  <2>4. ~arrowed' => Shown(screen', line')
    BY <1>3, <2>1, EchoShown
  <2>5. arrowed' \in BOOLEAN
    BY <2>1
  <2> QED BY <1>2, <2>1, <2>2, <2>3, <2>4, <2>5 DEF ScreenInv
<1>4. CASE c = BS /\ line # <<>>
  <2>1. line' = Front(line) /\ arrowed' = arrowed /\ screen' = cga_putc(s, c)
    BY <1>4 DEF ReadlineStep, SPACE, BS, NL, CR
  <2>2. line' \in Seq(Int) /\ Len(line') = Len(line) - 1
    <3>1. \A n \in 1..Len(line) : line[n] \in Int
      OBVIOUS
    <3>2. line' = [n \in 1..(Len(line) - 1) |-> line[n]]
      BY <2>1 DEF Front
    <3>3. Len(line) > 0
      BY <1>4
    <3> QED BY <1>1, <3>1, <3>2, <3>3
  <2>3. Len(line') <= BUFLEN - 1
    BY <1>1, <2>2, Sizes
  <2>4. ~arrowed' => Shown(screen', line')
    BY <1>4, <2>1, EraseShown
  <2> QED BY <1>2, <1>4, <2>1, <2>2, <2>3, <2>4 DEF ScreenInv
<1>5. CASE c \in {NL, CR}
  <2>1. line' = <<>> /\ arrowed' = FALSE /\ screen' = ShowPrompt(cga_putc(s, c))
    BY <1>5 DEF ReadlineStep, SPACE, BS, NL, CR
  <2>2. screen' \in Screens
    BY <1>2, <2>1, PromptTyped
  <2>3. Len(<<>>) = 0 /\ <<>> \in Seq(Int)
    OBVIOUS
  <2>4. screen'.pos \in Nat
    BY <2>2, Sizes DEF Screens, ScreensTo
  <2>5. Shown(screen', <<>>)
    BY <2>3, <2>4 DEF Shown
  <2>6. 0 <= BUFLEN - 1
    BY Sizes
  <2> QED BY <2>1, <2>2, <2>3, <2>5, <2>6 DEF ScreenInv
<1>6. CASE ~(c >= SPACE /\ Len(line) < BUFLEN - 1) /\ ~(c = BS /\ line # <<>>) /\ c \notin {NL, CR}
  <2>1. line' = line /\ arrowed' = arrowed /\ screen' = s
    BY <1>6 DEF ReadlineStep
  <2> QED BY <2>1 DEF ScreenInv
<1> QED BY <1>3, <1>4, <1>5, <1>6

\* DEL leaves the cells that show the line alone.
LEMMA DecodeShown ==
  ASSUME ScreenInv, NEW c \in Int
  PROVE  ScreenAfterDecode(c) \in Screens /\ (~arrowed => Shown(ScreenAfterDecode(c), line))
<1> DEFINE s == ScreenAfterDecode(c)
<1>1. s \in Screens /\ s.pos = screen.pos /\ \A p \in Cells : p < screen.pos => s.buf[p] = screen.buf[p]
  BY DecodeScreen DEF ScreenInv
<1> HIDE DEF s
<1>2. ASSUME ~arrowed PROVE Shown(s, line)
  <2>1. Shown(screen, line) /\ Len(line) \in Nat
    BY <1>2 DEF ScreenInv
  <2>2. screen.pos \in Nat /\ screen.pos < CRT_SIZE /\ Len(line) <= screen.pos
    BY <2>1, Sizes DEF ScreenInv, Screens, ScreensTo, Shown
  <2>3. ASSUME NEW n \in 1..Len(line) PROVE s.buf[s.pos - Len(line) + n - 1] = line[n]
    <3>1. screen.pos - Len(line) + n - 1 \in Cells /\ screen.pos - Len(line) + n - 1 < screen.pos
      BY <2>1, <2>2, Sizes DEF Cells
    <3>2. screen.buf[screen.pos - Len(line) + n - 1] = line[n]
      BY <2>1 DEF Shown
    <3> QED BY <1>1, <3>1, <3>2
  <2> QED BY <1>1, <2>2, <2>3 DEF Shown
<1> QED BY <1>1, <1>2 DEF s

LEMMA ScreenInit ==
  Init => ScreenInv
<1> SUFFICES ASSUME Init PROVE ScreenInv
  OBVIOUS
<1>1. screen = ShowPrompt(cga_init) /\ line = <<>> /\ arrowed = FALSE
  BY DEF Init
<1>2. cga_init \in Screens
  <2>1. LastRow \in 0..(CRT_SIZE - 1)
    BY Sizes
  <2>2. [p \in 0..CRT_SIZE - 1 |-> SPACE] \in [Cells -> Int]
    BY DEF Cells, SPACE
  <2> QED BY <2>1, <2>2 DEF cga_init, Screens, ScreensTo
<1>3. screen \in Screens
  BY <1>1, <1>2, PromptTyped
<1>4. screen.pos \in Nat
  BY <1>3, Sizes DEF Screens, ScreensTo
<1>5. Len(<<>>) = 0 /\ <<>> \in Seq(Int)
  OBVIOUS
<1>6. Shown(screen, <<>>)
  BY <1>4, <1>5 DEF Shown
<1>7. 0 <= BUFLEN - 1
  BY Sizes
<1> QED BY <1>1, <1>3, <1>5, <1>6, <1>7 DEF ScreenInv

\* Only the readers change the screen.
LEMMA ScreenStep ==
  ASSUME InputInv, ScreenInv, [Next]_vars
  PROVE  ScreenInv'
<1>1. CASE UNCHANGED <<screen, line, arrowed>>
  BY <1>1 DEF ScreenInv
<1>2. RingInv(cons, lap, written, read) /\ ModifierInv(shift, inbox, down) /\ serial \in Seq({SERIAL_CHAR})
  BY DEF InputInv
<1>3. screen \in Screens /\ line \in Seq(Int) /\ Len(line) <= BUFLEN - 1 /\ arrowed \in BOOLEAN
      /\ (~arrowed => Shown(screen, line))
  BY DEF ScreenInv
<1>4. CASE KernelKbd
  <2>1. inbox # <<>> /\ screen' = ScreenAfterDecode(CharOf(shift, Head(inbox)))
        /\ line' = line /\ arrowed' = arrowed
    BY <1>4 DEF KernelKbd
  <2>2. CharOf(shift, Head(inbox)) \in Int
    BY <1>2, <2>1, KeyHead
  <2>3. screen' \in Screens /\ (~arrowed => Shown(screen', line))
    BY <2>1, <2>2, DecodeShown
  <2> QED BY <1>3, <2>1, <2>3 DEF ScreenInv
<1>5. CASE KernelGetc
  <2>1. \/ UNCHANGED <<screen, line, arrowed>>
        \/ ReadlineStep(screen, cons.buf[cons.rpos])
    BY <1>5 DEF KernelGetc
  <2>2. cons.buf[cons.rpos] \in Int
    BY <1>2, GetKeeps
  <2> QED BY <1>1, <1>3, <2>1, <2>2, ReadlineKeeps
<1>6. CASE UserGetc
  <2> DEFINE c1    == IF serial = <<>> THEN 0 ELSE Head(serial)
             c2    == IF inbox = <<>> THEN 0 ELSE CharOf(shift, Head(inbox))
             ring  == Put(Put(cons, c1), c2)
             echoed == ScreenAfterDecode(c2)
  <2>1. c1 \in Int /\ c2 \in Int
    BY <1>2, SerialHead, KeyHead
  <2>2. \/ screen' = echoed /\ line' = line /\ arrowed' = arrowed
        \/ ReadlineStep(echoed, ring.buf[ring.rpos])
    BY <1>6 DEF UserGetc
  <2> HIDE DEF c1, c2
  <2>3. echoed \in Screens /\ (~arrowed => Shown(echoed, line))
    BY <2>1, DecodeShown
  <2>4. ring.buf[ring.rpos] \in Int
    <3>1. RingInv(Put(cons, c1), LapAfter(lap, c1), written + Counted(c1), read)
      BY <1>2, <2>1, PutKeeps
    <3>2. RingInv(ring, LapAfter(LapAfter(lap, c1), c2), written + Counted(c1) + Counted(c2), read)
      BY <2>1, <3>1, PutKeeps
    <3> QED BY <3>2, GetKeeps
  <2> HIDE DEF ring, echoed
  <2>5. CASE screen' = echoed /\ line' = line /\ arrowed' = arrowed
    BY <1>3, <2>3, <2>5 DEF ScreenInv
  <2>6. CASE ReadlineStep(echoed, ring.buf[ring.rpos])
    BY <1>3, <2>3, <2>4, <2>6, ReadlineKeeps
  <2> QED BY <2>2, <2>5, <2>6
<1>7. CASE UNCHANGED vars \/ SerialArrives \/ KernelSerial \/ KernelSerialDone
  BY <1>1, <1>7 DEF vars, SerialArrives, KernelSerial, KernelSerialDone
<1>8. ASSUME NEW key \in Keys, Press(key) \/ Release(key) PROVE ScreenInv'
  BY <1>1, <1>8 DEF Press, Release
<1> QED BY <1>4, <1>5, <1>6, <1>7, <1>8 DEF Next, KernelPolls

\* The screen shows the line: while no cursor key is in it, the cells before
\* the cursor hold the characters that readline has stored, through
\* backspaces, full buffers, wrapped rows, scrolling and DEL, on a screen of
\* any size whose rows hold a full line and the prompt.
THEOREM LineIsShown == Spec => []ScreenShowsLine
<1>1. Init => InputInv /\ ScreenInv
  BY InputInit, ScreenInit
<1>2. InputInv /\ ScreenInv /\ [Next]_vars => InputInv' /\ ScreenInv'
  BY InputStep, ScreenStep
<1>3. ScreenInv => ScreenShowsLine
  <2> SUFFICES ASSUME ScreenInv, ~arrowed
               PROVE  /\ screen.pos < CRT_SIZE
                      /\ \A n \in DOMAIN line : screen.buf[screen.pos - Len(line) + n - 1] = line[n]
    BY DEF ScreenShowsLine
  <2>1. Shown(screen, line) /\ screen.pos \in 0..(CRT_SIZE - 1) /\ line \in Seq(Int)
    BY DEF ScreenInv, Screens, ScreensTo
  <2>2. screen.pos < CRT_SIZE /\ DOMAIN line = 1..Len(line)
    BY <2>1, Sizes
  <2> QED BY <2>1, <2>2 DEF Shown
<1> QED BY <1>1, <1>2, <1>3, PTL DEF Spec

-----------------------------------------------------------------------------
(* The line editor: strings in its buffer *)

\* The characters of a line, and the contents of the buffer.
Printable == Letters \cup {DEL_CHAR, FOREIGN}
Buffers == [0..COMMAND_BUFLEN - 1 -> Printable \cup {NUL}]

\* A line holds no NUL.
LEMMA PrintableNotNul ==
  Line = Seq(Printable) /\ NUL \notin Printable /\ DEL_CHAR \in Printable /\ FOREIGN \in Printable
BY EditorAssumption DEF Line, Printable, NUL, DEL_CHAR, FOREIGN

\* The least element of a set of numbers.
LEMMA LeastOf ==
  ASSUME NEW T, T \subseteq Nat, T # {}
  PROVE  Min(T) \in T /\ \A y \in T : Min(T) <= y
<1>1. \E x \in T : \A y \in T : x <= y
  BY LeastNumber
<1> QED BY <1>1 DEF Min

\* The greatest element of a set of numbers.
LEMMA GreatestOf ==
  ASSUME NEW n \in Nat, NEW T, T \subseteq 1..n, T # {}
  PROVE  Max(T) \in T /\ \A y \in T : y <= Max(T)
<1>1. PICK x \in T : \A y \in T : y <= x
  BY GreatestInInterval, n \in Int, 1 \in Int
<1>2. \A y \in T : x >= y
  BY <1>1
<1>3. Max(T) \in T /\ \A y \in T : Max(T) >= y
  BY <1>1, <1>2 DEF Max
<1> QED BY <1>3

\* strlen finds the first NUL.
LEMMA Strlen ==
  ASSUME NEW b \in Buffers
  PROVE  /\ strlen(b) \in 0..COMMAND_BUFLEN
         /\ \A n \in 0..(strlen(b) - 1) : b[n] # NUL
         /\ strlen(b) < COMMAND_BUFLEN => b[strlen(b)] = NUL
<1> DEFINE ends == {n \in 0..COMMAND_BUFLEN - 1 : b[n] = NUL}
<1>1. COMMAND_BUFLEN \in Nat
  BY EditorAssumption
<1>2. CASE ends = {}
  <2>1. strlen(b) = COMMAND_BUFLEN
    BY <1>2 DEF strlen
  <2> QED BY <1>1, <1>2, <2>1
<1>3. CASE ends # {}
  <2>1. strlen(b) = Min(ends)
    BY <1>3 DEF strlen
  <2>2. ends \subseteq Nat
    BY <1>1
  <2>3. Min(ends) \in ends /\ \A y \in ends : Min(ends) <= y
    BY <1>3, <2>2, LeastOf
  <2>4. ASSUME NEW n \in 0..(Min(ends) - 1), b[n] = NUL PROVE FALSE
    <3>1. Min(ends) \in 0..COMMAND_BUFLEN - 1
      BY <2>3
    <3>2. n \in 0..COMMAND_BUFLEN - 1 /\ n < Min(ends)
      BY <1>1, <3>1
    <3>3. n \in ends
      BY <2>4, <3>2
    <3> HIDE DEF ends
    <3> QED BY <1>1, <2>3, <3>1, <3>2, <3>3
  <2> QED BY <1>1, <2>1, <2>3, <2>4
<1> QED BY <1>2, <1>3

\* What the buffer holds up to its first NUL is a line.
LEMMA StringIsLine ==
  ASSUME NEW b \in Buffers
  PROVE  /\ String(b) \in Line /\ Len(String(b)) = strlen(b)
         /\ \A n \in 1..strlen(b) : String(b)[n] = b[n - 1]
<1>1. strlen(b) \in Nat /\ strlen(b) <= COMMAND_BUFLEN /\ COMMAND_BUFLEN \in Nat
  BY Strlen, EditorAssumption
<1>2. ASSUME NEW n \in 1..strlen(b) PROVE b[n - 1] \in Printable
  <2>1. n - 1 \in 0..(strlen(b) - 1) /\ n - 1 \in 0..COMMAND_BUFLEN - 1
    BY <1>1
  <2>2. b[n - 1] \in Printable \cup {NUL}
    BY <2>1 DEF Buffers
  <2> QED BY <2>1, <2>2, Strlen
<1>3. String(b) \in [1..strlen(b) -> Printable]
  BY <1>2 DEF String
<1>4. String(b) \in Line /\ Len(String(b)) = strlen(b)
  BY <1>1, <1>3, PrintableNotNul
<1> QED BY <1>4 DEF String

\* Two lines with the same characters are the same.
LEMMA SameLine ==
  ASSUME NEW s \in Line, NEW t \in Line, Len(s) = Len(t), \A n \in 1..Len(s) : s[n] = t[n]
  PROVE  s = t
BY DEF Line

\* A part of a line.
LEMMA LinePart ==
  ASSUME NEW s \in Line, NEW m \in Nat, NEW n \in Nat, 1 <= m, m <= n + 1, n <= Len(s)
  PROVE  /\ SubSeq(s, m, n) \in Line /\ Len(SubSeq(s, m, n)) = n - m + 1
         /\ \A k \in 1..(n - m + 1) : SubSeq(s, m, n)[k] = s[m + k - 1]
<1>1. s \in Seq(Printable) /\ Len(s) \in Nat
  BY PrintableNotNul
<1>2. \A k \in m..n : s[k] \in Printable
  BY <1>1
<1>3. /\ SubSeq(s, m, n) \in Seq(Printable)
      /\ Len(SubSeq(s, m, n)) = IF m <= n THEN n - m + 1 ELSE 0
      /\ \A k \in 1..(n - m + 1) : SubSeq(s, m, n)[k] = s[m + k - 1]
  BY <1>2, SubSeqProperties
<1>4. (IF m <= n THEN n - m + 1 ELSE 0) = n - m + 1
  OBVIOUS
<1> QED BY <1>3, <1>4, PrintableNotNul

\* The bytes of a buffer that a line was loaded into.
LEMMA LoadedIsBytes ==
  ASSUME NEW s \in Line
  PROVE  /\ Loaded(s) \in Buffers
         /\ \A n \in 0..COMMAND_BUFLEN - 1 : Loaded(s)[n] = IF n < Len(s) THEN s[n + 1] ELSE NUL
<1>1. COMMAND_BUFLEN \in Nat /\ s \in Seq(Printable) /\ Len(s) \in Nat
  BY EditorAssumption, PrintableNotNul
<1>2. ASSUME NEW n \in 0..COMMAND_BUFLEN - 1 PROVE (IF n < Len(s) THEN s[n + 1] ELSE NUL) \in Printable \cup {NUL}
  <2>1. n < Len(s) => n + 1 \in 1..Len(s)
    BY <1>1
  <2> QED BY <1>1, <2>1
<1> QED BY <1>2 DEF Loaded, Buffers

\* A line that fits is read back.
LEMMA LoadedString ==
  ASSUME NEW s \in Line, Len(s) < COMMAND_BUFLEN
  PROVE  strlen(Loaded(s)) = Len(s) /\ String(Loaded(s)) = s
<1> DEFINE b == Loaded(s)
           m == strlen(b)
<1>1. COMMAND_BUFLEN \in Nat /\ Len(s) \in Nat /\ \A n \in 1..Len(s) : s[n] # NUL
  BY EditorAssumption, PrintableNotNul
<1>2. b \in Buffers /\ \A n \in 0..COMMAND_BUFLEN - 1 : b[n] = IF n < Len(s) THEN s[n + 1] ELSE NUL
  BY LoadedIsBytes
<1> HIDE DEF b
<1>3. /\ m \in 0..COMMAND_BUFLEN
      /\ \A n \in 0..(m - 1) : b[n] # NUL
      /\ m < COMMAND_BUFLEN => b[m] = NUL
  BY <1>2, Strlen
<1> HIDE DEF m
<1>4. ASSUME m < Len(s) PROVE FALSE
  <2>1. m \in 0..COMMAND_BUFLEN - 1 /\ m + 1 \in 1..Len(s) /\ m < COMMAND_BUFLEN
    BY <1>1, <1>3, <1>4
  <2> QED BY <1>1, <1>2, <1>3, <1>4, <2>1
<1>5. ASSUME m > Len(s) PROVE FALSE
  <2>1. Len(s) \in 0..(m - 1) /\ Len(s) \in 0..COMMAND_BUFLEN - 1
    BY <1>1, <1>3, <1>5
  <2> QED BY <1>1, <1>2, <1>3, <2>1
<1>6. m = Len(s)
  <2>1. m \in Int /\ Len(s) \in Int /\ ~(m < Len(s)) /\ ~(m > Len(s))
    BY <1>1, <1>3, <1>4, <1>5
  <2> QED BY <2>1
<1>7. String(b) = s
  <2>1. String(b) \in Line /\ Len(String(b)) = Len(s) /\ \A n \in 1..Len(s) : String(b)[n] = b[n - 1]
    BY <1>2, <1>6, StringIsLine DEF m
  <2>2. ASSUME NEW n \in 1..Len(s) PROVE String(b)[n] = s[n]
    <3>1. n - 1 \in 0..COMMAND_BUFLEN - 1 /\ n - 1 < Len(s) /\ (n - 1) + 1 = n
      BY <1>1
    <3> QED BY <1>2, <2>1, <3>1
  <2> QED BY <2>1, <2>2, SameLine
<1> QED BY <1>6, <1>7 DEF b, m

\* Buffers with the same bytes are the same.
LEMMA SameBytes ==
  ASSUME NEW b \in Buffers, NEW c \in Buffers, \A n \in 0..COMMAND_BUFLEN - 1 : b[n] = c[n]
  PROVE  b = c
<1>1. b = [n \in 0..COMMAND_BUFLEN - 1 |-> b[n]] /\ c = [n \in 0..COMMAND_BUFLEN - 1 |-> c[n]]
  BY DEF Buffers
<1> QED BY <1>1

\* A character typed at the end.
LEMMA LoadedAppend ==
  ASSUME NEW s \in Line, Len(s) < COMMAND_BUFLEN - 1, NEW c \in Printable
  PROVE  /\ Append(s, c) \in Line /\ Len(Append(s, c)) = Len(s) + 1
         /\ [Loaded(s) EXCEPT ![Len(s)] = c] = Loaded(Append(s, c))
<1> DEFINE b == Loaded(s)
           t == Append(s, c)
           d == [b EXCEPT ![Len(s)] = c]
<1>1. COMMAND_BUFLEN \in Nat /\ s \in Seq(Printable) /\ Len(s) \in Nat
  BY EditorAssumption, PrintableNotNul
<1>2. /\ t \in Seq(Printable) /\ Len(t) = Len(s) + 1
      /\ \A n \in 1..Len(s) : t[n] = s[n]
      /\ t[Len(s) + 1] = c
  BY <1>1
<1>3. t \in Line
  BY <1>2, PrintableNotNul
<1>4. b \in Buffers /\ \A n \in 0..COMMAND_BUFLEN - 1 : b[n] = IF n < Len(s) THEN s[n + 1] ELSE NUL
  BY LoadedIsBytes
<1>5. Loaded(t) \in Buffers /\ \A n \in 0..COMMAND_BUFLEN - 1 : Loaded(t)[n] = IF n < Len(t) THEN t[n + 1] ELSE NUL
  BY <1>3, LoadedIsBytes
<1> HIDE DEF b, t
<1>6. d \in Buffers /\ \A n \in 0..COMMAND_BUFLEN - 1 : d[n] = IF n = Len(s) THEN c ELSE b[n]
  BY <1>4 DEF Buffers
<1> HIDE DEF d
<1>7. ASSUME NEW n \in 0..COMMAND_BUFLEN - 1 PROVE d[n] = Loaded(t)[n]
  <2>1. CASE n < Len(s)
    <3>1. n + 1 \in 1..Len(s) /\ n # Len(s) /\ n < Len(t)
      BY <1>1, <1>2, <2>1
    <3> QED BY <1>2, <1>4, <1>5, <1>6, <2>1, <3>1
  <2>2. CASE n = Len(s)
    BY <1>1, <1>2, <1>5, <1>6, <2>2
  <2>3. CASE n > Len(s)
    <3>1. n # Len(s) /\ ~(n < Len(s)) /\ ~(n < Len(t))
      BY <1>1, <1>2, <2>3
    <3> QED BY <1>4, <1>5, <1>6, <3>1
  <2> QED BY <1>1, <2>1, <2>2, <2>3
<1>8. d = Loaded(t)
  BY <1>5, <1>6, <1>7, SameBytes
<1> QED BY <1>2, <1>3, <1>8 DEF b, d, t

\* A character taken back at the end: the one under the cursor is NUL.
LEMMA LoadedFront ==
  ASSUME NEW s \in Line, Len(s) > 0, Len(s) < COMMAND_BUFLEN
  PROVE  /\ s # <<>> /\ Front(s) \in Line /\ Len(Front(s)) = Len(s) - 1
         /\ At(Loaded(s), Len(s)) = NUL
         /\ [Loaded(s) EXCEPT ![Len(s) - 1] = NUL] = Loaded(Front(s))
<1> DEFINE b == Loaded(s)
           t == Front(s)
           d == [b EXCEPT ![Len(s) - 1] = NUL]
<1>1. COMMAND_BUFLEN \in Nat /\ s \in Seq(Printable) /\ Len(s) \in Nat /\ s # <<>>
  BY EditorAssumption, PrintableNotNul
<1>2. /\ t \in Seq(Printable) /\ Len(t) = Len(s) - 1
      /\ \A n \in 1..(Len(s) - 1) : t[n] = s[n]
  <2> DEFINE k == Len(s) - 1
  <2>1. k \in Nat /\ 1 \in Nat /\ 1 <= 1 /\ 1 <= k + 1 /\ k <= Len(s)
    BY <1>1
  <2> HIDE DEF k
  <2>2. /\ SubSeq(s, 1, k) \in Line /\ Len(SubSeq(s, 1, k)) = k - 1 + 1
        /\ \A n \in 1..(k - 1 + 1) : SubSeq(s, 1, k)[n] = s[1 + n - 1]
    BY ONLY s \in Line, <2>1, LinePart
  <2>3. k - 1 + 1 = k /\ \A n \in 1..k : 1 + n - 1 = n
    BY <2>1
  <2> QED BY <2>2, <2>3, PrintableNotNul DEF Front, k
<1>3. t \in Line
  BY <1>2, PrintableNotNul
<1>4. b \in Buffers /\ \A n \in 0..COMMAND_BUFLEN - 1 : b[n] = IF n < Len(s) THEN s[n + 1] ELSE NUL
  BY LoadedIsBytes
<1>5. Loaded(t) \in Buffers /\ \A n \in 0..COMMAND_BUFLEN - 1 : Loaded(t)[n] = IF n < Len(t) THEN t[n + 1] ELSE NUL
  BY <1>3, LoadedIsBytes
<1> HIDE DEF b, t
<1>6. d \in Buffers /\ \A n \in 0..COMMAND_BUFLEN - 1 : d[n] = IF n = Len(s) - 1 THEN NUL ELSE b[n]
  BY <1>4 DEF Buffers
<1> HIDE DEF d
<1>7. ASSUME NEW n \in 0..COMMAND_BUFLEN - 1 PROVE d[n] = Loaded(t)[n]
  <2>1. CASE n < Len(s) - 1
    <3>1. n + 1 \in 1..(Len(s) - 1) /\ n # Len(s) - 1 /\ n < Len(t) /\ n < Len(s)
      BY <1>1, <1>2, <2>1
    <3> QED BY <1>2, <1>4, <1>5, <1>6, <3>1
  <2>2. CASE n = Len(s) - 1
    BY <1>1, <1>2, <1>5, <1>6, <2>2
  <2>3. CASE n > Len(s) - 1
    <3>1. n # Len(s) - 1 /\ ~(n < Len(s)) /\ ~(n < Len(t))
      BY <1>1, <1>2, <2>3
    <3> QED BY <1>4, <1>5, <1>6, <3>1
  <2> QED BY <1>1, <2>1, <2>2, <2>3
<1>8. d = Loaded(t)
  BY <1>5, <1>6, <1>7, SameBytes
<1>9. At(b, Len(s)) = NUL
  <2>1. Len(s) \in 0..COMMAND_BUFLEN - 1 /\ ~(Len(s) < Len(s))
    BY <1>1
  <2> QED BY <1>1, <1>4, <2>1 DEF At
<1> QED BY <1>1, <1>2, <1>3, <1>8, <1>9 DEF b, d, t

\* Closing a gap behind the end changes nothing.
LEMMA LoadedClosed ==
  ASSUME NEW s \in Line, NEW e \in Nat, e >= Len(s), e + 1 < COMMAND_BUFLEN
  PROVE  [n \in 0..COMMAND_BUFLEN - 1 |-> IF n \in Len(s)..e THEN At(Loaded(s), n + 1) ELSE Loaded(s)[n]] = Loaded(s)
<1> DEFINE b == Loaded(s)
           d == [n \in 0..COMMAND_BUFLEN - 1 |-> IF n \in Len(s)..e THEN At(b, n + 1) ELSE b[n]]
<1>1. COMMAND_BUFLEN \in Nat /\ Len(s) \in Nat
  BY EditorAssumption, PrintableNotNul
<1>2. b \in Buffers /\ \A n \in 0..COMMAND_BUFLEN - 1 : b[n] = IF n < Len(s) THEN s[n + 1] ELSE NUL
  BY LoadedIsBytes
<1> HIDE DEF b
<1>3. ASSUME NEW n \in 0..COMMAND_BUFLEN - 1 PROVE (IF n \in Len(s)..e THEN At(b, n + 1) ELSE b[n]) = b[n]
  <2>1. CASE n \in Len(s)..e
    <3>1. n + 1 \in 0..COMMAND_BUFLEN - 1 /\ n + 1 < COMMAND_BUFLEN /\ ~(n < Len(s)) /\ ~(n + 1 < Len(s))
      BY <1>1, <2>1
    <3> QED BY <1>2, <2>1, <3>1 DEF At
  <2> QED BY <2>1
<1>4. d = [n \in 0..COMMAND_BUFLEN - 1 |-> b[n]]
  BY <1>3
<1>5. b = [n \in 0..COMMAND_BUFLEN - 1 |-> b[n]]
  BY <1>2 DEF Buffers
<1> QED BY <1>4, <1>5 DEF b

\* A NUL behind the end changes nothing.
LEMMA LoadedTerminated ==
  ASSUME NEW s \in Line, NEW e \in Nat, e >= Len(s), e < COMMAND_BUFLEN
  PROVE  [Loaded(s) EXCEPT ![e] = NUL] = Loaded(s)
<1> DEFINE b == Loaded(s)
<1>1. COMMAND_BUFLEN \in Nat /\ Len(s) \in Nat
  BY EditorAssumption, PrintableNotNul
<1>2. b \in Buffers /\ \A n \in 0..COMMAND_BUFLEN - 1 : b[n] = IF n < Len(s) THEN s[n + 1] ELSE NUL
  BY LoadedIsBytes
<1> HIDE DEF b
<1>3. b[e] = NUL
  BY <1>1, <1>2
<1> QED BY <1>2, <1>3 DEF Buffers, b

\* Characters over a shorter line.
LEMMA OverIsLoaded ==
  ASSUME NEW b \in Buffers, NEW t \in Line, \A n \in 0..COMMAND_BUFLEN - 1 : n >= Len(t) => b[n] = NUL
  PROVE  Over(b, t) = Loaded(t)
<1>1. Len(t) \in Nat
  BY PrintableNotNul
<1>2. \A n \in 0..COMMAND_BUFLEN - 1 : (IF n < Len(t) THEN t[n + 1] ELSE b[n]) = (IF n < Len(t) THEN t[n + 1] ELSE NUL)
  BY <1>1
<1> QED BY <1>2 DEF Over, Loaded

\* Characters over others.
LEMMA OverIsBytes ==
  ASSUME NEW b \in Buffers, NEW t \in Line
  PROVE  Over(b, t) \in Buffers
<1>1. COMMAND_BUFLEN \in Nat /\ t \in Seq(Printable) /\ Len(t) \in Nat
  BY EditorAssumption, PrintableNotNul
<1>2. ASSUME NEW n \in 0..COMMAND_BUFLEN - 1 PROVE (IF n < Len(t) THEN t[n + 1] ELSE b[n]) \in Printable \cup {NUL}
  <2>1. n < Len(t) => n + 1 \in 1..Len(t)
    BY <1>1
  <2> QED BY <1>1, <2>1 DEF Buffers
<1> QED BY <1>2 DEF Over, Buffers

-----------------------------------------------------------------------------
(* Arguments and completions *)

\* A name is a line without blanks.
LEMMA NameIsLine ==
  ASSUME NEW s \in Name
  PROVE  s \in Line /\ Len(s) > 0 /\ \A n \in 1..Len(s) : s[n] # BLANK
<1>1. s \in Seq(Letters \ {BLANK}) /\ s # <<>> /\ Len(s) \in Nat
  BY DEF Name
<1>2. Len(s) > 0 /\ \A n \in 1..Len(s) : s[n] \in Letters /\ s[n] # BLANK
  BY <1>1
<1>3. s \in [1..Len(s) -> Printable]
  BY <1>1, <1>2 DEF Printable
<1> QED BY <1>1, <1>2, <1>3, PrintableNotNul

\* A name is its own first argument.
LEMMA NameIsFirst ==
  ASSUME NEW s \in Name
  PROVE  Starts(s) # {} /\ FirstArg(s) = s
<1>1. s \in Line /\ Len(s) \in Nat /\ Len(s) > 0 /\ DOMAIN s = 1..Len(s) /\ \A n \in 1..Len(s) : s[n] # BLANK
  BY NameIsLine, PrintableNotNul
<1>2. Starts(s) = {1}
  <2>1. 1 \in Starts(s)
    BY <1>1 DEF Starts
  <2>2. ASSUME NEW n \in Starts(s), n # 1 PROVE FALSE
    <3>1. n \in 1..Len(s) /\ s[n - 1] = BLANK
      BY <1>1, <2>2 DEF Starts
    <3>2. n - 1 \in 1..Len(s)
      BY <1>1, <2>2, <3>1
    <3> QED BY <1>1, <3>1, <3>2
  <2> QED BY <2>1, <2>2
<1>3. Min(Starts(s)) = 1
  <2>1. Starts(s) \subseteq Nat /\ Starts(s) # {}
    BY <1>2
  <2> QED BY <1>2, <2>1, LeastOf
<1>4. {n \in DOMAIN s : n >= 1 /\ s[n] = BLANK} = {}
  BY <1>1
<1>5. FirstArg(s) = SubSeq(s, 1, Len(s))
  BY <1>3, <1>4 DEF FirstArg
<1>6. SubSeq(s, 1, Len(s)) = s
  BY <1>1, PrintableNotNul, SubSeqFull
<1> QED BY <1>2, <1>5, <1>6

\* Where the first argument ends, when there is another.
LEMMA SecondStarts ==
  ASSUME NEW s \in Line, Cardinality(Starts(s)) > 1
  PROVE  LET f == Min(Starts(s))
             x == Max(Starts(s))
         IN  /\ f \in 1..Len(s) /\ x \in 1..Len(s) /\ f < x
             /\ f \in Starts(s) /\ \A n \in Starts(s) : f <= n
             /\ s[x - 1] = BLANK
<1> DEFINE T == Starts(s)
           f == Min(T)
           x == Max(T)
<1>1. Len(s) \in Nat /\ DOMAIN s = 1..Len(s)
  BY PrintableNotNul
<1>2. T \subseteq 1..Len(s) /\ T \subseteq Nat
  BY <1>1 DEF Starts
<1>3. T # {}
  <2>1. Cardinality({}) = 0
    BY FS_EmptySet
  <2> QED BY <2>1
<1>4. f \in T /\ \A n \in T : f <= n
  BY <1>2, <1>3, LeastOf
<1>5. x \in T /\ \A n \in T : n <= x
  BY <1>1, <1>2, <1>3, GreatestOf
<1>6. f # x
  <2> SUFFICES ASSUME f = x PROVE FALSE
    OBVIOUS
  <2> HIDE DEF T, f, x
  <2>1. T = {f}
    <3>1. ASSUME NEW n \in T PROVE n = f
      <4>1. n \in Nat /\ f \in Nat /\ f <= n /\ n <= f
        BY <1>2, <1>4, <1>5
      <4> QED BY <4>1
    <3> QED BY <1>4, <3>1
  <2>2. Cardinality({f}) = 1
    BY FS_Singleton
  <2> QED BY <2>1, <2>2 DEF T
<1>7. f \in 1..Len(s) /\ x \in 1..Len(s) /\ f < x
  BY <1>1, <1>2, <1>4, <1>5, <1>6
<1>8. s[x] # BLANK /\ (x = 1 \/ s[x - 1] = BLANK)
  BY <1>5 DEF Starts
<1> QED BY <1>4, <1>7, <1>8

\* A completion of the last argument keeps the first.
LEMMA FirstArgKept ==
  ASSUME NEW s \in Line, Cardinality(Starts(s)) > 1, NEW p \in Line
  PROVE  LET u == SubSeq(s, 1, Max(Starts(s)) - 1) \o p
         IN  u \in Line /\ Starts(u) # {} /\ FirstArg(u) = FirstArg(s)
<1> DEFINE f == Min(Starts(s))
           x == Max(Starts(s))
           h == SubSeq(s, 1, x - 1)
           u == h \o p
           E(t) == {n \in DOMAIN t : n >= f /\ t[n] = BLANK}
<1>1. /\ f \in 1..Len(s) /\ x \in 1..Len(s) /\ f < x
      /\ f \in Starts(s) /\ \A n \in Starts(s) : f <= n
      /\ s[x - 1] = BLANK
  BY SecondStarts
<1>2. s \in Seq(Printable) /\ Len(s) \in Nat /\ DOMAIN s = 1..Len(s)
      /\ p \in Seq(Printable) /\ Len(p) \in Nat
  BY PrintableNotNul
<1> HIDE DEF f, x
<1>3. h \in Seq(Printable) /\ Len(h) = x - 1 /\ \A n \in 1..(x - 1) : h[n] = s[n]
  <2> DEFINE k == x - 1
  <2>1. k \in Nat /\ 1 \in Nat /\ 1 <= 1 /\ 1 <= k + 1 /\ k <= Len(s)
    BY <1>1, <1>2
  <2> HIDE DEF k
  <2>2. /\ SubSeq(s, 1, k) \in Line /\ Len(SubSeq(s, 1, k)) = k - 1 + 1
        /\ \A n \in 1..(k - 1 + 1) : SubSeq(s, 1, k)[n] = s[1 + n - 1]
    BY ONLY s \in Line, <2>1, LinePart
  <2>3. k - 1 + 1 = k /\ \A n \in 1..k : 1 + n - 1 = n
    BY <2>1
  <2> QED BY <2>2, <2>3, PrintableNotNul DEF k
<1> HIDE DEF h
<1>4. u \in Seq(Printable) /\ Len(u) = (x - 1) + Len(p) /\ \A n \in 1..(x - 1) : u[n] = h[n]
  <2>1. /\ u \in Seq(Printable) /\ Len(u) = Len(h) + Len(p)
        /\ \A n \in 1..(Len(h) + Len(p)) : u[n] = IF n <= Len(h) THEN h[n] ELSE p[n - Len(h)]
    BY <1>2, <1>3, ConcatProperties
  <2>2. \A n \in 1..(x - 1) : n \in 1..(Len(h) + Len(p)) /\ n <= Len(h)
    BY <1>1, <1>2, <1>3
  <2> QED BY <1>3, <2>1, <2>2
<1>5. /\ Len(u) \in Nat /\ DOMAIN u = 1..Len(u) /\ x \in Nat /\ f \in Nat /\ f >= 1 /\ x - 1 <= Len(u) /\ x - 1 <= Len(s)
      /\ \A n \in 1..(x - 1) : u[n] = s[n]
  BY <1>1, <1>2, <1>3, <1>4
<1> HIDE DEF u
<1>6. \A n \in 1..(x - 1) : n \in Starts(u) <=> n \in Starts(s)
  <2> TAKE n \in 1..(x - 1)
  <2>1. n \in DOMAIN u /\ n \in DOMAIN s /\ (n # 1 => n - 1 \in 1..(x - 1))
    BY <1>2, <1>5
  <2> QED BY <1>5, <2>1 DEF Starts
<1>7. Min(Starts(u)) = f
  <2> DEFINE T == Starts(u)
  <2>1. T \subseteq Nat
    BY <1>5 DEF Starts
  <2>2. f \in 1..(x - 1)
    BY <1>1, <1>5
  <2>3. f \in T
    BY <1>1, <1>6, <2>2
  <2>4. Min(T) \in T /\ Min(T) <= f
    BY <2>1, <2>3, LeastOf
  <2>5. Min(T) \in 1..(x - 1)
    <3>1. Min(T) \in 1..Len(u)
      BY <1>5, <2>4 DEF Starts
    <3> QED BY <1>5, <2>2, <2>4, <3>1
  <2>6. f <= Min(T)
    BY <1>1, <1>6, <2>4, <2>5
  <2> HIDE DEF T
  <2> QED BY <1>5, <2>4, <2>5, <2>6 DEF T
<1>8. Starts(u) # {}
  <2>1. f \in 1..(x - 1)
    BY <1>1, <1>5
  <2> QED BY <1>1, <1>6, <2>1
<1>9. ASSUME NEW t \in {u, s}
      PROVE  /\ E(t) # {} /\ E(t) \subseteq Nat
             /\ Min(E(t)) \in 1..(x - 1) /\ Min(E(t)) >= f /\ \A n \in E(t) : Min(E(t)) <= n
  <2>1. DOMAIN t = 1..Len(t) /\ Len(t) \in Nat /\ x - 1 <= Len(t) /\ \A n \in 1..(x - 1) : t[n] = s[n]
    BY <1>2, <1>5
  <2>2. x - 1 \in 1..(x - 1) /\ x - 1 >= f
    BY <1>1, <1>5
  <2>3. x - 1 \in E(t)
    BY <1>1, <1>5, <2>1, <2>2
  <2>4. E(t) \subseteq Nat
    BY <2>1
  <2>5. Min(E(t)) \in E(t) /\ \A n \in E(t) : Min(E(t)) <= n
    BY <2>3, <2>4, LeastOf
  <2>6. Min(E(t)) <= x - 1
    BY <2>3, <2>5
  <2>7. Min(E(t)) \in 1..Len(t) /\ Min(E(t)) >= f
    BY <2>1, <2>5
  <2> QED BY <1>5, <2>3, <2>4, <2>5, <2>6, <2>7
<1>10. \A n \in 1..(x - 1) : n \in E(u) <=> n \in E(s)
  BY <1>2, <1>5
<1>11. Min(E(u)) = Min(E(s))
  <2> DEFINE a == Min(E(u))
             b == Min(E(s))
  <2>1. a \in 1..(x - 1) /\ b \in 1..(x - 1)
    BY <1>9
  <2>2. a \in E(u) /\ b \in E(s)
    BY <1>9, LeastOf
  <2>3. a <= b /\ b <= a
    BY <1>9, <1>10, <2>1, <2>2
  <2> HIDE DEF a, b
  <2>4. a = b
    BY <1>5, <2>1, <2>3
  <2> QED BY <2>4 DEF a, b
<1>12. /\ FirstArg(s) = SubSeq(s, f, Min(E(s)) - 1)
       /\ FirstArg(u) = SubSeq(u, f, Min(E(s)) - 1)
  <2>1. FirstArg(s) = SubSeq(s, f, Min(E(s)) - 1)
    BY <1>9 DEF FirstArg, f
  <2>2. FirstArg(u) = SubSeq(u, f, Min(E(u)) - 1)
    BY <1>7, <1>9 DEF FirstArg
  <2> QED BY <1>11, <2>1, <2>2
<1>13. SubSeq(u, f, Min(E(s)) - 1) = SubSeq(s, f, Min(E(s)) - 1)
  <2> DEFINE e == Min(E(s)) - 1
  <2>1. e \in Nat /\ 1 <= f /\ f <= e + 1 /\ e <= Len(s) /\ e <= Len(u) /\ e <= x - 1 /\ f \in Nat
    BY <1>2, <1>5, <1>9
  <2>2. u \in Line
    BY <1>4, PrintableNotNul
  <2> HIDE DEF e
  <2>3. /\ SubSeq(s, f, e) \in Line /\ Len(SubSeq(s, f, e)) = e - f + 1
        /\ \A k \in 1..(e - f + 1) : SubSeq(s, f, e)[k] = s[f + k - 1]
    BY ONLY s \in Line, <2>1, LinePart
  <2>4. /\ SubSeq(u, f, e) \in Line /\ Len(SubSeq(u, f, e)) = e - f + 1
        /\ \A k \in 1..(e - f + 1) : SubSeq(u, f, e)[k] = u[f + k - 1]
    BY ONLY <2>1, <2>2, LinePart
  <2>5. \A k \in 1..(e - f + 1) : f + k - 1 \in 1..(x - 1)
    BY <1>5, <2>1
  <2>6. \A k \in 1..(e - f + 1) : SubSeq(u, f, e)[k] = SubSeq(s, f, e)[k]
    BY <1>5, <2>3, <2>4, <2>5
  <2>7. SubSeq(u, f, e) = SubSeq(s, f, e)
    BY <2>3, <2>4, <2>6, SameLine
  <2> QED BY <2>7 DEF e
<1>14. u \in Line
  BY <1>4, PrintableNotNul
<1> QED BY <1>8, <1>12, <1>13, <1>14 DEF u, h, x

\* After k rounds the loop has collected those of the first k elements of w
\* whose numbers are in Z.
Collects(g, n, S, w, Z) ==
  /\ g \in [0..n -> Seq(S)] /\ g[0] = <<>>
  /\ \A k \in 1..n : g[k] = IF k \in Z THEN Append(g[k - 1], w[k]) ELSE g[k - 1]

\* Such a loop computes a function of the number of rounds.
LEMMA SelectExists ==
  ASSUME NEW n \in Nat, NEW S, NEW w \in [1..n -> S], NEW Z
  PROVE  \E g : Collects(g, n, S, w, Z)
<1> DEFINE F(k, q) == IF k \in Z THEN Append(q, w[k]) ELSE q
           G(m, g) == g \in [0..m -> Seq(S)] /\ g[0] = <<>> /\ \A k \in 1..m : g[k] = F(k, g[k - 1])
           P == {m \in Nat : \E g : G(m, g)}
<1>1. 0 \in P
  <2>1. G(0, [k \in 0..0 |-> <<>>])
    OBVIOUS
  <2> QED BY <2>1
<1>2. ASSUME NEW m \in 0..(n - 1), m \in P PROVE m + 1 \in P
  <2>1. PICK g : G(m, g)
    BY <1>2
  <2> DEFINE q == g[m]
             x == F(m + 1, q)
             h == [k \in 0..(m + 1) |-> IF k = m + 1 THEN x ELSE g[k]]
  <2>2. q \in Seq(S)
    BY <2>1
  <2>3. m + 1 \in 1..n
    OBVIOUS
  <2>4. w[m + 1] \in S
    BY <2>3
  <2>5. x \in Seq(S)
    <3> HIDE DEF q
    <3> QED BY <2>2, <2>4
  <2> HIDE DEF F
  <2>6. h \in [0..(m + 1) -> Seq(S)] /\ h[0] = <<>> /\ h[m + 1] = F(m + 1, h[(m + 1) - 1])
    <3> HIDE DEF x
    <3>1. h \in [0..(m + 1) -> Seq(S)] /\ h[0] = <<>> /\ h[m + 1] = x /\ h[m] = q
      BY <2>1, <2>5
    <3>2. (m + 1) - 1 = m
      OBVIOUS
    <3> QED BY <3>1, <3>2 DEF x
  <2>7. ASSUME NEW k \in 1..m PROVE h[k] = F(k, h[k - 1])
    <3>1. k # m + 1 /\ k - 1 # m + 1 /\ k \in 0..(m + 1) /\ k - 1 \in 0..(m + 1)
      OBVIOUS
    <3>2. h[k] = g[k] /\ h[k - 1] = g[k - 1]
      BY <3>1
    <3> QED BY <2>1, <3>2
  <2> HIDE DEF h
  <2>8. ASSUME NEW k \in 1..(m + 1) PROVE h[k] = F(k, h[k - 1])
    <3>1. k = m + 1 \/ k \in 1..m
      OBVIOUS
    <3> QED BY <2>6, <2>7, <3>1
  <2>9. G(m + 1, h)
    BY <2>6, <2>8
  <2> HIDE DEF G
  <2> QED BY <2>9
<1>3. \A m \in 0..n : m \in P
  <2> HIDE DEF P
  <2> QED BY <1>1, <1>2, IntervalInduction
<1>4. n \in P
  <2> HIDE DEF P
  <2> QED BY <1>3
<1> QED BY <1>4 DEF Collects

\* The completions are names that start with the stem, each behind what precedes it.
LEMMA CompletionsFound ==
  ASSUME NEW names \in Seq(Name), NEW stem \in Line, NEW before \in Line
  PROVE  LET list == Completions(names, stem, before)
         IN  /\ list \in Seq(Line)
             /\ \A k \in 1..Len(list) :
                  \E m \in 1..Len(names) : IsPrefix(stem, names[m]) /\ list[k] = before \o names[m]
<1> DEFINE N == Len(names)
           w == [m \in 1..N |-> before \o names[m]]
           Z == {m \in 1..N : IsPrefix(stem, names[m])}
           Eq(f) == f = [n \in 0..N |-> IF n = 0 THEN <<>>
                                        ELSE IF IsPrefix(stem, names[n]) THEN Append(f[n - 1], before \o names[n])
                                        ELSE f[n - 1]]
           c == CHOOSE f : Eq(f)
<1>1. N \in Nat /\ \A m \in 1..N : names[m] \in Name
  OBVIOUS
<1>2. ASSUME NEW m \in 1..N PROVE before \o names[m] \in Line
  <2>1. names[m] \in Line
    BY <1>1, NameIsLine
  <2> QED BY <2>1, PrintableNotNul, ConcatProperties
<1>3. w \in [1..N -> Line]
  BY <1>2
<1>4. PICK g : Collects(g, N, Line, w, Z)
  <2> HIDE DEF w, Z, N
  <2> QED BY <1>1, <1>3, SelectExists
<1>5. Eq(g)
  <2>1. ASSUME NEW n \in 0..N
        PROVE  g[n] = IF n = 0 THEN <<>>
                      ELSE IF IsPrefix(stem, names[n]) THEN Append(g[n - 1], before \o names[n]) ELSE g[n - 1]
    <3>1. CASE n = 0
      BY <1>4, <3>1 DEF Collects
    <3>2. CASE n # 0
      <4>1. n \in 1..N
        BY <1>1, <3>2
      <4>2. g[n] = IF n \in Z THEN Append(g[n - 1], w[n]) ELSE g[n - 1]
        BY <1>4, <4>1 DEF Collects
      <4>3. w[n] = before \o names[n] /\ (n \in Z <=> IsPrefix(stem, names[n]))
        BY <4>1
      <4> HIDE DEF w, Z
      <4> QED BY <3>2, <4>2, <4>3
    <3> QED BY <3>1, <3>2
  <2>2. g = [n \in 0..N |-> g[n]]
    BY <1>4 DEF Collects
  <2> QED BY <2>1, <2>2
<1>6. Eq(c)
  <2> HIDE DEF Eq
  <2> QED BY <1>5
<1>7. Completions(names, stem, before) = c[N]
  BY DEF Completions
<1>8. c[0] = <<>> /\ \A k \in 1..N : c[k] = IF k \in Z THEN Append(c[k - 1], w[k]) ELSE c[k - 1]
  <2> HIDE DEF c
  <2>1. \A n \in 0..N : c[n] = IF n = 0 THEN <<>>
                      ELSE IF IsPrefix(stem, names[n]) THEN Append(c[n - 1], before \o names[n]) ELSE c[n - 1]
    BY <1>6, Zenon
  <2>2. \A k \in 1..N : w[k] = before \o names[k] /\ (k \in Z <=> IsPrefix(stem, names[k])) /\ k \in 0..N /\ k # 0
    BY <1>1
  <2>3. 0 \in 0..N
    BY <1>1
  <2> HIDE DEF w, Z, N, Eq
  <2> QED BY <2>1, <2>2, <2>3
<1> HIDE DEF c
<1> DEFINE Ok(q) == /\ q \in Seq(Line)
                    /\ \A k \in 1..Len(q) : \E m \in 1..N : m \in Z /\ q[k] = w[m]
           P == {n \in Nat : Ok(c[n])}
<1>9. 0 \in P
  <2>1. Ok(<<>>)
    OBVIOUS
  <2> HIDE DEF Ok
  <2> QED BY <1>8, <2>1
<1>10. ASSUME NEW n \in 0..(N - 1), n \in P PROVE n + 1 \in P
  <2>1. n + 1 \in 1..N /\ (n + 1) - 1 = n
    BY <1>1
  <2>2. c[n + 1] = IF n + 1 \in Z THEN Append(c[n], w[n + 1]) ELSE c[n]
    BY <1>8, <2>1
  <2>3. Ok(c[n])
    BY <1>10
  <2>4. CASE n + 1 \in Z
    <3> DEFINE q == c[n]
               e == w[n + 1]
    <3>1. e \in Line
      BY <1>3, <2>1
    <3> HIDE DEF e, w, Z
    <3>2. q \in Seq(Line) /\ Len(q) \in Nat
      BY <2>3
    <3> HIDE DEF q
    <3>3. Append(q, e) \in Seq(Line) /\ Len(Append(q, e)) = Len(q) + 1 /\ Append(q, e)[Len(q) + 1] = e
          /\ \A k \in 1..Len(q) : Append(q, e)[k] = q[k]
      BY <3>1, <3>2
    <3>4. ASSUME NEW k \in 1..Len(Append(q, e)) PROVE \E m \in 1..N : m \in Z /\ Append(q, e)[k] = w[m]
      <4>1. CASE k \in 1..Len(q)
        BY <2>3, <3>3, <4>1 DEF q
      <4>2. CASE k = Len(q) + 1
        BY <2>1, <2>4, <3>3, <4>2 DEF e
      <4> QED BY <3>2, <3>3, <4>1, <4>2
    <3>5. Ok(Append(q, e))
      BY <3>3, <3>4
    <3> HIDE DEF Ok
    <3>6. c[n + 1] = Append(q, e)
      BY <2>2, <2>4 DEF q, e
    <3>7. n + 1 \in Nat
      BY <1>1, <2>1
    <3> QED BY <3>5, <3>6, <3>7
  <2>5. CASE n + 1 \notin Z
    <3> HIDE DEF Ok, Z, w
    <3> QED BY <1>10, <2>2, <2>3, <2>5
  <2> QED BY <2>4, <2>5
<1>11. \A n \in 0..N : n \in P
  <2> HIDE DEF P, N
  <2> QED BY <1>1, <1>9, <1>10, IntervalInduction
<1>12. Ok(c[N])
  <2> HIDE DEF Ok
  <2> QED BY <1>1, <1>11
<1>13. \A m \in 1..N : (m \in Z <=> IsPrefix(stem, names[m])) /\ w[m] = before \o names[m]
  OBVIOUS
<1> HIDE DEF w, Z
<1> QED BY <1>7, <1>12, <1>13

\* What Tab finds for a line.
Many(text) == Cardinality(Starts(text)) > 1

Stem(text) == IF Many(text) THEN SubSeq(text, Max(Starts(text)), Len(text))
              ELSE IF text[1] = BLANK THEN <<>> ELSE text

Before(text) == SubSeq(text, 1, Max(Starts(text)) - 1)

Found(text) == IF Many(text) THEN Completions(userPrograms, Stem(text), Before(text))
               ELSE Completions(commands, Stem(text), <<>>)

\* A line whose first argument is a command executes.
LEMMA CommandExecutes ==
  ASSUME NEW s, Starts(s) # {}, FirstArg(s) \in Range(commands)
  PROVE  execute_command(s) # <<>>
<1>1. \A n \in DOMAIN commands : commands[n] # <<>>
  BY EditorAssumption DEF Name
<1>2. FirstArg(s) # <<>>
  BY <1>1 DEF Range
<1> QED BY <1>2 DEF execute_command

\* What Tab finds executes, and is as long as the line if that has no blank in front.
LEMMA FoundExecutes ==
  ASSUME NEW s \in Line, s # <<>>, Many(s) => FirstArg(s) \in TakesProgram
  PROVE  /\ Found(s) \in Seq(Line)
         /\ \A k \in 1..Len(Found(s)) :
              /\ execute_command(Found(s)[k]) # <<>>
              /\ s[1] # BLANK => Len(Found(s)[k]) >= Len(s)
         /\ Many(s) => Max(Starts(s)) \in 1..Len(s)
<1>1. /\ commands \in Seq(Name) /\ userPrograms \in Seq(Name) /\ TakesProgram \subseteq Range(commands)
      /\ Len(s) \in Nat /\ <<>> \in Line
  BY EditorAssumption, PrintableNotNul
<1>2. CASE Many(s)
  <2> DEFINE x == Max(Starts(s))
             stem == SubSeq(s, x, Len(s))
             before == SubSeq(s, 1, x - 1)
             list == Completions(userPrograms, stem, before)
  <2>1. x \in 1..Len(s)
    BY <1>2, SecondStarts DEF Many
  <2>2. Found(s) = list
    BY <1>2 DEF Found, Stem, Before
  <2> HIDE DEF x
  <2>3. stem \in Line /\ Len(stem) = Len(s) - x + 1
    BY <1>1, <2>1, LinePart
  <2>4. before \in Line /\ Len(before) = x - 1
    <3> DEFINE k == x - 1
    <3>1. k \in Nat /\ 1 \in Nat /\ 1 <= 1 /\ 1 <= k + 1 /\ k <= Len(s)
      BY <1>1, <2>1
    <3> HIDE DEF k
    <3>2. SubSeq(s, 1, k) \in Line /\ Len(SubSeq(s, 1, k)) = k - 1 + 1
      BY ONLY s \in Line, <3>1, LinePart
    <3> QED BY <3>1, <3>2 DEF k
  <2> HIDE DEF stem
  <2>5. /\ list \in Seq(Line)
        /\ \A k \in 1..Len(list) : \E m \in 1..Len(userPrograms) :
             IsPrefix(stem, userPrograms[m]) /\ list[k] = before \o userPrograms[m]
    <3> HIDE DEF before
    <3> QED BY <1>1, <2>3, <2>4, CompletionsFound
  <2> HIDE DEF list
  <2>6. ASSUME NEW k \in 1..Len(list)
        PROVE  execute_command(list[k]) # <<>> /\ Len(list[k]) >= Len(s)
    <3>1. PICK m \in 1..Len(userPrograms) : IsPrefix(stem, userPrograms[m]) /\ list[k] = before \o userPrograms[m]
      BY <2>5
    <3> DEFINE p == userPrograms[m]
    <3>2. p \in Line
      <4>1. p \in Name
        BY <1>1
      <4> QED BY <4>1, NameIsLine
    <3>3. Len(stem) <= Len(p)
      BY <3>1 DEF IsPrefix
    <3> HIDE DEF p
    <3>4. Starts(list[k]) # {} /\ FirstArg(list[k]) = FirstArg(s)
      BY <1>2, <3>1, <3>2, FirstArgKept DEF Many, x, p
    <3>5. execute_command(list[k]) # <<>>
      BY <1>1, <1>2, <3>4, CommandExecutes
    <3>6. Len(list[k]) = Len(before) + Len(p) /\ Len(p) \in Nat
      <4> HIDE DEF before
      <4>1. before \in Seq(Printable) /\ p \in Seq(Printable)
        BY <2>4, <3>2, PrintableNotNul
      <4>2. Len(before \o p) = Len(before) + Len(p) /\ Len(p) \in Nat
        BY <4>1, ConcatProperties
      <4>3. list[k] = before \o p
        BY <3>1 DEF p
      <4> QED BY <4>2, <4>3
    <3>7. Len(list[k]) >= Len(s)
      BY <1>1, <2>1, <2>3, <2>4, <3>3, <3>6
    <3> QED BY <3>5, <3>7
  <2> QED BY <2>1, <2>2, <2>5, <2>6 DEF x
<1>3. CASE ~Many(s)
  <2> DEFINE stem == IF s[1] = BLANK THEN <<>> ELSE s
             list == Completions(commands, stem, <<>>)
  <2>1. Found(s) = list
    BY <1>3 DEF Found, Stem
  <2>2. stem \in Line
    BY <1>1
  <2>3. s[1] # BLANK => stem = s
    OBVIOUS
  <2> HIDE DEF stem
  <2>4. /\ list \in Seq(Line)
        /\ \A k \in 1..Len(list) : \E m \in 1..Len(commands) :
             IsPrefix(stem, commands[m]) /\ list[k] = <<>> \o commands[m]
    BY <1>1, <2>2, CompletionsFound
  <2> HIDE DEF list
  <2>5. ASSUME NEW k \in 1..Len(list)
        PROVE  execute_command(list[k]) # <<>> /\ (s[1] # BLANK => Len(list[k]) >= Len(s))
    <3>1. PICK m \in 1..Len(commands) : IsPrefix(stem, commands[m]) /\ list[k] = <<>> \o commands[m]
      BY <2>4
    <3> DEFINE p == commands[m]
    <3>2. p \in Name /\ p \in Range(commands)
      BY <1>1 DEF Range
    <3>3. Len(stem) <= Len(p)
      BY <3>1 DEF IsPrefix
    <3> HIDE DEF p
    <3>4. p \in Line /\ p \in Seq(Printable)
      BY <3>2, NameIsLine, PrintableNotNul
    <3>5. list[k] = p
      BY <3>1, <3>4, ConcatEmptySeq DEF p
    <3>6. execute_command(p) # <<>>
      BY <3>2, NameIsFirst, CommandExecutes
    <3>7. s[1] # BLANK => Len(p) >= Len(s)
      BY <1>1, <2>3, <3>3, <3>4
    <3> QED BY <3>5, <3>6, <3>7
  <2> QED BY <1>3, <2>1, <2>4, <2>5
<1> QED BY <1>2, <1>3

-----------------------------------------------------------------------------
(* The keys *)

\* The line and the cursor.
LineInv ==
  /\ buf \in Buffers /\ i \in Nat /\ lastIndex \in Nat /\ inserted \in Nat /\ typed \in Line
  /\ i <= inserted /\ lastIndex <= inserted
  /\ ~moved => i = Len(typed) /\ i < COMMAND_BUFLEN /\ buf = Loaded(typed)

\* The completions of the last Tab.
ListInv ==
  /\ PrefixList \in Seq(Line) /\ prefix_list_size \in Nat /\ prefix_list_idx \in Nat
  /\ \A n \in 1..Len(PrefixList) : execute_command(PrefixList[n]) # <<>>

\* A completion on the line.
TabInv == afterTab /\ i > 0 /\ prefix_list_size > 0 /\ ~moved => execute_command(typed) # <<>>

\* The history and the line entered last.
HistoryInv == history \in Seq(Line) /\ EnteredIsTyped /\ LastIsRecalled

EditorInv == LineInv /\ ListInv /\ TabInv /\ HistoryInv

\* The end of the line is behind the cursor, and counts insertions at most.
LEMMA EndIs ==
  ASSUME LineInv
  PROVE  End \in Nat /\ End >= i /\ End <= inserted
BY DEF LineInv, End

\* Nothing but lastIndex is set.
LEMMA StayLine ==
  ASSUME LineInv, lastIndex' = End, UNCHANGED <<buf, i, typed, moved, inserted>>
  PROVE  LineInv'
BY EndIs DEF LineInv

\* A line recalled or completed.
LEMMA LoadLine ==
  ASSUME NEW s \in Line, Load(s)
  PROVE  LineInv' /\ typed' = s /\ i' = Len(s)
<1>1. buf' = Loaded(s) /\ i' = Len(s) /\ lastIndex' = Len(s) /\ typed' = s /\ inserted' = Len(s)
  BY DEF Load
<1>2. Len(s) \in Nat /\ Loaded(s) \in Buffers /\ COMMAND_BUFLEN \in Nat
  BY PrintableNotNul, LoadedIsBytes, EditorAssumption
<1>3. ~moved' => Len(s) < COMMAND_BUFLEN
  <2>1. ~moved' => ~(Len(s) >= COMMAND_BUFLEN)
    BY Zenon DEF Load
  <2> QED BY <1>2, <2>1
<1> QED BY <1>1, <1>2, <1>3 DEF LineInv

\* A character inserted at the cursor.
LEMMA InsertLine ==
  ASSUME LineInv, NEW c \in Printable, Insert(c), ~moved' => ~moved
  PROVE  LineInv'
<1>1. CASE i < COMMAND_BUFLEN - 1
  <2>1. /\ buf' = [buf EXCEPT ![i] = c] /\ i' = i + 1 /\ lastIndex' = End + 1
        /\ typed' = Append(typed, c) /\ inserted' = inserted + 1
    BY <1>1 DEF Insert
  <2>2. buf' \in Buffers /\ typed' \in Line
    <3>1. typed \in Seq(Printable)
      BY PrintableNotNul DEF LineInv
    <3>2. Append(typed, c) \in Seq(Printable)
      BY <3>1
    <3>3. buf' \in Buffers
      BY <2>1 DEF LineInv, Buffers
    <3> QED BY <2>1, <3>2, <3>3, PrintableNotNul
  <2>3. ASSUME ~moved PROVE i' = Len(typed') /\ i' < COMMAND_BUFLEN /\ buf' = Loaded(typed')
    <3>1. i = Len(typed) /\ buf = Loaded(typed) /\ typed \in Line /\ i \in Nat /\ COMMAND_BUFLEN \in Nat
      BY <2>3, EditorAssumption DEF LineInv
    <3>2. Len(Append(typed, c)) = Len(typed) + 1 /\ [Loaded(typed) EXCEPT ![Len(typed)] = c] = Loaded(Append(typed, c))
      BY <1>1, <3>1, LoadedAppend
    <3> QED BY <1>1, <2>1, <3>1, <3>2
  <2>4. i' \in Nat /\ lastIndex' \in Nat /\ inserted' \in Nat /\ i' <= inserted' /\ lastIndex' <= inserted'
    BY <2>1, EndIs DEF LineInv
  <2> QED BY <2>2, <2>3, <2>4 DEF LineInv
<1>2. CASE ~(i < COMMAND_BUFLEN - 1)
  <2>1. lastIndex' = End /\ UNCHANGED <<buf, i, typed, inserted>>
    BY <1>2 DEF Insert
  <2> QED BY <2>1, EndIs DEF LineInv
<1> QED BY <1>1, <1>2

\* Backspace.
LEMMA BackspaceLine ==
  ASSUME LineInv, Backspace
  PROVE  LineInv'
<1>1. lastIndex' = End /\ moved' = moved /\ inserted' = inserted
  BY DEF Backspace
<1>2. CASE i > 0
  <2>1. buf' = [buf EXCEPT ![i - 1] = At(buf, i)] /\ i' = i - 1
        /\ typed' = IF typed = <<>> THEN typed ELSE Front(typed)
    BY <1>2 DEF Backspace
  <2>2. buf' \in Buffers
    <3>1. At(buf, i) \in Printable \cup {NUL}
      BY PrintableNotNul, EditorAssumption DEF At, LineInv, Buffers
    <3> QED BY <2>1, <3>1 DEF LineInv, Buffers
  <2>3. typed' \in Line
    <3>1. typed \in Seq(Printable)
      BY PrintableNotNul DEF LineInv
    <3>2. typed # <<>> => Front(typed) \in Seq(Printable)
      BY <3>1 DEF Front
    <3> QED BY <2>1, <3>1, <3>2, PrintableNotNul
  <2>4. ASSUME ~moved PROVE i' = Len(typed') /\ i' < COMMAND_BUFLEN /\ buf' = Loaded(typed')
    <3>1. /\ i = Len(typed) /\ i < COMMAND_BUFLEN /\ buf = Loaded(typed)
          /\ typed \in Line /\ i \in Nat /\ COMMAND_BUFLEN \in Nat
      BY <2>4, EditorAssumption DEF LineInv
    <3>2. /\ typed # <<>> /\ Len(Front(typed)) = Len(typed) - 1
          /\ At(Loaded(typed), Len(typed)) = NUL
          /\ [Loaded(typed) EXCEPT ![Len(typed) - 1] = NUL] = Loaded(Front(typed))
      BY <1>2, <3>1, LoadedFront
    <3>3. typed' = Front(typed) /\ buf' = Loaded(Front(typed))
      BY <2>1, <3>1, <3>2
    <3>4. i' < COMMAND_BUFLEN /\ i' = Len(typed) - 1
      BY <2>1, <3>1
    <3> QED BY <3>2, <3>3, <3>4
  <2>5. i' \in Nat /\ lastIndex' \in Nat /\ inserted' \in Nat /\ i' <= inserted' /\ lastIndex' <= inserted'
    BY <1>1, <1>2, <2>1, EndIs DEF LineInv
  <2> QED BY <1>1, <2>2, <2>3, <2>4, <2>5 DEF LineInv
<1>3. CASE ~(i > 0)
  <2>1. UNCHANGED <<buf, i, typed>>
    BY <1>3 DEF Backspace
  <2> QED BY <1>1, <2>1, StayLine
<1> QED BY <1>2, <1>3

\* DEL.
LEMMA DelLine ==
  ASSUME LineInv, Del
  PROVE  LineInv'
<1>1. CASE i > 0
  <2>1. /\ buf' = [n \in 0..COMMAND_BUFLEN - 1 |-> IF n \in i..End THEN At(buf, n + 1) ELSE buf[n]]
        /\ lastIndex' = End - 1 /\ i' = i /\ typed' = typed /\ inserted' = inserted
    BY <1>1 DEF Del
  <2>2. End \in Nat /\ End >= i /\ End <= inserted /\ i \in Nat
    BY EndIs DEF LineInv
  <2>3. buf' \in Buffers
    <3>1. ASSUME NEW n \in 0..COMMAND_BUFLEN - 1
          PROVE  (IF n \in i..End THEN At(buf, n + 1) ELSE buf[n]) \in Printable \cup {NUL}
      <4>1. buf[n] \in Printable \cup {NUL}
        BY DEF LineInv, Buffers
      <4>2. At(buf, n + 1) \in Printable \cup {NUL}
        <5>1. CASE n + 1 < COMMAND_BUFLEN
          <6>1. n + 1 \in 0..COMMAND_BUFLEN - 1
            BY <5>1, EditorAssumption
          <6> QED BY <5>1, <6>1 DEF At, LineInv, Buffers
        <5>2. CASE ~(n + 1 < COMMAND_BUFLEN)
          BY <5>2, PrintableNotNul DEF At
        <5> QED BY <5>1, <5>2
      <4> QED BY <4>1, <4>2
    <3> QED BY <2>1, <3>1 DEF Buffers
  <2>4. ASSUME ~moved' PROVE i' = Len(typed') /\ i' < COMMAND_BUFLEN /\ buf' = Loaded(typed')
    <3>1. ~moved /\ ~(End + 1 >= COMMAND_BUFLEN)
      BY <1>1, <2>4, Zenon DEF Del
    <3>2. i = Len(typed) /\ i < COMMAND_BUFLEN /\ buf = Loaded(typed) /\ typed \in Line /\ COMMAND_BUFLEN \in Nat
      BY <3>1, EditorAssumption DEF LineInv
    <3>3. End >= Len(typed) /\ End + 1 < COMMAND_BUFLEN
      BY <2>2, <3>1, <3>2
    <3>4. [n \in 0..COMMAND_BUFLEN - 1 |-> IF n \in Len(typed)..End THEN At(Loaded(typed), n + 1) ELSE Loaded(typed)[n]]
          = Loaded(typed)
      BY <2>2, <3>2, <3>3, LoadedClosed
    <3> QED BY <2>1, <3>2, <3>4
  <2>5. i' \in Nat /\ lastIndex' \in Nat /\ inserted' \in Nat /\ i' <= inserted' /\ lastIndex' <= inserted'
    BY <1>1, <2>1, <2>2 DEF LineInv
  <2> QED BY <2>1, <2>3, <2>4, <2>5 DEF LineInv
<1>2. CASE ~(i > 0)
  <2>1. Insert(DEL_CHAR) /\ moved'
    BY <1>2 DEF Del
  <2> QED BY <2>1, InsertLine, PrintableNotNul
<1> QED BY <1>1, <1>2

\* The cursor keys.
LEMMA MoveLine ==
  ASSUME LineInv, Left \/ Right
  PROVE  LineInv'
<1>1. lastIndex' = End /\ UNCHANGED <<buf, typed, inserted>>
  BY DEF Left, Right
<1>2. i' \in Nat /\ i' <= inserted
  BY EndIs DEF Left, Right, LineInv
<1>3. ASSUME ~moved' PROVE ~moved /\ i' = i
  <2>1. CASE Left
    <3>1. ~moved /\ ~(i > 0)
      BY <1>3, <2>1, Zenon DEF Left
    <3> QED BY <2>1, <3>1 DEF Left
  <2>2. CASE Right
    <3>1. ~moved /\ ~(i < End)
      BY <1>3, <2>2, Zenon DEF Right
    <3> QED BY <2>2, <3>1 DEF Right
  <2> QED BY <2>1, <2>2
<1> QED BY <1>1, <1>2, <1>3, EndIs DEF LineInv

\* The cases of the first Tab.
LEMMA FirstTabCases ==
  ASSUME LineInv, FirstTab
  PROVE  LET s == String(buf)
             x == Max(Starts(s))
             cut == IF Many(s) THEN [buf EXCEPT ![x - 1] = NUL] ELSE buf
             full == Over(cut, Found(s)[1])
         IN  \/ /\ PrefixList' = <<>> /\ prefix_list_size' \in {0, prefix_list_size}
                /\ lastIndex' = End
                /\ UNCHANGED <<buf, i, prefix_list_idx, typed, moved, inserted, afterTab>>
             \/ /\ s # <<>> /\ (Many(s) => FirstArg(s) \in TakesProgram)
                /\ PrefixList' = Found(s) /\ prefix_list_size' = Len(Found(s))
                /\ \/ /\ Found(s) = <<>> /\ buf' = cut /\ lastIndex' = End
                      /\ (moved' <=> moved \/ Many(s))
                      /\ UNCHANGED <<i, prefix_list_idx, typed, inserted>>
                   \/ /\ Found(s) # <<>> /\ buf' = full
                      /\ i' = strlen(full) /\ lastIndex' = strlen(full)
                      /\ prefix_list_idx' = 0
                      /\ typed' = Found(s)[1] /\ inserted' = strlen(full)
                      /\ (moved' <=> moved \/ s[1] = BLANK \/ Len(Found(s)[1]) >= COMMAND_BUFLEN)
BY Zenon DEF FirstTab, Found, Stem, Before, Many

\* The first Tab.
LEMMA FirstTabKeeps ==
  ASSUME LineInv, ListInv, ~afterTab, FirstTab
  PROVE  LineInv' /\ ListInv' /\ TabInv'
<1> DEFINE s == String(buf)
           x == Max(Starts(s))
           cut == IF Many(s) THEN [buf EXCEPT ![x - 1] = NUL] ELSE buf
           list == Found(s)
           full == Over(cut, list[1])
<1>1. s \in Line /\ buf \in Buffers /\ COMMAND_BUFLEN \in Nat
  BY StringIsLine, EditorAssumption DEF LineInv
<1>2. CASE /\ PrefixList' = <<>> /\ prefix_list_size' \in {0, prefix_list_size}
           /\ lastIndex' = End
           /\ UNCHANGED <<buf, i, prefix_list_idx, typed, moved, inserted, afterTab>>
  <2>1. LineInv'
    BY <1>2, StayLine
  <2>2. ListInv'
    BY <1>2 DEF ListInv
  <2>3. TabInv'
    BY <1>2 DEF TabInv
  <2> QED BY <2>1, <2>2, <2>3
<1>3. CASE /\ s # <<>> /\ (Many(s) => FirstArg(s) \in TakesProgram)
           /\ PrefixList' = list /\ prefix_list_size' = Len(list)
           /\ \/ /\ list = <<>> /\ buf' = cut /\ lastIndex' = End
                 /\ (moved' <=> moved \/ Many(s))
                 /\ UNCHANGED <<i, prefix_list_idx, typed, inserted>>
              \/ /\ list # <<>> /\ buf' = full
                 /\ i' = strlen(full) /\ lastIndex' = strlen(full)
                 /\ prefix_list_idx' = 0
                 /\ typed' = list[1] /\ inserted' = strlen(full)
                 /\ (moved' <=> moved \/ s[1] = BLANK \/ Len(list[1]) >= COMMAND_BUFLEN)
  <2>1. /\ list \in Seq(Line)
        /\ \A k \in 1..Len(list) :
             execute_command(list[k]) # <<>> /\ (s[1] # BLANK => Len(list[k]) >= Len(s))
        /\ Many(s) => x \in 1..Len(s)
    BY <1>1, <1>3, FoundExecutes
  <2>2. cut \in Buffers /\ \A n \in 0..COMMAND_BUFLEN - 1 : cut[n] \in {buf[n], NUL}
    BY <1>1 DEF Buffers
  <2> HIDE DEF s, list, cut, full
  <2>3. Len(list) \in Nat
    BY <2>1
  <2>4. CASE /\ list = <<>> /\ buf' = cut /\ lastIndex' = End
             /\ (moved' <=> moved \/ Many(s))
             /\ UNCHANGED <<i, prefix_list_idx, typed, inserted>>
    <3>1. ~moved' => ~moved /\ buf' = buf
      BY <2>4 DEF cut
    <3>2. LineInv'
      BY <2>2, <2>4, <3>1, EndIs DEF LineInv
    <3>3. ListInv'
      BY <1>3, <2>1, <2>3, <2>4 DEF ListInv
    <3>4. TabInv'
      BY <1>3, <2>4 DEF TabInv
    <3> QED BY <3>2, <3>3, <3>4
  <2>5. CASE /\ list # <<>> /\ buf' = full
             /\ i' = strlen(full) /\ lastIndex' = strlen(full)
             /\ prefix_list_idx' = 0
             /\ typed' = list[1] /\ inserted' = strlen(full)
             /\ (moved' <=> moved \/ s[1] = BLANK \/ Len(list[1]) >= COMMAND_BUFLEN)
    <3>1. 1 \in 1..Len(list) /\ list[1] \in Line
      BY <2>1, <2>5
    <3>2. full \in Buffers
      BY <2>2, <3>1, OverIsBytes DEF full
    <3>3. strlen(full) \in Nat
      BY <1>1, <3>2, Strlen
    <3>4. ASSUME ~moved' PROVE strlen(full) = Len(list[1]) /\ Len(list[1]) < COMMAND_BUFLEN /\ full = Loaded(list[1])
      <4>1. ~moved /\ s[1] # BLANK /\ ~(Len(list[1]) >= COMMAND_BUFLEN)
        BY <2>5, <3>4
      <4>2. Len(list[1]) < COMMAND_BUFLEN /\ Len(list[1]) \in Nat
        BY <1>1, <3>1, <4>1, PrintableNotNul
      <4>3. buf = Loaded(typed) /\ typed \in Line /\ Len(typed) < COMMAND_BUFLEN /\ Len(typed) \in Nat
        BY <4>1 DEF LineInv
      <4>4. s = typed
        BY <4>3, LoadedString DEF s
      <4>5. Len(list[1]) >= Len(typed)
        BY <2>1, <3>1, <4>1, <4>4
      <4>6. \A n \in 0..COMMAND_BUFLEN - 1 : n >= Len(list[1]) => cut[n] = NUL
        <5>1. ASSUME NEW n \in 0..COMMAND_BUFLEN - 1, n >= Len(list[1]) PROVE cut[n] = NUL
          <6>1. ~(n < Len(typed))
            BY <1>1, <4>2, <4>3, <4>5, <5>1
          <6>2. buf[n] = NUL
            BY <4>3, <6>1, LoadedIsBytes
          <6> QED BY <2>2, <6>2
        <5> QED BY <5>1
      <4>7. full = Loaded(list[1])
        BY <2>2, <3>1, <4>6, OverIsLoaded DEF full
      <4>8. strlen(Loaded(list[1])) = Len(list[1])
        BY <3>1, <4>2, LoadedString
      <4> QED BY <4>2, <4>7, <4>8
    <3>5. LineInv'
      BY <2>5, <3>1, <3>2, <3>3, <3>4 DEF LineInv
    <3>6. ListInv'
      BY <1>3, <2>1, <2>3, <2>5 DEF ListInv
    <3>7. TabInv'
      BY <2>1, <2>5, <3>1 DEF TabInv
    <3> QED BY <3>5, <3>6, <3>7
  <2> QED BY <1>3, <2>4, <2>5
<1> QED BY <1>2, <1>3, FirstTabCases

\* A further Tab.
LEMMA NextTabKeeps ==
  ASSUME LineInv, ListInv, TabInv, NextTab
  PROVE  LineInv' /\ ListInv' /\ TabInv'
<1>1. PrefixList' = PrefixList /\ prefix_list_size' = prefix_list_size /\ afterTab' = afterTab
  BY DEF NextTab
<1>2. CASE prefix_list_size > 0
  <2> DEFINE s == IF prefix_list_idx' < Len(PrefixList) THEN PrefixList[prefix_list_idx' + 1] ELSE <<>>
  <2>1. prefix_list_idx' = (prefix_list_idx + 1) % prefix_list_size /\ Load(s)
    BY <1>2 DEF NextTab
  <2>2. prefix_list_idx' \in Nat
    BY <1>2, <2>1 DEF ListInv
  <2>3. s \in Line /\ (s # <<>> => execute_command(s) # <<>>)
    <3>1. CASE prefix_list_idx' < Len(PrefixList)
      <4>1. prefix_list_idx' + 1 \in 1..Len(PrefixList) /\ PrefixList \in Seq(Line)
        <5>1. PrefixList \in Seq(Line)
          BY DEF ListInv
        <5>2. Len(PrefixList) \in Nat
          BY <5>1
        <5>3. \A a, b \in Nat : a < b => a + 1 \in 1..b
          OBVIOUS
        <5> QED BY <2>2, <3>1, <5>1, <5>2, <5>3
      <4>2. PrefixList[prefix_list_idx' + 1] \in Line
        BY <4>1
      <4>3. execute_command(PrefixList[prefix_list_idx' + 1]) # <<>>
        BY <4>1 DEF ListInv
      <4> QED BY <3>1, <4>2, <4>3
    <3>2. CASE ~(prefix_list_idx' < Len(PrefixList))
      <4>1. <<>> \in Line
        BY PrintableNotNul
      <4> QED BY <3>2, <4>1
    <3> QED BY <3>1, <3>2
  <2> HIDE DEF s
  <2>4. LineInv' /\ typed' = s /\ i' = Len(s)
    BY <2>1, <2>3, LoadLine
  <2>5. ListInv'
    BY <1>1, <2>2 DEF ListInv
  <2>6. Len(<<>>) = 0
    OBVIOUS
  <2>7. TabInv'
    BY <2>3, <2>4, <2>6 DEF TabInv
  <2> QED BY <2>4, <2>5, <2>7
<1>3. CASE ~(prefix_list_size > 0)
  <2>1. lastIndex' = End /\ UNCHANGED <<buf, i, prefix_list_idx, typed, moved, inserted>>
    BY <1>3 DEF NextTab
  <2> QED BY <1>1, <2>1, StayLine DEF ListInv, TabInv
<1> QED BY <1>2, <1>3

\* What Enter hands over and records.
LEMMA EnterKeeps ==
  ASSUME LineInv, ListInv, HistoryInv, Enter
  PROVE  LineInv' /\ ListInv' /\ TabInv' /\ HistoryInv'
<1> DEFINE text == String(Terminated)
<1>1. /\ history' = Recorded(text) /\ PrefixList' = PrefixList
      /\ entered' = [line |-> text, typed |-> typed, moved |-> moved]
      /\ buf' = Loaded(<<>>) /\ i' = 0 /\ lastIndex' = 0 /\ typed' = <<>> /\ inserted' = 0
      /\ prefix_list_idx' = 0 /\ prefix_list_size' \in 0..2
  BY DEF Enter, Prompt
<1>2. LineInv'
  <2>1. <<>> \in Line /\ Len(<<>>) = 0 /\ 0 < COMMAND_BUFLEN
    BY PrintableNotNul, EditorAssumption
  <2>2. Loaded(<<>>) \in Buffers
    BY <2>1, LoadedIsBytes
  <2> QED BY <1>1, <2>1, <2>2 DEF LineInv
<1>3. ListInv' /\ TabInv'
  <2>1. prefix_list_size' \in Nat
    BY <1>1
  <2> QED BY <1>1, <2>1 DEF ListInv, TabInv
<1>4. End \in Nat /\ End >= i
  BY EndIs
<1>5. Terminated \in Buffers
  BY DEF Terminated, LineInv, Buffers
<1>6. text \in Line
  BY <1>5, StringIsLine
<1>7. ~moved => text = typed
  <2> SUFFICES ASSUME ~moved PROVE text = typed
    OBVIOUS
  <2>1. buf = Loaded(typed) /\ typed \in Line /\ i = Len(typed) /\ i < COMMAND_BUFLEN
    BY DEF LineInv
  <2>2. Terminated = buf
    <3>1. CASE End < COMMAND_BUFLEN
      <4>1. [Loaded(typed) EXCEPT ![End] = NUL] = Loaded(typed)
        BY <1>4, <2>1, <3>1, LoadedTerminated
      <4> QED BY <2>1, <3>1, <4>1 DEF Terminated
    <3>2. CASE ~(End < COMMAND_BUFLEN)
      BY <3>2 DEF Terminated
    <3> QED BY <3>1, <3>2
  <2> QED BY <2>1, <2>2, LoadedString
<1> HIDE DEF text
<1>8. EnteredIsTyped'
  BY <1>1, <1>7 DEF EnteredIsTyped
<1>9. history \in Seq(Line) /\ Len(history) \in Nat /\ HISTORY_MAX \in Nat
  BY EditorAssumption DEF HistoryInv
<1>10. ASSUME NEW h \in Seq(Line)
       PROVE  Append(h, text) \in Seq(Line) /\ Append(h, text) # <<>> /\ Last(Append(h, text)) = text
  <2>1. /\ Append(h, text) \in Seq(Line) /\ Len(Append(h, text)) = Len(h) + 1
        /\ Append(h, text)[Len(h) + 1] = text /\ Len(h) \in Nat
    BY <1>6
  <2> QED BY <2>1 DEF Last
<1>11. history' \in Seq(Line) /\ IF history' = <<>> THEN text = <<>> ELSE Last(history') = text
  <2>1. CASE Len(history) = HISTORY_MAX + 1
    <3>1. history # <<>>
      BY <1>9, <2>1
    <3>2. Tail(history) \in Seq(Line)
      BY <1>9, <3>1
    <3>3. history' = Append(Tail(history), text)
      BY <1>1, <2>1 DEF Recorded
    <3> QED BY <1>10, <3>2, <3>3
  <2>2. CASE Len(history) # HISTORY_MAX + 1 /\ text = Entry(Len(history) - 1)
    <3>1. history' = history
      BY <1>1, <2>2 DEF Recorded
    <3>2. history = <<>> => Entry(Len(history) - 1) = <<>>
      BY DEF Entry
    <3>3. history # <<>> => Entry(Len(history) - 1) = Last(history)
      <4> SUFFICES ASSUME history # <<>> PROVE Entry(Len(history) - 1) = Last(history)
        OBVIOUS
      <4>1. Len(history) - 1 \in 0..Len(history) - 1 /\ (Len(history) - 1) + 1 = Len(history)
        BY <1>9
      <4> QED BY <4>1 DEF Entry, Last
    <3> QED BY <1>9, <2>2, <3>1, <3>2, <3>3
  <2>3. CASE Len(history) # HISTORY_MAX + 1 /\ text # Entry(Len(history) - 1)
    <3>1. history' = Append(history, text)
      BY <1>1, <2>3 DEF Recorded
    <3> QED BY <1>9, <1>10, <3>1
  <2> QED BY <2>1, <2>2, <2>3
<1>12. HistoryInv'
  BY <1>1, <1>8, <1>11 DEF HistoryInv, LastIsRecalled
<1> QED BY <1>2, <1>3, <1>12

\* An entry of the history, or the empty line.
LEMMA EntryIsLine ==
  ASSUME HistoryInv, NEW n
  PROVE  Entry(n) \in Line
<1>1. history \in Seq(Line) /\ Len(history) \in Nat /\ <<>> \in Line
  BY PrintableNotNul DEF HistoryInv
<1>2. CASE n \in 0..Len(history) - 1
  <2>1. n + 1 \in 1..Len(history)
    BY <1>1, <1>2
  <2>2. history[n + 1] \in Line
    BY <1>1, <2>1
  <2> QED BY <1>2, <2>2 DEF Entry
<1>3. CASE n \notin 0..Len(history) - 1
  BY <1>1, <1>3 DEF Entry
<1> QED BY <1>2, <1>3

\* The first prompt.
LEMMA EditorInitial == EditorInit => EditorInv
<1> SUFFICES ASSUME EditorInit PROVE EditorInv
  OBVIOUS
<1>1. <<>> \in Line /\ Len(<<>>) = 0 /\ 0 < COMMAND_BUFLEN
  BY PrintableNotNul, EditorAssumption
<1>2. Loaded(<<>>) \in Buffers
  BY <1>1, LoadedIsBytes
<1>3. LineInv
  BY <1>1, <1>2 DEF EditorInit, LineInv
<1>4. ListInv /\ TabInv
  <2>1. prefix_list_size \in Nat
    BY DEF EditorInit
  <2> QED BY <2>1 DEF EditorInit, ListInv, TabInv
<1>5. HistoryInv
  BY DEF EditorInit, HistoryInv, EnteredIsTyped, LastIsRecalled
<1> QED BY <1>3, <1>4, <1>5 DEF EditorInv

\* Every key keeps the invariant.
LEMMA EditorStep == EditorInv /\ [EditorNext]_editorvars => EditorInv'
<1> SUFFICES ASSUME EditorInv, [EditorNext]_editorvars PROVE EditorInv'
  OBVIOUS
<1>1. LineInv /\ ListInv /\ TabInv /\ HistoryInv
  BY DEF EditorInv
<1>2. ASSUME UNCHANGED <<history, entered>> PROVE HistoryInv'
  BY <1>1, <1>2 DEF HistoryInv, EnteredIsTyped, LastIsRecalled
<1>3. ASSUME UNCHANGED <<PrefixList, prefix_list_size, prefix_list_idx>> PROVE ListInv'
  BY <1>1, <1>3 DEF ListInv
<1>4. ASSUME afterTab' = FALSE PROVE TabInv'
  BY <1>4 DEF TabInv
<1>5. CASE Up
  <2>1. /\ Load(Entry(commandidx')) /\ afterTab' = FALSE
        /\ UNCHANGED <<history, PrefixList, prefix_list_size, prefix_list_idx, entered>>
    BY <1>5 DEF Up
  <2>2. LineInv'
    BY <1>1, <2>1, EntryIsLine, LoadLine
  <2> QED BY <1>2, <1>3, <1>4, <2>1, <2>2 DEF EditorInv
<1>6. CASE Down
  <2>1. afterTab' = FALSE /\ UNCHANGED <<history, PrefixList, prefix_list_size, prefix_list_idx, entered>>
    BY <1>6 DEF Down
  <2>2. \/ Load(Entry(commandidx'))
        \/ lastIndex' = End /\ UNCHANGED <<buf, i, typed, moved, inserted>>
    BY <1>6 DEF Down
  <2>3. LineInv'
    BY <1>1, <2>2, EntryIsLine, LoadLine, StayLine
  <2> QED BY <1>2, <1>3, <1>4, <2>1, <2>3 DEF EditorInv
<1>7. CASE Left \/ Right
  <2>1. afterTab' = FALSE /\ UNCHANGED <<history, PrefixList, prefix_list_size, prefix_list_idx, entered>>
    BY <1>7 DEF Left, Right
  <2> QED BY <1>1, <1>2, <1>3, <1>4, <1>7, <2>1, MoveLine DEF EditorInv
<1>8. CASE Del
  <2>1. afterTab' = FALSE /\ UNCHANGED <<history, PrefixList, prefix_list_size, prefix_list_idx, entered>>
    BY <1>8 DEF Del
  <2> QED BY <1>1, <1>2, <1>3, <1>4, <1>8, <2>1, DelLine DEF EditorInv
<1>9. CASE Backspace
  <2>1. afterTab' = FALSE /\ UNCHANGED <<history, PrefixList, prefix_list_size, prefix_list_idx, entered>>
    BY <1>9 DEF Backspace
  <2> QED BY <1>1, <1>2, <1>3, <1>4, <1>9, <2>1, BackspaceLine DEF EditorInv
<1>10. CASE Tab
  <2>1. UNCHANGED <<history, entered>> /\ ((afterTab /\ NextTab) \/ (~afterTab /\ FirstTab))
    BY <1>10 DEF Tab
  <2> QED BY <1>1, <1>2, <2>1, FirstTabKeeps, NextTabKeeps DEF EditorInv
<1>11. CASE Enter
  BY <1>1, <1>11, EnterKeeps DEF EditorInv
<1>12. ASSUME NEW c \in Letters, Type(c) PROVE EditorInv'
  <2>1. Insert(c) /\ moved' = moved /\ afterTab' = FALSE
        /\ UNCHANGED <<history, PrefixList, prefix_list_size, prefix_list_idx, entered>>
    BY <1>12 DEF Type
  <2>2. LineInv'
    BY <1>1, <2>1, InsertLine DEF Printable
  <2> QED BY <1>2, <1>3, <1>4, <2>1, <2>2 DEF EditorInv
<1>13. CASE UNCHANGED editorvars
  <2>1. UNCHANGED <<buf, i, lastIndex, typed, moved, inserted, afterTab, history,
                    PrefixList, prefix_list_size, prefix_list_idx, entered>>
    BY <1>13 DEF editorvars
  <2>2. LineInv'
    BY <1>1, <2>1 DEF LineInv
  <2>3. TabInv'
    BY <1>1, <2>1 DEF TabInv
  <2> QED BY <1>2, <1>3, <2>1, <2>2, <2>3 DEF EditorInv
<1> QED BY <1>5, <1>6, <1>7, <1>8, <1>9, <1>10, <1>11, <1>12, <1>13 DEF EditorNext, Rest

\* For a buffer, a history and tables of any size: through any sequence of keys the
\* buffer holds the line that was meant as long as it was edited at its end, and
\* Enter hands that line over; the cursor stays in the buffer until as many
\* characters as it has were inserted on one line.
THEOREM LineIsKept == EditorSpec => []LineIsMeant
<1>1. EditorInv => LineIsMeant
  <2> SUFFICES ASSUME EditorInv PROVE LineIsMeant
    OBVIOUS
  <2>1. LineInv /\ EnteredIsTyped
    BY DEF EditorInv, HistoryInv
  <2>2. LineIsTyped
    BY <2>1, LoadedString DEF LineInv, LineIsTyped
  <2>3. EndInBuffer
    BY <2>1, EditorAssumption DEF LineInv, EndInBuffer
  <2> QED BY <2>1, <2>2, <2>3 DEF LineIsMeant
<1> QED BY <1>1, EditorInitial, EditorStep, PTL DEF EditorSpec

\* The newest entry of the history is the line entered last, and a completion that
\* was not edited is a command of the table.
THEOREM RecallIsExact == EditorSpec => []RecallExecutes
<1>1. EditorInv => RecallExecutes
  <2> SUFFICES ASSUME EditorInv PROVE RecallExecutes
    OBVIOUS
  <2>1. LineInv /\ TabInv /\ LastIsRecalled
    BY DEF EditorInv, HistoryInv
  <2>2. ~moved => String(buf) = typed
    BY <2>1, LoadedString DEF LineInv
  <2>3. CompletionExecutes
    BY <2>1, <2>2 DEF TabInv, CompletionExecutes
  <2> QED BY <2>1, <2>3 DEF RecallExecutes
<1> QED BY <1>1, EditorInitial, EditorStep, PTL DEF EditorSpec

=============================================================================
