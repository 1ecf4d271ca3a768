------------------------------ MODULE CString ------------------------------
(***************************************************************************)
(* lib/string.c, shared by the kernel and the programs.  Memory is a       *)
(* function from addresses to bytes, a string the address of its first     *)
(* byte; a routine that writes maps the memory before to the memory after. *)
(* A loop is a recursive function of the number of rounds, in the order of *)
(* the code's reads and writes.                                            *)
(*                                                                         *)
(* Bytes are small numbers, and 0 ends a string.  The routines at the end, *)
(* which tell characters apart, take strings as sequences.                 *)
(***************************************************************************)
EXTENDS Integers, Sequences

CONSTANT
  WORD    \* 2 ^ (number of bits of a long)

NUL == 0

\* Memory cells touched by a routine: writes of bytes v from address a on.
Write(m, a, v) == [x \in DOMAIN m |-> IF x \in a..(a + Len(v) - 1) THEN v[x - a + 1] ELSE m[x]]

\* A long holds n as one of -WORD/2 .. WORD/2 - 1.
Long(n) == ((n + WORD \div 2) % WORD) - WORD \div 2

-----------------------------------------------------------------------------

strnlen(m, s, size) ==
  LET n[k \in 0..size] == IF k = size \/ m[s + k] = NUL THEN k ELSE n[k + 1]
  IN  n[0]

strlen(m, s) ==
  LET n[k \in Nat] == IF m[s + k] = NUL THEN k ELSE n[k + 1]
  IN  n[0]

\* The bytes before the one that ends the string.
Text(m, s) == [i \in 1..strlen(m, s) |-> m[s + i - 1]]

\* Copied upwards: dst is not inside the text of src.
strcpy(m, dst, src) == Write(m, dst, Append(Text(m, src), NUL))

\* src stays on the byte that ends the string.
strncpy(m, dst, src, size) ==
  LET copy[i \in 0..size] ==
        IF i = 0 THEN [mem |-> m, src |-> src]
        ELSE LET c   == copy[i - 1]
                 mem == [c.mem EXCEPT ![dst + i - 1] = c.mem[c.src]]
             IN  [mem |-> mem, src |-> IF mem[c.src] # NUL THEN c.src + 1 ELSE c.src]
  IN  copy[size].mem

\* Mutant of strlcpy: the byte that ends the string is not counted in size.
strlcpy_size(m, dst, src, size) ==
  LET n == strnlen(m, src, size)
  IN  IF size = 0 THEN [mem |-> m, ret |-> 0]
      ELSE [mem |-> Write(m, dst, [i \in 1..(n + 1) |-> IF i > n THEN NUL ELSE m[src + i - 1]]),
            ret |-> n]

\* At most size - 1 bytes and the end; the strings do not overlap.
strlcpy(m, dst, src, size) ==
  LET n == strnlen(m, src, size - 1)
  IN  IF size = 0 THEN [mem |-> m, ret |-> 0]
      ELSE [mem |-> Write(m, dst, [i \in 1..(n + 1) |-> IF i > n THEN NUL ELSE m[src + i - 1]]),
            ret |-> n]

\* The difference of the first bytes that differ, or of the two ends.
strcmp(m, p, q) ==
  LET cmp[k \in Nat] == IF m[p + k] # NUL /\ m[p + k] = m[q + k] THEN cmp[k + 1]
                        ELSE m[p + k] - m[q + k]
  IN  cmp[0]

\* Mutant of strncmp: one byte more is compared.
strncmp_more(m, p, q, n) ==
  LET cmp[k \in 0..n] == IF k = n THEN m[p + k] - m[q + k]
                         ELSE IF m[p + k] # NUL /\ m[p + k] = m[q + k] THEN cmp[k + 1]
                         ELSE m[p + k] - m[q + k]
  IN  cmp[0]

strncmp(m, p, q, n) ==
  LET cmp[k \in 0..n] == IF k = n THEN 0
                         ELSE IF m[p + k] # NUL /\ m[p + k] = m[q + k] THEN cmp[k + 1]
                         ELSE m[p + k] - m[q + k]
  IN  cmp[0]

\* The address of the first c, or of the end.
strfind(m, s, c) ==
  LET at[k \in Nat] == IF m[s + k] \in {NUL, c} THEN s + k ELSE at[k + 1]
  IN  at[0]

\* Null, here -1, when there is none: so also for c = 0.
strchr(m, s, c) == LET a == strfind(m, s, c) IN IF m[a] = NUL THEN -1 ELSE a

memset(m, v, c, n) == Write(m, v, [i \in 1..n |-> c])

\* Byte after byte, upwards.
CopyUp(m, dst, src, n) ==
  LET copy[k \in 0..n] ==
        IF k = 0 THEN m
        ELSE LET c == copy[k - 1] IN [c EXCEPT ![dst + k - 1] = c[src + k - 1]]
  IN  copy[n]

\* Byte after byte, from the last one down.
CopyDown(m, dst, src, n) ==
  LET copy[k \in 0..n] ==
        IF k = 0 THEN m
        ELSE LET c == copy[k - 1] IN [c EXCEPT ![dst + n - k] = c[src + n - k]]
  IN  copy[n]

memcpy(m, dst, src, n) == CopyUp(m, dst, src, n)

\* Mutant of memmove: the regions are taken for disjoint when they share one byte.
memmove_touching(m, dst, src, n) ==
  IF src < dst /\ src + n > dst + 1 THEN CopyDown(m, dst, src, n) ELSE CopyUp(m, dst, src, n)

memmove(m, dst, src, n) ==
  IF src < dst /\ src + n > dst THEN CopyDown(m, dst, src, n) ELSE CopyUp(m, dst, src, n)

memcmp(m, v1, v2, n) ==
  LET cmp[k \in 0..n] == IF k = n THEN 0
                         ELSE IF m[v1 + k] # m[v2 + k] THEN m[v1 + k] - m[v2 + k]
                         ELSE cmp[k + 1]
  IN  cmp[0]

\* The address of the first c, or of the end of the n bytes.
memfind(m, s, c, n) ==
  LET at[k \in 0..n] == IF k = n \/ m[s + k] = c THEN s + k ELSE at[k + 1]
  IN  at[0]

-----------------------------------------------------------------------------
(* Numbers and arguments.  A string is the sequence of its characters,      *)
(* without the one that ends it: a digit or letter is the value it has in   *)
(* base 36, and the others come after them.                                 *)

CharSpace == 36
CharTab   == 37
CharMinus == 38
CharPlus  == 39
LetterX   == 33
End       == -1

\* The character of s at position i, or its end.
At(s, i) == IF i \in DOMAIN s THEN s[i] ELSE End

\* strtol: the value, and the position of the first character not used.  The
\* value wraps.
strtol(s, base0) ==
  LET skip[i \in Nat] == IF At(s, i) \in {CharSpace, CharTab} THEN skip[i + 1] ELSE i
      i1   == skip[1]
      neg  == At(s, i1) = CharMinus
      i2   == IF At(s, i1) \in {CharPlus, CharMinus} THEN i1 + 1 ELSE i1
      hex  == base0 \in {0, 16} /\ At(s, i2) = 0 /\ At(s, i2 + 1) = LetterX
      oct  == base0 = 0 /\ ~hex /\ At(s, i2) = 0
      base == IF hex THEN 16 ELSE IF oct THEN 8 ELSE IF base0 = 0 THEN 10 ELSE base0
      i3   == IF hex THEN i2 + 2 ELSE IF oct THEN i2 + 1 ELSE i2
      run[i \in Nat] == \* value and position after the digits before i
        IF i <= i3 THEN [val |-> 0, end |-> i3]
        ELSE LET r == run[i - 1]
                 c == At(s, i - 1)
             IN  IF r.end = i - 1 /\ c \in 0..35 /\ c < base
                 THEN [val |-> Long(r.val * base + c), end |-> i] ELSE r
      r == run[Len(s) + 1]
  IN  [val |-> IF neg THEN Long(0 - r.val) ELSE r.val, end |-> r.end]

\* The character mod + '0': for a negative one of those below the digits.
DigitChar(mod) == IF mod >= 0 THEN mod ELSE 60 - mod

\* The loop over the digits ends at the first digit 0 above the lowest one.  The
\* smallest number is its own negation, and its digits are negative.
ltostr(value) ==
  LET size == IF value < 0 THEN Long(value * (-1)) ELSE value
      quot(v) == IF v < 0 THEN 0 - ((0 - v) \div 10) ELSE v \div 10
      digits[v \in Int] ==
        LET last == DigitChar(v - 10 * quot(v))
        IN  IF quot(v) - 10 * quot(quot(v)) # 0 THEN Append(digits[quot(v)], last) ELSE <<last>>
  IN  (IF value < 0 THEN <<CharMinus>> ELSE <<>>) \o digits[size]

strcconcat(str1, str2) == str1 \o str2

\* Mutant of strsplit: room for the null that ends argv is not kept.
strsplit_full(string, split, MAX_ARGUMENTS) ==
  LET trim[i \in Nat] == IF At(string, i) \in split THEN trim[i + 1] ELSE i
      scan[i \in Nat] == IF At(string, i) \in split \cup {End} THEN i ELSE scan[i + 1]
      round[k \in Nat] ==
        IF k = 0 THEN [string |-> 1, argv |-> <<>>, ret |-> -1]
        ELSE LET r == round[k - 1]
                 i == trim[r.string]
             IN  IF r.ret # -1 THEN r
                 ELSE IF At(string, i) = End THEN [r EXCEPT !.ret = 1]
                 ELSE IF Len(r.argv) = MAX_ARGUMENTS THEN [r EXCEPT !.ret = 0]
                 ELSE [r EXCEPT !.string = scan[i],
                                !.argv = Append(@, SubSeq(string, i, scan[i] - 1))]
  IN  round[Len(string) + 1]

\* Each round trims the split characters, ends with the string or with argv
\* (one place is for the null behind the last argument), or takes the next
\* argument and scans past it.
strsplit(string, split, MAX_ARGUMENTS) ==
  LET trim[i \in Nat] == IF At(string, i) \in split THEN trim[i + 1] ELSE i
      scan[i \in Nat] == IF At(string, i) \in split \cup {End} THEN i ELSE scan[i + 1]
      round[k \in Nat] ==
        IF k = 0 THEN [string |-> 1, argv |-> <<>>, ret |-> -1]
        ELSE LET r == round[k - 1]
                 i == trim[r.string]
             IN  IF r.ret # -1 THEN r
                 ELSE IF At(string, i) = End THEN [r EXCEPT !.ret = 1]
                 ELSE IF Len(r.argv) = MAX_ARGUMENTS - 1 THEN [r EXCEPT !.ret = 0]
                 ELSE [r EXCEPT !.string = scan[i],
                                !.argv = Append(@, SubSeq(string, i, scan[i] - 1))]
  IN  round[Len(string) + 1]

=============================================================================
