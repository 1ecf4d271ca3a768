---------------------------- MODULE PrintFormat ----------------------------
(***************************************************************************)
(* lib/printfmt.c: the formatted output of the kernel and of the programs. *)
(*                                                                         *)
(* A format is the sequence of its characters, as in CString: the digit or *)
(* letter c has the value of c in base 36, so that strtol can read what    *)
(* printnum prints.  Arguments are a sequence of numbers and strings.      *)
(* Numbers are of WORD bits, and twice as many for two l's, which take two *)
(* arguments, the low one first.                                           *)
(***************************************************************************)
EXTENDS CString, SequencesExt

CharPercent == 40
CharStar    == 41
CharDot     == 42
CharHash    == 43
CharQuest   == 44
CharControl == 45    \* a character below the blank or above the tilde
UpperX      == 46

Letter(c) == CASE c = "c" -> 12 [] c = "d" -> 13 [] c = "e" -> 14 [] c = "l" -> 21
               [] c = "n" -> 23 [] c = "o" -> 24 [] c = "p" -> 25 [] c = "s" -> 28
               [] c = "u" -> 30 [] c = "x" -> 33

\* A null pointer given for a string.
NullString == <<End>>

\* The codes that have a text in error_string, whose other entries are NULL.
error_string == 1..6

\* The text for an error code, as one character.
ErrorText(err) == IF err \in error_string THEN <<100 + err>> ELSE <<200, err>>

Repeat(c, n) == IF n <= 0 THEN <<>> ELSE [i \in 1..n |-> c]

\* Mutant of printnum: the pad characters are counted from the full width.
printnum_width(num, base, width, padc) ==
  LET p[n \in Nat, w \in Int] ==
        IF n >= base THEN Append(p[n \div base, w], n % base)
        ELSE Append(Repeat(padc, w - 1), n % base)
  IN  p[num, width]

\* The more significant digits first, with one place less each, and the pad
\* characters before the first digit.
printnum(num, base, width, padc) ==
  LET p[n \in Nat, w \in Int] ==
        IF n >= base THEN Append(p[n \div base, w - 1], n % base)
        ELSE Append(Repeat(padc, w - 1), n % base)
  IN  p[num, width]

getint(args, lflag) == IF lflag >= 2 THEN (args[1] % WORD) + WORD * args[2] ELSE args[1]

getuint(args, lflag) == getint(args, lflag) % (IF lflag >= 2 THEN WORD * WORD ELSE WORD)

\* Mutant of Words: a long long takes one argument.
Words_one(lflag) == 1

\* The arguments that an integer takes.
Words(lflag) == IF lflag >= 2 THEN 2 ELSE 1

-----------------------------------------------------------------------------
(* One step of vprintfmt for the character at st.i: "text" copies it,      *)
(* "escape" is the switch behind a %, whose flags are in the state.        *)

Start(fmt, args) ==
  [mode |-> "text", i |-> 1, escape |-> 0, args |-> args, out |-> <<>>,
   padc |-> CharSpace, width |-> -1, precision |-> -1, lflag |-> 0, altflag |-> FALSE]

Escape(st) ==
  [st EXCEPT !.mode = "escape", !.i = @ + 1, !.escape = st.i + 1, !.padc = CharSpace,
             !.width = -1, !.precision = -1, !.lflag = 0, !.altflag = FALSE]

\* The first number is the width, the second one the precision.
process_precision(st, n) ==
  IF st.width < 0 THEN [st EXCEPT !.width = n, !.precision = -1]
  ELSE [st EXCEPT !.precision = n]

\* The conversion prints "text" and takes k arguments.
Converted(st, text, k) ==
  [st EXCEPT !.mode = "text", !.i = @ + 1, !.out = @ \o text,
             !.args = SubSeq(@, k + 1, Len(@))]

\* "(null)", its brackets as characters that are not told apart.
Null6 == <<CharQuest, 23, 30, 21, 21, CharQuest>>

\* Mutant of StringField: a precision of 0 is taken for none.
StringField_zero(st, arg) ==
  LET p    == IF arg = NullString THEN Null6 ELSE arg
      n    == IF st.precision \in 1..Len(p) THEN st.precision ELSE Len(p)
      text == [k \in 1..n |-> IF st.altflag /\ p[k] = CharControl THEN CharQuest ELSE p[k]]
  IN  IF st.width > 0 /\ st.padc # CharMinus THEN Repeat(st.padc, st.width - n) \o text
      ELSE text \o Repeat(CharSpace, st.width - n)

\* The pad characters are in front, or behind, where they are blanks.
StringField(st, arg) ==
  LET p    == IF arg = NullString THEN Null6 ELSE arg
      n    == IF st.precision \in 0..Len(p) THEN st.precision ELSE Len(p)
      text == [k \in 1..n |-> IF st.altflag /\ p[k] = CharControl THEN CharQuest ELSE p[k]]
  IN  IF st.width > 0 /\ st.padc # CharMinus THEN Repeat(st.padc, st.width - n) \o text
      ELSE text \o Repeat(CharSpace, st.width - n)

SignedField(st, n) ==
  IF n < 0 THEN <<CharMinus>> \o printnum(0 - n, 10, st.width, st.padc)
  ELSE printnum(n, 10, st.width, st.padc)

\* Mutant of Unknown: the text behind the flags is read on.
Unknown_skips(st) == [st EXCEPT !.mode = "text", !.out = Append(@, CharPercent), !.i = @ + 1]

\* The % is printed, and the text behind it read again as text.
Unknown(st) == [st EXCEPT !.mode = "text", !.out = Append(@, CharPercent), !.i = st.escape]

EscapeStep(fmt, st) ==
  LET ch  == At(fmt, st.i)
      arg == st.args[1]
      number == strtol(SubSeq(fmt, st.i, Len(fmt)), 10)
  IN  CASE ch = CharMinus      -> [st EXCEPT !.padc = CharMinus, !.i = @ + 1]
        [] ch = 0        -> [st EXCEPT !.padc = 0, !.i = @ + 1]
        [] ch \in 1..9   -> [process_precision(st, number.val) EXCEPT
                               !.i = st.i + number.end - 1]
        [] ch = CharStar      -> [process_precision(st, arg) EXCEPT !.i = @ + 1, !.args = Tail(@)]
        [] ch = CharDot      -> [st EXCEPT !.width = IF @ < 0 THEN 0 ELSE @, !.i = @ + 1]
        [] ch = CharHash      -> [st EXCEPT !.altflag = TRUE, !.i = @ + 1]
        [] ch = Letter("l")      -> [st EXCEPT !.lflag = @ + 1, !.i = @ + 1]
        [] ch = Letter("c")      -> Converted(st, <<arg>>, 1)
        [] ch = Letter("e")      -> Converted(st, ErrorText(IF arg < 0 THEN 0 - arg ELSE arg), 1)
        [] ch = Letter("s")      -> Converted(st, StringField(st, arg), 1)
        [] ch = Letter("d")      -> Converted(st, SignedField(st, getint(st.args, st.lflag)),
                                      Words(st.lflag))
        [] ch = Letter("u")      -> Converted(st, printnum(getuint(st.args, st.lflag), 10, st.width,
                                                   st.padc), Words(st.lflag))
        [] ch = Letter("o")      -> Converted(st, <<UpperX, UpperX, UpperX>>, 0)
        [] ch = Letter("p")      -> Converted(st, <<0, LetterX>> \o printnum(arg % WORD, 16, st.width,
                                                                st.padc), 1)
        [] ch = Letter("x")      -> Converted(st, printnum(getuint(st.args, st.lflag), 16, st.width,
                                                   st.padc), Words(st.lflag))
        [] ch = CharPercent      -> Converted(st, <<CharPercent>>, 0)
        [] OTHER         -> Unknown(st)

TextStep(fmt, st) ==
  LET ch == At(fmt, st.i)
  IN  IF ch = End THEN [st EXCEPT !.mode = "done"]
      ELSE IF ch = CharPercent THEN Escape(st)
      ELSE [st EXCEPT !.out = Append(@, ch), !.i = @ + 1]

\* Every character is read at most twice.
vprintfmt(fmt, args) ==
  LET run[k \in Nat] ==
        IF k = 0 THEN Start(fmt, args)
        ELSE LET st == run[k - 1]
             IN  CASE st.mode = "text"   -> TextStep(fmt, st)
                   [] st.mode = "escape" -> EscapeStep(fmt, st)
                   [] st.mode = "done"   -> st
  IN  run[2 * Len(fmt) + 3].out

-----------------------------------------------------------------------------

sprintputch(b, ch) ==
  [b EXCEPT !.cnt = @ + 1, !.buf = IF Len(@) < b.ebuf THEN Append(@, ch) ELSE @]

\* The buffer, with the 0 that ends it, and the count of all characters.
vsnprintf(n, fmt, args) ==
  IF n < 1 THEN [buf |-> <<>>, ret |-> -1]
  ELSE LET b == FoldLeft(sprintputch, [buf |-> <<>>, ebuf |-> n - 1, cnt |-> 0],
                         vprintfmt(fmt, args))
       IN  [buf |-> Append(b.buf, End), ret |-> b.cnt]

=============================================================================
