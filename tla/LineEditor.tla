----------------------------- MODULE LineEditor -----------------------------
(***************************************************************************)
(* The line editor of the kernel's command prompt: typing, backspace, DEL, *)
(* cursor keys, the command history and Tab completion                     *)
(* (command_prompt_readline, kern/command_prompt.c).                       *)
(*                                                                         *)
(* A key is one iteration of the editor's loop.  The keyboard may withhold *)
(* a DEL (module Console); here it may always arrive.  Echo is left out.   *)
(* Strings are sequences of one-character strings; the line buffer is the  *)
(* array of the code, with NUL bytes, because what follows the first NUL   *)
(* matters to the cursor keys.                                             *)
(***************************************************************************)
EXTENDS Integers, Sequences, SequencesExt, FiniteSets, FiniteSetsExt

CONSTANTS
  COMMAND_BUFLEN, \* BUFLEN of the prompt, 1024
  HISTORY_MAX,  \* 19: the last index of command_history
  Letters,      \* the printable characters that are typed, the space too
  commands,     \* the names in the table of commands, in order
  userPrograms, \* the names in the table of programs, in order
  TakesProgram, \* the commands whose argument is completed: run and load
  MaxKeys       \* bound: keys pressed

NUL == "nul"
BLANK == " "
DEL_CHAR == "del"     \* the code 0xE9, printable to the editor
FOREIGN == "foreign"  \* a byte of the stack behind the buffer

\* A line, and a name in one of the tables.
Line == Seq(Letters \cup {DEL_CHAR, FOREIGN})
Name == Seq(Letters \ {BLANK}) \ {<<>>}

ASSUME EditorAssumption ==
  /\ COMMAND_BUFLEN \in Nat \ {0, 1} /\ HISTORY_MAX \in Nat
  /\ NUL \notin Letters
  /\ commands \in Seq(Name) /\ userPrograms \in Seq(Name)
  /\ TakesProgram \subseteq Range(commands)

VARIABLES
  buf,          \* the line buffer, cleared by run_command_prompt
  i,            \* the cursor
  lastIndex,    \* where the editor believes the line ends
  history,      \* command_history[0..last_command_idx]
  commandidx,   \* the entry that Up and Down have reached
  afterTab,     \* last_c = 9
  PrefixList,   \* the completions of the last Tab, kept across prompts
  prefix_list_size, prefix_list_idx,
  typed,        \* the line by the book: append, take back, recall, complete
  moved,        \* a key was used that edits elsewhere than at the end of the line
  inserted,     \* characters inserted since the prompt
  entered,      \* the lines handed to execute_command, latest last
  keys          \* keys pressed so far

editorvars == <<buf, i, lastIndex, history, commandidx, afterTab, PrefixList,
                prefix_list_size, prefix_list_idx, typed, moved, inserted, entered,
                keys>>

---------------------------------------------------------------------------
(* Strings in arrays. *)

At(b, n) == IF n < COMMAND_BUFLEN THEN b[n] ELSE FOREIGN

strlen(b) == LET ends == {n \in 0..COMMAND_BUFLEN - 1 : b[n] = NUL}
             IN  IF ends = {} THEN COMMAND_BUFLEN ELSE Min(ends)

String(b) == [n \in 1..strlen(b) |-> b[n - 1]]

\* memcpy(buf, empty, BUFLEN) and then the characters of s.
Loaded(s) == [n \in 0..COMMAND_BUFLEN - 1 |-> IF n < Len(s) THEN s[n + 1] ELSE NUL]

\* The characters of s over the first ones of b, with no NUL after them.
Over(b, s) == [n \in 0..COMMAND_BUFLEN - 1 |-> IF n < Len(s) THEN s[n + 1] ELSE b[n]]

\* Where strsplit starts an argument.
Starts(s) == {n \in DOMAIN s : s[n] # BLANK /\ (n = 1 \/ s[n - 1] = BLANK)}

FirstArg(s) ==
  LET from == Min(Starts(s))
      ends == {n \in DOMAIN s : n >= from /\ s[n] = BLANK}
  IN  SubSeq(s, from, IF ends = {} THEN Len(s) ELSE Min(ends) - 1)

---------------------------------------------------------------------------

Entry(n) == IF n \in 0..Len(history) - 1 THEN history[n + 1] ELSE <<>>

\* if (i > lastIndex) lastIndex = i, at the top of the loop
End == IF i > lastIndex THEN i ELSE lastIndex

Key == keys < MaxKeys /\ keys' = keys + 1

\* A recalled line that does not set *last_index.
Load_end(s) ==
  /\ buf' = Loaded(s)
  /\ i' = Len(s) /\ lastIndex' = End
  /\ typed' = s /\ moved' = (Len(s) >= COMMAND_BUFLEN) /\ inserted' = Len(s)

\* clearandwritecommand and RoundAutoCompleteCommandWithTheSamePrefix; neither
\* checks that the characters fit.
Load(s) ==
  /\ buf' = Loaded(s)
  /\ i' = Len(s) /\ lastIndex' = Len(s)
  /\ typed' = s /\ moved' = (Len(s) >= COMMAND_BUFLEN) /\ inserted' = Len(s)

\* Up: the entry before, or the oldest again; the array is zero past the
\* entries, so an empty history clears the line.
Up ==
  /\ Key
  /\ commandidx' = IF commandidx > 0 THEN commandidx - 1 ELSE 0
  /\ Load(Entry(commandidx'))
  /\ afterTab' = FALSE
  /\ UNCHANGED <<history, PrefixList, prefix_list_size, prefix_list_idx, entered>>

\* Down: on the newest entry it stays there, on a fresh prompt it reads the
\* slot after the entries.  With a full history that slot lies behind the
\* array; in this kernel it holds numOfKheapVACalls, which stays 0.
Down ==
  /\ Key
  /\ commandidx' = IF commandidx < Len(history) - 1 THEN commandidx + 1
                   ELSE commandidx
  /\ IF history # <<>> THEN Load(Entry(commandidx'))
     ELSE lastIndex' = End /\ UNCHANGED <<buf, i, typed, moved, inserted>>
  /\ afterTab' = FALSE
  /\ UNCHANGED <<history, PrefixList, prefix_list_size, prefix_list_idx, entered>>

Left ==
  /\ Key
  /\ i' = IF i > 0 THEN i - 1 ELSE i
  /\ lastIndex' = End
  /\ moved' = (moved \/ i > 0)
  /\ afterTab' = FALSE
  /\ UNCHANGED <<buf, history, commandidx, PrefixList, prefix_list_size,
                 prefix_list_idx, typed, inserted, entered>>

Right ==
  /\ Key
  /\ i' = IF i < End THEN i + 1 ELSE i
  /\ lastIndex' = End
  /\ moved' = (moved \/ i < End)
  /\ afterTab' = FALSE
  /\ UNCHANGED <<buf, history, commandidx, PrefixList, prefix_list_size,
                 prefix_list_idx, typed, inserted, entered>>

\* A printable character overwrites the one under the cursor, and lastIndex
\* grows whether or not the line has become longer.
Insert(c) ==
  IF i < COMMAND_BUFLEN - 1
  THEN /\ buf' = [buf EXCEPT ![i] = c]
       /\ i' = i + 1
       /\ lastIndex' = End + 1
       /\ typed' = Append(typed, c)
       /\ inserted' = inserted + 1
  ELSE lastIndex' = End /\ UNCHANGED <<buf, i, typed, inserted>>

Type(c) ==
  /\ Key
  /\ Insert(c)
  /\ afterTab' = FALSE
  /\ UNCHANGED <<history, commandidx, PrefixList, prefix_list_size,
                 prefix_list_idx, moved, entered>>

\* DEL closes the gap at the cursor, with the byte behind the buffer when the
\* line is full; in column 0 it is a printable character.
Del ==
  /\ Key
  /\ IF i > 0
     THEN /\ buf' = [n \in 0..COMMAND_BUFLEN - 1 |->
                       IF n \in i..End THEN At(buf, n + 1) ELSE buf[n]]
          /\ lastIndex' = End - 1
          /\ moved' = (moved \/ End + 1 >= COMMAND_BUFLEN)
          /\ UNCHANGED <<i, typed, inserted>>
     ELSE Insert(DEL_CHAR) /\ moved' = TRUE
  /\ afterTab' = FALSE
  /\ UNCHANGED <<history, commandidx, PrefixList, prefix_list_size,
                 prefix_list_idx, entered>>

\* A backspace that only steps back.
Backspace_steps ==
  /\ Key
  /\ lastIndex' = End
  /\ IF i > 0 THEN i' = i - 1 /\ typed' = (IF typed = <<>> THEN typed ELSE Front(typed))
     ELSE UNCHANGED <<i, typed>>
  /\ afterTab' = FALSE
  /\ UNCHANGED <<buf, history, commandidx, PrefixList, prefix_list_size,
                 prefix_list_idx, moved, inserted, entered>>

\* Backspace moves the character under the cursor one to the left, and that
\* character only; lastIndex stays.
Backspace ==
  /\ Key
  /\ lastIndex' = End
  /\ IF i > 0
     THEN /\ buf' = [buf EXCEPT ![i - 1] = At(buf, i)]
          /\ i' = i - 1
          /\ typed' = IF typed = <<>> THEN typed ELSE Front(typed)
     ELSE UNCHANGED <<buf, i, typed>>
  /\ afterTab' = FALSE
  /\ UNCHANGED <<history, commandidx, PrefixList, prefix_list_size,
                 prefix_list_idx, moved, inserted, entered>>

---------------------------------------------------------------------------
(* Tab. *)

\* Mutant of Completions: those of an argument replace the whole line.
Completions_bare(names, stem, before) ==
  LET found[n \in 0..Len(names)] ==
        IF n = 0 THEN <<>>
        ELSE IF IsPrefix(stem, names[n]) THEN Append(found[n - 1], names[n]) ELSE found[n - 1]
  IN  found[Len(names)]

\* The names that start with the stem, each behind what precedes the stem.
Completions(names, stem, before) ==
  LET found[n \in 0..Len(names)] ==
        IF n = 0 THEN <<>>
        ELSE IF IsPrefix(stem, names[n]) THEN Append(found[n - 1], before \o names[n])
        ELSE found[n - 1]
  IN  found[Len(names)]

\* The first Tab.  With one argument the stem is the line up to its first
\* blank, which a leading blank makes empty: then every command matches.  With
\* more, the last argument is cut off the buffer before the programs are
\* searched, and stays cut off when none matches.
FirstTab ==
  LET text  == String(buf)
      many  == Cardinality(Starts(text)) > 1
      from  == Max(Starts(text))
      stem  == IF many THEN SubSeq(text, from, Len(text))
               ELSE IF text[1] = BLANK THEN <<>> ELSE text
      before == SubSeq(text, 1, from - 1)
      cut   == IF many THEN [buf EXCEPT ![from - 1] = NUL] ELSE buf
      list  == IF many THEN Completions(userPrograms, stem, before)
               ELSE Completions(commands, stem, <<>>)
      full  == Over(cut, list[1])
  IN  IF text = <<>>
      THEN /\ PrefixList' = <<>> /\ lastIndex' = End
           /\ UNCHANGED <<buf, i, prefix_list_size, prefix_list_idx, typed, moved,
                          inserted, afterTab>>
      ELSE IF Last(text) = BLANK \/ (many /\ FirstArg(text) \notin TakesProgram)
      THEN /\ PrefixList' = <<>> /\ prefix_list_size' = 0 /\ lastIndex' = End
           /\ UNCHANGED <<buf, i, prefix_list_idx, typed, moved, inserted, afterTab>>
      ELSE /\ PrefixList' = list /\ prefix_list_size' = Len(list)
           /\ afterTab' = TRUE
           /\ IF list = <<>>
              THEN /\ buf' = cut /\ lastIndex' = End
                   /\ moved' = (moved \/ many)
                   /\ UNCHANGED <<i, prefix_list_idx, typed, inserted>>
              ELSE /\ buf' = full
                   /\ i' = strlen(full) /\ lastIndex' = strlen(full)
                   /\ prefix_list_idx' = 0
                   /\ typed' = list[1] /\ inserted' = strlen(full)
                   /\ moved' = (moved \/ text[1] = BLANK \/ Len(list[1]) >= COMMAND_BUFLEN)

\* Tab again: the next completion.
NextTab ==
  /\ IF prefix_list_size > 0
     THEN /\ prefix_list_idx' = (prefix_list_idx + 1) % prefix_list_size
          /\ Load(IF prefix_list_idx' < Len(PrefixList)
                  THEN PrefixList[prefix_list_idx' + 1] ELSE <<>>)
     ELSE /\ lastIndex' = End
          /\ UNCHANGED <<buf, i, prefix_list_idx, typed, moved, inserted>>
  /\ UNCHANGED <<PrefixList, prefix_list_size, afterTab>>

Tab ==
  /\ Key
  /\ IF afterTab THEN NextTab ELSE FirstTab
  /\ UNCHANGED <<history, commandidx, entered>>

---------------------------------------------------------------------------
(* Enter. *)

\* The command the line names, or <<>> when there is none.
execute_command(text) ==
  IF Starts(text) = {} \/ FirstArg(text) \notin Range(commands) THEN <<>>
  ELSE FirstArg(text)

\* A history that looks for the line in its oldest entry.
Recorded_oldest(text) ==
  IF Len(history) = HISTORY_MAX + 1 THEN Append(Tail(history), text)
  ELSE IF text = Entry(0) THEN history ELSE Append(history, text)

\* A full history drops its oldest entry.  Otherwise a line equal to the newest
\* is not recorded again; the entry before the first lies in front of the array
\* and is the last, empty, element of PrefixList in this kernel.
Recorded(text) ==
  IF Len(history) = HISTORY_MAX + 1 THEN Append(Tail(history), text)
  ELSE IF text = Entry(Len(history) - 1) THEN history ELSE Append(history, text)

\* A line that loses its last character.
Terminated_short == IF End > 0 THEN [buf EXCEPT ![End - 1] = NUL] ELSE buf

\* buf[lastIndex] = 0, inside the buffer or behind it
Terminated == IF End < COMMAND_BUFLEN THEN [buf EXCEPT ![End] = NUL] ELSE buf

\* A prompt: the locals last_c and prefix_list_size are not initialised.
Prompt ==
  /\ buf' = Loaded(<<>>) /\ i' = 0 /\ lastIndex' = 0
  /\ commandidx' = Len(history')
  /\ prefix_list_idx' = 0
  /\ afterTab' \in BOOLEAN /\ prefix_list_size' \in 0..2
  /\ typed' = <<>> /\ moved' = FALSE /\ inserted' = 0

Enter ==
  /\ Key
  /\ history' = Recorded(String(Terminated))
  /\ entered' = [line |-> String(Terminated), typed |-> typed, moved |-> moved]
  /\ Prompt
  /\ UNCHANGED PrefixList

EditorInit ==
  /\ buf = Loaded(<<>>) /\ i = 0 /\ lastIndex = 0
  /\ history = <<>> /\ commandidx = 0
  /\ afterTab \in BOOLEAN /\ prefix_list_size \in 0..2 /\ prefix_list_idx = 0
  /\ PrefixList = <<>>
  /\ typed = <<>> /\ moved = FALSE /\ inserted = 0 /\ keys = 0
  /\ entered = [line |-> <<>>, typed |-> <<>>, moved |-> FALSE]

\* No more keys: the prompt waits.
Rest == keys = MaxKeys /\ UNCHANGED editorvars

EditorNext ==
  \/ Up \/ Down \/ Left \/ Right \/ Del \/ Backspace \/ Tab \/ Enter
  \/ \E c \in Letters : Type(c)
  \/ Rest

EditorSpec == EditorInit /\ [][EditorNext]_editorvars

---------------------------------------------------------------------------
(* Properties. *)

\* The buffer holds the line that was typed, taken back, recalled and completed,
\* as long as every edit was at its end: backspace, for one, relies on the NUL
\* bytes behind the cursor, and a completion on being longer than its stem.
LineIsTyped ==
  ~moved => String(buf) = typed /\ i = Len(typed)

\* Enter hands over that line: the NUL at lastIndex, which backspace leaves
\* behind the end of the line, cuts nothing off it.
EnteredIsTyped ==
  entered.moved \/ entered.line = entered.typed

\* lastIndex counts insertions and not the length of the line.  It, and the
\* cursor, stay inside the buffer until COMMAND_BUFLEN characters have been inserted on
\* one line; nothing bounds them after that.
EndInBuffer ==
  lastIndex <= inserted /\ (inserted < COMMAND_BUFLEN => i < COMMAND_BUFLEN)

\* The newest entry of the history is always the line that was entered last, so
\* Up recalls it; only an empty first line is not there.
LastIsRecalled ==
  IF history = <<>> THEN entered.line = <<>> ELSE Last(history) = entered.line

\* A completion that was not edited afterwards is a command the prompt knows,
\* on the first Tab and on every further one.
CompletionExecutes ==
  afterTab /\ i > 0 /\ prefix_list_size > 0 /\ ~moved
    => execute_command(String(buf)) # <<>>

\* Through all keys, the buffer holds the line meant and Enter hands it over, and
\* cursor and end stay inside.
LineIsMeant == LineIsTyped /\ EnteredIsTyped /\ EndInBuffer

\* A line that was not typed but recalled or completed is one the prompt knows.
RecallExecutes == LastIsRecalled /\ CompletionExecutes

=============================================================================
