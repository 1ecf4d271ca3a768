------------------------------- MODULE Console -------------------------------
(***************************************************************************)
(* The console of FOS: the keyboard decoder, the serial port, the ring of  *)
(* input characters between them and the readers, the text screen, and the *)
(* line reader of lib/readline.c that echoes to it (kern/console.c,        *)
(* lib/console.c, lib/readline.c).                                         *)
(*                                                                         *)
(* No device interrupt is enabled: both readers poll.  The kernel's        *)
(* getchar drains the devices one byte at a time, and more bytes may       *)
(* arrive between two iterations of cons_intr; a program's getchar takes   *)
(* at most one byte of each device in one system call.  A character is its *)
(* code; the attribute byte of a screen cell is left out.                  *)
(***************************************************************************)
EXTENDS Integers, Sequences, SequencesExt

CONSTANTS
  CONSBUFSIZE,  \* 512 in the code: the slots of the ring
  CRT_COLS,     \* 80: the columns of the screen
  CRT_SIZE,     \* 2000: the cells of the screen
  BUFLEN,       \* 1024: the bytes of a line buffer
  PROMPT,       \* 5: the columns of the prompt
  Keys,         \* the keys that are pressed: [code, ext], ext for an E0 key
  MaxInbox,     \* bound: bytes the keyboard may be ahead of the kernel
  MaxEvents,    \* bound: key presses and releases
  MaxSerial     \* bound: bytes received by the serial port

ASSUME ConsoleAssumption ==
  /\ {CONSBUFSIZE, CRT_COLS, CRT_SIZE, BUFLEN, PROMPT} \subseteq Nat \ {0}
  /\ CONSBUFSIZE > 1
  /\ BUFLEN - 1 + PROMPT <= CRT_SIZE - CRT_COLS

\* Scan codes have 7 bits, and E0 is no release of a key.
ASSUME KeysAssumption == Keys \subseteq [code : 0..127 \ {\h60}, ext : BOOLEAN]

SHIFT == "SHIFT"
CTL == "CTL"
ALT == "ALT"
CAPSLOCK == "CAPSLOCK"
NUMLOCK == "NUMLOCK"
E0ESC == "E0ESC"
KEY_LF == 228
KEY_RT == 229
KEY_DEL == 233
KEY_SPACE == 255
BS == 8
NL == 10
CR == 13
SPACE == 32
PROMPT_CHAR == 62
SERIAL_CHAR == 115
LastRow == CRT_SIZE - CRT_COLS

VARIABLES
  inbox,        \* bytes the keyboard has sent and the kernel not yet read
  serial,       \* bytes the serial port has received and not yet delivered
  down,         \* the keys physically held down (not known to the kernel)
  shift,        \* the static variable of kbd_proc_data
  cons,         \* [buf, rpos, wpos]: the ring
  screen,       \* [buf, pos, text]: crt_buf, crt_pos and text_length
  line,         \* what readline has stored: buf[0..i-1]
  phase,        \* how far the kernel's cons_getc is
  arrowed,      \* the line has held a cursor key since its prompt
  reader,       \* who reads the line: the kernel or a program
  lap,          \* the last CONSBUFSIZE characters written to the ring
  written, read, \* how many characters entered and left the ring
  events,       \* key events so far
  received      \* serial bytes so far

vars == <<inbox, serial, down, shift, cons, screen, line, arrowed, phase, reader, lap,
          written, read, events, received>>

---------------------------------------------------------------------------
(* The keyboard. *)

shiftcode(data) ==
  CASE data \in {\h1D, \h9D} -> {CTL}
    [] data \in {\h2A, \h36} -> {SHIFT}
    [] data \in {\h38, \hB8} -> {ALT}
    [] OTHER -> {}

togglecode(data) ==
  CASE data = \h3A -> {CAPSLOCK} [] data = \h45 -> {NUMLOCK} [] OTHER -> {}

\* The rows of normalmap, shiftmap and ctlmap of the keys that are pressed.
charcode(flags, data) ==
  LET row == CASE data = \h02 -> <<49, 33, 0>>
               [] data = \h0E -> <<BS, BS, 0>>
               [] data = \h1C -> <<NL, NL, CR>>
               [] data = \h1E -> <<97, 65, 1>>
               [] data = \h39 -> <<SPACE, SPACE, KEY_SPACE>>
               [] data = \hCB -> <<KEY_LF, KEY_LF, KEY_LF>>
               [] data = \hCD -> <<KEY_RT, KEY_RT, KEY_RT>>
               [] data = \hD3 -> <<KEY_DEL, KEY_DEL, KEY_DEL>>
               [] OTHER -> <<0, 0, 0>>
  IN  IF CTL \in flags THEN row[3] ELSE IF SHIFT \in flags THEN row[2] ELSE row[1]

\* A byte above 7F is the release of a key; the mask keeps it for an E0 key.
Released(flags, data) == IF E0ESC \in flags THEN data ELSE data - 128

Pressed(flags, data) == IF E0ESC \in flags THEN data + 128 ELSE data

\* A release that forgets to look at the make code of the key.
ShiftAfter_unmasked(flags, data) ==
  IF data = \hE0 THEN flags \cup {E0ESC}
  ELSE IF data >= 128 THEN flags \ (shiftcode(data) \cup {E0ESC})
  ELSE LET code == Pressed(flags, data)
           set  == (flags \ {E0ESC}) \cup shiftcode(code)
       IN  (set \ togglecode(code)) \cup (togglecode(code) \ set)

\* `shift' after one byte from the keyboard.
ShiftAfter(flags, data) ==
  IF data = \hE0 THEN flags \cup {E0ESC}
  ELSE IF data >= 128 THEN flags \ (shiftcode(Released(flags, data)) \cup {E0ESC})
  ELSE LET code == Pressed(flags, data)
           set  == (flags \ {E0ESC}) \cup shiftcode(code)
       IN  (set \ togglecode(code)) \cup (togglecode(code) \ set)

\* DEL is dropped at the end of the text on the last row.
DelAllowed == screen.text > 0 /\ screen.pos # LastRow + screen.text

\* The character the byte completes, or 0.
CharOf(flags, data) ==
  LET now == ShiftAfter(flags, data)
      c   == charcode(now, Pressed(flags, data))
  IN  IF data >= 128 THEN 0
      ELSE IF c = KEY_DEL THEN (IF DelAllowed THEN c ELSE 0)
      ELSE IF now = {NUMLOCK} /\ c \in 48..57 THEN 0
      ELSE IF c = KEY_SPACE THEN 0
      ELSE IF CAPSLOCK \in now /\ c \in 97..122 THEN c - 32
      ELSE IF CAPSLOCK \in now /\ c \in 65..90 THEN c + 32
      ELSE c

\* DEL closes the gap on the screen before the reader sees the key; the loop
\* may run past the last cell, into video memory that is not displayed.
ScreenAfterDecode(c) ==
  IF c # KEY_DEL THEN screen
  ELSE LET last == LastRow + PROMPT + screen.text - 1
       IN  [screen EXCEPT
              !.text = @ - 1,
              !.buf  = [p \in DOMAIN @ |->
                          IF p \in screen.pos..last
                          THEN (IF p + 1 < CRT_SIZE THEN @[p + 1] ELSE SPACE)
                          ELSE @[p]]]

---------------------------------------------------------------------------
(* The screen. *)

Scroll(s) ==
  IF s.pos < CRT_SIZE THEN s
  ELSE [s EXCEPT !.pos = @ - CRT_COLS,
                 !.buf = [p \in DOMAIN @ |->
                            IF p < LastRow THEN @[p + CRT_COLS] ELSE SPACE]]

StartOfRow(p) == p - (p % CRT_COLS)

cga_putc(s, c) ==
  Scroll(
    CASE c = BS -> IF s.pos > 0
                   THEN [s EXCEPT !.pos = @ - 1, !.buf[s.pos - 1] = SPACE]
                   ELSE s
      [] c = NL -> [s EXCEPT !.pos = StartOfRow(@ + CRT_COLS), !.text = 0]
      [] c = CR -> [s EXCEPT !.pos = StartOfRow(@)]
      [] c = KEY_LF -> [s EXCEPT !.pos = IF @ > 0 THEN @ - 1 ELSE @]
      [] c = KEY_RT -> [s EXCEPT !.pos = IF @ < CRT_SIZE THEN @ + 1 ELSE @]
      [] OTHER -> [s EXCEPT !.buf[s.pos] = c,
                            !.pos = @ + 1,
                            !.text = IF s.pos + 1 > LastRow + @ THEN @ + 1 ELSE @])

\* cprintf(prompt)
ShowPrompt(s) ==
  LET shown[n \in 0..PROMPT] == IF n = 0 THEN s ELSE cga_putc(shown[n - 1], PROMPT_CHAR)
  IN  shown[PROMPT]

---------------------------------------------------------------------------
(* The line reader. *)

\* A reader that echoes a character for which the buffer has no room.
ReadlineStep_echo(s, c) ==
  CASE c >= SPACE ->
         /\ line' = IF Len(line) < BUFLEN - 1 THEN Append(line, c) ELSE line
         /\ arrowed' = (arrowed \/ c \in {KEY_LF, KEY_RT})
         /\ screen' = cga_putc(s, c)
    [] c = BS /\ line # <<>> ->
         /\ line' = Front(line) /\ arrowed' = arrowed
         /\ screen' = cga_putc(s, c)
    [] c \in {NL, CR} ->
         /\ line' = <<>> /\ arrowed' = FALSE
         /\ screen' = ShowPrompt(cga_putc(s, c))
    [] OTHER -> line' = line /\ arrowed' = arrowed /\ screen' = s

\* One character of readline; every code from the space up is stored, so an
\* arrow key becomes a byte of the line.  Enter hands the line over and the
\* caller asks for the next one.
ReadlineStep(s, c) ==
  CASE c >= SPACE /\ Len(line) < BUFLEN - 1 ->
         /\ line' = Append(line, c) /\ arrowed' = (arrowed \/ c \in {KEY_LF, KEY_RT})
         /\ screen' = cga_putc(s, c)
    [] c = BS /\ line # <<>> ->
         /\ line' = Front(line) /\ arrowed' = arrowed
         /\ screen' = cga_putc(s, c)
    [] c \in {NL, CR} ->
         /\ line' = <<>> /\ arrowed' = FALSE
         /\ screen' = ShowPrompt(cga_putc(s, c))
    [] OTHER -> line' = line /\ arrowed' = arrowed /\ screen' = s

---------------------------------------------------------------------------
(* The ring. *)

\* A ring that wraps one slot early.
Advance_early(pos) == IF pos + 2 >= CONSBUFSIZE THEN 0 ELSE pos + 1

Advance(pos) == IF pos + 1 = CONSBUFSIZE THEN 0 ELSE pos + 1

Waiting(ring) == ring.rpos # ring.wpos

\* cons.buf[cons.wpos++] = c, with no check that the ring is full; nothing for
\* a byte that completes no key.
Put(ring, c) == IF c = 0 THEN ring ELSE [ring EXCEPT !.buf[ring.wpos] = c, !.wpos = Advance(@)]

\* How many characters that is, and the last CONSBUFSIZE of them.
Counted(c) == IF c = 0 THEN 0 ELSE 1

LapAfter(last, c) == IF c = 0 THEN last ELSE Append(Tail(last), c)

PutIn(c) ==
  /\ cons' = Put(cons, c)
  /\ written' = written + Counted(c)
  /\ lap' = LapAfter(lap, c)

---------------------------------------------------------------------------
(* The devices and the person at the keyboard. *)

Bytes(key, released) ==
  (IF key.ext THEN <<\hE0>> ELSE <<>>)
    \o <<IF released THEN key.code + 128 ELSE key.code>>

\* A key goes down, or repeats while it is held.
Press(key) ==
  /\ events < MaxEvents
  /\ Len(inbox \o Bytes(key, FALSE)) <= MaxInbox
  /\ inbox' = inbox \o Bytes(key, FALSE)
  /\ down' = down \cup {key}
  /\ events' = events + 1
  /\ UNCHANGED <<serial, shift, cons, screen, line, arrowed, phase, reader, lap, written,
                 read, received>>

Release(key) ==
  /\ events < MaxEvents
  /\ key \in down
  /\ Len(inbox \o Bytes(key, TRUE)) <= MaxInbox
  /\ inbox' = inbox \o Bytes(key, TRUE)
  /\ down' = down \ {key}
  /\ events' = events + 1
  /\ UNCHANGED <<serial, shift, cons, screen, line, arrowed, phase, reader, lap, written,
                 read, received>>

SerialArrives ==
  /\ received < MaxSerial
  /\ serial' = Append(serial, SERIAL_CHAR)
  /\ received' = received + 1
  /\ UNCHANGED <<inbox, down, shift, cons, screen, line, arrowed, phase, reader, lap,
                 written, read, events>>

---------------------------------------------------------------------------
(* The kernel's reader: getchar calls cons_getc until a character comes. *)

\* An iteration of cons_intr(serial_proc_data).
KernelSerial ==
  /\ reader = "kernel" /\ phase = "serial" /\ serial # <<>>
  /\ PutIn(Head(serial))
  /\ serial' = Tail(serial)
  /\ UNCHANGED <<inbox, down, shift, screen, line, arrowed, phase, reader, read, events,
                 received>>

\* serial_proc_data returns -1.
KernelSerialDone ==
  /\ reader = "kernel" /\ phase = "serial" /\ serial = <<>>
  /\ phase' = "kbd"
  /\ UNCHANGED <<inbox, serial, down, shift, cons, screen, line, arrowed, reader, lap,
                 written, read, events, received>>

\* An iteration of cons_intr(kbd_proc_data).
KernelKbd ==
  /\ reader = "kernel" /\ phase = "kbd" /\ inbox # <<>>
  /\ LET c == CharOf(shift, Head(inbox))
     IN  /\ PutIn(c)
         /\ screen' = ScreenAfterDecode(c)
  /\ shift' = ShiftAfter(shift, Head(inbox))
  /\ inbox' = Tail(inbox)
  /\ UNCHANGED <<serial, down, line, arrowed, phase, reader, read, events, received>>

\* A test that forgets that the writer may have wrapped.
KernelGetc_unwrapped ==
  /\ reader = "kernel" /\ phase = "kbd" /\ inbox = <<>>
  /\ phase' = "serial"
  /\ IF cons.rpos < cons.wpos
     THEN /\ cons' = [cons EXCEPT !.rpos = Advance(@)]
          /\ read' = read + 1
          /\ ReadlineStep(screen, cons.buf[cons.rpos])
     ELSE UNCHANGED <<cons, read, line, arrowed, screen>>
  /\ UNCHANGED <<inbox, serial, down, shift, reader, lap, written, events,
                 received>>

\* kbd_proc_data returns -1; the oldest character goes to the line reader,
\* and with none waiting getchar calls again.
KernelGetc ==
  /\ reader = "kernel" /\ phase = "kbd" /\ inbox = <<>>
  /\ phase' = "serial"
  /\ IF Waiting(cons)
     THEN /\ cons' = [cons EXCEPT !.rpos = Advance(@)]
          /\ read' = read + 1
          /\ ReadlineStep(screen, cons.buf[cons.rpos])
     ELSE UNCHANGED <<cons, read, line, arrowed, screen>>
  /\ UNCHANGED <<inbox, serial, down, shift, reader, lap, written, events,
                 received>>

---------------------------------------------------------------------------
(* A program's reader: each turn of getchar's loop is a system call.  It   *)
(* polls both devices once, and takes a character out of the ring only if  *)
(* the keyboard has just completed one.                                    *)

\* The ring is looked at before the devices are polled.
Takes_before(c2, ring) == c2 > 0 /\ Waiting(cons)

Takes(c2, ring) == c2 > 0 /\ Waiting(ring)

UserGetc ==
  LET c1    == IF serial = <<>> THEN 0 ELSE Head(serial)
      c2    == IF inbox = <<>> THEN 0 ELSE CharOf(shift, Head(inbox))
      ring  == Put(Put(cons, c1), c2)
      typed == ScreenAfterDecode(c2)
  IN  /\ reader = "user"
      /\ serial' = IF serial = <<>> THEN serial ELSE Tail(serial)
      /\ inbox' = IF inbox = <<>> THEN inbox ELSE Tail(inbox)
      /\ shift' = IF inbox = <<>> THEN shift ELSE ShiftAfter(shift, Head(inbox))
      /\ written' = written + Counted(c1) + Counted(c2)
      /\ lap' = LapAfter(LapAfter(lap, c1), c2)
      /\ IF Takes(c2, ring)
         THEN /\ cons' = [ring EXCEPT !.rpos = Advance(@)]
              /\ read' = read + 1
              /\ ReadlineStep(typed, ring.buf[ring.rpos])
         ELSE cons' = ring /\ screen' = typed /\ UNCHANGED <<read, line, arrowed>>
      /\ UNCHANGED <<down, phase, reader, events, received>>

---------------------------------------------------------------------------

\* A blank screen with the cursor at the start of the last row.
cga_init == [buf |-> [p \in 0..CRT_SIZE - 1 |-> SPACE], pos |-> LastRow, text |-> 0]

\* console_initialize: the port exists, the ring is empty, and the prompt is
\* written.
Init ==
  /\ inbox = <<>> /\ serial = <<>> /\ down = {} /\ shift = {}
  /\ cons = [buf |-> [n \in 0..CONSBUFSIZE - 1 |-> 0], rpos |-> 0, wpos |-> 0]
  /\ screen = ShowPrompt(cga_init)
  /\ line = <<>> /\ arrowed = FALSE
  /\ phase = "serial"
  /\ reader \in {"kernel", "user"}
  /\ lap = [n \in 1..CONSBUFSIZE |-> 0]
  /\ written = 0 /\ read = 0 /\ events = 0 /\ received = 0

KernelPolls == KernelSerial \/ KernelSerialDone \/ KernelKbd \/ KernelGetc

Next ==
  \/ \E key \in Keys : Press(key) \/ Release(key)
  \/ SerialArrives
  \/ KernelPolls
  \/ UserGetc

\* getchar's loop never stops while the kernel waits for a line.
Spec == Init /\ [][Next]_vars /\ WF_vars(KernelPolls)

---------------------------------------------------------------------------
(* Properties. *)

\* The slots from rpos up to wpos.
Contents ==
  LET count == (cons.wpos - cons.rpos) % CONSBUFSIZE
  IN  [n \in 1..count |-> cons.buf[(cons.rpos + n - 1) % CONSBUFSIZE]]

\* cons_intr writes without looking at the reader.  What waits in the ring is
\* always the end of what was typed, in order; when the writer has overtaken
\* the reader exactly whole laps of it are lost, never a part of one.
RingHoldsLastLap ==
  LET count == (written - read) % CONSBUFSIZE
  IN  Contents = SubSeq(lap, CONSBUFSIZE - count + 1, CONSBUFSIZE)

\* kbd_proc_data tells left and right modifiers apart by the E0 escape only on
\* the way in: once the bytes are decoded, a modifier that is set belongs to a
\* key that is held down, whatever the order of presses, repeats and releases.
NoStuckModifier ==
  inbox = <<>> =>
    \A f \in shift \cap {SHIFT, CTL, ALT} :
      \E key \in down :
        f \in shiftcode(IF key.ext THEN key.code + 128 ELSE key.code)

\* readline echoes what it stores: the cells before the cursor show the line,
\* through backspaces, full buffers, wrapped rows, scrolling and DEL.  The cursor
\* keys break it, for readline stores the key and the screen obeys it.
ScreenShowsLine ==
  ~arrowed =>
    /\ screen.pos < CRT_SIZE
    /\ \A n \in DOMAIN line : screen.buf[screen.pos - Len(line) + n - 1] = line[n]

\* cons_getc2 is to return the next character, or 0 if none is waiting.  As long as
\* the serial port has delivered nothing, a program has read every character that
\* was typed, each in the call that decoded it; with a serial byte in the ring
\* this is not claimed.
UserReadsTyped ==
  reader = "user" /\ received = Len(serial) => read = written

\* More characters have been put in the ring than it holds before they were read.
Lapped == written - read >= CONSBUFSIZE

\* The kernel's getchar keeps polling: the devices are drained, and every character
\* that was put in the ring is read, unless the ring has been lapped, when a whole
\* buffer of them never is.
KernelReadsAll ==
  (reader = "kernel") ~> (inbox = <<>> /\ serial = <<>> /\ (read = written \/ Lapped))

\* Input keeps its order and its meaning from the key to the reader: modifiers
\* of keys that are held, the end of what was typed in the ring, and a program
\* that keeps up with the keyboard.
InputInOrder == RingHoldsLastLap /\ NoStuckModifier /\ UserReadsTyped

=============================================================================
