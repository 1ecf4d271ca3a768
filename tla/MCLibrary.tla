----------------------------- MODULE MCLibrary -----------------------------
\* Small inputs for every routine of Library, the programs of MCSystemCalls and
\* the identifiers of EnvIds.  The three have no state in common: a behaviour is
\* of one of them.
EXTENDS Library, MCSystemCalls, EnvIds

\* Two lists without common elements.
TwoLists == {q \in [Lists -> UNION {[1..n -> Elements] : n \in 0..3}] :
               LET s == q[1] \o q[2] IN \A i, j \in DOMAIN s : s[i] = s[j] => i = j}

Memories(n) == [1..n -> 0..2]

\* Memory with a string of at most 2 bytes at 1 and another one at 4.
TwoStrings == {m \in Memories(6) : m[3] = 0 /\ m[6] = 0}

Lines == UNION {[1..n -> {10, 11, CharSpace, CharTab}] : n \in 0..5}

Numbers == {-2048, -2047, -1999, -101, -100, -12, -10, -1, 0, 1, 9, 10, 12, 100, 101, 2047}

Texts == UNION {[1..n -> {CharPercent, CharMinus, 5, 0, 26}] : n \in 0..5}

\* One format for each path through the switch, with its arguments.
Conversions ==
  LET P == CharPercent
  IN  {[fmt |-> <<P, Letter(c)>>, args |-> <<v>>] : c \in {"c", "d", "u", "x", "p", "e"},
                                                   v \in {3, 200}}
      \cup {[fmt |-> <<P, 4, Letter("l"), Letter("l"), Letter(c)>>, args |-> <<v, w>>] :
              c \in {"d", "u", "x"}, v \in {0, 7}, w \in {-1, 0, 1}}
      \cup {[fmt |-> <<P, 0, Letter("l"), Letter("d")>>, args |-> <<-3>>],
            [fmt |-> <<P, CharMinus, CharStar, Letter("s")>>, args |-> <<3, <<10>>>>],
            [fmt |-> <<P, CharStar, CharDot, CharStar, Letter("s")>>,
             args |-> <<4, 1, <<10, 11>>>>],
            [fmt |-> <<P, CharHash, Letter("s")>>, args |-> <<<<10, CharControl>>>>],
            [fmt |-> <<P, 7, Letter("s")>>, args |-> <<NullString>>],
            [fmt |-> <<P, Letter("e")>>, args |-> <<-4>>],
            [fmt |-> <<P, Letter("o")>>, args |-> <<>>],
            [fmt |-> <<P, 5, P>>, args |-> <<>>],
            [fmt |-> <<26, P, 5, 26>>, args |-> <<>>]}

\* Positions 0..4, with the header first; addresses do not fall.  Some are 2 apart,
\* as in the example above stab_binsearch.
Tables == {t \in [0..4 -> [type : {"SO", "FUN", "other"}, value : {4, 6, 9, 14}]] :
             /\ t[0] = [type |-> "other", value |-> 4]
             /\ \A i \in 1..3 : t[i].value <= t[i + 1].value}

Segments == {[va |-> va, size_in_file |-> f, size_in_memory |-> f + more,
              image |-> [k \in 0..40 |-> k + 1]] :
               va \in 6..11, f \in 0..10, more \in {0, 1, 2, 3, 4, 7, 15}}

PollTimes == {<<b, b + x, b + x + y>> : b \in {0, 3, 13}, x \in 0..20, y \in 1..20}

\* Tables of the first two directory entries; the others are absent.
PageMaps(entries) ==
  {[i \in 0..(ENTRIES - 1) |-> IF i < 2 THEN d[i] ELSE [is |-> "absent"]] :
     d \in [0..1 -> [is : {"memory"}, table : entries] \cup [is : {"absent", "removed"}]]}

\* Tables whose pages have one of two entries, by which half they are in.
HalfTables(entry) ==
  {[j \in 0..(ENTRIES - 1) |-> IF j < ENTRIES \div 2 THEN e ELSE f] : e, f \in entry}

Flags == SUBSET {PERM_PRESENT, PERM_WRITEABLE}

PageEntries == {Unmapped} \cup [frame : {TRUE}, perms : Flags]

CallSome ==
  /\ call = Idle
  /\ \/ \E q \in TwoLists, stale \in {NULL, 1} :
          \/ ListCall(q, stale)
          \/ ConcatCall(q, stale)
          \/ \E removed \in SUBSET Elements : ForeachCall(q, stale, removed)
     \/ \E m \in Memories(5), dst, src \in 1..5, n \in 0..4 : MoveCall(m, dst, src, n)
     \/ \E m \in TwoStrings, size \in 0..3 : CopyCall(m, 4, 1, size)
     \/ \E m \in TwoStrings, n \in 0..3 : CompareCall(m, 1, 4, n)
     \/ \E s \in Lines, split \in {{CharSpace}, {CharSpace, CharTab}} : SplitCall(s, split)
     \/ \E v \in (-1200..1200) \cup {-2048, -2047, 2047} : NumberCall(v)
     \/ \E flag \in {End, 0, CharMinus}, width \in 0..6,
           conv \in {Letter("d"), Letter("u"), Letter("x")}, v \in Numbers :
          PrintNumberCall(flag, width, conv, v)
     \/ \E flag \in {End, 0, CharMinus}, width \in 0..4, precision \in -1..3,
           arg \in UNION {[1..n -> {10, 11}] : n \in 0..3} :
          /\ PrintStringCall(flag, width, precision, arg)
     \/ \E n \in 0..4, width \in 0..4, v \in {-12, 3} :
          PrintToCall(n, NumberFormat(End, width, Letter("d")), <<v>>)
     \/ \E fmt \in Texts :
          /\ \A i, j \in DOMAIN fmt : fmt[i] = CharPercent /\ fmt[j] = CharPercent => i = j
          /\ PrintTextCall(fmt)
     \/ \E c, d \in Conversions : PrintTwoCall(c, d)
     \/ \E t \in Tables, addr \in 3..16 :
          \/ \E type \in {"SO", "FUN"} : SearchCall(t, type, addr)
          \/ DebugCall(t, addr)
     \/ \E q \in 0..255 : QuantumCall(q)
     \/ \E cnt0 \in (0..60) \cup (65500..65535) : ResumeCall(cnt0)
     \/ \E ms \in 0..6, polls \in PollTimes : SleepCall(ms, polls)
     \/ \E frames \in {30, 34, 40, 56, 64}, end \in 19..24, stack \in {15, 18},
           envs \in {2, 3, 11, 12} :
          BootCall(frames, KERNEL_BASE + end, KERNEL_BASE + stack, envs)
     \/ \E mem \in {0, 640} \cup 1000..1100 \cup 16300..16600 \cup 261900..262300 : DetectCall(mem)
     \/ \E dir \in PageMaps(HalfTables(PageEntries)), va \in {4, 50}, set, clear \in Flags :
          PermissionCall(dir, va, set, clear)
     \/ \E dir \in PageMaps(HalfTables({Unmapped, [frame |-> TRUE, perms |-> {}]})),
           start \in 20..75, size \in {0, 1, 2, 3, 20, 48, 49, 95, 96, 100} :
          /\ \A i \in DOMAIN dir : dir[i].is # "removed"
          /\ RequiredCall(dir, start, size)
     \/ \E frames \in {10, 99, 100}, free \in 0..100, percentage \in {0, 1, 25, 50, 99, 100} :
          free <= frames /\ ScarceCall(frames, free, percentage)
     \/ \E n \in 0..4, ph \in [0..4 -> {"LOAD", "other"}] : HeadersCall(ph, n)
     \/ \E seg \in Segments, room \in 0..8 : LoadCall(seg, room)

Booted == curenv = NoEnv /\ \A e \in Envs : served[e].fn = "none"

NoIds == fresh = 0 /\ handle = NoSlot

Next ==
  \/ Booted /\ NoIds /\ CallSome /\ UNCHANGED <<sysvars, idvars>>
  \/ Return /\ UNCHANGED <<sysvars, idvars>>
  \/ call = Idle /\ NoIds /\ SysNext /\ UNCHANGED <<libvars, idvars>>
  \/ call = Idle /\ Booted /\ IdsNext /\ UNCHANGED <<libvars, sysvars>>

Init == LibraryInit /\ SysInit /\ IdsInit

Spec == Init /\ [][Next]_<<libvars, sysvars, idvars>>

=============================================================================
