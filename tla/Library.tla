------------------------------ MODULE Library ------------------------------
(***************************************************************************)
(* Calls of the routines that keep no state of their own: the lists, the   *)
(* strings and formatted output, the search of the stabs, the timer's      *)
(* counts and the loading of a segment.  A call is made with some input,   *)
(* has its result, and is over: what a routine does on one input does not  *)
(* depend on the calls before it, so that the calls are checked one by one *)
(* against what the routine is for.                                        *)
(***************************************************************************)
EXTENDS IntrusiveList, PrintFormat, Stabs, IntervalTimer, ProgramLoader, BootMapping,
        PageTables

CONSTANT MAX_ARGUMENTS

VARIABLES call, result

Idle == [fn |-> "none"]

libvars == <<call, result>>

LibraryInit == call = Idle /\ result = Idle

Call(fn, in, out) ==
  /\ call = Idle
  /\ call' = [fn |-> fn, in |-> in]
  /\ result' = out

Return == call # Idle /\ call' = Idle /\ result' = Idle

-----------------------------------------------------------------------------
(* Lists.  q holds the sequences of the lists, of which 1 and 2 are        *)
(* concatenated and looped over.                                           *)

ASSUME ListsUsed == {1, 2} \subseteq Lists

Free(q) == {e \in Elements : \A l \in Lists : \A i \in DOMAIN q[l] : q[l][i] # e}

Apply(s, op) ==
  CASE op.name = "head"   -> LIST_INSERT_HEAD(s, op.list, op.e)
    [] op.name = "tail"   -> LIST_INSERT_TAIL(s, op.list, op.e)
    [] op.name = "after"  -> LIST_INSERT_AFTER(s, op.list, op.at, op.e)
    [] op.name = "before" -> LIST_INSERT_BEFORE(s, op.list, op.at, op.e)
    [] op.name = "remove" -> LIST_REMOVE(s, op.list, op.at)
    [] op.name = "init"   -> LIST_INIT(s, op.list)

\* The operations that a user of the lists may do: an element is in one list
\* at most, and is removed from the list it is in.
Operations(q) ==
  UNION {[name : {"init"}, list : {l}]
         \cup [name : {"head", "tail"}, list : {l}, e : Free(q)]
         \cup [name : {"after", "before"}, list : {l}, at : {q[l][i] : i \in DOMAIN q[l]},
               e : Free(q)]
         \cup [name : {"remove"}, list : {l}, at : {q[l][i] : i \in DOMAIN q[l]}]
         : l \in Lists}

ListCall(q, stale) ==
  \E op \in Operations(q) : Call("list", [q |-> q, op |-> op], Apply(Store(q, stale), op))

ConcatCall(q, stale) ==
  Call("concat", [q |-> q], LIST_CONCAT(Store(q, stale), 1, 2))

ForeachCall(q, stale, removed) ==
  Call("foreach", [q |-> q, removed |-> removed], LIST_FOREACH(Store(q, stale), 1, removed))

\* The sequence of the list after the operation.
Sequence(s, op) ==
  LET at == CHOOSE i \in DOMAIN s : s[i] = op.at
  IN  CASE op.name = "head"   -> <<op.e>> \o s
        [] op.name = "tail"   -> Append(s, op.e)
        [] op.name = "after"  -> InsertAt(s, at + 1, op.e)
        [] op.name = "before" -> InsertAt(s, at, op.e)
        [] op.name = "remove" -> RemoveAt(s, at)
        [] op.name = "init"   -> <<>>

\* Whatever links an element was left with, a list behaves as a sequence: each
\* operation leaves the links of both directions, the ends and the size of the
\* two lists as the sequences have them.  So does LIST_CONCAT, which empties the
\* second list unless the first one was empty, in which case both lists hold its
\* elements; the size of the result is claimed only when a list was empty.
ListsAreSequences ==
  /\ call.fn = "list" =>
       LET q  == call.in.q
           op == call.in.op
           q2 == [q EXCEPT ![op.list] = Sequence(@, op)]
       IN  \A l \in Lists : Holds(result, l, q2[l]) /\ LIST_SIZE(result, l) = Len(q2[l])
  /\ call.fn = "concat" =>
       LET q == call.in.q
           left == IF q[1] = <<>> THEN q[2] ELSE <<>>
       IN  /\ Holds(result, 1, q[1] \o q[2])
           /\ (q[1] = <<>> \/ q[2] = <<>>) => LIST_SIZE(result, 1) = Len(q[1] \o q[2])
           /\ Holds(result, 2, left) /\ LIST_SIZE(result, 2) = Len(left)

\* The elements of q that are not removed, in their order.
Remaining(q, removed) ==
  LET left[i \in 0..Len(q)] == IF i = 0 THEN <<>>
                               ELSE IF q[i] \in removed THEN left[i - 1]
                               ELSE Append(left[i - 1], q[i])
  IN  left[Len(q)]

\* A loop whose body removes the element it is at (freeMem, env_free, the loops
\* over the queues) still visits every element once, in order, and ends with
\* the list of the others.
ForeachVisitsEach ==
  call.fn = "foreach" =>
    LET q    == call.in.q[1]
        left == Remaining(q, call.in.removed)
    IN  /\ result.visited = q /\ result.at = NULL
        /\ Holds(result.store, 1, left) /\ LIST_SIZE(result.store, 1) = Len(left)

-----------------------------------------------------------------------------
(* Memory and strings *)

MoveCall(m, dst, src, n) ==
  /\ dst + n - 1 \in DOMAIN m /\ src + n - 1 \in DOMAIN m
  /\ Call("move", [m |-> m, dst |-> dst, src |-> src, n |-> n],
          [memmove |-> memmove(m, dst, src, n), memcpy |-> memcpy(m, dst, src, n)])

\* memmove moves as if through a buffer, however the regions overlap, and so
\* does memcpy when the destination does not begin inside the source.
MovesExactly ==
  call.fn = "move" =>
    LET c     == call.in
        moved == [x \in DOMAIN c.m |-> IF x \in c.dst..(c.dst + c.n - 1)
                                       THEN c.m[x - c.dst + c.src] ELSE c.m[x]]
    IN  /\ result.memmove = moved
        /\ c.dst \notin (c.src + 1)..(c.src + c.n - 1) => result.memcpy = moved

\* A string at src is copied to a buffer of size bytes at dst.
CopyCall(m, dst, src, size) ==
  Call("copy", [m |-> m, dst |-> dst, src |-> src, size |-> size],
       [strlcpy |-> strlcpy(m, dst, src, size), strncpy |-> strncpy(m, dst, src, size),
        strcpy |-> strcpy(m, dst, src), memset |-> memset(m, dst, NUL, size)])

PrintToCall(n, fmt, args) ==
  Call("snprintf", [n |-> n, fmt |-> fmt, args |-> args], vsnprintf(n, fmt, args))

\* Nothing outside the buffer is written, strlcpy and snprintf end what they
\* write with a 0 inside it, and what is kept is the beginning of the text.
CopiesStayInBuffer ==
  /\ call.fn = "copy" =>
       LET c == call.in
           r == result
           outside == DOMAIN c.m \ c.dst..(c.dst + c.size - 1)
           text == Text(c.m, c.src)
           kept == SubSeq(text, 1, IF Len(text) < c.size THEN Len(text) ELSE c.size - 1)
       IN  /\ \A x \in outside : r.strlcpy.mem[x] = c.m[x] /\ r.strncpy[x] = c.m[x]
                                 /\ r.memset[x] = c.m[x]
           /\ c.size > 0 => Text(r.strlcpy.mem, c.dst) = kept /\ r.strlcpy.ret = Len(kept)
           /\ c.size > Len(text) => /\ Text(r.strncpy, c.dst) = text
                                    /\ Text(r.strcpy, c.dst) = text
                                    /\ memcmp(r.strncpy, c.dst, c.src, Len(text)) = 0
           /\ strnlen(r.memset, c.dst, c.size) = 0
  /\ call.fn = "snprintf" =>
       LET out == vprintfmt(call.in.fmt, call.in.args)
           n   == call.in.n
       IN  n >= 1 => /\ Len(result.buf) <= n /\ result.ret = Len(out)
                     /\ result.buf = Append(SubSeq(out, 1, Len(result.buf) - 1), End)
                     /\ Len(result.buf) < n => result.ret = Len(result.buf) - 1

CompareCall(m, p, q, n) ==
  Call("compare", [m |-> m, p |-> p, q |-> q, n |-> n],
       [strcmp |-> strcmp(m, p, q), strncmp |-> strncmp(m, p, q, n),
        memcmp |-> memcmp(m, p, q, n), chr |-> strchr(m, p, n), find |-> memfind(m, p, n, n)])

Sign(n) == IF n < 0 THEN -1 ELSE IF n > 0 THEN 1 ELSE 0

\* The lexicographic order of two sequences of bytes, a beginning first.
Order(s, t) ==
  LET diff == {i \in DOMAIN s \cap DOMAIN t : s[i] # t[i]}
      i    == CHOOSE k \in diff : \A j \in diff : k <= j
  IN  IF diff = {} THEN Sign(Len(s) - Len(t)) ELSE Sign(s[i] - t[i])

\* The comparisons have the sign of the lexicographic order, of the first n
\* bytes where n is given; the searches find the first place.
ComparisonsAreOrder ==
  call.fn = "compare" =>
    LET c == call.in
        s == Text(c.m, c.p)
        t == Text(c.m, c.q)
        first(u) == SubSeq(u, 1, IF c.n < Len(u) THEN c.n ELSE Len(u))
        bytes(a) == [i \in 1..c.n |-> c.m[a + i - 1]]
    IN  /\ Sign(result.strcmp) = Order(s, t)
        /\ Sign(result.strncmp) = Order(first(s), first(t))
        /\ Sign(result.memcmp) = Order(bytes(c.p), bytes(c.q))
        /\ result.chr = -1 <=> (c.n = 0 \/ \A i \in DOMAIN s : s[i] # c.n)
        /\ result.find = c.p + c.n <=> \A i \in 1..c.n : bytes(c.p)[i] # c.n

SplitCall(string, split) ==
  Call("split", [string |-> string, split |-> split], strsplit(string, split, MAX_ARGUMENTS))

\* The words of a string: the longest runs without a split character.
WordAt(s, split, i, j) ==
  /\ \A k \in i..j : s[k] \notin split
  /\ At(s, i - 1) \in split \cup {End} /\ At(s, j + 1) \in split \cup {End}

\* argv holds the words of the command line in order, all of them when the
\* result is 1, and room is kept for the null behind the last one.
ArgumentsAreWords ==
  call.fn = "split" =>
    LET s     == call.in.string
        words == {w \in (DOMAIN s) \X (DOMAIN s) :
                    w[1] <= w[2] /\ WordAt(s, call.in.split, w[1], w[2])}
        nth(n) == CHOOSE w \in words : Cardinality({v \in words : v[1] < w[1]}) = n - 1
    IN  /\ Len(result.argv) <= MAX_ARGUMENTS - 1
        /\ result.ret = 1 <=> Len(result.argv) = Cardinality(words)
        /\ \A n \in DOMAIN result.argv : result.argv[n] = SubSeq(s, nth(n)[1], nth(n)[2])

-----------------------------------------------------------------------------
(* Numbers and formats *)

NumberCall(v) == Call("number", [v |-> v], ltostr(v))

\* A digit of v above the lowest is 0 although a higher one is not.
HasZeroInside(v) ==
  LET size == IF v < 0 THEN 0 - v ELSE v
  IN  \E k \in 1..3 : LET d == 10 ^ k IN size \div d > 0 /\ (size \div d) % 10 = 0

\* A format with the flag, width and conversion given (0 for no width, End for
\* no flag), for the number v.
NumberFormat(flag, width, conv) ==
  <<CharPercent>> \o (IF flag = End THEN <<>> ELSE <<flag>>)
                  \o (IF width = 0 THEN <<>> ELSE <<width>>) \o <<conv>>

PrintNumberCall(flag, width, conv, v) ==
  LET fmt == NumberFormat(flag, width, conv)
  IN  Call("print number", [flag |-> flag, width |-> width, conv |-> conv, v |-> v],
           vprintfmt(fmt, <<v>>))

\* The base in which a conversion prints.
Base(conv) == IF conv = Letter("x") THEN 16 ELSE 10

\* What ltostr and the conversions print, strtol reads back as the same number.
\* Of ltostr this is claimed for numbers without a 0 above the lowest digit (its
\* loop ends there) that are not the smallest one (which cannot be negated); of
\* the conversions, down to the smallest number, unless blanks are between the
\* sign and the digits or the flag "-" pads a number.  A padded number is as wide
\* as was asked for, and no wider when it has no sign.
NumbersReadBack ==
  /\ call.fn = "number" =>
       (~HasZeroInside(call.in.v) /\ call.in.v # 0 - (WORD \div 2)
        => strtol(result, 10).val = call.in.v)
  /\ call.fn = "print number" =>
       LET c      == call.in
           digits == Len(printnum(IF c.v < 0 /\ c.conv = Letter("d") THEN 0 - c.v
                                  ELSE c.v % WORD, Base(c.conv), 0, 0))
           signed == c.v < 0 /\ c.conv = Letter("d")
           padded == c.width > digits
           spoilt == padded /\ (c.flag = CharMinus \/ (signed /\ c.flag = End))
       IN  /\ ~spoilt => strtol(result, Base(c.conv)).val = c.v
           /\ Len(result) >= c.width
           /\ ~signed => Len(result) = IF padded THEN c.width ELSE digits

\* The precision, when not negative, is an argument, as in sys_cputs (a digit 0
\* behind the dot would be taken for the flag).
StringFormat(flag, width, precision) ==
  <<CharPercent>> \o (IF flag = End THEN <<>> ELSE <<flag>>)
                  \o (IF width = 0 THEN <<>> ELSE <<width>>)
                  \o (IF precision < 0 THEN <<>> ELSE <<CharDot, CharStar>>)
                  \o <<Letter("s")>>

PrintStringCall(flag, width, precision, arg) ==
  Call("print string", [flag |-> flag, width |-> width, precision |-> precision, arg |-> arg],
       vprintfmt(StringFormat(flag, width, precision),
                 IF precision < 0 THEN <<arg>> ELSE <<precision, arg>>))

\* A string is printed up to the precision, and as it is without one.  Of a width
\* larger than that nothing is claimed: widths are for numbers.
StringsCutAtPrecision ==
  call.fn = "print string" =>
    LET c == call.in
        n == IF c.precision \in 0..Len(c.arg) THEN c.precision ELSE Len(c.arg)
    IN  c.width <= n => result = SubSeq(c.arg, 1, n)

PrintTextCall(fmt) == Call("print text", [fmt |-> fmt], vprintfmt(fmt, <<>>))

\* A format without a conversion is printed as it is, an escape that is not
\* known included, wherever it stands.
UnknownPrintedAsIs == call.fn = "print text" => result = call.in.fmt

PrintTwoCall(c, d) ==
  Call("print two", [first |-> c, second |-> d], vprintfmt(c.fmt \o d.fmt, c.args \o d.args))

\* Every conversion takes its own arguments, as many words as it prints, and
\* leaves no flag, width or precision to the next one: two conversions behind
\* each other print what they print alone.
ConversionsIndependent ==
  call.fn = "print two" =>
    result = vprintfmt(call.in.first.fmt, call.in.first.args)
             \o vprintfmt(call.in.second.fmt, call.in.second.args)

-----------------------------------------------------------------------------
(* Stabs *)

SearchCall(stabs, type, addr) ==
  Call("search", [stabs |-> stabs, type |-> type, addr |-> addr],
       stab_binsearch(stabs, 0, Cardinality(DOMAIN stabs) - 1, type, addr))

DebugCall(stabs, addr) ==
  Call("debug", [stabs |-> stabs, addr |-> addr], debuginfo_eip(stabs, addr))

\* "*region_left points to the matching stab that contains 'addr', and
\* *region_right points just before the next stab", when there is one; and the
\* function reported for an instruction is the last one of its file that does
\* not begin behind it.  This is claimed unless the address is that of a stab and
\* the next one begins within AddrIncrement of it.
SearchBrackets ==
  /\ call.fn = "search" =>
       LET c    == call.in
           N    == Cardinality(DOMAIN c.stabs)
           last == LastUpTo(c.stabs, 0, N - 1, c.type, c.addr)
       IN  ~Misled(c.stabs, c.type, c.addr) =>
             /\ last # -1 => /\ result.left = last
                             /\ result.right = BeforeNext(c.stabs, 0, N - 1, c.type, c.addr)
             /\ (\A i \in DOMAIN c.stabs : c.stabs[i].type # c.type) => result.left > result.right
  /\ call.fn = "debug" =>
       LET c     == call.in
           N     == Cardinality(DOMAIN c.stabs)
           file  == LastUpTo(c.stabs, 0, N - 1, "SO", c.addr)
           next  == BeforeNext(c.stabs, 0, N - 1, "SO", c.addr)
           fn    == LastUpTo(c.stabs, file, next, "FUN", c.addr)
       IN  (/\ file > 0 /\ fn # -1
            /\ ~Misled(c.stabs, "SO", c.addr) /\ ~Misled(c.stabs, "FUN", c.addr))
           => result.ret = 0 /\ result.fn = fn /\ result.file \in file..fn

-----------------------------------------------------------------------------
(* The timer *)

QuantumCall(q) ==
  Call("quantum", [q |-> q], [start |-> kclock_start(q), set |-> kclock_set_quantum(q)])

ResumeCall(cnt0) == Call("resume", [cnt0 |-> cnt0], kclock_resume(cnt0))

\* The counts of a period of q ms.
Period(q) == (q * TIMER_FREQ) \div 1000

\* What the timer counts for a count it is loaded with.
Counted(count) == IF count = 0 THEN 65536 ELSE count

\* A quantum of up to 52 ms is never shorter than asked for (of 53 ms, whose count
\* does not fit the timer, this is not claimed); and what is left of a quantum
\* after a trap is never cut, and grows by one count at most unless it was below
\* 20.
QuantumKept ==
  /\ call.fn = "quantum" /\ result.set # None =>
       /\ result.set % 2 = 0 /\ result.set - result.start \in {0, 1}
       /\ call.in.q < QUANTUM_LIMIT - 1 => result.set >= Period(call.in.q)
  /\ call.fn = "resume" =>
       LET c == call.in.cnt0
           r == Counted(result)
       IN  r % 2 = 0 /\ r >= c /\ (c >= 20 => r <= c + 1)

SleepCall(ms, polls) == Call("sleep", [ms |-> ms, polls |-> polls], env_sleep(ms, polls))

\* A sleep shorter than one turn of the counter's low half never ends early, and
\* ends at the first poll that finds it over, unless no poll did before the
\* low half turned.
SleepLongEnough ==
  call.fn = "sleep" =>
    LET polls == call.in.polls
        asked == call.in.ms * CYCLES_PER_MILLISEC
        past(k) == polls[k] - polls[1]
    IN  asked < TICKS =>
          /\ result # NotYet => past(result) >= asked
          /\ \A k \in 2..Len(polls) :
               past(k) \in asked..(TICKS - 1) => result # NotYet /\ result <= k

-----------------------------------------------------------------------------
(* Boot *)

BootCall(frames, end_of_kernel, stack_bottom, envs_size) ==
  LET s == initialize_kernel_VM(frames, end_of_kernel, stack_bottom, envs_size)
  IN  Call("boot", [frames |-> frames, end |-> end_of_kernel, stack |-> stack_bottom,
                    envs |-> envs_size],
           [vm |-> s, free |-> IF s.ok THEN initialize_paging(frames, s.free) ELSE {}])

Fits(s) == STATIC_KERNEL_PHYSICAL_ADDRESS(s.free) <= s.frames * PAGE_SIZE

\* The directory entries that a kernel has.
KernelIndices == {PDX(VPT), PDX(UVPT), PDX(KERNEL_STACK_TOP - 1), PDX(UENVS)}
                 \cup PDX(KERNEL_BASE)..(ENTRIES - 1)

Maps(s, va, size, pa) ==
  \A i \in Stepped(0, size, PAGE_SIZE) : check_va2pa(s, va + i) = pa + i

\* When the memory is large enough, all of it is at KERNEL_BASE, the stack and
\* the environments are where they belong and nothing else has a table; the
\* directory shows itself and the tables at VPT and UVPT; and of what the
\* kernel has set, programs can read only the environments and the tables,
\* and write nothing.  A new table is not cleared: behind the stack and behind
\* the environments the entries are what the memory had in them.
BootMapsKernel ==
  call.fn = "boot" =>
    LET s     == result.vm
        c     == call.in
        envs  == STATIC_KERNEL_PHYSICAL_ADDRESS(s.areas[9].start)
        pages == Stepped(0, ADDRESSES, PAGE_SIZE)
        stack == KERNEL_STACK_TOP - KERNEL_STACK_SIZE
    IN  Fits(s) =>
          /\ s.ok
          /\ Maps(s, KERNEL_BASE, ADDRESSES - KERNEL_BASE, 0)
          /\ Maps(s, stack, KERNEL_STACK_SIZE, STATIC_KERNEL_PHYSICAL_ADDRESS(c.stack))
          /\ Maps(s, UENVS, c.envs, envs)
          /\ {i \in 0..(ENTRIES - 1) : Dir(s)[i] # Zero} = KernelIndices
          /\ \A i \in KernelIndices, v \in {VPT, UVPT} :
               check_va2pa(s, v + i * PAGE_SIZE) = Dir(s)[i].pa
          /\ \A va \in pages :
               /\ Entry(s, va) = Unset <=>
                    \/ PDX(va) = PDX(stack) /\ va < stack
                    \/ PDX(va) = PDX(UENVS) /\ va >= UENVS + c.envs
               /\ PERM_USER \in UserPerms(s, va) =>
                    /\ PERM_WRITEABLE \notin UserPerms(s, va)
                    /\ PDX(va) \in {PDX(UENVS), PDX(UVPT)}

\* No frame is free that holds the kernel, one of its areas, the I/O hole or one
\* of the three frames set aside, the areas do not overlap, and every other
\* frame is free: what is put in the list twice or never would be lost or shared.
BootFramesReserved ==
  call.fn = "boot" =>
    LET s == result.vm
        frame(kva) == STATIC_KERNEL_PHYSICAL_ADDRESS(kva) \div PAGE_SIZE
        of(a) == IF a.size = 0 THEN {} ELSE frame(a.start)..frame(a.start + a.size - 1)
        used  == 0..2 \cup PHYS_IO_MEM \div PAGE_SIZE..frame(call.in.end - 1)
                 \cup UNION {of(s.areas[i]) : i \in DOMAIN s.areas}
    IN  Fits(s) =>
          /\ result.free = 0..(s.frames - 1) \ used
          /\ \A i, j \in DOMAIN s.areas : i # j => of(s.areas[i]) \cap of(s.areas[j]) = {}

DetectCall(mem) == Call("detect", [mem |-> mem], detect_memory(Nvram(mem)))

\* A machine with more than 1 MB has all its memory found, but for less than
\* a page, or less than 64 KB above 16 MB, and never more than it has; more than
\* the kernel can map stops the boot.  Up to 1 MB none is found.
MemoryFound ==
  call.fn = "detect" =>
    LET mem  == call.in.mem
        unit == IF mem >= Sixteen + 64 THEN 64 ELSE 4
    IN  IF mem < PHYS_EXTENDED_KB + 4 THEN result = 0
        ELSE IF mem >= KernelArea + 64 THEN result = -1
        ELSE result = (IF mem \in Sixteen..(Sixteen + 63)
                       THEN mem - (mem % 4) ELSE mem - (mem % unit)) \div 4

-----------------------------------------------------------------------------
(* Tables of environments *)

PermissionCall(dir, va, set, clear) ==
  Call("permissions", [dir |-> dir, va |-> va, set |-> set, clear |-> clear],
       [set |-> pt_set_page_permissions(dir, va, set, clear),
        cleared |-> pt_clear_page_table_entry(dir, va)])

\* Permissions are read as they were set, what is to be cleared is clear, and no
\* other entry of any table changes; without a table nothing does.  Once
\* remove_table has taken the table, reading permissions panics too.
PermissionsExact ==
  call.fn = "permissions" =>
    LET c   == call.in
        new == result.set.dir
        pages == Stepped(0, 3 * PTSIZE, PAGE_SIZE)
        get(d, va) == pt_get_page_permissions(d, va)
        gone(va) == get(command_remove_table(new, c.va), va)
        none(va) == get(pd_clear_page_dir_entry(new, c.va), va)
    IN  /\ result.set.panic <=> ~InMemory(c.dir, c.va)
        /\ ~result.set.panic =>
             /\ c.set \ c.clear \subseteq get(new, c.va) /\ get(new, c.va) \cap c.clear = {}
             /\ get(new, c.va) \subseteq get(c.dir, c.va) \cup c.set
             /\ get(result.cleared.dir, c.va) = {}
        /\ \A va \in pages \ {ROUNDDOWN(c.va)} :
             /\ get(new, va) = get(c.dir, va)
             /\ get(result.cleared.dir, va) = get(c.dir, va)
             /\ PDX(va) # PDX(c.va) => gone(va) = get(c.dir, va) /\ none(va) = get(c.dir, va)
        /\ gone(c.va) = {"panic"} /\ none(c.va) = {}

RequiredCall(dir, start, size) ==
  Call("required", [dir |-> dir, start |-> start, size |-> size],
       [frames |-> calculate_required_frames(dir, start, size),
        tables |-> freeMem_tables(start, size)])

\* The pages and the tables with an address of start..start + size - 1.
PagesIn(start, size)  == {ROUNDDOWN(a) : a \in start..(start + size - 1)}
TablesIn(start, size) == {PDX(a) : a \in start..(start + size - 1)}

\* The frames that a range still needs are its pages without a frame and its
\* tables that do not exist, each counted once.
RequiredIsMissing ==
  call.fn = "required" /\ call.in.size > 0 =>
    LET c == call.in
    IN  result.frames =
          Cardinality({va \in PagesIn(c.start, c.size) :
                         IF InMemory(c.dir, va) THEN c.dir[PDX(va)].table[PTX(va)] = Unmapped
                         ELSE TRUE})
          + Cardinality({i \in TablesIn(c.start, c.size) : c.dir[i].is = "absent"})

\* freeMem, which steps from an address that is not rounded down, looks at every
\* table of the range it frees.  Of the last table this is claimed only when the
\* range begins no further into its table than it ends.
TablesReached ==
  call.fn = "required" =>
    LET c   == call.in
        end == c.start + c.size
        all == TablesIn(c.start, c.size)
    IN  /\ all \subseteq result.tables \cup {PDX(end - 1)}
        /\ c.size > 0 /\ c.start % PTSIZE <= end % PTSIZE => all \subseteq result.tables

ScarceCall(frames, free, percentage) ==
  Call("scarce", [frames |-> frames, free |-> free, percentage |-> percentage],
       scarce_memory(frames, free, percentage))

\* When the percentage is free, and is a frame at least, all of it but less than a
\* frame is taken: the kernel does not run out of frames, afterwards less than the
\* percentage is free, and not by more than one frame.  Nothing is claimed where
\* less was free already.
ScarceWhenAsked ==
  call.fn = "scarce" =>
    LET c == call.in
        below(free) == free * 100 < c.percentage * c.frames
    IN  ~below(c.free) /\ c.percentage * c.frames >= 100 =>
          result # -1 /\ below(result) /\ ~below(result + 2)

-----------------------------------------------------------------------------
(* Loading *)

HeadersCall(ph, e_phnum) ==
  Call("headers", [ph |-> ph, n |-> e_phnum], PROGRAM_SEGMENT_FOREACH(ph, e_phnum))

\* A loop over the segments visits the headers to load, each once and in order,
\* whatever follows the last header in the image, and none in a program that
\* has none.
SegmentsVisited ==
  call.fn = "headers" =>
    LET toLoad == {i \in 0..(call.in.n - 1) : call.in.ph[i] = "LOAD"}
    IN  /\ {result[k] : k \in DOMAIN result} = toLoad
        /\ \A j, k \in DOMAIN result : j < k => result[j] < result[k]

LoadCall(seg, remaining_ws_pages) ==
  Call("load", [seg |-> seg, ws |-> remaining_ws_pages],
       [mem |-> program_segment_alloc_map_copy_workingset(seg, remaining_ws_pages),
        pf  |-> SegmentToPageFile(<<>>, seg)])

\* Every byte of the segment is in the page file, and in the pages that are
\* loaded, with the same value, so that a page dropped as not modified comes
\* back the same; unless the segment lies inside one page.
SegmentLoaded ==
  call.fn = "load" =>
    LET seg  == call.in.seg
        area == seg.va..(seg.va + seg.size_in_memory - 1)
    IN  /\ \A a \in area : ROUNDDOWN(a) \in DOMAIN result.mem => HoldsByte(result.mem, seg, a)
        /\ ~InsideOnePage(seg) => \A a \in area : HoldsByte(result.pf, seg, a)

-----------------------------------------------------------------------------
(* The properties by component *)

\* The macros of inc/queue.h implement the sequences of the other modules, also
\* for the loops that remove while they iterate.
ListsImplementSequences == ListsAreSequences /\ ForeachVisitsEach

\* The routines of lib/string.c at the edges of their buffers and limits.
StringsAsMeant ==
  MovesExactly /\ CopiesStayInBuffer /\ ComparisonsAreOrder /\ ArgumentsAreWords

\* Formatted numbers can be read back, strings are cut where asked, and no
\* conversion depends on another.
PrintingExact ==
  NumbersReadBack /\ StringsCutAtPrecision /\ UnknownPrintedAsIs /\ ConversionsIndependent

\* A quantum of up to 52 ms and a sleep of less than a turn of the counter are not
\* cut short.
TimeKept == QuantumKept /\ SleepLongEnough

\* env_create loads all segments of a program, and all of each that does not lie
\* inside one page.
ProgramLoaded == SegmentsVisited /\ SegmentLoaded

\* After the boot the kernel is mapped, its memory is not free, and the rest is.
KernelMapped == BootMapsKernel /\ BootFramesReserved /\ MemoryFound

\* The operations on single entries and ranges of tables touch and count exactly
\* the entries meant.
TablesExact == PermissionsExact /\ RequiredIsMissing /\ TablesReached /\ ScarceWhenAsked

=============================================================================
