-------------------------- MODULE SystemCallProofs --------------------------
(***************************************************************************)
(* Proofs about SystemCalls: for any number of programs that do any        *)
(* operations, a system call is a function call to the program, a masked   *)
(* section runs alone, and lines come out in one piece.                    *)
(*                                                                         *)
(* The entry code and the restart are inverse on the registers, so what    *)
(* holds of the registers of a program holds wherever they are kept        *)
(* (Placed).  That lines are whole is an invariant of what is printed and  *)
(* of what is still to be printed (Continues).                             *)
(***************************************************************************)
EXTENDS SystemCalls, SequenceTheorems, TLAPS

-----------------------------------------------------------------------------
(* The invariant *)

RegisterType == [eax : Int, ebx : Int, ecx : Int, edx : Int, esi : Int, edi : Int, ebp : Int,
                 esp : Int, eip : Int, eflags : {0, 1}]

EntryType == [env : Envs, s : Int, len : Int, head : Int]

KernelType == [tstcnt : Int, bypass : Nat, strategy : Int, free : Int]

\* The register r holds the i-th argument.
Argument(args, i) == IF i <= Len(args) THEN args[i] ELSE 0

\* The registers of a program suit the operation it is at, and the answer it has.
Placed(c, op, sv) ==
  /\ c \in RegisterType
  /\ c.eip \in Nat
  /\ c.eip \in {1, 2} => op.fn \in DOMAIN Stub
  /\ c.eip = 1 => /\ c.eax = Number(Stub[op.fn][1])
                  /\ c.edx = Argument(op.args, 1) /\ c.ecx = Argument(op.args, 2)
                  /\ c.ebx = Argument(op.args, 3) /\ c.edi = Argument(op.args, 4)
                  /\ c.esi = Argument(op.args, 5)
  /\ c.eip = 2 => /\ op.fn # "sys_env_exit"
                  /\ sv.fn = op.fn /\ sv.args = op.args
                  /\ op.fn \in Answering => c.eax = sv.value
  /\ c.eip >= 3 => op.fn \notin DOMAIN Stub

\* The operations that the kernel has not served.
Rest(c, p) == IF c.eip = 2 THEN Tail(p) ELSE p

\* The lines of e in p, if the programs in M have masked the clock.
LinesLeft(p, e, M) == PrintsLines(p, e \in M)

\* A line of e of which some is printed and some is not is longer than the
\* buffer, and if it was to be in one piece the clock is masked until it is.
Continues(p, e, M, printed) ==
  \A i \in 1..Len(printed), b \in 1..Len(p) :
    printed[i].env = e /\ printed[i].s > 9 /\ Printed(p[b]) = printed[i].s =>
      /\ printed[i].s \div 10 >= PRINTBUF - 1
      /\ printed[i].s % 10 = 1 =>
           /\ e \in M /\ \A x \in 1..(b - 1) : p[x].fn # "sys_enable_interrupt"
           /\ \A k \in i..Len(printed) : printed[k].env = e

\* What holds of a program and of its calls.
ProgramInv(c, p, sv) ==
  p # <<>> =>
    /\ \A i \in 1..Len(p) : Operation(p[i])
    /\ p[Len(p)] = Does("sys_env_exit", <<>>)
    /\ Placed(c, Head(p), sv)

\* What holds of the lines of e.
LineInv(c, p, e, M, printed) ==
  p # <<>> => LinesLeft(Rest(c, p), e, M) /\ Continues(Rest(c, p), e, M, printed)

QueueInv ==
  /\ curenv \in Envs \cup {NoEnv} /\ ready \in Seq(Envs)
  /\ \A i, j \in 1..Len(ready) : ready[i] = ready[j] => i = j
  /\ \A i \in 1..Len(ready) : ready[i] # curenv /\ prog[ready[i]] # <<>>
  /\ curenv # NoEnv => prog[curenv] # <<>>

CallsType ==
  /\ prog \in [Envs -> Seq(OperationSet)]
  /\ DOMAIN env_tf = Envs /\ env_tf = [e \in Envs |-> env_tf[e]]
  /\ DOMAIN served = Envs /\ served = [e \in Envs |-> served[e]]
  /\ kern \in KernelType /\ console \in Seq(EntryType) /\ masked \subseteq Envs

\* Before the programs are loaded.
NothingRan ==
  curenv = NoEnv /\ (\A e \in Envs : served[e].fn = "none") =>
    \A e \in Envs : env_pop_tf(env_tf[e]) = Registers

CallsInv ==
  /\ CallsType /\ QueueInv /\ NothingRan
  /\ \A e \in masked : curenv = e /\ cpu.eflags = 0
  /\ \A e \in Envs : ProgramInv(Regs(e), prog[e], served[e])

\* What holds of the frame of the last trap of the running program, to which it
\* may have to return, and of what it had still to do then.
FramesInv ==
  /\ saved \in [Envs -> Seq(OperationSet)]
  /\ \A e \in Envs : e # curenv => saved[e] = prog[e]
  /\ \A e \in Envs : e = curenv => /\ saved[e] # <<>>
                                   /\ ProgramInv(env_pop_tf(env_tf[e]), saved[e], served[e])
                                   /\ env_pop_tf(env_tf[e]).eflags = cpu.eflags

LinesInv ==
  /\ (\A e \in Envs : served[e].fn = "none") => console = <<>>
  /\ \A e \in Envs : LineInv(Regs(e), prog[e], e, masked, console)
  /\ LinesContiguous

-----------------------------------------------------------------------------
(* Traps *)

\* The place of each word of the frame.
Place == [edi |-> 1, esi |-> 2, ebp |-> 3, oesp |-> 4, ebx |-> 5, edx |-> 6, ecx |-> 7, eax |-> 8,
          es |-> 9, ds |-> 10, trapno |-> 11, err |-> 12, eip |-> 13, cs |-> 14, eflags |-> 15,
          esp |-> 16, ss |-> 17]

LEMMA FrameWords ==
  /\ DOMAIN Trapframe = 1..17
  /\ \A i \in 1..17 : Place[Trapframe[i]] = i
<1>1. DOMAIN Trapframe = 1..17
  BY DEF Trapframe
<1>2. /\ Trapframe[1] = "edi" /\ Trapframe[2] = "esi" /\ Trapframe[3] = "ebp" /\ Trapframe[4] = "oesp"
      /\ Trapframe[5] = "ebx" /\ Trapframe[6] = "edx" /\ Trapframe[7] = "ecx" /\ Trapframe[8] = "eax"
      /\ Trapframe[9] = "es" /\ Trapframe[10] = "ds" /\ Trapframe[11] = "trapno" /\ Trapframe[12] = "err"
      /\ Trapframe[13] = "eip" /\ Trapframe[14] = "cs" /\ Trapframe[15] = "eflags"
      /\ Trapframe[16] = "esp" /\ Trapframe[17] = "ss"
  BY DEF Trapframe
<1>3. /\ Place["edi"] = 1 /\ Place["esi"] = 2 /\ Place["ebp"] = 3 /\ Place["oesp"] = 4
      /\ Place["ebx"] = 5 /\ Place["edx"] = 6 /\ Place["ecx"] = 7 /\ Place["eax"] = 8
      /\ Place["es"] = 9 /\ Place["ds"] = 10 /\ Place["trapno"] = 11 /\ Place["err"] = 12
      /\ Place["eip"] = 13 /\ Place["cs"] = 14 /\ Place["eflags"] = 15
      /\ Place["esp"] = 16 /\ Place["ss"] = 17
  BY DEF Place
<1>4. \A i \in 1..17 : i \in {1, 2, 3, 4, 5, 6, 7, 8, 9, 10, 11, 12, 13, 14, 15, 16, 17}
  OBVIOUS
<1> QED BY <1>1, <1>2, <1>3, <1>4

\* A frame read by the names of its words.
LEMMA FrameFields ==
  ASSUME NEW stack
  PROVE  \A i \in 1..17 : Trapframe[i] \in ToSet(Trapframe) /\ AsTrapframe(stack)[Trapframe[i]] = stack[i]
<1>1. DOMAIN Trapframe = 1..17 /\ \A i \in 1..17 : Place[Trapframe[i]] = i
  BY FrameWords
<1> SUFFICES ASSUME NEW i \in 1..17
             PROVE  Trapframe[i] \in ToSet(Trapframe) /\ AsTrapframe(stack)[Trapframe[i]] = stack[i]
  OBVIOUS
<1>2. Trapframe[i] \in ToSet(Trapframe)
  BY <1>1 DEF ToSet
<1>3. (CHOOSE j \in DOMAIN Trapframe : Trapframe[j] = Trapframe[i]) = i
  <2>1. \A j \in DOMAIN Trapframe : Trapframe[j] = Trapframe[i] => j = i
    BY <1>1
  <2>2. i \in DOMAIN Trapframe
    BY <1>1
  <2> QED BY <2>1, <2>2
<1> QED BY <1>2, <1>3 DEF AsTrapframe

\* Two runs of words, one after the other.
LEMMA Words ==
  ASSUME NEW q \in Seq(Int), NEW r \in Seq(Int)
  PROVE  /\ q \o r \in Seq(Int) /\ Len(q \o r) = Len(q) + Len(r)
         /\ \A i \in 1..Len(q) : (q \o r)[i] = q[i]
         /\ \A i \in 1..Len(r) : (q \o r)[Len(q) + i] = r[i]
<1> DEFINE m == Len(q)
           n == Len(r)
<1>1. q \o r \in Seq(Int) /\ Len(q \o r) = m + n /\ m \in Nat /\ n \in Nat
      /\ \A i \in 1..(m + n) : (q \o r)[i] = IF i <= m THEN q[i] ELSE r[i - m]
  BY ConcatProperties
<1> HIDE DEF m, n
<1>2. \A i \in 1..m : i \in 1..(m + n) /\ i <= m
  BY <1>1
<1>3. \A i \in 1..n : m + i \in 1..(m + n) /\ ~(m + i <= m) /\ (m + i) - m = i
  BY <1>1
<1>4. (\A i \in 1..m : (q \o r)[i] = q[i]) /\ (\A i \in 1..n : (q \o r)[m + i] = r[i])
  BY <1>1, <1>2, <1>3
<1> QED BY <1>1, <1>4 DEF m, n

\* The entry of every vector builds a frame of 17 words.
LEMMA StackWords ==
  ASSUME NEW c \in RegisterType, NEW v \in idt_init
  PROVE  /\ Stack(c, v)[1] = c.edi /\ Stack(c, v)[2] = c.esi /\ Stack(c, v)[3] = c.ebp
         /\ Stack(c, v)[5] = c.ebx /\ Stack(c, v)[6] = c.edx /\ Stack(c, v)[7] = c.ecx
         /\ Stack(c, v)[8] = c.eax /\ Stack(c, v)[13] = c.eip /\ Stack(c, v)[15] = c.eflags
         /\ Stack(c, v)[16] = c.esp
<1> DEFINE s1 == <<c.edi, c.esi, c.ebp, 0, c.ebx, c.edx, c.ecx, c.eax>>
           s2 == <<35, 35>>
           s3 == <<v>>
           s4 == IF v \in NoErrorCode THEN <<0>> ELSE <<>>
           e5 == IF v \in ErrorCode THEN <<4>> ELSE <<>>
           s5 == <<c.eip, 27, c.eflags, c.esp, 35>>
<1>1. v \in Int
  BY DEF idt_init
<1>2. c.edi \in Int /\ c.esi \in Int /\ c.ebp \in Int /\ c.ebx \in Int /\ c.edx \in Int /\ c.ecx \in Int
      /\ c.eax \in Int /\ c.eip \in Int /\ c.eflags \in Int /\ c.esp \in Int
  BY DEF RegisterType
<1>3. /\ s1 \in Seq(Int) /\ Len(s1) = 8 /\ s1[1] = c.edi /\ s1[2] = c.esi /\ s1[3] = c.ebp /\ s1[5] = c.ebx
      /\ s1[6] = c.edx /\ s1[7] = c.ecx /\ s1[8] = c.eax
  BY <1>2
<1>4. s2 \in Seq(Int) /\ Len(s2) = 2 /\ s3 \in Seq(Int) /\ Len(s3) = 1
  BY <1>1
<1>5. Len(s4) + Len(e5) = 1 /\ s4 \in Seq(Int) /\ e5 \in Seq(Int)
  <2>1. v \in NoErrorCode <=> v \notin ErrorCode
    BY DEF idt_init, NoErrorCode, ErrorCode
  <2> QED BY <2>1
<1>6. /\ s5 \in Seq(Int) /\ Len(s5) = 5 /\ s5[1] = c.eip /\ s5[3] = c.eflags /\ s5[4] = c.esp
  BY <1>2
<1>7. Stack(c, v) = (((s1 \o s2) \o s3) \o s4) \o (e5 \o s5)
  BY DEF Stack, Pushed
<1> HIDE DEF s1, s2, s3, s4, e5, s5
<1> DEFINE h == (s1 \o s2) \o s3
<1>9. /\ h \in Seq(Int) /\ Len(h) = 11 /\ \A i \in 1..8 : h[i] = s1[i]
  <2> DEFINE g == s1 \o s2
  <2>1. g \in Seq(Int) /\ Len(g) = 10 /\ \A i \in 1..8 : g[i] = s1[i]
    <3>1. /\ s1 \o s2 \in Seq(Int) /\ Len(s1 \o s2) = Len(s1) + Len(s2)
          /\ \A i \in 1..Len(s1) : (s1 \o s2)[i] = s1[i]
          /\ \A i \in 1..Len(s2) : (s1 \o s2)[Len(s1) + i] = s2[i]
      BY <1>3, <1>4, Words
    <3>2. Len(s1) = 8 /\ Len(s2) = 2 /\ Len(s1) \in Int /\ Len(s2) \in Int
      BY <1>3, <1>4
    <3>3. Len(s1) + Len(s2) = 10
      BY ONLY <3>2
    <3>4. Len(s1 \o s2) = 10
      BY ONLY <3>1, <3>3
    <3>5. \A i \in 1..8 : (s1 \o s2)[i] = s1[i]
      BY <3>1, <3>2
    <3>6. \A i \in 1..2 : (s1 \o s2)[8 + i] = s2[i]
      BY <3>1, <3>2
    <3> QED BY <3>1, <3>4, <3>5, <3>6
  <2> HIDE DEF g
  <2>2. g \o s3 \in Seq(Int) /\ Len(g \o s3) = 11 /\ \A i \in 1..10 : (g \o s3)[i] = g[i]
    <3>1. /\ g \o s3 \in Seq(Int) /\ Len(g \o s3) = Len(g) + Len(s3)
          /\ \A i \in 1..Len(g) : (g \o s3)[i] = g[i]
          /\ \A i \in 1..Len(s3) : (g \o s3)[Len(g) + i] = s3[i]
      BY <1>4, <2>1, Words
    <3>2. Len(g) = 10 /\ Len(s3) = 1 /\ Len(g) \in Int /\ Len(s3) \in Int
      BY <1>4, <2>1
    <3>3. Len(g) + Len(s3) = 11
      BY ONLY <3>2
    <3>4. Len(g \o s3) = 11
      BY ONLY <3>1, <3>3
    <3>5. \A i \in 1..10 : (g \o s3)[i] = g[i]
      BY <3>1, <3>2
    <3>6. \A i \in 1..1 : (g \o s3)[10 + i] = s3[i]
      BY <3>1, <3>2
    <3> QED BY <3>1, <3>4, <3>5, <3>6
  <2>3. h = g \o s3
    BY DEF g
  <2> HIDE DEF h
  <2>4. \A i \in 1..8 : i \in 1..10
    OBVIOUS
  <2> QED BY <2>1, <2>2, <2>3, <2>4
<1>10. Stack(c, v) = (h \o s4) \o (e5 \o s5)
  BY <1>7
<1> HIDE DEF h
<1>11. /\ \A i \in 1..Len(h) : Stack(c, v)[i] = h[i]
       /\ \A i \in 1..Len(s5) : Stack(c, v)[Len(h) + 1 + i] = s5[i]
  <2>1. h \in Seq(Int) /\ s4 \in Seq(Int) /\ e5 \in Seq(Int) /\ s5 \in Seq(Int) /\ Len(s4) + Len(e5) = 1
    BY <1>5, <1>6, <1>9
  <2> DEFINE s == Stack(c, v)
             k == h \o s4
             w == e5 \o s5
             lh == Len(h)
             lx == Len(s4)
             ly == Len(e5)
             lz == Len(s5)
             lk == Len(k)
             lw == Len(w)
  <2>2. k \in Seq(Int) /\ lk = lh + lx /\ \A i \in 1..lh : k[i] = h[i]
    BY <2>1, Words
  <2>3. w \in Seq(Int) /\ lw = ly + lz /\ \A i \in 1..lz : w[ly + i] = s5[i]
    BY <2>1, Words
  <2>4. lh \in Nat /\ lx \in Nat /\ ly \in Nat /\ lz \in Nat /\ lx + ly = 1
    BY <2>1
  <2>5. s = k \o w
    BY <1>10
  <2> HIDE DEF s, k, w
  <2>6. (\A i \in 1..lk : s[i] = k[i]) /\ (\A i \in 1..lw : s[lk + i] = w[i])
    <3>1. /\ \A i \in 1..Len(k) : (k \o w)[i] = k[i]
          /\ \A i \in 1..Len(w) : (k \o w)[Len(k) + i] = w[i]
      BY <2>2, <2>3, Words
    <3> QED BY ONLY <2>5, <3>1
  <2> HIDE DEF lh, lx, ly, lz, lk, lw
  <2>7. \A i \in 1..lh : i \in 1..lk
    BY ONLY <2>2, <2>4
  <2>8. \A i \in 1..lz : ly + i \in 1..lw /\ lk + (ly + i) = lh + 1 + i
    BY ONLY <2>2, <2>3, <2>4
  <2>9. \A i \in 1..lh : s[i] = h[i]
    BY ONLY <2>2, <2>6, <2>7
  <2>10. ASSUME NEW i \in 1..lz PROVE s[lh + 1 + i] = s5[i]
    <3>1. ly + i \in 1..lw /\ lk + (ly + i) = lh + 1 + i /\ w[ly + i] = s5[i]
      BY <2>3, <2>8
    <3>2. s[lk + (ly + i)] = w[ly + i]
      BY <2>6, <3>1
    <3> QED BY ONLY <3>1, <3>2
  <2> QED BY <2>9, <2>10 DEF lh, lz, s
<1>12. /\ \A i \in 1..8 : Stack(c, v)[i] = s1[i]
       /\ \A i \in 1..5 : Stack(c, v)[i + 12] = s5[i]
  <2>1. Len(h) = 11 /\ Len(s5) = 5
    BY <1>6, <1>9
  <2>2. (\A i \in 1..11 : Stack(c, v)[i] = h[i]) /\ (\A i \in 1..5 : Stack(c, v)[11 + 1 + i] = s5[i])
    BY ONLY <1>11, <2>1
  <2>3. (\A i \in 1..8 : i \in 1..11) /\ (\A i \in 1..5 : 11 + 1 + i = i + 12)
    OBVIOUS
  <2>4. \A i \in 1..8 : Stack(c, v)[i] = s1[i]
    BY <1>9, <2>2, <2>3
  <2>5. \A i \in 1..5 : Stack(c, v)[i + 12] = s5[i]
    BY <2>2, <2>3
  <2> QED BY <2>4, <2>5
<1>13. 1 + 12 = 13 /\ 3 + 12 = 15 /\ 4 + 12 = 16
  OBVIOUS
<1>14. Stack(c, v)[13] = s5[1] /\ Stack(c, v)[15] = s5[3] /\ Stack(c, v)[16] = s5[4]
  <2>1. 1 \in 1..5 /\ 3 \in 1..5 /\ 4 \in 1..5
    OBVIOUS
  <2>2. /\ Stack(c, v)[1 + 12] = s5[1] /\ Stack(c, v)[3 + 12] = s5[3]
        /\ Stack(c, v)[4 + 12] = s5[4]
    BY <1>12, <2>1
  <2> QED BY <1>13, <2>2
<1>15. \A i \in 1..8 : Stack(c, v)[i] = s1[i]
  BY <1>12
<1>16. Stack(c, v)[1] = s1[1] /\ Stack(c, v)[2] = s1[2] /\ Stack(c, v)[3] = s1[3] /\ Stack(c, v)[5] = s1[5]
       /\ Stack(c, v)[6] = s1[6] /\ Stack(c, v)[7] = s1[7] /\ Stack(c, v)[8] = s1[8]
  BY <1>15
<1> QED BY <1>3, <1>6, <1>14, <1>16

\* The restart reads the words of a frame by their places.
LEMMA Restarted ==
  ASSUME NEW tf
  PROVE  env_pop_tf(tf) = [edi |-> tf.edi, esi |-> tf.esi, ebp |-> tf.ebp, ebx |-> tf.ebx,
                           edx |-> tf.edx, ecx |-> tf.ecx, eax |-> tf.eax, eip |-> tf.eip,
                           eflags |-> tf.eflags, esp |-> tf.esp]
<1> DEFINE w == [i \in DOMAIN Trapframe |-> tf[Trapframe[i]]]
<1>1. \A i \in 1..17 : w[i] = tf[Trapframe[i]]
  BY FrameWords
<1>2. /\ Trapframe[1] = "edi" /\ Trapframe[2] = "esi" /\ Trapframe[3] = "ebp"
      /\ Trapframe[5] = "ebx" /\ Trapframe[6] = "edx" /\ Trapframe[7] = "ecx" /\ Trapframe[8] = "eax"
      /\ Trapframe[13] = "eip" /\ Trapframe[15] = "eflags" /\ Trapframe[16] = "esp"
  BY DEF Trapframe
<1>3. /\ w[1] = tf.edi /\ w[2] = tf.esi /\ w[3] = tf.ebp /\ w[5] = tf.ebx /\ w[6] = tf.edx
      /\ w[7] = tf.ecx /\ w[8] = tf.eax /\ w[13] = tf.eip /\ w[15] = tf.eflags /\ w[16] = tf.esp
  <2> HIDE DEF w
  <2> QED BY <1>1, <1>2
<1>4. env_pop_tf(tf) =
        [edi |-> w[1], esi |-> w[2], ebp |-> w[3], ebx |-> w[5], edx |-> w[6], ecx |-> w[7],
         eax |-> w[8], eip |-> w[13], eflags |-> w[15], esp |-> w[16]]
  BY DEF env_pop_tf
<1> HIDE DEF w
<1> QED BY <1>3, <1>4

\* A frame holds the registers it was built from.
LEMMA Framed ==
  ASSUME NEW c \in RegisterType, NEW v \in idt_init
  PROVE  /\ trap(c, v).edi = c.edi /\ trap(c, v).esi = c.esi /\ trap(c, v).ebp = c.ebp
         /\ trap(c, v).ebx = c.ebx /\ trap(c, v).edx = c.edx /\ trap(c, v).ecx = c.ecx
         /\ trap(c, v).eax = c.eax /\ trap(c, v).eip = c.eip /\ trap(c, v).eflags = c.eflags
         /\ trap(c, v).esp = c.esp
         /\ {"edi", "esi", "ebp", "ebx", "edx", "ecx", "eax", "eip", "eflags", "esp"} \subseteq DOMAIN trap(c, v)
         /\ trap(c, v) = [f \in DOMAIN trap(c, v) |-> trap(c, v)[f]]
<1> DEFINE tf == trap(c, v)
<1>1. /\ Trapframe[1] = "edi" /\ Trapframe[2] = "esi" /\ Trapframe[3] = "ebp"
      /\ Trapframe[5] = "ebx" /\ Trapframe[6] = "edx" /\ Trapframe[7] = "ecx" /\ Trapframe[8] = "eax"
      /\ Trapframe[13] = "eip" /\ Trapframe[15] = "eflags" /\ Trapframe[16] = "esp"
  BY DEF Trapframe
<1>2. \A i \in 1..17 : Trapframe[i] \in ToSet(Trapframe) /\ tf[Trapframe[i]] = Stack(c, v)[i]
  BY FrameFields DEF trap
<1>3. DOMAIN tf = ToSet(Trapframe) /\ tf = [f \in DOMAIN tf |-> tf[f]]
  BY DEF trap, AsTrapframe
<1> HIDE DEF tf
<1>4. /\ tf.edi = Stack(c, v)[1] /\ tf.esi = Stack(c, v)[2] /\ tf.ebp = Stack(c, v)[3]
      /\ tf.ebx = Stack(c, v)[5] /\ tf.edx = Stack(c, v)[6] /\ tf.ecx = Stack(c, v)[7]
      /\ tf.eax = Stack(c, v)[8] /\ tf.eip = Stack(c, v)[13] /\ tf.eflags = Stack(c, v)[15]
      /\ tf.esp = Stack(c, v)[16]
  BY <1>1, <1>2
<1>5. {"edi", "esi", "ebp", "ebx", "edx", "ecx", "eax", "eip", "eflags", "esp"} \subseteq DOMAIN tf
  BY <1>1, <1>2, <1>3
<1> QED BY <1>3, <1>4, <1>5, StackWords DEF tf

\* The registers c with an answer and flags, and at another instruction.
WithAnswer(c, x, y) ==
  [edi |-> c.edi, esi |-> c.esi, ebp |-> c.ebp, ebx |-> c.ebx, edx |-> c.edx, ecx |-> c.ecx,
   eax |-> x, eip |-> c.eip, eflags |-> y, esp |-> c.esp]

MovedTo(c, x) ==
  [edi |-> c.edi, esi |-> c.esi, ebp |-> c.ebp, ebx |-> c.ebx, edx |-> c.edx, ecx |-> c.ecx,
   eax |-> c.eax, eip |-> x, eflags |-> c.eflags, esp |-> c.esp]

\* A trap and a restart bring the registers back, with what the kernel has
\* changed in the frame.
LEMMA TrapRestarts ==
  ASSUME NEW c \in RegisterType, NEW v \in idt_init
  PROVE  /\ env_pop_tf(trap(c, v)) = c
         /\ \A x, y : env_pop_tf([trap(c, v) EXCEPT !.eax = x, !.eflags = y]) = WithAnswer(c, x, y)
         /\ \A x : env_pop_tf([trap(c, v) EXCEPT !.eip = x]) = MovedTo(c, x)
<1> DEFINE tf == trap(c, v)
<1>1. c = [edi |-> c.edi, esi |-> c.esi, ebp |-> c.ebp, ebx |-> c.ebx, edx |-> c.edx, ecx |-> c.ecx,
           eax |-> c.eax, eip |-> c.eip, eflags |-> c.eflags, esp |-> c.esp]
  BY DEF RegisterType
<1>2. /\ tf.edi = c.edi /\ tf.esi = c.esi /\ tf.ebp = c.ebp /\ tf.ebx = c.ebx /\ tf.edx = c.edx
      /\ tf.ecx = c.ecx /\ tf.eax = c.eax /\ tf.eip = c.eip /\ tf.eflags = c.eflags /\ tf.esp = c.esp
      /\ {"edi", "esi", "ebp", "ebx", "edx", "ecx", "eax", "eip", "eflags", "esp"} \subseteq DOMAIN tf
      /\ tf = [f \in DOMAIN tf |-> tf[f]]
  BY Framed
<1> HIDE DEF tf
<1>3. env_pop_tf(tf) = c
  BY <1>1, <1>2, Restarted
<1>4. ASSUME NEW x, NEW y
      PROVE  env_pop_tf([tf EXCEPT !.eax = x, !.eflags = y]) = WithAnswer(c, x, y)
  <2> DEFINE g == [tf EXCEPT !.eax = x, !.eflags = y]
  <2>1. /\ g.edi = c.edi /\ g.esi = c.esi /\ g.ebp = c.ebp /\ g.ebx = c.ebx /\ g.edx = c.edx
        /\ g.ecx = c.ecx /\ g.eax = x /\ g.eip = c.eip /\ g.eflags = y /\ g.esp = c.esp
    BY <1>2
  <2> HIDE DEF g
  <2>2. env_pop_tf(g) = WithAnswer(c, x, y)
    BY <2>1, Restarted DEF WithAnswer
  <2> QED BY <2>2 DEF g
<1>5. ASSUME NEW x PROVE env_pop_tf([tf EXCEPT !.eip = x]) = MovedTo(c, x)
  <2> DEFINE g == [tf EXCEPT !.eip = x]
  <2>1. /\ g.edi = c.edi /\ g.esi = c.esi /\ g.ebp = c.ebp /\ g.ebx = c.ebx /\ g.edx = c.edx
        /\ g.ecx = c.ecx /\ g.eax = c.eax /\ g.eip = x /\ g.eflags = c.eflags /\ g.esp = c.esp
    BY <1>2
  <2> HIDE DEF g
  <2>2. env_pop_tf(g) = MovedTo(c, x)
    BY <2>1, Restarted DEF MovedTo
  <2> QED BY <2>2 DEF g
<1> QED BY <1>3, <1>4, <1>5 DEF tf

-----------------------------------------------------------------------------
(* The tables of the dispatcher *)

\* What a stub sends is what the dispatcher has a case for, with the handler of
\* the stub's name and the number of its arguments.
Matches(fn, s) ==
  /\ \E i \in DOMAIN CallNumbers : CallNumbers[i] = s[1]
  /\ Case[s[1]][1] = fn /\ Case[s[1]][2] = s[2]
  /\ fn \in Answering => Case[s[1]][3] = TRUE
  /\ s[2] \in 0..5

\* The three parts of the dispatcher have no case in common.
LEMMA CaseParts ==
  /\ \A x \in DOMAIN FirstCases : Case[x] = FirstCases[x]
  /\ \A x \in DOMAIN ObjectCases : Case[x] = ObjectCases[x]
  /\ \A x \in DOMAIN LastCases : Case[x] = LastCases[x]
<1>1. DOMAIN FirstCases \cap DOMAIN ObjectCases = {}
  BY DEF FirstCases, ObjectCases
<1>2. DOMAIN FirstCases \cap DOMAIN LastCases = {}
  BY DEF FirstCases, LastCases
<1>3. DOMAIN ObjectCases \cap DOMAIN LastCases = {}
  BY DEF ObjectCases, LastCases
<1> QED BY <1>1, <1>2, <1>3 DEF Case, Joined

LEMMA EnvironmentStubsMatch == \A fn \in DOMAIN EnvironmentStubs : Matches(fn, EnvironmentStubs[fn])
<1> DEFINE name(fn) == EnvironmentStubs[fn][1]
<1>1. \A fn \in DOMAIN EnvironmentStubs :
        Case[name(fn)][1] = fn /\ Case[name(fn)][2] = EnvironmentStubs[fn][2]
  <2>1. \A fn \in DOMAIN EnvironmentStubs :
          /\ name(fn) \in DOMAIN FirstCases
          /\ FirstCases[name(fn)][1] = fn /\ FirstCases[name(fn)][2] = EnvironmentStubs[fn][2]
    BY DEF EnvironmentStubs, FirstCases
  <2> QED BY <2>1, CaseParts
<1>2. \A fn \in DOMAIN EnvironmentStubs : fn \in Answering => Case[name(fn)][3] = TRUE
  <2> DEFINE names == {"cgetc", "env_destroy", "getenvid", "getenvindex", "getparentenvid"}
  <2>1. \A fn \in DOMAIN EnvironmentStubs : fn \in Answering => name(fn) \in names
    BY DEF EnvironmentStubs, Answering
  <2>2. names \subseteq DOMAIN FirstCases
    BY DEF FirstCases
  <2>3. /\ FirstCases["cgetc"][3] = TRUE
        /\ FirstCases["env_destroy"][3] = TRUE
        /\ FirstCases["getenvid"][3] = TRUE
        /\ FirstCases["getenvindex"][3] = TRUE
        /\ FirstCases["getparentenvid"][3] = TRUE
    BY DEF FirstCases
  <2>4. \A x \in names : Case[x] = FirstCases[x]
    BY <2>2, CaseParts
  <2>5. \A x \in names : FirstCases[x][3] = TRUE
    BY <2>3
  <2> QED BY <2>1, <2>4, <2>5
<1>3. \A fn \in DOMAIN EnvironmentStubs :
        (\E i \in DOMAIN CallNumbers : CallNumbers[i] = name(fn)) /\ EnvironmentStubs[fn][2] \in 0..5
  BY DEF EnvironmentStubs, CallNumbers
<1> QED BY <1>1, <1>2, <1>3 DEF Matches

LEMMA MemoryStubsMatch == \A fn \in DOMAIN MemoryStubs : Matches(fn, MemoryStubs[fn])
<1> DEFINE name(fn) == MemoryStubs[fn][1]
<1>1. \A fn \in DOMAIN MemoryStubs :
        Case[name(fn)][1] = fn /\ Case[name(fn)][2] = MemoryStubs[fn][2]
  <2>1. \A fn \in DOMAIN MemoryStubs :
          /\ name(fn) \in DOMAIN FirstCases
          /\ FirstCases[name(fn)][1] = fn /\ FirstCases[name(fn)][2] = MemoryStubs[fn][2]
    BY DEF MemoryStubs, FirstCases
  <2> QED BY <2>1, CaseParts
<1>2. \A fn \in DOMAIN MemoryStubs : fn \in Answering => Case[name(fn)][3] = TRUE
  <2> DEFINE names == {"calc_req_frames", "calc_free_frames", "calc_modified_frames",
                        "calc_notmod_frames", "pf_calc_allocated_pages",
                        "calculate_pages_tobe_removed_ready_exit"}
  <2>1. \A fn \in DOMAIN MemoryStubs : fn \in Answering => name(fn) \in names
    BY DEF MemoryStubs, Answering
  <2>2. names \subseteq DOMAIN FirstCases
    BY DEF FirstCases
  <2>3. /\ FirstCases["calc_req_frames"][3] = TRUE
        /\ FirstCases["calc_free_frames"][3] = TRUE
        /\ FirstCases["calc_modified_frames"][3] = TRUE
        /\ FirstCases["calc_notmod_frames"][3] = TRUE
        /\ FirstCases["pf_calc_allocated_pages"][3] = TRUE
        /\ FirstCases["calculate_pages_tobe_removed_ready_exit"][3] = TRUE
    BY DEF FirstCases
  <2>4. \A x \in names : Case[x] = FirstCases[x]
    BY <2>2, CaseParts
  <2>5. \A x \in names : FirstCases[x][3] = TRUE
    BY <2>3
  <2> QED BY <2>1, <2>4, <2>5
<1>3. \A fn \in DOMAIN MemoryStubs :
        (\E i \in DOMAIN CallNumbers : CallNumbers[i] = name(fn)) /\ MemoryStubs[fn][2] \in 0..5
  BY DEF MemoryStubs, CallNumbers
<1> QED BY <1>1, <1>2, <1>3 DEF Matches

LEMMA ObjectStubsMatch == \A fn \in DOMAIN ObjectStubs : Matches(fn, ObjectStubs[fn])
<1> DEFINE name(fn) == ObjectStubs[fn][1]
<1>1. \A fn \in DOMAIN ObjectStubs :
        Case[name(fn)][1] = fn /\ Case[name(fn)][2] = ObjectStubs[fn][2]
  <2>1. \A fn \in DOMAIN ObjectStubs :
          \/ /\ name(fn) \in DOMAIN ObjectCases
             /\ ObjectCases[name(fn)][1] = fn /\ ObjectCases[name(fn)][2] = ObjectStubs[fn][2]
          \/ /\ name(fn) \in DOMAIN LastCases
             /\ LastCases[name(fn)][1] = fn /\ LastCases[name(fn)][2] = ObjectStubs[fn][2]
    BY DEF ObjectStubs, ObjectCases, LastCases
  <2> QED BY <2>1, CaseParts
<1>2. \A fn \in DOMAIN ObjectStubs : fn \in Answering => Case[name(fn)][3] = TRUE
  <2> DEFINE names == {"get_max_shares", "create_env"}
  <2>1. \A fn \in DOMAIN ObjectStubs : fn \in Answering => name(fn) \in names
    BY DEF ObjectStubs, Answering
  <2>2. "get_max_shares" \in DOMAIN ObjectCases /\ ObjectCases["get_max_shares"][3] = TRUE
    BY DEF ObjectCases
  <2>3. "create_env" \in DOMAIN LastCases /\ LastCases["create_env"][3] = TRUE
    BY DEF LastCases
  <2>4. \A x \in names : Case[x][3] = TRUE
    BY <2>2, <2>3, CaseParts
  <2> QED BY <2>1, <2>4
<1>3. \A fn \in DOMAIN ObjectStubs :
        (\E i \in DOMAIN CallNumbers : CallNumbers[i] = name(fn)) /\ ObjectStubs[fn][2] \in 0..5
  BY DEF ObjectStubs, CallNumbers
<1> QED BY <1>1, <1>2, <1>3 DEF Matches

LEMMA TestStubsMatch == \A fn \in DOMAIN TestStubs : Matches(fn, TestStubs[fn])
<1> DEFINE name(fn) == TestStubs[fn][1]
<1>1. \A fn \in DOMAIN TestStubs :
        Case[name(fn)][1] = fn /\ Case[name(fn)][2] = TestStubs[fn][2]
  <2>1. \A fn \in DOMAIN TestStubs :
          /\ name(fn) \in DOMAIN LastCases
          /\ LastCases[name(fn)][1] = fn /\ LastCases[name(fn)][2] = TestStubs[fn][2]
    BY DEF TestStubs, LastCases
  <2> QED BY <2>1, CaseParts
<1>2. \A fn \in DOMAIN TestStubs : fn \in Answering => Case[name(fn)][3] = TRUE
  <2> DEFINE names == {"rcr2", "gettst", "get_heap_strategy", "check_LRU_lists",
                        "check_LRU_lists_free"}
  <2>1. \A fn \in DOMAIN TestStubs : fn \in Answering => name(fn) \in names
    BY DEF TestStubs, Answering
  <2>2. names \subseteq DOMAIN LastCases
    BY DEF LastCases
  <2>3. /\ LastCases["rcr2"][3] = TRUE
        /\ LastCases["gettst"][3] = TRUE
        /\ LastCases["get_heap_strategy"][3] = TRUE
        /\ LastCases["check_LRU_lists"][3] = TRUE
        /\ LastCases["check_LRU_lists_free"][3] = TRUE
    BY DEF LastCases
  <2>4. \A x \in names : Case[x] = LastCases[x]
    BY <2>2, CaseParts
  <2>5. \A x \in names : LastCases[x][3] = TRUE
    BY <2>3
  <2> QED BY <2>1, <2>4, <2>5
<1>3. \A fn \in DOMAIN TestStubs :
        (\E i \in DOMAIN CallNumbers : CallNumbers[i] = name(fn)) /\ TestStubs[fn][2] \in 0..5
  BY DEF TestStubs, CallNumbers
<1> QED BY <1>1, <1>2, <1>3 DEF Matches

\* The number that a stub passes selects the handler of the stub.
LEMMA Dispatched ==
  ASSUME NEW fn \in DOMAIN Stub
  PROVE  /\ Number(Stub[fn][1]) \in Int
         /\ CallNumbers[Number(Stub[fn][1]) + 1] = Stub[fn][1]
         /\ Case[Stub[fn][1]][1] = fn /\ Case[Stub[fn][1]][2] = Stub[fn][2] /\ Stub[fn][2] \in 0..5
         /\ fn \in Answering => Case[Stub[fn][1]][3] = TRUE
<1>1. Matches(fn, Stub[fn])
  BY EnvironmentStubsMatch, MemoryStubsMatch, ObjectStubsMatch, TestStubsMatch DEF Stub, Joined
<1> DEFINE name == Stub[fn][1]
           at(i) == CallNumbers[i] = name
           k == CHOOSE i \in DOMAIN CallNumbers : at(i)
<1>2. \E i \in DOMAIN CallNumbers : at(i)
  BY <1>1 DEF Matches
<1>3. k \in DOMAIN CallNumbers /\ at(k)
  BY <1>2
<1>4. DOMAIN CallNumbers \subseteq Int
  BY DEF CallNumbers
<1>5. Number(name) = k - 1
  BY DEF Number
<1> HIDE DEF k
<1>6. k \in Int /\ (k - 1) + 1 = k /\ k - 1 \in Int
  BY <1>3, <1>4
<1> QED BY <1>1, <1>3, <1>5, <1>6 DEF Matches

\* The other operations.
LEMMA NoStub ==
  /\ "access" \notin DOMAIN Stub /\ "exception" \notin DOMAIN Stub /\ "sys_env_exit" \in DOMAIN Stub
  /\ "sys_enable_interrupt" \notin Answering
BY DEF Stub, Joined, EnvironmentStubs, MemoryStubs, ObjectStubs, TestStubs, Answering

\* The stubs with arguments that the handlers look at.
LEMMA StubArguments ==
  /\ Stub["sys_cputs"][2] = 3 /\ Stub["sys_cputc"][2] = 1 /\ Stub["sys_bypassPageFault"][2] = 1
  /\ Stub["sys_set_uheap_strategy"][2] = 1 /\ Stub["sys_env_exit"][2] = 0
BY DEF Stub, Joined, EnvironmentStubs, MemoryStubs, ObjectStubs, TestStubs

-----------------------------------------------------------------------------
(* The handlers *)

Before(d) ==
  /\ d = [env |-> d.env, kern |-> d.kern, console |-> d.console, eflags |-> d.eflags,
          value |-> 0, ends |-> FALSE]
  /\ d.env \in Envs /\ d.kern \in KernelType /\ d.console \in Seq(EntryType) /\ d.eflags \in {0, 1}

\* What every handler leaves.
After(r, fn, d, a) ==
  /\ r.kern \in KernelType /\ r.value \in Int
  /\ r.eflags = CASE fn = "sys_disable_interrupt" -> 0
                  [] fn = "sys_enable_interrupt"  -> 1
                  [] OTHER                        -> d.eflags
  /\ fn = "sys_env_exit" => r.ends = TRUE
  /\ fn = "sys_disable_interrupt" => r.ends = FALSE
  /\ \/ r.console = d.console
     \/ \E entry \in EntryType : /\ entry.env = d.env /\ entry.s \in {0, Printed([fn |-> fn, args |-> a])}
                                 /\ r.console = Append(d.console, entry)

\* A line is printed, and nothing else changed.
LEMMA Prints ==
  ASSUME NEW d, Before(d), NEW s \in Int, NEW len \in Int, NEW head \in Int
  PROVE  LET r == sys_cputs(d, s, len, head)
         IN  /\ r.kern = d.kern /\ r.value = 0 /\ r.eflags = d.eflags
             /\ \E entry \in EntryType : /\ entry.env = d.env /\ entry.s = s
                                         /\ r.console = Append(d.console, entry)
<1> DEFINE entry == [env |-> d.env, s |-> s, len |-> len, head |-> head]
           r == sys_cputs(d, s, len, head)
<1>1. entry \in EntryType /\ entry.env = d.env /\ entry.s = s
  BY DEF Before, EntryType
<1>2. r.console = Append(d.console, entry) /\ r.kern = d.kern /\ r.value = 0 /\ r.eflags = d.eflags
  BY DEF Before, sys_cputs
<1> HIDE DEF entry, r
<1>3. r.kern = d.kern /\ r.value = 0 /\ r.eflags = d.eflags
      /\ \E x \in EntryType : x.env = d.env /\ x.s = s /\ r.console = Append(d.console, x)
  BY <1>1, <1>2
<1> QED BY <1>3 DEF r

\* A panic ends the program with a line of the kernel.
LEMMA Panics ==
  ASSUME NEW d, Before(d)
  PROVE  LET r == panic(d)
         IN  /\ r.kern = d.kern /\ r.value = 0 /\ r.eflags = d.eflags
             /\ \E entry \in EntryType : /\ entry.env = d.env /\ entry.s = 0
                                         /\ r.console = Append(d.console, entry)
<1> DEFINE q == sys_cputs(d, 0, 1, 0)
           r == panic(d)
<1>1. /\ q.kern = d.kern /\ q.value = 0 /\ q.eflags = d.eflags
      /\ \E entry \in EntryType : /\ entry.env = d.env /\ entry.s = 0
                                  /\ q.console = Append(d.console, entry)
  BY Prints
<1>2. r.kern = q.kern /\ r.value = q.value /\ r.eflags = q.eflags /\ r.console = q.console
  BY DEF Before, sys_cputs, panic
<1> HIDE DEF q, r
<1>3. r.kern = d.kern /\ r.value = 0 /\ r.eflags = d.eflags
      /\ \E x \in EntryType : x.env = d.env /\ x.s = 0 /\ r.console = Append(d.console, x)
  BY <1>1, <1>2
<1> QED BY <1>3 DEF r

\* A handler that panics.
LEMMA PanicIsAfter ==
  ASSUME NEW d, Before(d), NEW fn, NEW a,
         fn \notin {"sys_disable_interrupt", "sys_enable_interrupt", "sys_env_exit", "sys_cputs", "sys_cputc"}
  PROVE  After(panic(d), fn, d, a)
<1> DEFINE r == panic(d)
<1>1. /\ r.kern = d.kern /\ r.value = 0 /\ r.eflags = d.eflags
      /\ \E entry \in EntryType : /\ entry.env = d.env /\ entry.s = 0
                                  /\ r.console = Append(d.console, entry)
  BY Panics
<1> HIDE DEF r
<1>2. Printed([fn |-> fn, args |-> a]) = 0
  BY DEF Printed
<1>3. After(r, fn, d, a)
  BY <1>1, <1>2 DEF After, Before
<1> QED BY <1>3 DEF r

LEMMA EnvsAreInts == Envs \subseteq Int /\ NoEnv \notin Envs
BY SystemCallsAssumption DEF NoEnv

LEMMA KernelChanges ==
  ASSUME NEW k \in KernelType, NEW x \in Int
  PROVE  [k EXCEPT !.tstcnt = x] \in KernelType
BY DEF KernelType

LEMMA HandlersLeave ==
  ASSUME NEW d, Before(d), NEW fn \in DOMAIN Stub, NEW a \in Seq(Int), Len(a) = Stub[fn][2],
         NEW r \in Handled(fn, d, a)
  PROVE  After(r, fn, d, a)
<1>1. CASE fn = "sys_cputs"
  <2>1. PICK s \in {0, a[1]} : r = sys_cputs(d, s, a[2], a[3])
    BY <1>1 DEF Handled, TextRead
  <2>2. a[1] \in Int /\ a[2] \in Int /\ a[3] \in Int
    <3>1. Len(a) = 3
      BY <1>1, StubArguments
    <3>2. \A i \in 1..3 : a[i] \in Int
      BY <3>1, ElementOfSeq
    <3> QED BY <3>2
  <2>3. Printed([fn |-> fn, args |-> a]) = a[1]
    BY <1>1 DEF Printed
  <2>4. /\ r.kern = d.kern /\ r.value = 0 /\ r.eflags = d.eflags
        /\ \E entry \in EntryType : /\ entry.env = d.env /\ entry.s = s
                                    /\ r.console = Append(d.console, entry)
    <3> DEFINE len == a[2]
               head == a[3]
    <3>1. s \in Int /\ len \in Int /\ head \in Int
      BY <2>2
    <3>2. r = sys_cputs(d, s, len, head)
      BY <2>1
    <3> HIDE DEF len, head
    <3>3. /\ r.kern = d.kern /\ r.value = 0 /\ r.eflags = d.eflags
          /\ \E entry \in EntryType : /\ entry.env = d.env /\ entry.s = s
                                      /\ r.console = Append(d.console, entry)
      BY <3>1, <3>2, Prints
    <3> QED BY <3>3
  <2> QED BY <1>1, <2>3, <2>4 DEF After, Before
<1>2. CASE fn = "sys_cputc"
  <2>1. r = sys_cputc(d, a[1])
    BY <1>2 DEF Handled
  <2>2. a[1] \in Int
    <3>1. Len(a) = 1 /\ a \in Seq(Int)
      BY <1>2, StubArguments
    <3> QED BY ONLY <3>1
  <2>3. Printed([fn |-> fn, args |-> a]) = a[1]
    BY <1>2 DEF Printed
  <2>4. r = sys_cputs(d, a[1], 1, 0)
    BY <2>1 DEF sys_cputc, sys_cputs
  <2>5. /\ r.kern = d.kern /\ r.value = 0 /\ r.eflags = d.eflags
        /\ \E entry \in EntryType : /\ entry.env = d.env /\ entry.s = a[1]
                                    /\ r.console = Append(d.console, entry)
    <3> DEFINE s == a[1]
               len == 1
               head == 0
    <3>1. s \in Int /\ len \in Int /\ head \in Int
      BY <2>2
    <3>2. r = sys_cputs(d, s, len, head)
      BY <2>4
    <3> HIDE DEF s, len, head
    <3>3. /\ r.kern = d.kern /\ r.value = 0 /\ r.eflags = d.eflags
          /\ \E entry \in EntryType : /\ entry.env = d.env /\ entry.s = s
                                      /\ r.console = Append(d.console, entry)
      BY <3>1, <3>2, Prints
    <3> QED BY <3>3 DEF s
  <2> QED BY <1>2, <2>3, <2>5 DEF After, Before
<1>3. CASE fn = "sys_cgetc"
  <2>1. \E k \in {0, KEY} : r = [d EXCEPT !.value = k]
    BY <1>3 DEF Handled, sys_cgetc
  <2> QED BY <1>3, <2>1, SystemCallsAssumption DEF After, Before
<1>4. CASE fn = "sys_getenvindex"
  <2>1. r = [d EXCEPT !.value = d.env - 1]
    BY <1>4 DEF Handled, sys_getenvindex
  <2> QED BY <1>4, <2>1, EnvsAreInts DEF After, Before
<1>5. CASE fn = "sys_env_exit"
  <2>1. r = [d EXCEPT !.ends = TRUE]
    BY <1>5 DEF Handled
  <2> QED BY <1>5, <2>1 DEF After, Before
<1>6. CASE fn = "__sys_allocate_page"
  <2>1. r = __sys_allocate_page(d, a[1], a[2])
    BY <1>6 DEF Handled
  <2>2. CASE d.kern.free = 0
    BY <1>6, <2>1, <2>2, PanicIsAfter DEF __sys_allocate_page
  <2>3. CASE d.kern.free # 0
    <3> DEFINE x == IF a[1] % 4096 # 0 \/ a[2] \notin {4, 6} THEN E_INVAL ELSE 0
    <3>1. r = [d EXCEPT !.kern.free = @ - 1, !.value = x]
      BY <2>1, <2>3 DEF __sys_allocate_page
    <3>2. x \in Int
      BY DEF E_INVAL
    <3> HIDE DEF x
    <3>3. /\ r.kern = [d.kern EXCEPT !.free = @ - 1] /\ r.value = x /\ r.eflags = d.eflags
          /\ r.console = d.console
      BY <3>1 DEF Before
    <3>4. r.kern \in KernelType
      <4>1. d.kern \in KernelType /\ d.kern.free \in Int /\ d.kern.free - 1 \in Int
        BY DEF Before, KernelType
      <4>2. r.kern = [d.kern EXCEPT !.free = d.kern.free - 1]
        BY <3>3, <4>1 DEF KernelType
      <4> QED BY <4>1, <4>2 DEF KernelType
    <3> QED BY <1>6, <3>2, <3>3, <3>4 DEF After
  <2> QED BY <2>2, <2>3
<1>7. CASE fn = "sys_clear_ffl"
  <2>1. r = [d EXCEPT !.kern.free = 0]
    BY <1>7 DEF Handled, sys_clear_ffl
  <2>2. /\ r.kern = [d.kern EXCEPT !.free = 0] /\ r.value = 0 /\ r.eflags = d.eflags
        /\ r.console = d.console
    BY <2>1 DEF Before
  <2>3. r.kern \in KernelType
    BY <2>2 DEF Before, KernelType
  <2> QED BY <1>7, <2>2, <2>3 DEF After
<1>8. CASE fn = "sys_calculate_free_frames"
  <2>1. r = [d EXCEPT !.value = d.kern.free]
    BY <1>8 DEF Handled, sys_calculate_free_frames
  <2> QED BY <1>8, <2>1 DEF After, Before, KernelType
<1>9. CASE fn = "sys_disable_interrupt"
  <2>1. r = [d EXCEPT !.eflags = 0]
    BY <1>9 DEF Handled, sys_disable_interrupt
  <2> QED BY <1>9, <2>1 DEF After, Before
<1>10. CASE fn = "sys_enable_interrupt"
  <2>1. r = [d EXCEPT !.eflags = 1]
    BY <1>10 DEF Handled, sys_enable_interrupt
  <2> QED BY <1>10, <2>1 DEF After, Before
<1>11. CASE fn \in {"__sys_map_frame", "__sys_unmap_frame", "sys_moveMem", "sys_createSemaphore",
                 "sys_waitSemaphore", "sys_signalSemaphore", "sys_getSemaphoreValue",
                 "sys_createSharedObject", "sys_getSizeOfSharedObject", "sys_getSharedObject",
                 "sys_freeSharedObject"}
  <2>1. r = panic(d)
    BY <1>11 DEF Handled, NotImplemented, Semaphores, SharedObjects
  <2> QED BY <1>11, <2>1, PanicIsAfter
<1>12. CASE fn = "sys_getMaxShares"
  <2>1. r = [d EXCEPT !.value = MAX_SHARES]
    BY <1>12 DEF Handled
  <2> QED BY <1>12, <2>1, SystemCallsAssumption DEF After, Before
<1>13. CASE fn = "sys_bypassPageFault"
  <2> DEFINE n == a[1] % 256
  <2>1. r = [d EXCEPT !.kern.bypass = n]
    BY <1>13 DEF Handled, sys_bypassPageFault
  <2>4. n \in Nat
    <3>1. Len(a) = 1 /\ a \in Seq(Int)
      BY <1>13, StubArguments
    <3>2. a[1] \in Int
      BY ONLY <3>1
    <3> QED BY <3>2
  <2> HIDE DEF n
  <2>2. /\ r.kern = [d.kern EXCEPT !.bypass = n] /\ r.value = 0 /\ r.eflags = d.eflags
        /\ r.console = d.console
    BY <2>1 DEF Before
  <2>3. r.kern \in KernelType
    BY <1>13, <2>2, <2>4 DEF Before, KernelType
  <2> QED BY <1>13, <2>2, <2>3 DEF After
<1>14. CASE fn = "rsttst"
  <2>1. r = [d EXCEPT !.kern.tstcnt = 0]
    BY <1>14 DEF Handled, rsttst
  <2> DEFINE n == 0
  <2>2. /\ r.kern = [d.kern EXCEPT !.tstcnt = n] /\ r.value = 0 /\ r.eflags = d.eflags
        /\ r.console = d.console
    BY <2>1 DEF Before
  <2>4. n \in Int
    OBVIOUS
  <2> HIDE DEF n
  <2>3. r.kern \in KernelType
    BY <2>2, <2>4, KernelChanges DEF Before
  <2> QED BY <1>14, <2>2, <2>3 DEF After
<1>15. CASE fn = "inctst"
  <2>1. r = [d EXCEPT !.kern.tstcnt = @ + 1]
    BY <1>15 DEF Handled, inctst
  <2> DEFINE n == d.kern.tstcnt + 1
  <2>2. /\ r.kern = [d.kern EXCEPT !.tstcnt = n] /\ r.value = 0 /\ r.eflags = d.eflags
        /\ r.console = d.console
    BY <2>1 DEF Before
  <2>4. n \in Int
    BY DEF Before, KernelType
  <2> HIDE DEF n
  <2>3. r.kern \in KernelType
    BY <2>2, <2>4, KernelChanges DEF Before
  <2> QED BY <1>15, <2>2, <2>3 DEF After
<1>16. CASE fn = "gettst"
  <2>1. r = [d EXCEPT !.value = d.kern.tstcnt]
    BY <1>16 DEF Handled, gettst
  <2> QED BY <1>16, <2>1 DEF After, Before, KernelType
<1>17. CASE fn = "tst"
  <2>1. r \in {[d EXCEPT !.kern.tstcnt = @ + 1], panic(d)}
    BY <1>17 DEF Handled, tst
  <2>2. After(panic(d), fn, d, a)
    BY <1>17, PanicIsAfter
  <2>3. After([d EXCEPT !.kern.tstcnt = @ + 1], fn, d, a)
    <3> DEFINE q == [d EXCEPT !.kern.tstcnt = @ + 1]
    <3> DEFINE n == d.kern.tstcnt + 1
    <3>1. /\ q.kern = [d.kern EXCEPT !.tstcnt = n] /\ q.value = 0 /\ q.eflags = d.eflags
          /\ q.console = d.console
      BY DEF Before
    <3>4. n \in Int
      BY DEF Before, KernelType
    <3> HIDE DEF q, n
    <3>2. q.kern \in KernelType
      BY <3>1, <3>4, KernelChanges DEF Before
    <3>3. After(q, fn, d, a)
      BY <1>17, <3>1, <3>2 DEF After
    <3> QED BY <3>3 DEF q
  <2> QED BY <2>1, <2>2, <2>3
<1>18. CASE fn = "chktst"
  <2>1. r \in {sys_cputs(d, 0, 1, 0), panic(d)}
    BY <1>18 DEF Handled, chktst
  <2>2. After(panic(d), fn, d, a)
    BY <1>18, PanicIsAfter
  <2>3. After(sys_cputs(d, 0, 1, 0), fn, d, a)
    <3> DEFINE q == sys_cputs(d, 0, 1, 0)
    <3>1. /\ q.kern = d.kern /\ q.value = 0 /\ q.eflags = d.eflags
          /\ \E entry \in EntryType : /\ entry.env = d.env /\ entry.s = 0
                                      /\ q.console = Append(d.console, entry)
      <4> DEFINE s == 0
                 len == 1
                 head == 0
      <4>1. s \in Int /\ len \in Int /\ head \in Int /\ q = sys_cputs(d, s, len, head)
        OBVIOUS
      <4> HIDE DEF s, len, head, q
      <4>2. /\ q.kern = d.kern /\ q.value = 0 /\ q.eflags = d.eflags
            /\ \E entry \in EntryType : /\ entry.env = d.env /\ entry.s = s
                                        /\ q.console = Append(d.console, entry)
        BY <4>1, Prints
      <4> QED BY <4>2 DEF s
    <3>2. Printed([fn |-> fn, args |-> a]) = 0
      BY <1>18 DEF Printed
    <3> HIDE DEF q
    <3>3. After(q, fn, d, a)
      BY <1>18, <3>1, <3>2 DEF After, Before
    <3> QED BY <3>3 DEF q
  <2> QED BY <2>1, <2>2, <2>3
<1>19. CASE fn = "sys_get_heap_strategy"
  <2>1. r = [d EXCEPT !.value = d.kern.strategy]
    BY <1>19 DEF Handled, sys_get_heap_strategy
  <2> QED BY <1>19, <2>1 DEF After, Before, KernelType
<1>20. CASE fn = "sys_set_uheap_strategy"
  <2>1. r = [d EXCEPT !.kern.strategy = a[1]]
    BY <1>20 DEF Handled, sys_set_uheap_strategy
  <2>2. a[1] \in Int
    <3>1. Len(a) = 1 /\ a \in Seq(Int)
      BY <1>20, StubArguments
    <3> QED BY ONLY <3>1
  <2>3. /\ r.kern = [d.kern EXCEPT !.strategy = a[1]] /\ r.value = 0 /\ r.eflags = d.eflags
        /\ r.console = d.console
    BY <2>1 DEF Before
  <2>4. r.kern \in KernelType
    BY <2>2, <2>3 DEF Before, KernelType
  <2> QED BY <1>20, <2>3, <2>4 DEF After
<1>21. CASE
         fn \notin {"sys_cputs", "sys_cputc", "sys_cgetc", "sys_getenvindex", "sys_env_exit",
                    "__sys_allocate_page", "sys_clear_ffl", "sys_calculate_free_frames",
                    "sys_disable_interrupt", "sys_enable_interrupt", "__sys_map_frame",
                    "__sys_unmap_frame", "sys_moveMem", "sys_createSemaphore", "sys_waitSemaphore",
                    "sys_signalSemaphore", "sys_getSemaphoreValue", "sys_createSharedObject",
                    "sys_getSizeOfSharedObject", "sys_getSharedObject", "sys_freeSharedObject",
                    "sys_getMaxShares", "sys_bypassPageFault", "rsttst", "inctst", "gettst", "tst",
                    "chktst", "sys_get_heap_strategy", "sys_set_uheap_strategy"}
  <2>1. r = [d EXCEPT !.value = Value(fn)]
    BY <1>21 DEF Handled
  <2>2. Value(fn) \in Int
    <3>1. Number(Stub[fn][1]) \in Int
      BY Dispatched
    <3> DEFINE k == Number(Stub[fn][1])
    <3> HIDE DEF k
    <3>2. 200 + k \in Int
      BY <3>1 DEF k
    <3> QED BY <3>2 DEF Value, k
  <2> QED BY <1>21, <2>1, <2>2 DEF After, Before
<1> QED BY <1>1, <1>2, <1>3, <1>4, <1>5, <1>6, <1>7, <1>8, <1>9, <1>10, <1>11, <1>12, <1>13, <1>14, <1>15, <1>16, <1>17, <1>18, <1>19, <1>20, <1>21

-----------------------------------------------------------------------------
(* Who has which registers *)

\* Only the registers of e change, to c.
OnlyMoves(e, c) == \A f \in Envs : Regs(f)' = IF f = e THEN c ELSE Regs(f)

\* The processor and the frames agree after a restart.
LEMMA RunsFrom ==
  ASSUME NEW e, NEW tfs, env_run(e, tfs)
  PROVE  \A f \in Envs : Regs(f)' = env_pop_tf(tfs[f])
BY DEF env_run, Regs

LEMMA SchedulesFrom ==
  ASSUME NEW q \in Seq(Envs), NEW tfs, fos_scheduler(q, tfs)
  PROVE  /\ \A f \in Envs : Regs(f)' = env_pop_tf(tfs[f])
         /\ env_tf' = tfs
         /\ q = <<>> => curenv' = NoEnv /\ ready' = <<>>
         /\ q # <<>> => curenv' = q[1] /\ curenv' \in Envs /\ ready' = Tail(q)
<1>1. CASE q = <<>>
  <2>1. curenv' = NoEnv /\ ready' = q /\ env_tf' = tfs
    BY <1>1 DEF fos_scheduler
  <2>2. \A f \in Envs : f # curenv'
    BY <2>1, EnvsAreInts
  <2>3. \A f \in Envs : Regs(f)' = env_pop_tf(tfs[f])
    BY <2>1, <2>2 DEF Regs
  <2> QED BY <1>1, <2>1, <2>3
<1>2. CASE q # <<>>
  <2>1. env_run(Head(q), tfs) /\ ready' = Tail(q)
    BY <1>2 DEF fos_scheduler
  <2>2. Head(q) = q[1] /\ Head(q) \in Envs
    BY <1>2
  <2>3. \A f \in Envs : Regs(f)' = env_pop_tf(tfs[f])
    BY <2>1, RunsFrom
  <2> QED BY <1>2, <2>1, <2>2, <2>3 DEF env_run
<1> QED BY <1>1, <1>2

\* A frame saved for the running environment.
LEMMA SavedFor ==
  ASSUME CallsType, NEW e \in Envs, e = curenv, NEW t,
         \A f \in Envs : Regs(f)' = env_pop_tf([env_tf EXCEPT ![e] = t][f])
  PROVE  OnlyMoves(e, env_pop_tf(t))
<1> SUFFICES ASSUME NEW f \in Envs
             PROVE  Regs(f)' = IF f = e THEN env_pop_tf(t) ELSE Regs(f)
  BY DEF OnlyMoves
<1>1. [env_tf EXCEPT ![e] = t][f] = IF f = e THEN t ELSE env_tf[f]
  BY DEF CallsType
<1>2. f # e => Regs(f) = env_pop_tf(env_tf[f])
  BY DEF Regs
<1> QED BY <1>1, <1>2

\* A step of the program itself.
LEMMA RunsOn ==
  ASSUME curenv' = curenv, env_tf' = env_tf
  PROVE  OnlyMoves(curenv, cpu')
BY DEF OnlyMoves, Regs

\* The queue after the first of q was started.
LEMMA QueueStarts ==
  ASSUME NEW q \in Seq(Envs), \A i, j \in 1..Len(q) : q[i] = q[j] => i = j,
         \A i \in 1..Len(q) : prog'[q[i]] # <<>>,
         q = <<>> => curenv' = NoEnv /\ ready' = <<>>,
         q # <<>> => curenv' = q[1] /\ curenv' \in Envs /\ ready' = Tail(q)
  PROVE  QueueInv'
<1>1. CASE q = <<>>
  BY <1>1 DEF QueueInv
<1>2. CASE q # <<>>
  <2> DEFINE n == Len(q)
  <2>1. n \in Nat /\ n > 0
    BY <1>2, EmptySeq
  <2>2. Tail(q) \in Seq(Envs) /\ Len(Tail(q)) = n - 1 /\ \A i \in 1..(n - 1) : Tail(q)[i] = q[i + 1]
    BY <1>2, HeadTailProperties
  <2> DEFINE t == Tail(q)
  <2> HIDE DEF n, t
  <2>3. t \in Seq(Envs) /\ Len(t) = n - 1 /\ (\A i \in 1..(n - 1) : t[i] = q[i + 1]) /\ ready' = t
        /\ curenv' = q[1] /\ curenv' \in Envs
    BY <1>2, <2>2 DEF t
  <2>4. (\A i, j \in 1..n : q[i] = q[j] => i = j) /\ (\A i \in 1..n : prog'[q[i]] # <<>>)
    BY DEF n
  <2>5. \A i \in 1..(n - 1) : i + 1 \in 1..n /\ i + 1 # 1
    BY <2>1
  <2>6. 1 \in 1..n
    BY <2>1
  <2>7. \A i, j \in 1..(n - 1) : t[i] = t[j] => i = j
    BY <2>1, <2>3, <2>4, <2>5
  <2>8. \A i \in 1..(n - 1) : t[i] # q[1] /\ prog'[t[i]] # <<>>
    BY <2>3, <2>4, <2>5, <2>6
  <2>9. prog'[q[1]] # <<>>
    BY <2>4, <2>6
  <2> QED BY <2>3, <2>7, <2>8, <2>9 DEF QueueInv
<1> QED BY <1>1, <1>2

-----------------------------------------------------------------------------
(* Calls *)

LEMMA StartRegisters == Registers \in RegisterType /\ Registers.eip = 0 /\ Registers.eflags = 1
BY DEF Registers, RegisterType

LEMMA CallsStart == SysInit => CallsInv
<1> SUFFICES ASSUME SysInit PROVE CallsInv
  OBVIOUS
<1>1. CallsType
  BY DEF SysInit, CallsType, KernelType
<1>2. QueueInv
  BY DEF SysInit, QueueInv
<1>3. env_pop_tf(trap(Registers, 0)) = Registers
  <2>1. 0 \in idt_init
    BY DEF idt_init
  <2> QED BY <2>1, StartRegisters, TrapRestarts
<1>4. NothingRan
  BY <1>3 DEF SysInit, NothingRan
<1>5. \A e \in Envs : ProgramInv(Regs(e), prog[e], served[e])
  BY DEF SysInit, ProgramInv
<1> QED BY <1>1, <1>2, <1>4, <1>5 DEF CallsInv, SysInit

\* A step of the running program e that leads it to c, p and sv.
LEMMA OneMoves ==
  ASSUME CallsInv, CallsType', QueueInv', NothingRan', NEW e \in Envs, e = curenv, NEW c,
         \A f \in masked' : curenv' = f /\ cpu'.eflags = 0,
         OnlyMoves(e, c),
         \A f \in Envs : f # e => prog'[f] = prog[f] /\ served'[f] = served[f],
         ProgramInv(c, prog'[e], served'[e])
  PROVE  CallsInv'
<1>1. ASSUME NEW f \in Envs PROVE ProgramInv(Regs(f)', prog'[f], served'[f])
  <2>1. CASE f = e
    <3>1. Regs(f)' = c
      BY <2>1 DEF OnlyMoves
    <3> QED BY <2>1, <3>1
  <2>2. CASE f # e
    <3>1. Regs(f)' = Regs(f) /\ prog'[f] = prog[f] /\ served'[f] = served[f]
      BY <2>2 DEF OnlyMoves
    <3>2. ProgramInv(Regs(f), prog[f], served[f])
      BY DEF CallsInv
    <3> QED BY <3>1, <3>2
  <2> QED BY <2>1, <2>2
<1> QED BY <1>1 DEF CallsInv

\* What holds of the program that runs.
LEMMA Running ==
  ASSUME CallsInv, curenv # NoEnv
  PROVE  /\ curenv \in Envs /\ prog[curenv] \in Seq(OperationSet) /\ prog[curenv] # <<>>
         /\ Op = prog[curenv][1] /\ Op \in OperationSet /\ Operation(Op)
         /\ cpu \in RegisterType /\ Placed(cpu, Op, served[curenv])
         /\ Len(prog[curenv]) \in Nat /\ Len(prog[curenv]) > 0
         /\ \A i \in 1..Len(prog[curenv]) : Operation(prog[curenv][i])
         /\ prog[curenv][Len(prog[curenv])] = Does("sys_env_exit", <<>>)
<1>1. curenv \in Envs /\ prog[curenv] # <<>>
  BY DEF CallsInv, QueueInv
<1>2. prog[curenv] \in Seq(OperationSet)
  BY <1>1 DEF CallsInv, CallsType
<1> DEFINE p == prog[curenv]
<1>3. Len(p) \in Nat /\ Len(p) > 0 /\ Head(p) = p[1] /\ p[1] \in OperationSet
  BY <1>1, <1>2, EmptySeq
<1>4. Regs(curenv) = cpu
  BY DEF Regs
<1>5. ProgramInv(cpu, p, served[curenv])
  BY <1>1, <1>4 DEF CallsInv
<1> QED BY <1>1, <1>2, <1>3, <1>5 DEF ProgramInv, Placed, Op

\* Loading the registers.
LEMMA CallStubKeeps == CallsInv /\ CallStub => CallsInv'
<1> SUFFICES ASSUME CallsInv, CallStub PROVE CallsInv'
  OBVIOUS
<1> DEFINE e == curenv
           num == Number(Stub[Op.fn][1])
<1>1. curenv # NoEnv /\ cpu.eip = 0 /\ Op.fn \in DOMAIN Stub
      /\ cpu' = [syscall(cpu, num, Op.args) EXCEPT !.eip = 1]
      /\ UNCHANGED <<env_tf, curenv, ready, prog, kern, console, served, masked>>
  BY DEF CallStub
<1>2. /\ e \in Envs /\ prog[e] \in Seq(OperationSet) /\ prog[e] # <<>>
      /\ Op = prog[e][1] /\ Op \in OperationSet /\ Operation(Op)
      /\ cpu \in RegisterType /\ Placed(cpu, Op, served[e])
  BY <1>1, Running
<1>3. num \in Int
  BY <1>1, Dispatched
<1> DEFINE args == Op.args
<1>4. \A i \in 1..5 : Argument(args, i) \in Int
  <2>1. args \in Seq(Int)
    BY <1>2 DEF OperationSet
  <2> HIDE DEF args
  <2>2. ASSUME NEW i \in 1..5 PROVE Argument(args, i) \in Int
    <3>1. CASE i <= Len(args)
      <4>1. i \in 1..Len(args)
        BY <2>1, <3>1
      <4> QED BY <2>1, <3>1, <4>1, ElementOfSeq DEF Argument
    <3>2. CASE ~(i <= Len(args))
      BY <3>2 DEF Argument
    <3> QED BY <3>1, <3>2
  <2> QED BY <2>2
<1>5. cpu' = [cpu EXCEPT !.eax = num, !.edx = Argument(args, 1), !.ecx = Argument(args, 2),
                         !.ebx = Argument(args, 3), !.edi = Argument(args, 4),
                         !.esi = Argument(args, 5), !.eip = 1]
  BY <1>1, <1>2 DEF syscall, Argument, RegisterType
<1> HIDE DEF num, args
<1>6. /\ cpu' \in RegisterType /\ cpu'.eip = 1 /\ cpu'.eax = num /\ cpu'.edx = Argument(args, 1)
      /\ cpu'.ecx = Argument(args, 2) /\ cpu'.ebx = Argument(args, 3) /\ cpu'.edi = Argument(args, 4)
      /\ cpu'.esi = Argument(args, 5) /\ cpu'.eflags = cpu.eflags
  <2> DEFINE a1 == Argument(args, 1)
             a2 == Argument(args, 2)
             a3 == Argument(args, 3)
             a4 == Argument(args, 4)
             a5 == Argument(args, 5)
  <2>1. a1 \in Int /\ a2 \in Int /\ a3 \in Int /\ a4 \in Int /\ a5 \in Int
    BY <1>4
  <2>2. cpu' = [cpu EXCEPT !.eax = num, !.edx = a1, !.ecx = a2, !.ebx = a3, !.edi = a4, !.esi = a5,
                           !.eip = 1]
    BY <1>5
  <2> HIDE DEF a1, a2, a3, a4, a5
  <2>3. /\ cpu' \in RegisterType /\ cpu'.eip = 1 /\ cpu'.eax = num /\ cpu'.edx = a1 /\ cpu'.ecx = a2
        /\ cpu'.ebx = a3 /\ cpu'.edi = a4 /\ cpu'.esi = a5 /\ cpu'.eflags = cpu.eflags
    <3> DEFINE c1 == [cpu EXCEPT !.eax = num, !.edx = a1, !.ecx = a2]
               c2 == [c1 EXCEPT !.ebx = a3, !.edi = a4]
               c3 == [c2 EXCEPT !.esi = a5, !.eip = 1]
    <3>1. c1 \in RegisterType /\ c1.eax = num /\ c1.edx = a1 /\ c1.ecx = a2 /\ c1.eflags = cpu.eflags
      BY <1>2, <1>3, <2>1 DEF RegisterType
    <3> HIDE DEF c1
    <3>2. /\ c2 \in RegisterType /\ c2.eax = c1.eax /\ c2.edx = c1.edx /\ c2.ecx = c1.ecx
          /\ c2.eflags = c1.eflags /\ c2.ebx = a3 /\ c2.edi = a4
      BY <3>1, <2>1 DEF RegisterType
    <3> HIDE DEF c2
    <3>3. /\ c3 \in RegisterType /\ c3.eax = c2.eax /\ c3.edx = c2.edx /\ c3.ecx = c2.ecx
          /\ c3.eflags = c2.eflags /\ c3.ebx = c2.ebx /\ c3.edi = c2.edi /\ c3.esi = a5 /\ c3.eip = 1
      <4>1. c2 \in RegisterType /\ a5 \in Int
        BY <3>2, <2>1
      <4>2. c3 \in RegisterType
        <5> DEFINE c == [c2 EXCEPT !.esi = a5]
        <5>1. c \in RegisterType
          BY <4>1 DEF RegisterType
        <5>2. c3 = [c EXCEPT !.eip = 1]
          OBVIOUS
        <5> HIDE DEF c, c3
        <5>3. [c EXCEPT !.eip = 1] \in RegisterType
          BY <5>1 DEF RegisterType
        <5> QED BY <5>2, <5>3
      <4>3. /\ c3.eax = c2.eax /\ c3.edx = c2.edx /\ c3.ecx = c2.ecx
            /\ c3.eflags = c2.eflags /\ c3.ebx = c2.ebx /\ c3.edi = c2.edi
        BY <4>1 DEF RegisterType
      <4>4. c3.esi = a5 /\ c3.eip = 1
        BY <4>1 DEF RegisterType
      <4> QED BY <4>2, <4>3, <4>4
    <3>4. cpu' = c3
      BY <2>2 DEF c1, c2
    <3> HIDE DEF c3
    <3> QED BY <3>1, <3>2, <3>3, <3>4
  <2> QED BY <2>3 DEF a1, a2, a3, a4, a5
<1>7. Placed(cpu', Op, served[e])
  <2>1. cpu'.eip # 2 /\ ~(cpu'.eip >= 3) /\ cpu'.eip \in Nat
    BY <1>6
  <2>2. Op.fn \in DOMAIN Stub
    BY <1>1
  <2> QED BY <1>6, <2>1, <2>2 DEF Placed, num, args
<1>8. ProgramInv(cpu', prog'[e], served'[e])
  <2>1. ProgramInv(cpu, prog[e], served[e])
    BY <1>2 DEF CallsInv, Regs
  <2> QED BY <1>1, <1>2, <1>7, <2>1 DEF ProgramInv, Op
<1>9. OnlyMoves(e, cpu')
  BY <1>1, RunsOn
<1>10. CallsType' /\ QueueInv' /\ NothingRan'
  BY <1>1 DEF CallsInv, CallsType, QueueInv, NothingRan
<1>11. \A f \in masked' : curenv' = f /\ cpu'.eflags = 0
  BY <1>1, <1>6 DEF CallsInv
<1>12. \A f \in Envs : f # e => prog'[f] = prog[f] /\ served'[f] = served[f]
  BY <1>1
<1> QED BY <1>2, <1>8, <1>9, <1>10, <1>11, <1>12, OneMoves

LEMMA Moved ==
  ASSUME NEW c \in RegisterType, NEW x \in Int
  PROVE  /\ [c EXCEPT !.eip = x] \in RegisterType /\ [c EXCEPT !.eip = x].eip = x
         /\ [c EXCEPT !.eip = x].eflags = c.eflags /\ [c EXCEPT !.eip = x].eax = c.eax
         /\ MovedTo(c, x) \in RegisterType /\ MovedTo(c, x).eip = x
         /\ MovedTo(c, x).eflags = c.eflags /\ MovedTo(c, x).eax = c.eax
<1>1. [c EXCEPT !.eip = x] \in RegisterType
  BY DEF RegisterType
<1>2. /\ [c EXCEPT !.eip = x].eip = x
      /\ [c EXCEPT !.eip = x].eflags = c.eflags /\ [c EXCEPT !.eip = x].eax = c.eax
  BY DEF RegisterType
<1>3. MovedTo(c, x) \in RegisterType
  BY DEF RegisterType, MovedTo
<1>4. MovedTo(c, x).eip = x /\ MovedTo(c, x).eflags = c.eflags /\ MovedTo(c, x).eax = c.eax
  BY DEF MovedTo
<1> QED BY <1>1, <1>2, <1>3, <1>4

\* Where an instruction that is no call leads.
LEMMA ElsewherePlaced ==
  ASSUME NEW c \in RegisterType, NEW op, NEW sv,
         c.eip = 0 \/ (c.eip \in Nat /\ c.eip >= 3 /\ op.fn \notin DOMAIN Stub)
  PROVE  Placed(c, op, sv)
<1>1. c.eip \in Nat /\ c.eip \notin {1, 2}
  OBVIOUS
<1>2. c.eip >= 3 => op.fn \notin DOMAIN Stub
  OBVIOUS
<1> QED BY <1>1, <1>2 DEF Placed

\* Behind an instruction that is no call.
LEMMA BehindIt ==
  ASSUME NEW op \in OperationSet, Operation(op), op.fn \notin DOMAIN Stub
  PROVE  Behind(op) \in Nat /\ Behind(op) >= 3
<1>1. CASE op.fn = "access"
  <2> DEFINE n == op.args[1]
  <2>1. n \in Nat /\ Behind(op) = 3 + n
    BY <1>1, NoStub DEF Operation, Behind
  <2> HIDE DEF n
  <2> QED BY <2>1
<1>2. CASE op.fn # "access"
  <2> DEFINE n == op.args[2]
  <2>1. n \in Nat /\ Behind(op) = 3 + n
    BY <1>2 DEF Operation, Behind
  <2> HIDE DEF n
  <2> QED BY <2>1
<1> QED BY <1>1, <1>2

\* What is left to do when the frame is saved.
LEMMA SavesIt ==
  ASSUME CallsType, curenv \in Envs, NEW p, Saves(p)
  PROVE  /\ prog' = [prog EXCEPT ![curenv] = p] /\ saved' = [saved EXCEPT ![curenv] = p]
         /\ p = prog[curenv] => prog' = prog
BY DEF Saves, CallsType

\* A step of the program e that goes to another instruction of the operation.
LEMMA Steps ==
  ASSUME CallsInv, curenv # NoEnv, NEW c, Placed(c, Op, served[curenv]),
         OnlyMoves(curenv, c), curenv' = curenv, cpu' = c, c.eflags = cpu.eflags,
         DOMAIN env_tf' = Envs, env_tf' = [f \in Envs |-> env_tf'[f]],
         UNCHANGED <<ready, prog, kern, console, served, masked>>
  PROVE  CallsInv'
<1> DEFINE e == curenv
<1>1. e \in Envs /\ prog[e] # <<>>
  BY Running
<1>2. ProgramInv(cpu, prog[e], served[e])
  BY <1>1 DEF CallsInv, Regs
<1>3. ProgramInv(c, prog'[e], served'[e])
  BY <1>1, <1>2 DEF ProgramInv, Op
<1>4. CallsType' /\ QueueInv' /\ NothingRan'
  <2>1. CallsType'
    BY DEF CallsInv, CallsType
  <2>2. QueueInv'
    BY DEF CallsInv, QueueInv
  <2> QED BY <2>1, <2>2 DEF NothingRan
<1>5. \A f \in masked' : curenv' = f /\ cpu'.eflags = 0
  BY DEF CallsInv
<1> QED BY <1>1, <1>3, <1>4, <1>5, OneMoves

LEMMA ReachKeeps == CallsInv /\ Reach => CallsInv'
<1> SUFFICES ASSUME CallsInv, Reach PROVE CallsInv'
  OBVIOUS
<1>1. curenv # NoEnv /\ Op.fn \notin DOMAIN Stub /\ cpu' = [cpu EXCEPT !.eip = 3]
      /\ UNCHANGED <<env_tf, curenv, ready, prog, kern, console, served, masked>>
  BY DEF Reach
<1>2. cpu \in RegisterType
  BY <1>1, Running
<1>3. cpu' \in RegisterType /\ cpu'.eip = 3 /\ cpu'.eflags = cpu.eflags
  BY <1>1, <1>2, Moved
<1>7. cpu'.eip \in Nat /\ cpu'.eip >= 3
  BY <1>3
<1>4. Placed(cpu', Op, served[curenv])
  BY <1>1, <1>3, <1>7, ElsewherePlaced
<1>5. OnlyMoves(curenv, cpu')
  BY <1>1, RunsOn
<1>6. DOMAIN env_tf' = Envs /\ env_tf' = [f \in Envs |-> env_tf'[f]]
  BY <1>1 DEF CallsInv, CallsType
<1> QED BY <1>1, <1>3, <1>4, <1>5, <1>6, Steps

LEMMA AccessKeeps == CallsInv /\ Access => CallsInv'
<1> SUFFICES ASSUME CallsInv, Access PROVE CallsInv'
  OBVIOUS
<1> DEFINE x == Behind(Op)
<1>1. curenv # NoEnv /\ Op.fn \notin DOMAIN Stub /\ cpu' = [cpu EXCEPT !.eip = x]
      /\ UNCHANGED <<env_tf, curenv, ready, prog, kern, console, served, masked>>
  BY NoStub DEF Access
<1>2. cpu \in RegisterType /\ x \in Nat /\ x >= 3
  BY <1>1, Running, BehindIt
<1> HIDE DEF x
<1>3. cpu' \in RegisterType /\ cpu'.eip = x /\ cpu'.eflags = cpu.eflags
  BY <1>1, <1>2, Moved
<1>4. Placed(cpu', Op, served[curenv])
  BY <1>1, <1>2, <1>3, ElsewherePlaced
<1>5. OnlyMoves(curenv, cpu')
  BY <1>1, RunsOn
<1>6. DOMAIN env_tf' = Envs /\ env_tf' = [f \in Envs |-> env_tf'[f]]
  BY <1>1 DEF CallsInv, CallsType
<1> QED BY <1>1, <1>3, <1>4, <1>5, <1>6, Steps

\* A frame saved for the running environment, which is restarted.
LEMMA Returns ==
  ASSUME CallsInv, curenv # NoEnv, NEW t, env_run(curenv, [env_tf EXCEPT ![curenv] = t])
  PROVE  /\ OnlyMoves(curenv, env_pop_tf(t)) /\ cpu' = env_pop_tf(t) /\ curenv' = curenv
         /\ DOMAIN env_tf' = Envs /\ env_tf' = [f \in Envs |-> env_tf'[f]]
<1> DEFINE e == curenv
           tfs == [env_tf EXCEPT ![e] = t]
<1>1. e \in Envs /\ CallsType
  BY Running DEF CallsInv
<1>2. \A f \in Envs : Regs(f)' = env_pop_tf(tfs[f])
  BY RunsFrom
<1>3. OnlyMoves(e, env_pop_tf(t))
  BY <1>1, <1>2, SavedFor
<1>4. tfs[e] = t /\ DOMAIN tfs = Envs /\ tfs = [f \in Envs |-> tfs[f]]
  BY <1>1 DEF CallsType
<1>5. curenv' = e /\ cpu' = env_pop_tf(tfs[e]) /\ env_tf' = tfs
  BY DEF env_run
<1> HIDE DEF tfs
<1> QED BY <1>3, <1>4, <1>5

LEMMA UnexpectedTrapKeeps == CallsInv /\ UnexpectedTrap => CallsInv'
<1> SUFFICES ASSUME CallsInv, UnexpectedTrap PROVE CallsInv'
  OBVIOUS
<1> DEFINE v == Op.args[1]
           x == Behind(Op)
           c == [cpu EXCEPT !.eip = x]
<1>1. curenv # NoEnv /\ v \in idt_init /\ Op.fn \notin DOMAIN Stub
      /\ env_run(curenv, [env_tf EXCEPT ![curenv] = trap(c, v)]) /\ Saves(prog[curenv])
      /\ UNCHANGED <<ready, kern, console, served, masked>>
  BY NoStub DEF UnexpectedTrap
<1>2. /\ curenv \in Envs /\ cpu \in RegisterType /\ Placed(cpu, Op, served[curenv])
      /\ x \in Nat /\ x >= 3
  BY <1>1, Running, BehindIt
<1> HIDE DEF v, x
<1>3. c \in RegisterType /\ c.eip = x /\ c.eflags = cpu.eflags
  BY <1>2, Moved
<1> HIDE DEF c
<1>4. env_pop_tf(trap(c, v)) = c
  BY <1>1, <1>3, TrapRestarts
<1>5. /\ OnlyMoves(curenv, c) /\ cpu' = c /\ curenv' = curenv
      /\ DOMAIN env_tf' = Envs /\ env_tf' = [f \in Envs |-> env_tf'[f]]
  BY <1>1, <1>4, Returns
<1>6. Placed(c, Op, served[curenv])
  BY <1>1, <1>2, <1>3, ElsewherePlaced
<1>7. prog' = prog
  BY <1>1, <1>2, SavesIt DEF CallsInv
<1> QED BY <1>1, <1>3, <1>5, <1>6, <1>7, Steps

-----------------------------------------------------------------------------
(* What is left of a program *)

\* The indices of the tail.
LEMMA TailOf ==
  ASSUME NEW p \in Seq(OperationSet), p # <<>>
  PROVE  /\ Len(p) \in Nat /\ Len(p) > 0 /\ Tail(p) \in Seq(OperationSet) /\ Len(Tail(p)) = Len(p) - 1
         /\ \A i \in 1..(Len(p) - 1) : Tail(p)[i] = p[i + 1] /\ i + 1 \in 2..Len(p)
<1> DEFINE n == Len(p)
           t == Tail(p)
<1>1. n \in Nat /\ n > 0
  BY EmptySeq
<1>2. t \in Seq(OperationSet) /\ Len(t) = n - 1 /\ \A i \in 1..Len(t) : t[i] = p[i + 1]
  BY HeadTailProperties
<1> HIDE DEF n, t
<1>3. \A i \in 1..(n - 1) : t[i] = p[i + 1] /\ i + 1 \in 2..n
  BY <1>1, <1>2
<1> QED BY <1>1, <1>2, <1>3 DEF n, t

\* A program whose first operation is not exit goes on.
LEMMA GoesOn ==
  ASSUME NEW p \in Seq(OperationSet), p # <<>>, p[1].fn # "sys_env_exit",
         \A i \in 1..Len(p) : Operation(p[i]), p[Len(p)] = Does("sys_env_exit", <<>>)
  PROVE  /\ Tail(p) # <<>> /\ \A i \in 1..Len(Tail(p)) : Operation(Tail(p)[i])
         /\ Tail(p)[Len(Tail(p))] = Does("sys_env_exit", <<>>)
<1> DEFINE n == Len(p)
           t == Tail(p)
<1>1. /\ n \in Nat /\ n > 0 /\ t \in Seq(OperationSet) /\ Len(t) = n - 1
      /\ \A i \in 1..(n - 1) : t[i] = p[i + 1] /\ i + 1 \in 2..n
  BY TailOf
<1>2. (\A i \in 1..n : Operation(p[i])) /\ p[n] = Does("sys_env_exit", <<>>)
  OBVIOUS
<1> HIDE DEF n, t
<1>3. n # 1
  BY <1>2 DEF Does
<1>4. n - 1 \in 1..(n - 1) /\ (n - 1) + 1 = n
  BY <1>1, <1>3
<1>5. t[n - 1] = p[n]
  BY <1>1, <1>4
<1>6. \A i \in 1..(n - 1) : i + 1 \in 1..n
  BY <1>1
<1>7. \A i \in 1..(n - 1) : Operation(t[i])
  BY <1>1, <1>2, <1>6
<1>8. Len(t) # 0
  BY <1>1, <1>3
<1>9. t # <<>>
  BY <1>8
<1> QED BY <1>1, <1>2, <1>5, <1>7, <1>9 DEF n, t

\* Another first operation.
LEMMA FirstReplaced ==
  ASSUME NEW p \in Seq(OperationSet), p # <<>>, NEW x \in OperationSet
  PROVE  LET q == <<x>> \o Tail(p)
         IN  /\ q \in Seq(OperationSet) /\ Len(q) = Len(p) /\ q # <<>> /\ q[1] = x
             /\ \A i \in 2..Len(p) : q[i] = p[i]
<1> DEFINE n == Len(p)
           t == Tail(p)
           h == <<x>>
           q == h \o t
<1>1. /\ n \in Nat /\ n > 0 /\ t \in Seq(OperationSet) /\ Len(t) = n - 1
      /\ \A i \in 1..(n - 1) : t[i] = p[i + 1] /\ i + 1 \in 2..n
  BY TailOf
<1>2. h \in Seq(OperationSet) /\ Len(h) = 1 /\ h[1] = x
  OBVIOUS
<1> HIDE DEF n, t, h
<1>3. q \in Seq(OperationSet) /\ Len(q) = Len(h) + Len(t)
      /\ \A i \in 1..(Len(h) + Len(t)) : q[i] = IF i <= Len(h) THEN h[i] ELSE t[i - Len(h)]
  <2>1. t \in Seq(OperationSet) /\ h \in Seq(OperationSet)
    BY <1>1, <1>2
  <2> QED BY ONLY <2>1, ConcatProperties
<1> HIDE DEF q
<1>4. Len(h) + Len(t) = n /\ Len(h) = 1
  BY <1>1, <1>2
<1>5. Len(q) = n /\ \A i \in 1..n : q[i] = IF i <= 1 THEN h[i] ELSE t[i - 1]
  BY <1>3, <1>4
<1>6. q[1] = x
  BY <1>1, <1>2, <1>5
<1>7. ASSUME NEW i \in 2..n PROVE q[i] = p[i]
  <2>1. i - 1 \in 1..(n - 1) /\ (i - 1) + 1 = i /\ ~(i <= 1) /\ i \in 1..n
    BY <1>1
  <2>2. q[i] = t[i - 1]
    BY <1>5, <2>1
  <2> QED BY <1>1, <2>1, <2>2
<1>8. q # <<>>
  BY <1>1, <1>5
<1> QED BY <1>3, <1>5, <1>6, <1>7, <1>8 DEF n, t, h, q

LEMMA PageFaultKeeps == CallsInv /\ PageFault => CallsInv'
<1> SUFFICES ASSUME CallsInv, PageFault PROVE CallsInv'
  OBVIOUS
<1> DEFINE e == curenv
           tf == trap(cpu, T_PGFLT)
           tf2 == [tf EXCEPT !.eip = tf.eip + kern.bypass]
           len == Op.args[1]
           new == Does("access", <<len, 1>>)
<1>1. curenv # NoEnv /\ cpu.eip = 3 /\ Op.fn = "access" /\ env_run(e, [env_tf EXCEPT ![e] = tf2])
      /\ Saves(IF kern.bypass # 0 THEN prog[e] ELSE <<new>> \o Tail(prog[e]))
      /\ UNCHANGED <<ready, kern, console, served, masked>>
  BY DEF PageFault
<1>2. /\ e \in Envs /\ prog[e] \in Seq(OperationSet) /\ prog[e] # <<>>
      /\ Op = prog[e][1] /\ Op \in OperationSet /\ Operation(Op)
      /\ cpu \in RegisterType /\ Placed(cpu, Op, served[e])
      /\ Len(prog[e]) \in Nat /\ Len(prog[e]) > 0
      /\ \A i \in 1..Len(prog[e]) : Operation(prog[e][i])
      /\ prog[e][Len(prog[e])] = Does("sys_env_exit", <<>>)
  BY <1>1, Running
<1>3. kern.bypass \in Nat
  BY DEF CallsInv, CallsType, KernelType
<1>4. T_PGFLT \in idt_init
  BY DEF T_PGFLT, idt_init
<1>5. tf.eip = 3
  BY <1>1, <1>2, <1>4, Framed
<1> DEFINE x == 3 + kern.bypass
           c == MovedTo(cpu, x)
<1>6. x \in Nat /\ x >= 3 /\ x \in Int
  BY <1>3
<1>7. tf2 = [tf EXCEPT !.eip = x]
  BY <1>5
<1> HIDE DEF x
<1>8. env_pop_tf(tf2) = c
  <2>1. env_pop_tf([tf EXCEPT !.eip = x]) = c
    BY <1>2, <1>4, TrapRestarts
  <2> HIDE DEF tf
  <2> QED BY <1>7, <2>1
<1>9. c \in RegisterType /\ c.eip = x /\ c.eflags = cpu.eflags
  BY <1>2, <1>6, Moved
<1> HIDE DEF c, tf2, tf
<1>10. /\ OnlyMoves(e, c) /\ cpu' = c /\ curenv' = e
       /\ DOMAIN env_tf' = Envs /\ env_tf' = [f \in Envs |-> env_tf'[f]]
  BY <1>1, <1>8, Returns
<1>11. CASE kern.bypass # 0
  <2>1. prog' = prog
    BY <1>1, <1>2, <1>11, SavesIt DEF CallsInv
  <2>2. Placed(c, Op, served[e])
    BY <1>1, <1>6, <1>9, NoStub, ElsewherePlaced
  <2> QED BY <1>1, <1>9, <1>10, <2>1, <2>2, Steps
<1>12. CASE kern.bypass = 0
  <2> DEFINE p == prog[e]
             q == <<new>> \o Tail(p)
  <2>1. prog' = [prog EXCEPT ![e] = q]
    BY <1>1, <1>2, <1>12, SavesIt DEF CallsInv
  <2>2. new \in OperationSet /\ Operation(new) /\ new.fn = "access"
    <3>4. len \in Nat \ {0}
      BY <1>1, <1>2, NoStub DEF Operation
    <3> HIDE DEF len
    <3>1. <<len, 1>> \in Seq(Int) /\ new.fn = "access" /\ new.args = <<len, 1>>
      BY <3>4 DEF Does
    <3>2. new \in OperationSet
      <4>1. "access" \in DOMAIN Stub \cup {"access", "exception"}
        OBVIOUS
      <4>2. \A a \in Seq(Int) : [fn |-> "access", args |-> a] \in OperationSet
        BY <4>1 DEF OperationSet
      <4> QED BY <3>1, <4>2 DEF Does
    <3> HIDE DEF new
    <3>5. Len(new.args) = 2 /\ new.args[1] = len /\ new.args[2] = 1
      BY <3>1
    <3>3. Operation(new)
      BY <3>1, <3>4, <3>5 DEF Operation
    <3> QED BY <3>1, <3>2, <3>3
  <2> HIDE DEF new
  <2>3. q \in Seq(OperationSet) /\ Len(q) = Len(p) /\ q # <<>> /\ q[1] = new /\ \A i \in 2..Len(p) : q[i] = p[i]
    BY <1>2, <2>2, FirstReplaced
  <2> HIDE DEF q
  <2>4. prog'[e] = q /\ (\A f \in Envs : f # e => prog'[f] = prog[f]) /\ prog' \in [Envs -> Seq(OperationSet)]
    BY <1>2, <2>1, <2>3 DEF CallsInv, CallsType
  <2>5. Head(q) = new
    BY <2>3
  <2>6. Placed(c, new, served[e])
    BY <1>6, <1>9, <2>2, NoStub, ElsewherePlaced
  <2>7. \A i \in 1..Len(p) : i = 1 \/ i \in 2..Len(p)
    BY <1>2
  <2>8. \A i \in 1..Len(q) : Operation(q[i])
    BY <1>2, <2>2, <2>3, <2>7
  <2>9. q[Len(q)] = Does("sys_env_exit", <<>>)
    <3>1. p[1].fn = "access"
      BY <1>1, <1>2
    <3>2. Len(p) # 1
      BY <1>2, <3>1 DEF Does
    <3>3. Len(p) \in 2..Len(p)
      <4> DEFINE n == Len(p)
      <4>1. n \in Nat /\ n > 0 /\ n # 1
        BY <1>2, <3>2
      <4> HIDE DEF n
      <4>2. n \in 2..n
        BY <4>1
      <4> QED BY <4>2 DEF n
    <3> QED BY <1>2, <2>3, <3>3
  <2>10. ProgramInv(c, prog'[e], served'[e])
    BY <1>1, <2>4, <2>5, <2>6, <2>8, <2>9 DEF ProgramInv
  <2>11. CallsType'
    BY <1>1, <1>10, <2>4 DEF CallsInv, CallsType
  <2>12. QueueInv'
    <3>1. \A f \in Envs : prog[f] # <<>> => prog'[f] # <<>>
      BY <2>3, <2>4
    <3>2. \A i \in 1..Len(ready) : ready[i] \in Envs
      BY ElementOfSeq DEF CallsInv, QueueInv
    <3> QED BY <1>1, <1>10, <3>1, <3>2 DEF CallsInv, QueueInv
  <2>13. NothingRan'
    BY <1>1, <1>10 DEF NothingRan
  <2>14. \A f \in masked' : curenv' = f /\ cpu'.eflags = 0
    BY <1>1, <1>9, <1>10 DEF CallsInv
  <2>15. \A f \in Envs : f # e => prog'[f] = prog[f] /\ served'[f] = served[f]
    BY <1>1, <2>4
  <2> QED BY <1>2, <1>10, <2>10, <2>11, <2>12, <2>13, <2>14, <2>15, OneMoves
<1> QED BY <1>11, <1>12

\* A program that is before an operation of q.
LEMMA GoesTo ==
  ASSUME CallsInv, curenv # NoEnv, NEW q \in Seq(OperationSet), q # <<>>,
         \A i \in 1..Len(q) : Operation(q[i]), q[Len(q)] = Does("sys_env_exit", <<>>),
         cpu' \in RegisterType, cpu'.eip = 0, cpu'.eflags = cpu.eflags,
         prog' = [prog EXCEPT ![curenv] = q],
         UNCHANGED <<env_tf, curenv, ready, kern, console, served, masked>>
  PROVE  CallsInv'
<1> DEFINE e == curenv
<1>1. e \in Envs
  BY Running
<1>2. OnlyMoves(e, cpu')
  BY RunsOn
<1>3. prog'[e] = q /\ (\A f \in Envs : f # e => prog'[f] = prog[f]) /\ prog' \in [Envs -> Seq(OperationSet)]
  BY <1>1 DEF CallsInv, CallsType
<1>4. Placed(cpu', Head(q), served[e])
  BY ElsewherePlaced
<1>5. ProgramInv(cpu', prog'[e], served'[e])
  BY <1>3, <1>4 DEF ProgramInv
<1>6. CallsType'
  BY <1>3 DEF CallsInv, CallsType
<1>7. QueueInv'
  <2>1. \A f \in Envs : prog[f] # <<>> => prog'[f] # <<>>
    BY <1>3
  <2>2. \A i \in 1..Len(ready) : ready[i] \in Envs
    BY ElementOfSeq DEF CallsInv, QueueInv
  <2> QED BY <2>1, <2>2 DEF CallsInv, QueueInv
<1>8. NothingRan'
  BY DEF NothingRan
<1>9. \A f \in masked' : curenv' = f /\ cpu'.eflags = 0
  BY DEF CallsInv
<1>10. \A f \in Envs : f # e => prog'[f] = prog[f] /\ served'[f] = served[f]
  BY <1>3
<1> QED BY <1>1, <1>2, <1>5, <1>6, <1>7, <1>8, <1>9, <1>10, OneMoves

LEMMA StubReturnsKeeps == CallsInv /\ StubReturns => CallsInv'
<1> SUFFICES ASSUME CallsInv, StubReturns PROVE CallsInv'
  OBVIOUS
<1> DEFINE e == curenv
           p == prog[e]
<1>1. curenv # NoEnv /\ cpu.eip \notin {0, 1} /\ cpu' = [cpu EXCEPT !.eip = 0]
      /\ (prog' = prog \/ prog' = [prog EXCEPT ![e] = Tail(p)])
      /\ UNCHANGED <<env_tf, curenv, ready, kern, console, served, masked>>
  BY DEF StubReturns
<1>2. /\ e \in Envs /\ p \in Seq(OperationSet) /\ p # <<>>
      /\ Op = p[1] /\ Op \in OperationSet /\ Operation(Op)
      /\ cpu \in RegisterType /\ Placed(cpu, Op, served[e])
      /\ Len(p) \in Nat /\ Len(p) > 0
      /\ \A i \in 1..Len(p) : Operation(p[i])
      /\ p[Len(p)] = Does("sys_env_exit", <<>>)
  BY <1>1, Running
<1>3. cpu' \in RegisterType /\ cpu'.eip = 0 /\ cpu'.eflags = cpu.eflags
  <2>1. cpu' = [cpu EXCEPT !.eip = 0] /\ cpu \in RegisterType /\ 0 \in Int
    BY <1>1, <1>2
  <2> QED BY ONLY <2>1, Moved
<1>4. OnlyMoves(e, cpu')
  BY <1>1, RunsOn
<1>5. DOMAIN env_tf' = Envs /\ env_tf' = [f \in Envs |-> env_tf'[f]]
  BY <1>1 DEF CallsInv, CallsType
<1>6. CASE prog' = prog
  <2>1. Placed(cpu', Op, served[e])
    BY <1>3, ElsewherePlaced
  <2> QED BY <1>1, <1>3, <1>4, <1>5, <1>6, <2>1, Steps
<1>7. CASE prog' = [prog EXCEPT ![e] = Tail(p)]
  <2> DEFINE q == Tail(p)
  <2>1. p[1].fn # "sys_env_exit"
    <3>1. CASE cpu.eip = 2
      BY <1>2, <3>1 DEF Placed
    <3>2. CASE cpu.eip >= 3
      BY <1>2, <3>2, NoStub DEF Placed
    <3>3. cpu.eip \in Nat
      BY <1>2 DEF Placed
    <3> QED BY <1>1, <3>1, <3>2, <3>3
  <2>2. /\ q # <<>> /\ \A i \in 1..Len(q) : Operation(q[i])
        /\ q[Len(q)] = Does("sys_env_exit", <<>>)
    BY <1>2, <2>1, GoesOn
  <2>3. q \in Seq(OperationSet)
    BY <1>2, TailOf
  <2>4. prog' = [prog EXCEPT ![e] = q]
    BY <1>7
  <2> HIDE DEF q
  <2> QED BY <1>1, <1>3, <2>2, <2>3, <2>4, GoesTo
<1> QED BY <1>1, <1>6, <1>7

LEMMA StraysKeeps ==
  ASSUME CallsInv, NEW p \in Seq(OperationSet), Program(p), Strays(p)
  PROVE  CallsInv'
<1>1. curenv # NoEnv /\ cpu' = [cpu EXCEPT !.eip = 0] /\ prog' = [prog EXCEPT ![curenv] = p]
      /\ UNCHANGED <<env_tf, curenv, ready, kern, console, served, masked>>
  BY DEF Strays
<1>2. cpu' \in RegisterType /\ cpu'.eip = 0 /\ cpu'.eflags = cpu.eflags
  <2>1. cpu' = [cpu EXCEPT !.eip = 0] /\ cpu \in RegisterType /\ 0 \in Int
    BY <1>1, Running
  <2> QED BY ONLY <2>1, Moved
<1>3. p # <<>> /\ (\A i \in 1..Len(p) : Operation(p[i])) /\ p[Len(p)] = Does("sys_env_exit", <<>>)
  BY DEF Program
<1> QED BY <1>1, <1>2, <1>3, GoesTo

\* The clock: the program joins the end of the queue.
LEMMA JoinsQueue ==
  ASSUME QueueInv, curenv # NoEnv
  PROVE  LET q == Append(ready, curenv)
         IN  /\ q \in Seq(Envs) /\ q # <<>>
             /\ \A i, j \in 1..Len(q) : q[i] = q[j] => i = j
             /\ \A i \in 1..Len(q) : prog[q[i]] # <<>>
<1> DEFINE q == Append(ready, curenv)
           n == Len(ready)
<1>1. curenv \in Envs /\ ready \in Seq(Envs) /\ n \in Nat
  BY DEF QueueInv
<1>2. q \in Seq(Envs) /\ q # <<>> /\ Len(q) = n + 1 /\ (\A i \in 1..n : q[i] = ready[i]) /\ q[n + 1] = curenv
  BY <1>1, AppendProperties
<1>3. /\ \A i, j \in 1..n : ready[i] = ready[j] => i = j
      /\ \A i \in 1..n : ready[i] # curenv /\ prog[ready[i]] # <<>>
      /\ prog[curenv] # <<>>
  BY DEF QueueInv
<1> HIDE DEF n, q
<1>4. \A i \in 1..(n + 1) : i = n + 1 \/ i \in 1..n
  BY <1>1
<1>5. \A i, j \in 1..(n + 1) : q[i] = q[j] => i = j
  BY <1>2, <1>3, <1>4
<1>6. \A i \in 1..(n + 1) : prog[q[i]] # <<>>
  BY <1>2, <1>3, <1>4
<1> QED BY <1>2, <1>5, <1>6 DEF q

LEMMA ClockKeeps == CallsInv /\ clock_interrupt => CallsInv'
<1> SUFFICES ASSUME CallsInv, clock_interrupt PROVE CallsInv'
  OBVIOUS
<1> DEFINE e == curenv
           t == trap(cpu, IRQ0_Clock)
           tfs == [env_tf EXCEPT ![e] = t]
           q == Append(ready, curenv)
<1>0. curenv # NoEnv /\ cpu.eflags = 1 /\ fos_scheduler(q, tfs) /\ Saves(prog[curenv])
      /\ UNCHANGED <<kern, console, served, masked>>
  BY DEF clock_interrupt
<1>2. e \in Envs /\ cpu \in RegisterType /\ CallsType
  BY <1>0, Running DEF CallsInv
<1>1. curenv # NoEnv /\ cpu.eflags = 1 /\ fos_scheduler(q, tfs)
      /\ UNCHANGED <<prog, kern, console, served, masked>>
  BY <1>0, <1>2, SavesIt
<1>3. env_pop_tf(t) = cpu
  <2>1. IRQ0_Clock \in idt_init
    BY DEF IRQ0_Clock, idt_init
  <2> QED BY <1>2, <2>1, TrapRestarts
<1>4. /\ q \in Seq(Envs) /\ q # <<>>
      /\ \A i, j \in 1..Len(q) : q[i] = q[j] => i = j
      /\ \A i \in 1..Len(q) : prog[q[i]] # <<>>
  BY <1>1, JoinsQueue DEF CallsInv
<1>5. DOMAIN tfs = Envs /\ tfs = [f \in Envs |-> tfs[f]]
  BY <1>2 DEF CallsType
<1> HIDE DEF q, t
<1>6. /\ \A f \in Envs : Regs(f)' = env_pop_tf(tfs[f])
      /\ env_tf' = tfs
      /\ curenv' = q[1] /\ curenv' \in Envs /\ ready' = Tail(q)
  <2> HIDE DEF tfs
  <2> QED BY <1>1, <1>4, SchedulesFrom
<1>7. OnlyMoves(e, cpu)
  BY <1>2, <1>3, <1>6, SavedFor
<1> HIDE DEF tfs
<1>8. QueueInv'
  BY <1>1, <1>4, <1>6, QueueStarts
<1>9. CallsType'
  BY <1>1, <1>2, <1>5, <1>6 DEF CallsType
<1>10. NothingRan'
  BY <1>6, EnvsAreInts DEF NothingRan
<1>11. masked' = {}
  BY <1>1 DEF CallsInv
<1>12. ProgramInv(cpu, prog'[e], served'[e])
  BY <1>1, <1>2 DEF CallsInv, Regs
<1>13. \A f \in Envs : f # e => prog'[f] = prog[f] /\ served'[f] = served[f]
  BY <1>1
<1> QED BY <1>2, <1>7, <1>8, <1>9, <1>10, <1>11, <1>12, <1>13, OneMoves

\* The programs are started.
LEMMA RunKeeps ==
  ASSUME CallsInv, NEW ps, Programs(ps), Run(ps)
  PROVE  CallsInv'
<1> DEFINE q == [e \in Envs |-> e]
<1>1. curenv = NoEnv /\ (\A e \in Envs : served[e].fn = "none") /\ prog' = ps
      /\ fos_scheduler(q, env_tf) /\ UNCHANGED <<kern, console, served, masked>>
  BY DEF Run
<1>2. ps \in [Envs -> Seq(OperationSet)] /\ \A e \in Envs : Program(ps[e])
  BY DEF Programs
<1>3. q \in Seq(Envs) /\ \A i \in 1..Len(q) : q[i] = i /\ i \in Envs
  <2> DEFINE n == Cardinality(Envs)
  <2>1. n \in Nat /\ Envs = 1..n
    BY SystemCallsAssumption
  <2> HIDE DEF n
  <2>2. q \in [1..n -> Envs] /\ \A i \in 1..n : q[i] = i /\ i \in Envs
    BY <2>1
  <2> HIDE DEF q
  <2>3. q \in Seq(Envs) /\ Len(q) = n
    BY <2>1, <2>2
  <2> QED BY <2>2, <2>3
<1> HIDE DEF q
<1>4. (\A i, j \in 1..Len(q) : q[i] = q[j] => i = j) /\ (\A i \in 1..Len(q) : prog'[q[i]] # <<>>)
  BY <1>1, <1>2, <1>3 DEF Program
<1>5. /\ \A f \in Envs : Regs(f)' = env_pop_tf(env_tf[f])
      /\ env_tf' = env_tf
      /\ q = <<>> => curenv' = NoEnv /\ ready' = <<>>
      /\ q # <<>> => curenv' = q[1] /\ curenv' \in Envs /\ ready' = Tail(q)
  BY <1>1, <1>3, SchedulesFrom
<1>6. \A f \in Envs : env_pop_tf(env_tf[f]) = Registers
  BY <1>1 DEF CallsInv, NothingRan
<1>7. QueueInv'
  BY <1>3, <1>4, <1>5, QueueStarts
<1>8. CallsType'
  BY <1>1, <1>2, <1>5 DEF CallsInv, CallsType
<1>9. NothingRan'
  BY <1>5, <1>6 DEF NothingRan
<1>10. masked' = {}
  BY <1>1, EnvsAreInts DEF CallsInv, CallsType
<1>11. ASSUME NEW e \in Envs PROVE ProgramInv(Regs(e)', prog'[e], served'[e])
  <2>1. Regs(e)' = Registers
    BY <1>5, <1>6
  <2>2. Placed(Registers, Head(ps[e]), served'[e])
    BY StartRegisters, ElsewherePlaced
  <2>3. Program(ps[e])
    BY <1>2
  <2> QED BY <1>1, <2>1, <2>2, <2>3 DEF ProgramInv, Program
<1> QED BY <1>7, <1>8, <1>9, <1>10, <1>11 DEF CallsInv

-----------------------------------------------------------------------------
(* System calls *)

\* The kernel takes the arguments from the registers as the stub has put them.
LEMMA ArgumentsTaken ==
  ASSUME NEW a \in Seq(Int), Len(a) \in 0..5
  PROVE  SubSeq(<<Argument(a, 1), Argument(a, 2), Argument(a, 3), Argument(a, 4), Argument(a, 5)>>,
                1, Len(a)) = a
<1> DEFINE w == <<Argument(a, 1), Argument(a, 2), Argument(a, 3), Argument(a, 4), Argument(a, 5)>>
           n == Len(a)
           s == SubSeq(w, 1, n)
<1>1. n \in 0..5 /\ n \in Int /\ \A i \in 1..n : a[i] \in Int
  BY ElementOfSeq
<1>2. \A i \in 1..5 : w[i] = Argument(a, i)
  <2> DEFINE g(i) == Argument(a, i)
  <2>1. w[1] = g(1) /\ w[2] = g(2) /\ w[3] = g(3) /\ w[4] = g(4) /\ w[5] = g(5)
    OBVIOUS
  <2> HIDE DEF w, g
  <2>2. \A i \in 1..5 : i \in {1, 2, 3, 4, 5}
    OBVIOUS
  <2>3. \A i \in 1..5 : w[i] = g(i)
    BY <2>1, <2>2
  <2> QED BY <2>3 DEF g
<1>3. \A i \in 1..n : w[i] = a[i]
  <2>1. \A i \in 1..n : i \in 1..5 /\ i <= n
    BY <1>1
  <2>2. \A i \in 1..n : Argument(a, i) = a[i]
    BY <2>1 DEF Argument
  <2> HIDE DEF w, n
  <2> QED BY <1>2, <2>1, <2>2
<1> HIDE DEF w, n
<1>4. 1 \in Int /\ \A i \in 1..n : w[i] \in Int
  BY <1>1, <1>3
<1>5. /\ s \in Seq(Int) /\ Len(s) = (IF 1 <= n THEN n - 1 + 1 ELSE 0)
      /\ \A i \in 1..(n - 1 + 1) : s[i] = w[1 + i - 1]
  BY <1>1, <1>4, SubSeqProperties
<1> HIDE DEF s
<1>6. Len(s) = n
  BY <1>1, <1>5
<1>7. n - 1 + 1 = n /\ \A i \in 1..n : 1 + i - 1 = i
  BY <1>1
<1>8. \A i \in 1..n : s[i] = a[i]
  BY <1>3, <1>5, <1>7
<1>9. a \in Seq(Int) /\ Len(a) = n
  BY DEF n
<1>10. s = a
  BY <1>5, <1>6, <1>8, <1>9, SeqEqual
<1> QED BY <1>10 DEF s, w, n

\* What the kernel has when the handler starts.
Entered(e) == [env |-> e, kern |-> kern, console |-> console, eflags |-> cpu.eflags,
               value |-> 0, ends |-> FALSE]

\* What a system call of the running environment leaves: the outcome r of the
\* handler that the stub is for, run with the arguments of the program.
CallLeaves(r, x) ==
  LET e == curenv
      c == WithAnswer([cpu EXCEPT !.eip = 2], x, r.eflags)
  IN  /\ kern' = r.kern /\ console' = r.console
      /\ served' = [served EXCEPT ![e] = [fn |-> Op.fn, args |-> Op.args, value |-> r.value]]
      /\ masked' = CASE r.ends \/ Op.fn = "sys_enable_interrupt" -> masked \ {e}
                     [] Op.fn = "sys_disable_interrupt"          -> masked \cup {e}
                     [] OTHER                                    -> masked
      /\ OnlyMoves(e, c)
      /\ DOMAIN env_tf' = Envs /\ env_tf' = [f \in Envs |-> env_tf'[f]]
      /\ IF r.ends
         THEN /\ prog' = [prog EXCEPT ![e] = <<>>]
              /\ ready = <<>> => curenv' = NoEnv /\ ready' = <<>>
              /\ ready # <<>> => curenv' = ready[1] /\ curenv' \in Envs /\ ready' = Tail(ready)
         ELSE curenv' = e /\ cpu' = c /\ UNCHANGED <<prog, ready>>

LEMMA CallServed ==
  ASSUME CallsInv, SystemCall
  PROVE  /\ Op.fn \in DOMAIN Stub
         /\ \E r : /\ After(r, Op.fn, Entered(curenv), Op.args)
                   /\ \E x \in Int : (Op.fn \in Answering => x = r.value) /\ CallLeaves(r, x)
<1> DEFINE e    == curenv
           a    == Op.args
           c2   == [cpu EXCEPT !.eip = 2]
           tf   == trap(c2, T_SYSCALL)
           case == Case[CallNumbers[tf.eax + 1]]
           args == SubSeq(<<tf.edx, tf.ecx, tf.ebx, tf.edi, tf.esi>>, 1, case[2])
           d    == [env |-> e, kern |-> kern, console |-> console, eflags |-> tf.eflags,
                    value |-> 0, ends |-> FALSE]
           x(r) == IF case[3] THEN r.value ELSE 0
           tf2(r) == [tf EXCEPT !.eax = x(r), !.eflags = r.eflags]
           tfs(r) == [env_tf EXCEPT ![e] = tf2(r)]
           step(r) ==
             /\ kern' = r.kern /\ console' = r.console
             /\ served' = [served EXCEPT ![e] = [fn |-> case[1], args |-> args, value |-> r.value]]
             /\ masked' = CASE r.ends \/ case[1] = "sys_enable_interrupt" -> masked \ {e}
                            [] case[1] = "sys_disable_interrupt"          -> masked \cup {e}
                            [] OTHER                                      -> masked
             /\ IF r.ends
                THEN Saves(<<>>) /\ fos_scheduler(ready, tfs(r))
                ELSE Saves(prog[e]) /\ env_run(e, tfs(r)) /\ UNCHANGED ready
<1>1. curenv # NoEnv /\ cpu.eip = 1 /\ \E r \in Handled(case[1], d, args) : step(r)
  BY DEF SystemCall
<1>2. /\ e \in Envs /\ Op \in OperationSet /\ Operation(Op)
      /\ cpu \in RegisterType /\ Placed(cpu, Op, served[e])
  BY <1>1, Running
<1>3. Op.fn \in DOMAIN Stub /\ a \in Seq(Int) /\ Len(a) = Stub[Op.fn][2]
  <2>1. Op.fn \in DOMAIN Stub
    BY <1>1, <1>2 DEF Placed
  <2>2. Op.fn \notin {"access", "exception"}
    BY <2>1, NoStub
  <2>3. a \in Seq(Int)
    BY <1>2 DEF OperationSet
  <2> QED BY <1>2, <2>1, <2>2, <2>3 DEF Operation
<1>4. /\ c2 \in RegisterType /\ c2.eax = cpu.eax /\ c2.edx = cpu.edx /\ c2.ecx = cpu.ecx
      /\ c2.ebx = cpu.ebx /\ c2.edi = cpu.edi /\ c2.esi = cpu.esi /\ c2.eflags = cpu.eflags
  <2>1. c2 \in RegisterType
    BY <1>2, Moved
  <2> QED BY <1>2, <2>1 DEF RegisterType
<1>5. T_SYSCALL \in idt_init
  BY DEF T_SYSCALL, idt_init
<1> HIDE DEF c2
<1>6. /\ tf.eax = cpu.eax /\ tf.edx = cpu.edx /\ tf.ecx = cpu.ecx /\ tf.ebx = cpu.ebx
      /\ tf.edi = cpu.edi /\ tf.esi = cpu.esi /\ tf.eflags = cpu.eflags
  BY <1>4, <1>5, Framed
<1>7. \A y, z : env_pop_tf([tf EXCEPT !.eax = y, !.eflags = z]) = WithAnswer(c2, y, z)
  BY <1>4, <1>5, TrapRestarts
<1> HIDE DEF tf
<1>8. /\ cpu.eax = Number(Stub[Op.fn][1])
      /\ cpu.edx = Argument(a, 1) /\ cpu.ecx = Argument(a, 2)
      /\ cpu.ebx = Argument(a, 3) /\ cpu.edi = Argument(a, 4) /\ cpu.esi = Argument(a, 5)
  BY <1>1, <1>2 DEF Placed
<1>9. case[1] = Op.fn /\ case[2] = Len(a) /\ Len(a) \in 0..5 /\ (Op.fn \in Answering => case[3] = TRUE)
  <2>1. /\ CallNumbers[Number(Stub[Op.fn][1]) + 1] = Stub[Op.fn][1]
        /\ Case[Stub[Op.fn][1]][1] = Op.fn /\ Case[Stub[Op.fn][1]][2] = Stub[Op.fn][2]
        /\ Stub[Op.fn][2] \in 0..5
        /\ Op.fn \in Answering => Case[Stub[Op.fn][1]][3] = TRUE
    BY <1>3, Dispatched
  <2>2. case = Case[Stub[Op.fn][1]]
    BY <1>6, <1>8, <2>1
  <2> HIDE DEF case
  <2> QED BY <1>3, <2>1, <2>2
<1> HIDE DEF case
<1>10. args = a
  <2>1. a \in Seq(Int) /\ Len(a) \in 0..5
    BY <1>3, <1>9
  <2>2. tf.edx = Argument(a, 1) /\ tf.ecx = Argument(a, 2) /\ tf.ebx = Argument(a, 3)
        /\ tf.edi = Argument(a, 4) /\ tf.esi = Argument(a, 5) /\ case[2] = Len(a)
    BY <1>6, <1>8, <1>9
  <2> HIDE DEF a
  <2>3. SubSeq(<<Argument(a, 1), Argument(a, 2), Argument(a, 3), Argument(a, 4), Argument(a, 5)>>,
               1, Len(a)) = a
    BY <2>1, ArgumentsTaken
  <2> QED BY <2>2, <2>3
<1>11. d = Entered(e)
  BY <1>6 DEF Entered
<1> HIDE DEF args, d
<1>12. PICK r \in Handled(Op.fn, Entered(e), a) : step(r)
  BY <1>1, <1>9, <1>10, <1>11
<1>13. Before(Entered(e))
  BY <1>2 DEF Before, Entered, CallsInv, CallsType, RegisterType
<1>14. After(r, Op.fn, Entered(e), a)
  BY <1>3, <1>12, <1>13, HandlersLeave
<1>15. x(r) \in Int /\ (Op.fn \in Answering => x(r) = r.value)
  BY <1>9, <1>14 DEF After
<1> DEFINE c == WithAnswer(c2, x(r), r.eflags)
<1>16. env_pop_tf(tf2(r)) = c
  BY <1>7
<1>17. CallsType /\ ready \in Seq(Envs)
  BY DEF CallsInv, QueueInv
<1>18. DOMAIN tfs(r) = Envs /\ tfs(r) = [f \in Envs |-> tfs(r)[f]] /\ tfs(r)[e] = tf2(r)
  BY <1>2, <1>17 DEF CallsType
<1>19. (\A f \in Envs : Regs(f)' = env_pop_tf(tfs(r)[f])) /\ env_tf' = tfs(r)
  <2>1. CASE r.ends
    <3>1. fos_scheduler(ready, tfs(r))
      BY <1>12, <2>1
    <3> HIDE DEF tfs
    <3> QED BY <1>17, <3>1, SchedulesFrom
  <2>2. CASE ~r.ends
    <3>1. env_run(e, tfs(r))
      BY <1>12, <2>2
    <3> HIDE DEF tfs
    <3>2. env_tf' = tfs(r)
      BY <3>1 DEF env_run
    <3> QED BY <3>1, <3>2, RunsFrom
  <2> QED BY <2>1, <2>2
<1>20. OnlyMoves(e, c)
  <2>1. OnlyMoves(e, env_pop_tf(tf2(r)))
    <3> HIDE DEF tf2
    <3> QED BY <1>2, <1>17, <1>19, SavedFor
  <2> QED BY <1>16, <2>1
<1>21. CallLeaves(r, x(r))
  <2>1. /\ kern' = r.kern /\ console' = r.console
        /\ served' = [served EXCEPT ![e] = [fn |-> Op.fn, args |-> Op.args, value |-> r.value]]
        /\ masked' = CASE r.ends \/ Op.fn = "sys_enable_interrupt" -> masked \ {e}
                       [] Op.fn = "sys_disable_interrupt"          -> masked \cup {e}
                       [] OTHER                                    -> masked
    BY <1>9, <1>10, <1>12
  <2>2. DOMAIN env_tf' = Envs /\ env_tf' = [f \in Envs |-> env_tf'[f]]
    <3> HIDE DEF tfs
    <3> QED BY <1>18, <1>19
  <2>3. CASE r.ends
    <3>1. prog' = [prog EXCEPT ![e] = <<>>] /\ fos_scheduler(ready, tfs(r))
      <4>1. Saves(<<>>) /\ fos_scheduler(ready, tfs(r))
        BY <1>12, <2>3
      <4> QED BY <1>2, <1>17, <4>1, SavesIt
    <3> HIDE DEF tfs
    <3>2. /\ ready = <<>> => curenv' = NoEnv /\ ready' = <<>>
          /\ ready # <<>> => curenv' = ready[1] /\ curenv' \in Envs /\ ready' = Tail(ready)
      BY <1>17, <3>1, SchedulesFrom
    <3> HIDE DEF c, x
    <3> QED BY <1>20, <2>1, <2>2, <2>3, <3>1, <3>2 DEF CallLeaves, c, c2
  <2>4. CASE ~r.ends
    <3>1. env_run(e, tfs(r)) /\ UNCHANGED <<prog, ready>>
      <4>1. Saves(prog[e]) /\ env_run(e, tfs(r)) /\ UNCHANGED ready
        BY <1>12, <2>4
      <4>2. prog' = prog
        BY <1>2, <1>17, <4>1, SavesIt
      <4> QED BY <4>1, <4>2
    <3>2. curenv' = e /\ cpu' = env_pop_tf(tf2(r))
      <4> HIDE DEF tfs, tf2
      <4> QED BY <1>18, <3>1 DEF env_run
    <3>3. cpu' = c
      BY <1>16, <3>2
    <3> HIDE DEF tfs, x
    <3> QED BY <1>20, <2>1, <2>2, <2>4, <3>1, <3>2, <3>3 DEF CallLeaves, c, c2
  <2> QED BY <2>3, <2>4
<1> QED BY <1>3, <1>14, <1>15, <1>21

\* A program that has an answer.
LEMMA Answered ==
  ASSUME NEW c \in RegisterType, NEW x \in Int, NEW y \in {0, 1}
  PROVE  LET w == WithAnswer([c EXCEPT !.eip = 2], x, y)
         IN  w \in RegisterType /\ w.eip = 2 /\ w.eax = x /\ w.eflags = y
<1> DEFINE k == [c EXCEPT !.eip = 2]
<1>1. k \in RegisterType /\ k.eip = 2
  BY Moved
<1> HIDE DEF k
<1>2. WithAnswer(k, x, y) \in RegisterType
  BY <1>1 DEF RegisterType, WithAnswer
<1>3. WithAnswer(k, x, y).eip = 2 /\ WithAnswer(k, x, y).eax = x /\ WithAnswer(k, x, y).eflags = y
  BY <1>1 DEF WithAnswer
<1> QED BY <1>2, <1>3 DEF k

\* Who has masked the clock after a call.
LEMMA MaskedAfter ==
  ASSUME CallsInv, curenv # NoEnv, NEW r, After(r, Op.fn, Entered(curenv), Op.args),
         NEW x \in Int, CallLeaves(r, x)
  PROVE  /\ masked' \subseteq {curenv}
         /\ r.ends => masked' = {}
         /\ curenv \in masked' => r.eflags = 0
<1>1. masked \subseteq {curenv} /\ (curenv \in masked => cpu.eflags = 0)
  BY DEF CallsInv
<1>2. masked' = CASE r.ends \/ Op.fn = "sys_enable_interrupt" -> masked \ {curenv}
                  [] Op.fn = "sys_disable_interrupt"          -> masked \cup {curenv}
                  [] OTHER                                    -> masked
  BY DEF CallLeaves
<1>3. r.eflags = CASE Op.fn = "sys_disable_interrupt" -> 0
                   [] Op.fn = "sys_enable_interrupt"  -> 1
                   [] OTHER                           -> cpu.eflags
  BY DEF After, Entered
<1>4. CASE r.ends \/ Op.fn = "sys_enable_interrupt"
  <2>1. masked' = masked \ {curenv}
    <3>1. Op.fn # "sys_disable_interrupt"
      BY <1>4 DEF After
    <3> QED BY <1>2, <1>4, <3>1
  <2> QED BY <1>1, <2>1
<1>5. CASE ~r.ends /\ Op.fn = "sys_disable_interrupt"
  <2>1. masked' = masked \cup {curenv} /\ r.eflags = 0
    BY <1>2, <1>3, <1>5
  <2> QED BY <1>1, <1>5, <2>1
<1>6. CASE ~r.ends /\ Op.fn # "sys_enable_interrupt" /\ Op.fn # "sys_disable_interrupt"
  <2>1. masked' = masked /\ r.eflags = cpu.eflags
    BY <1>2, <1>3, <1>6
  <2> QED BY <1>1, <1>6, <2>1
<1> QED BY <1>4, <1>5, <1>6

LEMMA NoneIsNoStub == "none" \notin DOMAIN Stub
BY DEF Stub, Joined, EnvironmentStubs, MemoryStubs, ObjectStubs, TestStubs

LEMMA SystemCallKeeps == CallsInv /\ SystemCall => CallsInv'
<1> SUFFICES ASSUME CallsInv, SystemCall PROVE CallsInv'
  OBVIOUS
<1> DEFINE e == curenv
<1>1. curenv # NoEnv
  BY DEF SystemCall
<1>2. /\ e \in Envs /\ prog[e] \in Seq(OperationSet) /\ prog[e] # <<>>
      /\ Op = prog[e][1] /\ Op \in OperationSet
      /\ cpu \in RegisterType /\ Placed(cpu, Op, served[e])
      /\ Len(prog[e]) \in Nat /\ Len(prog[e]) > 0
      /\ \A i \in 1..Len(prog[e]) : Operation(prog[e][i])
      /\ prog[e][Len(prog[e])] = Does("sys_env_exit", <<>>)
  BY <1>1, Running
<1>3. Op.fn \in DOMAIN Stub
  BY CallServed
<1>4. PICK r : /\ After(r, Op.fn, Entered(e), Op.args)
               /\ \E x \in Int : (Op.fn \in Answering => x = r.value) /\ CallLeaves(r, x)
  BY CallServed
<1>5. PICK x \in Int : (Op.fn \in Answering => x = r.value) /\ CallLeaves(r, x)
  BY <1>4
<1> DEFINE c == WithAnswer([cpu EXCEPT !.eip = 2], x, r.eflags)
           sv == [fn |-> Op.fn, args |-> Op.args, value |-> r.value]
<1>6. r.eflags \in {0, 1} /\ r.kern \in KernelType
  <2>1. cpu.eflags \in {0, 1} /\ Entered(e).eflags = cpu.eflags
    BY <1>2 DEF RegisterType, Entered
  <2> QED BY <1>4, <2>1 DEF After
<1>7. c \in RegisterType /\ c.eip = 2 /\ c.eax = x /\ c.eflags = r.eflags
  BY <1>2, <1>6, Answered
<1>8. OnlyMoves(e, c) /\ DOMAIN env_tf' = Envs /\ env_tf' = [f \in Envs |-> env_tf'[f]]
      /\ kern' = r.kern /\ console' = r.console
      /\ served' = [served EXCEPT ![e] = sv]
  BY <1>5 DEF CallLeaves
<1>9. masked' \subseteq {e} /\ (r.ends => masked' = {}) /\ (e \in masked' => r.eflags = 0)
  BY <1>1, <1>4, <1>5, MaskedAfter
<1> HIDE DEF sv
<1>10. served'[e] = sv /\ (\A f \in Envs : f # e => served'[f] = served[f])
       /\ DOMAIN served' = Envs /\ served' = [f \in Envs |-> served'[f]]
  BY <1>2, <1>8 DEF CallsInv, CallsType
<1>11. sv.fn = Op.fn /\ sv.args = Op.args /\ sv.value = r.value
  BY DEF sv
<1>12. console' \in Seq(EntryType)
  <2>1. Entered(e).console = console /\ console \in Seq(EntryType)
    BY DEF Entered, CallsInv, CallsType
  <2>2. r.console = console \/ \E entry \in EntryType : r.console = Append(console, entry)
    BY <1>4, <2>1 DEF After
  <2>3. \A entry \in EntryType : Append(console, entry) \in Seq(EntryType)
    BY <2>1, AppendProperties
  <2> QED BY <1>8, <2>1, <2>2, <2>3
<1>13. NothingRan'
  BY <1>2, <1>3, <1>10, <1>11, NoneIsNoStub DEF NothingRan
<1>14. CASE r.ends
  <2>1. /\ prog' = [prog EXCEPT ![e] = <<>>]
        /\ ready = <<>> => curenv' = NoEnv /\ ready' = <<>>
        /\ ready # <<>> => curenv' = ready[1] /\ curenv' \in Envs /\ ready' = Tail(ready)
    BY <1>5, <1>14 DEF CallLeaves
  <2>2. prog'[e] = <<>> /\ (\A f \in Envs : f # e => prog'[f] = prog[f])
        /\ prog' \in [Envs -> Seq(OperationSet)]
    BY <1>2, <2>1 DEF CallsInv, CallsType
  <2>3. /\ ready \in Seq(Envs) /\ (\A i, j \in 1..Len(ready) : ready[i] = ready[j] => i = j)
        /\ \A i \in 1..Len(ready) : ready[i] \in Envs /\ ready[i] # e /\ prog[ready[i]] # <<>>
    BY ElementOfSeq DEF CallsInv, QueueInv
  <2>4. \A i \in 1..Len(ready) : prog'[ready[i]] # <<>>
    BY <2>2, <2>3
  <2>5. QueueInv'
    BY <2>1, <2>3, <2>4, QueueStarts
  <2>6. CallsType'
    BY <1>6, <1>8, <1>9, <1>10, <1>12, <1>14, <2>2 DEF CallsType
  <2>7. ProgramInv(c, prog'[e], served'[e])
    BY <2>2 DEF ProgramInv
  <2>8. \A f \in masked' : curenv' = f /\ cpu'.eflags = 0
    BY <1>9, <1>14
  <2>9. \A f \in Envs : f # e => prog'[f] = prog[f] /\ served'[f] = served[f]
    BY <1>10, <2>2
  <2> HIDE DEF c
  <2> QED BY <1>2, <1>8, <1>13, <2>5, <2>6, <2>7, <2>8, <2>9, OneMoves
<1>15. CASE ~r.ends
  <2>1. curenv' = e /\ cpu' = c /\ prog' = prog /\ ready' = ready
    BY <1>5, <1>15 DEF CallLeaves
  <2>2. Op.fn # "sys_env_exit"
    BY <1>4, <1>15 DEF After
  <2> HIDE DEF c
  <2>3. Placed(c, Op, sv)
    <3>1. c.eip \in Nat /\ c.eip # 1 /\ ~(c.eip >= 3)
      BY <1>7
    <3>2. Op.fn \in Answering => c.eax = sv.value
      BY <1>5, <1>7, <1>11
    <3> QED BY <1>3, <1>7, <1>11, <2>2, <3>1, <3>2 DEF Placed
  <2>4. ProgramInv(c, prog'[e], served'[e])
    <3>1. Head(prog[e]) = Op
      BY DEF Op
    <3> QED BY <1>2, <1>10, <2>1, <2>3, <3>1 DEF ProgramInv
  <2>5. QueueInv'
    BY <2>1 DEF CallsInv, QueueInv
  <2>6. CallsType'
    <3>1. prog \in [Envs -> Seq(OperationSet)] /\ masked' \subseteq Envs
      BY <1>2, <1>9 DEF CallsInv, CallsType
    <3> QED BY <1>6, <1>8, <1>10, <1>12, <2>1, <3>1 DEF CallsType
  <2>7. \A f \in masked' : curenv' = f /\ cpu'.eflags = 0
    BY <1>7, <1>9, <2>1
  <2>8. \A f \in Envs : f # e => prog'[f] = prog[f] /\ served'[f] = served[f]
    BY <1>10, <2>1
  <2> QED BY <1>2, <1>8, <1>13, <2>4, <2>5, <2>6, <2>7, <2>8, OneMoves
<1> QED BY <1>14, <1>15

LEMMA DoubleFaultKeeps == CallsInv /\ DoubleFault => CallsInv'
<1> SUFFICES ASSUME CallsInv, DoubleFault PROVE CallsInv'
  OBVIOUS
<1> DEFINE e == curenv
           t == trap(cpu, T_DBLFLT)
           tfs == [env_tf EXCEPT ![e] = t]
           sv == [fn |-> "panic", args |-> <<>>, value |-> 0]
           entry == [env |-> e, s |-> 0, len |-> 1, head |-> 0]
<1>1. /\ curenv # NoEnv /\ console' = Append(console, entry) /\ masked' = masked \ {e}
      /\ Saves(<<>>) /\ fos_scheduler(ready, tfs) /\ served' = [served EXCEPT ![e] = sv] /\ kern' = kern
  BY DEF DoubleFault
<1>2. e \in Envs /\ CallsType /\ ready \in Seq(Envs)
  BY <1>1, Running DEF CallsInv, QueueInv
<1>3. prog' = [prog EXCEPT ![e] = <<>>]
  BY <1>1, <1>2, SavesIt
<1>4. DOMAIN tfs = Envs /\ tfs = [f \in Envs |-> tfs[f]]
  BY <1>2 DEF CallsType
<1> HIDE DEF t
<1>5. /\ \A f \in Envs : Regs(f)' = env_pop_tf(tfs[f])
      /\ env_tf' = tfs
      /\ ready = <<>> => curenv' = NoEnv /\ ready' = <<>>
      /\ ready # <<>> => curenv' = ready[1] /\ curenv' \in Envs /\ ready' = Tail(ready)
  <2> HIDE DEF tfs
  <2> QED BY <1>1, <1>2, SchedulesFrom
<1>6. OnlyMoves(e, env_pop_tf(t))
  BY <1>2, <1>5, SavedFor
<1>7. console' \in Seq(EntryType)
  <2>1. entry \in EntryType
    BY <1>2 DEF EntryType
  <2> HIDE DEF entry
  <2> QED BY <1>1, <1>2, <2>1, AppendProperties DEF CallsType
<1>8. prog'[e] = <<>> /\ (\A f \in Envs : f # e => prog'[f] = prog[f]) /\ prog' \in [Envs -> Seq(OperationSet)]
  BY <1>2, <1>3 DEF CallsType
<1>9. served'[e].fn = "panic" /\ (\A f \in Envs : f # e => served'[f] = served[f])
      /\ DOMAIN served' = Envs /\ served' = [f \in Envs |-> served'[f]]
  BY <1>1, <1>2 DEF CallsType
<1> HIDE DEF tfs
<1>10. masked' = {}
  BY <1>1 DEF CallsInv
<1>11. CallsType'
  BY <1>1, <1>2, <1>4, <1>5, <1>7, <1>8, <1>9, <1>10 DEF CallsType
<1>12. QueueInv'
  <2>1. /\ (\A i, j \in 1..Len(ready) : ready[i] = ready[j] => i = j)
        /\ \A i \in 1..Len(ready) : ready[i] \in Envs /\ ready[i] # e /\ prog[ready[i]] # <<>>
    BY ElementOfSeq DEF CallsInv, QueueInv
  <2>2. \A i \in 1..Len(ready) : prog'[ready[i]] # <<>>
    BY <1>8, <2>1
  <2> QED BY <1>2, <1>5, <2>1, <2>2, QueueStarts
<1>13. NothingRan'
  BY <1>2, <1>9 DEF NothingRan
<1>14. ProgramInv(env_pop_tf(t), prog'[e], served'[e])
  BY <1>8 DEF ProgramInv
<1>15. \A f \in Envs : f # e => prog'[f] = prog[f] /\ served'[f] = served[f]
  BY <1>8, <1>9
<1> QED BY <1>2, <1>6, <1>10, <1>11, <1>12, <1>13, <1>14, <1>15, OneMoves

LEMMA KernelStraysKeeps == CallsInv /\ KernelStrays => CallsInv'
<1> SUFFICES ASSUME CallsInv, KernelStrays PROVE CallsInv'
  OBVIOUS
<1> DEFINE e == curenv
           sv == [fn |-> Op.fn, args |-> Op.args, value |-> 0]
<1>1. /\ e # NoEnv /\ Op.fn \in Touches /\ served' = [served EXCEPT ![e] = sv]
      /\ prog' = [f \in Envs |-> <<>>] /\ curenv' = NoEnv /\ ready' = <<>> /\ masked' = {}
      /\ UNCHANGED <<env_tf, kern, console>>
  BY DEF KernelStrays
<1>2. e \in Envs /\ CallsType
  BY <1>1, Running DEF CallsInv
<1>3. sv.fn # "none"
  BY <1>1 DEF Touches
<1> HIDE DEF sv
<1>4. served'[e] = sv /\ DOMAIN served' = Envs /\ served' = [f \in Envs |-> served'[f]]
  BY <1>1, <1>2 DEF CallsType
<1>5. prog' \in [Envs -> Seq(OperationSet)]
  BY <1>1
<1>6. CallsType'
  BY <1>1, <1>2, <1>4, <1>5 DEF CallsType
<1>7. QueueInv'
  BY <1>1 DEF QueueInv
<1>8. NothingRan'
  BY <1>2, <1>3, <1>4 DEF NothingRan
<1>9. \A f \in Envs : ProgramInv(Regs(f)', prog'[f], served'[f])
  BY <1>1 DEF ProgramInv
<1> QED BY <1>1, <1>6, <1>7, <1>8, <1>9 DEF CallsInv

-----------------------------------------------------------------------------
(* The frame of the last trap *)

\* The frames are those of the programs as they are.
Settled == saved = prog /\ \A f \in Envs : Regs(f) = env_pop_tf(env_tf[f])

\* The running program goes on, and the frames stay as they are.
FramesStay ==
  /\ UNCHANGED <<saved, env_tf, curenv, served, masked, console>> /\ cpu'.eflags = cpu.eflags
  /\ \A f \in Envs : f # curenv => prog'[f] = prog[f]

LEMMA SavesAll ==
  ASSUME CallsType, FramesInv, curenv \in Envs, NEW p, Saves(p)
  PROVE  saved' = prog'
<1>1. prog' = [prog EXCEPT ![curenv] = p] /\ saved' = [saved EXCEPT ![curenv] = p]
  BY DEF Saves
<1>2. \A f \in Envs : f # curenv => saved[f] = prog[f]
  BY DEF FramesInv
<1>3. DOMAIN prog = Envs /\ DOMAIN saved = Envs
  BY DEF CallsType, FramesInv
<1>4. /\ prog' = [f \in Envs |-> IF f = curenv THEN p ELSE prog[f]]
      /\ saved' = [f \in Envs |-> IF f = curenv THEN p ELSE saved[f]]
  BY <1>1, <1>3 DEF CallsType, FramesInv
<1> QED BY <1>2, <1>4

LEMMA FramesFollow ==
  ASSUME FramesInv, CallsInv', Settled' \/ FramesStay
  PROVE  FramesInv'
<1>1. CASE Settled'
  <2>1. saved' = prog' /\ prog' \in [Envs -> Seq(OperationSet)]
    BY <1>1 DEF Settled, CallsInv, CallsType
  <2>2. ASSUME NEW e \in Envs, e = curenv'
        PROVE  /\ saved'[e] # <<>> /\ ProgramInv(env_pop_tf(env_tf'[e]), saved'[e], served'[e])
               /\ env_pop_tf(env_tf'[e]).eflags = cpu'.eflags
    <3>1. Regs(e)' = env_pop_tf(env_tf'[e]) /\ Regs(e)' = cpu'
      BY <1>1, <2>2 DEF Settled, Regs
    <3>2. ProgramInv(Regs(e)', prog'[e], served'[e])
      BY DEF CallsInv
    <3>3. prog'[e] # <<>>
      BY <2>2, EnvsAreInts DEF CallsInv, QueueInv
    <3> QED BY <2>1, <3>1, <3>2, <3>3
  <2> QED BY <2>1, <2>2 DEF FramesInv
<1>2. CASE FramesStay
  BY <1>2 DEF FramesInv, FramesStay
<1> QED BY <1>1, <1>2

\* A step of the program that leaves its frame alone.
LEMMA StaysBehind ==
  ASSUME CallsInv, curenv # NoEnv, NEW x \in Int, cpu' = [cpu EXCEPT !.eip = x],
         \A f \in Envs : f # curenv => prog'[f] = prog[f],
         UNCHANGED <<saved, env_tf, curenv, served, masked, console>>
  PROVE  FramesStay
<1>1. cpu'.eflags = cpu.eflags
  BY Running, Moved
<1> QED BY <1>1 DEF FramesStay

LEMMA CallStubFrames == CallsInv /\ CallStub => FramesStay
<1> SUFFICES ASSUME CallsInv, CallStub PROVE FramesStay
  OBVIOUS
<1>1. cpu \in RegisterType
  BY Running DEF CallStub
<1>2. cpu'.eflags = cpu.eflags
  BY <1>1 DEF CallStub, syscall, RegisterType
<1>3. UNCHANGED <<saved, env_tf, curenv, served, masked, console>> /\ prog' = prog
  BY DEF CallStub
<1> QED BY <1>2, <1>3 DEF FramesStay

LEMMA OwnStepFrames ==
  ASSUME CallsInv, Reach \/ Access \/ StubReturns \/ \E p : Strays(p)
  PROVE  FramesStay
<1>1. curenv \in Envs /\ Operation(Op) /\ Op \in OperationSet /\ DOMAIN prog = Envs
  BY Running DEF Reach, Access, StubReturns, Strays, CallsInv, CallsType
<1>2. CASE Reach
  <2> DEFINE x == 3
  <2>1. /\ curenv # NoEnv /\ x \in Int /\ cpu' = [cpu EXCEPT !.eip = x] /\ prog' = prog
        /\ UNCHANGED <<saved, env_tf, curenv, served, masked, console>>
    BY <1>2 DEF Reach
  <2> HIDE DEF x
  <2> QED BY <2>1, StaysBehind
<1>3. CASE Access
  <2>1. Behind(Op) \in Int
    BY <1>1, <1>3, BehindIt, NoStub DEF Access
  <2> QED BY <1>3, <2>1, StaysBehind DEF Access
<1>4. CASE StubReturns
  <2>1. \A f \in Envs : f # curenv => prog'[f] = prog[f]
    BY <1>1, <1>4 DEF StubReturns
  <2> DEFINE x == 0
  <2>2. /\ curenv # NoEnv /\ x \in Int /\ cpu' = [cpu EXCEPT !.eip = x]
        /\ UNCHANGED <<saved, env_tf, curenv, served, masked, console>>
    BY <1>4 DEF StubReturns
  <2> HIDE DEF x
  <2> QED BY <2>1, <2>2, StaysBehind
<1>5. CASE \E p : Strays(p)
  <2>1. PICK p : Strays(p)
    BY <1>5
  <2>2. \A f \in Envs : f # curenv => prog'[f] = prog[f]
    BY <1>1, <2>1 DEF Strays
  <2> DEFINE x == 0
  <2>3. /\ curenv # NoEnv /\ x \in Int /\ cpu' = [cpu EXCEPT !.eip = x]
        /\ UNCHANGED <<saved, env_tf, curenv, served, masked, console>>
    BY <2>1 DEF Strays
  <2> HIDE DEF x
  <2> QED BY <2>2, <2>3, StaysBehind
<1> QED BY <1>2, <1>3, <1>4, <1>5

LEMMA TrapFrames ==
  ASSUME CallsInv, FramesInv,
         SystemCall \/ clock_interrupt \/ PageFault \/ UnexpectedTrap \/ DoubleFault
  PROVE  Settled'
<1>1. curenv # NoEnv /\ \E p : Saves(p)
  <2>1. CASE SystemCall
    BY <2>1 DEF SystemCall
  <2>2. CASE clock_interrupt \/ PageFault \/ UnexpectedTrap \/ DoubleFault
    BY <2>2 DEF clock_interrupt, PageFault, UnexpectedTrap, DoubleFault
  <2> QED BY <2>1, <2>2
<1>2. saved' = prog'
  BY <1>1, Running, SavesAll DEF CallsInv
<1>3. \E tfs : \/ env_run(curenv, tfs) \/ fos_scheduler(ready, tfs)
               \/ fos_scheduler(Append(ready, curenv), tfs)
  <2>1. CASE SystemCall
    BY <2>1 DEF SystemCall
  <2>2. CASE clock_interrupt
    BY <2>2 DEF clock_interrupt
  <2>3. CASE PageFault
    BY <2>3 DEF PageFault
  <2>4. CASE UnexpectedTrap
    BY <2>4 DEF UnexpectedTrap
  <2>5. CASE DoubleFault
    BY <2>5 DEF DoubleFault
  <2> QED BY <2>1, <2>2, <2>3, <2>4, <2>5
<1>4. PICK tfs : \/ env_run(curenv, tfs) \/ fos_scheduler(ready, tfs)
                 \/ fos_scheduler(Append(ready, curenv), tfs)
  BY <1>3
<1>5. ready \in Seq(Envs) /\ Append(ready, curenv) \in Seq(Envs)
  BY <1>1, JoinsQueue DEF CallsInv, QueueInv
<1>6. env_tf' = tfs /\ \A f \in Envs : Regs(f)' = env_pop_tf(tfs[f])
  <2>1. CASE env_run(curenv, tfs)
    BY <2>1, RunsFrom DEF env_run
  <2>2. CASE fos_scheduler(ready, tfs)
    BY <1>5, <2>2, SchedulesFrom
  <2>3. CASE fos_scheduler(Append(ready, curenv), tfs)
    BY <1>5, <2>3, SchedulesFrom
  <2> QED BY <1>4, <2>1, <2>2, <2>3
<1> QED BY <1>2, <1>6 DEF Settled

LEMMA KernelStraysFrames == CallsInv /\ KernelStrays => Settled'
BY EnvsAreInts DEF KernelStrays, Settled, Regs

LEMMA RunFrames ==
  ASSUME NEW ps, Run(ps)
  PROVE  Settled'
<1>1. saved' = prog' /\ fos_scheduler([e \in Envs |-> e], env_tf)
  BY DEF Run
<1>2. [e \in Envs |-> e] \in Seq(Envs)
  <2> DEFINE n == Cardinality(Envs)
  <2>1. n \in Nat /\ Envs = 1..n
    BY SystemCallsAssumption
  <2> HIDE DEF n
  <2> QED BY <2>1
<1> DEFINE q == [e \in Envs |-> e]
<1>3. q \in Seq(Envs) /\ fos_scheduler(q, env_tf)
  BY <1>1, <1>2
<1> HIDE DEF q
<1>4. env_tf' = env_tf /\ \A f \in Envs : Regs(f)' = env_pop_tf(env_tf[f])
  BY <1>3, SchedulesFrom
<1> QED BY <1>1, <1>4 DEF Settled

\* The clock in the kernel: the program is put back to where its frame was saved.
LEMMA ClockInTrapFrames ==
  ASSUME CallsInv, FramesInv, ClockInTrap
  PROVE  /\ Settled' /\ prog' = saved /\ env_tf' = env_tf /\ masked = {} /\ curenv # NoEnv
         /\ UNCHANGED <<kern, console, served, masked>>
         /\ LET q == Append(ready, curenv)
            IN  q \in Seq(Envs) /\ curenv' = q[1] /\ curenv' \in Envs /\ ready' = Tail(q)
<1> DEFINE q == Append(ready, curenv)
<1>1. /\ curenv # NoEnv /\ cpu.eflags = 1 /\ prog' = [prog EXCEPT ![curenv] = saved[curenv]]
      /\ fos_scheduler(q, env_tf) /\ UNCHANGED <<saved, kern, console, served, masked>>
  BY DEF ClockInTrap
<1>2. curenv \in Envs
  BY <1>1, Running
<1>3. prog' = saved
  <2>1. \A f \in Envs : f # curenv => saved[f] = prog[f]
    BY DEF FramesInv
  <2>2. prog' = [f \in Envs |-> IF f = curenv THEN saved[curenv] ELSE prog[f]]
    BY <1>1 DEF CallsInv, CallsType
  <2>3. saved = [f \in Envs |-> saved[f]]
    BY DEF FramesInv
  <2>4. prog' = [f \in Envs |-> saved[f]]
    BY <2>1, <2>2
  <2> QED BY <2>3, <2>4
<1>4. q \in Seq(Envs) /\ q # <<>>
  BY <1>1, JoinsQueue DEF CallsInv
<1> HIDE DEF q
<1>5. /\ \A f \in Envs : Regs(f)' = env_pop_tf(env_tf[f])
      /\ env_tf' = env_tf /\ curenv' = q[1] /\ curenv' \in Envs /\ ready' = Tail(q)
  BY <1>1, <1>4, SchedulesFrom
<1>6. masked = {}
  BY <1>1 DEF CallsInv
<1>7. Settled'
  BY <1>1, <1>3, <1>5 DEF Settled
<1> QED BY <1>1, <1>3, <1>4, <1>5, <1>6, <1>7 DEF q

LEMMA ClockInTrapKeeps == CallsInv /\ FramesInv /\ ClockInTrap => CallsInv'
<1> SUFFICES ASSUME CallsInv, FramesInv, ClockInTrap PROVE CallsInv'
  OBVIOUS
<1> DEFINE q == Append(ready, curenv)
<1>1. /\ Settled' /\ prog' = saved /\ env_tf' = env_tf /\ masked = {} /\ curenv # NoEnv
      /\ UNCHANGED <<kern, console, served, masked>>
      /\ q \in Seq(Envs) /\ curenv' = q[1] /\ curenv' \in Envs /\ ready' = Tail(q)
  BY ClockInTrapFrames
<1>2. ASSUME NEW f \in Envs
      PROVE  ProgramInv(Regs(f)', prog'[f], served'[f]) /\ (prog[f] # <<>> => prog'[f] # <<>>)
  <2>1. Regs(f)' = env_pop_tf(env_tf[f])
    BY <1>1 DEF Settled
  <2>2. CASE f = curenv
    BY <1>1, <2>1, <2>2 DEF FramesInv
  <2>3. CASE f # curenv
    <3>1. saved[f] = prog[f] /\ Regs(f) = env_pop_tf(env_tf[f])
      BY <2>3 DEF FramesInv, Regs
    <3>2. ProgramInv(Regs(f), prog[f], served[f])
      BY DEF CallsInv
    <3> QED BY <1>1, <2>1, <3>1, <3>2
  <2> QED BY <2>2, <2>3
<1>3. CallsType'
  BY <1>1 DEF CallsInv, CallsType, FramesInv
<1>4. /\ q # <<>> /\ \A i, j \in 1..Len(q) : q[i] = q[j] => i = j
      /\ \A i \in 1..Len(q) : prog[q[i]] # <<>>
  BY <1>1, JoinsQueue DEF CallsInv
<1> HIDE DEF q
<1>5. \A i \in 1..Len(q) : prog'[q[i]] # <<>>
  <2>1. \A i \in 1..Len(q) : q[i] \in Envs
    BY <1>1, ElementOfSeq
  <2> QED BY <1>2, <1>4, <2>1
<1>6. QueueInv'
  BY <1>1, <1>4, <1>5, QueueStarts
<1>7. NothingRan'
  BY <1>1, EnvsAreInts DEF NothingRan
<1> QED BY <1>1, <1>2, <1>3, <1>6, <1>7 DEF CallsInv

\* Any programs, run once, as they may be interleaved, and whatever is behind an
\* instruction that was skipped by a wrong length.
AnyPrograms == \E ps : Programs(ps) /\ Run(ps)

AnyStray == \E p \in Seq(OperationSet) : Program(p) /\ Silent(p) /\ Strays(p)

AnyNext == AnyPrograms \/ AnyStray \/ SysStep

SystemSpec == SysInit /\ [][AnyNext]_sysvars

LEMMA CallsKept == CallsInv /\ FramesInv /\ [AnyNext]_sysvars => CallsInv'
<1> SUFFICES ASSUME CallsInv, FramesInv, [AnyNext]_sysvars PROVE CallsInv'
  OBVIOUS
<1>1. CASE UNCHANGED sysvars
  BY <1>1 DEF sysvars, CallsInv, CallsType, QueueInv, NothingRan, Regs
<1>2. CASE AnyPrograms
  BY <1>2, RunKeeps DEF AnyPrograms
<1>3. CASE AnyStray
  BY <1>3, StraysKeeps DEF AnyStray
<1>4. CASE SysStep
  BY <1>1, <1>4, CallStubKeeps, ReachKeeps, SystemCallKeeps, StubReturnsKeeps, ClockKeeps,
     PageFaultKeeps, AccessKeeps, UnexpectedTrapKeeps, ClockInTrapKeeps, DoubleFaultKeeps,
     KernelStraysKeeps DEF SysStep, AtPrompt
<1> QED BY <1>1, <1>2, <1>3, <1>4 DEF AnyNext

LEMMA FramesMove == CallsInv /\ FramesInv /\ [AnyNext]_sysvars => Settled' \/ FramesStay
<1> SUFFICES ASSUME CallsInv, FramesInv, [AnyNext]_sysvars PROVE Settled' \/ FramesStay
  OBVIOUS
<1>1. CASE UNCHANGED sysvars
  BY <1>1 DEF sysvars, FramesStay
<1>2. CASE AnyPrograms
  BY <1>2, RunFrames DEF AnyPrograms
<1>3. CASE AnyStray
  BY <1>3, OwnStepFrames DEF AnyStray
<1>4. CASE SysStep
  BY <1>1, <1>4, CallStubFrames, OwnStepFrames, TrapFrames, ClockInTrapFrames, KernelStraysFrames
  DEF SysStep, AtPrompt
<1> QED BY <1>1, <1>2, <1>3, <1>4 DEF AnyNext

LEMMA FramesStart == SysInit => FramesInv
<1> SUFFICES ASSUME SysInit PROVE FramesInv
  OBVIOUS
<1>1. saved = prog /\ saved \in [Envs -> Seq(OperationSet)] /\ \A e \in Envs : e # curenv
  BY EnvsAreInts DEF SysInit
<1> QED BY <1>1 DEF FramesInv

LEMMA BothKept == CallsInv /\ FramesInv /\ [AnyNext]_sysvars => CallsInv' /\ FramesInv'
BY CallsKept, FramesMove, FramesFollow

LEMMA CallsImply == CallsInv => CallsTransparent /\ MaskedIsAlone
<1> SUFFICES ASSUME CallsInv PROVE CallsTransparent /\ MaskedIsAlone
  OBVIOUS
<1>1. \A e \in Envs : Loaded(e) => Placed(Regs(e), Head(prog[e]), served[e])
  BY DEF CallsInv, ProgramInv, Loaded
<1>2. CallsArrive
  BY <1>1 DEF CallsArrive, Placed
<1>3. AnswersReturn
  BY <1>1 DEF AnswersReturn, Placed
<1>4. MaskedIsAlone
  BY DEF CallsInv, MaskedIsAlone
<1> QED BY <1>2, <1>3, <1>4 DEF CallsTransparent

\* Whatever the programs do, whenever the clock comes (in the kernel too, behind
\* a trap gate), and even if one of them strays, a system call is a function call:
\* the handler of the stub runs with the arguments the program gave, and the value
\* it computes is in EAX when the stub returns.
THEOREM CallsAreTransparent == SystemSpec => []CallsTransparent
<1>1. SysInit => CallsInv /\ FramesInv
  BY CallsStart, FramesStart
<1>2. CallsInv /\ FramesInv /\ [AnyNext]_sysvars => CallsInv' /\ FramesInv'
  BY BothKept
<1>3. CallsInv => CallsTransparent
  BY CallsImply
<1> QED BY <1>1, <1>2, <1>3, PTL DEF SystemSpec

-----------------------------------------------------------------------------
(* Lines *)

\* An operation that prints no line and leaves the clock as it is.
Neutral(op) == op.fn \notin {"sys_cputs", "sys_cputc", "sys_enable_interrupt", "sys_disable_interrupt"}

\* Whether the clock is masked after the operation op of e.
MasksOn(op, e, M, N) ==
  /\ op.fn = "sys_disable_interrupt" => e \in N
  /\ e \in M /\ op.fn # "sys_enable_interrupt" => e \in N

\* The lines that are left after the first operation.
LEMMA DropFirst ==
  ASSUME NEW p \in Seq(OperationSet), p # <<>>, NEW e, NEW M, NEW N, MasksOn(p[1], e, M, N),
         LinesLeft(p, e, M)
  PROVE  LinesLeft(Tail(p), e, N)
<1> DEFINE n == Len(p)
           t == Tail(p)
<1>1. /\ n \in Nat /\ n > 0 /\ t \in Seq(OperationSet) /\ Len(t) = n - 1
      /\ \A i \in 1..(n - 1) : t[i] = p[i + 1] /\ i + 1 \in 2..n
  BY TailOf
<1>2. \A a, b \in 1..n :
        a < b /\ Printed(p[a]) > 9 /\ Printed(p[b]) = Printed(p[a]) =>
          /\ Printed(p[a]) \div 10 >= PRINTBUF - 1
          /\ Printed(p[a]) % 10 = 1 => StaysMasked(p, e \in M, a, b)
  BY DEF LinesLeft, PrintsLines
<1> HIDE DEF n, t
<1>3. SUFFICES ASSUME NEW a \in 1..(n - 1), NEW b \in 1..(n - 1), a < b, Printed(t[a]) > 9,
                      Printed(t[b]) = Printed(t[a])
               PROVE  /\ Printed(t[a]) \div 10 >= PRINTBUF - 1
                      /\ Printed(t[a]) % 10 = 1 => StaysMasked(t, e \in N, a, b)
  BY <1>1 DEF LinesLeft, PrintsLines, t
<1>4. t[a] = p[a + 1] /\ t[b] = p[b + 1] /\ a + 1 \in 1..n /\ b + 1 \in 1..n /\ a + 1 < b + 1
  BY <1>1, <1>3
<1>5. /\ Printed(t[a]) \div 10 >= PRINTBUF - 1
      /\ Printed(t[a]) % 10 = 1 => StaysMasked(p, e \in M, a + 1, b + 1)
  BY <1>2, <1>3, <1>4
<1>6. ASSUME StaysMasked(p, e \in M, a + 1, b + 1) PROVE StaysMasked(t, e \in N, a, b)
  <2>1. a + 1 - 1 = a /\ b + 1 - 1 = b
    OBVIOUS
  <2>2. \/ e \in M /\ \A x \in 1..b : p[x].fn # "sys_enable_interrupt"
        \/ \E c \in 1..a : /\ p[c].fn = "sys_disable_interrupt"
                           /\ \A x \in c..b : p[x].fn # "sys_enable_interrupt"
    BY <1>6, <2>1 DEF StaysMasked
  <2>3. \A y \in 1..(b - 1) : y + 1 \in 1..b /\ t[y] = p[y + 1]
    BY <1>1
  <2>4. CASE e \in M /\ \A x \in 1..b : p[x].fn # "sys_enable_interrupt"
    <3>1. 1 \in 1..b
      OBVIOUS
    <3>2. e \in N
      BY <2>4, <3>1 DEF MasksOn
    <3>3. \A y \in 1..(b - 1) : t[y].fn # "sys_enable_interrupt"
      BY <2>3, <2>4
    <3> QED BY <3>2, <3>3 DEF StaysMasked
  <2>5. ASSUME NEW c \in 1..a, p[c].fn = "sys_disable_interrupt",
               \A x \in c..b : p[x].fn # "sys_enable_interrupt"
        PROVE  StaysMasked(t, e \in N, a, b)
    <3>1. CASE c = 1
      <4>1. e \in N
        BY <2>5, <3>1 DEF MasksOn
      <4>2. \A y \in 1..(b - 1) : t[y].fn # "sys_enable_interrupt"
        BY <2>3, <2>5, <3>1
      <4> QED BY <4>1, <4>2 DEF StaysMasked
    <3>2. CASE c # 1
      <4>1. c - 1 \in 1..(a - 1) /\ (c - 1) + 1 = c /\ c - 1 \in 1..(b - 1)
        BY <1>3, <3>2
      <4>2. t[c - 1].fn = "sys_disable_interrupt"
        BY <2>3, <2>5, <4>1
      <4>3. \A y \in (c - 1)..(b - 1) : y \in 1..(b - 1) /\ y + 1 \in c..b
        BY <3>2
      <4>4. \A y \in (c - 1)..(b - 1) : t[y].fn # "sys_enable_interrupt"
        BY <2>3, <2>5, <4>3
      <4> QED BY <4>1, <4>2, <4>4 DEF StaysMasked
    <3> QED BY <3>1, <3>2
  <2> QED BY <2>2, <2>4, <2>5
<1> QED BY <1>5, <1>6

\* A neutral operation before the others changes nothing for the lines.
LEMMA AddFirst ==
  ASSUME NEW p \in Seq(OperationSet), p # <<>>, NEW e, NEW M, Neutral(p[1]), LinesLeft(Tail(p), e, M)
  PROVE  LinesLeft(p, e, M)
<1> DEFINE n == Len(p)
           t == Tail(p)
<1>1. /\ n \in Nat /\ n > 0 /\ t \in Seq(OperationSet) /\ Len(t) = n - 1
      /\ \A i \in 1..(n - 1) : t[i] = p[i + 1] /\ i + 1 \in 2..n
  BY TailOf
<1>2. \A a, b \in 1..(n - 1) :
        a < b /\ Printed(t[a]) > 9 /\ Printed(t[b]) = Printed(t[a]) =>
          /\ Printed(t[a]) \div 10 >= PRINTBUF - 1
          /\ Printed(t[a]) % 10 = 1 => StaysMasked(t, e \in M, a, b)
  BY <1>1 DEF LinesLeft, PrintsLines
<1> HIDE DEF n, t
<1>3. SUFFICES ASSUME NEW a \in 1..n, NEW b \in 1..n, a < b, Printed(p[a]) > 9,
                      Printed(p[b]) = Printed(p[a])
               PROVE  /\ Printed(p[a]) \div 10 >= PRINTBUF - 1
                      /\ Printed(p[a]) % 10 = 1 => StaysMasked(p, e \in M, a, b)
  BY <1>1 DEF LinesLeft, PrintsLines, n
<1>4. Printed(p[1]) = 0
  BY DEF Neutral, Printed
<1>5. a # 1
  BY <1>3, <1>4
<1>6. a - 1 \in 1..(n - 1) /\ b - 1 \in 1..(n - 1) /\ a - 1 < b - 1 /\ (a - 1) + 1 = a /\ (b - 1) + 1 = b
  BY <1>1, <1>3, <1>5
<1>7. t[a - 1] = p[a] /\ t[b - 1] = p[b]
  BY <1>1, <1>6
<1>8. /\ Printed(p[a]) \div 10 >= PRINTBUF - 1
      /\ Printed(p[a]) % 10 = 1 => StaysMasked(t, e \in M, a - 1, b - 1)
  BY <1>2, <1>3, <1>6, <1>7
<1>9. ASSUME StaysMasked(t, e \in M, a - 1, b - 1) PROVE StaysMasked(p, e \in M, a, b)
  <2>1. \A x \in 2..(b - 1) : x - 1 \in 1..((b - 1) - 1) /\ p[x] = t[x - 1]
    <3>1. \A x \in 2..(b - 1) : x - 1 \in 1..((b - 1) - 1) /\ x - 1 \in 1..(n - 1) /\ (x - 1) + 1 = x
      BY <1>1, <1>3
    <3> QED BY <1>1, <3>1
  <2>2. \A x \in 1..(b - 1) : x = 1 \/ x \in 2..(b - 1)
    OBVIOUS
  <2>3. p[1].fn # "sys_enable_interrupt"
    BY DEF Neutral
  <2>4. CASE e \in M /\ \A x \in 1..((b - 1) - 1) : t[x].fn # "sys_enable_interrupt"
    <3>1. \A x \in 1..(b - 1) : p[x].fn # "sys_enable_interrupt"
      BY <2>1, <2>2, <2>3, <2>4
    <3> QED BY <2>4, <3>1 DEF StaysMasked
  <2>5. ASSUME NEW c \in 1..((a - 1) - 1), t[c].fn = "sys_disable_interrupt",
               \A x \in c..((b - 1) - 1) : t[x].fn # "sys_enable_interrupt"
        PROVE  StaysMasked(p, e \in M, a, b)
    <3>1. c + 1 \in 1..(a - 1) /\ c \in 1..(n - 1) /\ (c + 1) - 1 = c
      BY <1>1, <1>3
    <3>2. p[c + 1].fn = "sys_disable_interrupt"
      BY <1>1, <2>5, <3>1
    <3>3. \A x \in (c + 1)..(b - 1) : x \in 2..(b - 1) /\ x - 1 \in c..((b - 1) - 1)
      BY <1>3
    <3>4. \A x \in (c + 1)..(b - 1) : p[x].fn # "sys_enable_interrupt"
      BY <2>1, <2>5, <3>3
    <3> QED BY <3>1, <3>2, <3>4 DEF StaysMasked
  <2> QED BY <1>9, <2>4, <2>5 DEF StaysMasked
<1> QED BY <1>8, <1>9

\* The lines that are begun, after the first operation of e has printed nothing.
LEMMA ContinuesAfter ==
  ASSUME NEW p \in Seq(OperationSet), p # <<>>, NEW e, NEW M, NEW N, MasksOn(p[1], e, M, N),
         NEW printed, Continues(p, e, M, printed)
  PROVE  Continues(Tail(p), e, N, printed)
<1> DEFINE n == Len(p)
           t == Tail(p)
<1>1. /\ n \in Nat /\ n > 0 /\ t \in Seq(OperationSet) /\ Len(t) = n - 1
      /\ \A i \in 1..(n - 1) : t[i] = p[i + 1] /\ i + 1 \in 2..n
  BY TailOf
<1>2. \A i \in 1..Len(printed), b \in 1..n :
        printed[i].env = e /\ printed[i].s > 9 /\ Printed(p[b]) = printed[i].s =>
          /\ printed[i].s \div 10 >= PRINTBUF - 1
          /\ printed[i].s % 10 = 1 =>
               /\ e \in M /\ \A x \in 1..(b - 1) : p[x].fn # "sys_enable_interrupt"
               /\ \A k \in i..Len(printed) : printed[k].env = e
  BY DEF Continues
<1> HIDE DEF n, t
<1>3. SUFFICES ASSUME NEW i \in 1..Len(printed), NEW b \in 1..(n - 1), printed[i].env = e,
                      printed[i].s > 9, Printed(t[b]) = printed[i].s
               PROVE  /\ printed[i].s \div 10 >= PRINTBUF - 1
                      /\ printed[i].s % 10 = 1 =>
                           /\ e \in N /\ \A x \in 1..(b - 1) : t[x].fn # "sys_enable_interrupt"
                           /\ \A k \in i..Len(printed) : printed[k].env = e
  BY <1>1 DEF Continues, t
<1>4. t[b] = p[b + 1] /\ b + 1 \in 1..n /\ b + 1 - 1 = b /\ 1 \in 1..b
  BY <1>1
<1>5. /\ printed[i].s \div 10 >= PRINTBUF - 1
      /\ printed[i].s % 10 = 1 =>
           /\ e \in M /\ \A x \in 1..b : p[x].fn # "sys_enable_interrupt"
           /\ \A k \in i..Len(printed) : printed[k].env = e
  BY <1>2, <1>3, <1>4
<1>6. \A y \in 1..(b - 1) : y + 1 \in 1..b /\ t[y] = p[y + 1]
  BY <1>1
<1>7. e \in M /\ (\A x \in 1..b : p[x].fn # "sys_enable_interrupt") =>
        e \in N /\ \A x \in 1..(b - 1) : t[x].fn # "sys_enable_interrupt"
  BY <1>4, <1>6 DEF MasksOn
<1> QED BY <1>5, <1>7

\* A neutral operation before the others changes nothing for the lines begun.
LEMMA ContinuesBefore ==
  ASSUME NEW p \in Seq(OperationSet), p # <<>>, NEW e, NEW M, Neutral(p[1]),
         NEW printed, Continues(Tail(p), e, M, printed)
  PROVE  Continues(p, e, M, printed)
<1> DEFINE n == Len(p)
           t == Tail(p)
<1>1. /\ n \in Nat /\ n > 0 /\ t \in Seq(OperationSet) /\ Len(t) = n - 1
      /\ \A i \in 1..(n - 1) : t[i] = p[i + 1] /\ i + 1 \in 2..n
  BY TailOf
<1>2. \A i \in 1..Len(printed), b \in 1..(n - 1) :
        printed[i].env = e /\ printed[i].s > 9 /\ Printed(t[b]) = printed[i].s =>
          /\ printed[i].s \div 10 >= PRINTBUF - 1
          /\ printed[i].s % 10 = 1 =>
               /\ e \in M /\ \A x \in 1..(b - 1) : t[x].fn # "sys_enable_interrupt"
               /\ \A k \in i..Len(printed) : printed[k].env = e
  BY <1>1 DEF Continues
<1> HIDE DEF n, t
<1>3. SUFFICES ASSUME NEW i \in 1..Len(printed), NEW b \in 1..n, printed[i].env = e,
                      printed[i].s > 9, Printed(p[b]) = printed[i].s
               PROVE  /\ printed[i].s \div 10 >= PRINTBUF - 1
                      /\ printed[i].s % 10 = 1 =>
                           /\ e \in M /\ \A x \in 1..(b - 1) : p[x].fn # "sys_enable_interrupt"
                           /\ \A k \in i..Len(printed) : printed[k].env = e
  BY DEF Continues, n
<1>4. Printed(p[1]) = 0 /\ p[1].fn # "sys_enable_interrupt"
  BY DEF Neutral, Printed
<1>5. b # 1
  BY <1>3, <1>4
<1>6. b - 1 \in 1..(n - 1) /\ (b - 1) + 1 = b
  BY <1>1, <1>5
<1>7. t[b - 1] = p[b]
  BY <1>1, <1>6
<1>8. /\ printed[i].s \div 10 >= PRINTBUF - 1
      /\ printed[i].s % 10 = 1 =>
           /\ e \in M /\ \A x \in 1..((b - 1) - 1) : t[x].fn # "sys_enable_interrupt"
           /\ \A k \in i..Len(printed) : printed[k].env = e
  BY <1>2, <1>3, <1>6, <1>7
<1>9. \A x \in 1..(b - 1) : x = 1 \/ (x - 1 \in 1..((b - 1) - 1) /\ x - 1 \in 1..(n - 1) /\ (x - 1) + 1 = x)
  BY <1>1
<1>10. ASSUME \A x \in 1..((b - 1) - 1) : t[x].fn # "sys_enable_interrupt", NEW x \in 1..(b - 1)
       PROVE  p[x].fn # "sys_enable_interrupt"
  <2>1. CASE x = 1
    BY <1>4, <2>1
  <2>2. CASE x - 1 \in 1..((b - 1) - 1) /\ x - 1 \in 1..(n - 1) /\ (x - 1) + 1 = x
    <3>1. t[x - 1] = p[x]
      BY <1>1, <2>2
    <3> QED BY <1>10, <2>2, <3>1
  <2> QED BY <1>9, <2>1, <2>2
<1> QED BY <1>8, <1>10

\* The lines that are begun, after e has printed its first operation.
LEMMA ContinuesPrinted ==
  ASSUME NEW p \in Seq(OperationSet), p # <<>>, NEW e, NEW M, NEW N, MasksOn(p[1], e, M, N),
         LinesLeft(p, e, M), NEW printed \in Seq(EntryType), Continues(p, e, M, printed),
         NEW entry \in EntryType, entry.env = e, entry.s \in {0, Printed(p[1])}
  PROVE  Continues(Tail(p), e, N, Append(printed, entry))
<1> DEFINE n == Len(p)
           t == Tail(p)
           m == Len(printed)
           q == Append(printed, entry)
<1>1. /\ n \in Nat /\ n > 0 /\ t \in Seq(OperationSet) /\ Len(t) = n - 1
      /\ \A i \in 1..(n - 1) : t[i] = p[i + 1] /\ i + 1 \in 2..n
  BY TailOf
<1>2. m \in Nat /\ Len(q) = m + 1 /\ (\A i \in 1..m : q[i] = printed[i]) /\ q[m + 1] = entry
  BY AppendProperties
<1>3. Continues(t, e, N, printed)
  BY ContinuesAfter
<1>4. \A i \in 1..m, b \in 1..(n - 1) :
        printed[i].env = e /\ printed[i].s > 9 /\ Printed(t[b]) = printed[i].s =>
          /\ printed[i].s \div 10 >= PRINTBUF - 1
          /\ printed[i].s % 10 = 1 =>
               /\ e \in N /\ \A x \in 1..(b - 1) : t[x].fn # "sys_enable_interrupt"
               /\ \A k \in i..m : printed[k].env = e
  BY <1>1, <1>3 DEF Continues
<1>5. \A a, b \in 1..n :
        a < b /\ Printed(p[a]) > 9 /\ Printed(p[b]) = Printed(p[a]) =>
          /\ Printed(p[a]) \div 10 >= PRINTBUF - 1
          /\ Printed(p[a]) % 10 = 1 => StaysMasked(p, e \in M, a, b)
  BY DEF LinesLeft, PrintsLines
<1> HIDE DEF n, t, m, q
<1>6. SUFFICES ASSUME NEW i \in 1..(m + 1), NEW b \in 1..(n - 1), q[i].env = e,
                      q[i].s > 9, Printed(t[b]) = q[i].s
               PROVE  /\ q[i].s \div 10 >= PRINTBUF - 1
                      /\ q[i].s % 10 = 1 =>
                           /\ e \in N /\ \A x \in 1..(b - 1) : t[x].fn # "sys_enable_interrupt"
                           /\ \A k \in i..(m + 1) : q[k].env = e
  BY <1>1, <1>2 DEF Continues, t, q
<1>7. CASE i \in 1..m
  <2>1. q[i] = printed[i]
    BY <1>2, <1>7
  <2>2. \A k \in i..(m + 1) : k = m + 1 \/ (k \in i..m /\ k \in 1..m)
    BY <1>2
  <2>3. (\A k \in i..m : printed[k].env = e) => \A k \in i..(m + 1) : q[k].env = e
    BY <1>2, <2>2
  <2>4. /\ printed[i].s \div 10 >= PRINTBUF - 1
        /\ printed[i].s % 10 = 1 =>
             /\ e \in N /\ \A x \in 1..(b - 1) : t[x].fn # "sys_enable_interrupt"
             /\ \A k \in i..m : printed[k].env = e
    BY <1>4, <1>6, <1>7, <2>1
  <2> QED BY <2>1, <2>3, <2>4
<1>8. CASE i = m + 1
  <2>1. q[i] = entry
    BY <1>2, <1>8
  <2>2. 1 \in 1..n /\ b + 1 \in 1..n /\ 1 < b + 1 /\ t[b] = p[b + 1]
    BY <1>1
  <2>3. entry.s = Printed(p[1]) /\ Printed(p[1]) > 9 /\ Printed(p[b + 1]) = Printed(p[1])
    BY <1>6, <2>1, <2>2
  <2>4. /\ Printed(p[1]) \div 10 >= PRINTBUF - 1
        /\ Printed(p[1]) % 10 = 1 => StaysMasked(p, e \in M, 1, b + 1)
    BY <1>5, <2>2, <2>3
  <2>5. StaysMasked(p, e \in M, 1, b + 1) =>
          /\ e \in M /\ \A x \in 1..b : p[x].fn # "sys_enable_interrupt"
    <3>1. (b + 1) - 1 = b /\ \A c \in 1..(1 - 1) : FALSE
      OBVIOUS
    <3>2. StaysMasked(p, e \in M, 1, b + 1) =>
            /\ e \in M /\ \A x \in 1..((b + 1) - 1) : p[x].fn # "sys_enable_interrupt"
      BY <3>1 DEF StaysMasked
    <3> QED BY <3>1, <3>2
  <2>6. \A y \in 1..(b - 1) : y + 1 \in 1..b /\ t[y] = p[y + 1]
    BY <1>1
  <2>7. 1 \in 1..b
    OBVIOUS
  <2>8. e \in M /\ (\A x \in 1..b : p[x].fn # "sys_enable_interrupt") =>
          e \in N /\ \A x \in 1..(b - 1) : t[x].fn # "sys_enable_interrupt"
    BY <2>6, <2>7 DEF MasksOn
  <2>9. \A k \in i..(m + 1) : q[k].env = e
    <3>1. \A k \in i..(m + 1) : k = m + 1
      BY <1>2, <1>8
    <3> QED BY <1>2, <3>1
  <2> QED BY <2>1, <2>3, <2>4, <2>5, <2>8, <2>9
<1>9. i \in 1..m \/ i = m + 1
  BY <1>2
<1> QED BY <1>7, <1>8, <1>9

\* The lines of another program, which has not masked the clock.
LEMMA OthersContinue ==
  ASSUME NEW p, NEW f, NEW M, NEW N, f \notin M, NEW printed \in Seq(EntryType),
         Continues(p, f, M, printed), NEW entry \in EntryType, entry.env # f
  PROVE  Continues(p, f, N, printed) /\ Continues(p, f, N, Append(printed, entry))
<1> DEFINE m == Len(printed)
           q == Append(printed, entry)
<1>1. m \in Nat /\ Len(q) = m + 1 /\ (\A i \in 1..m : q[i] = printed[i]) /\ q[m + 1] = entry
  BY AppendProperties
<1>2. \A i \in 1..m, b \in 1..Len(p) :
        printed[i].env = f /\ printed[i].s > 9 /\ Printed(p[b]) = printed[i].s =>
          /\ printed[i].s \div 10 >= PRINTBUF - 1
          /\ ~(printed[i].s % 10 = 1)
  BY DEF Continues
<1>3. Continues(p, f, N, printed)
  BY <1>2 DEF Continues
<1> HIDE DEF m, q
<1>4. \A i \in 1..(m + 1) : i \in 1..m \/ i = m + 1
  BY <1>1
<1>5. \A i \in 1..(m + 1), b \in 1..Len(p) :
        q[i].env = f /\ q[i].s > 9 /\ Printed(p[b]) = q[i].s =>
          /\ q[i].s \div 10 >= PRINTBUF - 1
          /\ ~(q[i].s % 10 = 1)
  BY <1>1, <1>2, <1>4
<1>6. Continues(p, f, N, q)
  BY <1>1, <1>5 DEF Continues
<1> QED BY <1>3, <1>6 DEF q

\* What is printed next continues the lines that are begun.
LEMMA ContiguousAfter ==
  ASSUME LinesContiguous, console \in Seq(EntryType), NEW p, Len(p) \in Nat, Len(p) > 0, NEW e, NEW M,
         Continues(p, e, M, console), NEW entry \in EntryType, entry.env = e,
         entry.s \in {0, Printed(p[1])}, console' = Append(console, entry)
  PROVE  LinesContiguous'
<1> DEFINE m == Len(console)
           q == Append(console, entry)
<1>1. /\ m \in Nat /\ q \in Seq(EntryType) /\ Len(q) = m + 1 /\ (\A i \in 1..m : q[i] = console[i])
      /\ q[m + 1] = entry /\ DOMAIN q = 1..(m + 1) /\ DOMAIN console = 1..m
  BY AppendProperties, LenProperties
<1>2. \A i, j \in 1..m :
        i < j /\ console[i].env = console[j].env /\ console[i].s = console[j].s /\ console[i].s > 9 =>
          /\ console[i].s \div 10 >= PRINTBUF - 1
          /\ console[i].s % 10 = 1 => \A k \in i..j : console[k].env = console[i].env
  BY <1>1 DEF LinesContiguous
<1>3. \A i \in 1..m :
        console[i].env = e /\ console[i].s > 9 /\ Printed(p[1]) = console[i].s =>
          /\ console[i].s \div 10 >= PRINTBUF - 1
          /\ console[i].s % 10 = 1 => \A k \in i..m : console[k].env = e
  <2>1. 1 \in 1..Len(p)
    OBVIOUS
  <2> QED BY <2>1 DEF Continues
<1> HIDE DEF m, q
<1>4. SUFFICES ASSUME NEW i \in 1..(m + 1), NEW j \in 1..(m + 1), i < j, q[i].env = q[j].env,
                      q[i].s = q[j].s, q[i].s > 9
               PROVE  /\ q[i].s \div 10 >= PRINTBUF - 1
                      /\ q[i].s % 10 = 1 => \A k \in i..j : q[k].env = q[i].env
  <2>1. console' = q /\ DOMAIN console' = 1..(m + 1)
    BY <1>1 DEF q
  <2> QED BY ONLY <1>4, <2>1 DEF LinesContiguous
<1>5. i \in 1..m /\ q[i] = console[i]
  BY <1>1, <1>4
<1>6. CASE j \in 1..m
  <2>1. q[j] = console[j] /\ \A k \in i..j : k \in 1..m /\ q[k] = console[k]
    BY <1>1, <1>6
  <2> QED BY <1>2, <1>4, <1>5, <1>6, <2>1
<1>7. CASE j = m + 1
  <2>1. q[j] = entry
    BY <1>1, <1>7
  <2>2. console[i].env = e /\ console[i].s > 9 /\ Printed(p[1]) = console[i].s
    BY <1>4, <1>5, <2>1
  <2>3. \A k \in i..j : k = m + 1 \/ (k \in i..m /\ k \in 1..m)
    BY <1>1, <1>7
  <2>4. (\A k \in i..m : console[k].env = e) => \A k \in i..j : q[k].env = e
    BY <1>1, <2>3
  <2>5. /\ console[i].s \div 10 >= PRINTBUF - 1
        /\ console[i].s % 10 = 1 => \A k \in i..m : console[k].env = e
    BY <1>3, <1>5, <2>2
  <2> QED BY <1>5, <2>2, <2>4, <2>5
<1>8. j \in 1..m \/ j = m + 1
  BY <1>1
<1> QED BY <1>6, <1>7, <1>8

\* Lines of a program that has not masked the clock, whoever else has.
LEMMA UnmaskedLines ==
  ASSUME NEW p, NEW f, NEW M, NEW N, f \notin M, f \notin N, NEW printed,
         LinesLeft(p, f, M), Continues(p, f, M, printed)
  PROVE  LinesLeft(p, f, N) /\ Continues(p, f, N, printed)
<1>1. \A a, b : StaysMasked(p, f \in M, a, b) => StaysMasked(p, f \in N, a, b)
  BY DEF StaysMasked
<1>2. LinesLeft(p, f, N)
  BY <1>1 DEF LinesLeft, PrintsLines
<1>3. Continues(p, f, N, printed)
  BY DEF Continues
<1> QED BY <1>2, <1>3

LEMMA NoStubIsNeutral ==
  /\ \A op : op.fn \notin DOMAIN Stub => Neutral(op)
  /\ \A op : op.fn = "sys_cgetc" => Neutral(op)
<1>1. {"sys_cputs", "sys_cputc", "sys_enable_interrupt", "sys_disable_interrupt"} \subseteq DOMAIN Stub
  BY DEF Stub, Joined, EnvironmentStubs, MemoryStubs, ObjectStubs, TestStubs
<1> QED BY <1>1 DEF Neutral

LEMMA LinesStart == SysInit => LinesInv
BY DEF SysInit, LinesInv, LineInv, LinesContiguous

\* A step of the running program that prints nothing.
LEMMA QuietStep ==
  ASSUME CallsInv, LinesInv, curenv # NoEnv, NEW c, OnlyMoves(curenv, c),
         UNCHANGED <<console, served, masked>>,
         \A f \in Envs : f # curenv => prog'[f] = prog[f],
         LineInv(c, prog'[curenv], curenv, masked, console)
  PROVE  LinesInv'
<1>1. ASSUME NEW f \in Envs PROVE LineInv(Regs(f)', prog'[f], f, masked', console')
  <2>1. CASE f = curenv
    <3>1. Regs(f)' = c
      BY <2>1 DEF OnlyMoves
    <3> QED BY <2>1, <3>1
  <2>2. CASE f # curenv
    <3>1. Regs(f)' = Regs(f) /\ prog'[f] = prog[f]
      BY <2>2 DEF OnlyMoves
    <3>2. LineInv(Regs(f), prog[f], f, masked, console)
      BY DEF LinesInv
    <3> QED BY <3>1, <3>2
  <2> QED BY <2>1, <2>2
<1>2. LinesContiguous'
  BY DEF LinesInv, LinesContiguous
<1> QED BY <1>1, <1>2 DEF LinesInv

\* A step that neither prints nor ends an operation.
LEMMA SameRest ==
  ASSUME CallsInv, LinesInv, curenv # NoEnv, NEW c, OnlyMoves(curenv, c),
         UNCHANGED <<prog, console, served, masked>>, c.eip = 2 <=> cpu.eip = 2
  PROVE  LinesInv'
<1>1. curenv \in Envs
  BY Running
<1>2. LineInv(cpu, prog[curenv], curenv, masked, console)
  BY <1>1 DEF LinesInv, Regs
<1>3. Rest(c, prog[curenv]) = Rest(cpu, prog[curenv])
  BY DEF Rest
<1>4. LineInv(c, prog'[curenv], curenv, masked, console)
  BY <1>2, <1>3 DEF LineInv
<1> QED BY <1>4, QuietStep

LEMMA CallStubLines == CallsInv /\ LinesInv /\ CallStub => LinesInv'
<1> SUFFICES ASSUME CallsInv, LinesInv, CallStub PROVE LinesInv'
  OBVIOUS
<1>1. curenv # NoEnv /\ cpu.eip = 0
      /\ cpu' = [syscall(cpu, Number(Stub[Op.fn][1]), Op.args) EXCEPT !.eip = 1]
      /\ UNCHANGED <<env_tf, curenv, ready, prog, kern, console, served, masked>>
  BY DEF CallStub
<1>2. cpu \in RegisterType
  BY <1>1, Running
<1>3. cpu'.eip = 1
  BY <1>1, <1>2 DEF syscall, RegisterType
<1>4. OnlyMoves(curenv, cpu')
  BY <1>1, RunsOn
<1> DEFINE c == cpu'
<1>5. (c.eip = 2 <=> cpu.eip = 2) /\ OnlyMoves(curenv, c) /\ curenv # NoEnv
      /\ UNCHANGED <<prog, console, served, masked>>
  BY <1>1, <1>3, <1>4
<1> HIDE DEF c
<1> QED BY <1>5, SameRest

LEMMA ReachLines == CallsInv /\ LinesInv /\ Reach => LinesInv'
<1> SUFFICES ASSUME CallsInv, LinesInv, Reach PROVE LinesInv'
  OBVIOUS
<1>1. curenv # NoEnv /\ cpu.eip = 0 /\ cpu' = [cpu EXCEPT !.eip = 3]
      /\ UNCHANGED <<env_tf, curenv, ready, prog, kern, console, served, masked>>
  BY DEF Reach
<1>2. cpu \in RegisterType
  BY <1>1, Running
<1>3. cpu'.eip = 3
  BY <1>1, <1>2, Moved
<1>4. OnlyMoves(curenv, cpu')
  BY <1>1, RunsOn
<1> DEFINE c == cpu'
<1>5. (c.eip = 2 <=> cpu.eip = 2) /\ OnlyMoves(curenv, c) /\ curenv # NoEnv
      /\ UNCHANGED <<prog, console, served, masked>>
  BY <1>1, <1>3, <1>4
<1> HIDE DEF c
<1> QED BY <1>5, SameRest

LEMMA AccessLines == CallsInv /\ LinesInv /\ Access => LinesInv'
<1> SUFFICES ASSUME CallsInv, LinesInv, Access PROVE LinesInv'
  OBVIOUS
<1> DEFINE x == Behind(Op)
<1>1. curenv # NoEnv /\ cpu.eip = 3 /\ Op.fn \notin DOMAIN Stub /\ cpu' = [cpu EXCEPT !.eip = x]
      /\ UNCHANGED <<env_tf, curenv, ready, prog, kern, console, served, masked>>
  BY NoStub DEF Access
<1>2. cpu \in RegisterType /\ x \in Nat /\ x # 2
  <2>1. x \in Nat /\ x >= 3
    BY <1>1, Running, BehindIt
  <2> HIDE DEF x
  <2> QED BY <1>1, <2>1, Running
<1> HIDE DEF x
<1>3. cpu'.eip = x
  BY <1>1, <1>2, Moved
<1>4. OnlyMoves(curenv, cpu')
  BY <1>1, RunsOn
<1> DEFINE c == cpu'
<1>5. (c.eip = 2 <=> cpu.eip = 2) /\ OnlyMoves(curenv, c) /\ curenv # NoEnv
      /\ UNCHANGED <<prog, console, served, masked>>
  BY <1>1, <1>2, <1>3, <1>4
<1> HIDE DEF c
<1> QED BY <1>5, SameRest

LEMMA UnexpectedTrapLines == CallsInv /\ LinesInv /\ UnexpectedTrap => LinesInv'
<1> SUFFICES ASSUME CallsInv, LinesInv, UnexpectedTrap PROVE LinesInv'
  OBVIOUS
<1> DEFINE v == Op.args[1]
           x == Behind(Op)
           c == [cpu EXCEPT !.eip = x]
<1>1. curenv # NoEnv /\ cpu.eip = 3 /\ v \in idt_init /\ Op.fn \notin DOMAIN Stub
      /\ env_run(curenv, [env_tf EXCEPT ![curenv] = trap(c, v)]) /\ Saves(prog[curenv])
      /\ UNCHANGED <<ready, kern, console, served, masked>>
  BY NoStub DEF UnexpectedTrap
<1>2. curenv \in Envs /\ cpu \in RegisterType /\ x \in Nat /\ x >= 3
  BY <1>1, Running, BehindIt
<1> HIDE DEF v, x
<1>3. c \in RegisterType /\ c.eip = x
  BY <1>2, Moved
<1> HIDE DEF c
<1>4. env_pop_tf(trap(c, v)) = c
  BY <1>1, <1>3, TrapRestarts
<1>5. OnlyMoves(curenv, c)
  BY <1>1, <1>4, Returns
<1>6. prog' = prog
  BY <1>1, <1>2, SavesIt DEF CallsInv
<1>7. c.eip # 2 /\ cpu.eip # 2
  BY <1>1, <1>2, <1>3
<1> QED BY <1>1, <1>5, <1>6, <1>7, SameRest

LEMMA ClockLines == CallsInv /\ LinesInv /\ clock_interrupt => LinesInv'
<1> SUFFICES ASSUME CallsInv, LinesInv, clock_interrupt PROVE LinesInv'
  OBVIOUS
<1> DEFINE e == curenv
           t == trap(cpu, IRQ0_Clock)
           tfs == [env_tf EXCEPT ![e] = t]
           q == Append(ready, curenv)
<1>1. curenv # NoEnv /\ Saves(prog[e]) /\ fos_scheduler(q, tfs)
      /\ UNCHANGED <<kern, console, served, masked>>
  BY DEF clock_interrupt
<1>2. e \in Envs /\ cpu \in RegisterType /\ CallsType
  BY <1>1, Running DEF CallsInv
<1>3. env_pop_tf(t) = cpu
  <2>1. IRQ0_Clock \in idt_init
    BY DEF IRQ0_Clock, idt_init
  <2> QED BY <1>2, <2>1, TrapRestarts
<1>4. q \in Seq(Envs)
  BY <1>1, JoinsQueue DEF CallsInv
<1> HIDE DEF q, t
<1>5. \A f \in Envs : Regs(f)' = env_pop_tf(tfs[f])
  <2> HIDE DEF tfs
  <2> QED BY <1>1, <1>4, SchedulesFrom
<1>6. OnlyMoves(e, cpu)
  BY <1>2, <1>3, <1>5, SavedFor
<1>7. prog' = prog
  BY <1>1, <1>2, SavesIt
<1> QED BY <1>1, <1>6, <1>7, SameRest

\* The first operation replaced, both neutral.
LEMMA ReplacedLines ==
  ASSUME NEW p \in Seq(OperationSet), p # <<>>, NEW x \in OperationSet, Neutral(p[1]), Neutral(x),
         NEW e, NEW M, NEW printed, LinesLeft(p, e, M), Continues(p, e, M, printed)
  PROVE  LinesLeft(<<x>> \o Tail(p), e, M) /\ Continues(<<x>> \o Tail(p), e, M, printed)
<1> DEFINE q == <<x>> \o Tail(p)
           n == Len(p)
<1>1. q \in Seq(OperationSet) /\ Len(q) = n /\ q # <<>> /\ q[1] = x /\ \A i \in 2..n : q[i] = p[i]
  BY FirstReplaced
<1>2. n \in Nat /\ n > 0 /\ Tail(p) \in Seq(OperationSet) /\ Len(Tail(p)) = n - 1
      /\ \A i \in 1..(n - 1) : Tail(p)[i] = p[i + 1] /\ i + 1 \in 2..n
  BY TailOf
<1> HIDE DEF q
<1>3. Len(q) \in Nat /\ Tail(q) \in Seq(OperationSet) /\ Len(Tail(q)) = Len(q) - 1
      /\ \A i \in 1..(Len(q) - 1) : Tail(q)[i] = q[i + 1] /\ i + 1 \in 2..Len(q)
  BY <1>1, TailOf
<1> HIDE DEF n
<1>4. \A i \in 1..(n - 1) : Tail(q)[i] = Tail(p)[i]
  BY <1>1, <1>2, <1>3
<1>5. Tail(q) = Tail(p)
  BY <1>1, <1>2, <1>3, <1>4, SeqEqual
<1>6. MasksOn(p[1], e, M, M)
  BY DEF MasksOn, Neutral
<1>7. LinesLeft(Tail(p), e, M) /\ Continues(Tail(p), e, M, printed)
  BY <1>6, DropFirst, ContinuesAfter
<1>8. LinesLeft(q, e, M) /\ Continues(q, e, M, printed)
  BY <1>1, <1>5, <1>7, AddFirst, ContinuesBefore
<1> QED BY <1>8 DEF q

LEMMA PageFaultLines == CallsInv /\ LinesInv /\ PageFault => LinesInv'
<1> SUFFICES ASSUME CallsInv, LinesInv, PageFault PROVE LinesInv'
  OBVIOUS
<1> DEFINE e == curenv
           tf == trap(cpu, T_PGFLT)
           tf2 == [tf EXCEPT !.eip = tf.eip + kern.bypass]
           len == Op.args[1]
           new == Does("access", <<len, 1>>)
           p == prog[e]
<1>1. curenv # NoEnv /\ cpu.eip = 3 /\ Op.fn = "access" /\ env_run(e, [env_tf EXCEPT ![e] = tf2])
      /\ Saves(IF kern.bypass # 0 THEN p ELSE <<new>> \o Tail(p))
      /\ UNCHANGED <<ready, kern, console, served, masked>>
  BY DEF PageFault
<1>2. /\ e \in Envs /\ p \in Seq(OperationSet) /\ p # <<>>
      /\ Op = p[1] /\ Op \in OperationSet /\ Operation(Op) /\ cpu \in RegisterType
  BY <1>1, Running
<1>3. kern.bypass \in Nat
  BY DEF CallsInv, CallsType, KernelType
<1>4. T_PGFLT \in idt_init
  BY DEF T_PGFLT, idt_init
<1>5. tf.eip = 3
  BY <1>1, <1>2, <1>4, Framed
<1> DEFINE x == 3 + kern.bypass
           c == MovedTo(cpu, x)
<1>6. x \in Int /\ x # 2
  BY <1>3
<1>7. tf2 = [tf EXCEPT !.eip = x]
  BY <1>5
<1> HIDE DEF x
<1>8. env_pop_tf(tf2) = c
  <2>1. env_pop_tf([tf EXCEPT !.eip = x]) = c
    BY <1>2, <1>4, TrapRestarts
  <2> HIDE DEF tf
  <2> QED BY <1>7, <2>1
<1>9. c.eip = x
  BY <1>2, <1>6, Moved
<1> HIDE DEF c, tf2, tf
<1>10. OnlyMoves(e, c)
  BY <1>1, <1>8, Returns
<1>11. CASE kern.bypass # 0
  <2>1. prog' = prog
    BY <1>1, <1>2, <1>11, SavesIt DEF CallsInv
  <2>2. c.eip = 2 <=> cpu.eip = 2
    BY <1>1, <1>6, <1>9
  <2> QED BY <1>1, <1>10, <2>1, <2>2, SameRest
<1>12. CASE kern.bypass = 0
  <2> DEFINE q == <<new>> \o Tail(p)
  <2>1. prog' = [prog EXCEPT ![e] = q]
    BY <1>1, <1>2, <1>12, SavesIt DEF CallsInv
  <2>2. LinesLeft(p, e, masked) /\ Continues(p, e, masked, console)
    <3>1. LineInv(cpu, p, e, masked, console)
      BY <1>2 DEF LinesInv, Regs
    <3>2. Rest(cpu, p) = p
      BY <1>1 DEF Rest
    <3> QED BY <1>2, <3>1, <3>2 DEF LineInv
  <2>3. new \in OperationSet /\ Neutral(new) /\ Neutral(p[1])
    <3>4. len \in Nat \ {0}
      BY <1>1, <1>2, NoStub DEF Operation
    <3> HIDE DEF len
    <3>1. <<len, 1>> \in Seq(Int) /\ new.fn = "access"
      BY <3>4 DEF Does
    <3>2. \A a \in Seq(Int) : [fn |-> "access", args |-> a] \in OperationSet
      BY DEF OperationSet
    <3>3. new \in OperationSet
      BY <3>1, <3>2 DEF Does
    <3> HIDE DEF new
    <3> QED BY <1>1, <1>2, <3>1, <3>3 DEF Neutral
  <2> HIDE DEF new
  <2>4. LinesLeft(q, e, masked) /\ Continues(q, e, masked, console)
    BY <1>2, <2>2, <2>3, ReplacedLines
  <2> HIDE DEF q
  <2>5. prog'[e] = q /\ \A f \in Envs : f # e => prog'[f] = prog[f]
    BY <1>2, <2>1 DEF CallsInv, CallsType
  <2>6. Rest(c, q) = q
    BY <1>6, <1>9 DEF Rest
  <2>7. LineInv(c, prog'[e], e, masked, console)
    BY <2>4, <2>5, <2>6 DEF LineInv
  <2> QED BY <1>1, <1>10, <2>5, <2>7, QuietStep
<1> QED BY <1>11, <1>12

LEMMA StubReturnsLines == CallsInv /\ LinesInv /\ StubReturns => LinesInv'
<1> SUFFICES ASSUME CallsInv, LinesInv, StubReturns PROVE LinesInv'
  OBVIOUS
<1> DEFINE e == curenv
           p == prog[e]
           t == Tail(p)
           c == cpu'
<1>1. curenv # NoEnv /\ cpu.eip \notin {0, 1} /\ cpu' = [cpu EXCEPT !.eip = 0]
      /\ ((Op.fn = "sys_cgetc" /\ prog' = prog) \/ prog' = [prog EXCEPT ![e] = t])
      /\ UNCHANGED <<env_tf, curenv, ready, kern, console, served, masked>>
  BY DEF StubReturns
<1>2. /\ e \in Envs /\ p \in Seq(OperationSet) /\ p # <<>>
      /\ Op = p[1] /\ cpu \in RegisterType /\ Placed(cpu, Op, served[e])
  BY <1>1, Running
<1>3. c.eip = 0
  <2>1. cpu' = [cpu EXCEPT !.eip = 0] /\ cpu \in RegisterType /\ 0 \in Int
    BY <1>1, <1>2
  <2> QED BY ONLY <2>1, Moved
<1>4. OnlyMoves(e, c)
  BY <1>1, RunsOn
<1>5. LineInv(cpu, p, e, masked, console)
  BY <1>2 DEF LinesInv, Regs
<1>6. LinesLeft(t, e, masked) /\ Continues(t, e, masked, console)
  <2>1. CASE cpu.eip = 2
    <3>1. Rest(cpu, p) = t
      BY <2>1 DEF Rest
    <3> QED BY <1>2, <1>5, <3>1 DEF LineInv
  <2>2. CASE cpu.eip >= 3
    <3>1. Rest(cpu, p) = p
      BY <2>2 DEF Rest
    <3>2. LinesLeft(p, e, masked) /\ Continues(p, e, masked, console)
      BY <1>2, <1>5, <3>1 DEF LineInv
    <3>3. Neutral(p[1])
      BY <1>2, <2>2, NoStubIsNeutral DEF Placed
    <3>4. MasksOn(p[1], e, masked, masked)
      BY <3>3 DEF MasksOn, Neutral
    <3> QED BY <1>2, <3>2, <3>4, DropFirst, ContinuesAfter
  <2>3. cpu.eip \in Nat
    BY <1>2 DEF Placed
  <2> QED BY <1>1, <2>1, <2>2, <2>3
<1> HIDE DEF c
<1>7. \A s : Rest(c, s) = s
  BY <1>3 DEF Rest
<1>8. CASE Op.fn = "sys_cgetc" /\ prog' = prog
  <2>1. Neutral(p[1])
    BY <1>2, <1>8, NoStubIsNeutral
  <2>2. LinesLeft(p, e, masked) /\ Continues(p, e, masked, console)
    BY <1>2, <1>6, <2>1, AddFirst, ContinuesBefore
  <2>3. LineInv(c, prog'[e], e, masked, console)
    BY <1>7, <1>8, <2>2 DEF LineInv
  <2>4. \A f \in Envs : f # e => prog'[f] = prog[f]
    BY <1>8
  <2> QED BY <1>1, <1>4, <2>3, <2>4, QuietStep
<1>9. CASE prog' = [prog EXCEPT ![e] = t]
  <2>1. prog'[e] = t /\ \A f \in Envs : f # e => prog'[f] = prog[f]
    BY <1>2, <1>9 DEF CallsInv, CallsType
  <2>2. LineInv(c, prog'[e], e, masked, console)
    BY <1>6, <1>7, <2>1 DEF LineInv
  <2> QED BY <1>1, <1>4, <2>1, <2>2, QuietStep
<1> QED BY <1>1, <1>8, <1>9

LEMMA RunLines ==
  ASSUME CallsInv, LinesInv, NEW ps, Programs(ps), \A e \in Envs : PrintsLines(ps[e], FALSE), Run(ps)
  PROVE  LinesInv'
<1>1. curenv = NoEnv /\ (\A e \in Envs : served[e].fn = "none") /\ prog' = ps
      /\ fos_scheduler([e \in Envs |-> e], env_tf) /\ UNCHANGED <<kern, console, served, masked>>
  BY DEF Run
<1>2. console = <<>> /\ console' = <<>>
  BY <1>1 DEF LinesInv
<1>3. masked' = {}
  BY <1>1, EnvsAreInts DEF CallsInv, CallsType
<1>4. [e \in Envs |-> e] \in Seq(Envs)
  <2> DEFINE n == Cardinality(Envs)
             q == [e \in Envs |-> e]
  <2>1. n \in Nat /\ Envs = 1..n
    BY SystemCallsAssumption
  <2> HIDE DEF n
  <2>2. q \in [1..n -> Envs]
    BY <2>1
  <2> HIDE DEF q
  <2>3. q \in Seq(Envs)
    BY <2>1, <2>2
  <2> QED BY <2>3 DEF q
<1>5. \A f \in Envs : Regs(f)' = env_pop_tf(env_tf[f])
  BY <1>1, <1>4, SchedulesFrom
<1>6. \A f \in Envs : env_pop_tf(env_tf[f]) = Registers
  BY <1>1 DEF CallsInv, NothingRan
<1>7. ASSUME NEW e \in Envs PROVE LineInv(Regs(e)', prog'[e], e, masked', console')
  <2>1. Regs(e)' = Registers
    BY <1>5, <1>6
  <2>2. Rest(Registers, ps[e]) = ps[e]
    BY StartRegisters DEF Rest
  <2>3. LinesLeft(ps[e], e, masked')
    <3>1. PrintsLines(ps[e], FALSE)
      OBVIOUS
    <3>2. \A a, b : StaysMasked(ps[e], FALSE, a, b) => StaysMasked(ps[e], e \in masked', a, b)
      BY DEF StaysMasked
    <3> QED BY <3>1, <3>2 DEF LinesLeft, PrintsLines
  <2>4. Continues(ps[e], e, masked', console')
    BY <1>2 DEF Continues
  <2> QED BY <1>1, <2>1, <2>2, <2>3, <2>4 DEF LineInv
<1>8. LinesContiguous'
  BY <1>2 DEF LinesContiguous
<1> QED BY <1>2, <1>7, <1>8 DEF LinesInv

LEMMA SystemCallLines == CallsInv /\ LinesInv /\ SystemCall => LinesInv'
<1> SUFFICES ASSUME CallsInv, LinesInv, SystemCall PROVE LinesInv'
  OBVIOUS
<1> DEFINE e == curenv
           p == prog[e]
           t == Tail(p)
<1>1. curenv # NoEnv /\ cpu.eip = 1
  BY DEF SystemCall
<1>2. /\ e \in Envs /\ p \in Seq(OperationSet) /\ p # <<>> /\ Op = p[1] /\ cpu \in RegisterType
      /\ Len(p) \in Nat /\ Len(p) > 0
  BY <1>1, Running
<1>3. Op.fn \in DOMAIN Stub
  BY CallServed
<1>4. PICK r : /\ After(r, Op.fn, Entered(e), Op.args)
               /\ \E x \in Int : (Op.fn \in Answering => x = r.value) /\ CallLeaves(r, x)
  BY CallServed
<1>5. PICK x \in Int : (Op.fn \in Answering => x = r.value) /\ CallLeaves(r, x)
  BY <1>4
<1> DEFINE c == WithAnswer([cpu EXCEPT !.eip = 2], x, r.eflags)
           sv == [fn |-> Op.fn, args |-> Op.args, value |-> r.value]
<1>6. c.eip = 2
  BY <1>2, Moved DEF WithAnswer
<1>7. OnlyMoves(e, c) /\ console' = r.console /\ served' = [served EXCEPT ![e] = sv]
      /\ masked' = CASE r.ends \/ Op.fn = "sys_enable_interrupt" -> masked \ {e}
                     [] Op.fn = "sys_disable_interrupt"          -> masked \cup {e}
                     [] OTHER                                    -> masked
  BY <1>5 DEF CallLeaves
<1>7a. prog' = IF r.ends THEN [prog EXCEPT ![e] = <<>>] ELSE prog
  <2>1. CASE r.ends
    BY <1>5, <2>1 DEF CallLeaves
  <2>2. CASE ~r.ends
    BY <1>5, <2>2 DEF CallLeaves
  <2> QED BY <2>1, <2>2
<1>8. masked' \subseteq {e} /\ masked \subseteq {e}
  BY <1>1, <1>4, <1>5, MaskedAfter DEF CallsInv
<1> HIDE DEF c
<1>9. served'[e].fn # "none"
  <2>1. served'[e] = sv
    BY <1>2, <1>7 DEF CallsInv, CallsType
  <2> QED BY <1>3, <2>1, NoneIsNoStub
<1>10. \/ console' = console
       \/ \E entry \in EntryType : /\ entry.env = e /\ entry.s \in {0, Printed(p[1])}
                                   /\ console' = Append(console, entry)
  <2>1. Entered(e).console = console /\ Entered(e).env = e
    BY DEF Entered
  <2>2. Printed([fn |-> Op.fn, args |-> Op.args]) = Printed(p[1])
    BY <1>2 DEF Printed
  <2>3. \/ r.console = Entered(e).console
        \/ \E entry \in EntryType :
             /\ entry.env = Entered(e).env
             /\ entry.s \in {0, Printed([fn |-> Op.fn, args |-> Op.args])}
             /\ r.console = Append(Entered(e).console, entry)
    BY <1>4 DEF After
  <2> QED BY <1>7, <2>1, <2>2, <2>3
<1>11. LinesLeft(p, e, masked) /\ Continues(p, e, masked, console)
  <2>1. LineInv(cpu, p, e, masked, console)
    BY <1>2 DEF LinesInv, Regs
  <2>2. Rest(cpu, p) = p
    BY <1>1 DEF Rest
  <2> QED BY <1>2, <2>1, <2>2 DEF LineInv
<1>12. console \in Seq(EntryType)
  BY DEF CallsInv, CallsType
<1>13. LinesContiguous'
  <2>1. CASE console' = console
    BY <2>1 DEF LinesInv, LinesContiguous
  <2>2. ASSUME NEW entry \in EntryType, entry.env = e, entry.s \in {0, Printed(p[1])},
               console' = Append(console, entry)
        PROVE  LinesContiguous'
    <3>1. LinesContiguous
      BY DEF LinesInv
    <3> HIDE DEF p
    <3> QED BY <1>2, <1>11, <1>12, <2>2, <3>1, ContiguousAfter
  <2> QED BY <1>10, <2>1, <2>2
<1>14. ASSUME NEW f \in Envs, f # e PROVE LineInv(Regs(f)', prog'[f], f, masked', console')
  <2>1. Regs(f)' = Regs(f)
    BY <1>7, <1>14 DEF OnlyMoves
  <2>2. prog'[f] = prog[f]
    <3>1. CASE r.ends
      <4>1. prog' = [prog EXCEPT ![e] = <<>>]
        BY <1>7a, <3>1
      <4> QED BY <1>2, <1>14, <4>1 DEF CallsInv, CallsType
    <3>2. CASE ~r.ends
      BY <1>7a, <3>2
    <3> QED BY <3>1, <3>2
  <2>3. LineInv(Regs(f), prog[f], f, masked, console)
    BY DEF LinesInv
  <2> DEFINE R == Rest(Regs(f), prog[f])
  <2>4. f \notin masked /\ f \notin masked'
    BY <1>8, <1>14
  <2>5. ASSUME prog[f] # <<>> PROVE LinesLeft(R, f, masked') /\ Continues(R, f, masked', console')
    <3>1. LinesLeft(R, f, masked) /\ Continues(R, f, masked, console)
      BY <2>3, <2>5 DEF LineInv
    <3> HIDE DEF R
    <3>2. LinesLeft(R, f, masked') /\ Continues(R, f, masked', console)
      BY <2>4, <3>1, UnmaskedLines
    <3>3. CASE console' = console
      BY <3>2, <3>3
    <3>4. ASSUME NEW entry \in EntryType, entry.env = e, console' = Append(console, entry)
          PROVE  Continues(R, f, masked', console')
      BY <1>12, <1>14, <2>4, <3>1, <3>4, OthersContinue
    <3> QED BY <1>10, <3>2, <3>3, <3>4
  <2> QED BY <2>1, <2>2, <2>5 DEF LineInv
<1>15. LineInv(c, prog'[e], e, masked', console')
  <2>1. CASE r.ends
    <3>1. prog'[e] = <<>>
      BY <1>2, <1>7a, <2>1 DEF CallsInv, CallsType
    <3> QED BY <3>1 DEF LineInv
  <2>2. CASE ~r.ends
    <3>1. MasksOn(p[1], e, masked, masked')
      <4>1. Op.fn = "sys_disable_interrupt" => masked' = masked \cup {e}
        BY <1>7, <2>2
      <4>2. Op.fn # "sys_disable_interrupt" /\ Op.fn # "sys_enable_interrupt" => masked' = masked
        BY <1>7, <2>2
      <4> QED BY <1>2, <4>1, <4>2 DEF MasksOn
    <3>2. LinesLeft(t, e, masked')
      BY <1>2, <1>11, <3>1, DropFirst
    <3>3. ASSUME console' = console PROVE Continues(t, e, masked', console')
      BY <1>2, <1>11, <3>1, <3>3, ContinuesAfter
    <3>4. ASSUME NEW entry \in EntryType, entry.env = e, entry.s \in {0, Printed(p[1])},
                 console' = Append(console, entry)
          PROVE  Continues(t, e, masked', console')
      BY <1>2, <1>11, <1>12, <3>1, <3>4, ContinuesPrinted
    <3>5. Continues(t, e, masked', console')
      BY <1>10, <3>3, <3>4
    <3>6. Rest(c, p) = t /\ prog'[e] = p
      BY <1>6, <1>7a, <2>2 DEF Rest
    <3> QED BY <3>2, <3>5, <3>6 DEF LineInv
  <2> QED BY <2>1, <2>2
<1>16. ASSUME NEW f \in Envs PROVE LineInv(Regs(f)', prog'[f], f, masked', console')
  <2>1. CASE f = e
    <3>1. Regs(f)' = c
      BY <1>7, <2>1 DEF OnlyMoves
    <3> QED BY <1>15, <2>1, <3>1
  <2> QED BY <1>14, <2>1
<1> QED BY <1>2, <1>9, <1>13, <1>16 DEF LinesInv

\* A program that prints none of the library's lines.
LEMMA SilentLines ==
  ASSUME NEW p, Silent(p), NEW e, NEW M, NEW printed
  PROVE  LinesLeft(p, e, M) /\ Continues(p, e, M, printed)
<1>1. \A b \in 1..Len(p) : ~(Printed(p[b]) > 9)
  BY DEF Silent
<1>2. LinesLeft(p, e, M)
  BY <1>1 DEF LinesLeft, PrintsLines
<1>3. Continues(p, e, M, printed)
  BY <1>1 DEF Continues
<1> QED BY <1>2, <1>3

LEMMA StraysLines ==
  ASSUME CallsInv, LinesInv, NEW p \in Seq(OperationSet), Silent(p), Strays(p)
  PROVE  LinesInv'
<1> DEFINE e == curenv
           c == cpu'
<1>1. curenv # NoEnv /\ cpu' = [cpu EXCEPT !.eip = 0] /\ prog' = [prog EXCEPT ![e] = p]
      /\ UNCHANGED <<env_tf, curenv, ready, kern, console, served, masked>>
  BY DEF Strays
<1>2. e \in Envs /\ cpu \in RegisterType
  BY <1>1, Running
<1>3. c.eip = 0
  <2>1. cpu' = [cpu EXCEPT !.eip = 0] /\ cpu \in RegisterType /\ 0 \in Int
    BY <1>1, <1>2
  <2> QED BY ONLY <2>1, Moved
<1>4. OnlyMoves(e, c)
  BY <1>1, RunsOn
<1>5. prog'[e] = p /\ \A f \in Envs : f # e => prog'[f] = prog[f]
  BY <1>1, <1>2 DEF CallsInv, CallsType
<1> HIDE DEF c
<1>6. Rest(c, p) = p
  BY <1>3 DEF Rest
<1>7. LineInv(c, prog'[e], e, masked, console)
  BY <1>5, <1>6, SilentLines DEF LineInv
<1> QED BY <1>1, <1>4, <1>5, <1>7, QuietStep

LEMMA DoubleFaultLines == CallsInv /\ LinesInv /\ DoubleFault => LinesInv'
<1> SUFFICES ASSUME CallsInv, LinesInv, DoubleFault PROVE LinesInv'
  OBVIOUS
<1> DEFINE e == curenv
           t == trap(cpu, T_DBLFLT)
           tfs == [env_tf EXCEPT ![e] = t]
           entry == [env |-> e, s |-> 0, len |-> 1, head |-> 0]
           sv == [fn |-> "panic", args |-> <<>>, value |-> 0]
<1>1. /\ curenv # NoEnv /\ cpu.eip = 3 /\ console' = Append(console, entry)
      /\ masked' = masked \ {e} /\ Saves(<<>>) /\ fos_scheduler(ready, tfs)
      /\ served' = [served EXCEPT ![e] = sv]
  BY DEF DoubleFault
<1>2. /\ e \in Envs /\ CallsType /\ ready \in Seq(Envs) /\ prog[e] # <<>>
      /\ Len(prog[e]) \in Nat /\ Len(prog[e]) > 0
  BY <1>1, Running DEF CallsInv, QueueInv
<1>3. served'[e].fn = "panic"
  BY <1>1, <1>2 DEF CallsType
<1>4. entry \in EntryType /\ entry.env = e /\ entry.s = 0
  BY <1>2 DEF EntryType
<1> HIDE DEF t, entry, sv
<1>5. \A f \in Envs : Regs(f)' = env_pop_tf(tfs[f])
  <2> HIDE DEF tfs
  <2> QED BY <1>1, <1>2, SchedulesFrom
<1>6. OnlyMoves(e, env_pop_tf(t))
  BY <1>2, <1>5, SavedFor
<1>7. prog'[e] = <<>> /\ \A f \in Envs : f # e => prog'[f] = prog[f]
  BY <1>1, <1>2, SavesIt DEF CallsType
<1>8. masked' = {} /\ masked \subseteq {e}
  BY <1>1 DEF CallsInv
<1>9. console \in Seq(EntryType)
  BY <1>2 DEF CallsType
<1>10. LinesContiguous'
  <2> DEFINE p == prog[e]
  <2>1. LineInv(cpu, p, e, masked, console)
    BY <1>2 DEF LinesInv, Regs
  <2>2. Rest(cpu, p) = p
    BY <1>1 DEF Rest
  <2>3. Continues(p, e, masked, console)
    BY <1>2, <2>1, <2>2 DEF LineInv
  <2>4. LinesContiguous
    BY DEF LinesInv
  <2>5. entry.s \in {0, Printed(p[1])}
    BY <1>4
  <2>6. Len(p) \in Nat /\ Len(p) > 0
    BY <1>2
  <2> HIDE DEF p
  <2> QED BY <1>1, <1>4, <1>9, <2>3, <2>4, <2>5, <2>6, ContiguousAfter
<1>11. ASSUME NEW f \in Envs PROVE LineInv(Regs(f)', prog'[f], f, masked', console')
  <2>1. CASE f = e
    BY <1>7, <2>1 DEF LineInv
  <2>2. CASE f # e
    <3> DEFINE R == Rest(Regs(f), prog[f])
    <3>1. Regs(f)' = Regs(f) /\ prog'[f] = prog[f]
      BY <1>6, <1>7, <2>2 DEF OnlyMoves
    <3>2. LineInv(Regs(f), prog[f], f, masked, console)
      BY DEF LinesInv
    <3>3. f \notin masked /\ f \notin masked' /\ entry.env # f
      BY <1>4, <1>8, <2>2
    <3>4. ASSUME prog[f] # <<>> PROVE LinesLeft(R, f, masked') /\ Continues(R, f, masked', console')
      <4>1. LinesLeft(R, f, masked) /\ Continues(R, f, masked, console)
        BY <3>2, <3>4 DEF LineInv
      <4> HIDE DEF R
      <4>2. LinesLeft(R, f, masked')
        BY <3>3, <4>1, UnmaskedLines
      <4>3. Continues(R, f, masked', Append(console, entry))
        BY <1>4, <1>9, <3>3, <4>1, OthersContinue
      <4> QED BY <1>1, <4>2, <4>3
    <3> QED BY <3>1, <3>4 DEF LineInv
  <2> QED BY <2>1, <2>2
<1> QED BY <1>2, <1>3, <1>10, <1>11 DEF LinesInv

LEMMA KernelStraysLines == CallsInv /\ LinesInv /\ KernelStrays => LinesInv'
<1> SUFFICES ASSUME CallsInv, LinesInv, KernelStrays PROVE LinesInv'
  OBVIOUS
<1> DEFINE sv == [fn |-> Op.fn, args |-> Op.args, value |-> 0]
<1>1. /\ curenv # NoEnv /\ Op.fn \in Touches /\ served' = [served EXCEPT ![curenv] = sv]
      /\ prog' = [e \in Envs |-> <<>>] /\ console' = console
  BY DEF KernelStrays
<1>2. curenv \in Envs
  BY <1>1, Running
<1>3. sv.fn # "none"
  BY <1>1 DEF Touches
<1> HIDE DEF sv
<1>4. served'[curenv].fn # "none"
  BY <1>1, <1>2, <1>3 DEF CallsInv, CallsType
<1>5. \A e \in Envs : LineInv(Regs(e)', prog'[e], e, masked', console')
  BY <1>1 DEF LineInv
<1>6. LinesContiguous'
  BY <1>1 DEF LinesInv, LinesContiguous
<1> QED BY <1>2, <1>4, <1>5, <1>6 DEF LinesInv

\* What holds of the lines that the running program had still to print when its
\* frame was saved.
FrameLines ==
  \A e \in Envs : e = curenv => LineInv(env_pop_tf(env_tf[e]), saved[e], e, masked, console)

LEMMA ClockInTrapLines == CallsInv /\ FramesInv /\ LinesInv /\ FrameLines /\ ClockInTrap => LinesInv'
<1> SUFFICES ASSUME CallsInv, FramesInv, LinesInv, FrameLines, ClockInTrap PROVE LinesInv'
  OBVIOUS
<1>1. Settled' /\ prog' = saved /\ env_tf' = env_tf /\ UNCHANGED <<console, served, masked>>
  BY ClockInTrapFrames
<1>2. ASSUME NEW f \in Envs PROVE LineInv(Regs(f)', prog'[f], f, masked', console')
  <2>1. Regs(f)' = env_pop_tf(env_tf[f])
    BY <1>1 DEF Settled
  <2>2. CASE f = curenv
    BY <1>1, <2>1, <2>2 DEF FrameLines
  <2>3. CASE f # curenv
    <3>1. saved[f] = prog[f] /\ Regs(f) = env_pop_tf(env_tf[f])
      BY <2>3 DEF FramesInv, Regs
    <3>2. LineInv(Regs(f), prog[f], f, masked, console)
      BY DEF LinesInv
    <3> QED BY <1>1, <2>1, <3>1, <3>2
  <2> QED BY <2>2, <2>3
<1>3. LinesContiguous'
  BY <1>1 DEF LinesInv, LinesContiguous
<1> QED BY <1>1, <1>2, <1>3 DEF LinesInv

LEMMA FrameLinesFollow ==
  ASSUME FrameLines, LinesInv', Settled' \/ FramesStay
  PROVE  FrameLines'
<1>1. CASE Settled'
  <2>1. saved' = prog' /\ \A f \in Envs : Regs(f)' = env_pop_tf(env_tf'[f])
    BY <1>1 DEF Settled
  <2>2. \A f \in Envs : LineInv(Regs(f)', prog'[f], f, masked', console')
    BY DEF LinesInv
  <2> QED BY <2>1, <2>2 DEF FrameLines
<1>2. CASE FramesStay
  BY <1>2 DEF FrameLines, FramesStay
<1> QED BY <1>1, <1>2

LEMMA FrameLinesStart == SysInit => FrameLines
BY EnvsAreInts DEF SysInit, FrameLines

\* Programs whose lines are handed over as vcprintf and atomic_cprintf do it; a
\* program that strays prints no such line.
PrintingPrograms == \E ps : /\ Programs(ps) /\ (\A e \in Envs : PrintsLines(ps[e], FALSE))
                            /\ Run(ps)

PrintingNext == PrintingPrograms \/ AnyStray \/ SysStep

PrintingSpec == SysInit /\ [][PrintingNext]_sysvars

LEMMA PrintingIsAny == [PrintingNext]_sysvars => [AnyNext]_sysvars
BY DEF PrintingNext, PrintingPrograms, AnyNext, AnyPrograms

LEMMA LinesKept == CallsInv /\ FramesInv /\ LinesInv /\ FrameLines /\ [PrintingNext]_sysvars => LinesInv'
<1> SUFFICES ASSUME CallsInv, FramesInv, LinesInv, FrameLines, [PrintingNext]_sysvars PROVE LinesInv'
  OBVIOUS
<1>1. CASE UNCHANGED sysvars
  BY <1>1 DEF sysvars, LinesInv, LineInv, LinesContiguous, Regs
<1>2. CASE PrintingPrograms
  BY <1>2, RunLines DEF PrintingPrograms
<1>3. CASE AnyStray
  BY <1>3, StraysLines DEF AnyStray
<1>4. CASE SysStep
  BY <1>1, <1>4, CallStubLines, ReachLines, SystemCallLines, StubReturnsLines, ClockLines,
     PageFaultLines, AccessLines, UnexpectedTrapLines, ClockInTrapLines, DoubleFaultLines,
     KernelStraysLines DEF SysStep, AtPrompt
<1> QED BY <1>1, <1>2, <1>3, <1>4 DEF PrintingNext

\* A program that has masked the clock runs alone until it unmasks it or ends;
\* a line shorter than the buffer of vcprintf goes out in one piece, and one
\* printed by atomic_cprintf has nothing of another program in it, for any
\* programs that print by these routines.
THEOREM SectionsRunAlone == PrintingSpec => []SectionsAlone
<1> DEFINE I == CallsInv /\ FramesInv /\ LinesInv /\ FrameLines
<1>1. SysInit => I
  BY CallsStart, FramesStart, LinesStart, FrameLinesStart
<1>2. I /\ [PrintingNext]_sysvars => I'
  <2> SUFFICES ASSUME I, [PrintingNext]_sysvars PROVE I'
    OBVIOUS
  <2>1. [AnyNext]_sysvars
    BY PrintingIsAny
  <2>2. CallsInv' /\ FramesInv'
    BY <2>1, BothKept
  <2>3. LinesInv'
    BY LinesKept
  <2>4. Settled' \/ FramesStay
    BY <2>1, FramesMove
  <2>5. FrameLines'
    BY <2>3, <2>4, FrameLinesFollow
  <2> QED BY <2>2, <2>3, <2>5
<1>3. I => SectionsAlone
  BY CallsImply DEF LinesInv, SectionsAlone
<1> QED BY <1>1, <1>2, <1>3, PTL DEF PrintingSpec

-----------------------------------------------------------------------------
(* The library prints lines so *)

LEMMA LineNumbers ==
  ASSUME NEW n \in Nat
  PROVE  /\ Line(n, 0) \div 10 = n /\ Line(n, 0) % 10 = 0
         /\ Line(n, 1) \div 10 = n /\ Line(n, 1) % 10 = 1
BY DEF Line

\* The buffer is full only for a text at least as long.
LEMMA FullBuffers ==
  ASSUME NEW n \in Nat
  PROVE  /\ n \div (PRINTBUF - 1) \in Nat
         /\ n \div (PRINTBUF - 1) >= 1 => n >= PRINTBUF - 1
<1> DEFINE m == PRINTBUF - 1
<1>1. m \in Nat /\ m > 0
  BY SystemCallsAssumption
<1> HIDE DEF m
<1>2. n \div m \in Nat
  BY <1>1
<1>3. n < m => n \div m = 0
  BY <1>1
<1>4. n \div m >= 1 => n >= m
  BY <1>1, <1>2, <1>3
<1> QED BY <1>2, <1>4 DEF m

LEMMA Pieces ==
  ASSUME NEW n \in Nat, NEW s \in Int, NEW h \in Int
  PROVE  /\ Len(vcprintf(s, n, h)) = n \div (PRINTBUF - 1) + 1
         /\ vcprintf(s, n, h) \in Seq([fn : {"sys_cputs"}, args : Seq(Int)])
         /\ \A i \in 1..(n \div (PRINTBUF - 1) + 1) :
              vcprintf(s, n, h)[i].fn = "sys_cputs" /\ Printed(vcprintf(s, n, h)[i]) = s
<1> DEFINE full == n \div (PRINTBUF - 1)
           k == full + 1
           v == vcprintf(s, n, h)
           len(i) == IF i <= full THEN PRINTBUF - 1 ELSE n % (PRINTBUF - 1)
           piece(i) == Does("sys_cputs", <<s, len(i), h>>)
           S == [fn : {"sys_cputs"}, args : Seq(Int)]
<1>1. full \in Nat
  BY FullBuffers
<1>2. n % (PRINTBUF - 1) \in Int /\ PRINTBUF - 1 \in Int
  BY SystemCallsAssumption
<1>3. v = [i \in 1..k |-> piece(i)]
  BY DEF vcprintf
<1>4. \A i : len(i) \in Int
  BY <1>2
<1> HIDE DEF full, len
<1>5. \A i : piece(i) \in S /\ piece(i).fn = "sys_cputs" /\ Printed(piece(i)) = s
  <2>1. \A x \in Int : <<s, x, h>> \in Seq(Int) /\ <<s, x, h>>[1] = s
    OBVIOUS
  <2>2. \A x \in Int : /\ Does("sys_cputs", <<s, x, h>>).fn = "sys_cputs"
                       /\ Does("sys_cputs", <<s, x, h>>).args = <<s, x, h>>
    BY DEF Does
  <2>3. \A x \in Int : Does("sys_cputs", <<s, x, h>>) \in S
    BY <2>1 DEF Does
  <2> QED BY <1>4, <2>1, <2>2, <2>3 DEF Printed
<1> HIDE DEF piece
<1>6. k \in Nat /\ k >= 1
  BY <1>1
<1> HIDE DEF k, v, S
<1>7. v \in [1..k -> S] /\ \A i \in 1..k : v[i] = piece(i)
  BY <1>3, <1>5
<1>8. v \in Seq(S) /\ Len(v) = k
  BY <1>6, <1>7
<1>9. \A i \in 1..k : v[i].fn = "sys_cputs" /\ Printed(v[i]) = s
  BY <1>5, <1>7
<1> QED BY <1>6, <1>8, <1>9 DEF k, v, S, full

\* cprintf hands a line over in several pieces only if it fills the buffer.
LEMMA CprintfPrintsLines ==
  ASSUME NEW n \in Nat
  PROVE  PrintsLines(cprintf(n), FALSE)
<1> DEFINE k == n \div (PRINTBUF - 1) + 1
           v == vcprintf(Line(n, 0), n, 1)
           s == Line(n, 0)
<1>1. s \in Int /\ s \div 10 = n /\ s % 10 = 0
  BY LineNumbers DEF Line
<1>2. k \in Nat /\ (k > 1 => n >= PRINTBUF - 1)
  BY FullBuffers
<1> HIDE DEF s
<1>3. Len(v) = k /\ \A i \in 1..k : Printed(v[i]) = s
  <2>1. 1 \in Int
    OBVIOUS
  <2> HIDE DEF v
  <2>2. v = vcprintf(s, n, 1)
    BY DEF v, s
  <2> QED BY ONLY <1>1, <2>1, <2>2, n \in Nat, Pieces DEF k
<1> HIDE DEF k, v
<1>4. ASSUME NEW a \in 1..k, NEW b \in 1..k, a < b
      PROVE  Printed(v[a]) \div 10 >= PRINTBUF - 1 /\ Printed(v[a]) % 10 # 1
  <2>1. k > 1
    BY <1>2, <1>4
  <2>2. Printed(v[a]) = s
    BY <1>3
  <2> QED BY <1>1, <1>2, <2>1, <2>2
<1>5. PrintsLines(v, FALSE)
  BY <1>3, <1>4 DEF PrintsLines
<1>6. cprintf(n) = v
  BY DEF cprintf, v, s
<1> QED BY <1>5, <1>6

\* atomic_cprintf also keeps the clock masked between the pieces.
LEMMA AtomicPrintsLines ==
  ASSUME NEW n \in Nat
  PROVE  PrintsLines(atomic_cprintf(n), FALSE)
<1> DEFINE k == n \div (PRINTBUF - 1) + 1
           s == Line(n, 1)
           v == vcprintf(s, n, 0)
           S == [fn : {"sys_cputs", "sys_disable_interrupt", "sys_enable_interrupt"}, args : Seq(Int)]
           first == <<Does("sys_disable_interrupt", <<>>)>>
           last == <<Does("sys_enable_interrupt", <<>>)>>
           u == first \o v
           q == u \o last
<1>1. s \in Int /\ s \div 10 = n /\ s % 10 = 1
  BY LineNumbers DEF Line
<1>2. k \in Nat /\ k >= 1 /\ (k > 1 => n >= PRINTBUF - 1)
  BY FullBuffers
<1>3. atomic_cprintf(n) = q
  BY DEF atomic_cprintf
<1>4. first \in Seq(S) /\ Len(first) = 1 /\ first[1].fn = "sys_disable_interrupt"
  BY DEF Does
<1>5. last \in Seq(S) /\ Len(last) = 1 /\ last[1].fn = "sys_enable_interrupt"
  BY DEF Does
<1> HIDE DEF s, k
<1>6. v \in Seq(S) /\ Len(v) = k /\ \A i \in 1..k : v[i].fn = "sys_cputs" /\ Printed(v[i]) = s
  <2> DEFINE T == [fn : {"sys_cputs"}, args : Seq(Int)]
  <2>1. v \in Seq(T) /\ Len(v) = k /\ \A i \in 1..k : v[i].fn = "sys_cputs" /\ Printed(v[i]) = s
    <3>1. 0 \in Int
      OBVIOUS
    <3> HIDE DEF v, T
    <3>2. v = vcprintf(s, n, 0)
      BY DEF v
    <3>3. /\ Len(vcprintf(s, n, 0)) = n \div (PRINTBUF - 1) + 1
          /\ vcprintf(s, n, 0) \in Seq([fn : {"sys_cputs"}, args : Seq(Int)])
          /\ \A i \in 1..(n \div (PRINTBUF - 1) + 1) :
               vcprintf(s, n, 0)[i].fn = "sys_cputs" /\ Printed(vcprintf(s, n, 0)[i]) = s
      BY <1>1, <3>1, Pieces
    <3> QED BY ONLY <3>2, <3>3 DEF k, T
  <2>2. T \subseteq S
    OBVIOUS
  <2> HIDE DEF T, S, v
  <2>3. v \in Seq(S)
    BY <2>1, <2>2, SeqMonotonic
  <2> QED BY <2>1, <2>3
<1> HIDE DEF S, first, last, v
<1>7. u \in Seq(S) /\ Len(u) = 1 + k /\ u[1] = first[1] /\ \A i \in 2..(k + 1) : u[i] = v[i - 1]
  <2>1. u \in Seq(S) /\ Len(u) = Len(first) + Len(v)
        /\ \A i \in 1..(Len(first) + Len(v)) : u[i] = IF i <= Len(first) THEN first[i] ELSE v[i - Len(first)]
    <3>1. first \in Seq(S) /\ v \in Seq(S)
      BY <1>4, <1>6
    <3> QED BY ONLY <3>1, ConcatProperties
  <2>2. Len(first) = 1 /\ Len(first) + Len(v) = 1 + k
    BY <1>4, <1>6
  <2> HIDE DEF u
  <2>3. \A i \in 1..(1 + k) : u[i] = IF i <= 1 THEN first[i] ELSE v[i - 1]
    BY <2>1, <2>2
  <2>4. 1 \in 1..(1 + k) /\ \A i \in 2..(k + 1) : i \in 1..(1 + k) /\ ~(i <= 1)
    BY <1>2
  <2> QED BY <2>1, <2>2, <2>3, <2>4
<1> HIDE DEF u
<1>8. Len(q) = k + 2 /\ (\A i \in 1..(k + 1) : q[i] = u[i]) /\ q[k + 2] = last[1]
  <2>1. q \in Seq(S) /\ Len(q) = Len(u) + Len(last)
        /\ \A i \in 1..(Len(u) + Len(last)) : q[i] = IF i <= Len(u) THEN u[i] ELSE last[i - Len(u)]
    <3>1. u \in Seq(S) /\ last \in Seq(S)
      BY <1>5, <1>7
    <3> QED BY ONLY <3>1, ConcatProperties
  <2>2. Len(u) = k + 1 /\ Len(u) + Len(last) = k + 2
    BY <1>2, <1>5, <1>7
  <2> HIDE DEF q
  <2>3. \A i \in 1..(k + 2) : q[i] = IF i <= k + 1 THEN u[i] ELSE last[i - (k + 1)]
    BY <2>1, <2>2
  <2>4. k + 2 \in 1..(k + 2) /\ ~(k + 2 <= k + 1) /\ (k + 2) - (k + 1) = 1
        /\ \A i \in 1..(k + 1) : i \in 1..(k + 2) /\ i <= k + 1
    BY <1>2
  <2> QED BY <2>1, <2>2, <2>3, <2>4
<1> HIDE DEF q
<1>9. q[1].fn = "sys_disable_interrupt" /\ Printed(q[1]) = 0 /\ Printed(q[k + 2]) = 0
  <2>1. 1 \in 1..(k + 1)
    BY <1>2
  <2>2. q[1] = first[1] /\ q[k + 2] = last[1]
    BY <1>7, <1>8, <2>1
  <2> QED BY <1>4, <1>5, <2>2 DEF Printed
<1>10. \A i \in 2..(k + 1) : q[i].fn = "sys_cputs" /\ Printed(q[i]) = s
  <2>1. \A i \in 2..(k + 1) : i \in 1..(k + 1) /\ i - 1 \in 1..k
    BY <1>2
  <2> QED BY <1>6, <1>7, <1>8, <2>1
<1>11. SUFFICES ASSUME NEW a \in 1..(k + 2), NEW b \in 1..(k + 2), a < b, Printed(q[a]) > 9,
                       Printed(q[b]) = Printed(q[a])
                PROVE  Printed(q[a]) \div 10 >= PRINTBUF - 1 /\ StaysMasked(q, FALSE, a, b)
  BY <1>3, <1>8 DEF PrintsLines
<1>12. a # 1 /\ b # k + 2
  BY <1>9, <1>11
<1>13. a \in 2..(k + 1) /\ k > 1 /\ b - 1 \in 1..k /\ 1 \in 1..(a - 1)
  BY <1>2, <1>11, <1>12
<1>14. Printed(q[a]) \div 10 >= PRINTBUF - 1
  BY <1>1, <1>2, <1>10, <1>13
<1>15. \A x \in 1..(b - 1) : q[x].fn # "sys_enable_interrupt"
  <2>1. \A x \in 1..(b - 1) : x = 1 \/ x \in 2..(k + 1)
    BY <1>2, <1>13
  <2> QED BY <1>9, <1>10, <2>1
<1>16. StaysMasked(q, FALSE, a, b)
  BY <1>9, <1>13, <1>15 DEF StaysMasked
<1> QED BY <1>14, <1>16

=============================================================================
