--------------------------- MODULE MCSystemCalls ---------------------------
(* The programs that the instance of SystemCalls runs. *)
EXTENDS SystemCalls

\* Arguments by which a call is told from another one.
Tokens(e, n) == [i \in 1..n |-> 100 * e + i]

\* Calls of every stub but those whose arguments matter to the handler.
AnyCall(e) == {<<Does(fn, Tokens(e, Stub[fn][2]))>> :
                 fn \in DOMAIN Stub \ {"sys_cputs", "sys_cgetc", "__sys_allocate_page",
                                       "sys_bypassPageFault", "tst", "chktst"}}

\* Calls with arguments that matter, alone and in the order programs use them.
Chosen(e) ==
  {<<Does("__sys_allocate_page", <<va, perm>>), Does("sys_calculate_free_frames", <<>>)>> :
     va \in {1, 4096}, perm \in {4, 5}}
  \cup {<<Does("tst", <<n, 2, 5, ch, inv>>), Does("gettst", <<>>)>> :
          n \in 1..3, ch \in 1..4, inv \in {0, 1}}
  \cup {<<Does("rsttst", <<>>), Does("inctst", <<>>), Does("chktst", <<n>>)>> : n \in {1, 2}}
  \cup {<<Does("sys_set_uheap_strategy", <<e>>), Does("sys_get_heap_strategy", <<>>)>>}
  \cup {<<Does("exception", <<v, 0>>)>> : v \in {0, 1, 2} \cup (5..8) \cup (10..13) \cup (16..19)}
  \cup {<<Does("sys_get_heap_strategy", <<>>), Does("access", <<3, 0>>), Does("exception", <<v, 1>>)>> :
          v \in {1, 3, 4, 6}}

Printing == {cprintf(n) : n \in 1..PRINTBUF + 1}
            \cup {atomic_cprintf(n) : n \in {1, 2 * PRINTBUF}}
            \cup {atomic_cputchar(9), getchar, atomic_getchar, user_panic(2)}

\* Page faults are skipped by n bytes, and one happens.
Skipping(n) == <<Does("sys_bypassPageFault", <<n>>), Does("access", <<3, 0>>),
                 Does("sys_bypassPageFault", <<0>>)>>

\* One program is anything, the other one of those that meet it elsewhere.
Pairs ==
  {<<p \o exit, q \o exit>> :
     p \in AnyCall(1) \cup Chosen(1) \cup Printing \cup {Skipping(3), Skipping(256 + 3)},
     q \in {cprintf(PRINTBUF + 1), atomic_cprintf(2 * PRINTBUF), atomic_cputchar(9),
            getchar, user_panic(2)}
           \cup {Skipping(3), <<Does("access", <<2, 0>>)>>,
                 <<Does("inctst", <<>>), Does("exception", <<3, 1>>)>>,
                 <<Does("tst", <<1, 1, 1, 3, 0>>), Does("gettst", <<>>)>>,
                 <<Does("sys_check_LRU_lists", Tokens(2, 4))>>}}

\* What is behind an instruction that was skipped by the wrong length.
Elsewhere == {exit, <<Does("access", <<2, 0>>), Does("exception", <<3, 1>>)>> \o exit}

ASSUME PairsArePrograms ==
  (\A ps \in Pairs : Programs(ps)) /\ \A p \in Elsewhere : Program(p) /\ Silent(p)

RunPrograms == \E ps \in Pairs : Run(ps)

StraySome == \E p \in Elsewhere : Strays(p)

SysNext == RunPrograms \/ StraySome \/ SysStep

SysSpec == SysInit /\ [][SysNext]_sysvars

=============================================================================
