----------------------------- MODULE MCPrograms -----------------------------
(* The programs of user/: a test program alone, or two sort programs that   *)
(* share the processor and the console.  A behaviour is of one of the two.  *)
EXTENDS UserPrograms, SortPrograms

VARIABLE kind

\* Every sort program beside one that locks its dialogues and one that does not.
MCLoaded == {<<p, q>> : p \in DOMAIN Sorters, q \in {"quicksort", "quicksort1"}}

MCInit ==
  /\ ProgramInit /\ SortInit
  /\ \/ kind = "test" /\ sorter = <<"quicksort", "quicksort">> /\ cpu = 1
     \/ kind = "sort" /\ prog = "fos_alloc"

MCNext ==
  \/ kind = "test" /\ ProgramNext /\ UNCHANGED <<kind, sortvars>>
  \/ kind = "sort" /\ SortNext /\ UNCHANGED <<kind, vars, pvars>>

MCSpec == MCInit /\ [][MCNext]_<<kind, vars, pvars, sortvars>>

=============================================================================
