---------------------------- MODULE MCLRUPaging ----------------------------
(* One code page, two stack pages, and two heap pages in one page table:   *)
(* freeMem meets tables that are left empty and tables that are not.       *)
EXTENDS LRUPaging

MC_Pages == {0, 5, 6, 10, 11}
MC_Code  == <<0>>
MC_Stack == {10, 11}
MC_Heap  == {5, 6}

\* Without a second list the active list is replaced first in, first out.
MC_ListSizes == {<<2, 1>>, <<2, 0>>}
=============================================================================
