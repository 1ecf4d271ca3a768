--------------------------- MODULE MCFrameManager ---------------------------
(* Two environments with a code and a heap page in one table and two stack  *)
(* pages in another.  Together they may want more frames than there are.    *)
EXTENDS FrameManager

CONSTANTS e1, e2

MC_Envs   == {e1, e2}
MC_Pages  == {"code", "stack", "grown", "heap"}
MC_Tables == {"low", "high"}
MC_PDX    == [p \in MC_Pages |-> IF p \in {"code", "heap"} THEN "low" ELSE "high"]
MC_Code   == <<"code">>
MC_Frames == 1..13

\* Frames are alike: two states that a permutation of the frames turns into
\* each other are one.  What is left of the frames is which places share one,
\* the references of each, and how many are free or in no place at all.
View ==
  LET used == InUse
      class(S) == [r \in {references[f] : f \in S} |-> Cardinality({f \in S : references[f] = r})]
  IN  <<{<<{x \in Places : FrameAt(x) = f}, references[f], f \in free_frame_list>> : f \in used},
        class(free_frame_list \ used), class(Frames \ (used \cup free_frame_list)),
        ws, pf, status, todo, job, corrupted>>
=============================================================================
