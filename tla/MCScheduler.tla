---------------------------- MODULE MCScheduler ----------------------------
(* Scheduler on a few slots.  NENV is 12, which is not a power of two, so      *)
(* ENVX(id) masks bit 2 of the index away: slots 4..7 select slots 0..3.       *)
(* Slot e2 stands for one of those, and e1 for the slot that it selects.       *)
EXTENDS Scheduler

CONSTANTS e1, e2

MC_ENVX == [e \in Envs |-> IF e = e2 THEN e1 ELSE e]
=============================================================================
