------------------------------- MODULE EnvIds -------------------------------
(***************************************************************************)
(* Environment identifiers: how complete_environment_initialization makes  *)
(* one, what free_environment does to it and how envid2env looks it up     *)
(* (kern/user_environment.c, kern/helpers.c).                              *)
(*                                                                         *)
(* env_free_list holds the slots that were killed, in an order that depends *)
(* on how they were killed (any of them can be its first), and behind them *)
(* the slots that were never used, in the order of envs[].                 *)
(***************************************************************************)
EXTENDS Naturals, Bitwise

CONSTANTS
  NENV,        \* slots of envs[]: (PTSIZE/4) / sizeof(struct Env), which is 12
  ENVGENSHIFT, \* 12
  NoSlot

ASSUME IdConstants == NENV \in Nat \ {0} /\ ENVGENSHIFT \in Nat /\ NoSlot \notin 0..(NENV - 1)

Slots == 0..(NENV - 1)

VARIABLES
  env_id,   \* of every slot
  used,     \* slots whose env_status is not ENV_FREE
  fresh,    \* the first slot that was never used
  handle    \* an id that somebody remembers, and whether its environment is alive

idvars == <<env_id, used, fresh, handle>>

ENVX(id) == id & (NENV - 1)

\* The bits of x outside NENV - 1.
Uniqueifier(x) == x - (x & (NENV - 1))

\* Mutant of NewId: the index part is that which ENVX would find.
NewId_masked(e) == Uniqueifier(env_id[e] + 2^ENVGENSHIFT) | ENVX(e)

NewId(e) == Uniqueifier(env_id[e] + 2^ENVGENSHIFT) | e

\* Mutant of envid2env: the id found in the slot is not compared.
envid2env_unchecked(id) == LET e == ENVX(id) IN IF e \notin used THEN NoSlot ELSE e

\* The slot that a positive id denotes, NoSlot for E_BAD_ENV.
envid2env(id) ==
  LET e == ENVX(id) IN IF e \notin used \/ env_id[e] # id THEN NoSlot ELSE e

\* LIST_FIRST of env_free_list.
allocate_environment(e) ==
  /\ e \notin used
  /\ e < fresh \/ (e = fresh /\ used = 0..(fresh - 1))

complete_environment_initialization(e) ==
  /\ allocate_environment(e)
  /\ fresh' = IF e = fresh THEN fresh + 1 ELSE fresh
  /\ used' = used \cup {e}
  /\ env_id' = [env_id EXCEPT ![e] = NewId(e)]
  /\ UNCHANGED handle

\* The struct is zeroed and goes to the free list.
free_environment(e) ==
  /\ e \in used
  /\ used' = used \ {e}
  /\ env_id' = [env_id EXCEPT ![e] = 0]
  /\ handle' = IF handle # NoSlot /\ handle.env = e THEN [handle EXCEPT !.alive = FALSE] ELSE handle
  /\ UNCHANGED fresh

\* A parent, or the user at the prompt, takes a note of an environment's id.
Remember(e) ==
  /\ e \in used
  /\ handle' = [id |-> env_id[e], env |-> e, alive |-> TRUE]
  /\ UNCHANGED <<env_id, used, fresh>>

IdsInit ==
  /\ env_id = [e \in Slots |-> 0]
  /\ used = {}
  /\ fresh = 0
  /\ handle = NoSlot

IdsNext == \E e \in Slots : \/ complete_environment_initialization(e)
                         \/ free_environment(e)
                         \/ Remember(e)

IdsSpec == IdsInit /\ [][IdsNext]_idvars

-----------------------------------------------------------------------------
(* Properties *)

\* Two environments that exist at the same time have different ids, greater
\* than 0: sched_kill_env and sched_run_env, which search the queues for an id,
\* find the right one.
IdsDistinct ==
  /\ \A e \in used : env_id[e] > 0
  /\ \A d, e \in used : env_id[d] = env_id[e] => d = e

\* What envid2env answers for an id is the slot that the id was made for, or
\* nothing: the id of an environment never finds another slot, although the mask
\* of ENVX folds some slots into others, and finds its own where it does not.
LookupSound ==
  \A e \in used : LET found == envid2env(env_id[e])
                  IN  found = e \/ (found = NoSlot /\ ENVX(e) # e)

\* An id that somebody remembers finds no slot but the one it was made for, and
\* nothing while that slot is free.
HandleSound ==
  handle # NoSlot =>
    LET found == envid2env(handle.id)
    IN  found = NoSlot \/ (found = handle.env /\ handle.env \in used)

\* An id, of a living environment or of one that is gone, never leads to another
\* slot than its own.
IdsNameSlots == LookupSound /\ HandleSound

\* inc/environment_definitions.h: "The uniqueifier distinguishes environments that
\* were created at different times, but share the same environment index".  The id
\* of an environment that is gone finds nothing.
StaleIdsRefused == handle # NoSlot /\ ~handle.alive => envid2env(handle.id) = NoSlot

=============================================================================
