------------------------------ MODULE Scheduler ------------------------------
(***************************************************************************)
(* Environment life cycle and round-robin scheduling of FOS: kern/sched.c, *)
(* the environment table of kern/user_environment.c, the panic paths of    *)
(* kern/init.c, the environment system calls of kern/syscall.c and the     *)
(* prompt commands that drive them.                                        *)
(*                                                                         *)
(* FOS runs on one CPU and every gate through which the kernel is entered  *)
(* is an interrupt gate, so a trap, a system call or a prompt command runs *)
(* to completion: each is one action.  Between two actions the CPU is      *)
(* either running curenv in user mode or polling the console in the        *)
(* command prompt; "mode" is that location.                                *)
(*                                                                         *)
(* An environment is its slot in envs[].  free_environment zeroes env_id,  *)
(* so a slot receives the same id each time it is used (module EnvIds):    *)
(* looking an id up in a queue is looking the slot up.                     *)
(*                                                                         *)
(* A queue is a sequence, head first: enqueue is LIST_INSERT_HEAD, dequeue *)
(* takes LIST_LAST.                                                        *)
(***************************************************************************)
EXTENDS ListSequences

CONSTANTS
  Envs,   \* the slots of envs[]
  NULL,   \* the null environment pointer; as a cr3 value, the kernel's own directory
  ENVX    \* ENVX[e]: the slot that ENVX(id of e) selects in envid2env

ASSUME EnvsAssumption == IsFiniteSet(Envs) /\ NULL \notin Envs
ASSUME ENVXAssumption == ENVX \in [Envs -> Envs]

VARIABLES
  env_status,        \* env_status of every slot
  env_free_list,
  env_new_queue,
  env_ready_queue,   \* env_ready_queues[0], the only one under round robin
  env_exit_queue,
  curenv,
  scheduler_status,
  cr3,               \* whose page directory the CPU has loaded
  if_flag,           \* FL_IF in the saved eflags of every slot
  chkstatus,         \* __chkstatus: the scheduler checks itself (chk1, chk2)
  mode               \* "prompt", "user" or "crashed"

vars == <<env_status, env_free_list, env_new_queue, env_ready_queue,
          env_exit_queue, curenv, scheduler_status, cr3, if_flag, chkstatus,
          mode>>

Status == {"FREE", "READY", "RUNNABLE", "NEW", "EXIT", "UNKNOWN"}

-----------------------------------------------------------------------------
(* Queue operations *)

enqueue(queue, e) == <<e>> \o queue

\* The per-environment field f with v stored for every environment in S.
Mark(f, S, v) == [e \in Envs |-> IF e \in S THEN v ELSE f[e]]

-----------------------------------------------------------------------------
(* The scheduler.  Handlers that end by invoking it pass the values they   *)
(* have given curenv, the ready queue, the exit queue and the statuses.    *)

\* Mutant of env_run: cr3 keeps whatever directory is loaded.
env_run_without_lcr3(next, cur, rdy, ext, st) ==
  /\ curenv' = next
  /\ cr3' = cr3
  /\ env_status' = [st EXCEPT ![next] = "RUNNABLE"]
  /\ env_ready_queue' = rdy
  /\ env_exit_queue' = ext
  /\ scheduler_status' = "STARTED"
  /\ mode' = "user"

\* Mutant of env_run: the status is left as it was.
env_run_without_status(next, cur, rdy, ext, st) ==
  /\ curenv' = next
  /\ cr3' = IF next = cur THEN cr3 ELSE next
  /\ env_status' = st
  /\ env_ready_queue' = rdy
  /\ env_exit_queue' = ext
  /\ scheduler_status' = "STARTED"
  /\ mode' = "user"

\* env_run(next): cr3 is reloaded only when next is not already current.
env_run(next, cur, rdy, ext, st) ==
  /\ curenv' = next
  /\ cr3' = IF next = cur THEN cr3 ELSE next
  /\ env_status' = [st EXCEPT ![next] = "RUNNABLE"]
  /\ env_ready_queue' = rdy
  /\ env_exit_queue' = ext
  /\ scheduler_status' = "STARTED"
  /\ mode' = "user"

\* Mutant of EnterPrompt: scheduler_status is not reset.
EnterPrompt_still_started(ext, st) ==
  /\ curenv' = NULL
  /\ cr3' = NULL
  /\ env_status' = st
  /\ env_ready_queue' = <<>>
  /\ env_exit_queue' = ext
  /\ scheduler_status' = "STARTED"
  /\ mode' = "prompt"

\* No environment to run: back to the command prompt on the kernel's directory.
EnterPrompt(ext, st) ==
  /\ curenv' = NULL
  /\ cr3' = NULL
  /\ env_status' = st
  /\ env_ready_queue' = <<>>
  /\ env_exit_queue' = ext
  /\ scheduler_status' = "STOPPED"
  /\ mode' = "prompt"

\* Mutant of PanicAll: the exit queue is started afresh.
PanicAll_drops_exited(next, rdy, ext, st) ==
  EnterPrompt(enqueue(Reverse(rdy), next),
              Mark(st, ToSet(rdy) \cup {next}, "EXIT"))

\* _panic_all out of chk2: every ready environment and the selected one exit.
PanicAll(next, rdy, ext, st) ==
  EnterPrompt(enqueue(Reverse(rdy) \o ext, next),
              Mark(st, ToSet(rdy) \cup {next}, "EXIT"))

\* Mutant of fos_scheduler: the next environment is taken from the head.
fos_scheduler_lifo(cur, rdy, ext, st) ==
  LET q == IF cur = NULL THEN rdy ELSE enqueue(rdy, cur)
  IN  IF q = <<>>
      THEN EnterPrompt(ext, st)
      ELSE \/ env_run(Head(q), cur, Tail(q), ext, st)
           \/ chkstatus /\ PanicAll(Head(q), Tail(q), ext, st)

\* Mutant of fos_scheduler: a running environment keeps the CPU.
fos_scheduler_sticky(cur, rdy, ext, st) ==
  LET q == IF cur = NULL THEN rdy ELSE Append(rdy, cur)
  IN  IF q = <<>>
      THEN EnterPrompt(ext, st)
      ELSE \/ env_run(Last(q), cur, Front(q), ext, st)
           \/ chkstatus /\ PanicAll(Last(q), Front(q), ext, st)

\* fos_scheduler under SCH_RR.  With the self-check on, chk2 compares the
\* hardware counter with the quantum, and the comparison may fail.
fos_scheduler(cur, rdy, ext, st) ==
  LET q == IF cur = NULL THEN rdy ELSE enqueue(rdy, cur)
  IN  IF q = <<>>
      THEN EnterPrompt(ext, st)
      ELSE \/ env_run(Last(q), cur, Front(q), ext, st)
           \/ chkstatus /\ PanicAll(Last(q), Front(q), ext, st)

\* Mutant of env_exit: curenv is not reset before rescheduling.
env_exit_keeps_curenv(st) ==
  fos_scheduler(curenv, env_ready_queue, enqueue(env_exit_queue, curenv),
                [st EXCEPT ![curenv] = "EXIT"])

\* Mutant of env_exit: curenv is not queued.
env_exit_unqueued(st) ==
  fos_scheduler(NULL, env_ready_queue, env_exit_queue, [st EXCEPT ![curenv] = "EXIT"])

\* env_exit: curenv joins the exit queue and another environment is chosen.
env_exit(st) ==
  fos_scheduler(NULL, env_ready_queue, enqueue(env_exit_queue, curenv),
                [st EXCEPT ![curenv] = "EXIT"])

\* Mutant of panic: no test for a running environment.
panic_unchecked(st) == env_exit(st)

\* _panic: exits a running environment, else just reschedules.
panic(st) ==
  IF curenv # NULL /\ st[curenv] = "RUNNABLE"
  THEN env_exit(st)
  ELSE fos_scheduler(curenv, env_ready_queue, env_exit_queue, st)

\* The ready queue becomes rdy; a stopped scheduler is then started.
InvokeIfStopped(rdy, st) ==
  IF scheduler_status = "STOPPED"
  THEN fos_scheduler(curenv, rdy, env_exit_queue, st)
  ELSE /\ env_ready_queue' = rdy
       /\ env_status' = st
       /\ UNCHANGED <<env_exit_queue, curenv, scheduler_status, cr3, mode>>

\* sched_run_env of an environment that has just been taken off the NEW queue.
sched_run_env(e, st) ==
  InvokeIfStopped(enqueue(env_ready_queue, e), [st EXCEPT ![e] = "READY"])

\* start_env_free, then free_environment: the slot is zeroed and FREE.
free_environment(e) ==
  /\ env_free_list' = enqueue(env_free_list, e)
  /\ env_status' = [env_status EXCEPT ![e] = "FREE"]
  /\ if_flag' = [if_flag EXCEPT ![e] = FALSE]
  /\ UNCHANGED <<curenv, scheduler_status, cr3, mode>>

\* Mutant of sched_kill_env: a new environment is exited, not freed.
sched_kill_env_new(e) ==
  /\ e \in ToSet(env_new_queue)
  /\ env_new_queue' = LIST_REMOVE(env_new_queue, e)
  /\ env_exit_queue' = enqueue(env_exit_queue, e)
  /\ env_status' = [env_status EXCEPT ![e] = "EXIT"]
  /\ UNCHANGED <<env_free_list, env_ready_queue, curenv, scheduler_status, cr3, if_flag,
                 chkstatus, mode>>

\* sched_kill_env: the queues are searched in this order.  The assertion on
\* the running environment compares its id with ENV_RUNNABLE and always fails;
\* with no running environment, curenv->env_id is a read through NULL.
sched_kill_env(e) ==
  /\ UNCHANGED chkstatus
  /\ \/ /\ e \in ToSet(env_new_queue)
        /\ env_new_queue' = LIST_REMOVE(env_new_queue, e)
        /\ free_environment(e)
        /\ UNCHANGED <<env_ready_queue, env_exit_queue>>
     \/ /\ e \notin ToSet(env_new_queue)
        /\ e \in ToSet(env_ready_queue)
        /\ env_ready_queue' = LIST_REMOVE(env_ready_queue, e)
        /\ free_environment(e)
        /\ UNCHANGED <<env_new_queue, env_exit_queue>>
     \/ /\ e \notin ToSet(env_new_queue) \cup ToSet(env_ready_queue)
        /\ e \in ToSet(env_exit_queue)
        /\ env_exit_queue' = LIST_REMOVE(env_exit_queue, e)
        /\ free_environment(e)
        /\ UNCHANGED <<env_new_queue, env_ready_queue>>
     \/ /\ e \notin ToSet(env_new_queue) \cup ToSet(env_ready_queue) \cup ToSet(env_exit_queue)
        /\ curenv = e
        /\ panic(env_status)
        /\ UNCHANGED <<env_free_list, env_new_queue, if_flag>>
     \/ /\ e \notin ToSet(env_new_queue) \cup ToSet(env_ready_queue) \cup ToSet(env_exit_queue)
        /\ curenv = NULL
        /\ mode' = "crashed"
        /\ UNCHANGED <<env_status, env_free_list, env_new_queue, env_ready_queue,
                       env_exit_queue, curenv, scheduler_status, cr3, if_flag>>

-----------------------------------------------------------------------------
(* env_create.  It takes the first free slot; the slot leaves the free     *)
(* list when complete_environment_initialization commits it.               *)

\* The slot after the commit: status NEW, interrupts enabled.
Created(e) ==
  /\ env_free_list # <<>>
  /\ e = Head(env_free_list)
  /\ env_free_list' = Tail(env_free_list)
  /\ if_flag' = [if_flag EXCEPT ![e] = TRUE]
  /\ UNCHANGED chkstatus

NewStatus(e) == [env_status EXCEPT ![e] = "NEW"]

\* allocate_frame panics before the commit: the slot stays on the free list.
CreatePanicsEarly ==
  /\ env_free_list # <<>>
  /\ panic([env_status EXCEPT ![Head(env_free_list)] = "UNKNOWN"])
  /\ UNCHANGED <<env_free_list, env_new_queue, if_flag, chkstatus>>

\* A frame or page-file allocation panics after the commit, before
\* sched_new_env: the slot is on no list.
CreatePanicsLate ==
  \E e \in Envs :
    /\ Created(e)
    /\ panic(NewStatus(e))
    /\ UNCHANGED env_new_queue

-----------------------------------------------------------------------------
(* Commands of the kernel prompt *)

command_run_program ==
  /\ mode = "prompt"
  /\ \E e \in Envs :
       /\ Created(e)
       /\ sched_run_env(e, NewStatus(e))
  /\ UNCHANGED env_new_queue

commnad_load_env ==
  /\ mode = "prompt"
  /\ \E e \in Envs :
       /\ Created(e)
       /\ env_status' = NewStatus(e)
       /\ env_new_queue' = enqueue(env_new_queue, e)
  /\ UNCHANGED <<env_ready_queue, env_exit_queue, curenv, scheduler_status, cr3, mode>>

\* A program fails to load from the prompt.
command_load_panics ==
  /\ mode = "prompt"
  /\ CreatePanicsEarly \/ CreatePanicsLate

command_run_all ==
  /\ mode = "prompt"
  /\ env_new_queue' = <<>>
  /\ InvokeIfStopped(Reverse(env_new_queue) \o env_ready_queue,
                     Mark(env_status, ToSet(env_new_queue), "READY"))
  /\ UNCHANGED <<env_free_list, if_flag, chkstatus>>

command_kill_program(e) ==
  /\ mode = "prompt"
  /\ sched_kill_env(e)

\* sched_kill_all frees the NEW, READY and EXIT queues, each head to tail.
command_kill_all ==
  /\ mode = "prompt"
  /\ env_free_list' = Reverse(env_exit_queue) \o (Reverse(env_ready_queue)
                        \o (Reverse(env_new_queue) \o env_free_list))
  /\ env_new_queue' = <<>>
  /\ LET killed == ToSet(env_new_queue) \cup ToSet(env_ready_queue)
                      \cup ToSet(env_exit_queue)
     IN  /\ fos_scheduler(NULL, <<>>, <<>>, Mark(env_status, killed, "FREE"))
         /\ if_flag' = Mark(if_flag, killed, FALSE)
  /\ UNCHANGED chkstatus

\* sched_init_RR re-initialises the ready queue whatever it holds.
command_sch_RR ==
  /\ mode = "prompt"
  /\ scheduler_status' = "STOPPED"
  /\ env_ready_queue' = <<>>
  /\ UNCHANGED <<env_status, env_free_list, env_new_queue, env_exit_queue, curenv,
                 cr3, if_flag, chkstatus, mode>>

command_sch_test(on) ==
  /\ mode = "prompt"
  /\ chkstatus' = on
  /\ UNCHANGED <<env_status, env_free_list, env_new_queue, env_ready_queue,
                 env_exit_queue, curenv, scheduler_status, cr3, if_flag, mode>>

-----------------------------------------------------------------------------
(* Traps and system calls of the running environment *)

clock_interrupt_handler ==
  /\ mode = "user"
  /\ if_flag[curenv]
  /\ fos_scheduler(curenv, env_ready_queue, env_exit_queue, env_status)
  /\ UNCHANGED <<env_free_list, env_new_queue, if_flag, chkstatus>>

sys_interrupt(on) ==
  /\ mode = "user"
  /\ if_flag' = [if_flag EXCEPT ![curenv] = on]
  /\ UNCHANGED <<env_status, env_free_list, env_new_queue, env_ready_queue,
                 env_exit_queue, curenv, scheduler_status, cr3, chkstatus, mode>>

sys_create_env ==
  /\ mode = "user"
  /\ \E e \in Envs :
       /\ Created(e)
       /\ env_status' = NewStatus(e)
       /\ env_new_queue' = enqueue(env_new_queue, e)
  /\ UNCHANGED <<env_ready_queue, env_exit_queue, curenv, scheduler_status, cr3, mode>>

sys_create_env_panics ==
  /\ mode = "user"
  /\ CreatePanicsEarly \/ CreatePanicsLate

sys_run_env(e) ==
  /\ mode = "user"
  /\ e \in ToSet(env_new_queue)
  /\ env_new_queue' = LIST_REMOVE(env_new_queue, e)
  /\ sched_run_env(e, env_status)
  /\ UNCHANGED <<env_free_list, if_flag, chkstatus>>

sys_free_env(e) ==
  /\ mode = "user"
  /\ sched_kill_env(e)

\* envid2env maps id 0 to curenv, rejects a free slot and an id whose ENVX
\* selects another slot.
sys_env_destroy(e) ==
  /\ mode = "user"
  /\ e = curenv \/ (ENVX[e] = e /\ e \notin ToSet(env_free_list))
  /\ sched_kill_env(e)

sys_env_exit ==
  /\ mode = "user"
  /\ env_exit(env_status)
  /\ UNCHANGED <<env_free_list, env_new_queue, if_flag, chkstatus>>

\* A fault handler or a kernel assertion panics on behalf of curenv.
trap_panics ==
  /\ mode = "user"
  /\ panic(env_status)
  /\ UNCHANGED <<env_free_list, env_new_queue, if_flag, chkstatus>>

-----------------------------------------------------------------------------
(* env_init puts every slot on the free list; the order is arbitrary here. *)

Init ==
  /\ env_status = [e \in Envs |-> "FREE"]
  /\ env_free_list \in {s \in [1..Cardinality(Envs) -> Envs] : NoDup(s)}
  /\ env_new_queue = <<>>
  /\ env_ready_queue = <<>>
  /\ env_exit_queue = <<>>
  /\ curenv = NULL
  /\ scheduler_status = "STOPPED"
  /\ cr3 = NULL
  /\ if_flag = [e \in Envs |-> FALSE]
  /\ chkstatus = FALSE
  /\ mode = "prompt"

\* The machine stays down once the kernel has crashed.
Crashed == mode = "crashed" /\ UNCHANGED vars

Next ==
  \/ command_run_program
  \/ commnad_load_env
  \/ command_load_panics
  \/ command_run_all
  \/ \E e \in Envs : command_kill_program(e)
  \/ command_kill_all
  \/ command_sch_RR
  \/ \E on \in BOOLEAN : command_sch_test(on)
  \/ clock_interrupt_handler
  \/ \E on \in BOOLEAN : sys_interrupt(on)
  \/ sys_create_env
  \/ sys_create_env_panics
  \/ \E e \in Envs : sys_run_env(e)
  \/ \E e \in Envs : sys_free_env(e)
  \/ \E e \in Envs : sys_env_destroy(e)
  \/ sys_env_exit
  \/ trap_panics
  \/ Crashed

Spec == Init /\ [][Next]_vars

\* The timer is not stopped while user code runs, and a tick that meets a clear
\* FL_IF stays pending in the interrupt controller until the flag is set again:
\* the clock interrupt is strongly fair.  Programs bracket short sections with
\* sys_disable_interrupt and sys_enable_interrupt (lib/libmain.c does): a
\* program that has cleared the flag sets it again unless it stops running.
FairSpec ==
  /\ Spec
  /\ SF_vars(clock_interrupt_handler)
  /\ WF_vars(sys_interrupt(TRUE))

-----------------------------------------------------------------------------
(* Properties *)

TypeOK ==
  /\ env_status \in [Envs -> Status]
  /\ env_free_list \in Seq(Envs)
  /\ env_new_queue \in Seq(Envs)
  /\ env_ready_queue \in Seq(Envs)
  /\ env_exit_queue \in Seq(Envs)
  /\ curenv \in Envs \cup {NULL}
  /\ scheduler_status \in {"STOPPED", "STARTED"}
  /\ cr3 \in Envs \cup {NULL}
  /\ if_flag \in [Envs -> BOOLEAN]
  /\ chkstatus \in BOOLEAN
  /\ mode \in {"prompt", "user", "crashed"}

\* The slots that some list, or curenv, refers to.
Placed == ToSet(env_free_list) \cup ToSet(env_new_queue) \cup ToSet(env_ready_queue)
            \cup ToSet(env_exit_queue) \cup ({curenv} \ {NULL})

Disjoint(S, T) == S \cap T = {}

\* struct Env has one pair of list links, prev_next_info, shared by the free
\* list and all queues: LIST_INSERT_HEAD of an environment that is already
\* linked somewhere corrupts both lists.  No sequence of commands, system
\* calls, clock interrupts and panics links an environment twice, nor queues
\* the running one.
EachEnvOnce ==
  /\ NoDup(env_free_list) /\ NoDup(env_new_queue)
  /\ NoDup(env_ready_queue) /\ NoDup(env_exit_queue)
  /\ Disjoint(ToSet(env_free_list), ToSet(env_new_queue))
  /\ Disjoint(ToSet(env_free_list), ToSet(env_ready_queue))
  /\ Disjoint(ToSet(env_free_list), ToSet(env_exit_queue))
  /\ Disjoint(ToSet(env_new_queue), ToSet(env_ready_queue))
  /\ Disjoint(ToSet(env_new_queue), ToSet(env_exit_queue))
  /\ Disjoint(ToSet(env_ready_queue), ToSet(env_exit_queue))
  /\ curenv \notin ToSet(env_free_list) \cup ToSet(env_new_queue)
                      \cup ToSet(env_ready_queue) \cup ToSet(env_exit_queue)

\* env_status, which _panic, trap and the user-visible tables consult, agrees
\* with where the environment is linked.  In the ready queue both READY (never
\* run) and RUNNABLE (preempted: fos_scheduler does not reset it) occur.
StatusMatchesPlace ==
  /\ \A e \in ToSet(env_free_list)   : env_status[e] \in {"FREE", "UNKNOWN"}
  /\ \A e \in ToSet(env_new_queue)   : env_status[e] = "NEW"
  /\ \A e \in ToSet(env_ready_queue) : env_status[e] \in {"READY", "RUNNABLE"}
  /\ \A e \in ToSet(env_exit_queue)  : env_status[e] = "EXIT"
  /\ curenv # NULL => env_status[curenv] = "RUNNABLE"

\* The prompt is reached only when nothing is left to run: sched_init_RR may
\* then re-initialise the ready queue, and sched_run_env may start the
\* scheduler, without dropping an environment.
PromptIsIdle ==
  IF mode = "user"
  THEN curenv # NULL /\ scheduler_status = "STARTED"
  ELSE curenv = NULL /\ scheduler_status = "STOPPED" /\ env_ready_queue = <<>>

\* The CPU runs an environment on that environment's page directory, and never
\* keeps the directory of a freed environment loaded (env_run reloads cr3 only
\* when the environment changes, and env_free returns the directory's frame).
AddressSpaceLive ==
  /\ mode = "user" => cr3 = curenv
  /\ cr3 \notin ToSet(env_free_list)
  /\ mode = "prompt" => cr3 = NULL

\* An environment that has exited is never scheduled again: it stays in the
\* exit queue until it is killed.
ExitIsFinal ==
  \A e \in ToSet(env_exit_queue) :
    e \in ToSet(env_exit_queue') \cup ToSet(env_free_list')

\* What chk2 asserts of fos_scheduler: the environment switched to is the one
\* that has waited longest, and the one switched away from, if it has not
\* exited, queues behind all others.
RoundRobinOrder ==
  [][(curenv # NULL /\ curenv' \notin {curenv, NULL}) =>
       /\ env_ready_queue # <<>>
       /\ curenv' = Last(env_ready_queue)
       /\ env_ready_queue' = IF env_status'[curenv] = "EXIT"
                             THEN Front(env_ready_queue)
                             ELSE enqueue(Front(env_ready_queue), curenv)]_vars

\* A slot drops off every list only when env_create panics between taking it
\* off the free list and queueing it: no other path loses an environment.
NoSilentLoss ==
  \A e \in Placed \ Placed' :
    env_free_list # <<>> /\ e = Head(env_free_list) /\ env_status'[e] = "NEW"

\* Round robin starves nobody: a ready environment runs, unless it is killed or
\* everything is made to exit first.
ReadyEventuallyRuns ==
  \A e \in Envs : e \in ToSet(env_ready_queue) ~>
                    (curenv = e \/ env_status[e] \in {"FREE", "EXIT"})

\* sys_env_destroy of another environment, whatever queue it is in, leaves its
\* slot free; an environment that destroys itself is not freed but, by the
\* failing assertion of sched_kill_env, exited.
DestroyFreesOthers ==
  \A e \in Envs : sys_env_destroy(e) =>
    IF e = curenv THEN e \in ToSet(env_exit_queue') ELSE e \in ToSet(env_free_list')

\* No step takes an environment out of its life cycle: the exited do not come
\* back, none is lost but in env_create, and the destroyed are freed.
LifeCycle == [][ExitIsFinal /\ NoSilentLoss /\ DestroyFreesOthers]_vars

=============================================================================
