--------------------------- MODULE SchedulerProofs ---------------------------
(***************************************************************************)
(* Proofs about Scheduler, for every finite set of environment slots.      *)
(*                                                                         *)
(* The invariant is split along the interface of fos_scheduler.  Live is   *)
(* what the scheduler may touch (curenv, the ready and the exit queue with *)
(* their statuses); Resting is the rest (the free list and the NEW queue). *)
(* One lemma says what an invocation of the scheduler does to Live, and    *)
(* the handlers that end in it only have to establish its precondition.    *)
(***************************************************************************)
EXTENDS Scheduler, ListProofs

\* A well-formed list of environments.
Queue(q) == IsList(q, Envs)

\* The environments that the scheduler holds.
Held(cur, rdy, ext) == ToSet(rdy) \cup ToSet(ext) \cup ({cur} \ {NULL})

\* The scheduler's part of the invariant.
Live(cur, rdy, ext, st) ==
  /\ Queue(rdy) /\ Queue(ext)
  /\ cur \in Envs \cup {NULL}
  /\ st \in [Envs -> Status]
  /\ ToSet(rdy) \cap ToSet(ext) = {}
  /\ cur \notin ToSet(rdy) \cup ToSet(ext)
  /\ \A e \in ToSet(rdy) : st[e] \in {"READY", "RUNNABLE"}
  /\ \A e \in ToSet(ext) : st[e] = "EXIT"
  /\ cur # NULL => st[cur] = "RUNNABLE"

\* The part that the scheduler does not touch; held is what it does.
Resting(free, new, held, st) ==
  /\ Queue(free) /\ Queue(new)
  /\ ToSet(free) \cap ToSet(new) = {}
  /\ (ToSet(free) \cup ToSet(new)) \cap held = {}
  /\ \A e \in ToSet(free) : st[e] \in {"FREE", "UNKNOWN"}
  /\ \A e \in ToSet(new) : st[e] = "NEW"

\* Whose page directory is loaded follows the mode.
Loaded == cr3 = IF mode = "user" THEN curenv ELSE NULL

IInv ==
  /\ Live(curenv, env_ready_queue, env_exit_queue, env_status)
  /\ Resting(env_free_list, env_new_queue,
             Held(curenv, env_ready_queue, env_exit_queue), env_status)
  /\ if_flag \in [Envs -> BOOLEAN]
  /\ chkstatus \in BOOLEAN
  /\ mode \in {"prompt", "user", "crashed"}
  /\ PromptIsIdle
  /\ Loaded

-----------------------------------------------------------------------------
(* Lists of environments: the lemmas of ListProofs for Envs *)

\* The links of a list hold environments: a member of the list is a slot.
LEMMA MemberIsEnv ==
  ASSUME NEW q, Queue(q)
  PROVE  ToSet(q) \subseteq Envs
BY ListMembers DEF Queue

\* LIST_INIT yields a well-formed list that holds nothing.
LEMMA EmptyQueue == Queue(<<>>) /\ ToSet(<<>>) = {}
BY ListEmpty DEF Queue

\* LIST_INSERT_HEAD of an environment that is not on the list.
LEMMA EnqueueQueue ==
  ASSUME NEW q, Queue(q), NEW e \in Envs, e \notin ToSet(q)
  PROVE  Queue(enqueue(q, e)) /\ ToSet(enqueue(q, e)) = ToSet(q) \cup {e}
BY ListInsertHead DEF Queue, enqueue

\* dequeue: LIST_LAST leaves the list.
LEMMA DequeueQueue ==
  ASSUME NEW q, Queue(q), q # <<>>
  PROVE  /\ Queue(Front(q))
         /\ Last(q) \in ToSet(q)
         /\ ToSet(Front(q)) = ToSet(q) \ {Last(q)}
BY ListFront DEF Queue

\* LIST_FIRST leaves the list, as in complete_environment_initialization.
LEMMA HeadQueue ==
  ASSUME NEW q, Queue(q), q # <<>>
  PROVE  /\ Queue(Tail(q))
         /\ Head(q) \in ToSet(q)
         /\ ToSet(Tail(q)) = ToSet(q) \ {Head(q)}
BY ListTail DEF Queue

\* LIST_REMOVE takes exactly the given environment off the list.
LEMMA RemoveQueue ==
  ASSUME NEW q, Queue(q), NEW e
  PROVE  /\ Queue(LIST_REMOVE(q, e))
         /\ ToSet(LIST_REMOVE(q, e)) = ToSet(q) \ {e}
BY ListRemove DEF Queue

\* Moving a list head first onto another one reverses it.
LEMMA ReverseQueue ==
  ASSUME NEW q, Queue(q)
  PROVE  Queue(Reverse(q)) /\ ToSet(Reverse(q)) = ToSet(q)
BY ListReverse DEF Queue

\* Joining two lists that share no environment.
LEMMA ConcatQueue ==
  ASSUME NEW p, NEW q, Queue(p), Queue(q), ToSet(p) \cap ToSet(q) = {}
  PROVE  Queue(p \o q) /\ ToSet(p \o q) = ToSet(p) \cup ToSet(q)
BY ListConcat DEF Queue

-----------------------------------------------------------------------------
(* The scheduler *)

\* What an invocation of the scheduler leaves: the same environments, in the
\* places their statuses say, and nobody taken out of the exit queue.
Scheduled(cur, rdy, ext, st) ==
  /\ Live(curenv', env_ready_queue', env_exit_queue', env_status')
  /\ Held(curenv', env_ready_queue', env_exit_queue') = Held(cur, rdy, ext)
  /\ \A e \in Envs \ Held(cur, rdy, ext) : env_status'[e] = st[e]
  /\ ToSet(ext) \subseteq ToSet(env_exit_queue')
  /\ mode' \in {"prompt", "user"}
  /\ PromptIsIdle'
  /\ Loaded'

\* Storing one status for a set of environments.
LEMMA MarkType ==
  ASSUME NEW st \in [Envs -> Status], NEW S, NEW v \in Status
  PROVE  /\ Mark(st, S, v) \in [Envs -> Status]
         /\ \A e \in Envs : e \in S => Mark(st, S, v)[e] = v
         /\ \A e \in Envs : e \notin S => Mark(st, S, v)[e] = st[e]
BY DEF Mark

\* _panic_all moves everything the scheduler holds to the exit queue.
LEMMA PanicAllStep ==
  ASSUME NEW next \in Envs, NEW rdy, NEW ext, NEW st,
         Live(NULL, rdy, ext, st),
         next \notin ToSet(rdy) \cup ToSet(ext),
         PanicAll(next, rdy, ext, st)
  PROVE  Scheduled(next, rdy, ext, st)
<1> DEFINE x  == enqueue(Reverse(rdy) \o ext, next)
           S  == ToSet(rdy) \cup {next}
           st2 == Mark(st, S, "EXIT")
<1>1. Queue(rdy) /\ Queue(ext) /\ ToSet(rdy) \cap ToSet(ext) = {}
      /\ st \in [Envs -> Status] /\ \A e \in ToSet(ext) : st[e] = "EXIT"
  BY DEF Live
<1>2. Queue(Reverse(rdy)) /\ ToSet(Reverse(rdy)) = ToSet(rdy)
  BY <1>1, ReverseQueue
<1>3. Queue(Reverse(rdy) \o ext) /\ ToSet(Reverse(rdy) \o ext) = ToSet(rdy) \cup ToSet(ext)
  BY <1>1, <1>2, ConcatQueue
<1>4. Queue(x) /\ ToSet(x) = ToSet(rdy) \cup ToSet(ext) \cup {next}
  BY <1>3, EnqueueQueue
<1>5. /\ st2 \in [Envs -> Status]
      /\ \A e \in Envs : e \in S => st2[e] = "EXIT"
      /\ \A e \in Envs : e \notin S => st2[e] = st[e]
  BY <1>1, MarkType DEF Status
<1>6. /\ curenv' = NULL /\ cr3' = NULL /\ env_status' = st2 /\ env_ready_queue' = <<>>
      /\ env_exit_queue' = x /\ scheduler_status' = "STOPPED" /\ mode' = "prompt"
  BY DEF PanicAll, EnterPrompt
<1> HIDE DEF x, st2
<1>7. ToSet(x) \subseteq Envs /\ ToSet(ext) \subseteq Envs
  BY <1>1, <1>4, MemberIsEnv
<1>8. \A e \in ToSet(x) : st2[e] = "EXIT"
  BY <1>1, <1>4, <1>5, <1>7
<1>9. NULL \notin Envs
  BY EnvsAssumption
<1>10. Live(curenv', env_ready_queue', env_exit_queue', env_status')
  BY <1>4, <1>5, <1>6, <1>7, <1>8, <1>9, EmptyQueue DEF Live
<1>11. Held(curenv', env_ready_queue', env_exit_queue') = Held(next, rdy, ext)
  BY <1>4, <1>6, <1>9, EmptyQueue DEF Held
<1>12. \A e \in Envs \ Held(next, rdy, ext) : env_status'[e] = st[e]
  BY <1>5, <1>6, <1>9 DEF Held
<1> QED BY <1>4, <1>6, <1>10, <1>11, <1>12 DEF Scheduled, PromptIsIdle, Loaded

\* env_run hands the CPU to an environment that no list holds.
LEMMA RunStep ==
  ASSUME NEW next \in Envs, NEW cur, NEW rdy, NEW ext, NEW st,
         Live(NULL, rdy, ext, st),
         next \notin ToSet(rdy) \cup ToSet(ext),
         cur # NULL => cr3 = cur,
         env_run(next, cur, rdy, ext, st)
  PROVE  Scheduled(next, rdy, ext, st)
<1>1. NULL \notin Envs
  BY EnvsAssumption
<1>2. /\ curenv' = next /\ env_ready_queue' = rdy /\ env_exit_queue' = ext
      /\ env_status' = [st EXCEPT ![next] = "RUNNABLE"]
      /\ scheduler_status' = "STARTED" /\ mode' = "user"
  BY DEF env_run
<1>3. cr3' = next
  BY <1>1 DEF env_run
<1>4. ToSet(rdy) \subseteq Envs /\ ToSet(ext) \subseteq Envs /\ st \in [Envs -> Status]
  BY MemberIsEnv DEF Live
<1>5. /\ env_status' \in [Envs -> Status] /\ env_status'[next] = "RUNNABLE"
      /\ \A e \in Envs \ {next} : env_status'[e] = st[e]
  BY <1>2, <1>4 DEF Status
<1>6. Live(curenv', env_ready_queue', env_exit_queue', env_status')
  BY <1>2, <1>4, <1>5 DEF Live
<1>7. \A e \in Envs \ Held(next, rdy, ext) : env_status'[e] = st[e]
  BY <1>1, <1>5 DEF Held
<1> QED BY <1>1, <1>2, <1>3, <1>6, <1>7 DEF Scheduled, PromptIsIdle, Loaded

\* fos_scheduler preserves the scheduler's part of the invariant and the set of
\* environments it holds, whatever the caller did to curenv and the queues.
LEMMA SchedulerStep ==
  ASSUME NEW cur, NEW rdy, NEW ext, NEW st,
         Live(cur, rdy, ext, st),
         cur # NULL => cr3 = cur,
         fos_scheduler(cur, rdy, ext, st)
  PROVE  Scheduled(cur, rdy, ext, st)
<1> DEFINE q == IF cur = NULL THEN rdy ELSE enqueue(rdy, cur)
<1>0. NULL \notin Envs
  BY EnvsAssumption
<1>1. /\ Queue(rdy) /\ Queue(ext) /\ ToSet(rdy) \cap ToSet(ext) = {}
      /\ st \in [Envs -> Status] /\ cur \in Envs \cup {NULL}
      /\ cur \notin ToSet(rdy) \cup ToSet(ext)
      /\ \A e \in ToSet(rdy) : st[e] \in {"READY", "RUNNABLE"}
      /\ \A e \in ToSet(ext) : st[e] = "EXIT"
      /\ cur # NULL => st[cur] = "RUNNABLE"
  BY DEF Live
<1>2. Queue(q) /\ ToSet(q) = ToSet(rdy) \cup ({cur} \ {NULL})
  BY <1>1, EnqueueQueue
<1>3. /\ q = <<>> => EnterPrompt(ext, st)
      /\ q # <<>> => \/ env_run(Last(q), cur, Front(q), ext, st)
                     \/ PanicAll(Last(q), Front(q), ext, st)
  BY DEF fos_scheduler
<1> HIDE DEF q
<1>4. ToSet(q) \cap ToSet(ext) = {} /\ \A e \in ToSet(q) : st[e] \in {"READY", "RUNNABLE"}
  BY <1>1, <1>2
<1>5. CASE q = <<>>
  <2>1. ToSet(q) = {} /\ cur = NULL
    BY <1>2, <1>5, EmptyQueue
  <2>2. /\ curenv' = NULL /\ cr3' = NULL /\ env_status' = st /\ env_ready_queue' = <<>>
        /\ env_exit_queue' = ext /\ scheduler_status' = "STOPPED" /\ mode' = "prompt"
    BY <1>3, <1>5 DEF EnterPrompt
  <2>3. ToSet(rdy) = {}
    BY <2>1, <1>2
  <2>4. Live(curenv', env_ready_queue', env_exit_queue', env_status')
    BY <1>1, <2>1, <2>2, EmptyQueue DEF Live
  <2>5. Held(curenv', env_ready_queue', env_exit_queue') = Held(cur, rdy, ext)
    BY <2>1, <2>2, <2>3, EmptyQueue DEF Held
  <2> QED BY <2>2, <2>4, <2>5 DEF Scheduled, PromptIsIdle, Loaded
<1>6. CASE q # <<>>
  <2> DEFINE next == Last(q)
             f == Front(q)
  <2>1. Queue(f) /\ next \in ToSet(q) /\ ToSet(f) = ToSet(q) \ {next}
    BY <1>2, <1>6, DequeueQueue
  <2>2. next \in Envs
    BY <2>1, <1>2, MemberIsEnv
  <2>3. \/ env_run(next, cur, f, ext, st)
        \/ PanicAll(next, f, ext, st)
    BY <1>3, <1>6
  <2> HIDE DEF next, f
  <2>4. next \notin ToSet(f) \cup ToSet(ext) /\ ToSet(f) \cap ToSet(ext) = {}
    BY <2>1, <1>4
  <2>5. ToSet(f) \subseteq Envs /\ ToSet(ext) \subseteq Envs
    BY <2>1, <1>1, MemberIsEnv
  <2>6. Live(NULL, f, ext, st)
    BY <1>0, <1>1, <1>4, <2>1, <2>4, <2>5 DEF Live
  <2>7. Scheduled(next, f, ext, st)
    BY <2>2, <2>3, <2>4, <2>6, PanicAllStep, RunStep
  <2>8. Held(next, f, ext) = Held(cur, rdy, ext)
    BY <1>0, <1>2, <2>1, <2>2 DEF Held
  <2> QED BY <2>7, <2>8 DEF Scheduled
<1> QED BY <1>5, <1>6

-----------------------------------------------------------------------------
(* The invariant, handler by handler *)

\* Facts about a state of IInv that every handler uses.
LEMMA IInvFacts ==
  ASSUME IInv
  PROVE  /\ NULL \notin Envs
         /\ Queue(env_free_list) /\ Queue(env_new_queue)
         /\ Queue(env_ready_queue) /\ Queue(env_exit_queue)
         /\ ToSet(env_free_list) \subseteq Envs /\ ToSet(env_new_queue) \subseteq Envs
         /\ ToSet(env_ready_queue) \subseteq Envs /\ ToSet(env_exit_queue) \subseteq Envs
         /\ curenv \in Envs \cup {NULL}
         /\ env_status \in [Envs -> Status]
         /\ curenv # NULL => cr3 = curenv
         /\ Held(curenv, env_ready_queue, env_exit_queue) \subseteq Envs
BY EnvsAssumption, MemberIsEnv DEF IInv, Live, Resting, Loaded, PromptIsIdle, Held

\* Live only looks at the statuses of the environments the scheduler holds.
LEMMA LiveUpdate ==
  ASSUME NEW cur, NEW rdy, NEW ext, NEW st, NEW st2 \in [Envs -> Status],
         Live(cur, rdy, ext, st),
         \A e \in Held(cur, rdy, ext) : st2[e] = st[e]
  PROVE  Live(cur, rdy, ext, st2)
BY DEF Live, Held

\* IInv is restored after the scheduler ran, if the handler kept Resting.
LEMMA Restore ==
  ASSUME NEW cur, NEW rdy, NEW ext, NEW st,
         Scheduled(cur, rdy, ext, st),
         Resting(env_free_list', env_new_queue', Held(cur, rdy, ext), st),
         if_flag' \in [Envs -> BOOLEAN],
         chkstatus' \in BOOLEAN
  PROVE  IInv'
<1>1. ToSet(env_free_list') \subseteq Envs /\ ToSet(env_new_queue') \subseteq Envs
  BY MemberIsEnv DEF Resting
<1>2. \A e \in ToSet(env_free_list') \cup ToSet(env_new_queue') : env_status'[e] = st[e]
  BY <1>1 DEF Scheduled, Resting
<1>3. Resting(env_free_list', env_new_queue',
              Held(curenv', env_ready_queue', env_exit_queue'), env_status')
  BY <1>2 DEF Scheduled, Resting
<1> QED BY <1>3 DEF IInv, Scheduled

\* What every handler keeps of the life cycle, next to the invariant.
Kept == ExitIsFinal /\ NoSilentLoss

\* A slot is placed when a resting list or the scheduler holds it.
LEMMA PlacedIsHeld ==
  /\ Placed = ToSet(env_free_list) \cup ToSet(env_new_queue)
                \cup Held(curenv, env_ready_queue, env_exit_queue)
  /\ Placed' = ToSet(env_free_list') \cup ToSet(env_new_queue')
                 \cup Held(curenv', env_ready_queue', env_exit_queue')
BY DEF Placed, Held

\* A step that lets nothing go and takes nobody out of the exit queue but to
\* the free list.
LEMMA KeptByPlaces ==
  ASSUME Placed \subseteq Placed',
         ToSet(env_exit_queue) \subseteq ToSet(env_exit_queue') \cup ToSet(env_free_list')
  PROVE  Kept
BY DEF Kept, ExitIsFinal, NoSilentLoss

\* The same for a handler that ends in the scheduler: it is enough that it
\* passes on, or has put on a resting list, whatever was placed.
LEMMA KeptBySchedule ==
  ASSUME NEW cur, NEW rdy, NEW ext, NEW st,
         Scheduled(cur, rdy, ext, st),
         ToSet(env_exit_queue) \subseteq ToSet(ext),
         ToSet(env_free_list) \cup ToSet(env_new_queue)
             \cup Held(curenv, env_ready_queue, env_exit_queue)
           \subseteq ToSet(env_free_list') \cup ToSet(env_new_queue') \cup Held(cur, rdy, ext)
  PROVE  Kept
<1>1. Held(curenv', env_ready_queue', env_exit_queue') = Held(cur, rdy, ext)
      /\ ToSet(ext) \subseteq ToSet(env_exit_queue')
  BY DEF Scheduled
<1>2. Placed \subseteq Placed'
  BY <1>1, PlacedIsHeld
<1> QED BY <1>1, <1>2, KeptByPlaces

\* env_exit: curenv moves to the exit queue before the scheduler runs.
LEMMA ExitStep ==
  ASSUME IInv, curenv # NULL,
         NEW st, Live(curenv, env_ready_queue, env_exit_queue, st),
         env_exit(st)
  PROVE  Scheduled(curenv, env_ready_queue, env_exit_queue, st)
<1> DEFINE x == enqueue(env_exit_queue, curenv)
           st2 == [st EXCEPT ![curenv] = "EXIT"]
<1>1. curenv \in Envs /\ NULL \notin Envs
  BY IInvFacts
<1>2. Queue(x) /\ ToSet(x) = ToSet(env_exit_queue) \cup {curenv}
  BY <1>1, EnqueueQueue DEF Live
<1>3. /\ st2 \in [Envs -> Status] /\ st2[curenv] = "EXIT"
      /\ \A e \in Envs \ {curenv} : st2[e] = st[e]
  BY <1>1 DEF Live, Status
<1>4. fos_scheduler(NULL, env_ready_queue, x, st2)
  BY DEF env_exit
<1> HIDE DEF x, st2
<1>5. ToSet(env_ready_queue) \subseteq Envs /\ ToSet(env_exit_queue) \subseteq Envs
  BY IInvFacts
<1>6. Live(NULL, env_ready_queue, x, st2)
  BY <1>1, <1>2, <1>3, <1>5 DEF Live
<1>7. Scheduled(NULL, env_ready_queue, x, st2)
  BY <1>4, <1>6, SchedulerStep
<1>8. Held(NULL, env_ready_queue, x) = Held(curenv, env_ready_queue, env_exit_queue)
  BY <1>1, <1>2 DEF Held
<1>9. curenv \in Held(curenv, env_ready_queue, env_exit_queue)
  BY <1>1 DEF Held
<1>10. \A e \in Envs \ Held(curenv, env_ready_queue, env_exit_queue) : env_status'[e] = st[e]
  BY <1>3, <1>7, <1>8, <1>9 DEF Scheduled
<1> QED BY <1>2, <1>7, <1>8, <1>10 DEF Scheduled

\* _panic, whether or not an environment is running.
LEMMA PanicStep ==
  ASSUME IInv,
         NEW st, Live(curenv, env_ready_queue, env_exit_queue, st),
         panic(st)
  PROVE  Scheduled(curenv, env_ready_queue, env_exit_queue, st)
<1>1. CASE curenv # NULL /\ st[curenv] = "RUNNABLE"
  BY <1>1, ExitStep DEF panic
<1>2. CASE ~(curenv # NULL /\ st[curenv] = "RUNNABLE")
  <2>1. fos_scheduler(curenv, env_ready_queue, env_exit_queue, st)
    BY <1>2 DEF panic
  <2> QED BY <2>1, SchedulerStep, IInvFacts
<1> QED BY <1>1, <1>2

\* A handler that makes environments ready, at the prompt or in a system call.
LEMMA InvokeStep ==
  ASSUME IInv, mode # "crashed",
         NEW rdy, NEW st, Live(curenv, rdy, env_exit_queue, st),
         InvokeIfStopped(rdy, st)
  PROVE  Scheduled(curenv, rdy, env_exit_queue, st)
<1>1. CASE scheduler_status = "STOPPED"
  <2>1. fos_scheduler(curenv, rdy, env_exit_queue, st)
    BY <1>1 DEF InvokeIfStopped
  <2> QED BY <2>1, SchedulerStep, IInvFacts
<1>2. CASE scheduler_status # "STOPPED"
  <2>1. mode = "user"
    BY <1>2 DEF IInv, PromptIsIdle
  <2>2. /\ env_ready_queue' = rdy /\ env_status' = st
        /\ UNCHANGED <<env_exit_queue, curenv, scheduler_status, cr3, mode>>
    BY <1>2 DEF InvokeIfStopped
  <2>3. Live(curenv', env_ready_queue', env_exit_queue', env_status')
    BY <2>2
  <2>4. PromptIsIdle' /\ Loaded'
    BY <2>1, <2>2 DEF IInv, PromptIsIdle, Loaded
  <2> QED BY <2>1, <2>2, <2>3, <2>4 DEF Scheduled
<1> QED BY <1>1, <1>2

\* env_create takes the first slot off the free list.
LEMMA CreatedStep ==
  ASSUME IInv, NEW e \in Envs, Created(e)
  PROVE  /\ e \in ToSet(env_free_list)
         /\ e \notin ToSet(env_new_queue)
         /\ e \notin Held(curenv, env_ready_queue, env_exit_queue)
         /\ Queue(env_free_list')
         /\ ToSet(env_free_list') = ToSet(env_free_list) \ {e}
         /\ if_flag' \in [Envs -> BOOLEAN]
         /\ chkstatus' \in BOOLEAN
         /\ NewStatus(e) \in [Envs -> Status]
         /\ NewStatus(e)[e] = "NEW"
         /\ \A f \in Envs \ {e} : NewStatus(e)[f] = env_status[f]
<1>1. Queue(env_free_list) /\ env_free_list # <<>> /\ e = Head(env_free_list)
      /\ env_free_list' = Tail(env_free_list)
  BY IInvFacts DEF Created
<1>2. /\ e \in ToSet(env_free_list)
      /\ Queue(env_free_list')
      /\ ToSet(env_free_list') = ToSet(env_free_list) \ {e}
  BY <1>1, HeadQueue
<1>3. e \notin ToSet(env_new_queue) /\ e \notin Held(curenv, env_ready_queue, env_exit_queue)
  BY <1>2 DEF IInv, Resting
<1>4. if_flag' \in [Envs -> BOOLEAN] /\ chkstatus' \in BOOLEAN
  BY DEF IInv, Created
<1>5. /\ NewStatus(e) \in [Envs -> Status]
      /\ NewStatus(e)[e] = "NEW"
      /\ \A f \in Envs \ {e} : NewStatus(e)[f] = env_status[f]
  BY IInvFacts DEF NewStatus, Status
<1> QED BY <1>2, <1>3, <1>4, <1>5

\* run: the new environment joins the ready queue.
LEMMA RunProgramStep ==
  ASSUME IInv, command_run_program
  PROVE  IInv' /\ Kept
<1>1. PICK e \in Envs : Created(e) /\ sched_run_env(e, NewStatus(e))
  BY DEF command_run_program
<1>2. env_new_queue' = env_new_queue /\ mode # "crashed"
  BY DEF command_run_program
<1> DEFINE st == [NewStatus(e) EXCEPT ![e] = "READY"]
           rdy == enqueue(env_ready_queue, e)
<1>3. InvokeIfStopped(rdy, st)
  BY <1>1 DEF sched_run_env
<1>4. e \notin Held(curenv, env_ready_queue, env_exit_queue)
  BY <1>1, CreatedStep
<1>5. Queue(rdy) /\ ToSet(rdy) = ToSet(env_ready_queue) \cup {e}
  BY <1>4, IInvFacts, EnqueueQueue DEF Held
<1>6. /\ st \in [Envs -> Status] /\ st[e] = "READY"
      /\ \A f \in Envs \ {e} : st[f] = env_status[f]
  BY <1>1, CreatedStep DEF Status
<1> HIDE DEF st, rdy
<1>7. Held(curenv, rdy, env_exit_queue) = Held(curenv, env_ready_queue, env_exit_queue) \cup {e}
  BY <1>5 DEF Held
<1>8. Live(curenv, rdy, env_exit_queue, st)
  BY <1>4, <1>5, <1>6, IInvFacts DEF IInv, Live, Held
<1>9. Scheduled(curenv, rdy, env_exit_queue, st)
  BY <1>2, <1>3, <1>8, InvokeStep
<1>10. Resting(env_free_list', env_new_queue', Held(curenv, rdy, env_exit_queue), st)
  BY <1>1, <1>2, <1>6, <1>7, CreatedStep, IInvFacts DEF IInv, Resting
<1>11. Kept
  BY <1>1, <1>2, <1>7, <1>9, CreatedStep, KeptBySchedule
<1> QED BY <1>1, <1>9, <1>10, <1>11, CreatedStep, Restore

\* load and sys_create_env: the new environment joins the NEW queue.
LEMMA LoadStep ==
  ASSUME IInv, commnad_load_env \/ sys_create_env
  PROVE  IInv' /\ Kept
<1>1. PICK e \in Envs : /\ Created(e)
                        /\ env_status' = NewStatus(e)
                        /\ env_new_queue' = enqueue(env_new_queue, e)
  BY DEF commnad_load_env, sys_create_env
<1>2. UNCHANGED <<env_ready_queue, env_exit_queue, curenv, scheduler_status, cr3, mode>>
  BY DEF commnad_load_env, sys_create_env
<1>3. Queue(env_new_queue') /\ ToSet(env_new_queue') = ToSet(env_new_queue) \cup {e}
  BY <1>1, CreatedStep, IInvFacts, EnqueueQueue
<1>4. /\ env_status' \in [Envs -> Status] /\ env_status'[e] = "NEW"
      /\ \A f \in Envs \ {e} : env_status'[f] = env_status[f]
  BY <1>1, CreatedStep
<1>5. Live(curenv, env_ready_queue, env_exit_queue, env_status')
  BY <1>1, <1>4, CreatedStep, IInvFacts, LiveUpdate DEF IInv
<1>6. Resting(env_free_list', env_new_queue',
              Held(curenv, env_ready_queue, env_exit_queue), env_status')
  BY <1>1, <1>3, <1>4, CreatedStep, IInvFacts DEF IInv, Resting
<1>7. PromptIsIdle' /\ Loaded' /\ mode' \in {"prompt", "user", "crashed"}
  BY <1>2 DEF IInv, PromptIsIdle, Loaded
<1>8. Placed \subseteq Placed'
  BY <1>1, <1>2, <1>3, CreatedStep, PlacedIsHeld
<1>9. Kept
  BY <1>2, <1>8, KeptByPlaces
<1> QED BY <1>1, <1>2, <1>5, <1>6, <1>7, <1>9, CreatedStep DEF IInv

\* A panic in env_create before or after the slot is committed.
LEMMA CreatePanicsStep ==
  ASSUME IInv, CreatePanicsEarly \/ CreatePanicsLate
  PROVE  IInv' /\ Kept
<1>1. CASE CreatePanicsEarly
  <2> DEFINE h == Head(env_free_list)
             st == [env_status EXCEPT ![h] = "UNKNOWN"]
  <2>1. /\ env_free_list # <<>> /\ panic(st)
        /\ UNCHANGED <<env_free_list, env_new_queue, if_flag, chkstatus>>
    BY <1>1 DEF CreatePanicsEarly
  <2>2. h \in ToSet(env_free_list)
    BY <2>1, IInvFacts, HeadQueue
  <2>3. h \in Envs /\ h \notin ToSet(env_new_queue)
        /\ h \notin Held(curenv, env_ready_queue, env_exit_queue)
    BY <2>2, IInvFacts DEF IInv, Resting
  <2>4. /\ st \in [Envs -> Status] /\ st[h] = "UNKNOWN"
        /\ \A f \in Envs \ {h} : st[f] = env_status[f]
    BY <2>3, IInvFacts DEF Status
  <2> HIDE DEF h, st
  <2>5. Live(curenv, env_ready_queue, env_exit_queue, st)
    BY <2>3, <2>4, IInvFacts, LiveUpdate DEF IInv
  <2>6. Scheduled(curenv, env_ready_queue, env_exit_queue, st)
    BY <2>1, <2>5, PanicStep
  <2>7. Resting(env_free_list', env_new_queue',
                Held(curenv, env_ready_queue, env_exit_queue), st)
    BY <2>1, <2>3, <2>4, IInvFacts DEF IInv, Resting
  <2>8. if_flag' \in [Envs -> BOOLEAN] /\ chkstatus' \in BOOLEAN
    BY <2>1 DEF IInv
  <2>9. Kept
    BY <2>1, <2>6, KeptBySchedule
  <2> QED BY <2>6, <2>7, <2>8, <2>9, Restore
<1>2. CASE CreatePanicsLate
  <2>1. PICK e \in Envs : Created(e) /\ panic(NewStatus(e))
    BY <1>2 DEF CreatePanicsLate
  <2>2. env_new_queue' = env_new_queue
    BY <1>2 DEF CreatePanicsLate
  <2>3. Live(curenv, env_ready_queue, env_exit_queue, NewStatus(e))
    BY <2>1, CreatedStep, IInvFacts, LiveUpdate DEF IInv
  <2>4. Scheduled(curenv, env_ready_queue, env_exit_queue, NewStatus(e))
    BY <2>1, <2>3, PanicStep
  <2>5. Resting(env_free_list', env_new_queue',
                Held(curenv, env_ready_queue, env_exit_queue), NewStatus(e))
    BY <2>1, <2>2, CreatedStep, IInvFacts DEF IInv, Resting
  <2>6. /\ Held(curenv', env_ready_queue', env_exit_queue')
             = Held(curenv, env_ready_queue, env_exit_queue)
        /\ ToSet(env_exit_queue) \subseteq ToSet(env_exit_queue')
        /\ env_status'[e] = "NEW"
    BY <2>1, <2>4, CreatedStep DEF Scheduled
  <2>7. Placed \ Placed' \subseteq {e}
    BY <2>1, <2>2, <2>6, CreatedStep, PlacedIsHeld
  <2>8. env_free_list # <<>> /\ e = Head(env_free_list)
    BY <2>1 DEF Created
  <2>9. Kept
    BY <2>6, <2>7, <2>8 DEF Kept, ExitIsFinal, NoSilentLoss
  <2> QED BY <2>1, <2>4, <2>5, <2>9, CreatedStep, Restore
<1> QED BY <1>1, <1>2

\* runall: the whole NEW queue joins the ready queue.
LEMMA RunAllStep ==
  ASSUME IInv, command_run_all
  PROVE  IInv' /\ Kept
<1> DEFINE rdy == Reverse(env_new_queue) \o env_ready_queue
           st == Mark(env_status, ToSet(env_new_queue), "READY")
<1>1. /\ env_new_queue' = <<>> /\ InvokeIfStopped(rdy, st) /\ mode # "crashed"
      /\ UNCHANGED <<env_free_list, if_flag, chkstatus>>
  BY DEF command_run_all
<1>2. /\ ToSet(env_new_queue) \cap Held(curenv, env_ready_queue, env_exit_queue) = {}
      /\ ToSet(env_new_queue) \cap ToSet(env_free_list) = {}
  BY DEF IInv, Resting
<1>3. Queue(Reverse(env_new_queue)) /\ ToSet(Reverse(env_new_queue)) = ToSet(env_new_queue)
  BY IInvFacts, ReverseQueue
<1>4. Queue(rdy) /\ ToSet(rdy) = ToSet(env_new_queue) \cup ToSet(env_ready_queue)
  BY <1>2, <1>3, IInvFacts, ConcatQueue DEF Held
<1>5. /\ st \in [Envs -> Status]
      /\ \A e \in ToSet(env_new_queue) : st[e] = "READY"
      /\ \A e \in Envs \ ToSet(env_new_queue) : st[e] = env_status[e]
  BY IInvFacts, MarkType DEF Status
<1> HIDE DEF rdy, st
<1>6. Held(curenv, rdy, env_exit_queue)
        = Held(curenv, env_ready_queue, env_exit_queue) \cup ToSet(env_new_queue)
  BY <1>4 DEF Held
<1>7. Live(curenv, rdy, env_exit_queue, st)
  BY <1>2, <1>4, <1>5, IInvFacts DEF IInv, Live, Held
<1>8. Scheduled(curenv, rdy, env_exit_queue, st)
  BY <1>1, <1>7, InvokeStep
<1>9. Resting(env_free_list', env_new_queue', Held(curenv, rdy, env_exit_queue), st)
  BY <1>1, <1>2, <1>5, <1>6, IInvFacts, EmptyQueue DEF IInv, Resting
<1>10. if_flag' \in [Envs -> BOOLEAN] /\ chkstatus' \in BOOLEAN
  BY <1>1 DEF IInv
<1>11. Kept
  BY <1>1, <1>6, <1>8, KeptBySchedule
<1> QED BY <1>8, <1>9, <1>10, <1>11, Restore

\* sys_run_env: one environment leaves the NEW queue for the ready queue.
LEMMA SysRunStep ==
  ASSUME IInv, NEW e \in Envs, sys_run_env(e)
  PROVE  IInv' /\ Kept
<1> DEFINE rdy == enqueue(env_ready_queue, e)
           st == [env_status EXCEPT ![e] = "READY"]
<1>1. /\ mode # "crashed" /\ e \in ToSet(env_new_queue)
      /\ env_new_queue' = LIST_REMOVE(env_new_queue, e)
      /\ InvokeIfStopped(rdy, st)
      /\ UNCHANGED <<env_free_list, if_flag, chkstatus>>
  BY DEF sys_run_env, sched_run_env
<1>2. /\ e \notin Held(curenv, env_ready_queue, env_exit_queue)
      /\ e \notin ToSet(env_free_list)
  BY <1>1 DEF IInv, Resting
<1>3. Queue(env_new_queue') /\ ToSet(env_new_queue') = ToSet(env_new_queue) \ {e}
  BY <1>1, IInvFacts, RemoveQueue
<1>4. Queue(rdy) /\ ToSet(rdy) = ToSet(env_ready_queue) \cup {e}
  BY <1>2, IInvFacts, EnqueueQueue DEF Held
<1>5. /\ st \in [Envs -> Status] /\ st[e] = "READY"
      /\ \A f \in Envs \ {e} : st[f] = env_status[f]
  BY IInvFacts DEF Status
<1> HIDE DEF rdy, st
<1>6. Held(curenv, rdy, env_exit_queue) = Held(curenv, env_ready_queue, env_exit_queue) \cup {e}
  BY <1>4, IInvFacts DEF Held
<1>7. Live(curenv, rdy, env_exit_queue, st)
  BY <1>2, <1>4, <1>5, IInvFacts DEF IInv, Live, Held
<1>8. Scheduled(curenv, rdy, env_exit_queue, st)
  BY <1>1, <1>7, InvokeStep
<1>9. Resting(env_free_list', env_new_queue', Held(curenv, rdy, env_exit_queue), st)
  BY <1>1, <1>2, <1>3, <1>5, <1>6, IInvFacts DEF IInv, Resting
<1>10. if_flag' \in [Envs -> BOOLEAN] /\ chkstatus' \in BOOLEAN
  BY <1>1 DEF IInv
<1>11. Kept
  BY <1>1, <1>3, <1>6, <1>8, KeptBySchedule
<1> QED BY <1>8, <1>9, <1>10, <1>11, Restore

\* free_environment of a slot that has just been unlinked from its queue.
LEMMA FreedStep ==
  ASSUME IInv, NEW e \in Envs, e \notin ToSet(env_free_list), e # curenv,
         free_environment(e), UNCHANGED chkstatus,
         Queue(env_new_queue'), Queue(env_ready_queue'), Queue(env_exit_queue'),
         ToSet(env_new_queue') = ToSet(env_new_queue) \ {e},
         ToSet(env_ready_queue') = ToSet(env_ready_queue) \ {e},
         ToSet(env_exit_queue') = ToSet(env_exit_queue) \ {e},
         env_ready_queue = <<>> => env_ready_queue' = <<>>
  PROVE  IInv' /\ Kept /\ e \in ToSet(env_free_list')
<1>1. /\ env_free_list' = enqueue(env_free_list, e)
      /\ env_status' = [env_status EXCEPT ![e] = "FREE"]
      /\ if_flag' = [if_flag EXCEPT ![e] = FALSE]
      /\ UNCHANGED <<curenv, scheduler_status, cr3, mode>>
  BY DEF free_environment
<1>2. Queue(env_free_list') /\ ToSet(env_free_list') = ToSet(env_free_list) \cup {e}
  BY <1>1, IInvFacts, EnqueueQueue
<1>3. /\ env_status' \in [Envs -> Status] /\ env_status'[e] = "FREE"
      /\ \A f \in Envs \ {e} : env_status'[f] = env_status[f]
  BY <1>1, IInvFacts DEF Status
<1>4. Live(curenv', env_ready_queue', env_exit_queue', env_status')
  BY <1>1, <1>3, IInvFacts DEF IInv, Live
<1>5. Held(curenv', env_ready_queue', env_exit_queue')
        = Held(curenv, env_ready_queue, env_exit_queue) \ {e}
  BY <1>1 DEF Held
<1>6. Resting(env_free_list', env_new_queue',
              Held(curenv', env_ready_queue', env_exit_queue'), env_status')
  BY <1>2, <1>3, <1>5, IInvFacts DEF IInv, Resting
<1>7. if_flag' \in [Envs -> BOOLEAN] /\ chkstatus' \in BOOLEAN
  BY <1>1 DEF IInv
<1>8. PromptIsIdle' /\ Loaded' /\ mode' \in {"prompt", "user", "crashed"}
  BY <1>1 DEF IInv, PromptIsIdle, Loaded
<1>9. Placed \subseteq Placed'
  BY <1>2, <1>5, PlacedIsHeld
<1>10. Kept
  BY <1>2, <1>9, KeptByPlaces
<1> QED BY <1>2, <1>4, <1>6, <1>7, <1>8, <1>10 DEF IInv

\* sched_kill_env: one case per queue, then the running environment, then no one.
LEMMA KillStep ==
  ASSUME IInv, NEW e \in Envs, mode # "crashed", sched_kill_env(e)
  PROVE  IInv' /\ Kept
<1> DEFINE H == Held(curenv, env_ready_queue, env_exit_queue)
<1>1. UNCHANGED chkstatus
  BY DEF sched_kill_env
<1>2. CASE /\ e \in ToSet(env_new_queue)
           /\ env_new_queue' = LIST_REMOVE(env_new_queue, e)
           /\ free_environment(e)
           /\ UNCHANGED <<env_ready_queue, env_exit_queue>>
  <2>1. e \notin H /\ e \notin ToSet(env_free_list)
    BY <1>2 DEF IInv, Resting
  <2>2. e # curenv /\ e \notin ToSet(env_ready_queue) /\ e \notin ToSet(env_exit_queue)
    BY <2>1, IInvFacts DEF Held
  <2>3. Queue(env_new_queue') /\ ToSet(env_new_queue') = ToSet(env_new_queue) \ {e}
    BY <1>2, IInvFacts, RemoveQueue
  <2> QED BY <1>1, <1>2, <2>1, <2>2, <2>3, IInvFacts, FreedStep
<1>3. CASE /\ e \in ToSet(env_ready_queue)
           /\ env_ready_queue' = LIST_REMOVE(env_ready_queue, e)
           /\ free_environment(e)
           /\ UNCHANGED <<env_new_queue, env_exit_queue>>
  <2>1. e # curenv /\ e \notin ToSet(env_exit_queue) /\ e \in H
    BY <1>3 DEF IInv, Live, Held
  <2>2. e \notin ToSet(env_new_queue) /\ e \notin ToSet(env_free_list)
    BY <2>1 DEF IInv, Resting
  <2>3. Queue(env_ready_queue') /\ ToSet(env_ready_queue') = ToSet(env_ready_queue) \ {e}
    BY <1>3, IInvFacts, RemoveQueue
  <2>4. env_ready_queue # <<>>
    BY <1>3, EmptyQueue
  <2> QED BY <1>1, <1>3, <2>1, <2>2, <2>3, <2>4, IInvFacts, FreedStep
<1>4. CASE /\ e \in ToSet(env_exit_queue)
           /\ env_exit_queue' = LIST_REMOVE(env_exit_queue, e)
           /\ free_environment(e)
           /\ UNCHANGED <<env_new_queue, env_ready_queue>>
  <2>1. e # curenv /\ e \notin ToSet(env_ready_queue) /\ e \in H
    BY <1>4 DEF IInv, Live, Held
  <2>2. e \notin ToSet(env_new_queue) /\ e \notin ToSet(env_free_list)
    BY <2>1 DEF IInv, Resting
  <2>3. Queue(env_exit_queue') /\ ToSet(env_exit_queue') = ToSet(env_exit_queue) \ {e}
    BY <1>4, IInvFacts, RemoveQueue
  <2> QED BY <1>1, <1>4, <2>1, <2>2, <2>3, IInvFacts, FreedStep
<1>5. CASE panic(env_status) /\ UNCHANGED <<env_free_list, env_new_queue, if_flag>>
  <2>1. Scheduled(curenv, env_ready_queue, env_exit_queue, env_status)
    BY <1>5, PanicStep DEF IInv
  <2>2. Resting(env_free_list', env_new_queue', H, env_status)
    BY <1>5 DEF IInv
  <2>3. if_flag' \in [Envs -> BOOLEAN] /\ chkstatus' \in BOOLEAN
    BY <1>1, <1>5 DEF IInv
  <2>4. Kept
    BY <1>5, <2>1, KeptBySchedule
  <2> QED BY <2>1, <2>2, <2>3, <2>4, Restore
<1>6. CASE /\ curenv = NULL
           /\ mode' = "crashed"
           /\ UNCHANGED <<env_status, env_free_list, env_new_queue, env_ready_queue,
                          env_exit_queue, curenv, scheduler_status, cr3, if_flag>>
  <2>1. PromptIsIdle' /\ Loaded'
    BY <1>6 DEF IInv, PromptIsIdle, Loaded
  <2>2. Kept
    BY <1>6, PlacedIsHeld, KeptByPlaces
  <2> QED BY <1>1, <1>6, <2>1, <2>2 DEF IInv
<1> QED BY <1>2, <1>3, <1>4, <1>5, <1>6 DEF sched_kill_env

\* killall: every queue is emptied onto the free list.
LEMMA KillAllStep ==
  ASSUME IInv, command_kill_all
  PROVE  IInv' /\ Kept
<1> DEFINE N == env_new_queue
           R == env_ready_queue
           X == env_exit_queue
           f1 == Reverse(N) \o env_free_list
           f2 == Reverse(R) \o f1
           f3 == Reverse(X) \o f2
           killed == ToSet(N) \cup ToSet(R) \cup ToSet(X)
           st == Mark(env_status, killed, "FREE")
<1>1. /\ env_free_list' = f3 /\ env_new_queue' = <<>>
      /\ fos_scheduler(NULL, <<>>, <<>>, st)
      /\ if_flag' = Mark(if_flag, killed, FALSE)
      /\ UNCHANGED chkstatus
  BY DEF command_kill_all
<1>2. /\ ToSet(N) \cap ToSet(env_free_list) = {}
      /\ ToSet(R) \cap (ToSet(N) \cup ToSet(env_free_list)) = {}
      /\ ToSet(X) \cap (ToSet(R) \cup ToSet(N) \cup ToSet(env_free_list)) = {}
  BY DEF IInv, Live, Resting, Held
<1>3. /\ Queue(Reverse(N)) /\ ToSet(Reverse(N)) = ToSet(N)
      /\ Queue(Reverse(R)) /\ ToSet(Reverse(R)) = ToSet(R)
      /\ Queue(Reverse(X)) /\ ToSet(Reverse(X)) = ToSet(X)
  BY IInvFacts, ReverseQueue
<1>4. Queue(f1) /\ ToSet(f1) = ToSet(N) \cup ToSet(env_free_list)
  BY <1>2, <1>3, IInvFacts, ConcatQueue
<1>5. Queue(f2) /\ ToSet(f2) = ToSet(R) \cup ToSet(f1)
  <2> HIDE DEF f1
  <2> QED BY <1>2, <1>3, <1>4, IInvFacts, ConcatQueue
<1>6. Queue(f3) /\ ToSet(f3) = ToSet(X) \cup ToSet(f2)
  <2> HIDE DEF f1, f2
  <2> QED BY <1>2, <1>3, <1>4, <1>5, IInvFacts, ConcatQueue
<1> HIDE DEF f1, f2, f3
<1>7. ToSet(f3) = killed \cup ToSet(env_free_list) /\ killed \subseteq Envs
  BY <1>4, <1>5, <1>6, IInvFacts
<1>8. /\ st \in [Envs -> Status]
      /\ \A e \in killed : st[e] = "FREE"
      /\ \A e \in Envs \ killed : st[e] = env_status[e]
  BY <1>7, IInvFacts, MarkType DEF Status
<1>9. if_flag' \in [Envs -> BOOLEAN] /\ chkstatus' \in BOOLEAN
  BY <1>1 DEF IInv, Mark
<1> HIDE DEF st, killed
<1>10. Live(NULL, <<>>, <<>>, st) /\ Held(NULL, <<>>, <<>>) = {}
  BY <1>8, EmptyQueue DEF Live, Held
<1>11. Scheduled(NULL, <<>>, <<>>, st)
  BY <1>1, <1>10, SchedulerStep
<1>12. \A e \in ToSet(f3) : st[e] \in {"FREE", "UNKNOWN"}
  BY <1>7, <1>8, IInvFacts DEF IInv, Resting
<1>13. Resting(env_free_list', env_new_queue', Held(NULL, <<>>, <<>>), st)
  BY <1>1, <1>6, <1>10, <1>12, EmptyQueue DEF Resting
<1>14. curenv = NULL
  BY DEF command_kill_all, IInv, PromptIsIdle
<1>15. Placed \subseteq ToSet(f3)
  BY <1>7, <1>14, PlacedIsHeld DEF Held, killed
<1>16. Kept
  BY <1>1, <1>7, <1>15, PlacedIsHeld, KeptByPlaces DEF killed
<1> QED BY <1>9, <1>11, <1>13, <1>16, Restore

-----------------------------------------------------------------------------
(* The theorems *)

\* env_init and sched_init establish the invariant.
LEMMA InitIInv == Init => IInv
<1> SUFFICES ASSUME Init PROVE IInv
  OBVIOUS
<1>1. NULL \notin Envs /\ IsFiniteSet(Envs)
  BY EnvsAssumption
<1>2. Cardinality(Envs) \in Nat
  BY <1>1, FS_CardinalityType
<1>3. env_free_list \in [1..Cardinality(Envs) -> Envs] /\ NoDup(env_free_list)
  BY DEF Init
<1>4. Queue(env_free_list)
  BY <1>2, <1>3 DEF Queue, IsList
<1>5. ToSet(env_free_list) \subseteq Envs
  BY <1>4, MemberIsEnv
<1>6. /\ env_status = [e \in Envs |-> "FREE"] /\ env_new_queue = <<>>
      /\ env_ready_queue = <<>> /\ env_exit_queue = <<>> /\ curenv = NULL
  BY DEF Init
<1>7. Live(curenv, env_ready_queue, env_exit_queue, env_status)
  BY <1>6, EmptyQueue DEF Live, Status
<1>8. Held(curenv, env_ready_queue, env_exit_queue) = {}
  BY <1>6, EmptyQueue DEF Held
<1>9. Resting(env_free_list, env_new_queue, {}, env_status)
  BY <1>4, <1>5, <1>6, EmptyQueue DEF Resting
<1> QED BY <1>7, <1>8, <1>9 DEF Init, IInv, PromptIsIdle, Loaded

\* Every handler preserves the invariant, brings nobody back from the exit queue
\* and loses only what a panicking env_create loses.
LEMMA NextKept == IInv /\ [Next]_vars => IInv' /\ Kept
<1> SUFFICES ASSUME IInv, [Next]_vars PROVE IInv' /\ Kept
  OBVIOUS
<1> DEFINE H == Held(curenv, env_ready_queue, env_exit_queue)
<1>1. CASE command_load_panics \/ sys_create_env_panics
  BY <1>1, CreatePanicsStep DEF command_load_panics, sys_create_env_panics
<1>2. ASSUME NEW e \in Envs,
             command_kill_program(e) \/ sys_free_env(e) \/ sys_env_destroy(e)
      PROVE  IInv' /\ Kept
  BY <1>2, KillStep DEF command_kill_program, sys_free_env, sys_env_destroy
<1>3. CASE command_sch_RR
  <2>1. env_ready_queue' = env_ready_queue /\ scheduler_status' = scheduler_status
    BY <1>3 DEF command_sch_RR, IInv, PromptIsIdle
  <2>2. UNCHANGED <<env_status, env_free_list, env_new_queue, env_exit_queue, curenv,
                    cr3, if_flag, chkstatus, mode>>
    BY <1>3 DEF command_sch_RR
  <2>3. Kept
    BY <2>1, <2>2, PlacedIsHeld, KeptByPlaces
  <2> QED BY <2>1, <2>2, <2>3 DEF IInv, PromptIsIdle, Loaded
<1>4. ASSUME NEW on \in BOOLEAN, command_sch_test(on) \/ sys_interrupt(on)
      PROVE  IInv' /\ Kept
  <2>1. UNCHANGED <<env_status, env_free_list, env_new_queue, env_ready_queue,
                    env_exit_queue, curenv, scheduler_status, cr3, mode>>
    BY <1>4 DEF command_sch_test, sys_interrupt
  <2>2. if_flag' \in [Envs -> BOOLEAN] /\ chkstatus' \in BOOLEAN
    BY <1>4 DEF IInv, command_sch_test, sys_interrupt
  <2>3. Kept
    BY <2>1, PlacedIsHeld, KeptByPlaces
  <2> QED BY <2>1, <2>2, <2>3 DEF IInv, PromptIsIdle, Loaded
<1>5. CASE clock_interrupt_handler \/ sys_env_exit \/ trap_panics
  <2>1. mode = "user" /\ UNCHANGED <<env_free_list, env_new_queue, if_flag, chkstatus>>
    BY <1>5 DEF clock_interrupt_handler, sys_env_exit, trap_panics
  <2>2. curenv # NULL
    BY <2>1 DEF IInv, PromptIsIdle
  <2>3. Scheduled(curenv, env_ready_queue, env_exit_queue, env_status)
    <3>0. Live(curenv, env_ready_queue, env_exit_queue, env_status)
      BY DEF IInv
    <3>1. CASE clock_interrupt_handler
      BY <3>0, <3>1, IInvFacts, SchedulerStep DEF clock_interrupt_handler
    <3>2. CASE sys_env_exit
      BY <3>0, <3>2, <2>2, ExitStep DEF sys_env_exit
    <3>3. CASE trap_panics
      BY <3>0, <3>3, PanicStep DEF trap_panics
    <3> QED BY <1>5, <3>1, <3>2, <3>3
  <2>4. Resting(env_free_list', env_new_queue', H, env_status)
    BY <2>1 DEF IInv
  <2>5. if_flag' \in [Envs -> BOOLEAN] /\ chkstatus' \in BOOLEAN
    BY <2>1 DEF IInv
  <2>6. Kept
    BY <2>1, <2>3, KeptBySchedule
  <2> QED BY <2>3, <2>4, <2>5, <2>6, Restore
<1>6. CASE Crashed \/ UNCHANGED vars
  <2>1. UNCHANGED vars
    BY <1>6 DEF Crashed
  <2>2. Kept
    BY <2>1, PlacedIsHeld, KeptByPlaces DEF vars
  <2> QED BY <2>1, <2>2 DEF vars, IInv, PromptIsIdle, Loaded
<1> QED BY <1>1, <1>2, <1>3, <1>4, <1>5, <1>6, RunProgramStep, LoadStep, RunAllStep,
           SysRunStep, KillAllStep DEF Next

\* The invariant alone.
LEMMA NextIInv == IInv /\ [Next]_vars => IInv'
BY NextKept

\* The invariant that all results rest on.
THEOREM InductiveInvariant == Spec => []IInv
BY InitIInv, NextIInv, PTL DEF Spec

\* Type correctness of the scheduler's and the environment table's state.
THEOREM TypeCorrect == Spec => []TypeOK
<1>1. IInv => TypeOK
  <2> SUFFICES ASSUME IInv PROVE TypeOK
    OBVIOUS
  <2>1. scheduler_status \in {"STOPPED", "STARTED"} /\ cr3 \in Envs \cup {NULL}
    BY IInvFacts DEF IInv, PromptIsIdle, Loaded
  <2> QED BY <2>1 DEF IInv, TypeOK, Live, Resting, Queue, IsList
<1> QED BY <1>1, InductiveInvariant, PTL

\* No sequence of handlers links an environment twice: the one pair of links in
\* struct Env is enough for the free list and all the queues.
THEOREM NeverLinkedTwice == Spec => []EachEnvOnce
<1>1. IInv => EachEnvOnce
  <2> SUFFICES ASSUME IInv PROVE EachEnvOnce
    OBVIOUS
  <2>1. curenv \notin ToSet(env_free_list) \cup ToSet(env_new_queue)
    BY IInvFacts DEF IInv, Resting, Held
  <2> QED BY <2>1 DEF IInv, EachEnvOnce, Live, Resting, Held, Queue, IsList, Disjoint
<1> QED BY <1>1, InductiveInvariant, PTL

\* The status of an environment says which list it is on.
THEOREM StatusSound == Spec => []StatusMatchesPlace
<1>1. IInv => StatusMatchesPlace
  BY DEF IInv, StatusMatchesPlace, Live, Resting
<1> QED BY <1>1, InductiveInvariant, PTL

\* The prompt runs only with an empty ready queue and a stopped scheduler.
THEOREM PromptIdle == Spec => []PromptIsIdle
<1>1. IInv => PromptIsIdle
  BY DEF IInv
<1> QED BY <1>1, InductiveInvariant, PTL

\* The loaded page directory is curenv's, and never that of a free slot.
THEOREM LoadedDirectoryLive == Spec => []AddressSpaceLive
<1>1. IInv => AddressSpaceLive
  <2> SUFFICES ASSUME IInv PROVE AddressSpaceLive
    OBVIOUS
  <2>1. cr3 \notin ToSet(env_free_list)
    BY IInvFacts DEF IInv, Resting, Held, Loaded
  <2> QED BY <2>1 DEF IInv, AddressSpaceLive, Loaded
<1> QED BY <1>1, InductiveInvariant, PTL

-----------------------------------------------------------------------------
(* What a step may never do *)

\* env_exit puts curenv on the exit queue, whomever the scheduler then picks.
LEMMA ExitQueues ==
  ASSUME IInv, curenv # NULL,
         NEW st, Live(curenv, env_ready_queue, env_exit_queue, st),
         env_exit(st)
  PROVE  curenv \in ToSet(env_exit_queue')
<1> DEFINE x == enqueue(env_exit_queue, curenv)
           st2 == [st EXCEPT ![curenv] = "EXIT"]
<1>1. curenv \in Envs /\ NULL \notin Envs
  BY IInvFacts
<1>2. Queue(x) /\ ToSet(x) = ToSet(env_exit_queue) \cup {curenv}
  BY <1>1, EnqueueQueue DEF Live
<1>3. /\ st2 \in [Envs -> Status] /\ st2[curenv] = "EXIT"
      /\ \A e \in Envs \ {curenv} : st2[e] = st[e]
  BY <1>1 DEF Live, Status
<1>4. fos_scheduler(NULL, env_ready_queue, x, st2)
  BY DEF env_exit
<1> HIDE DEF x, st2
<1>5. Live(NULL, env_ready_queue, x, st2)
  BY <1>1, <1>2, <1>3, IInvFacts DEF Live
<1>6. Scheduled(NULL, env_ready_queue, x, st2)
  BY <1>4, <1>5, SchedulerStep
<1> QED BY <1>2, <1>6 DEF Scheduled

\* sys_env_destroy frees any environment but the caller, which it exits.
LEMMA DestroyStep == IInv => DestroyFreesOthers
<1> SUFFICES ASSUME IInv, NEW e \in Envs, sys_env_destroy(e)
             PROVE  IF e = curenv THEN e \in ToSet(env_exit_queue')
                                  ELSE e \in ToSet(env_free_list')
  BY DEF DestroyFreesOthers
<1>1. curenv # NULL /\ curenv \in Envs
  BY IInvFacts DEF sys_env_destroy, IInv, PromptIsIdle
<1>2. sched_kill_env(e)
  BY DEF sys_env_destroy
<1>3. CASE e \in ToSet(env_new_queue) \cup ToSet(env_ready_queue) \cup ToSet(env_exit_queue)
  <2>1. e # curenv
    BY <1>1, <1>3 DEF IInv, Live, Resting, Held
  <2>2. e \notin ToSet(env_free_list)
    BY <1>3 DEF IInv, Live, Resting, Held
  <2>3. free_environment(e)
    BY <1>2, <1>3 DEF sched_kill_env
  <2>4. env_free_list' = enqueue(env_free_list, e)
    BY <2>3 DEF free_environment
  <2>5. e \in ToSet(env_free_list')
    BY <2>2, <2>4, IInvFacts, EnqueueQueue
  <2> QED BY <2>1, <2>5
<1>4. CASE e \notin ToSet(env_new_queue) \cup ToSet(env_ready_queue) \cup ToSet(env_exit_queue)
  <2>1. curenv = e /\ panic(env_status)
    BY <1>1, <1>2, <1>4 DEF sched_kill_env
  <2>2. Live(curenv, env_ready_queue, env_exit_queue, env_status)
    BY DEF IInv
  <2>3. env_status[curenv] = "RUNNABLE"
    BY <1>1, <2>2 DEF Live
  <2>4. env_exit(env_status)
    BY <1>1, <2>1, <2>3 DEF panic
  <2> QED BY <1>1, <2>1, <2>2, <2>4, ExitQueues
<1> QED BY <1>3, <1>4

\* No step takes an environment out of its life cycle.
THEOREM LifeCycleKept == Spec => LifeCycle
<1>1. IInv /\ [Next]_vars => [ExitIsFinal /\ NoSilentLoss /\ DestroyFreesOthers]_vars
  BY NextKept, DestroyStep DEF Kept
<1> QED BY <1>1, InductiveInvariant, PTL DEF Spec, LifeCycle

\* LIST_INSERT_HEAD leaves the other end of a list that holds something alone.
LEMMA EnqueueKeepsLast ==
  ASSUME NEW q \in Seq(Envs), q # <<>>, NEW e \in Envs
  PROVE  /\ Last(enqueue(q, e)) = Last(q)
         /\ Front(enqueue(q, e)) = enqueue(Front(q), e)
BY ListKeepsLast DEF enqueue

\* Whom an invocation of the scheduler hands the CPU to.
LEMMA PickStep ==
  ASSUME NEW cur, NEW rdy, NEW ext, NEW st,
         Live(cur, rdy, ext, st),
         fos_scheduler(cur, rdy, ext, st),
         curenv' # NULL, curenv' # cur
  PROVE  /\ rdy # <<>>
         /\ curenv' = Last(rdy)
         /\ env_ready_queue' = IF cur = NULL THEN Front(rdy) ELSE enqueue(Front(rdy), cur)
         /\ env_status' = [st EXCEPT ![curenv'] = "RUNNABLE"]
<1> DEFINE q == IF cur = NULL THEN rdy ELSE enqueue(rdy, cur)
<1>1. q # <<>> /\ env_run(Last(q), cur, Front(q), ext, st)
  BY DEF fos_scheduler, EnterPrompt, PanicAll
<1>2. /\ curenv' = Last(q) /\ env_ready_queue' = Front(q)
      /\ env_status' = [st EXCEPT ![curenv'] = "RUNNABLE"]
  BY <1>1 DEF env_run
<1>3. CASE cur = NULL
  BY <1>1, <1>2, <1>3
<1>4. CASE cur # NULL
  <2>1. rdy \in Seq(Envs) /\ cur \in Envs
    BY <1>4 DEF Live, Queue, IsList
  <2>2. rdy # <<>>
    <3> SUFFICES ASSUME rdy = <<>> PROVE FALSE
      OBVIOUS
    <3>1. q = <<cur>>
      BY <1>4, <2>1 DEF enqueue
    <3>2. Last(q) = cur
      BY <3>1 DEF Last
    <3> QED BY <1>2, <3>2
  <2> QED BY <1>2, <1>4, <2>1, <2>2, EnqueueKeepsLast
<1> QED BY <1>3, <1>4

\* The same after env_exit, and after any panic in user mode.
LEMMA ExitPicks ==
  ASSUME IInv, curenv # NULL,
         NEW st, Live(curenv, env_ready_queue, env_exit_queue, st),
         env_exit(st), curenv' \notin {curenv, NULL}
  PROVE  /\ env_ready_queue # <<>>
         /\ curenv' = Last(env_ready_queue)
         /\ env_ready_queue' = Front(env_ready_queue)
         /\ env_status'[curenv] = "EXIT"
<1> DEFINE x == enqueue(env_exit_queue, curenv)
           st2 == [st EXCEPT ![curenv] = "EXIT"]
<1>1. curenv \in Envs /\ NULL \notin Envs
  BY IInvFacts
<1>2. Queue(x) /\ ToSet(x) = ToSet(env_exit_queue) \cup {curenv}
  BY <1>1, EnqueueQueue DEF Live
<1>3. /\ st2 \in [Envs -> Status] /\ st2[curenv] = "EXIT"
      /\ \A e \in Envs \ {curenv} : st2[e] = st[e]
  BY <1>1 DEF Live, Status
<1>4. fos_scheduler(NULL, env_ready_queue, x, st2)
  BY DEF env_exit
<1> HIDE DEF x, st2
<1>5. Live(NULL, env_ready_queue, x, st2)
  BY <1>1, <1>2, <1>3, IInvFacts DEF Live
<1>6. /\ env_ready_queue # <<>> /\ curenv' = Last(env_ready_queue)
      /\ env_ready_queue' = Front(env_ready_queue)
      /\ env_status' = [st2 EXCEPT ![curenv'] = "RUNNABLE"]
  BY <1>4, <1>5, PickStep
<1> QED BY <1>1, <1>3, <1>6

\* The environment that has waited longest runs next, and one that is preempted
\* queues behind all others: the only handlers that switch are the clock
\* interrupt and the ones that exit curenv.
THEOREM RoundRobinKept == Spec => RoundRobinOrder
<1> DEFINE Switch == curenv # NULL /\ curenv' \notin {curenv, NULL}
           Order == /\ env_ready_queue # <<>>
                    /\ curenv' = Last(env_ready_queue)
                    /\ env_ready_queue' = IF env_status'[curenv] = "EXIT"
                                          THEN Front(env_ready_queue)
                                          ELSE enqueue(Front(env_ready_queue), curenv)
<1>1. ASSUME IInv, [Next]_vars, Switch PROVE Order
  <2> USE <1>1
  <2>1. mode = "user" /\ curenv \in Envs /\ scheduler_status = "STARTED"
    BY IInvFacts DEF IInv, PromptIsIdle
  <2>2. Live(curenv, env_ready_queue, env_exit_queue, env_status)
        /\ env_status[curenv] = "RUNNABLE"
    BY DEF IInv, Live
  <2>3. ASSUME NEW st, Live(curenv, env_ready_queue, env_exit_queue, st), panic(st)
        PROVE  Order
    <3>1. env_exit(st)
      BY <2>3 DEF panic, Live
    <3> QED BY <2>3, <3>1, ExitPicks
  <2>4. ~UNCHANGED curenv
    OBVIOUS
  <2>5. CASE clock_interrupt_handler
    <3>1. fos_scheduler(curenv, env_ready_queue, env_exit_queue, env_status)
      BY <2>5 DEF clock_interrupt_handler
    <3>2. /\ env_ready_queue # <<>> /\ curenv' = Last(env_ready_queue)
          /\ env_ready_queue' = enqueue(Front(env_ready_queue), curenv)
          /\ env_status' = [env_status EXCEPT ![curenv'] = "RUNNABLE"]
      BY <2>2, <3>1, PickStep
    <3>3. env_status'[curenv] = "RUNNABLE"
      BY <2>1, <2>2, <3>2, IInvFacts
    <3> QED BY <3>2, <3>3
  <2>6. CASE CreatePanicsEarly
    <3> DEFINE h == Head(env_free_list)
               st == [env_status EXCEPT ![h] = "UNKNOWN"]
    <3>1. panic(st) /\ h \in ToSet(env_free_list)
      BY <2>6, IInvFacts, HeadQueue DEF CreatePanicsEarly
    <3>2. h \in Envs /\ h \notin Held(curenv, env_ready_queue, env_exit_queue)
      BY <3>1, IInvFacts DEF IInv, Resting
    <3>3. st \in [Envs -> Status] /\ \A f \in Envs \ {h} : st[f] = env_status[f]
      BY IInvFacts DEF Status
    <3> HIDE DEF h, st
    <3>4. Live(curenv, env_ready_queue, env_exit_queue, st)
      BY <2>2, <3>2, <3>3, IInvFacts, LiveUpdate
    <3> QED BY <2>3, <3>1, <3>4
  <2>7. CASE CreatePanicsLate
    <3>1. PICK e \in Envs : Created(e) /\ panic(NewStatus(e))
      BY <2>7 DEF CreatePanicsLate
    <3>2. Live(curenv, env_ready_queue, env_exit_queue, NewStatus(e))
      BY <2>2, <3>1, CreatedStep, IInvFacts, LiveUpdate
    <3> QED BY <2>3, <3>1, <3>2
  <2>8. ASSUME NEW e \in Envs, sched_kill_env(e) PROVE Order
    <3>1. panic(env_status)
      BY <2>1, <2>8 DEF sched_kill_env, free_environment
    <3> QED BY <2>2, <2>3, <3>1
  <2>9. CASE sys_env_exit
    <3>1. env_exit(env_status)
      BY <2>9 DEF sys_env_exit
    <3> QED BY <2>2, <3>1, ExitPicks
  <2>10. CASE trap_panics
    BY <2>2, <2>3, <2>10 DEF trap_panics
  <2>11. ASSUME NEW e \in Envs, sys_run_env(e) PROVE FALSE
    BY <2>1, <2>11 DEF sys_run_env, sched_run_env, InvokeIfStopped
  <2>12. ASSUME sys_create_env \/ (\E on \in BOOLEAN : sys_interrupt(on)) \/ UNCHANGED vars
         PROVE  FALSE
    BY <2>12 DEF sys_create_env, sys_interrupt, vars
  <2>13. ASSUME \/ command_run_program \/ commnad_load_env \/ command_load_panics
                \/ command_run_all \/ (\E e \in Envs : command_kill_program(e))
                \/ command_kill_all \/ command_sch_RR
                \/ (\E on \in BOOLEAN : command_sch_test(on)) \/ Crashed
         PROVE  FALSE
    BY <2>1, <2>13 DEF command_run_program, commnad_load_env, command_load_panics,
         command_run_all, command_kill_program, command_kill_all, command_sch_RR,
         command_sch_test, Crashed
  <2> HIDE DEF Order, Switch
  <2> QED BY <2>5, <2>6, <2>7, <2>8, <2>9, <2>10, <2>11, <2>12, <2>13
          DEF Next, sys_create_env_panics, sys_free_env, sys_env_destroy
<1>2. IInv /\ [Next]_vars => [Switch => Order]_vars
  BY <1>1
<1> QED BY <1>2, InductiveInvariant, PTL DEF Spec, RoundRobinOrder

=============================================================================
