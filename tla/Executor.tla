------------------------------ MODULE Executor ------------------------------
(***************************************************************************)
(* task/executor.rs and task/mod.rs: the executor, its task queue, its     *)
(* waker cache and the hlt-based sleep, with interrupt handlers that wake  *)
(* tasks at any point where interrupts are enabled.                        *)
(*                                                                         *)
(* There is one processor.  A handler runs with interrupts disabled and to *)
(* its end, so each handler is one action, enabled while int_enabled; the  *)
(* code it interrupts is split where a handler can come in between.  Each  *)
(* operation on the lock-free ArrayQueue is one atomic step.               *)
(*                                                                         *)
(* Futures are arbitrary here: while polled they may clone their waker,    *)
(* wake any task whose waker they hold, drop a clone, and return Pending   *)
(* or Ready.  Keyboard.tla fixes the futures the kernel really spawns.     *)
(***************************************************************************)
EXTENDS Naturals, Sequences, SequencesExt

CONSTANTS Capacity,  \* ArrayQueue::new(100)
          MaxTasks,  \* bound: tasks spawned in one boot
          NoTask     \* no task is being polled

TaskIds == 0 .. MaxTasks - 1

ASSUME CapacityAssumption == Capacity \in Nat \ {0}
ASSUME MaxTasksAssumption == MaxTasks \in Nat
ASSUME NoTaskAssumption == NoTask \notin TaskIds

VARIABLES next_id,     \* NEXT_ID of TaskId::new
          tasks,       \* keys of Executor.tasks
          task_queue,  \* Executor.task_queue
          waker_cache, \* keys of Executor.waker_cache
          pc,          \* where kernel_main is
          current,     \* the task whose poll is in progress
          int_enabled, \* the processor's interrupt flag
          clones,      \* tasks with a clone of their waker outside the cache
          notified,    \* history: live tasks woken since their last poll began
          isr_freed    \* history: wakers whose last Arc a handler dropped

queue_vars == <<task_queue, notified>>
waker_vars == <<waker_cache, clones, isr_freed>>
vars == <<next_id, tasks, task_queue, waker_cache, pc, current, int_enabled,
          clones, notified, isr_freed>>

Locations == {"kernel_main", "pop", "poll", "first_check", "disable",
              "second_check", "enable_and_hlt", "enable", "hlt", "panic"}

\* The invariant of types.
TypeOK ==
  /\ next_id \in 0 .. MaxTasks
  /\ tasks \in SUBSET TaskIds
  /\ task_queue \in Seq(TaskIds)
  /\ Len(task_queue) <= Capacity
  /\ waker_cache \in SUBSET TaskIds
  /\ pc \in Locations
  /\ current \in TaskIds \cup {NoTask}
  /\ int_enabled \in BOOLEAN
  /\ clones \in SUBSET TaskIds
  /\ notified \in SUBSET TaskIds
  /\ isr_freed \in SUBSET TaskIds

(* Executor::new; lib.rs init() has enabled interrupts by then. *)
Init ==
  /\ next_id = 0
  /\ tasks = {}
  /\ task_queue = <<>>
  /\ waker_cache = {}
  /\ pc = "kernel_main"
  /\ current = NoTask
  /\ int_enabled = TRUE
  /\ clones = {}
  /\ notified = {}
  /\ isr_freed = {}

-----------------------------------------------------------------------------
(* Mutation: a push that never finds the queue full. *)
push_unbounded(id, next) ==
  /\ task_queue' = Append(task_queue, id)
  /\ notified' = notified \cup ({id} \cap tasks')
  /\ pc' = next

(* task_queue.push(id).expect(..), followed by control location `next'.    *)
(* A full queue panics in the context that called it.                      *)
push(id, next) ==
  IF Len(task_queue) < Capacity
  THEN /\ task_queue' = Append(task_queue, id)
       /\ notified' = notified \cup ({id} \cap tasks')
       /\ pc' = next
  ELSE /\ pc' = "panic"
       /\ UNCHANGED queue_vars

(* TaskWaker::wake_task *)
wake_task(id, next) == push(id, next)

(* Mutation: TaskId::new loads the counter instead of incrementing it. *)
spawn_id_reused ==
  /\ pc = "kernel_main"
  /\ next_id < MaxTasks
  /\ tasks' = tasks \cup {next_id}
  /\ push(next_id, "kernel_main")
  /\ UNCHANGED <<next_id, current, int_enabled, waker_vars>>

(* Executor::spawn(Task::new(future)): TaskId::new takes the counter's old *)
(* value; an occupied slot of the task map panics before the push.         *)
spawn ==
  /\ pc = "kernel_main"
  /\ next_id < MaxTasks
  /\ next_id' = next_id + 1
  /\ tasks' = tasks \cup {next_id}
  /\ IF next_id \in tasks
     THEN pc' = "panic" /\ UNCHANGED queue_vars
     ELSE push(next_id, "kernel_main")
  /\ UNCHANGED <<current, int_enabled, waker_vars>>

(* kernel_main calls Executor::run, which calls run_ready_tasks. *)
run ==
  /\ pc = "kernel_main"
  /\ pc' = "pop"
  /\ UNCHANGED <<next_id, tasks, current, int_enabled, queue_vars, waker_vars>>

(* Mutation: the waker is made for the poll and not kept in the cache. *)
run_ready_tasks_pop_uncached ==
  /\ pc = "pop"
  /\ task_queue # <<>>
  /\ task_queue' = Tail(task_queue)
  /\ Head(task_queue) \in tasks
  /\ notified' = notified \ {Head(task_queue)}
  /\ current' = Head(task_queue)
  /\ pc' = "poll"
  /\ UNCHANGED <<next_id, tasks, int_enabled, waker_vars>>

(* Mutation: the task queue is a stack. *)
run_ready_tasks_pop_lifo ==
  /\ pc = "pop"
  /\ task_queue # <<>>
  /\ task_queue' = Front(task_queue)
  /\ IF Last(task_queue) \in tasks
     THEN /\ waker_cache' = waker_cache \cup {Last(task_queue)}
          /\ notified' = notified \ {Last(task_queue)}
          /\ current' = Last(task_queue)
          /\ pc' = "poll"
     ELSE UNCHANGED <<waker_cache, notified, current, pc>>
  /\ UNCHANGED <<next_id, tasks, int_enabled, clones, isr_freed>>

(* run_ready_tasks, `while let Ok(task_id) = task_queue.pop()': a stale id *)
(* is skipped; a live task gets a cached waker and is polled.              *)
run_ready_tasks_pop ==
  /\ pc = "pop"
  /\ task_queue # <<>>
  /\ task_queue' = Tail(task_queue)
  /\ LET task_id == Head(task_queue) IN
     IF task_id \in tasks
     THEN /\ waker_cache' = waker_cache \cup {task_id}
          /\ notified' = notified \ {task_id}
          /\ current' = task_id
          /\ pc' = "poll"
     ELSE UNCHANGED <<waker_cache, notified, current, pc>>
  /\ UNCHANGED <<next_id, tasks, int_enabled, clones, isr_freed>>

(* run_ready_tasks ends when the queue is empty; run calls sleep_if_idle. *)
run_ready_tasks_return ==
  /\ pc = "pop"
  /\ task_queue = <<>>
  /\ pc' = "first_check"
  /\ UNCHANGED <<next_id, tasks, current, int_enabled, queue_vars, waker_vars>>

(* Mutation: after a poll, ids of the task still in the queue are removed  *)
(* as if they were older than the poll.                                    *)
poll_pending_dedup ==
  /\ pc = "poll"
  /\ task_queue' = SelectSeq(task_queue, LAMBDA id : id # current)
  /\ current' = NoTask
  /\ pc' = "pop"
  /\ UNCHANGED <<next_id, tasks, int_enabled, notified, waker_vars>>

(* task.poll returned Poll::Pending *)
poll_pending ==
  /\ pc = "poll"
  /\ current' = NoTask
  /\ pc' = "pop"
  /\ UNCHANGED <<next_id, tasks, int_enabled, queue_vars, waker_vars>>

(* Mutation: the finished task's waker stays in the cache. *)
poll_ready_waker_kept ==
  /\ pc = "poll"
  /\ tasks' = tasks \ {current}
  /\ notified' = notified \ {current}
  /\ current' = NoTask
  /\ pc' = "pop"
  /\ UNCHANGED <<next_id, task_queue, int_enabled, waker_vars>>

(* task.poll returned Poll::Ready: the task and its cached waker go. *)
poll_ready ==
  /\ pc = "poll"
  /\ tasks' = tasks \ {current}
  /\ waker_cache' = waker_cache \ {current}
  /\ notified' = notified \ {current}
  /\ current' = NoTask
  /\ pc' = "pop"
  /\ UNCHANGED <<next_id, task_queue, int_enabled, clones, isr_freed>>

-----------------------------------------------------------------------------
(* What a future may do with wakers while it is polled. *)

(* Context::waker().clone(), kept somewhere outside the executor *)
clone_waker ==
  /\ pc = "poll"
  /\ clones' = clones \cup {current}
  /\ UNCHANGED <<next_id, tasks, current, int_enabled, pc, waker_cache,
                 isr_freed, queue_vars>>

(* Wake::wake_by_ref / Wake::wake on the clone of t *)
future_wake(t) ==
  /\ pc = "poll"
  /\ t \in clones
  /\ UNCHANGED tasks
  /\ wake_task(t, "poll")
  /\ clones' \in {clones, clones \ {t}}
  /\ UNCHANGED <<next_id, current, int_enabled, waker_cache, isr_freed>>

future_drop(t) ==
  /\ pc = "poll"
  /\ t \in clones
  /\ clones' = clones \ {t}
  /\ UNCHANGED <<next_id, tasks, current, int_enabled, pc, waker_cache,
                 isr_freed, queue_vars>>

-----------------------------------------------------------------------------
(* sleep_if_idle, in the steps an interrupt can separate *)

first_is_empty ==
  /\ pc = "first_check"
  /\ pc' = IF task_queue = <<>> THEN "disable" ELSE "pop"
  /\ UNCHANGED <<next_id, tasks, current, int_enabled, queue_vars, waker_vars>>

(* Mutation: the second check runs with interrupts on. *)
interrupts_disable_missing ==
  /\ pc = "disable"
  /\ pc' = "second_check"
  /\ UNCHANGED <<next_id, tasks, current, int_enabled, queue_vars, waker_vars>>

interrupts_disable ==
  /\ pc = "disable"
  /\ int_enabled' = FALSE
  /\ pc' = "second_check"
  /\ UNCHANGED <<next_id, tasks, current, queue_vars, waker_vars>>

(* The second check, with interrupts off *)
second_is_empty ==
  /\ pc = "second_check"
  /\ pc' = IF task_queue = <<>> THEN "enable_and_hlt" ELSE "enable"
  /\ UNCHANGED <<next_id, tasks, current, int_enabled, queue_vars, waker_vars>>

(* `sti; hlt' is one step: sti takes effect after the next instruction. *)
enable_and_hlt ==
  /\ pc = "enable_and_hlt"
  /\ int_enabled' = TRUE
  /\ pc' = "hlt"
  /\ UNCHANGED <<next_id, tasks, current, queue_vars, waker_vars>>

interrupts_enable ==
  /\ pc = "enable"
  /\ int_enabled' = TRUE
  /\ pc' = "pop"
  /\ UNCHANGED <<next_id, tasks, current, queue_vars, waker_vars>>

-----------------------------------------------------------------------------
(* Interrupt handlers.  iretq resumes the interrupted code; from hlt that  *)
(* is the end of sleep_if_idle, so run's loop starts over.                 *)
resumed == IF pc = "hlt" THEN "pop" ELSE pc

(* A handler that wakes no task (the timer, for one) *)
other_interrupt ==
  /\ int_enabled
  /\ pc' = resumed
  /\ UNCHANGED <<next_id, tasks, current, int_enabled, queue_vars, waker_vars>>

(* A handler that takes the clone of t and wakes it, Wake::wake(self): the *)
(* Arc is dropped on return, and if the executor's cache no longer holds   *)
(* the other reference, the TaskWaker is deallocated in the handler.  A    *)
(* handler that panics drops nothing and stays in hlt_loop with interrupts *)
(* off; after a panic in a task handlers still come and return.            *)
wake_interrupt(t) ==
  /\ int_enabled
  /\ t \in clones
  /\ UNCHANGED tasks
  /\ wake_task(t, resumed)
  /\ clones' = clones \ {t}
  /\ int_enabled' = (Len(task_queue) < Capacity)
  /\ isr_freed' = IF int_enabled' /\ t \notin waker_cache THEN isr_freed \cup {t}
                  ELSE isr_freed
  /\ UNCHANGED <<next_id, current, waker_cache>>

(* panic(): print, then hlt_loop for ever *)
hlt_loop ==
  /\ pc = "panic"
  /\ UNCHANGED vars

-----------------------------------------------------------------------------
(* The code of run: it is always enabled unless halted or panicked. *)
Executing ==
  \/ run
  \/ run_ready_tasks_pop
  \/ run_ready_tasks_return
  \/ poll_pending \/ poll_ready
  \/ first_is_empty \/ interrupts_disable \/ second_is_empty
  \/ enable_and_hlt \/ interrupts_enable

Polling ==
  \/ clone_waker
  \/ \E t \in TaskIds : future_wake(t) \/ future_drop(t)

Next ==
  \/ spawn
  \/ Executing
  \/ Polling
  \/ other_interrupt
  \/ \E t \in TaskIds : wake_interrupt(t)
  \/ hlt_loop

Spec == Init /\ [][Next]_vars

(* The processor executes instructions between interrupts, and polls       *)
(* return.  Which interrupts come is the environment's choice, but for the *)
(* timer, which the PIT raises for ever.                                   *)
Fairness == WF_vars(Executing) /\ WF_vars(other_interrupt)

FairSpec == Spec /\ Fairness

-----------------------------------------------------------------------------
(* No wake-up is lost: every live task notified since its last poll began  *)
(* is in the task queue, whatever run_ready_tasks and the handlers did in  *)
(* between.                                                                *)
NotifiedAreQueued == \A t \in notified : Contains(task_queue, t)

(* sleep_if_idle halts the processor only when no task waits in the queue: *)
(* no handler can slip a wake-up in between the check and the hlt.         *)
NeverHaltsWithWork == pc = "hlt" => int_enabled /\ task_queue = <<>>

(* run_ready_tasks removes the waker with the task: the cache holds wakers *)
(* of live tasks only, and every waker that futures hold for a live task   *)
(* has its second reference there.                                         *)
CacheFollowsTasks ==
  /\ waker_cache \subseteq tasks
  /\ clones \cap tasks \subseteq waker_cache

(* The waker cache keeps handlers from deallocating: a waker whose last    *)
(* reference a handler drops is that of a task which has finished.         *)
HandlerFreesFinishedOnly == isr_freed \cap tasks = {}

(* executor.rs:22 says of the waker cache, without a restriction to live   *)
(* tasks, that it keeps wakers from being deallocated in handlers.         *)
HandlerNeverFrees == isr_freed = {}

(* Every notified task is polled, or the kernel panics: however often      *)
(* other tasks and handlers push, sleep_if_idle and the queue starve no    *)
(* one.                                                                    *)
NotifiedIsPolled ==
  \A t \in TaskIds : t \in notified ~> (current = t \/ pc = "panic")

(* The executor provides the abstract scheduler: tasks in the map are its  *)
(* live tasks, and it sleeps while halted.                                 *)
Abstract == INSTANCE Scheduler WITH
  Ids <- TaskIds, issued <- 0 .. next_id - 1, live <- tasks,
  ready <- notified, running <- current, asleep <- (pc = "hlt")

ImplementsScheduler == Abstract!Spec
=============================================================================
