----------------------------- MODULE TaskProofs -----------------------------
(***************************************************************************)
(* Proofs about Executor.tla, for every capacity and number of tasks: its  *)
(* invariants, and that it implements Scheduler.tla.  Proofs about         *)
(* Keyboard.tla, for every capacity of both queues and every set of        *)
(* scancodes: the kernel, with its two tasks, is an execution of the       *)
(* executor, and no key press is stranded.                                 *)
(***************************************************************************)
EXTENDS Keyboard, TLAPS


Issued == 0 .. next_id - 1

(* Where control is, and what follows from it: a task is current exactly   *)
(* while it is polled, the steps of sleep_if_idle between disable and      *)
(* enable run with interrupts off, and hlt is reached with an empty queue. *)
ControlInv ==
  /\ pc = "poll" => current \in tasks /\ current \in waker_cache
  /\ pc \notin {"poll", "panic"} => current = NoTask
  /\ pc \in {"second_check", "enable_and_hlt", "enable"} => int_enabled = FALSE
  /\ pc \in {"enable_and_hlt", "hlt"} => task_queue = <<>>
  /\ pc = "hlt" => int_enabled = TRUE

(* Tasks, wakers and histories concern identifiers already issued. *)
IssuedInv ==
  /\ tasks \subseteq Issued
  /\ clones \subseteq Issued
  /\ isr_freed \subseteq Issued
  /\ notified \subseteq tasks

(* The inductive invariant. *)
ExecutorInv ==
  /\ TypeOK
  /\ ControlInv
  /\ IssuedInv
  /\ NotifiedAreQueued
  /\ CacheFollowsTasks
  /\ HandlerFreesFinishedOnly

-----------------------------------------------------------------------------
(* Appending to a queue keeps its elements and adds the new one, as        *)
(* ArrayQueue::push does.                                                  *)
LEMMA AppendContains ==
  ASSUME NEW S, NEW q \in Seq(S), NEW a \in S, NEW b,
         Contains(q, b) \/ b = a
  PROVE  Contains(Append(q, a), b)
<1>1. CASE Contains(q, b)
  <2>1. PICK i \in 1 .. Len(q) : q[i] = b
    BY <1>1 DEF Contains
  <2>2. Append(q, a)[i] = b /\ i \in 1 .. Len(Append(q, a))
    BY <2>1
  <2> QED BY <2>2 DEF Contains
<1>2. CASE b = a
  <2>1. Append(q, a)[Len(q) + 1] = b /\ Len(q) + 1 \in 1 .. Len(Append(q, a))
    BY <1>2
  <2> QED BY <2>1 DEF Contains
<1> QED BY <1>1, <1>2

(* ArrayQueue::pop removes one occurrence of the head and nothing else. *)
LEMMA TailContains ==
  ASSUME NEW S, NEW q \in Seq(S), q # <<>>, NEW b,
         Contains(q, b), b # Head(q)
  PROVE  Contains(Tail(q), b)
<1>1. PICK i \in 1 .. Len(q) : q[i] = b
  BY DEF Contains
<1>2. i # 1
  BY <1>1
<1>3. i - 1 \in 1 .. Len(Tail(q)) /\ Tail(q)[i - 1] = b
  BY <1>1, <1>2
<1> QED BY <1>3, Zenon DEF Contains

-----------------------------------------------------------------------------
(* Executor::new establishes the invariant. *)
LEMMA InitInv == Init => ExecutorInv
  BY CapacityAssumption, MaxTasksAssumption
  DEF Init, ExecutorInv, TypeOK, Locations, ControlInv, IssuedInv, Issued,
      NotifiedAreQueued, CacheFollowsTasks, HandlerFreesFinishedOnly

(* A push by a context whose task map afterwards is L keeps the queue      *)
(* typed, bounded and complete: nothing queued is lost and the pushed task *)
(* is queued, unless the kernel panics.                                    *)
LEMMA PushInv ==
  ASSUME TypeOK, NotifiedAreQueued, IssuedInv,
         NEW id \in TaskIds, NEW next, push(id, next),
         tasks \subseteq tasks'
  PROVE  /\ task_queue' \in Seq(TaskIds)
         /\ Len(task_queue') <= Capacity
         /\ NotifiedAreQueued'
         /\ notified' \subseteq tasks'
         /\ pc' \in {next, "panic"}
<1>1. CASE Len(task_queue) < Capacity
  <2>1. /\ task_queue' = Append(task_queue, id)
        /\ notified' = notified \cup ({id} \cap tasks')
        /\ pc' = next
    BY <1>1 DEF push
  <2>2. task_queue' \in Seq(TaskIds) /\ Len(task_queue') <= Capacity
    BY <1>1, <2>1, CapacityAssumption DEF TypeOK
  <2>3. \A t \in notified' : Contains(task_queue, t) \/ t = id
    BY <2>1 DEF NotifiedAreQueued
  <2>4. \A t \in notified' : Contains(task_queue', t)
    BY <2>1, <2>3, AppendContains DEF TypeOK
  <2> QED BY <2>1, <2>2, <2>4 DEF NotifiedAreQueued, IssuedInv
<1>2. CASE ~(Len(task_queue) < Capacity)
  <2>1. pc' = "panic" /\ UNCHANGED <<task_queue, notified>>
    BY <1>2 DEF push, queue_vars
  <2> QED BY <2>1 DEF TypeOK, NotifiedAreQueued, IssuedInv
<1> QED BY <1>1, <1>2

(* Every step of the executor, its futures and its handlers keeps the      *)
(* invariant.                                                              *)
LEMMA NextInv == ExecutorInv /\ [Next]_vars => ExecutorInv'
<1> SUFFICES ASSUME ExecutorInv, [Next]_vars
             PROVE  ExecutorInv'
  OBVIOUS
<1> USE CapacityAssumption, MaxTasksAssumption, NoTaskAssumption
<1> USE DEF ExecutorInv
<1>1. CASE spawn
  <2>1. next_id \in TaskIds /\ next_id \notin tasks
    BY <1>1 DEF spawn, IssuedInv, Issued, TypeOK, TaskIds
  <2>2. /\ next_id' = next_id + 1
        /\ tasks' = tasks \cup {next_id}
        /\ push(next_id, "kernel_main")
        /\ UNCHANGED <<current, int_enabled, waker_cache, clones, isr_freed>>
        /\ pc = "kernel_main" /\ next_id < MaxTasks
    BY <1>1, <2>1 DEF spawn, waker_vars
  <2>3. /\ task_queue' \in Seq(TaskIds) /\ Len(task_queue') <= Capacity
        /\ NotifiedAreQueued' /\ notified' \subseteq tasks'
        /\ pc' \in {"kernel_main", "panic"}
    BY <2>1, <2>2, PushInv
  <2>4. TypeOK'
    BY <2>1, <2>2, <2>3 DEF TypeOK, TaskIds, Locations
  <2>5. ControlInv'
    BY <2>2, <2>3 DEF ControlInv
  <2>6. IssuedInv'
    BY <2>2, <2>3 DEF IssuedInv, Issued, TypeOK
  <2>7. CacheFollowsTasks' /\ HandlerFreesFinishedOnly'
    BY <2>2 DEF CacheFollowsTasks, HandlerFreesFinishedOnly, IssuedInv, Issued,
                TypeOK
  <2> QED BY <2>3, <2>4, <2>5, <2>6, <2>7
<1>2. CASE run \/ run_ready_tasks_return \/ first_is_empty
           \/ interrupts_disable \/ second_is_empty \/ enable_and_hlt
           \/ interrupts_enable
  <2>1. UNCHANGED <<next_id, tasks, task_queue, notified, current, waker_cache,
                    clones, isr_freed>>
    BY <1>2 DEF run, run_ready_tasks_return, first_is_empty,
       interrupts_disable, second_is_empty, enable_and_hlt, interrupts_enable,
       queue_vars, waker_vars
  <2>2. TypeOK' /\ ControlInv'
    BY <1>2, <2>1, Zenon DEF run, run_ready_tasks_return, first_is_empty,
       interrupts_disable, second_is_empty, enable_and_hlt, interrupts_enable,
       TypeOK, ControlInv, Locations
  <2> QED
    BY <2>1, <2>2 DEF IssuedInv, Issued, NotifiedAreQueued, CacheFollowsTasks,
                      HandlerFreesFinishedOnly
<1>3. CASE run_ready_tasks_pop
  <2> DEFINE id == Head(task_queue)
  <2>1. /\ pc = "pop" /\ task_queue # <<>> /\ task_queue' = Tail(task_queue)
        /\ UNCHANGED <<next_id, tasks, int_enabled, clones, isr_freed>>
    BY <1>3 DEF run_ready_tasks_pop
  <2>2. id \in TaskIds /\ task_queue' \in Seq(TaskIds)
        /\ Len(task_queue') <= Capacity
    BY <2>1 DEF TypeOK
  <2>3. /\ notified' \subseteq notified /\ id \notin notified'
        /\ waker_cache \subseteq waker_cache'
        /\ waker_cache' \subseteq tasks
        /\ \/ pc' = "poll" /\ current' = id /\ id \in tasks
              /\ id \in waker_cache'
           \/ pc' = "pop" /\ current' = current
    BY <1>3, <2>1 DEF run_ready_tasks_pop, IssuedInv, CacheFollowsTasks
  <2>4. NotifiedAreQueued'
    BY <2>1, <2>3, TailContains DEF NotifiedAreQueued, TypeOK
  <2>5. TypeOK'
    BY <2>1, <2>2, <2>3 DEF TypeOK, Locations
  <2>6. ControlInv'
    BY <2>1, <2>3 DEF ControlInv
  <2>7. IssuedInv' /\ CacheFollowsTasks' /\ HandlerFreesFinishedOnly'
    BY <2>1, <2>3 DEF IssuedInv, Issued, CacheFollowsTasks,
                      HandlerFreesFinishedOnly
  <2> QED BY <2>4, <2>5, <2>6, <2>7
<1>4. CASE poll_pending
  <2>1. TypeOK' /\ ControlInv'
    BY <1>4 DEF poll_pending, queue_vars, waker_vars, TypeOK, ControlInv,
                Locations
  <2> QED
    BY <1>4, <2>1 DEF poll_pending, queue_vars, waker_vars, IssuedInv, Issued,
       NotifiedAreQueued, CacheFollowsTasks, HandlerFreesFinishedOnly
<1>5. CASE poll_ready
  <2>1. TypeOK' /\ ControlInv'
    BY <1>5 DEF poll_ready, TypeOK, ControlInv, Locations
  <2> QED
    BY <1>5, <2>1, Zenon DEF poll_ready, IssuedInv, Issued, NotifiedAreQueued,
                      CacheFollowsTasks, HandlerFreesFinishedOnly
<1>6. CASE clone_waker
  <2>1. TypeOK' /\ ControlInv'
    BY <1>6 DEF clone_waker, queue_vars, TypeOK, ControlInv
  <2> QED
    BY <1>6, <2>1, Zenon DEF clone_waker, queue_vars, ControlInv, IssuedInv, Issued,
       NotifiedAreQueued, CacheFollowsTasks, HandlerFreesFinishedOnly
<1>7. ASSUME NEW t \in TaskIds, future_wake(t)
      PROVE  ExecutorInv'
  <2>1. /\ pc = "poll" /\ push(t, "poll") /\ clones' \subseteq clones
        /\ UNCHANGED <<next_id, tasks, current, int_enabled, waker_cache,
                       isr_freed>>
    BY <1>7 DEF future_wake, wake_task
  <2>2. /\ task_queue' \in Seq(TaskIds) /\ Len(task_queue') <= Capacity
        /\ NotifiedAreQueued' /\ notified' \subseteq tasks'
        /\ pc' \in {"poll", "panic"}
    BY <2>1, PushInv
  <2>3. TypeOK' /\ ControlInv'
    BY <2>1, <2>2 DEF TypeOK, ControlInv, Locations, IssuedInv
  <2> QED
    BY <2>1, <2>2, <2>3 DEF IssuedInv, Issued, CacheFollowsTasks,
                            HandlerFreesFinishedOnly
<1>8. ASSUME NEW t \in TaskIds, future_drop(t)
      PROVE  ExecutorInv'
  <2>1. TypeOK' /\ ControlInv'
    BY <1>8 DEF future_drop, queue_vars, TypeOK, ControlInv
  <2> QED
    BY <1>8, <2>1 DEF future_drop, queue_vars, IssuedInv, Issued,
       NotifiedAreQueued, CacheFollowsTasks, HandlerFreesFinishedOnly
<1>9. CASE other_interrupt
  <2>1. TypeOK' /\ ControlInv'
    BY <1>9 DEF other_interrupt, resumed, queue_vars, waker_vars, TypeOK,
                ControlInv, Locations
  <2> QED
    BY <1>9, <2>1 DEF other_interrupt, queue_vars, waker_vars, IssuedInv,
       Issued, NotifiedAreQueued, CacheFollowsTasks, HandlerFreesFinishedOnly
<1>10. ASSUME NEW t \in TaskIds, wake_interrupt(t)
       PROVE  ExecutorInv'
  <2>1. /\ int_enabled /\ t \in clones /\ push(t, resumed)
        /\ clones' = clones \ {t}
        /\ isr_freed' = isr_freed \/ (isr_freed' = isr_freed \cup {t} /\ t \notin waker_cache)
        /\ int_enabled' \in BOOLEAN
        /\ UNCHANGED <<next_id, tasks, current, waker_cache>>
    BY <1>10 DEF wake_interrupt, wake_task
  <2>2. /\ task_queue' \in Seq(TaskIds) /\ Len(task_queue') <= Capacity
        /\ NotifiedAreQueued' /\ notified' \subseteq tasks'
        /\ pc' \in {resumed, "panic"}
    BY <2>1, PushInv
  <2>3. pc' \in Locations /\ pc' # "hlt"
        /\ pc' \notin {"second_check", "enable_and_hlt", "enable"}
    BY <2>1, <2>2 DEF resumed, TypeOK, ControlInv, Locations
  <2>4. TypeOK'
    BY <2>1, <2>2, <2>3 DEF TypeOK, IssuedInv
  <2>5. ControlInv'
    BY <2>1, <2>2, <2>3 DEF resumed, ControlInv
  <2>6. IssuedInv' /\ CacheFollowsTasks'
    BY <2>1, <2>2, Zenon DEF IssuedInv, Issued, CacheFollowsTasks
  <2>7. HandlerFreesFinishedOnly'
    BY <2>1 DEF CacheFollowsTasks, HandlerFreesFinishedOnly
  <2> QED BY <2>2, <2>4, <2>5, <2>6, <2>7
<1>11. CASE UNCHANGED vars
  BY <1>11 DEF vars, TypeOK, ControlInv, IssuedInv, Issued, NotifiedAreQueued,
               CacheFollowsTasks, HandlerFreesFinishedOnly
<1> QED
  BY <1>1, <1>2, <1>3, <1>4, <1>5, <1>6, <1>7, <1>8, <1>9, <1>10, <1>11, Zenon
  DEF Next, Executing, Polling, hlt_loop

(* The invariant holds in every state of every execution. *)
THEOREM ExecutorInvariant == Spec => []ExecutorInv
  BY InitInv, NextInv, PTL DEF Spec

(* Type correctness; in particular the task queue never exceeds the        *)
(* capacity it was created with.                                           *)
THEOREM TypeCorrect == Spec => []TypeOK
<1>1. ExecutorInv => TypeOK
  BY DEF ExecutorInv
<1> QED BY <1>1, ExecutorInvariant, PTL

(* No wake-up is lost, whatever handlers do between the steps of           *)
(* run_ready_tasks and sleep_if_idle.                                      *)
THEOREM NoLostWakeup == Spec => []NotifiedAreQueued
<1>1. ExecutorInv => NotifiedAreQueued
  BY DEF ExecutorInv
<1> QED BY <1>1, ExecutorInvariant, PTL

(* sleep_if_idle never halts the processor while a task is queued. *)
THEOREM SleepsOnlyWhenIdle == Spec => []NeverHaltsWithWork
<1>1. ExecutorInv => NeverHaltsWithWork
  BY DEF ExecutorInv, ControlInv, NeverHaltsWithWork
<1> QED BY <1>1, ExecutorInvariant, PTL

(* Cached wakers belong to live tasks, and live tasks whose waker is held  *)
(* by anyone have it in the cache.                                         *)
THEOREM CacheCorrect == Spec => []CacheFollowsTasks
<1>1. ExecutorInv => CacheFollowsTasks
  BY DEF ExecutorInv
<1> QED BY <1>1, ExecutorInvariant, PTL

(* A handler deallocates no waker of a live task. *)
THEOREM LiveWakersSurviveHandlers == Spec => []HandlerFreesFinishedOnly
<1>1. ExecutorInv => HandlerFreesFinishedOnly
  BY DEF ExecutorInv
<1> QED BY <1>1, ExecutorInvariant, PTL

-----------------------------------------------------------------------------
(* A new executor is an idle scheduler. *)
LEMMA InitRefines == Init => Abstract!Init
  BY DEF Init, Abstract!Init

(* A push is a wake-up of the abstract scheduler, or a panic that it does  *)
(* not see, provided the processor is awake afterwards.                    *)
LEMMA WakeRefines ==
  ASSUME ExecutorInv, NEW t \in clones, NEW next, push(t, next), next # "hlt",
         UNCHANGED <<next_id, tasks, current>>
  PROVE  Abstract!Wake(t) \/ Abstract!Rouse
         \/ UNCHANGED <<next_id, tasks, notified, current, pc = "hlt">>
<1>1. t \in Issued
  BY DEF ExecutorInv, IssuedInv
<1>2. CASE Len(task_queue) < Capacity
  <2>1. notified' = notified \cup ({t} \cap tasks) /\ pc' = next
    BY <1>2 DEF push
  <2> QED BY <1>1, <2>1 DEF Abstract!Wake, Issued
<1>3. CASE ~(Len(task_queue) < Capacity)
  <2>1. notified' = notified /\ pc' = "panic"
    BY <1>3 DEF push, queue_vars
  <2> QED BY <2>1 DEF Abstract!Rouse
<1> QED BY <1>2, <1>3

(* Every step is a step of the abstract scheduler, or changes nothing that *)
(* it knows.                                                               *)
LEMMA NextRefines ==
  ExecutorInv /\ [Next]_vars => [Abstract!Next]_Abstract!svars
<1> SUFFICES ASSUME ExecutorInv, [Next]_vars
             PROVE  Abstract!Next \/ UNCHANGED Abstract!svars
  OBVIOUS
<1>a. ASSUME NEW t \in TaskIds,
             Abstract!Spawn(t) \/ Abstract!Wake(t) \/ Abstract!Poll(t)
      PROVE  Abstract!Next
  BY <1>a DEF Abstract!Next
<1>b. ASSUME UNCHANGED <<next_id, tasks, notified, current, pc = "hlt">>
      PROVE  UNCHANGED Abstract!svars
  BY <1>b DEF Abstract!svars
<1>1. CASE spawn
  <2>1. next_id \in TaskIds /\ next_id \notin tasks /\ next_id \notin Issued
    BY <1>1, MaxTasksAssumption
    DEF spawn, ExecutorInv, IssuedInv, Issued, TypeOK, TaskIds
  <2>2. /\ current = NoTask /\ current' = current
        /\ pc = "kernel_main" /\ pc' # "hlt"
        /\ tasks' = tasks \cup {next_id}
        /\ next_id' = next_id + 1
        /\ notified' \in {notified, notified \cup {next_id}}
    BY <1>1, <2>1 DEF spawn, push, queue_vars, ExecutorInv, ControlInv
  <2>3. 0 .. next_id' - 1 = (0 .. next_id - 1) \cup {next_id}
    BY <2>1, <2>2, MaxTasksAssumption DEF ExecutorInv, TypeOK
  <2>4. Abstract!Spawn(next_id)
    BY <2>1, <2>2, <2>3 DEF Abstract!Spawn, Issued
  <2> QED BY <1>a, <2>1, <2>4
<1>2. CASE run \/ run_ready_tasks_return \/ first_is_empty
           \/ interrupts_disable \/ second_is_empty \/ interrupts_enable
  <2>1. UNCHANGED <<next_id, tasks, notified, current, pc = "hlt">>
    BY <1>2 DEF run, run_ready_tasks_return, first_is_empty,
       interrupts_disable, second_is_empty, interrupts_enable, queue_vars
  <2> QED BY <1>b, <2>1
<1>3. CASE enable_and_hlt
  <2>1. task_queue = <<>> /\ current = NoTask
    BY <1>3 DEF enable_and_hlt, ExecutorInv, ControlInv
  <2>2. notified = {}
    BY <2>1 DEF ExecutorInv, NotifiedAreQueued, Contains
  <2>3. Abstract!Sleep
    BY <1>3, <2>1, <2>2 DEF enable_and_hlt, queue_vars, Abstract!Sleep
  <2> QED BY <2>3 DEF Abstract!Next
<1>4. CASE run_ready_tasks_pop
  <2> DEFINE id == Head(task_queue)
  <2>1. id \in TaskIds /\ current = NoTask /\ pc = "pop"
    BY <1>4 DEF run_ready_tasks_pop, ExecutorInv, ControlInv, TypeOK
  <2>2. CASE id \in tasks
    <3>1. Abstract!Poll(id)
      BY <1>4, <2>1, <2>2 DEF run_ready_tasks_pop, Abstract!Poll
    <3> QED BY <1>a, <2>1, <3>1
  <2>3. CASE id \notin tasks
    <3>1. UNCHANGED <<next_id, tasks, notified, current, pc = "hlt">>
      BY <1>4, <2>3 DEF run_ready_tasks_pop
    <3> QED BY <1>b, <3>1
  <2> QED BY <2>2, <2>3
<1>5. CASE poll_pending
  <2>1. Abstract!Pending
    BY <1>5, NoTaskAssumption DEF poll_pending, queue_vars, ExecutorInv,
       ControlInv, TypeOK, Abstract!Pending
  <2> QED BY <2>1 DEF Abstract!Next
<1>6. CASE poll_ready
  <2>1. Abstract!Finish
    BY <1>6, NoTaskAssumption DEF poll_ready, ExecutorInv, ControlInv, TypeOK,
       Abstract!Finish
  <2> QED BY <2>1 DEF Abstract!Next
<1>7. CASE clone_waker \/ \E t \in TaskIds : future_drop(t)
  <2>1. UNCHANGED <<next_id, tasks, notified, current, pc = "hlt">>
    BY <1>7 DEF clone_waker, future_drop, queue_vars
  <2> QED BY <1>b, <2>1
<1>8. ASSUME NEW t \in TaskIds, future_wake(t)
      PROVE  Abstract!Next \/ UNCHANGED Abstract!svars
  <2>1. t \in clones /\ push(t, "poll") /\ UNCHANGED <<next_id, tasks, current>>
    BY <1>8 DEF future_wake, wake_task
  <2>2. Abstract!Wake(t) \/ Abstract!Rouse
        \/ UNCHANGED <<next_id, tasks, notified, current, pc = "hlt">>
    BY <2>1, WakeRefines
  <2> QED BY <1>a, <1>b, <2>2 DEF Abstract!Next
<1>9. CASE other_interrupt
  <2>1. CASE pc = "hlt"
    <3>1. Abstract!Rouse
      BY <1>9, <2>1 DEF other_interrupt, resumed, queue_vars, Abstract!Rouse
    <3> QED BY <3>1 DEF Abstract!Next
  <2>2. CASE pc # "hlt"
    <3>1. UNCHANGED <<next_id, tasks, notified, current, pc = "hlt">>
      BY <1>9, <2>2 DEF other_interrupt, resumed, queue_vars
    <3> QED BY <1>b, <3>1
  <2> QED BY <2>1, <2>2
<1>10. ASSUME NEW t \in TaskIds, wake_interrupt(t)
       PROVE  Abstract!Next \/ UNCHANGED Abstract!svars
  <2>1. /\ t \in clones /\ push(t, resumed) /\ resumed # "hlt"
        /\ UNCHANGED <<next_id, tasks, current>>
    BY <1>10 DEF wake_interrupt, wake_task, resumed
  <2>2. Abstract!Wake(t) \/ Abstract!Rouse
        \/ UNCHANGED <<next_id, tasks, notified, current, pc = "hlt">>
    BY <2>1, WakeRefines
  <2> QED BY <1>a, <1>b, <2>2 DEF Abstract!Next
<1>11. CASE UNCHANGED vars
  <2>1. UNCHANGED <<next_id, tasks, notified, current, pc = "hlt">>
    BY <1>11 DEF vars
  <2> QED BY <1>b, <2>1
<1> QED
  BY <1>1, <1>2, <1>3, <1>4, <1>5, <1>6, <1>7, <1>8, <1>9, <1>10, <1>11
  DEF Next, Executing, Polling, hlt_loop

(* The executor implements the abstract scheduler: one task at a time,     *)
(* finished tasks never polled again, and no sleep while a task is ready.  *)
THEOREM ExecutorImplementsScheduler == Spec => ImplementsScheduler
  BY ExecutorInvariant, InitRefines, NextRefines, PTL
  DEF Spec, ImplementsScheduler, Abstract!Spec

-----------------------------------------------------------------------------
(* The keyboard *)

Queued == Contains(task_queue, KeyboardTask)

(* The slot of WAKER is claimed exactly between the two steps of register  *)
(* or of take, and what register stored is still there at its commit.      *)
SlotInv ==
  /\ kpc \in {"store", "commit"} =>
       waker_state \in {"registering", "registering_waking"}
  /\ kpc = "taken" => waker_state = "waking"
  /\ kpc \notin {"store", "commit", "taken"} => waker_state = "waiting"
  /\ kpc = "commit" => KeyboardTask \in clones

(* Only the keyboard task's waker is ever cloned, and that task is spawned *)
(* before the executor runs and lives on.                                  *)
OwnerInv ==
  /\ clones \subseteq {KeyboardTask}
  /\ isr_freed = {}
  /\ next_id > KeyboardTask => KeyboardTask \in tasks
  /\ pc \notin {"kernel_main", "panic"} => next_id = MaxTasks

(* Who will look at the scancode queue next: the task itself while it is   *)
(* polled, else the executor through its queue, else the handler through   *)
(* the registered waker.                                                   *)
ArmedInv ==
  /\ kpc = "new" <=> ~initialised
  /\ ~initialised => scancode_queue = <<>>
  /\ pc # "panic" /\ ~Polled =>
       /\ kpc \in {"new", "pop"}
       /\ initialised => Queued \/ (KeyboardTask \in clones
                                    /\ scancode_queue = <<>>)
  /\ pc # "panic" /\ kpc = "second_pop" => Queued \/ KeyboardTask \in clones

KeyboardInv ==
  /\ KeyboardTypeOK
  /\ SlotInv
  /\ OwnerInv
  /\ ArmedInv

-----------------------------------------------------------------------------
(* The state before kernel_main spawns anything satisfies the invariant. *)
LEMMA KeyboardInitInv == KeyboardInit => KeyboardInv
<1> SUFFICES ASSUME KeyboardInit PROVE KeyboardInv
  OBVIOUS
<1>1. KeyboardTypeOK
  <2>1. /\ scancode_queue \in Seq(Scancodes)
        /\ Len(scancode_queue) <= ScancodeCapacity
    BY ScancodeCapacityAssumption DEF KeyboardInit
  <2>2. initialised \in BOOLEAN
    BY Zenon DEF KeyboardInit
  <2>3. /\ waker_state = "waiting" /\ kpc = "new" /\ scancode = NoScancode
    BY DEF KeyboardInit
  <2> QED BY <2>1, <2>2, <2>3, Zenon DEF KeyboardTypeOK
<1>2. SlotInv /\ OwnerInv
  BY DEF KeyboardInit, Init, SlotInv, OwnerInv, KeyboardTask
<1>3. kpc = "new" /\ ~initialised /\ scancode_queue = <<>>
  BY DEF KeyboardInit
<1>4. ArmedInv
  BY <1>3, Zenon DEF ArmedInv
<1> QED BY <1>1, <1>2, <1>4 DEF KeyboardInv

(* Every step of the kernel is a step of the executor, or one it does not  *)
(* see: ScancodeStream::new never panics, and handlers wake registered     *)
(* wakers only.                                                            *)
LEMMA KeyboardStepIsExecutorStep ==
  ASSUME KernelTasks
  PROVE  KeyboardInv /\ [KeyboardNext]_kvars => [Next]_vars
<1> SUFFICES ASSUME KeyboardInv, [KeyboardNext]_kvars
             PROVE  Next \/ UNCHANGED vars
  OBVIOUS
<1>0. KeyboardTask \in TaskIds
  BY DEF KernelTasks, KeyboardTask, TaskIds
<1>1. CASE kernel_spawn \/ kernel_run \/ executor_step \/ example_task
  BY <1>1 DEF kernel_spawn, kernel_run, executor_step, example_task, Next,
              Executing
<1>2. CASE stream_new
  <2>1. ~initialised
    BY <1>2 DEF stream_new, At, KeyboardInv, ArmedInv
  <2> QED BY <1>2, <2>1 DEF stream_new, vars, queue_vars, waker_vars
<1>3. CASE fast_pop \/ register_claim \/ take_claim \/ process
  BY <1>3 DEF fast_pop, register_claim, take_claim, process
<1>4. CASE register_store
  BY <1>4 DEF register_store, Next, Polling
<1>5. CASE register_commit
  BY <1>0, <1>5 DEF register_commit, Next, Polling
<1>6. CASE second_pop
  BY <1>6 DEF second_pop, Next, Executing
<1>7. CASE take_release
  BY <1>0, <1>7 DEF take_release, Next, Polling
<1>8. ASSUME NEW s \in Scancodes, keyboard_interrupt_handler(s)
      PROVE  Next
  <2>1. other_interrupt \/ wake_interrupt(KeyboardTask)
    BY <1>8 DEF keyboard_interrupt_handler, add_scancode, WAKER_wake
  <2> QED BY <1>0, <2>1 DEF Next
<1>9. CASE timer_interrupt_handler \/ kernel_panic
  BY <1>9 DEF timer_interrupt_handler, kernel_panic, Next
<1>10. CASE UNCHANGED kvars
  BY <1>10 DEF kvars
<1> QED
  BY <1>1, <1>2, <1>3, <1>4, <1>5, <1>6, <1>7, <1>8, <1>9, <1>10
  DEF KeyboardNext, Kernel, print_keypresses

-----------------------------------------------------------------------------
(* After a wake of the keyboard task it is queued, or the kernel panicked. *)
LEMMA WakeQueues ==
  ASSUME KernelTasks, TypeOK, NEW next, push(KeyboardTask, next)
  PROVE  /\ pc' = "panic" \/ (pc' = next /\ Queued')
         /\ Queued => Queued'
<1>0. KeyboardTask \in TaskIds
  BY DEF KernelTasks, KeyboardTask, TaskIds
<1>1. CASE Len(task_queue) < Capacity
  <2>1. task_queue' = Append(task_queue, KeyboardTask) /\ pc' = next
    BY <1>1 DEF push
  <2>2. Contains(task_queue', KeyboardTask)
    BY <1>0, <2>1, AppendContains DEF TypeOK
  <2> QED BY <2>1, <2>2 DEF Queued
<1>2. CASE ~(Len(task_queue) < Capacity)
  BY <1>2 DEF push, queue_vars, Queued
<1> QED BY <1>1, <1>2

(* Steps that leave the keyboard's state alone and are not a poll of the   *)
(* keyboard task: kernel_main, the executor, example_task.                 *)
LEMMA ExecutorStepInv ==
  ASSUME KernelTasks, KeyboardInv, ExecutorInv,
         kernel_spawn \/ kernel_run \/ executor_step \/ example_task
         \/ timer_interrupt_handler \/ kernel_panic
  PROVE  KeyboardInv'
<1> USE DEF KeyboardInv
<1>1. CASE kernel_spawn
  <2>1. /\ UNCHANGED keyboard_vars /\ UNCHANGED <<clones, isr_freed, current>>
        /\ tasks' = tasks \cup {next_id} /\ next_id' = next_id + 1
        /\ pc = "kernel_main" /\ pc' \in {"kernel_main", "panic"}
        /\ pc' # "panic" => task_queue' = Append(task_queue, next_id)
    BY <1>1 DEF kernel_spawn, spawn, push, waker_vars
  <2>2. next_id \in TaskIds
    BY <1>1, MaxTasksAssumption
    DEF kernel_spawn, spawn, ExecutorInv, TypeOK, TaskIds
  <2>3. ASSUME pc' # "panic", Queued
        PROVE  Queued'
    <3>1. Contains(Append(task_queue, next_id), KeyboardTask)
      BY <2>2, <2>3, AppendContains DEF Queued, ExecutorInv, TypeOK
    <3> QED BY <2>1, <2>3, <3>1, Zenon DEF Queued
  <2>4. KeyboardTypeOK' /\ SlotInv' /\ OwnerInv'
    BY <2>1, <2>2 DEF keyboard_vars, KeyboardTypeOK, SlotInv, OwnerInv,
                      KeyboardTask, TaskIds
  <2>5. ArmedInv'
    BY <2>1, <2>3 DEF keyboard_vars, ArmedInv, Polled
  <2> QED BY <2>4, <2>5
<1>2. CASE executor_step /\ run_ready_tasks_pop
  <2> DEFINE id == Head(task_queue)
  <2>1. /\ UNCHANGED keyboard_vars /\ UNCHANGED <<clones, isr_freed, tasks,
                                               next_id>>
        /\ pc = "pop" /\ task_queue # <<>> /\ task_queue' = Tail(task_queue)
        /\ \/ pc' = "poll" /\ current' = id
           \/ pc' = "pop" /\ id \notin tasks
    BY <1>2 DEF executor_step, run_ready_tasks_pop
  <2>2. id # KeyboardTask /\ Queued => Queued'
    BY <2>1, TailContains DEF Queued, ExecutorInv, TypeOK
  <2>3. KeyboardTypeOK' /\ SlotInv' /\ OwnerInv'
    BY <2>1 DEF keyboard_vars, KeyboardTypeOK, SlotInv, OwnerInv
  <2>4. id = KeyboardTask => Polled'
    BY <2>1 DEF KernelTasks, Polled, OwnerInv, KeyboardTask
  <2>5. ArmedInv'
    BY <2>1, <2>2, <2>4 DEF keyboard_vars, ArmedInv, Polled
  <2> QED BY <2>3, <2>5
<1>3. CASE kernel_run \/ timer_interrupt_handler \/ kernel_panic
           \/ (executor_step /\ ~run_ready_tasks_pop)
  <2>1. /\ UNCHANGED keyboard_vars
        /\ UNCHANGED <<clones, isr_freed, tasks, task_queue, current, next_id>>
        /\ \/ pc' = pc
           \/ /\ pc \notin {"poll", "panic"} /\ pc' # "poll"
              /\ pc = "kernel_main" => next_id = MaxTasks
    BY <1>3, Zenon DEF kernel_run, run, timer_interrupt_handler, other_interrupt,
       resumed, kernel_panic, hlt_loop, executor_step, run_ready_tasks_return,
       first_is_empty, interrupts_disable, second_is_empty, enable_and_hlt,
       interrupts_enable, vars, queue_vars, waker_vars
  <2>2. KeyboardTypeOK' /\ SlotInv' /\ OwnerInv'
    BY <2>1 DEF keyboard_vars, KeyboardTypeOK, SlotInv, OwnerInv
  <2>3. ArmedInv'
    BY <2>1 DEF keyboard_vars, ArmedInv, Polled, Queued
  <2> QED BY <2>2, <2>3
<1>4. CASE example_task
  <2>1. /\ UNCHANGED keyboard_vars
        /\ UNCHANGED <<clones, isr_freed, task_queue, next_id>>
        /\ pc = "poll" /\ pc' = "pop" /\ current # KeyboardTask
        /\ tasks' = tasks \ {ExampleTask}
    BY <1>4 DEF example_task, poll_ready, ExampleTask, KeyboardTask
  <2>2. KeyboardTypeOK' /\ SlotInv' /\ OwnerInv'
    BY <2>1 DEF keyboard_vars, KeyboardTypeOK, SlotInv, OwnerInv, ExampleTask,
                KeyboardTask
  <2>3. ArmedInv'
    BY <2>1 DEF keyboard_vars, ArmedInv, Polled, Queued
  <2> QED BY <2>2, <2>3
<1> QED BY <1>1, <1>2, <1>3, <1>4

(* The steps of print_keypresses that change the scancode queue, or end a  *)
(* poll.                                                                   *)
LEMMA PopInv ==
  ASSUME KeyboardInv, ExecutorInv, fast_pop \/ second_pop
  PROVE  KeyboardInv'
<1> USE DEF KeyboardInv
<1>1. UNCHANGED <<clones, isr_freed, tasks, task_queue, next_id, initialised,
                  waker_state>>
  BY DEF fast_pop, second_pop, vars, poll_pending, queue_vars, waker_vars
<1>2. initialised /\ pc = "poll" /\ current = KeyboardTask /\ kpc # "new"
  BY DEF fast_pop, second_pop, At, ArmedInv, KeyboardTypeOK
<1>3. /\ scancode' \in Scancodes \cup {NoScancode}
      /\ scancode_queue' \in Seq(Scancodes)
      /\ Len(scancode_queue') <= ScancodeCapacity
  <2>1. \/ scancode' = scancode /\ scancode_queue' = scancode_queue
        \/ /\ scancode_queue # <<>>
           /\ scancode' = Head(scancode_queue)
           /\ scancode_queue' = Tail(scancode_queue)
    BY DEF fast_pop, second_pop
  <2>2. /\ scancode_queue \in Seq(Scancodes)
        /\ Len(scancode_queue) <= ScancodeCapacity
        /\ scancode \in Scancodes \cup {NoScancode}
    BY DEF KeyboardTypeOK
  <2>3. scancode_queue # <<>> =>
          /\ Head(scancode_queue) \in Scancodes
          /\ Tail(scancode_queue) \in Seq(Scancodes)
          /\ Len(Tail(scancode_queue)) <= ScancodeCapacity
    BY <2>2, ScancodeCapacityAssumption
  <2> QED BY <2>1, <2>2, <2>3
<1>4. CASE fast_pop
  <2>1. /\ kpc = "pop" /\ kpc' \in {"process", "register"}
        /\ pc' = pc /\ current' = current
    BY <1>4 DEF fast_pop, At, vars
  <2>2. KeyboardTypeOK' /\ SlotInv' /\ OwnerInv'
    BY <1>1, <1>3, <2>1 DEF KeyboardTypeOK, SlotInv, OwnerInv
  <2>3. ArmedInv'
    BY <1>1, <1>2, <2>1 DEF ArmedInv, Polled
  <2> QED BY <2>2, <2>3
<1>5. CASE second_pop /\ scancode_queue # <<>>
  <2>1. /\ kpc = "second_pop" /\ kpc' = "take"
        /\ pc' = pc /\ current' = current
    BY <1>5 DEF second_pop, At, vars
  <2>2. KeyboardTypeOK' /\ SlotInv' /\ OwnerInv'
    BY <1>1, <1>3, <2>1 DEF KeyboardTypeOK, SlotInv, OwnerInv
  <2>3. ArmedInv'
    BY <1>1, <1>2, <2>1 DEF ArmedInv, Polled
  <2> QED BY <2>2, <2>3
<1>6. CASE second_pop /\ scancode_queue = <<>>
  <2>1. /\ kpc = "second_pop" /\ kpc' = "pop" /\ pc' = "pop"
        /\ scancode_queue' = <<>>
    BY <1>6 DEF second_pop, At, poll_pending
  <2>2. KeyboardTypeOK' /\ SlotInv' /\ OwnerInv'
    BY <1>1, <1>2, <1>3, <2>1 DEF KeyboardTypeOK, SlotInv, OwnerInv
  <2>3. Queued \/ KeyboardTask \in clones
    BY <1>2, <2>1 DEF ArmedInv
  <2>4. Queued' \/ KeyboardTask \in clones'
    BY <1>1, <2>3 DEF Queued
  <2>5. ArmedInv'
    BY <1>1, <1>2, <2>1, <2>4 DEF ArmedInv, Polled
  <2> QED BY <2>2, <2>5
<1> QED BY <1>4, <1>5, <1>6

(* The steps of print_keypresses on the waker and on its own state. *)
LEMMA RegisterInv ==
  ASSUME KernelTasks, KeyboardInv, ExecutorInv,
         stream_new \/ register_claim \/ register_store \/ register_commit
         \/ take_claim \/ take_release \/ process
  PROVE  KeyboardInv'
<1> USE DEF KeyboardInv
<1>1. pc = "poll" /\ current = KeyboardTask
  BY DEF stream_new, register_claim, register_store, register_commit,
         take_claim, take_release, process, At
<1>2. CASE stream_new
  <2>1. ~initialised
    BY <1>2 DEF stream_new, At, ArmedInv
  <2>2. /\ initialised' = TRUE /\ kpc' = "pop"
        /\ UNCHANGED <<next_id, tasks, current, pc, clones, isr_freed,
                       task_queue, scancode_queue, waker_state, scancode>>
        /\ kpc = "new"
    BY <1>2, <2>1 DEF stream_new, At, queue_vars, waker_vars
  <2>3. KeyboardTypeOK' /\ SlotInv' /\ OwnerInv'
    BY <2>2 DEF KeyboardTypeOK, SlotInv, OwnerInv
  <2>4. ArmedInv'
    BY <1>1, <2>2 DEF ArmedInv, Polled
  <2> QED BY <2>3, <2>4
<1>3. CASE register_claim \/ take_claim \/ process
  <2>1. /\ UNCHANGED vars /\ UNCHANGED <<initialised, scancode_queue>>
        /\ kpc \notin {"new", "second_pop"}
        /\ kpc' \notin {"new", "second_pop", "commit"}
    BY <1>3 DEF register_claim, take_claim, process, At
  <2>2. KeyboardTypeOK' /\ SlotInv'
    BY <1>3, <2>1, Zenon DEF register_claim, take_claim, process, At, vars,
                      KeyboardTypeOK, SlotInv
  <2>3. OwnerInv' /\ ArmedInv'
    BY <1>1, <2>1 DEF vars, OwnerInv, ArmedInv, Polled
  <2> QED BY <2>2, <2>3
<1>4. CASE register_store
  <2>1. /\ kpc = "store" /\ kpc' = "commit"
        /\ clones' = clones \cup {KeyboardTask}
        /\ UNCHANGED <<next_id, tasks, current, pc, isr_freed, task_queue,
                       initialised, scancode_queue, waker_state, scancode>>
    BY <1>1, <1>4 DEF register_store, At, clone_waker, queue_vars
  <2>2. KeyboardTypeOK' /\ SlotInv' /\ OwnerInv'
    BY <2>1 DEF KeyboardTypeOK, SlotInv, OwnerInv
  <2>3. ArmedInv'
    BY <1>1, <2>1 DEF ArmedInv, Polled
  <2> QED BY <2>2, <2>3
<1>5. CASE register_commit
  <2>1. /\ kpc = "commit" /\ kpc' = "second_pop" /\ waker_state' = "waiting"
        /\ clones' \subseteq clones
        /\ UNCHANGED <<next_id, tasks, current, isr_freed, initialised,
                       scancode_queue, scancode>>
        /\ pc' \in {"poll", "panic"}
    BY <1>1, <1>5, Zenon DEF register_commit, At, future_wake, wake_task, push, vars
  <2>2. pc' = "panic" \/ Queued' \/ KeyboardTask \in clones'
    <3>1. CASE waker_state = "registering"
      BY <1>5, <2>1, <3>1 DEF register_commit, SlotInv, vars
    <3>2. CASE waker_state # "registering"
      <4>1. push(KeyboardTask, "poll")
        BY <1>5, <3>2 DEF register_commit, future_wake, wake_task
      <4> QED BY <4>1, WakeQueues DEF ExecutorInv
    <3> QED BY <3>1, <3>2
  <2>3. KeyboardTypeOK' /\ SlotInv' /\ OwnerInv'
    BY <1>1, <2>1 DEF KeyboardTypeOK, SlotInv, OwnerInv
  <2>4. ArmedInv'
    BY <1>1, <2>1, <2>2 DEF ArmedInv, Polled
  <2> QED BY <2>3, <2>4
<1>6. CASE take_release
  <2>1. /\ kpc = "taken" /\ kpc' = "process" /\ waker_state' = "waiting"
        /\ clones' \subseteq clones
        /\ UNCHANGED <<next_id, tasks, current, pc, isr_freed, initialised,
                       scancode_queue, scancode>>
    BY <1>6 DEF take_release, At, future_drop, vars
  <2>2. KeyboardTypeOK' /\ SlotInv' /\ OwnerInv'
    BY <2>1 DEF KeyboardTypeOK, SlotInv, OwnerInv
  <2>3. ArmedInv'
    BY <1>1, <2>1 DEF ArmedInv, Polled
  <2> QED BY <2>2, <2>3
<1> QED BY <1>2, <1>3, <1>4, <1>5, <1>6

(* The keyboard interrupt handler, at whatever point it comes in. *)
LEMMA HandlerInv ==
  ASSUME KernelTasks, KeyboardInv, ExecutorInv,
         NEW s \in Scancodes, keyboard_interrupt_handler(s)
  PROVE  KeyboardInv'
<1> USE DEF KeyboardInv
<1>1. UNCHANGED <<initialised, kpc, scancode>>
  BY DEF keyboard_interrupt_handler
<1>2. CASE ~(initialised /\ Len(scancode_queue) < ScancodeCapacity)
  <2>1. timer_interrupt_handler
    BY <1>1, <1>2 DEF keyboard_interrupt_handler, add_scancode, keyboard_vars,
                      timer_interrupt_handler
  <2> QED BY <2>1, ExecutorStepInv
<1>3. CASE initialised /\ Len(scancode_queue) < ScancodeCapacity
  <2>1. scancode_queue' = Append(scancode_queue, s) /\ WAKER_wake
    BY <1>3 DEF keyboard_interrupt_handler, add_scancode
  <2>2. /\ scancode_queue' \in Seq(Scancodes)
        /\ Len(scancode_queue') <= ScancodeCapacity
    BY <1>3, <2>1, ScancodeCapacityAssumption DEF KeyboardTypeOK
  <2>3. initialised /\ initialised' /\ kpc # "new"
    BY <1>1, <1>3 DEF ArmedInv
  <2>4. CASE waker_state = "waiting" /\ KeyboardTask \in clones
    <3>1. wake_interrupt(KeyboardTask) /\ waker_state' = waker_state
      BY <2>1, <2>4 DEF WAKER_wake
    <3>2. /\ push(KeyboardTask, resumed)
          /\ clones' = clones \ {KeyboardTask}
          /\ KeyboardTask \in waker_cache => isr_freed' = isr_freed
          /\ UNCHANGED <<next_id, tasks, current>>
      BY <3>1 DEF wake_interrupt, wake_task
    <3>3. pc' = "panic" \/ (pc' = resumed /\ Queued')
      BY <3>2, WakeQueues DEF ExecutorInv
    <3>4. KeyboardTask \in waker_cache
      BY <2>4 DEF KernelTasks, ExecutorInv, IssuedInv, Issued, TypeOK,
         CacheFollowsTasks, OwnerInv, KeyboardTask
    <3>5. KeyboardTypeOK' /\ SlotInv'
      BY <1>1, <2>2, <2>4, <3>1, <3>2 DEF KeyboardTypeOK, SlotInv
    <3>6. OwnerInv'
      BY <3>2, <3>3, <3>4 DEF OwnerInv, resumed
    <3>7. ArmedInv'
      BY <1>1, <2>3, <3>2, <3>3 DEF ArmedInv, Polled, resumed
    <3> QED BY <3>5, <3>6, <3>7
  <2>5. CASE ~(waker_state = "waiting" /\ KeyboardTask \in clones)
    <3>1. /\ other_interrupt
          /\ waker_state' = IF waker_state = "registering"
                            THEN "registering_waking" ELSE waker_state
      BY <2>1, <2>5 DEF WAKER_wake
    <3>2. /\ pc' = resumed
          /\ UNCHANGED <<next_id, tasks, current, task_queue, clones,
                         isr_freed>>
      BY <3>1 DEF other_interrupt, queue_vars, waker_vars
    <3>3. KeyboardTypeOK' /\ SlotInv'
      BY <1>1, <2>2, <3>1, <3>2 DEF KeyboardTypeOK, SlotInv
    <3>4. OwnerInv'
      BY <3>2 DEF OwnerInv, resumed
    <3>5. pc # "panic" /\ ~Polled => Queued
      BY <2>3, <2>5 DEF ArmedInv, SlotInv
    <3>6. ArmedInv'
      BY <1>1, <2>3, <3>2, <3>5 DEF ArmedInv, Polled, Queued, resumed
    <3> QED BY <3>3, <3>4, <3>6
  <2> QED BY <2>4, <2>5
<1> QED BY <1>2, <1>3

(* Every step of the kernel and of its handlers keeps the invariant. *)
LEMMA KeyboardNextInv ==
  ASSUME KernelTasks
  PROVE  KeyboardInv /\ ExecutorInv /\ [KeyboardNext]_kvars => KeyboardInv'
<1> SUFFICES ASSUME KeyboardInv, ExecutorInv, [KeyboardNext]_kvars
             PROVE  KeyboardInv'
  OBVIOUS
<1>1. CASE UNCHANGED kvars
  BY <1>1, Zenon DEF kvars, vars, keyboard_vars, KeyboardInv, KeyboardTypeOK, SlotInv,
              OwnerInv, ArmedInv, Polled, Queued
<1> QED
  BY <1>1, ExecutorStepInv, PopInv, RegisterInv, HandlerInv
  DEF KeyboardNext, Kernel, print_keypresses

-----------------------------------------------------------------------------
(* Both invariants hold throughout every execution of the kernel. *)
THEOREM KeyboardInvariant ==
  ASSUME KernelTasks PROVE KeyboardSpec => [](KeyboardInv /\ ExecutorInv)
<1>1. KeyboardInit => KeyboardInv /\ ExecutorInv
  BY KeyboardInitInv, InitInv DEF KeyboardInit
<1>2. KeyboardInv /\ ExecutorInv /\ [KeyboardNext]_kvars
      => (KeyboardInv /\ ExecutorInv)'
  BY KeyboardNextInv, KeyboardStepIsExecutorStep, NextInv
<1> QED BY <1>1, <1>2, PTL DEF KeyboardSpec

(* No key press is stranded in the scancode queue. *)
THEOREM ScancodesHaveAReader ==
  ASSUME KernelTasks PROVE KeyboardSpec => []NoStrandedScancode
<1>1. KeyboardInv => NoStrandedScancode
  BY DEF KeyboardInv, ArmedInv, NoStrandedScancode, Queued
<1>2. KeyboardSpec => [](KeyboardInv /\ ExecutorInv)
  BY KeyboardInvariant
<1> QED BY <1>1, <1>2, PTL

(* A suspended keyboard task that is not queued has its waker registered. *)
THEOREM SuspendedTaskIsArmed ==
  ASSUME KernelTasks PROVE KeyboardSpec => []SuspendedIsArmed
<1>1. KeyboardInv => SuspendedIsArmed
  BY DEF KeyboardInv, ArmedInv, SlotInv, SuspendedIsArmed, Queued
<1>2. KeyboardSpec => [](KeyboardInv /\ ExecutorInv)
  BY KeyboardInvariant
<1> QED BY <1>1, <1>2, PTL

(* The keyboard handler never drops the last reference to a waker. *)
THEOREM KeyboardHandlerNeverFrees ==
  ASSUME KernelTasks PROVE KeyboardSpec => []KernelHandlerNeverFrees
<1>1. KeyboardInv => KernelHandlerNeverFrees
  BY DEF KeyboardInv, OwnerInv, KernelHandlerNeverFrees, HandlerNeverFrees
<1>2. KeyboardSpec => [](KeyboardInv /\ ExecutorInv)
  BY KeyboardInvariant
<1> QED BY <1>1, <1>2, PTL

(* Type correctness of the keyboard's state; in particular the scancode    *)
(* queue stays within its capacity.                                        *)
THEOREM KeyboardTypeCorrect ==
  ASSUME KernelTasks PROVE KeyboardSpec => []KeyboardTypeOK
<1>1. KeyboardInv => KeyboardTypeOK
  BY DEF KeyboardInv
<1>2. KeyboardSpec => [](KeyboardInv /\ ExecutorInv)
  BY KeyboardInvariant
<1> QED BY <1>1, <1>2, PTL
=============================================================================
