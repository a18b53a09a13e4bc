------------------------------ MODULE Keyboard ------------------------------
(***************************************************************************)
(* task/keyboard.rs with the executor that polls it: the scancode queue    *)
(* and its waker, filled by the keyboard interrupt handler and drained by  *)
(* the print_keypresses task.  kernel_main spawns example_task, which      *)
(* finishes on its first poll, and print_keypresses, which never does.     *)
(*                                                                         *)
(* Every action is an action of Executor.tla joined with what it does to   *)
(* the keyboard's state.  poll_next is split at every operation on state   *)
(* it shares with the handler.                                             *)
(***************************************************************************)
EXTENDS Executor

CONSTANTS Scancodes,        \* the bytes the PS/2 controller delivers
          ScancodeCapacity, \* ArrayQueue::new(100) of ScancodeStream::new
          NoScancode        \* the stream has yielded no byte to the task

ASSUME ScancodeCapacityAssumption == ScancodeCapacity \in Nat \ {0}
ASSUME NoScancodeAssumption == NoScancode \notin Scancodes

(* kernel_main spawns two tasks. *)
KernelTasks == MaxTasks = 2

ExampleTask == 0      \* the order in which kernel_main spawns them
KeyboardTask == 1

VARIABLES initialised,    \* SCANCODE_QUEUE's OnceCell holds a queue
          scancode_queue, \* SCANCODE_QUEUE
          waker_state,    \* state word of WAKER; its slot is `clones'
          kpc,            \* where the future of print_keypresses is
          scancode        \* the byte poll_next yielded

keyboard_vars == <<initialised, scancode_queue, waker_state, kpc, scancode>>
kvars == <<vars, keyboard_vars>>

KeyboardTypeOK ==
  /\ initialised \in BOOLEAN
  /\ scancode_queue \in Seq(Scancodes)
  /\ Len(scancode_queue) <= ScancodeCapacity
  /\ waker_state \in {"waiting", "registering", "registering_waking", "waking"}
  /\ kpc \in {"new", "pop", "register", "store", "commit", "second_pop",
              "take", "taken", "process"}
  /\ scancode \in Scancodes \cup {NoScancode}

KeyboardInit ==
  /\ Init
  /\ initialised = FALSE
  /\ scancode_queue = <<>>
  /\ waker_state = "waiting"
  /\ kpc = "new"
  /\ scancode = NoScancode

-----------------------------------------------------------------------------
(* kernel_main spawns both tasks and only then runs the executor. *)
kernel_spawn == spawn /\ UNCHANGED keyboard_vars

kernel_run ==
  /\ next_id = MaxTasks
  /\ run
  /\ UNCHANGED keyboard_vars

(* The executor's own steps *)
executor_step ==
  /\ \/ run_ready_tasks_pop \/ run_ready_tasks_return
     \/ first_is_empty \/ interrupts_disable \/ second_is_empty
     \/ enable_and_hlt \/ interrupts_enable
  /\ UNCHANGED keyboard_vars

(* example_task awaits a future that is ready at once, and prints. *)
example_task ==
  /\ current = ExampleTask
  /\ poll_ready
  /\ UNCHANGED keyboard_vars

-----------------------------------------------------------------------------
(* print_keypresses, from one shared operation to the next *)
At(l) == pc = "poll" /\ current = KeyboardTask /\ kpc = l

(* ScancodeStream::new: try_init_once(..).expect(..) *)
stream_new ==
  /\ At("new")
  /\ initialised' = TRUE
  /\ pc' = IF initialised THEN "panic" ELSE pc
  /\ kpc' = "pop"
  /\ UNCHANGED <<next_id, tasks, current, int_enabled, queue_vars, waker_vars,
                 scancode_queue, waker_state, scancode>>

(* Mutation: an empty queue returns Poll::Pending without register. *)
fast_pop_unregistered ==
  /\ At("pop")
  /\ IF scancode_queue # <<>>
     THEN /\ scancode' = Head(scancode_queue)
          /\ scancode_queue' = Tail(scancode_queue)
          /\ kpc' = "process"
          /\ UNCHANGED vars
     ELSE poll_pending /\ UNCHANGED <<kpc, scancode, scancode_queue>>
  /\ UNCHANGED <<initialised, waker_state>>

(* The fast path of poll_next; an empty queue leads to register. *)
fast_pop ==
  /\ At("pop")
  /\ IF scancode_queue # <<>>
     THEN /\ scancode' = Head(scancode_queue)
          /\ scancode_queue' = Tail(scancode_queue)
          /\ kpc' = "process"
     ELSE /\ kpc' = "register"
          /\ UNCHANGED <<scancode, scancode_queue>>
  /\ UNCHANGED <<vars, initialised, waker_state>>

(* WAKER.register: claim the slot, *)
register_claim ==
  /\ At("register")
  /\ waker_state = "waiting"
  /\ waker_state' = "registering"
  /\ kpc' = "store"
  /\ UNCHANGED <<vars, initialised, scancode_queue, scancode>>

(* store a clone of the task's waker, replacing an older one, *)
register_store ==
  /\ At("store")
  /\ clone_waker
  /\ kpc' = "commit"
  /\ UNCHANGED <<initialised, scancode_queue, waker_state, scancode>>

(* and release the slot.  A wake that found it claimed has left it to the  *)
(* registering side to wake the task.                                      *)
register_commit ==
  /\ At("commit")
  /\ waker_state' = "waiting"
  /\ IF waker_state = "registering"
     THEN UNCHANGED vars
     ELSE future_wake(KeyboardTask) /\ clones' = clones \ {KeyboardTask}
  /\ kpc' = "second_pop"
  /\ UNCHANGED <<initialised, scancode_queue, scancode>>

(* Mutation: Poll::Pending right after register, without the second pop. *)
second_pop_missing ==
  /\ At("second_pop")
  /\ poll_pending
  /\ kpc' = "pop"
  /\ UNCHANGED <<initialised, waker_state, scancode, scancode_queue>>

(* Mutation: poll_next wakes its own task before it returns Poll::Pending, *)
(* so as to be polled until a byte comes.                                  *)
second_pop_self_wake ==
  /\ At("second_pop")
  /\ IF scancode_queue # <<>>
     THEN /\ scancode' = Head(scancode_queue)
          /\ scancode_queue' = Tail(scancode_queue)
          /\ kpc' = "take"
          /\ UNCHANGED vars
     ELSE /\ UNCHANGED <<next_id, tasks, int_enabled, waker_vars>>
          /\ wake_task(KeyboardTask, "pop")
          /\ current' = NoTask
          /\ kpc' = "pop"
          /\ UNCHANGED <<scancode, scancode_queue>>
  /\ UNCHANGED <<initialised, waker_state>>

(* The second pop: Poll::Pending, or a byte that came in meanwhile. *)
second_pop ==
  /\ At("second_pop")
  /\ IF scancode_queue # <<>>
     THEN /\ scancode' = Head(scancode_queue)
          /\ scancode_queue' = Tail(scancode_queue)
          /\ kpc' = "take"
          /\ UNCHANGED vars
     ELSE /\ poll_pending
          /\ kpc' = "pop"
          /\ UNCHANGED <<scancode, scancode_queue>>
  /\ UNCHANGED <<initialised, waker_state>>

(* WAKER.take(): claim the slot, then empty it and release it. *)
take_claim ==
  /\ At("take")
  /\ waker_state = "waiting"
  /\ waker_state' = "waking"
  /\ kpc' = "taken"
  /\ UNCHANGED <<vars, initialised, scancode_queue, scancode>>

take_release ==
  /\ At("taken")
  /\ IF KeyboardTask \in clones
     THEN future_drop(KeyboardTask)
     ELSE UNCHANGED vars
  /\ waker_state' = "waiting"
  /\ kpc' = "process"
  /\ UNCHANGED <<initialised, scancode_queue, scancode>>

(* Decode and print the byte, then await the next one. *)
process ==
  /\ At("process")
  /\ scancode' = NoScancode
  /\ kpc' = "pop"
  /\ UNCHANGED <<vars, initialised, scancode_queue, waker_state>>

print_keypresses ==
  \/ stream_new \/ fast_pop
  \/ register_claim \/ register_store \/ register_commit
  \/ second_pop \/ take_claim \/ take_release \/ process

-----------------------------------------------------------------------------
(* WAKER.wake() in the handler: it takes and wakes the registered waker    *)
(* when the slot is free, and otherwise leaves a mark for register.        *)
WAKER_wake ==
  IF waker_state = "waiting" /\ KeyboardTask \in clones
  THEN wake_interrupt(KeyboardTask) /\ UNCHANGED waker_state
  ELSE /\ other_interrupt
       /\ waker_state' = IF waker_state = "registering"
                         THEN "registering_waking" ELSE waker_state

(* Mutation: a full scancode queue grows instead of dropping the byte. *)
add_scancode_unbounded(s) ==
  IF initialised
  THEN scancode_queue' = Append(scancode_queue, s) /\ WAKER_wake
  ELSE other_interrupt /\ UNCHANGED <<scancode_queue, waker_state>>

(* An uninitialised or full queue drops the byte and wakes no one. *)
add_scancode(s) ==
  IF initialised /\ Len(scancode_queue) < ScancodeCapacity
  THEN scancode_queue' = Append(scancode_queue, s) /\ WAKER_wake
  ELSE other_interrupt /\ UNCHANGED <<scancode_queue, waker_state>>

keyboard_interrupt_handler(s) ==
  /\ int_enabled
  /\ add_scancode(s)
  /\ UNCHANGED <<initialised, kpc, scancode>>

timer_interrupt_handler == other_interrupt /\ UNCHANGED keyboard_vars

kernel_panic == hlt_loop /\ UNCHANGED keyboard_vars

-----------------------------------------------------------------------------
Kernel ==
  \/ kernel_spawn \/ kernel_run \/ executor_step
  \/ example_task \/ print_keypresses

KeyboardNext ==
  \/ Kernel
  \/ \E s \in Scancodes : keyboard_interrupt_handler(s)
  \/ timer_interrupt_handler
  \/ kernel_panic

KeyboardSpec == KeyboardInit /\ [][KeyboardNext]_kvars

(* The processor executes instructions between interrupts; the timer ticks *)
(* for ever; nobody has to press a key.                                    *)
KeyboardFairSpec ==
  KeyboardSpec /\ WF_kvars(Kernel) /\ WF_kvars(timer_interrupt_handler)

-----------------------------------------------------------------------------
Polled == pc = "poll" /\ current = KeyboardTask

(* No key press is stranded: while bytes wait in the scancode queue, the   *)
(* keyboard task is being polled or is in the task queue.  This is what    *)
(* poll_next's second pop after register is for.                           *)
NoStrandedScancode ==
  scancode_queue # <<>> /\ pc # "panic" =>
    Polled \/ Contains(task_queue, KeyboardTask)

(* While the keyboard task is suspended and not queued, its waker is       *)
(* registered, the slot is free and the scancode queue is empty: the next  *)
(* key press will find a waker.                                            *)
SuspendedIsArmed ==
  initialised /\ ~Polled /\ pc # "panic" /\ ~Contains(task_queue, KeyboardTask) =>
    /\ KeyboardTask \in clones
    /\ waker_state = "waiting"
    /\ scancode_queue = <<>>

(* Every byte accepted by add_scancode reaches print_keypresses, or the    *)
(* kernel panics.                                                          *)
ScancodeIsYielded ==
  \A s \in Scancodes :
    Contains(scancode_queue, s) ~> (scancode = s \/ pc = "panic")

(* example_task finishes although the poll of print_keypresses need not    *)
(* return while keys keep coming (keyboard.rs:101): kernel_main spawns it  *)
(* first, and the queue keeps that order.                                  *)
ExampleTaskFinishes ==
  ExampleTask \in tasks ~> (ExampleTask \notin tasks \/ pc = "panic")

(* With the futures the kernel spawns, the handler never deallocates a     *)
(* waker: print_keypresses never finishes, so the cache always holds the   *)
(* second reference.                                                       *)
KernelHandlerNeverFrees == HandlerNeverFrees

(* executor.rs:31 says 100 entries are enough while there are at most 100  *)
(* tasks: a wake or a spawn never finds the task queue full as long as     *)
(* the tasks fit in it.                                                    *)
TasksFitQueue == MaxTasks <= Capacity => pc # "panic"

(* When nobody types any more, the processor keeps coming back to hlt      *)
(* although the timer ends every hlt: what the key presses left behind,    *)
(* queue entries of a task that has been polled since and the wake-up that *)
(* register gives its own task for a handler that came in between, is used *)
(* up and not renewed.                                                     *)
KeyPress == \E s \in Scancodes : keyboard_interrupt_handler(s)
KernelComesToRest == []<>(pc \in {"hlt", "panic"}) \/ []<><<KeyPress>>_kvars
=============================================================================
