----------------------------- MODULE Interrupts -----------------------------
(***************************************************************************)
(* The kernel and its test kernels as code that interrupt and exception    *)
(* handlers preempt: the order of the boot, the interrupt flag, the PIC,   *)
(* and the spin locks, which nobody else can release while their holder is *)
(* preempted.                                                              *)
(*                                                                         *)
(* Code is a sequence of instructions <<operation, argument>>, those that  *)
(* touch the flag, a lock, a descriptor table or a device.  The stack      *)
(* holds the code left to each preempted context and, at its top, to the   *)
(* running one.                                                            *)
(***************************************************************************)
EXTENDS Integers, Sequences

CONSTANT Programs       \* the entry points that may be booted

Locks == {"WRITER",     \* of the library: handlers, the keyboard task, tests
          "bin WRITER", \* of main.rs, which has its own mod vga_buffer
          "SERIAL1", "PICS", "ALLOCATOR"}

(* The lines of the PIC, by priority *)
Timer == 0
Keyboard == 1
NoLine == -1

Breakpoint == 3
DoubleFault == 8
PageFault == 14

VARIABLES program,        \* the entry point booted
          stack,          \* contexts [code, line, iflag, saved]
          int_enabled,    \* the interrupt flag
          owner,          \* lock -> depth of the context that holds it, or 0
          tss_loaded, idt, pic_initialized,
          pending,        \* lines with a request at the PIC
          in_service,     \* lines without end-of-interrupt
          scancode_ready, \* a byte at port 0x60
          executing,      \* kernel_main has got to executor.run
          double_faulted, \* history: a double fault has happened
          machine         \* "running", "reset", or QEMU's exit code

tables == <<tss_loaded, idt, pic_initialized>>
devices == <<pending, in_service, scancode_ready>>
vars == <<program, stack, int_enabled, owner, tables, devices, executing,
          double_faulted, machine>>

-----------------------------------------------------------------------------
(* The code *)
Do(operation) == << <<operation, "">> >>
Lock(l) == << <<"lock", l>> >>
Unlock(l) == << <<"unlock", l>> >>
Locked(l) == Lock(l) \o Unlock(l)

(* Mutation: the lock is held with interrupts as they are. *)
print_interruptible(writer) == Locked(writer)

(* print! and println! of each crate: _print *)
print(writer) == Do("without_interrupts") \o Locked(writer) \o Do("restore")

serial_print == Do("without_interrupts") \o Locked("SERIAL1") \o Do("restore")

hlt_loop == Do("hlt_loop")
exit_qemu(code) == << <<"exit_qemu", code>> >>

test_panic_handler == serial_print \o serial_print \o exit_qemu("Failure") \o hlt_loop

(* The panic handler of the binary that is running *)
panic(p) ==
  CASE p \in {"kernel_main", "no_heap", "int3", "page_fault", "overflow"} ->
         print("bin WRITER") \o hlt_loop
    [] p = "tests/should_panic" -> serial_print \o exit_qemu("Success") \o hlt_loop
    [] OTHER -> test_panic_handler

breakpoint_handler == print("WRITER") \o Do("iretq")

page_fault_handler ==
  print("WRITER") \o print("WRITER") \o print("WRITER") \o print("WRITER") \o hlt_loop

notify_end_of_interrupt == Lock("PICS") \o Do("eoi") \o Unlock("PICS")

(* Mutation: the timer's handler does not tell the PIC that it is done. *)
timer_interrupt_handler_no_eoi == print("WRITER") \o Do("iretq")

timer_interrupt_handler == print("WRITER") \o notify_end_of_interrupt \o Do("iretq")

(* Mutation: the scancode is left in the keyboard controller. *)
keyboard_interrupt_handler_no_read == notify_end_of_interrupt \o Do("iretq")

keyboard_interrupt_handler ==
  Do("read_port") \o Do("add_scancode") \o notify_end_of_interrupt \o Do("iretq")

test_double_fault_handler == serial_print \o exit_qemu("Success") \o hlt_loop

(* The descriptor tables: IDT and TEST_IDT of tests/stack_overflow.rs *)
handlers(table) ==
  CASE table = "IDT" ->
         [v \in {Breakpoint, DoubleFault, PageFault, 32, 33} |->
            CASE v = Breakpoint -> breakpoint_handler
              [] v = DoubleFault -> Do("panic")
              [] v = PageFault -> page_fault_handler
              [] v = 32 -> timer_interrupt_handler
              [] v = 33 -> keyboard_interrupt_handler]
    [] table = "TEST_IDT" -> [v \in {DoubleFault} |-> test_double_fault_handler]
    [] table = "none" -> <<>>

(* Mutation: gdt::init loads the table but not the TSS. *)
gdt_init_no_tss == <<>>

gdt_init == Do("load_tss")

(* Mutation: interrupts are enabled before the PICs are remapped. *)
init_enables_early ==
  gdt_init \o << <<"load_idt", "IDT">> >> \o Do("enable")
  \o Lock("PICS") \o Do("initialize") \o Unlock("PICS")

init ==
  gdt_init \o << <<"load_idt", "IDT">> >>
  \o Lock("PICS") \o Do("initialize") \o Unlock("PICS") \o Do("enable")

write_to_vga == Locked("bin WRITER") \o Locked("bin WRITER")

(* Box::new, Vec::push, drop: alloc and dealloc through Locked::lock *)
use_heap == Locked("ALLOCATOR")

(* init_heap(..).expect(..): whether it fails depends on the memory map    *)
(* and the page tables, so it is settled when an entry point is booted.    *)
init_heap(fails) == IF fails THEN Do("panic") ELSE Locked("ALLOCATOR")

(* kernel_main, with too little memory for the heap, or with the faults it *)
(* has in comments at their places; of each kind of step that it repeats   *)
(* there are one or two.                                                   *)
kernel_main(fault) ==
  write_to_vga \o print("bin WRITER") \o init
  \o (IF fault \in {"page_fault", "overflow"} THEN Do(fault) ELSE <<>>)
  \o init_heap(fault = "no_heap") \o use_heap \o print("bin WRITER")
  \o (IF fault = "int3" THEN Do(fault) ELSE <<>>)
  \o use_heap \o Do("executor_run")

(* Testable::run, and test_runner given the runs of all tests *)
run(test) == serial_print \o test \o serial_print

test_runner(tests) == serial_print \o tests \o exit_qemu("Success")

(* The test kernels; a loop {} at the end of one counts as a hlt_loop. *)
test_kernel_main ==
  init \o test_runner(run(Do("int3")) \o run(print("WRITER"))
                      \o run(print("WRITER") \o print("WRITER")) \o run(print("WRITER")))
  \o hlt_loop

basic_boot == test_runner(run(print("WRITER"))) \o hlt_loop

heap_allocation(fails) ==
  init \o init_heap(fails)
  \o test_runner(run(use_heap) \o run(use_heap \o use_heap) \o run(use_heap)) \o hlt_loop

should_panic == serial_print \o Do("panic")

stack_overflow ==
  serial_print \o init \o << <<"load_idt", "TEST_IDT">> >> \o Do("overflow") \o Do("panic")

(* The entry points *)
code(p) ==
  CASE p \in {"kernel_main", "no_heap", "int3", "page_fault", "overflow"} -> kernel_main(p)
    [] p = "test_kernel_main" -> test_kernel_main
    [] p = "tests/basic_boot" -> basic_boot
    [] p = "tests/heap_allocation" -> heap_allocation(FALSE)
    [] p = "tests/heap_allocation no_heap" -> heap_allocation(TRUE)
    [] p = "tests/should_panic" -> should_panic
    [] p = "tests/stack_overflow" -> stack_overflow

(* Mutation: halt with interrupts still disabled. *)
sleep_if_idle_disabled == Do("disable") \o Do("hlt")

sleep_if_idle == Do("disable") \o Do("enable_and_hlt")

(* What the executor's loop does with the flag and the locks: poll a task  *)
(* that prints or allocates, check for tasks and go on, or sleep.          *)
executor_run ==
  {print("WRITER"), print("bin WRITER"), use_heap \o Do("allocated"),
   Do("disable") \o Do("enable"), sleep_if_idle}

-----------------------------------------------------------------------------
Context(c, line) == [code |-> c, line |-> line, iflag |-> int_enabled, saved |-> FALSE]

Init ==
  /\ program \in Programs
  /\ int_enabled = FALSE
  /\ stack = <<[code |-> code(program), line |-> NoLine, iflag |-> FALSE, saved |-> FALSE]>>
  /\ owner = [l \in Locks |-> 0]
  /\ tss_loaded = FALSE /\ idt = "none" /\ pic_initialized = FALSE
  /\ pending = {} /\ in_service = {} /\ scancode_ready = FALSE
  /\ executing = FALSE /\ double_faulted = FALSE
  /\ machine = "running"

Depth == Len(stack)
Running == stack[Depth]
Rest == Tail(Running.code)
At(operation) == machine = "running" /\ Head(Running.code)[1] = operation
Argument == Head(Running.code)[2]

Continue(c) == stack' = [stack EXCEPT ![Depth].code = c]

(* The processor takes a vector.  One without a handler is a double fault; *)
(* a double fault without a handler or without the stack that the TSS      *)
(* gives it resets the machine.  All gates are interrupt gates.            *)
Enter(vector, line, rest) ==
  LET v == IF vector \in DOMAIN handlers(idt) THEN vector ELSE DoubleFault
  IN IF v \notin DOMAIN handlers(idt) \/ (v = DoubleFault /\ ~tss_loaded)
     THEN machine' = "reset" /\ UNCHANGED <<stack, int_enabled, double_faulted>>
     ELSE /\ stack' = Append([stack EXCEPT ![Depth].code = rest],
                             Context(handlers(idt)[v], line))
          /\ int_enabled' = FALSE
          /\ double_faulted' = (double_faulted \/ v = DoubleFault)
          /\ UNCHANGED machine

(* interrupts::without_interrupts saves the flag, and restores it. *)
without_interrupts ==
  /\ At("without_interrupts")
  /\ stack' = [stack EXCEPT ![Depth].code = Rest, ![Depth].saved = int_enabled]
  /\ int_enabled' = FALSE
  /\ UNCHANGED <<program, owner, tables, devices, executing, double_faulted, machine>>

set_flag ==
  /\ \/ At("restore") /\ int_enabled' = Running.saved /\ Continue(Rest)
     \/ At("enable") /\ int_enabled' = TRUE /\ Continue(Rest)
     \/ At("disable") /\ int_enabled' = FALSE /\ Continue(Rest)
     \/ At("enable_and_hlt") /\ int_enabled' = TRUE /\ Continue(Do("hlt") \o Rest)
  /\ UNCHANGED <<program, owner, tables, devices, executing, double_faulted, machine>>

(* spin::Mutex::lock waits for the lock; its guard gives it back. *)
lock ==
  /\ \/ /\ At("lock") /\ owner[Argument] = 0
        /\ owner' = [owner EXCEPT ![Argument] = Depth]
     \/ At("unlock") /\ owner' = [owner EXCEPT ![Argument] = 0]
  /\ Continue(Rest)
  /\ UNCHANGED <<program, int_enabled, tables, devices, executing, double_faulted, machine>>

load_table ==
  /\ \/ At("load_tss") /\ tss_loaded' = TRUE /\ UNCHANGED <<idt, pic_initialized>>
     \/ At("load_idt") /\ idt' = Argument /\ UNCHANGED <<tss_loaded, pic_initialized>>
     \/ At("initialize") /\ pic_initialized' = TRUE /\ UNCHANGED <<tss_loaded, idt>>
  /\ Continue(Rest)
  /\ UNCHANGED <<program, int_enabled, owner, devices, executing, double_faulted, machine>>

(* The PIC takes the line of highest priority out of service. *)
eoi ==
  /\ At("eoi")
  /\ in_service' = {l \in in_service : \E k \in in_service : k < l}
  /\ Continue(Rest)
  /\ UNCHANGED <<program, int_enabled, owner, tables, pending, scancode_ready,
                 executing, double_faulted, machine>>

read_port ==
  /\ At("read_port")
  /\ scancode_ready' = FALSE
  /\ Continue(Rest)
  /\ UNCHANGED <<program, int_enabled, owner, tables, pending, in_service,
                 executing, double_faulted, machine>>

(* add_scancode warns that the queue is full or missing, or wakes the      *)
(* keyboard task, which panics if the task queue is full.                  *)
add_scancode ==
  /\ At("add_scancode")
  /\ \/ Continue(print("WRITER") \o Rest)
     \/ executing /\ Continue(Rest)
     \/ executing /\ Continue(panic(program))
  /\ UNCHANGED <<program, int_enabled, owner, tables, devices, executing,
                 double_faulted, machine>>

call_executor_run ==
  /\ At("executor_run")
  /\ \E c \in executor_run : Continue(c \o Running.code)
  /\ executing' = TRUE
  /\ UNCHANGED <<program, int_enabled, owner, tables, devices, double_faulted, machine>>

(* A panic!, or a failed allocation: alloc_error_handler *)
alloc_error_handler ==
  /\ \/ At("allocated") /\ Continue(Rest)
     \/ At("allocated") /\ Continue(panic(program))
     \/ At("panic") /\ Continue(panic(program))
  /\ UNCHANGED <<program, int_enabled, owner, tables, devices, executing,
                 double_faulted, machine>>

(* An exception of the running code; the push of a page fault's frame on a *)
(* stack that has overflowed is a double fault.                            *)
exception ==
  /\ \/ At("int3") /\ Enter(Breakpoint, NoLine, Rest)
     \/ At("page_fault") /\ Enter(PageFault, NoLine, Running.code)
     \/ At("overflow") /\ Enter(DoubleFault, NoLine, Running.code)
  /\ UNCHANGED <<program, owner, tables, devices, executing>>

iretq ==
  /\ At("iretq")
  /\ stack' = SubSeq(stack, 1, Depth - 1)
  /\ int_enabled' = Running.iflag
  /\ UNCHANGED <<program, owner, tables, devices, executing, double_faulted, machine>>

exit ==
  /\ At("exit_qemu")
  /\ machine' = Argument
  /\ Continue(Rest)
  /\ UNCHANGED <<program, int_enabled, owner, tables, devices, executing, double_faulted>>

Step ==
  \/ without_interrupts \/ set_flag \/ lock \/ load_table \/ eoi \/ read_port
  \/ add_scancode \/ call_executor_run \/ alloc_error_handler \/ exception
  \/ iretq \/ exit

(* Between two instructions the PIC interrupts with the pending line of    *)
(* highest priority, unless one as high is in service.  hlt is then over.  *)
interrupt(line) ==
  /\ machine = "running" /\ int_enabled
  /\ line \in pending
  /\ \A l \in pending : line <= l
  /\ \A l \in in_service : line < l
  /\ pending' = pending \ {line}
  /\ in_service' = in_service \cup {line}
  /\ Enter(line + (IF pic_initialized THEN 32 ELSE 8), line,
           IF At("hlt") THEN Rest ELSE Running.code)
  /\ UNCHANGED <<program, owner, tables, scancode_ready, executing>>

(* The timer ticks, at a period longer than its handler takes. *)
timer_ticks ==
  /\ machine = "running" /\ Timer \notin pending
  /\ \A i \in DOMAIN stack : stack[i].line # Timer
  /\ pending' = pending \cup {Timer}
  /\ UNCHANGED <<program, stack, int_enabled, owner, tables, in_service,
                 scancode_ready, executing, double_faulted, machine>>

(* The keyboard controller has a byte; it waits for it to be read. *)
key_pressed ==
  /\ machine = "running" /\ ~scancode_ready
  /\ scancode_ready' = TRUE
  /\ pending' = pending \cup {Keyboard}
  /\ UNCHANGED <<program, stack, int_enabled, owner, tables, in_service,
                 executing, double_faulted, machine>>

Next == Step \/ interrupt(Timer) \/ interrupt(Keyboard) \/ timer_ticks \/ key_pressed

(* The processor runs handlers, and between interrupts the code that they  *)
(* preempt; it takes an interrupt that is possible again and again; the    *)
(* timer ticks for ever.  Nobody has to press a key.                       *)
Fairness ==
  /\ WF_vars(Depth > 1 /\ Step)
  /\ SF_vars(Depth = 1 /\ Step)
  /\ SF_vars(interrupt(Timer))
  /\ SF_vars(interrupt(Keyboard))
  /\ WF_vars(timer_ticks)

Spec == Init /\ [][Next]_vars /\ Fairness

-----------------------------------------------------------------------------
(* Whoever wants a lock finds it free: no code is ever preempted with a    *)
(* lock that the handler, or what the handler calls, takes.  On one        *)
(* processor waiting is for ever.  vga_buffer.rs:181 and serial.rs:23 ask  *)
(* for this, write_to_vga and PICS rely on the order of the boot, and the  *)
(* allocator on handlers that do not allocate.                             *)
NobodySpins == At("lock") => owner[Argument] = 0

(* A line is in service only while its handler runs: each handler sends    *)
(* its own end-of-interrupt, and none ends another's.                      *)
InServiceIsRunning == in_service \subseteq {stack[i].line : i \in DOMAIN stack}

(* An interrupt never hits a vector without a handler: not before the IDT  *)
(* is loaded and not before the PICs are remapped.  A double fault is only *)
(* ever due to a stack overflow or, with TEST_IDT, to an interrupt, and it *)
(* never resets the machine.                                               *)
DoubleFaultsAreReal ==
  /\ machine # "reset"
  /\ double_faulted => program \in {"overflow", "tests/stack_overflow"}

(* QEMU has exited, or the processor has halted for good: a panic or a     *)
(* page fault was reported, with interrupts off or in the code below.      *)
Stopped == machine # "running" \/ (At("hlt_loop") /\ ~int_enabled)

(* Whatever the kernel does, ticks and keys keep being handled until it    *)
(* stops: interrupts never stay off, no handler gets stuck, the PIC never  *)
(* keeps a line in service, and the controller is always read.             *)
TicksKeepComing == []<>(Timer \in in_service \/ Stopped)
KeysAreRead == scancode_ready ~> (~scancode_ready \/ Stopped)

(* Every entry point gets where it should: the kernel to its executor or,  *)
(* with a fault or without memory for its heap, to the halt behind the     *)
(* report of it, and then never to its executor; each test kernel to       *)
(* QEMU's exit code for success, but for failure without a heap.           *)
Reached ==
  CASE program \in {"kernel_main", "int3"} -> executing
    [] program \in {"no_heap", "page_fault"} -> At("hlt_loop") /\ ~double_faulted
    [] program = "overflow" -> At("hlt_loop") /\ double_faulted
    [] program = "tests/heap_allocation no_heap" -> machine = "Failure"
    [] OTHER -> machine = "Success"
ProgramsReachTheirEnd ==
  <>Reached /\ [](program \in {"no_heap", "page_fault", "overflow"} => ~executing)
=============================================================================
