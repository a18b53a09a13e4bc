# Verification of min-rust-os

TLA+ models of the kernel in `src/min-rust-os`, checked with TLC on small
instances and, where stated, proved with TLAPS for every value of the constants.
Paths below are relative to `src/min-rust-os/src/`.

## The system

The kernel runs on one processor and has one thread of control, `kernel_main`,
which interrupt handlers preempt.

| Part | Source | Interacts with | Module |
|---|---|---|---|
| executor: task map, task queue, waker cache, `hlt` when idle | `task/executor.rs`, `task/mod.rs` | wakers push to its queue, from tasks and from handlers | `Executor` |
| keyboard stream: scancode queue and `AtomicWaker` | `task/keyboard.rs` | filled by the keyboard handler, drained by `print_keypresses` | `Keyboard` |
| interrupt and exception handlers, PIC | `interrupts.rs` | timer and keyboard preempt everything else | `Interrupts`; their effect on the queues in `Executor` and `Keyboard` |
| boot, panic, test runner | `main.rs`, `lib.rs` | sets up the tables, spawns the tasks, runs the executor | `Interrupts`; the tasks in `Keyboard`, the heap in `Memory` |
| global allocator | `allocator/fixed_size_block.rs` | every `Box`, `Arc` and map of the kernel | `FixedSizeBlock` |
| earlier allocators, kept in the tree but not built | `allocator/bump.rs`, `allocator/linked_list.rs` | - | `Bump`, `LinkedList` |
| heap mapping, `Locked`, `Dummy` | `allocator.rs` | frame allocator, page tables, interrupts | `Memory`; the lock in `Interrupts`, `align_up` in `Allocator` |
| paging, frame allocator | `memory.rs` | boot loader's memory map and page tables | `Memory` |
| VGA text buffer | `vga_buffer.rs` | every `println!`, from handlers too | `VgaWriter`; the lock in `Interrupts` |
| serial port | `serial.rs` | test kernels | its lock in `Interrupts` |
| GDT, TSS | `gdt.rs` | double fault stack | its place in the boot order, in `Interrupts` |
| integration tests | `../tests/*.rs` | four kernels of their own | `Interrupts` |
| simple executor, not built | `task/simple_executor.rs` | - | not modelled |

`PROJECT.json` lists these components, the lines behind each definition, the
hazards of the code and the properties that address them.

## Modules

### Executor

`Scheduler` is the abstract specification: tasks are spawned, notified, polled and
finished; an identifier is used once; the processor sleeps only when no task is
ready. It has no queue, no cache and no interrupt flag.

`Executor` is the code. Its state is that of `struct Executor` (`tasks` and
`waker_cache` by their keys, `task_queue` as a sequence), the id counter, the
interrupt flag, the control location `pc`, the task being polled, and `clones`, the
tasks of which a waker exists outside the cache. `notified` and `isr_freed` are
history variables that no guard reads.

The code is cut where an interrupt makes a difference: `run_ready_tasks` at each
pop and at each return of a poll, `sleep_if_idle` at the first check, `disable`, the
second check, and `sti; hlt`, which is one step because `sti` takes effect after
the following instruction. A handler runs to its end with interrupts off and is
one action, enabled while the flag is set. Futures are arbitrary: while polled they
may clone their waker, wake any task whose waker they can reach, drop a clone and
return. A push on a full queue panics; a panic in a handler leaves interrupts off.

Assumed: operations on `ArrayQueue` are atomic (they are lock-free and there is one
processor), and each task has at most one clone of its waker outside the cache.

### Keyboard

`Keyboard` extends `Executor` with the two futures that `kernel_main` spawns. Each of
its actions is an action of `Executor` joined with what it does to the keyboard's
state, so what is proved of the executor with arbitrary futures holds of the kernel.
`poll_next` is cut at each operation on state shared with the handler. `WAKER` is an
`AtomicWaker` of `futures_util`, which is external: `register` claims the slot,
stores the clone and releases the slot, `take` claims and releases, and a `wake` that
finds the slot claimed leaves a mark that `register` acts on. The slot itself is
`clones`. Decoding and printing a byte touches no shared state of the model and is
the step `process`.

### Allocators

`Heap` is the contract of `GlobalAlloc`: a block is aligned, inside the heap, and
disjoint from every block still held; an allocation may fail. `Allocator` holds
`align_up`. `Bump`, `LinkedList` and `FixedSizeBlock` each implement `Heap`. `alloc`
and `dealloc` hold the spin lock throughout, so each is one action. Callers keep to
the contract: sizes are positive and a block is freed at most once, with its own
layout.

- `Bump` keeps the width of `usize` (`UsizeMax`), since `checked_add` is there for
  overflow. `align_up` cannot overflow on a heap below 2^47 with alignments of at most
  2^63; this is the assumption `LayoutAssumption`.
- `LinkedList` keeps the free list in order, since `find_region` is first fit. Two things
  set `panicked`, after which nothing else happens: an assertion that fails in
  `add_free_region`, with the lock held, and `align_to(..).expect` in `size_align`, before
  the lock is taken, for a layout whose size overflows `usize` (`UsizeMax`) when it is
  rounded up to the alignment of a node (`adjusts`).
- `FixedSizeBlock` keeps one list per block size. Its fallback,
  `linked_list_allocator::Heap`, is external: it returns any suitable region it has not
  handed out, or fails.

`peak` and `padding` are history variables.

### Memory

`AddressSpace` is the abstract specification: a partial function from pages to
frames that grows by one page at a time, each with a frame of its own (except that of
the VGA buffer). `Memory` is the code: `BootInfoFrameAllocator` (`memory_map`, `next`),
the page tables by the frames they occupy, and the control of `kernel_main` through
`create_example_mapping` (commented out in `main.rs`, and so optional) and `init_heap`.
The refinement mapping is the walk of `translate_addr_inner`, written as `reach`, with
`index` obtained as the crate does, by shifting the page's number (`shifted`).
`Mapper::map_to` is external, one step per level: it takes frames for missing tables from
the same allocator and fails on a huge page, a page in use or a lack of frames. An
error leaves the pages before it mapped, and `expect` panics. `boot` is a history
variable.

### VGA writer

`VgaWriter` has the buffer, the column of each writer, and the printed text as a
history variable. Each writer has strings of its own: the library prints parts of lines
(dots, keys) too, the binary whole lines only. `_print` holds the lock with interrupts
off and is one action. `write_byte`, `new_line` and the replacement of unprintable bytes
are operators, compared with a reference definition of the row and column each byte of
the text belongs to, in terms of the newlines before it and its offset in its line.
Colours never change and are left out.

### Interrupts

`Interrupts` is the composition of the handlers with all the code they can preempt.
Code is a sequence of instructions: those that touch the interrupt flag, a lock, a
descriptor table or a device. `stack` holds what is left of each preempted context;
an interrupt or exception pushes the handler found in the loaded table, `iretq` pops
it. A vector without a handler is a double fault; a double fault without its handler
or stack resets the machine. The PIC has requested lines, lines in service and
priorities, and sends vectors 8 and 9 until it is remapped. The keyboard controller keeps
its byte until port 0x60 is read. The programs are `kernel_main`, the same with each of
the faults it has in comments (stack overflow, page fault, breakpoint), the library's
test kernel and the four integration tests; `kernel_main` and `tests/heap_allocation.rs`
also with too little memory for the heap, where `init_heap(..).expect` panics. What the executor's tasks do is abstracted
to: print, allocate (perhaps failing), check the queue, sleep.

That handlers do not allocate or free is not assumed lightly: it is
`KernelHandlerNeverFrees`, proved in `TaskProofs`. Once there is a heap, allocations fail
only in the executor's tasks; the boot's few small ones fit its 100 KiB. When `init_heap`
fails is the subject of `Memory`. `PICS.initialize`
keeps requests that are pending.

## Runs

| Run | Instance | Distinct states | Shows |
|---|---|---|---|
| `executor` | 3 tasks, queue of 3 | 36456 | safety, liveness and refinement of `Scheduler` |
| `executor_handler_frees` | 2 tasks, queue of 3 | violation | a handler can free the waker of a finished task |
| `keyboard` | 2 tasks, task queue of 4, scancode queue of 2, 2 scancodes | 914 | safety, and liveness: bytes are yielded, the example task finishes, and the processor comes to rest when no keys come |
| `keyboard_queue_full` | 2 tasks, task queue of 4, 1 scancode | violation | two tasks fill the queue |
| `bump` | heap of 10 bytes, 4 layouts, `usize` of 5 bits | 3664 | refinement of `Heap`, reset, overflow, `align_up` against the bit mask |
| `linked_list` | heap of 24 bytes, nodes of 4, 5 layouts, `usize` of 6 bits | 22457 | refinement of `Heap`, no byte lost or shared |
| `linked_list_excess` | the same, with the 4 layouts that can be adjusted | violation | an excess smaller than a node panics |
| `fixed_size_block` | heap of 12 bytes, blocks of 2 and 4, 4 layouts | 7372 | refinement of `Heap`, single ownership, footprint |
| `memory` | 3 levels of tables with 2 entries, heap of 3 pages, 30 memory maps, 5 sets of boot tables | 3042 | refinement of `AddressSpace`, no frame given a second use, the heap is mapped or the kernel panics for a reason |
| `vga` | screen of 3 rows and 2 columns, 9 bytes of text | 13508 | the screen shows the end of the text |
| `vga_two_writers` | the same with two writers, 4 bytes | violation | what the library prints leaves the binary's column behind |
| `interrupts` | 11 programs, timer and keyboard | 6132 | no deadlock on a lock, boot order, end-of-interrupt, liveness of ticks, keys and programs |

Why the bounds are enough. Three queue entries hold a stale id, a duplicate and a
live id at once, and overflow within reach of three tasks. Four entries let the
keyboard task be queued several times while it runs before the overflow. A
scancode queue of two is empty, part full and full. The heaps hold two to four
blocks of different classes at a time, with layouts that fit exactly, need padding,
leave too little, do not fit, and (for `bump` and `linked_list`) overflow. The capacity of the task queue
is 100 in the code; the theorems hold for every capacity. The heap of `memory`
crosses a boundary of the top-level table, so that tables are missing, shared and
found; the memory maps run from no usable frame to more than needed, over two
regions, so that every call of `allocate_frame` fails in some of them. The heap ends
on a page boundary, as the kernel's does. Nine bytes fill the small screen, scroll
it and wrap with a newline at, before and after the end of a row. In `interrupts` at
most one request per line is pending, as in the PIC; no other bound is needed, for
handlers do not nest.

Fairness. `Executor` assumes that the processor executes instructions between
interrupts and that polls return (`WF(Executing)`), and that the timer never stops
(`WF(other_interrupt)`); the PIT is programmed for ever and each handler sends its
end-of-interrupt. `Keyboard` assumes weak fairness of the kernel's steps and the
timer, and not that the keyboard task's poll returns: keys that keep coming keep it
running, which is the exception that `KernelComesToRest` makes. Nobody has to press a
key. Every liveness property of these two allows the kernel to panic
instead.

`Interrupts` assumes that handlers execute their instructions (`WF`), that preempted
code gets to execute instructions between interrupts (`SF` of the steps of the
outermost context) and that an interrupt that is possible again and again is taken
(`SF(interrupt)`), although `_print` turns the flag off again and again; and that the
timer ticks for ever (`WF(timer_ticks)`), with a period longer than its handler
takes, without which no preempted code would ever continue. Its properties allow
for a halt after a panic or page fault, and for QEMU's exit.

### What the violations show

- `executor.rs:22` says the waker cache "ensures that reference-counted wakers are
  not deallocated inside interrupt handlers". That holds for live tasks only: the
  cached waker goes with the finished task, and a clone that is still registered is
  then the last reference. The kernel's own two tasks never get there, which is
  proved (`KeyboardHandlerNeverFrees`).
- `executor.rs:31` ties the capacity of the task queue to the number of concurrent
  tasks. It bounds wake-ups: keys that arrive between `register` and the second pop
  queue the running keyboard task once per round of its loop, and the push that finds
  the queue full panics in the handler. The instance has four entries; with 100 it
  takes as many such rounds within one poll.
- `linked_list.rs:118-122` describes a check of the excess size that
  `alloc_from_region` does not make. The assertion at line 70 fails instead, with the
  lock held.
- `vga_buffer.rs:65` says that the column "keeps track of the current position in the
  last row". `mod vga_buffer` in `main.rs:31` compiles the file a second time, so the
  binary's `println!` and the library's `print!` have a `WRITER` each, over one buffer.
  Every print of the binary ends in a newline, but the dots of ticks and typed keys do
  not: they leave the binary's column behind, and its next text overwrites them.

## Theorems

`TaskProofs` is about `Executor` and `Keyboard`. For the executor it proves
`Spec => []ExecutorInv`, for every capacity and number of tasks.
The properties are not inductive on their own; `ExecutorInv` adds
`ControlInv` (at `enable_and_hlt` interrupts are off and the queue is empty, which is
why no handler can slip in before `hlt`; a task is current exactly while it is
polled, and is then live and cached) and `IssuedInv` (every task, clone and freed
waker has an id already issued, so `spawn` finds its slot free and a new task is not
one whose waker was freed). From it follow type correctness, `NoLostWakeup`,
`SleepsOnlyWhenIdle`, `CacheCorrect`, `LiveWakersSurviveHandlers` and the refinement
`ExecutorImplementsScheduler`, whose step lemma has one case per action.

For the kernel's two tasks (`KernelTasks`, a hypothesis of these theorems) it proves first
that every step of the kernel is a step of the executor, so `ExecutorInv` holds of the
kernel as well. `KeyboardInv` adds `SlotInv` (the state word of `WAKER` agrees with where
`poll_next` is), `OwnerInv` (only the keyboard task has a clone; it never finishes) and `ArmedInv` (wherever the task is suspended or
about to be, it is queued or its waker is registered with the scancode queue empty).
Results: `ScancodesHaveAReader`, `SuspendedTaskIsArmed`,
`KeyboardHandlerNeverFrees`, `KeyboardTypeCorrect`.

`BumpProofs` proves `BumpInv`: before `init` everything is zero and nothing can be
allocated; afterwards `next` lies between the bounds, past every block held, and
the counter is the cardinality of the set of blocks. Results:
`BumpTypeCorrect`, `BumpNextIsUnused`, `BumpReclaims`, `BumpImplementsHeap`.

`KernelLemmas` has what the modules below share: the arithmetic of `align_up` and of
quotients, facts about sequences, and `UpTo`, induction up to a number for a set
(obtained from the least element of its complement), which stands in for the
induction theorems that take an operator.

`FixedSizeBlockProofs` proves `BlockInv` for every heap, block sizes and layouts. Next to
`OneOwner` (a region is held or in one place of one list) it needs that all regions
taken from the fallback are apart and in the heap, and that a block of a block size,
held or free, is aligned to that size. So it suits any layout of the size when it is
reused, because both are powers of two (`PowersOfTwoAssumption`: the smaller divides
the larger). Results:
`BlockTypeCorrect`, `BlockOneOwner`, `BlockSizesAreKept`, `BlockImplementsHeap`. A
counting argument is behind `BlockFootprintIsPeak`: a new block is taken only while the
list is empty, that is, while as many blocks are held as the class owns.

`LinkedListProofs` proves `ListInv`: the list is empty before `init`; free and held
regions are pairwise apart and in the heap; free regions are aligned and large
enough for a node; held ones have a layout that can be adjusted, and the alignment of
that layout and of a node, which is what lets `dealloc` put them back. Results: `ListRegionsApart`,
`ListRegionsHoldNodes`, `ListDeallocNeverPanics`, `ListImplementsHeap`.
`AccountInv` then counts the set of bytes covered by free and held regions. As these are
apart, cutting a block out of a region uncovers exactly the bytes skipped in front of it,
and `dealloc` covers what its caller held. Results: `ListBytesAccounted`, and with it the
bound on `padding` in `ListTypeCorrect`.

`MemoryProofs` first proves what the recursive walk `reach` computes, by induction on the
level: pages that agree on the indices above a level share the path down to it
(`SharedPath`), no two paths meet in one table (`UniquePath`, as the tables form a
tree), and a new entry, for a table or a page, changes the walks through it and no other
(`WalksAfter`). Three invariants build on each other.

- `FrameInv`: the frames behind `next` are neither tables nor in any entry, and the frame
  that `map_to` is about to enter is in no entry either, unless it is that of the VGA
  buffer. An entry that has been added is therefore the only one with its frame, whatever
  the boot loader's own entries share. Result: `NoSecondUseAdded`.
- `WalkInv`: `map_to` stands at the table that its page's walk reaches, the tables are
  still walked from table to table, and each heap page before `page` leads to a usable
  frame (`UniquePath` makes those frames distinct). Results: `HeapIsMappedAlways`, and the
  refinement `MemoryImplementsAddressSpace`, in which making a table is a stuttering step.
- `CountInv`: `next` is the number of pages mapped so far plus the
  number of tables that walks lacked at boot and have now; all of these are tables
  that the heap needs, walks only get further than at boot, and an error has its excuse.
  At the end no needed table is missing. Result: `InitHeapTakesExactly`.

They rest on four assumptions. `PagesAssumption`: page numbers fit the indices of all
levels, and the heap is not empty and does not contain the example's page, that of address
0 (`main.rs:167`). `MemoryMapAssumption`: regions do not overlap. `BootTablesAssumption`:
what the boot loader uses is not marked usable, as `memory.rs:178-180` says, and its page
tables are well formed (above the last level an entry in use refers to a table).
`BootTreeAssumption`: in the boot loader's page tables no frame but that of the VGA buffer
is in two entries. Nothing in the repository says this; a boot loader that mapped a frame
twice, or shared a table, would break it. `FrameInv` and `NoSecondUseAdded` do without
it; `UniquePath`, and with it the results of `WalkInv` and `CountInv`, need it.

`VgaWriterProofs` proves, for every size of the buffer and all strings, that one writer
shows what it was given. `WriterInv` relates the writer to the whole text printed: the
column is the length of the last line less the rows it has filled, where a full row is
not yet a new one (`ColumnFits`); the bytes of the last row are left of the column
(`LeftOf`); and the screen shows the text. One more byte either starts a row, and then every
byte is one row further back, or none moves. `write_string` is a recursive function, and
`UpTo` carries the invariant along it. Results: `ScreenAlwaysShowsText`, and
`OneWriterColumn`: what `vga_buffer.rs:65` says is true of one writer. The hypothesis is
`Writers = {w}`; for two writers it is false, which is what `vga_two_writers` shows.

`InterruptsProofs` separates what the code does from what preempts it. `Disciplined` is the
discipline that the code keeps: a lock is given back right after it was taken; any lock
but the allocator's is taken inside `without_interrupts` or before the PICs are
initialized; interrupts are enabled, and exceptions raised, only after `load_tss`,
`load_idt` and `initialize`. Handlers allocate nothing, raise nothing and enable nothing, and
those of the PIC's lines send their end-of-interrupt before `iretq`.
`EntryPointsDisciplined` shows this of `kernel_main` with and without its faults and of
every test kernel, piece by piece: each of `print`, `init`, `use_heap`, `run` and the rest has
a lemma, and lemmas about concatenation put them together.

`KernelInvariant` is then for any set of programs with the discipline. `KernelInv` says that
handlers do not nest (interrupts are off in one, and it ends with what it has in service
taken out); that the code below keeps the discipline with what it has already done (`BaseOK`:
each table is loaded or will be before it is needed, and the flag, on or saved, means that all
are); and that a lock that is taken is about to be given back by the context that runs,
except the allocator's, which a preempted context may hold (`LockInv`). The last part is why
`NobodySpins` is not inductive: it depends on what every context will do next. The proof
has one lemma per action. Results, for every set of the entry points: `NobodyEverSpins`,
`InServiceAlwaysRunning`, `DoubleFaultsAlwaysReal`.

The assumptions are the ASSUMEs of the modules: positive capacities and buffer sizes,
strings made of bytes, a heap that ends within `usize`, positive sizes and alignments, and
those named above. TLC evaluates each on the instance of its run, and `KernelTasks` on that
of `keyboard`.

Only model-checked: all liveness (outside the prover's reach), and the agreement of
`align_up` with the bit mask (`MaskRoundsUp`), as the prover cannot use the definition of
bitwise operators.

## Not modelled

- `task/simple_executor.rs` is not part of the build (its `mod` line is commented out). It
  polls its tasks in rotation with a waker that does nothing, so neither wake-ups nor
  sleep nor interrupts matter to it.
- `Dummy` and `EmptyFrameAllocator` have no state. A memory map without usable regions
  behaves like the latter.
- Dead code: `print_something`, `write_to_vga_unsafe`. The lines of `kernel_main` behind
  `executor.run()`, which never returns, cannot be reached; `test_main` is among them, so
  `cargo test` runs no tests of the binary crate itself.
- In `tests/stack_overflow.rs` interrupts are on when `TEST_IDT`, with its one handler, is
  loaded. A tick before the overflow is then a double fault, and the test reports
  success without an overflow. The model has this behaviour; `DoubleFaultsAreReal`
  exempts that program.
- Decoding of scancodes and formatting (library code without shared state), the
  contents of descriptors, the size of the double fault stack, the UART, and lines of the
  PICs other than the two the kernel handles.
