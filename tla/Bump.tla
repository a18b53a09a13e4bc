-------------------------------- MODULE Bump --------------------------------
(***************************************************************************)
(* allocator/bump.rs: the bump allocator, which hands out memory from one  *)
(* end of the heap and starts over when nothing is allocated any more.     *)
(*                                                                         *)
(* Callers keep to the contract of GlobalAlloc: sizes are not zero, and a  *)
(* block is deallocated at most once, with the layout it was allocated     *)
(* with.  alloc and dealloc hold the spin lock from their first to their   *)
(* last access, so each is one action.                                     *)
(***************************************************************************)
EXTENDS Allocator, FiniteSets

CONSTANTS HeapStart, HeapSize,
          Layouts,    \* records [size, align]
          UsizeMax    \* usize::MAX

ASSUME HeapAssumption ==
  /\ HeapStart \in Nat \ {0} /\ HeapSize \in Nat \ {0} /\ UsizeMax \in Nat
  /\ HeapStart + HeapSize <= UsizeMax

(* The last conjunct says that align_up does not overflow: the heap ends   *)
(* below 2^47 and an alignment is at most 2^63.                            *)
ASSUME LayoutAssumption ==
  \A l \in Layouts : /\ l \in [size : Nat \ {0}, align : Nat \ {0}]
                     /\ HeapStart + HeapSize + l.align - 1 <= UsizeMax

VARIABLES heap_start, heap_end, next, allocations,
          live   \* blocks the callers hold

vars == <<heap_start, heap_end, next, allocations, live>>

TypeOK ==
  /\ heap_start \in 0 .. UsizeMax /\ heap_end \in 0 .. UsizeMax
  /\ next \in 0 .. UsizeMax
  /\ allocations \in Nat
  /\ live \subseteq [start : 0 .. UsizeMax, layout : Layouts]

(* BumpAllocator::new *)
Init ==
  /\ heap_start = 0 /\ heap_end = 0 /\ next = 0 /\ allocations = 0
  /\ live = {}

(* BumpAllocator::init, called once, by init_heap *)
init ==
  /\ heap_end = 0
  /\ heap_start' = HeapStart
  /\ heap_end' = HeapStart + HeapSize
  /\ next' = HeapStart
  /\ UNCHANGED <<allocations, live>>

(* Mutation: the sum that overflows wraps around instead of failing. *)
alloc_wrapping(layout) ==
  LET alloc_start == align_up(next, layout.align)
      alloc_end == (alloc_start + layout.size) % (UsizeMax + 1)
  IN IF alloc_end > heap_end
     THEN UNCHANGED vars
     ELSE /\ next' = alloc_end
          /\ allocations' = allocations + 1
          /\ live' = live \cup {Block(alloc_start, layout)}
          /\ UNCHANGED <<heap_start, heap_end>>

(* GlobalAlloc::alloc: checked_add fails beyond usize::MAX; a null pointer *)
(* leaves the state as it is.                                              *)
alloc(layout) ==
  LET alloc_start == align_up(next, layout.align)
      alloc_end == alloc_start + layout.size
  IN IF alloc_end > UsizeMax \/ alloc_end > heap_end
     THEN UNCHANGED vars
     ELSE /\ next' = alloc_end
          /\ allocations' = allocations + 1
          /\ live' = live \cup {Block(alloc_start, layout)}
          /\ UNCHANGED <<heap_start, heap_end>>

(* Mutation: the heap starts over while one block is still allocated. *)
dealloc_early(b) ==
  /\ b \in live
  /\ live' = live \ {b}
  /\ allocations' = allocations - 1
  /\ next' = IF allocations' <= 1 THEN heap_start ELSE next
  /\ UNCHANGED <<heap_start, heap_end>>

(* Mutation: the heap never starts over. *)
dealloc_no_reset(b) ==
  /\ b \in live
  /\ live' = live \ {b}
  /\ allocations' = allocations - 1
  /\ UNCHANGED <<heap_start, heap_end, next>>

(* GlobalAlloc::dealloc *)
dealloc(b) ==
  /\ b \in live
  /\ live' = live \ {b}
  /\ allocations' = allocations - 1
  /\ next' = IF allocations' = 0 THEN heap_start ELSE next
  /\ UNCHANGED <<heap_start, heap_end>>

Next ==
  \/ init
  \/ \E layout \in Layouts : alloc(layout)
  \/ \E b \in live : dealloc(b)

Spec == Init /\ [][Next]_vars

-----------------------------------------------------------------------------
(* next always points past every block still held, inside the heap: the    *)
(* memory alloc returns next is in no one's hands.                         *)
NextIsUnused ==
  /\ heap_start <= next /\ next <= heap_end
  /\ \A b \in live : heap_start <= b.start /\ BlockEnd(b) <= next

(* The counter that decides when the heap starts over counts the blocks    *)
(* held, so the decrement in dealloc never underflows.                     *)
AllocationsCountsLive == allocations = Cardinality(live)

(* When the last block is freed, the complete heap is available again. *)
EmptyHeapIsReset == live = {} => next = heap_start

(* The bump allocator keeps the promises of a global allocator. *)
Abstract == INSTANCE Heap

ImplementsHeap == Abstract!Spec
=============================================================================
