----------------------------- MODULE LinkedList -----------------------------
(***************************************************************************)
(* allocator/linked_list.rs: the first-fit allocator that keeps a list of  *)
(* free regions inside the free memory itself.                             *)
(*                                                                         *)
(* The list is a sequence of regions, the head's successor first.  Callers *)
(* keep to the contract of GlobalAlloc, as in Bump.tla; alloc and dealloc  *)
(* run under the spin lock.  A sum that overflows usize exceeds the end of *)
(* every region, so checked_add needs no case of its own.                  *)
(***************************************************************************)
EXTENDS Allocator, Sequences, FiniteSetsExt

CONSTANTS HeapStart, HeapSize,
          Layouts,    \* records [size, align]
          UsizeMax,   \* usize::MAX
          NodeSize,   \* mem::size_of::<ListNode>()
          NodeAlign   \* mem::align_of::<ListNode>()

HeapEnd == HeapStart + HeapSize

ASSUME HeapAssumption ==
  /\ HeapStart \in Nat \ {0} /\ HeapSize \in Nat \ {0}
  /\ UsizeMax \in Nat /\ HeapEnd <= UsizeMax
  /\ NodeSize \in Nat \ {0} /\ NodeAlign \in Nat \ {0}
  /\ NodeSize % NodeAlign = 0
  /\ HeapStart % NodeAlign = 0 /\ HeapSize >= NodeSize

(* What Layout ensures: a size rounded up to the alignment is a usize. *)
ASSUME LayoutAssumption ==
  /\ Layouts \subseteq [size : Nat \ {0}, align : Nat \ {0}]
  /\ \A l \in Layouts : l.size + (l.align - 1) <= UsizeMax

(* Alignments are powers of two, so one of two divides the other. *)
ASSUME PowersOfTwoAssumption ==
  \A l \in Layouts : \/ \E k \in 1 .. l.align : l.align = k * NodeAlign
                     \/ \E k \in 1 .. NodeAlign : NodeAlign = k * l.align

VARIABLES free,        \* the regions [start, size] reachable from head
          live,        \* blocks the callers hold
          initialised, \* init_heap has called init
          padding,     \* history: bytes skipped in front of aligned blocks
          panicked     \* an expectation or an assertion failed

vars == <<free, live, initialised, padding, panicked>>

Region(start, size) == [start |-> start, size |-> size]

region_end(region) == region.start + region.size

TypeOK ==
  /\ free \in Seq([start : HeapStart .. HeapEnd - 1, size : 1 .. HeapSize])
  /\ live \subseteq [start : HeapStart .. HeapEnd - 1, layout : Layouts]
  /\ padding \in 0 .. HeapSize
  /\ initialised \in BOOLEAN /\ panicked \in BOOLEAN

(* LinkedListAllocator::new *)
Init ==
  /\ free = <<>> /\ live = {}
  /\ initialised = FALSE /\ padding = 0 /\ panicked = FALSE

-----------------------------------------------------------------------------
(* Mutation: add_free_region does not check that a node fits. *)
can_hold_node_unchecked(addr, size) == TRUE

(* The two assertions of add_free_region *)
can_hold_node(addr, size) ==
  /\ align_up(addr, NodeAlign) = addr
  /\ size >= NodeSize

(* add_free_region(addr, size) puts a node in front of `list', or panics. *)
add_free_region(addr, size, list) ==
  IF can_hold_node(addr, size)
  THEN free' = <<Region(addr, size)>> \o list /\ UNCHANGED panicked
  ELSE free' = list /\ panicked' = TRUE

(* LinkedListAllocator::init, called once, by init_heap *)
init ==
  /\ ~panicked /\ ~initialised
  /\ initialised' = TRUE
  /\ add_free_region(HeapStart, HeapSize, free)
  /\ UNCHANGED <<live, padding>>

(* size_align: layout.align_to(align_of ListNode).pad_to_align(), and at   *)
(* least the size of a node                                                *)
adjusted_align(layout) == Max({layout.align, NodeAlign})

(* align_to returns a layout: the size is one for the new alignment too *)
adjusts(layout) == layout.size + (adjusted_align(layout) - 1) <= UsizeMax

(* Mutation: the size is padded, but may be too small for a node. *)
adjusted_size_padded(layout) == align_up(layout.size, adjusted_align(layout))

adjusted_size(layout) ==
  Max({align_up(layout.size, adjusted_align(layout)), NodeSize})

(* Mutation: the start of the region, whatever the alignment. *)
alloc_start_unaligned(region, layout) == region.start

alloc_start(region, layout) == align_up(region.start, adjusted_align(layout))

alloc_end(region, layout) == alloc_start(region, layout) + adjusted_size(layout)

(* Mutation: every region is taken for suitable. *)
suitable_always(region, layout) == TRUE

(* alloc_from_region returns Ok *)
suitable(region, layout) == alloc_end(region, layout) <= region_end(region)

(* Mutation: the region found stays in the list. *)
unlink_nothing(i) == free

(* find_region takes the region it found out of the list. *)
unlink(i) == SubSeq(free, 1, i - 1) \o SubSeq(free, i + 1, Len(free))

(* Mutation: what is left of the region is not put back. *)
give_back_nothing(region, layout, list) ==
  free' = list /\ UNCHANGED panicked

(* alloc puts what is left behind the block back into the list. *)
give_back(region, layout, list) ==
  LET end == alloc_end(region, layout)
      excess_size == region_end(region) - end
  IN IF excess_size > 0
     THEN add_free_region(end, excess_size, list)
     ELSE free' = list /\ UNCHANGED panicked

(* find_region's first suitable region, if there is one; else a null       *)
(* pointer                                                                 *)
alloc_first_fit(layout) ==
  LET found == {i \in DOMAIN free : suitable(free[i], layout)}
      i == Min(found)
      start == alloc_start(free[i], layout)
  IN IF found = {}
     THEN UNCHANGED vars
     ELSE /\ give_back(free[i], layout, unlink(i))
          /\ live' = IF panicked' THEN live
                     ELSE live \cup {Block(start, layout)}
          /\ padding' = padding + (start - free[i].start)
          /\ UNCHANGED initialised

(* GlobalAlloc::alloc; size_align panics before the lock is taken. *)
alloc(layout) ==
  /\ ~panicked
  /\ IF adjusts(layout)
     THEN alloc_first_fit(layout)
     ELSE panicked' = TRUE /\ UNCHANGED <<free, live, initialised, padding>>

(* GlobalAlloc::dealloc *)
dealloc(b) ==
  /\ ~panicked
  /\ live' = live \ {b}
  /\ IF adjusts(b.layout)
     THEN add_free_region(b.start, adjusted_size(b.layout), free)
     ELSE panicked' = TRUE /\ UNCHANGED free
  /\ UNCHANGED <<initialised, padding>>

(* The panic handler never returns, and a lock held is never released. *)
hlt_loop == panicked /\ UNCHANGED vars

Next ==
  \/ init
  \/ \E layout \in Layouts : alloc(layout)
  \/ \E b \in live : dealloc(b)
  \/ hlt_loop

Spec == Init /\ [][Next]_vars

-----------------------------------------------------------------------------
Extent(b) == Region(b.start, adjusted_size(b.layout))

Apart(r, s) == region_end(r) <= s.start \/ region_end(s) <= r.start

(* No byte is both free and held, or free twice, or held twice: however    *)
(* regions are split, reused and returned in any order, the memory that    *)
(* nodes are written to is no caller's.                                    *)
RegionsApart ==
  /\ \A i, j \in DOMAIN free : i # j => Apart(free[i], free[j])
  /\ \A i \in DOMAIN free, b \in live : Apart(free[i], Extent(b))
  /\ \A b, c \in live : b # c => Apart(Extent(b), Extent(c))

(* Every region in the list has room for its node, at an address a node    *)
(* may have, inside the heap: size_align makes a freed block hold one.     *)
FreeRegionsHoldNodes ==
  \A i \in DOMAIN free : /\ free[i].start % NodeAlign = 0
                         /\ free[i].size >= NodeSize
                         /\ HeapStart <= free[i].start
                         /\ region_end(free[i]) <= HeapEnd

(* Freeing a block fails neither the expectation of size_align nor the     *)
(* assertions of add_free_region: only an allocation panics.               *)
DeallocNeverPanics ==
  \A b \in live : adjusts(b.layout) /\ can_hold_node(b.start, adjusted_size(b.layout))

Bytes(region) == region.start .. region_end(region) - 1

(* The bytes that are free or held *)
Covered(list, held) == (UNION {Bytes(list[i]) : i \in DOMAIN list})
                       \cup (UNION {Bytes(Extent(b)) : b \in held})

(* Nothing is lost but alignment padding: the bytes that are free, those   *)
(* held and those skipped in front of blocks make up the whole heap.       *)
BytesAccounted ==
  initialised /\ ~panicked => Cardinality(Covered(free, live)) + padding = HeapSize

(* linked_list.rs:118-122 says that alloc_from_region accepts a region     *)
(* only if the block fits exactly or leaves room for a node, so that       *)
(* add_free_region's assertion holds.                                      *)
ExcessHoldsNode == ~panicked

(* The linked list allocator keeps the promises of a global allocator. *)
Abstract == INSTANCE Heap

ImplementsHeap == Abstract!Spec
=============================================================================
