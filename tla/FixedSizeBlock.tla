--------------------------- MODULE FixedSizeBlock ---------------------------
(***************************************************************************)
(* allocator/fixed_size_block.rs, the kernel's global allocator: a list of *)
(* free blocks for each block size, filled on deallocation, and a fallback *)
(* allocator for everything else.                                          *)
(*                                                                         *)
(* The fallback, linked_list_allocator::Heap, is not part of this code: it *)
(* returns any suitable region that it has not handed out, or fails.       *)
(* Callers keep to the contract of GlobalAlloc, as in Bump.tla.            *)
(***************************************************************************)
EXTENDS Allocator, Sequences, FiniteSets, FiniteSetsExt

CONSTANTS HeapStart, HeapSize,
          Layouts,      \* records [size, align]
          BLOCK_SIZES,  \* an ascending sequence of powers of two
          NodeSize      \* size and alignment of a ListNode

HeapEnd == HeapStart + HeapSize

Indices == DOMAIN BLOCK_SIZES

ASSUME HeapAssumption ==
  HeapStart \in Nat \ {0} /\ HeapSize \in Nat \ {0} /\ NodeSize \in Nat

ASSUME LayoutAssumption ==
  Layouts \subseteq [size : Nat \ {0}, align : Nat \ {0}]

(* The assertions of dealloc are about constants: they hold of all block   *)
(* sizes or fail at the first deallocation.                                *)
ASSUME BlockSizesAssumption ==
  /\ BLOCK_SIZES \in Seq(Nat \ {0})
  /\ \A i \in Indices : NodeSize <= BLOCK_SIZES[i]
  /\ \A i, j \in Indices : i < j => BLOCK_SIZES[i] < BLOCK_SIZES[j]

(* Block sizes and alignments are powers of two. *)
ASSUME PowersOfTwoAssumption ==
  \A l \in Layouts, i \in Indices :
    l.align <= BLOCK_SIZES[i] => \E k \in 0 .. BLOCK_SIZES[i] : BLOCK_SIZES[i] = k * l.align

VARIABLES list_heads,  \* for each index the free blocks, the head first
          fallback,    \* regions [start, size] the fallback has handed out
          live,        \* blocks the callers hold
          initialised, \* init_heap has called init
          peak         \* history: most blocks of each size held at a time

vars == <<list_heads, fallback, live, initialised, peak>>

Region(start, size) == [start |-> start, size |-> size]

TypeOK ==
  /\ list_heads \in [Indices -> Seq(HeapStart .. HeapEnd - 1)]
  /\ fallback \subseteq [start : HeapStart .. HeapEnd - 1, size : 1 .. HeapSize]
  /\ live \subseteq [start : HeapStart .. HeapEnd - 1, layout : Layouts]
  /\ initialised \in BOOLEAN
  /\ peak \in [Indices -> Nat]

(* FixedSizeBlockAllocator::new: empty lists and Heap::empty() *)
Init ==
  /\ list_heads = [i \in Indices |-> <<>>]
  /\ fallback = {} /\ live = {} /\ initialised = FALSE
  /\ peak = [i \in Indices |-> 0]

(* FixedSizeBlockAllocator::init, called once, by init_heap *)
init ==
  /\ ~initialised
  /\ initialised' = TRUE
  /\ UNCHANGED <<list_heads, fallback, live, peak>>

-----------------------------------------------------------------------------
(* Mutation: the alignment is not taken into account. *)
fitting_by_size(layout) ==
  {i \in Indices : BLOCK_SIZES[i] >= layout.size}

(* The block sizes that hold the layout *)
fitting(layout) ==
  {i \in Indices : BLOCK_SIZES[i] >= Max({layout.size, layout.align})}

(* list_index returns Some *)
has_index(layout) == fitting(layout) # {}

(* The index of the first block size that fits *)
list_index(layout) == Min(fitting(layout))

Class(i) == {b \in live : has_index(b.layout) /\ list_index(b.layout) = i}

(* linked_list_allocator::Heap::allocate_first_fit and deallocate *)
allocate_first_fit(size, align, start) ==
  /\ initialised
  /\ align_up(start, align) = start
  /\ start + size <= HeapEnd
  /\ \A r \in fallback : start + size <= r.start \/ r.start + r.size <= start
  /\ fallback' = fallback \cup {Region(start, size)}

deallocate(start, size) == fallback' = fallback \ {Region(start, size)}

(* fallback_alloc: a null pointer, or a block for the caller *)
fallback_alloc(size, align, layout) ==
  \/ UNCHANGED <<fallback, live>>
  \/ \E start \in HeapStart .. HeapEnd - 1 :
       /\ allocate_first_fit(size, align, start)
       /\ live' = live \cup {Block(start, layout)}

(* Mutation: the head is returned but not taken from the list. *)
pop_kept(i, layout) ==
  /\ live' = live \cup {Block(Head(list_heads[i]), layout)}
  /\ UNCHANGED <<list_heads, fallback>>

(* list_heads[index].take() is Some(node): its successor is the new head. *)
pop(i, layout) ==
  /\ list_heads' = [list_heads EXCEPT ![i] = Tail(@)]
  /\ live' = live \cup {Block(Head(list_heads[i]), layout)}
  /\ UNCHANGED fallback

(* The list is empty: a new block of the block size, aligned to it *)
new_block(i, layout) ==
  /\ fallback_alloc(BLOCK_SIZES[i], BLOCK_SIZES[i], layout)
  /\ UNCHANGED list_heads

(* Mutation: lists are not consulted, each block comes from the fallback. *)
alloc_new(layout) ==
  /\ IF has_index(layout)
     THEN new_block(list_index(layout), layout)
     ELSE fallback_alloc(layout.size, layout.align, layout) /\ UNCHANGED list_heads
  /\ peak' = [i \in Indices |-> Max({peak[i], Cardinality(Class(i)')})]
  /\ UNCHANGED initialised

(* GlobalAlloc::alloc *)
alloc(layout) ==
  /\ IF has_index(layout)
     THEN LET index == list_index(layout)
          IN IF list_heads[index] # <<>>
             THEN pop(index, layout)
             ELSE new_block(index, layout)
     ELSE fallback_alloc(layout.size, layout.align, layout) /\ UNCHANGED list_heads
  /\ peak' = [i \in Indices |-> Max({peak[i], Cardinality(Class(i)')})]
  /\ UNCHANGED initialised

(* Mutation: blocks go back to the fallback, which never gave them out     *)
(* with this size.                                                         *)
push_fallback(b) ==
  /\ deallocate(b.start, b.layout.size)
  /\ UNCHANGED list_heads

(* Mutation: the node is written behind the block. *)
push_behind(b) ==
  /\ list_heads' = [list_heads EXCEPT ![list_index(b.layout)] =
                      <<b.start + BLOCK_SIZES[list_index(b.layout)]>> \o @]
  /\ UNCHANGED fallback

(* The freed block becomes the head of its list. *)
push(b) ==
  /\ list_heads' = [list_heads EXCEPT ![list_index(b.layout)] = <<b.start>> \o @]
  /\ UNCHANGED fallback

(* GlobalAlloc::dealloc *)
dealloc(b) ==
  /\ IF has_index(b.layout)
     THEN push(b)
     ELSE deallocate(b.start, b.layout.size) /\ UNCHANGED list_heads
  /\ live' = live \ {b}
  /\ UNCHANGED <<initialised, peak>>

Next ==
  \/ init
  \/ \E layout \in Layouts : alloc(layout)
  \/ \E b \in live : dealloc(b)

Spec == Init /\ [][Next]_vars

-----------------------------------------------------------------------------
(* The region of the fallback behind a block in a caller's hands *)
RegionOf(b) ==
  Region(b.start, IF has_index(b.layout) THEN BLOCK_SIZES[list_index(b.layout)]
                  ELSE b.layout.size)

Listed(i) == Range(list_heads[i])

(* Every region the fallback has handed out has one owner: a list, once,   *)
(* or a caller.  So no block is in two lists, twice in one, or both free   *)
(* and held, and no region is forgotten.                                   *)
OneOwner ==
  /\ fallback = {RegionOf(b) : b \in live}
                  \cup UNION {{Region(a, BLOCK_SIZES[i]) : a \in Listed(i)} :
                              i \in Indices}
  /\ \A b, c \in live : b.start = c.start => b = c
  /\ \A b \in live, i \in Indices : b.start \notin Listed(i)
  /\ \A i, j \in Indices : \A m \in DOMAIN list_heads[i], n \in DOMAIN list_heads[j] :
       list_heads[i][m] = list_heads[j][n] => i = j /\ m = n

(* Freed blocks are reused before new ones are made: of each size there    *)
(* are as many blocks as callers ever held at the same time.  This is what *)
(* the test many_boxes relies on.                                          *)
FootprintIsPeak ==
  \A i \in Indices :
    Len(list_heads[i]) + Cardinality(Class(i)) = peak[i]

Starts(i) == {b.start : b \in Class(i)} \cup Listed(i)

(* A block keeps its size for ever: memory that was once given to a block  *)
(* size goes back neither to the fallback nor to another size.             *)
BlocksKeepTheirSize ==
  [][\A i \in Indices : Starts(i) \subseteq Starts(i)']_vars

(* The kernel's allocator keeps the promises of a global allocator. *)
Abstract == INSTANCE Heap

ImplementsHeap == Abstract!Spec
=============================================================================
