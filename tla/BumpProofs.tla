----------------------------- MODULE BumpProofs -----------------------------
(***************************************************************************)
(* Proofs about Bump.tla, for every heap and every set of layouts: memory  *)
(* handed out twice is impossible, and the allocator implements Heap.tla.  *)
(***************************************************************************)
EXTENDS Bump, FiniteSetTheorems, TLAPS

(* The heap bounds are those of init, or init was not called yet. *)
BoundsInv ==
  \/ heap_start = 0 /\ heap_end = 0 /\ next = 0 /\ live = {}
  \/ heap_start = HeapStart /\ heap_end = HeapStart + HeapSize

(* The inductive invariant. *)
BumpInv ==
  /\ TypeOK
  /\ BoundsInv
  /\ NextIsUnused
  /\ IsFiniteSet(live) /\ AllocationsCountsLive
  /\ EmptyHeapIsReset

-----------------------------------------------------------------------------
(* align_up rounds to a multiple of the alignment, up, by less than the    *)
(* alignment.                                                              *)
LEMMA AlignUp ==
  ASSUME NEW a \in Nat, NEW al \in Nat \ {0}
  PROVE  /\ align_up(a, al) \in Nat
         /\ a <= align_up(a, al) /\ align_up(a, al) <= a + al - 1
         /\ Abstract!Aligned(align_up(a, al), al)
<1> DEFINE q == (a + al - 1) \div al
<1>1. q \in Nat /\ al * q <= a + al - 1 /\ a + al - 1 < al * q + al
  OBVIOUS
<1>2. align_up(a, al) = q * al /\ q * al = al * q /\ al * q \in Nat
  BY <1>1 DEF align_up
<1>3. q \in 0 .. q * al
  BY <1>1
<1> HIDE DEF q
<1>4. Abstract!Aligned(align_up(a, al), al)
  BY <1>2, <1>3 DEF Abstract!Aligned
<1> QED BY <1>1, <1>2, <1>4

(* BumpAllocator::new establishes the invariant. *)
LEMMA BumpInitInv == Init => BumpInv
<1> SUFFICES ASSUME Init PROVE BumpInv
  OBVIOUS
<1>1. IsFiniteSet(live) /\ AllocationsCountsLive
  BY FS_EmptySet DEF Init, AllocationsCountsLive
<1>2. TypeOK /\ BoundsInv /\ NextIsUnused /\ EmptyHeapIsReset
  BY HeapAssumption
  DEF Init, TypeOK, BoundsInv, NextIsUnused, EmptyHeapIsReset
<1> QED BY <1>1, <1>2 DEF BumpInv

(* What alloc does to a state that satisfies the invariant: nothing, or a  *)
(* block that starts at or after next.                                     *)
LEMMA AllocEffect ==
  ASSUME BumpInv, NEW l \in Layouts, alloc(l)
  PROVE  \/ UNCHANGED vars
         \/ \E start \in HeapStart .. HeapStart + HeapSize :
              /\ heap_start = HeapStart /\ heap_end = HeapStart + HeapSize
              /\ Abstract!Aligned(start, l.align)
              /\ next <= start /\ start + l.size <= heap_end
              /\ next' = start + l.size
              /\ allocations' = allocations + 1
              /\ live' = live \cup {Block(start, l)}
              /\ UNCHANGED <<heap_start, heap_end>>
<1> DEFINE start == align_up(next, l.align)
<1>1. l.size \in Nat \ {0} /\ l.align \in Nat \ {0} /\ next \in Nat
  BY LayoutAssumption DEF BumpInv, TypeOK
<1>2. start \in Nat /\ next <= start /\ Abstract!Aligned(start, l.align)
  BY <1>1, AlignUp
<1>3. \/ UNCHANGED vars
      \/ /\ start + l.size <= heap_end
         /\ next' = start + l.size
         /\ allocations' = allocations + 1
         /\ live' = live \cup {Block(start, l)}
         /\ UNCHANGED <<heap_start, heap_end>>
  <2> HIDE DEF start
  <2>1. \/ UNCHANGED vars
        \/ /\ ~(start + l.size > heap_end)
           /\ next' = start + l.size
           /\ allocations' = allocations + 1
           /\ live' = live \cup {Block(start, l)}
           /\ UNCHANGED <<heap_start, heap_end>>
    BY DEF alloc, start
  <2> QED BY <1>1, <1>2, <2>1 DEF BumpInv, TypeOK
<1> HIDE DEF start
<1>4. CASE start + l.size <= heap_end
  <2>1. heap_end # 0
    BY <1>1, <1>2, <1>4
  <2>2. heap_start = HeapStart /\ heap_end = HeapStart + HeapSize
    BY <2>1 DEF BumpInv, BoundsInv
  <2>3. start \in HeapStart .. HeapStart + HeapSize
    BY <1>1, <1>2, <1>4, <2>2, HeapAssumption
    DEF BumpInv, TypeOK, NextIsUnused
  <2> QED BY <1>2, <1>3, <2>2, <2>3
<1> QED BY <1>3, <1>4

(* init, alloc and dealloc keep the invariant. *)
LEMMA BumpNextInv == BumpInv /\ [Next]_vars => BumpInv'
<1> SUFFICES ASSUME BumpInv, [Next]_vars
             PROVE  BumpInv'
  OBVIOUS
<1> USE HeapAssumption DEF BumpInv
<1>1. CASE init
  <2>1. live = {} /\ live' = {} /\ allocations' = allocations
    BY <1>1 DEF init, BoundsInv
  <2>2. IsFiniteSet(live') /\ AllocationsCountsLive'
    BY <2>1 DEF AllocationsCountsLive
  <2>3. TypeOK' /\ BoundsInv' /\ NextIsUnused' /\ EmptyHeapIsReset'
    BY <1>1, <2>1
    DEF init, TypeOK, BoundsInv, NextIsUnused, EmptyHeapIsReset
  <2> QED BY <2>2, <2>3
<1>2. CASE UNCHANGED vars
  BY <1>2 DEF vars, TypeOK, BoundsInv, NextIsUnused, AllocationsCountsLive,
              EmptyHeapIsReset
<1>3. ASSUME NEW l \in Layouts, alloc(l)
      PROVE  BumpInv'
  <2>1. CASE UNCHANGED vars
    BY <1>2, <2>1
  <2>2. ASSUME NEW start \in HeapStart .. HeapStart + HeapSize,
               /\ heap_start = HeapStart /\ heap_end = HeapStart + HeapSize
               /\ next <= start /\ start + l.size <= heap_end
               /\ next' = start + l.size
               /\ allocations' = allocations + 1
               /\ live' = live \cup {Block(start, l)}
               /\ UNCHANGED <<heap_start, heap_end>>
        PROVE  BumpInv'
    <3>1. l.size \in Nat \ {0} /\ start \in 0 .. UsizeMax
      BY LayoutAssumption
    <3>2. Block(start, l) \in [start : 0 .. UsizeMax, layout : Layouts]
      BY <3>1 DEF Block
    <3>3. TypeOK'
      BY <2>2, <3>1, <3>2 DEF TypeOK
    <3>4. \A b \in live : /\ b.start \in Nat /\ b.layout.size \in Nat \ {0}
                           /\ b.start < next /\ heap_start <= b.start
                           /\ BlockEnd(b) <= next /\ BlockEnd(b) \in Nat
      BY LayoutAssumption DEF TypeOK, NextIsUnused, BlockEnd
    <3>5. NextIsUnused'
      BY <2>2, <3>1, <3>4 DEF NextIsUnused, Block, BlockEnd, TypeOK
    <3>6. Block(start, l) \notin live
      BY <2>2, <3>4 DEF Block, TypeOK
    <3>7. IsFiniteSet(live') /\ AllocationsCountsLive'
      BY <2>2, <3>6, FS_AddElement DEF AllocationsCountsLive
    <3>8. BoundsInv' /\ EmptyHeapIsReset'
      BY <2>2 DEF BoundsInv, EmptyHeapIsReset
    <3> QED BY <3>3, <3>5, <3>7, <3>8
  <2> QED BY <1>3, <2>1, <2>2, AllocEffect
<1>4. ASSUME NEW b \in live, dealloc(b)
      PROVE  BumpInv'
  <2>1. /\ live' = live \ {b} /\ allocations' = allocations - 1
        /\ next' = IF allocations' = 0 THEN heap_start ELSE next
        /\ UNCHANGED <<heap_start, heap_end>>
    BY <1>4 DEF dealloc
  <2>2. /\ IsFiniteSet(live') /\ AllocationsCountsLive'
        /\ allocations' \in Nat
        /\ allocations' = 0 <=> live' = {}
    BY <2>1, FS_RemoveElement, FS_EmptySet, FS_CardinalityType
    DEF AllocationsCountsLive
  <2>3. TypeOK'
    BY <2>1, <2>2 DEF TypeOK
  <2>4. BoundsInv' /\ EmptyHeapIsReset'
    BY <2>1, <2>2 DEF BoundsInv, EmptyHeapIsReset
  <2>5. NextIsUnused'
    BY <2>1, <2>2 DEF NextIsUnused, TypeOK
  <2> QED BY <2>2, <2>3, <2>4, <2>5
<1> QED BY <1>1, <1>2, <1>3, <1>4 DEF Next

-----------------------------------------------------------------------------
(* The invariant holds throughout. *)
THEOREM BumpInvariant == Spec => []BumpInv
  BY BumpInitInv, BumpNextInv, PTL DEF Spec

(* Type correctness: the allocation counter never underflows and next      *)
(* never overflows.                                                        *)
THEOREM BumpTypeCorrect == Spec => []TypeOK
<1>1. BumpInv => TypeOK
  BY DEF BumpInv
<1> QED BY <1>1, BumpInvariant, PTL

(* No block still held reaches beyond next. *)
THEOREM BumpNextIsUnused == Spec => []NextIsUnused
<1>1. BumpInv => NextIsUnused
  BY DEF BumpInv
<1> QED BY <1>1, BumpInvariant, PTL

(* The counter is the number of blocks held, and an empty heap has been    *)
(* reset.                                                                  *)
THEOREM BumpReclaims == Spec => [](AllocationsCountsLive /\ EmptyHeapIsReset)
<1>1. BumpInv => AllocationsCountsLive /\ EmptyHeapIsReset
  BY DEF BumpInv
<1> QED BY <1>1, BumpInvariant, PTL

(* Every step of the bump allocator is one of the abstract heap. *)
LEMMA BumpNextRefines == BumpInv /\ [Next]_vars => [Abstract!Next]_live
<1> SUFFICES ASSUME BumpInv, [Next]_vars
             PROVE  Abstract!Next \/ UNCHANGED live
  OBVIOUS
<1>1. CASE init \/ UNCHANGED vars
  BY <1>1 DEF init, vars
<1>2. ASSUME NEW l \in Layouts, alloc(l)
      PROVE  Abstract!Next \/ UNCHANGED live
  <2>1. CASE UNCHANGED vars
    BY <2>1 DEF vars
  <2>2. ASSUME NEW start \in HeapStart .. HeapStart + HeapSize,
               /\ heap_start = HeapStart /\ heap_end = HeapStart + HeapSize
               /\ Abstract!Aligned(start, l.align)
               /\ next <= start /\ start + l.size <= heap_end
               /\ live' = live \cup {Block(start, l)}
        PROVE  Abstract!Next
    <3>1. start \in Nat /\ l.size \in Nat
      BY HeapAssumption, LayoutAssumption
    <3>2. \A b \in live : /\ b.start \in Nat /\ b.layout.size \in Nat
                           /\ b.start + b.layout.size <= start
      BY <2>2, <3>1, LayoutAssumption
      DEF BumpInv, TypeOK, NextIsUnused, BlockEnd
    <3>3. Abstract!Alloc(l, start)
      BY <2>2, <3>1, <3>2
      DEF Abstract!Alloc, Abstract!HeapEnd, Abstract!Disjoint, Abstract!Block,
          Block
    <3> QED BY <2>2, <3>3 DEF Abstract!Next, Abstract!HeapEnd
  <2> QED BY <1>2, <2>1, <2>2, AllocEffect
<1>3. ASSUME NEW b \in live, dealloc(b)
      PROVE  Abstract!Next
  BY <1>3 DEF dealloc, Abstract!Dealloc, Abstract!Next
<1> QED BY <1>1, <1>2, <1>3 DEF Next

(* The bump allocator implements the abstract heap: what it returns is     *)
(* aligned, inside the heap and apart from every block still held.         *)
THEOREM BumpImplementsHeap == Spec => ImplementsHeap
<1>1. Init => Abstract!Init
  BY DEF Init, Abstract!Init
<1> QED
  BY <1>1, BumpInvariant, BumpNextRefines, PTL
  DEF Spec, ImplementsHeap, Abstract!Spec
=============================================================================
