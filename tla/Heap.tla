-------------------------------- MODULE Heap --------------------------------
(***************************************************************************)
(* What a GlobalAlloc promises its callers: alloc returns null or a block  *)
(* of the requested size and alignment, inside the heap and apart from     *)
(* every block that has not been deallocated yet.                          *)
(***************************************************************************)
EXTENDS Naturals

CONSTANTS HeapStart, HeapSize,
          Layouts    \* records [size, align] callers ask for

VARIABLE live        \* blocks [start, layout] allocated and not yet freed

HeapEnd == HeapStart + HeapSize

Block(start, layout) == [start |-> start, layout |-> layout]

Disjoint(a, m, b, n) == a + m <= b \/ b + n <= a

Aligned(addr, align) == \E k \in 0 .. addr : addr = k * align

Init == live = {}

Alloc(layout, start) ==
  /\ Aligned(start, layout.align)
  /\ HeapStart <= start /\ start + layout.size <= HeapEnd
  /\ \A b \in live : Disjoint(start, layout.size, b.start, b.layout.size)
  /\ live' = live \cup {Block(start, layout)}

Dealloc(b) == live' = live \ {b}

Next ==
  \/ \E layout \in Layouts, start \in HeapStart .. HeapEnd : Alloc(layout, start)
  \/ \E b \in live : Dealloc(b)

Spec == Init /\ [][Next]_live
=============================================================================
