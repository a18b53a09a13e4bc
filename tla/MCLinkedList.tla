---------------------------- MODULE MCLinkedList ----------------------------
(***************************************************************************)
(* The linked list allocator with nodes of four bytes, aligned to two, on  *)
(* a heap of 24: blocks of one node, of one and a half, and one aligned to *)
(* two nodes, so that regions are split, padded and left too small.  With  *)
(* a usize of six bits, align_to refuses one of the layouts.               *)
(***************************************************************************)
EXTENDS LinkedList

Layout(size, align) == [size |-> size, align |-> align]

MCLayouts == {Layout(1, 1), Layout(5, 2), Layout(5, 8), Layout(30, 1), Layout(63, 1)}

MCAdjustable == {l \in MCLayouts : adjusts(l)}
=============================================================================
