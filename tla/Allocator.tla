------------------------------ MODULE Allocator ------------------------------
(***************************************************************************)
(* What allocator.rs gives its allocators: rounding of addresses, and the  *)
(* blocks that callers of a GlobalAlloc hold.                              *)
(***************************************************************************)
EXTENDS Naturals

(* Mutation: addr + align instead of addr + align - 1. *)
align_up_excess(addr, align) == ((addr + align) \div align) * align

(* (addr + align - 1) & !(align - 1): for a power of two, clearing the low *)
(* bits rounds down to a multiple.                                         *)
align_up(addr, align) == ((addr + align - 1) \div align) * align

(* A block that alloc(layout) returned at start *)
Block(start, layout) == [start |-> start, layout |-> layout]

BlockEnd(b) == b.start + b.layout.size
=============================================================================
