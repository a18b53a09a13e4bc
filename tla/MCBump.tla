------------------------------- MODULE MCBump -------------------------------
(***************************************************************************)
(* The bump allocator on a heap of ten bytes, with one layout so large     *)
(* that its end overflows, and align_up compared with the bit mask of the  *)
(* source.                                                                 *)
(***************************************************************************)
EXTENDS Bump, Bitwise

Layout(size, align) == [size |-> size, align |-> align]

MCLayouts == {Layout(1, 1), Layout(3, 2), Layout(3, 4), Layout(28, 1)}

MCUsizeMax == 31

(* align_up as it is written: and with the complement of align - 1 *)
align_up_mask(addr, align) ==
  (addr + align - 1) & (MCUsizeMax - (align - 1))

(* align_up's mask returns the least multiple of the alignment that is not *)
(* below the address, wherever next stands: the remainder formula that     *)
(* allocator.rs keeps in a comment, and the rounding the other properties  *)
(* build on.                                                               *)
MaskRoundsUp ==
  \A l \in Layouts :
    LET remainder == next % l.align
    IN /\ align_up_mask(next, l.align) =
            IF remainder = 0 THEN next ELSE next - remainder + l.align
       /\ align_up(next, l.align) = align_up_mask(next, l.align)
=============================================================================
