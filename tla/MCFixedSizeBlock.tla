-------------------------- MODULE MCFixedSizeBlock --------------------------
(***************************************************************************)
(* Blocks of two and four bytes on a heap of twelve, with layouts that fit *)
(* a block exactly, by size or by alignment, and one too large for both.   *)
(***************************************************************************)
EXTENDS FixedSizeBlock

Layout(size, align) == [size |-> size, align |-> align]

MCLayouts == {Layout(1, 2), Layout(1, 4), Layout(3, 1), Layout(6, 1)}

MCBlockSizes == <<2, 4>>
=============================================================================
