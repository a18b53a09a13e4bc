------------------------------ MODULE MCMemory ------------------------------
(***************************************************************************)
(* Three levels of tables with two entries each, and a heap of three pages *)
(* on both sides of a boundary of the top level.  Memory maps have none to *)
(* more than enough usable frames, in two regions around a reserved one.   *)
(***************************************************************************)
EXTENDS Memory, TLC

MCFrames == 0 .. 15
MCPages == 0 .. 7

Region(start, end, usable) == [start |-> start, end |-> end, usable |-> usable]

MCMemoryMaps ==
  {<<Region(0, 6, FALSE), Region(6, 6 + n, TRUE), Region(11, 12, FALSE),
     Region(12, 12 + m, TRUE)>> : n \in 0 .. 5, m \in 0 .. 4}

Table(i, f, huge) == [EmptyTable EXCEPT ![i] = Entry(f, huge)]

(* Nothing mapped; page 2 mapped; page 5, of the heap, mapped; a huge page *)
(* over the end of the heap; a huge page over the example's page.          *)
MCBootTables ==
  {0 :> EmptyTable,
   0 :> Table(0, 1, FALSE) @@ 1 :> Table(1, 2, FALSE) @@ 2 :> Table(0, 5, FALSE),
   0 :> Table(1, 1, FALSE) @@ 1 :> Table(0, 2, FALSE) @@ 2 :> Table(1, 5, FALSE),
   0 :> Table(1, 5, TRUE),
   0 :> Table(0, 1, FALSE) @@ 1 :> Table(0, 5, TRUE)}
=============================================================================
