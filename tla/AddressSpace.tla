---------------------------- MODULE AddressSpace ----------------------------
(***************************************************************************)
(* What setting up the heap may do to the address space: map pages that    *)
(* were not mapped, to frames that no other page uses.  A page that is     *)
(* mapped stays mapped to its frame.                                       *)
(***************************************************************************)
EXTENDS Functions

CONSTANTS Pages, Frames,
          Device     \* frames that may be mapped several times

VARIABLE mapping     \* from the mapped pages to their frames

Map(p) ==
  /\ p \notin DOMAIN mapping
  /\ mapping' \in [DOMAIN mapping \cup {p} -> Frames]
  /\ \A q \in DOMAIN mapping : mapping'[q] = mapping[q]
  /\ mapping'[p] \notin Range(mapping) \ Device

Init == DOMAIN mapping \subseteq Pages /\ Range(mapping) \subseteq Frames

Next == \E p \in Pages : Map(p)

Spec == Init /\ [][Next]_mapping
=============================================================================
