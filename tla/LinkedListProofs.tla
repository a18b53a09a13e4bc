-------------------------- MODULE LinkedListProofs --------------------------
(***************************************************************************)
(* Proofs about LinkedList.tla, for every heap and every set of layouts:   *)
(* free regions and blocks lie apart, every free region holds its node,    *)
(* dealloc never panics, and the allocator implements Heap.tla.            *)
(***************************************************************************)
EXTENDS LinkedList, KernelLemmas, FiniteSetTheorems, TLAPS

(* A list without its element i *)
Without(s, i) == SubSeq(s, 1, i - 1) \o SubSeq(s, i + 1, Len(s))

(* What is left of a list without one of its elements *)
LEMMA WithoutOne ==
  ASSUME NEW S, NEW s \in Seq(S), NEW i \in DOMAIN s
  PROVE  /\ Without(s, i) \in Seq(S)
         /\ \A m \in DOMAIN Without(s, i) :
              \E n \in DOMAIN s :
                /\ Without(s, i)[m] = s[n] /\ n # i
                /\ m \in Nat /\ n = IF m < i THEN m ELSE m + 1
         /\ \A n \in DOMAIN s : n # i =>
              \E m \in DOMAIN Without(s, i) : Without(s, i)[m] = s[n]
<1> DEFINE a == SubSeq(s, 1, i - 1)
           z == SubSeq(s, i + 1, Len(s))
<1>1. i \in 1 .. Len(s) /\ Len(s) \in Nat /\ DOMAIN s = 1 .. Len(s)
  OBVIOUS
<1>2. a \in Seq(S) /\ Len(a) = i - 1 /\ \A m \in 1 .. i - 1 : a[m] = s[m]
  BY <1>1
<1>3. z \in Seq(S) /\ Len(z) = Len(s) - i /\ \A m \in 1 .. Len(s) - i : z[m] = s[m + i]
  BY <1>1
<1> HIDE DEF a, z
<1>4. /\ a \o z \in Seq(S) /\ Len(a \o z) = Len(s) - 1
      /\ DOMAIN (a \o z) = 1 .. Len(s) - 1
  <2>1. a \o z \in Seq(S) /\ Len(a \o z) = Len(a) + Len(z)
    <3>1. a \in Seq(S) /\ z \in Seq(S)
      BY <1>2, <1>3
    <3>2. a \o z \in Seq(S)
      BY <3>1
    <3>3. Len(a \o z) = Len(a) + Len(z)
      BY <3>1
    <3> QED BY <3>2, <3>3
  <2>2. Len(a) + Len(z) = Len(s) - 1
    BY <1>1, <1>2, <1>3
  <2>3. DOMAIN (a \o z) = 1 .. Len(a \o z)
    BY <2>1
  <2> QED BY <2>1, <2>2, <2>3
<1>5. \A m \in 1 .. i - 1 : (a \o z)[m] = s[m]
  BY <1>1, <1>2, <1>3
<1>6. \A m \in i .. Len(s) - 1 : (a \o z)[m] = s[m + 1]
  <2>1. \A m \in i .. Len(s) - 1 : (a \o z)[m] = z[m - (i - 1)]
    BY <1>1, <1>2, <1>3
  <2>2. \A m \in i .. Len(s) - 1 :
          m - (i - 1) \in 1 .. Len(s) - i /\ (m - (i - 1)) + i = m + 1
    BY <1>1
  <2> QED BY <1>3, <2>1, <2>2, Zenon
<1>7. Without(s, i) = a \o z
  BY DEF Without, a, z
<1> DEFINE t == a \o z
<1>8. /\ DOMAIN t = 1 .. Len(s) - 1
      /\ \A m \in 1 .. i - 1 : t[m] = s[m]
      /\ \A m \in i .. Len(s) - 1 : t[m] = s[m + 1]
  BY <1>4, <1>5, <1>6, Zenon
<1> HIDE DEF t
<1>9. ASSUME NEW m \in DOMAIN t
      PROVE  \E n \in DOMAIN s :
               /\ t[m] = s[n] /\ n # i
               /\ m \in Nat /\ n = IF m < i THEN m ELSE m + 1
  <2>1. m \in Nat /\ m \in 1 .. Len(s) - 1
    BY <1>1, <1>8
  <2>2. CASE m < i
    <3>1. m \in 1 .. i - 1 /\ m \in DOMAIN s /\ m # i
      BY <1>1, <2>1, <2>2
    <3> QED BY <1>8, <2>1, <2>2, <3>1
  <2>3. CASE ~(m < i)
    <3>1. m \in i .. Len(s) - 1 /\ m + 1 \in DOMAIN s /\ m + 1 # i
      BY <1>1, <2>1, <2>3
    <3> QED BY <1>8, <2>1, <2>3, <3>1
  <2> QED BY <2>2, <2>3
<1>10. ASSUME NEW n \in DOMAIN s, n # i PROVE \E m \in DOMAIN t : t[m] = s[n]
  <2>1. CASE n < i
    <3>1. n \in 1 .. i - 1 /\ n \in DOMAIN t
      BY <1>1, <1>8, <2>1
    <3> QED BY <1>8, <3>1
  <2>2. CASE ~(n < i)
    <3>1. n - 1 \in i .. Len(s) - 1 /\ n - 1 \in DOMAIN t /\ (n - 1) + 1 = n
      BY <1>1, <1>8, <1>10, <2>2
    <3> QED BY <1>8, <3>1
  <2> QED BY <2>1, <2>2
<1> QED BY <1>4, <1>7, <1>9, <1>10, Zenon DEF t

Regions == [start : Nat, size : Nat]

(* What holds of the blocks that callers have: they lie in the heap, where *)
(* a node may start and where their layout asks for it, and their layout   *)
(* can be adjusted.                                                        *)
HeldInv ==
  \A b \in live : /\ HeapStart <= b.start /\ region_end(Extent(b)) <= HeapEnd
                  /\ Abstract!Aligned(b.start, b.layout.align)
                  /\ \E k \in Nat : b.start = k * NodeAlign
                  /\ adjusts(b.layout)

(* The inductive invariant. *)
ListInv ==
  /\ free \in Seq(Regions) /\ live \subseteq [start : Nat, layout : Layouts]
  /\ ~initialised => free = <<>> /\ live = {}
  /\ RegionsApart /\ FreeRegionsHoldNodes
  /\ HeldInv

-----------------------------------------------------------------------------
(* The alignment that size_align asks for is a multiple of both. *)
LEMMA AdjustedAlign ==
  ASSUME NEW l \in Layouts
  PROVE  /\ adjusted_align(l) \in Nat \ {0} /\ l.align \in Nat \ {0}
         /\ \E k \in Nat : adjusted_align(l) = k * l.align
         /\ \E k \in Nat : adjusted_align(l) = k * NodeAlign
<1>1. l.align \in Nat \ {0} /\ NodeAlign \in Nat \ {0}
  BY LayoutAssumption, HeapAssumption
<1>2. /\ adjusted_align(l) \in {l.align, NodeAlign}
      /\ adjusted_align(l) >= l.align /\ adjusted_align(l) >= NodeAlign
  BY <1>1, MaxOfPair DEF adjusted_align
<1>3. CASE \E k \in 1 .. l.align : l.align = k * NodeAlign
  <2>1. PICK k \in 1 .. l.align : l.align = k * NodeAlign
    BY <1>3
  <2>2. k \in Nat /\ l.align >= NodeAlign
    BY <1>1, <2>1
  <2>3. adjusted_align(l) = l.align /\ l.align = 1 * l.align
    BY <1>1, <1>2, <2>2
  <2> QED BY <1>1, <2>1, <2>2, <2>3
<1>4. CASE \E k \in 1 .. NodeAlign : NodeAlign = k * l.align
  <2>1. PICK k \in 1 .. NodeAlign : NodeAlign = k * l.align
    BY <1>4
  <2>2. k \in Nat /\ NodeAlign >= l.align
    BY <1>1, <2>1
  <2>3. adjusted_align(l) = NodeAlign /\ NodeAlign = 1 * NodeAlign
    BY <1>1, <1>2, <2>2
  <2> QED BY <1>1, <2>1, <2>2, <2>3
<1> QED BY <1>3, <1>4, PowersOfTwoAssumption

(* The size that size_align asks for holds the layout and a node. *)
LEMMA AdjustedSize ==
  ASSUME NEW l \in Layouts
  PROVE  /\ adjusted_size(l) \in Nat \ {0} /\ l.size \in Nat \ {0}
         /\ l.size <= adjusted_size(l) /\ NodeSize <= adjusted_size(l)
<1> DEFINE s == align_up(l.size, adjusted_align(l))
<1>1. l.size \in Nat \ {0} /\ NodeSize \in Nat \ {0}
  BY LayoutAssumption, HeapAssumption
<1>2. s \in Nat /\ l.size <= s
  BY <1>1, AdjustedAlign, RoundsUp, Zenon
<1>3. adjusted_size(l) = Max({s, NodeSize})
  BY DEF adjusted_size
<1> HIDE DEF s
<1>4. /\ Max({s, NodeSize}) \in {s, NodeSize}
      /\ Max({s, NodeSize}) >= s /\ Max({s, NodeSize}) >= NodeSize
  BY <1>1, <1>2, MaxOfPair
<1> QED BY <1>1, <1>2, <1>3, <1>4

(* Where alloc_from_region puts the block *)
LEMMA AllocStart ==
  ASSUME NEW r \in Regions, NEW l \in Layouts
  PROVE  /\ alloc_start(r, l) \in Nat /\ r.start <= alloc_start(r, l)
         /\ Abstract!Aligned(alloc_start(r, l), l.align)
         /\ \E k \in Nat : alloc_start(r, l) = k * NodeAlign
<1> DEFINE a == alloc_start(r, l)
<1>1. adjusted_align(l) \in Nat \ {0} /\ l.align \in Nat \ {0} /\ r.start \in Nat
  BY AdjustedAlign DEF Regions
<1>2. a \in Nat /\ r.start <= a /\ \E q \in Nat : a = q * adjusted_align(l)
  BY <1>1, RoundsUp, Zenon DEF alloc_start
<1> HIDE DEF a
<1>3. PICK q \in Nat : a = q * adjusted_align(l)
  BY <1>2
<1>4. Abstract!Aligned(a, l.align)
  <2>1. PICK k \in Nat : adjusted_align(l) = k * l.align
    BY AdjustedAlign
  <2>2. q * k \in Nat /\ a = (q * k) * l.align
    BY <1>1, <1>3, <2>1
  <2>3. q * k <= (q * k) * l.align
    BY <1>1, <2>2
  <2> QED BY <2>2, <2>3 DEF Abstract!Aligned
<1>5. \E k \in Nat : a = k * NodeAlign
  <2>1. PICK k \in Nat : adjusted_align(l) = k * NodeAlign
    BY AdjustedAlign
  <2>2. q * k \in Nat /\ a = (q * k) * NodeAlign
    BY <1>3, <2>1, HeapAssumption
  <2> QED BY <2>2
<1> QED BY <1>2, <1>4, <1>5 DEF a

(* The assertion on the address, read as divisibility *)
LEMMA NodeStart ==
  ASSUME NEW a \in Nat
  PROVE  /\ align_up(a, NodeAlign) = a => a % NodeAlign = 0
         /\ (\E k \in Nat : a = k * NodeAlign) => align_up(a, NodeAlign) = a
<1>1. NodeAlign \in Nat \ {0}
  BY HeapAssumption
<1>2. ASSUME align_up(a, NodeAlign) = a PROVE a % NodeAlign = 0
  <2>1. PICK k \in Nat : align_up(a, NodeAlign) = k * NodeAlign
    BY <1>1, RoundsUp, Zenon
  <2> QED BY <1>1, <1>2, <2>1, NoRemainder
<1>3. ASSUME NEW k \in Nat, a = k * NodeAlign PROVE align_up(a, NodeAlign) = a
  BY <1>1, <1>3, RoundsFixed, Zenon
<1> QED BY <1>2, <1>3

-----------------------------------------------------------------------------
(* The list after add_free_region: the old one, perhaps with the new       *)
(* region in front of it.                                                  *)
LEMMA AddFreeRegion ==
  ASSUME NEW addr \in Nat, NEW size \in Nat, NEW list \in Seq(Regions),
         add_free_region(addr, size, list),
         \A i, j \in DOMAIN list : i # j => Apart(list[i], list[j]),
         \A i \in DOMAIN list : Apart(list[i], Region(addr, size))
  PROVE  /\ free' \in Seq(Regions)
         /\ \A m \in DOMAIN free' :
              \/ free'[m] = Region(addr, size) /\ can_hold_node(addr, size)
              \/ \E n \in DOMAIN list : free'[m] = list[n]
         /\ \A i, j \in DOMAIN free' : i # j => Apart(free'[i], free'[j])
<1> DEFINE r == Region(addr, size)
<1>1. r \in Regions
  BY DEF Region, Regions
<1> HIDE DEF r
<1>2. CASE ~can_hold_node(addr, size)
  <2>1. free' = list
    BY <1>2 DEF add_free_region
  <2> QED BY <2>1
<1>3. CASE can_hold_node(addr, size)
  <2>1. free' = <<r>> \o list
    BY <1>3 DEF add_free_region, r
  <2>2. /\ free' \in Seq(Regions) /\ free'[1] = r
        /\ \A m \in DOMAIN free' : m # 1 =>
             m \in Nat /\ m - 1 \in DOMAIN list /\ free'[m] = list[m - 1]
    BY <1>1, <2>1, NewHead
  <2>3. \A x, y \in Regions : Apart(x, y) => Apart(y, x)
    BY DEF Apart
  <2>4. \A i \in DOMAIN list : list[i] \in Regions
    OBVIOUS
  <2>5. ASSUME NEW i \in DOMAIN free', NEW j \in DOMAIN free', i # j
        PROVE  Apart(free'[i], free'[j])
    <3>1. CASE i = 1
      <4>1. j - 1 \in DOMAIN list /\ free'[j] = list[j - 1]
        BY <2>2, <2>5, <3>1
      <4>2. Apart(list[j - 1], r)
        BY <4>1 DEF r
      <4> QED BY <1>1, <2>2, <2>3, <2>4, <3>1, <4>1, <4>2
    <3>2. CASE j = 1
      <4>1. i - 1 \in DOMAIN list /\ free'[i] = list[i - 1]
        BY <2>2, <2>5, <3>2
      <4>2. Apart(list[i - 1], r)
        BY <4>1 DEF r
      <4> QED BY <2>2, <3>2, <4>1, <4>2
    <3>3. CASE i # 1 /\ j # 1
      <4>1. /\ i \in Nat /\ i - 1 \in DOMAIN list /\ free'[i] = list[i - 1]
            /\ j \in Nat /\ j - 1 \in DOMAIN list /\ free'[j] = list[j - 1]
        BY <2>2, <3>3
      <4>2. i - 1 # j - 1
        BY <2>5, <4>1
      <4> QED BY <4>1, <4>2
    <3> QED BY <3>1, <3>2, <3>3
  <2>6. ASSUME NEW m \in DOMAIN free'
        PROVE  \/ free'[m] = r /\ can_hold_node(addr, size)
               \/ \E n \in DOMAIN list : free'[m] = list[n]
    BY <1>3, <2>2
  <2> QED BY <2>2, <2>5, <2>6 DEF r
<1> QED BY <1>2, <1>3

(* The list after find_region: the others, still apart *)
LEMMA Unlinked ==
  ASSUME ListInv, NEW i \in DOMAIN free
  PROVE  /\ unlink(i) \in Seq(Regions)
         /\ \A m \in DOMAIN unlink(i) :
              \E n \in DOMAIN free : n # i /\ unlink(i)[m] = free[n]
         /\ \A m, n \in DOMAIN unlink(i) :
              m # n => Apart(unlink(i)[m], unlink(i)[n])
         /\ \A n \in DOMAIN free : n # i =>
              \E m \in DOMAIN unlink(i) : unlink(i)[m] = free[n]
<1>1. free \in Seq(Regions)
      /\ \A m, n \in DOMAIN free : m # n => Apart(free[m], free[n])
  BY DEF ListInv, RegionsApart
<1> DEFINE u == unlink(i)
<1>2. /\ u \in Seq(Regions)
      /\ \A m \in DOMAIN u :
           \E n \in DOMAIN free : /\ u[m] = free[n] /\ n # i
                                 /\ m \in Nat /\ n = IF m < i THEN m ELSE m + 1
      /\ \A n \in DOMAIN free : n # i => \E m \in DOMAIN u : u[m] = free[n]
  <2>1. u = Without(free, i)
    BY DEF unlink, Without
  <2> HIDE DEF u
  <2> QED BY <1>1, <2>1, WithoutOne
<1> HIDE DEF u
<1>3. i \in Nat
  BY <1>1
<1>4. ASSUME NEW m \in DOMAIN u, NEW n \in DOMAIN u, m # n
      PROVE  Apart(u[m], u[n])
  <2>1. PICK x \in DOMAIN free : /\ u[m] = free[x] /\ x # i
                                 /\ m \in Nat /\ x = IF m < i THEN m ELSE m + 1
    BY <1>2
  <2>2. PICK y \in DOMAIN free : /\ u[n] = free[y] /\ y # i
                                 /\ n \in Nat /\ y = IF n < i THEN n ELSE n + 1
    BY <1>2
  <2>3. x # y
    BY <1>3, <1>4, <2>1, <2>2
  <2> QED BY <1>1, <2>1, <2>2, <2>3
<1> QED BY <1>2, <1>4 DEF u

-----------------------------------------------------------------------------
(* A region that add_free_region accepts holds its node. *)
HoldsNode(r) == /\ r.start % NodeAlign = 0 /\ r.size >= NodeSize
                /\ HeapStart <= r.start /\ region_end(r) <= HeapEnd

LEMMA AcceptedHoldsNode ==
  ASSUME NEW a \in Nat, NEW n \in Nat, can_hold_node(a, n),
         HeapStart <= a, a + n <= HeapEnd
  PROVE  HoldsNode(Region(a, n))
  BY NodeStart DEF can_hold_node, HoldsNode, Region, region_end

(* Facts about the block at b, once and for all *)
LEMMA HeldBlock ==
  ASSUME ListInv, NEW b \in live
  PROVE  /\ b.start \in Nat /\ b.layout \in Layouts
         /\ Extent(b) = Region(b.start, adjusted_size(b.layout))
         /\ Extent(b).start = b.start /\ Extent(b).size = adjusted_size(b.layout)
         /\ adjusted_size(b.layout) \in Nat \ {0} /\ Extent(b) \in Regions
         /\ b.layout.size \in Nat \ {0} /\ b.layout.size <= adjusted_size(b.layout)
         /\ can_hold_node(b.start, adjusted_size(b.layout)) /\ adjusts(b.layout)
<1>1. b.start \in Nat /\ b.layout \in Layouts
  BY DEF ListInv
<1>2. Extent(b) = Region(b.start, adjusted_size(b.layout))
  BY DEF Extent
<1>3. /\ adjusted_size(b.layout) \in Nat \ {0}
      /\ b.layout.size \in Nat \ {0} /\ b.layout.size <= adjusted_size(b.layout)
      /\ NodeSize <= adjusted_size(b.layout)
  BY <1>1, AdjustedSize
<1>4. align_up(b.start, NodeAlign) = b.start
  BY <1>1, NodeStart DEF ListInv, HeldInv
<1>5. can_hold_node(b.start, adjusted_size(b.layout))
  BY <1>3, <1>4, HeapAssumption DEF can_hold_node
<1>6. adjusts(b.layout)
  BY DEF ListInv, HeldInv
<1> QED BY <1>1, <1>2, <1>3, <1>5, <1>6 DEF Region, Regions

(* What alloc does to a state that satisfies the invariant: it refuses, by *)
(* a null pointer or a panic, or it takes region i out of the list and     *)
(* cuts the block out of it.  The block is lost when the rest of the       *)
(* region holds no node.                                                   *)
Refuses == UNCHANGED <<free, live, initialised, padding>> /\ panicked' \in {panicked, TRUE}

Cuts(l, i) ==
  LET r == free[i]
      start == alloc_start(r, l)
  IN /\ i \in DOMAIN free /\ r \in Regions /\ adjusts(l)
     /\ start \in Nat /\ r.start <= start
     /\ start + adjusted_size(l) <= r.start + r.size
     /\ live' = live \/ live' = live \cup {Block(start, l)}
     /\ initialised' = initialised
     /\ \/ free' = unlink(i)
        \/ add_free_region(start + adjusted_size(l),
                           (r.start + r.size) - (start + adjusted_size(l)), unlink(i))

(* alloc skips the bytes in front of the block; unless the rest holds no   *)
(* node, it keeps the block and puts the rest back.                        *)
Pads(l, i) ==
  LET r == free[i]
      start == alloc_start(r, l)
      end == start + adjusted_size(l)
  IN /\ padding' = padding + (start - r.start)
     /\ panicked' \in {panicked, TRUE}
     /\ panicked' \/ /\ live' = live \cup {Block(start, l)}
                     /\ free' = IF (r.start + r.size) - end > 0
                                THEN <<Region(end, (r.start + r.size) - end)>> \o unlink(i)
                                ELSE unlink(i)

LEMMA AllocEffect ==
  ASSUME ListInv, NEW l \in Layouts, alloc(l)
  PROVE  Refuses \/ \E i \in DOMAIN free : Cuts(l, i) /\ Pads(l, i)
<1> DEFINE found == {i \in DOMAIN free : suitable(free[i], l)}
<1>1. CASE found = {} \/ ~adjusts(l)
  BY <1>1, Zenon DEF alloc, alloc_first_fit, vars, Refuses
<1>2. CASE found # {} /\ adjusts(l)
  <2> DEFINE i == Min(found)
             r == free[i]
             start == alloc_start(r, l)
  <2>1. free \in Seq(Regions)
    BY DEF ListInv
  <2>2. found \subseteq Nat
    BY <2>1
  <2>3. i \in found
    BY <1>2, <2>2, MinOfNats
  <2>4. /\ give_back(r, l, unlink(i))
        /\ live' = IF panicked' THEN live ELSE live \cup {Block(start, l)}
        /\ initialised' = initialised
        /\ padding' = padding + (start - r.start)
    BY <1>2 DEF alloc, alloc_first_fit
  <2> HIDE DEF i
  <2>5. i \in DOMAIN free /\ suitable(r, l) /\ r \in Regions
    BY <2>1, <2>3
  <2>6. start \in Nat /\ r.start <= start
    BY <2>5, AllocStart
  <2>7. /\ alloc_end(r, l) = start + adjusted_size(l)
        /\ region_end(r) = r.start + r.size
    BY DEF alloc_end, region_end
  <2>8. start + adjusted_size(l) <= r.start + r.size
    BY <2>5, <2>7 DEF suitable
  <2>9. \/ free' = unlink(i)
        \/ add_free_region(start + adjusted_size(l),
                           (r.start + r.size) - (start + adjusted_size(l)), unlink(i))
    BY <2>4 DEF give_back, alloc_end, region_end
  <2>10. live' = live \/ live' = live \cup {Block(start, l)}
    BY <2>4
  <2>11. Cuts(l, i)
    BY <1>2, <2>4, <2>5, <2>6, <2>8, <2>9, <2>10 DEF Cuts
  <2>12. Pads(l, i)
    <3>1. /\ panicked' \in {panicked, TRUE}
          /\ panicked' \/ free' = IF (r.start + r.size) - (start + adjusted_size(l)) > 0
                                  THEN <<Region(start + adjusted_size(l), (r.start + r.size)
                                           - (start + adjusted_size(l)))>> \o unlink(i)
                                  ELSE unlink(i)
      BY <2>4, <2>7, Zenon DEF give_back, add_free_region
    <3> QED BY <2>4, <3>1, Zenon DEF Pads
  <2> QED BY <2>5, <2>11, <2>12
<1> QED BY <1>1, <1>2

(* The block is apart from everything else, and so is the rest. *)
LEMMA CutsApart ==
  ASSUME ListInv, NEW l \in Layouts, NEW i \in DOMAIN free, Cuts(l, i),
         NEW x \in Regions, Apart(free[i], x)
  PROVE  LET start == alloc_start(free[i], l)
             end == start + adjusted_size(l)
         IN /\ Apart(x, Region(end, (free[i].start + free[i].size) - end))
            /\ Apart(x, Region(start, adjusted_size(l)))
            /\ Apart(Region(end, (free[i].start + free[i].size) - end),
                     Region(start, adjusted_size(l)))
<1> DEFINE r == free[i]
           start == alloc_start(r, l)
           end == start + adjusted_size(l)
<1>1. r \in Regions /\ start \in Nat /\ r.start <= start /\ end <= r.start + r.size
  BY DEF Cuts
<1>2. adjusted_size(l) \in Nat \ {0}
  BY AdjustedSize
<1>3. x.start \in Nat /\ x.size \in Nat /\ r.start \in Nat /\ r.size \in Nat
  BY <1>1 DEF Regions
<1>4. r.start + r.size <= x.start \/ x.start + x.size <= r.start
  BY DEF Apart, region_end
<1> HIDE DEF r, start
<1>5. Apart(x, Region(end, (r.start + r.size) - end))
  BY <1>1, <1>2, <1>3, <1>4 DEF Apart, Region, region_end
<1>6. Apart(x, Region(start, adjusted_size(l)))
  BY <1>1, <1>2, <1>3, <1>4 DEF Apart, Region, region_end
<1>7. Apart(Region(end, (r.start + r.size) - end), Region(start, adjusted_size(l)))
  BY <1>1, <1>2, <1>3 DEF Apart, Region, region_end
<1> QED BY <1>5, <1>6, <1>7 DEF r, start

LEMMA AllocInv ==
  ASSUME ListInv, NEW l \in Layouts, NEW i \in DOMAIN free, Cuts(l, i)
  PROVE  ListInv'
<1> DEFINE r == free[i]
           start == alloc_start(r, l)
           end == start + adjusted_size(l)
           rest == Region(end, (r.start + r.size) - end)
           nb == Block(start, l)
<1>1. /\ free \in Seq(Regions) /\ live \subseteq [start : Nat, layout : Layouts]
      /\ RegionsApart /\ FreeRegionsHoldNodes /\ HeldInv
  BY DEF ListInv
<1>2. /\ r \in Regions /\ r.start \in Nat /\ r.size \in Nat
      /\ start \in Nat /\ r.start <= start /\ end <= r.start + r.size
      /\ adjusted_size(l) \in Nat \ {0}
  BY AdjustedSize DEF Cuts, Regions
<1>3. HeapStart <= r.start /\ r.start + r.size <= HeapEnd
  BY <1>1 DEF FreeRegionsHoldNodes, region_end
<1>4. end \in Nat /\ (r.start + r.size) - end \in Nat
  BY <1>2
<1>5. /\ nb.start = start /\ nb.layout = l
      /\ Extent(nb) = Region(start, adjusted_size(l)) /\ Extent(nb) \in Regions
  BY <1>2 DEF Block, Extent, Region, Regions
<1>6. ASSUME NEW x \in Regions, Apart(r, x)
      PROVE  Apart(x, rest) /\ Apart(x, Extent(nb))
  BY <1>5, <1>6, CutsApart
<1>7. Apart(rest, Extent(nb))
  BY <1>2, <1>4, <1>5 DEF Apart, Region, region_end
<1>8. /\ unlink(i) \in Seq(Regions)
      /\ \A m \in DOMAIN unlink(i) :
           \E n \in DOMAIN free : n # i /\ unlink(i)[m] = free[n]
      /\ \A m, n \in DOMAIN unlink(i) : m # n => Apart(unlink(i)[m], unlink(i)[n])
  BY Unlinked
<1>9. \A n \in DOMAIN free : n # i => free[n] \in Regions /\ Apart(r, free[n])
  BY <1>1 DEF RegionsApart
<1>10. \A m \in DOMAIN unlink(i) : Apart(unlink(i)[m], rest)
  BY <1>6, <1>8, <1>9
<1>11. /\ free' = unlink(i) \/ add_free_region(end, (r.start + r.size) - end, unlink(i))
       /\ live' = live \/ live' = live \cup {nb}
       /\ initialised' = initialised
  BY DEF Cuts
<1>12. live' \subseteq live \cup {nb} /\ nb \in [start : Nat, layout : Layouts]
  BY <1>2, <1>11 DEF Block
<1> HIDE DEF nb, rest
<1>13. /\ free' \in Seq(Regions)
       /\ \A m \in DOMAIN free' :
            \/ free'[m] = rest /\ can_hold_node(end, (r.start + r.size) - end)
            \/ \E n \in DOMAIN free : n # i /\ free'[m] = free[n]
       /\ \A m, n \in DOMAIN free' : m # n => Apart(free'[m], free'[n])
  <2>1. CASE free' = unlink(i)
    BY <1>8, <2>1
  <2>2. CASE add_free_region(end, (r.start + r.size) - end, unlink(i))
    <3>1. /\ free' \in Seq(Regions)
          /\ \A m \in DOMAIN free' :
               \/ free'[m] = rest /\ can_hold_node(end, (r.start + r.size) - end)
               \/ \E n \in DOMAIN unlink(i) : free'[m] = unlink(i)[n]
          /\ \A m, n \in DOMAIN free' : m # n => Apart(free'[m], free'[n])
      BY <1>4, <1>8, <1>10, <2>2, AddFreeRegion DEF rest
    <3>2. \A m \in DOMAIN free' :
            \/ free'[m] = rest /\ can_hold_node(end, (r.start + r.size) - end)
            \/ \E n \in DOMAIN free : n # i /\ free'[m] = free[n]
      BY <1>8, <3>1
    <3> QED BY <3>1, <3>2
  <2> QED BY <1>11, <2>1, <2>2
<1>14. RegionsApart'
  <2>1. \A n \in DOMAIN free, b \in live : Apart(free[n], Extent(b))
    BY <1>1 DEF RegionsApart
  <2>2. \A b \in live : Extent(b) \in Regions
    BY HeldBlock
  <2>3. \A b \in live : Apart(Extent(b), rest) /\ Apart(Extent(b), Extent(nb))
    BY <1>6, <2>1, <2>2
  <2>4. \A x, y \in Regions : Apart(x, y) => Apart(y, x)
    BY DEF Apart
  <2>5. rest \in Regions
    BY <1>4 DEF rest, Region, Regions
  <2>6. ASSUME NEW m \in DOMAIN free', NEW b \in live'
        PROVE  Apart(free'[m], Extent(b))
    <3>1. CASE free'[m] = rest
      BY <1>7, <1>12, <2>2, <2>3, <2>4, <2>5, <3>1
    <3>2. CASE \E n \in DOMAIN free : n # i /\ free'[m] = free[n]
      <4>1. PICK n \in DOMAIN free : n # i /\ free'[m] = free[n]
        BY <3>2
      <4>2. Apart(free[n], Extent(nb))
        BY <1>6, <1>9, <4>1
      <4> QED BY <1>12, <2>1, <4>1, <4>2
    <3> QED BY <1>13, <3>1, <3>2
  <2>7. ASSUME NEW b \in live', NEW c \in live', b # c
        PROVE  Apart(Extent(b), Extent(c))
    <3>1. CASE b \in live /\ c \in live
      BY <1>1, <2>7, <3>1 DEF RegionsApart
    <3>2. CASE b \in live /\ c = nb
      BY <2>3, <3>2
    <3>3. CASE b = nb /\ c \in live
      BY <1>5, <2>2, <2>3, <2>4, <3>3
    <3> QED BY <1>12, <2>7, <3>1, <3>2, <3>3
  <2> QED BY <1>13, <2>6, <2>7 DEF RegionsApart
<1>15. FreeRegionsHoldNodes'
  <2>1. \A n \in DOMAIN free : HoldsNode(free[n])
    BY <1>1 DEF FreeRegionsHoldNodes, HoldsNode
  <2>2. HeapStart <= end /\ end + ((r.start + r.size) - end) <= HeapEnd
    BY <1>2, <1>3, <1>4, HeapAssumption
  <2>3. can_hold_node(end, (r.start + r.size) - end) => HoldsNode(rest)
    BY <1>4, <2>2, AcceptedHoldsNode DEF rest
  <2>4. \A m \in DOMAIN free' : HoldsNode(free'[m])
    BY <1>13, <2>1, <2>3
  <2> QED BY <2>4 DEF FreeRegionsHoldNodes, HoldsNode, HeapEnd
<1>16. HeldInv'
  <2>1. /\ Abstract!Aligned(start, l.align) /\ \E k \in Nat : start = k * NodeAlign
    BY <1>2, AllocStart
  <2>2. HeapStart <= start /\ start + adjusted_size(l) <= HeapEnd
    BY <1>2, <1>3, HeapAssumption DEF HeapEnd
  <2>3. region_end(Extent(nb)) = start + adjusted_size(l)
    BY <1>5 DEF region_end, Region
  <2>5. adjusts(l)
    BY Zenon DEF Cuts
  <2>4. ASSUME NEW b \in live'
        PROVE  /\ HeapStart <= b.start /\ region_end(Extent(b)) <= HeapEnd
               /\ Abstract!Aligned(b.start, b.layout.align)
               /\ \E k \in Nat : b.start = k * NodeAlign
               /\ adjusts(b.layout)
    <3>1. CASE b \in live
      BY <1>1, <3>1 DEF HeldInv
    <3>2. CASE b = nb
      BY <1>5, <2>1, <2>2, <2>3, <2>5, <3>2
    <3> QED BY <1>12, <3>1, <3>2
  <2> QED BY <2>4 DEF HeldInv
<1>17. live' \subseteq [start : Nat, layout : Layouts]
  BY <1>1, <1>12
<1>18. initialised'
  <2>1. free # <<>>
    OBVIOUS
  <2> QED BY <1>11, <2>1 DEF ListInv
<1> QED BY <1>13, <1>14, <1>15, <1>16, <1>17, <1>18 DEF ListInv

LEMMA InitInv == ASSUME ListInv, init PROVE ListInv'
<1>1. /\ ~initialised /\ initialised' = TRUE /\ live' = live
      /\ add_free_region(HeapStart, HeapSize, free)
  BY DEF init
<1>2. free = <<>> /\ live = {} /\ free \in Seq(Regions) /\ DOMAIN free = {}
  BY <1>1 DEF ListInv
<1>3. HeapStart \in Nat /\ HeapSize \in Nat /\ HeapEnd = HeapStart + HeapSize
  BY HeapAssumption DEF HeapEnd
<1>4. /\ free' \in Seq(Regions)
      /\ \A m \in DOMAIN free' :
           free'[m] = Region(HeapStart, HeapSize) /\ can_hold_node(HeapStart, HeapSize)
      /\ \A m, n \in DOMAIN free' : m # n => Apart(free'[m], free'[n])
  BY <1>1, <1>2, <1>3, AddFreeRegion, Zenon
<1>5. \A m \in DOMAIN free' : HoldsNode(free'[m])
  BY <1>3, <1>4, AcceptedHoldsNode
<1>6. FreeRegionsHoldNodes'
  BY <1>5 DEF FreeRegionsHoldNodes, HoldsNode
<1>7. live' = {} /\ RegionsApart' /\ HeldInv'
  BY <1>1, <1>2, <1>4 DEF RegionsApart, HeldInv
<1> QED BY <1>1, <1>4, <1>6, <1>7 DEF ListInv

LEMMA DeallocInv ==
  ASSUME ListInv, NEW b \in live, dealloc(b)
  PROVE  ListInv'
<1>1. /\ free \in Seq(Regions) /\ live \subseteq [start : Nat, layout : Layouts]
      /\ RegionsApart /\ FreeRegionsHoldNodes /\ HeldInv
  BY DEF ListInv
<1>2. /\ live' = live \ {b} /\ initialised' = initialised
      /\ add_free_region(b.start, adjusted_size(b.layout), free)
  BY HeldBlock DEF dealloc
<1>3. /\ b.start \in Nat /\ adjusted_size(b.layout) \in Nat
      /\ Extent(b) = Region(b.start, adjusted_size(b.layout))
      /\ Extent(b).start = b.start /\ Extent(b).size = adjusted_size(b.layout)
  BY HeldBlock
<1>4. \A m \in DOMAIN free : Apart(free[m], Extent(b))
  BY <1>1 DEF RegionsApart
<1>5. /\ free' \in Seq(Regions)
      /\ \A m \in DOMAIN free' :
           \/ free'[m] = Extent(b) /\ can_hold_node(b.start, adjusted_size(b.layout))
           \/ \E n \in DOMAIN free : free'[m] = free[n]
      /\ \A m, n \in DOMAIN free' : m # n => Apart(free'[m], free'[n])
  <2>1. \A m, n \in DOMAIN free : m # n => Apart(free[m], free[n])
    BY <1>1 DEF RegionsApart
  <2> QED BY <1>1, <1>2, <1>3, <1>4, <2>1, AddFreeRegion
<1>6. RegionsApart'
  <2>1. \A m \in DOMAIN free', c \in live' : Apart(free'[m], Extent(c))
    BY <1>1, <1>2, <1>5, Zenon DEF RegionsApart
  <2>2. \A c, d \in live' : c # d => Apart(Extent(c), Extent(d))
    BY <1>1, <1>2 DEF RegionsApart
  <2> QED BY <1>5, <2>1, <2>2 DEF RegionsApart
<1>7. FreeRegionsHoldNodes'
  <2>1. \A n \in DOMAIN free : HoldsNode(free[n])
    BY <1>1 DEF FreeRegionsHoldNodes, HoldsNode
  <2>2. HeapStart <= b.start /\ b.start + adjusted_size(b.layout) <= HeapEnd
    BY <1>1, <1>3 DEF HeldInv, region_end
  <2>3. can_hold_node(b.start, adjusted_size(b.layout)) => HoldsNode(Extent(b))
    BY <1>3, <2>2, AcceptedHoldsNode
  <2>4. \A m \in DOMAIN free' : HoldsNode(free'[m])
    BY <1>5, <2>1, <2>3
  <2> QED BY <2>4 DEF FreeRegionsHoldNodes, HoldsNode, HeapEnd
<1>8. HeldInv'
  BY <1>1, <1>2 DEF HeldInv
<1>9. initialised' /\ live' \subseteq [start : Nat, layout : Layouts]
  BY <1>1, <1>2 DEF ListInv
<1> QED BY <1>5, <1>6, <1>7, <1>8, <1>9 DEF ListInv

LEMMA ListStep == ListInv /\ [Next]_vars => ListInv'
<1> SUFFICES ASSUME ListInv, [Next]_vars PROVE ListInv'
  OBVIOUS
<1>1. CASE UNCHANGED vars \/ hlt_loop \/ Refuses
  <2>1. free' = free /\ live' = live /\ initialised' = initialised
    BY <1>1, Zenon DEF vars, hlt_loop, Refuses
  <2> QED BY <2>1 DEF ListInv, RegionsApart, FreeRegionsHoldNodes, HeldInv
<1>2. CASE init
  BY <1>2, InitInv
<1>3. ASSUME NEW l \in Layouts, alloc(l) PROVE ListInv'
  BY <1>1, <1>3, AllocEffect, AllocInv
<1>4. ASSUME NEW b \in live, dealloc(b) PROVE ListInv'
  BY <1>4, DeallocInv
<1> QED BY <1>1, <1>2, <1>3, <1>4 DEF Next

-----------------------------------------------------------------------------
(* The inductive invariant holds. *)
THEOREM ListInvariant == Spec => []ListInv
<1>1. Init => ListInv
  BY DEF Init, ListInv, RegionsApart, FreeRegionsHoldNodes, HeldInv
<1> QED BY <1>1, ListStep, PTL DEF Spec

(* No byte is in two free regions, in two blocks, or in a free region and  *)
(* a block, however regions are split and returned.                        *)
THEOREM ListRegionsApart == Spec => []RegionsApart
<1>1. ListInv => RegionsApart
  BY DEF ListInv
<1> QED BY <1>1, ListInvariant, PTL

(* Every region in the list holds its node, inside the heap and aligned. *)
THEOREM ListRegionsHoldNodes == Spec => []FreeRegionsHoldNodes
<1>1. ListInv => FreeRegionsHoldNodes
  BY DEF ListInv
<1> QED BY <1>1, ListInvariant, PTL

(* The expectation of size_align and the assertions of add_free_region     *)
(* hold for every block that dealloc is given back: alloc adjusted its     *)
(* layout before, and made it large and aligned enough.                    *)
THEOREM ListDeallocNeverPanics == Spec => []DeallocNeverPanics
<1>1. ListInv => DeallocNeverPanics
  BY HeldBlock DEF DeallocNeverPanics
<1> QED BY <1>1, ListInvariant, PTL

(* The linked list allocator implements the abstract heap, also when a     *)
(* panic ends it.                                                          *)
THEOREM ListImplementsHeap == Spec => ImplementsHeap
<1>1. Init => Abstract!Init
  BY DEF Init, Abstract!Init
<1>2. ListInv /\ [Next]_vars => [Abstract!Next]_live
  <2> SUFFICES ASSUME ListInv, [Next]_vars
               PROVE  Abstract!Next \/ UNCHANGED live
    OBVIOUS
  <2>1. CASE init \/ hlt_loop \/ UNCHANGED vars \/ Refuses
    BY <2>1, Zenon DEF init, hlt_loop, vars, Refuses
  <2>2. ASSUME NEW l \in Layouts, NEW i \in DOMAIN free, Cuts(l, i), live' # live
        PROVE  Abstract!Next
    <3> DEFINE r == free[i]
               start == alloc_start(r, l)
    <3>1. /\ r \in Regions /\ r.start \in Nat /\ r.size \in Nat
          /\ start \in Nat /\ r.start <= start
          /\ start + adjusted_size(l) <= r.start + r.size
          /\ live' = live \cup {Block(start, l)}
      BY <2>2 DEF Cuts, Regions
    <3>2. /\ adjusted_size(l) \in Nat \ {0} /\ l.size \in Nat \ {0}
          /\ l.size <= adjusted_size(l)
      BY AdjustedSize
    <3>3. HeapStart <= r.start /\ r.start + r.size <= HeapEnd
      BY DEF ListInv, FreeRegionsHoldNodes, region_end
    <3>4. Abstract!Aligned(start, l.align)
      BY <3>1, AllocStart
    <3>5. \A b \in live : Apart(r, Extent(b))
      BY DEF ListInv, RegionsApart
    <3> HIDE DEF r, start
    <3>6. ASSUME NEW b \in live
          PROVE  Abstract!Disjoint(start, l.size, b.start, b.layout.size)
      <4>1. /\ b.start \in Nat /\ b.layout.size \in Nat
            /\ adjusted_size(b.layout) \in Nat
            /\ b.layout.size <= adjusted_size(b.layout)
            /\ Extent(b).start = b.start /\ Extent(b).size = adjusted_size(b.layout)
        BY HeldBlock
      <4>2. \/ r.start + r.size <= b.start
            \/ b.start + adjusted_size(b.layout) <= r.start
        BY <3>5, <4>1 DEF Apart, region_end
      <4> QED BY <3>1, <3>2, <4>1, <4>2 DEF Abstract!Disjoint
    <3>7. HeapStart <= start /\ start + l.size <= HeapEnd
      BY <3>1, <3>2, <3>3, HeapAssumption DEF HeapEnd
    <3>8. Abstract!Alloc(l, start)
      BY <3>1, <3>4, <3>6, <3>7
      DEF Abstract!Alloc, Abstract!HeapEnd, HeapEnd, Abstract!Block, Block
    <3>9. start \in HeapStart .. Abstract!HeapEnd
      BY <3>1, <3>2, <3>7, HeapAssumption DEF HeapEnd, Abstract!HeapEnd
    <3> QED BY <3>8, <3>9 DEF Abstract!Next
  <2>3. ASSUME NEW l \in Layouts, alloc(l)
        PROVE  Abstract!Next \/ UNCHANGED live
    BY <2>1, <2>2, <2>3, AllocEffect
  <2>4. ASSUME NEW b \in live, dealloc(b)
        PROVE  Abstract!Next
    BY <2>4 DEF dealloc, Abstract!Dealloc, Abstract!Next
  <2> QED BY <2>1, <2>3, <2>4 DEF Next
<1> QED
  BY <1>1, <1>2, ListInvariant, PTL
  DEF Spec, ImplementsHeap, Abstract!Spec

-----------------------------------------------------------------------------
(* What BytesAccounted needs besides ListInv *)
AccountInv ==
  /\ padding \in 0 .. HeapSize
  /\ initialised \in BOOLEAN /\ panicked \in BOOLEAN
  /\ ~initialised => padding = 0
  /\ BytesAccounted

(* A byte is covered when it is in a free region or in a block. *)
LEMMA InCovered ==
  ASSUME NEW list, NEW held, NEW x
  PROVE  x \in Covered(list, held) <=> \/ \E n \in DOMAIN list : x \in Bytes(list[n])
                                       \/ \E b \in held : x \in Bytes(Extent(b))
  BY DEF Covered

(* Regions that are apart share no byte. *)
LEMMA ApartBytes ==
  ASSUME NEW r \in Regions, NEW s \in Regions, Apart(r, s), NEW x \in Bytes(r)
  PROVE  x \notin Bytes(s)
  BY DEF Regions, Apart, Bytes, region_end

(* All bytes covered are bytes of the heap, so they can be counted. *)
LEMMA CoveredIsFinite ==
  ASSUME ListInv
  PROVE  IsFiniteSet(Covered(free, live)) /\ Cardinality(Covered(free, live)) \in Nat
<1>1. /\ HeapStart \in Nat /\ HeapEnd \in Nat
  BY HeapAssumption DEF HeapEnd
<1>2. ASSUME NEW r \in Regions, HeapStart <= r.start, region_end(r) <= HeapEnd
      PROVE  Bytes(r) \subseteq HeapStart .. HeapEnd - 1
  BY <1>1, <1>2 DEF Bytes, Regions, region_end
<1>3. \A n \in DOMAIN free : Bytes(free[n]) \subseteq HeapStart .. HeapEnd - 1
  <2>1. free \in Seq(Regions) /\ FreeRegionsHoldNodes
    BY DEF ListInv
  <2>2. \A n \in DOMAIN free : free[n] \in Regions
    BY <2>1
  <2> QED BY <1>2, <2>1, <2>2 DEF FreeRegionsHoldNodes
<1>4. \A b \in live : Bytes(Extent(b)) \subseteq HeapStart .. HeapEnd - 1
  <2> SUFFICES ASSUME NEW b \in live
               PROVE  Bytes(Extent(b)) \subseteq HeapStart .. HeapEnd - 1
    OBVIOUS
  <2>1. Extent(b) \in Regions /\ Extent(b).start = b.start
    BY HeldBlock
  <2>2. HeapStart <= b.start /\ region_end(Extent(b)) <= HeapEnd
    BY DEF ListInv, HeldInv
  <2> QED BY <1>2, <2>1, <2>2
<1>5. Covered(free, live) \subseteq HeapStart .. HeapEnd - 1
  BY <1>3, <1>4 DEF Covered
<1>6. IsFiniteSet(HeapStart .. HeapEnd - 1)
  BY <1>1, FS_Interval
<1> QED BY <1>5, <1>6, FS_Subset, FS_CardinalityType, Zenon

(* Putting a node in front of the list covers its region as well. *)
LEMMA CoverMore ==
  ASSUME NEW list \in Seq(Regions), NEW r \in Regions, NEW held, NEW x
  PROVE  x \in Covered(<<r>> \o list, held) <=> x \in Bytes(r) \/ x \in Covered(list, held)
<1> DEFINE more == <<r>> \o list
<1>1. /\ 1 \in DOMAIN more /\ more[1] = r
      /\ \A m \in DOMAIN list : m + 1 \in DOMAIN more /\ more[m + 1] = list[m]
      /\ \A m \in DOMAIN more : m # 1 => m - 1 \in DOMAIN list /\ more[m] = list[m - 1]
  BY NewHead
<1> HIDE DEF more
<1>2. (\E m \in DOMAIN more : x \in Bytes(more[m]))
        <=> x \in Bytes(r) \/ \E m \in DOMAIN list : x \in Bytes(list[m])
  <2>1. ASSUME NEW m \in DOMAIN more, x \in Bytes(more[m])
        PROVE  x \in Bytes(r) \/ \E n \in DOMAIN list : x \in Bytes(list[n])
    <3>1. CASE m = 1
      BY <1>1, <2>1, <3>1
    <3>2. CASE m # 1
      BY <1>1, <2>1, <3>2
    <3> QED BY <3>1, <3>2
  <2>2. x \in Bytes(r) => \E m \in DOMAIN more : x \in Bytes(more[m])
    BY <1>1
  <2>3. ASSUME NEW n \in DOMAIN list, x \in Bytes(list[n])
        PROVE  \E m \in DOMAIN more : x \in Bytes(more[m])
    BY <1>1, <2>3
  <2> QED BY <2>1, <2>2, <2>3
<1>3. x \in Covered(more, held) <=> \/ \E m \in DOMAIN more : x \in Bytes(more[m])
                                    \/ \E b \in held : x \in Bytes(Extent(b))
  BY InCovered
<1>4. x \in Covered(list, held) <=> \/ \E m \in DOMAIN list : x \in Bytes(list[m])
                                    \/ \E b \in held : x \in Bytes(Extent(b))
  BY InCovered
<1> QED BY <1>2, <1>3, <1>4 DEF more

(* Unlinking a region uncovers its bytes and no other's. *)
LEMMA CoverLess ==
  ASSUME ListInv, NEW i \in DOMAIN free, NEW x
  PROVE  x \in Covered(unlink(i), live) <=> x \in Covered(free, live) \ Bytes(free[i])
<1>1. /\ \A m \in DOMAIN unlink(i) :
           \E n \in DOMAIN free : n # i /\ unlink(i)[m] = free[n]
      /\ \A n \in DOMAIN free : n # i =>
           \E m \in DOMAIN unlink(i) : unlink(i)[m] = free[n]
  BY Unlinked
<1>2. /\ \A n \in DOMAIN free : free[n] \in Regions
      /\ RegionsApart
  BY DEF ListInv
<1>3. ASSUME x \in Bytes(free[i]), NEW n \in DOMAIN free, n # i PROVE x \notin Bytes(free[n])
  BY <1>2, <1>3, ApartBytes DEF RegionsApart
<1>4. ASSUME x \in Bytes(free[i]), NEW b \in live PROVE x \notin Bytes(Extent(b))
  <2>1. Extent(b) \in Regions
    BY HeldBlock
  <2>2. Apart(free[i], Extent(b))
    BY <1>2 DEF RegionsApart
  <2> QED BY <1>2, <1>4, <2>1, <2>2, ApartBytes
<1>5. x \in Covered(unlink(i), live) <=>
        \/ \E m \in DOMAIN unlink(i) : x \in Bytes(unlink(i)[m])
        \/ \E b \in live : x \in Bytes(Extent(b))
  BY InCovered
<1>6. x \in Covered(free, live) <=> \/ \E m \in DOMAIN free : x \in Bytes(free[m])
                                    \/ \E b \in live : x \in Bytes(Extent(b))
  BY InCovered
<1>7. (\E m \in DOMAIN unlink(i) : x \in Bytes(unlink(i)[m]))
        <=> \E n \in DOMAIN free : n # i /\ x \in Bytes(free[n])
  BY <1>1
<1> QED BY <1>3, <1>4, <1>5, <1>6, <1>7

(* Cutting a block out of a region uncovers only the bytes in front of it. *)
LEMMA CutCovers ==
  ASSUME ListInv, NEW l \in Layouts, NEW i \in DOMAIN free, Cuts(l, i), Pads(l, i), ~panicked'
  PROVE  Covered(free', live') =
           Covered(free, live) \ (free[i].start .. alloc_start(free[i], l) - 1)
<1> DEFINE r == free[i]
           start == alloc_start(r, l)
           end == start + adjusted_size(l)
           rest == Region(end, (r.start + r.size) - end)
           nb == Block(start, l)
<1>1. /\ r \in Regions /\ r.start \in Nat /\ r.size \in Nat
      /\ start \in Nat /\ r.start <= start /\ end <= r.start + r.size
      /\ adjusted_size(l) \in Nat \ {0}
  BY AdjustedSize, Zenon DEF Cuts, Regions
<1>2. /\ live' = live \cup {nb}
      /\ free' = IF (r.start + r.size) - end > 0 THEN <<rest>> \o unlink(i) ELSE unlink(i)
  BY DEF Pads
<1>3. unlink(i) \in Seq(Regions)
  BY Unlinked
<1>4. rest \in Regions
  <2>1. end \in Nat /\ (r.start + r.size) - end \in Nat
    <3> HIDE DEF r, start
    <3> QED BY <1>1
  <2> HIDE DEF r, start, end
  <2> QED BY <2>1 DEF Region, Regions
<1>5. /\ Bytes(r) = r.start .. (r.start + r.size) - 1
      /\ Bytes(rest) = end .. (r.start + r.size) - 1
      /\ Bytes(Extent(nb)) = start .. end - 1
  <2>1. Bytes(r) = r.start .. (r.start + r.size) - 1
    BY Zenon DEF Bytes, region_end
  <2>2. rest.start = end /\ rest.start + rest.size = r.start + r.size
    <3>1. end \in Nat /\ end + ((r.start + r.size) - end) = r.start + r.size
      <4> HIDE DEF r, start
      <4> QED BY <1>1
    <3> HIDE DEF r, start, end
    <3> QED BY <3>1, Zenon DEF Region
  <2>3. Extent(nb).start = start /\ Extent(nb).start + Extent(nb).size = end
    BY DEF Extent, Block, Region
  <2> QED BY <2>1, <2>2, <2>3, Zenon DEF Bytes, region_end
<1> HIDE DEF r, start, rest, nb
<1>6. ASSUME NEW x
      PROVE  x \in Covered(free', live') <=>
               \/ x \in Bytes(rest) \/ x \in Bytes(Extent(nb))
               \/ x \in Covered(unlink(i), live)
  <2>1. x \in Covered(free', live') <=> x \in Covered(free', live) \/ x \in Bytes(Extent(nb))
    BY <1>2, InCovered
  <2>2. CASE (r.start + r.size) - end > 0
    BY <1>2, <1>3, <1>4, <2>1, <2>2, CoverMore
  <2>3. CASE ~((r.start + r.size) - end > 0)
    <3>1. free' = unlink(i)
      BY <1>2, <2>3
    <3>2. x \notin Bytes(rest)
      BY <1>1, <1>5, <2>3
    <3> QED BY <2>1, <3>1, <3>2
  <2> QED BY <2>2, <2>3
<1>7. \A x : x \in Covered(unlink(i), live) <=> x \in Covered(free, live) /\ x \notin Bytes(r)
  BY CoverLess DEF r
<1>8. \A x \in Bytes(r) : x \in Covered(free, live)
  BY InCovered DEF r
<1>9. \A x : x \in Bytes(rest) \/ x \in Bytes(Extent(nb))
               <=> x \in Bytes(r) /\ x \notin r.start .. start - 1
  BY <1>1, <1>5
<1>10. \A x \in r.start .. start - 1 : x \in Bytes(r)
  BY <1>1, <1>5
<1> QED BY <1>6, <1>7, <1>8, <1>9, <1>10 DEF r, start

(* The bytes that alloc skips were covered, and counting them is exact. *)
LEMMA CutCounts ==
  ASSUME ListInv, NEW l \in Layouts, NEW i \in DOMAIN free, Cuts(l, i)
  PROVE  LET gap == free[i].start .. alloc_start(free[i], l) - 1
             skipped == alloc_start(free[i], l) - free[i].start
         IN /\ skipped \in Nat
            /\ skipped <= Cardinality(Covered(free, live))
            /\ Cardinality(Covered(free, live) \ gap)
                 = Cardinality(Covered(free, live)) - skipped
<1> DEFINE r == free[i]
           start == alloc_start(r, l)
           gap == r.start .. start - 1
           C == Covered(free, live)
<1>1. /\ r.start \in Nat /\ r.size \in Nat /\ start \in Nat /\ r.start <= start
      /\ start + adjusted_size(l) <= r.start + r.size /\ adjusted_size(l) \in Nat \ {0}
  BY AdjustedSize, Zenon DEF Cuts, Regions
<1>2. IsFiniteSet(C) /\ Cardinality(C) \in Nat
  BY CoveredIsFinite
<1>3. IsFiniteSet(gap) /\ Cardinality(gap) = start - r.start
  <2>1. r.start \in Int /\ start - 1 \in Int
    BY <1>1
  <2>2. /\ IsFiniteSet(gap)
        /\ Cardinality(gap) = IF r.start > start - 1 THEN 0 ELSE ((start - 1) - r.start) + 1
    <3> HIDE DEF r, start
    <3> QED BY <2>1, FS_Interval
  <2> QED BY <1>1, <2>2
<1>4. gap \subseteq C
  <2>1. gap \subseteq Bytes(r)
    BY <1>1 DEF Bytes, region_end
  <2>2. Bytes(r) \subseteq C
    BY InCovered
  <2> QED BY <2>1, <2>2
<1> HIDE DEF gap, C, r, start
<1>5. IsFiniteSet(C \ gap) /\ Cardinality(C \ gap) \in Nat
  <2>1. C \ gap \in SUBSET C
    OBVIOUS
  <2> QED BY <1>2, <2>1, FS_Subset, FS_CardinalityType
<1>6. Cardinality(C) = Cardinality(C \ gap) + Cardinality(gap)
  <2>1. (C \ gap) \cup gap = C /\ (C \ gap) \cap gap = {}
    BY <1>4
  <2>2. Cardinality((C \ gap) \cup gap)
          = Cardinality(C \ gap) + Cardinality(gap) - Cardinality((C \ gap) \cap gap)
    BY <1>3, <1>5, FS_Union
  <2>3. Cardinality((C \ gap) \cup gap) = Cardinality(C)
        /\ Cardinality((C \ gap) \cap gap) = 0
    BY <2>1, FS_EmptySet
  <2>4. Cardinality(gap) \in Nat
    BY <1>3, FS_CardinalityType
  <2> QED BY <1>5, <2>2, <2>3, <2>4
<1>7. start - r.start \in Nat
  BY <1>1
<1>8. start - r.start <= Cardinality(C) /\ Cardinality(C \ gap) = Cardinality(C) - (start - r.start)
  BY <1>2, <1>3, <1>5, <1>6, <1>7
<1> QED BY <1>7, <1>8 DEF gap, C, r, start

(* dealloc covers the bytes that its caller held, so all stay covered. *)
LEMMA DeallocCovers ==
  ASSUME ListInv, NEW b \in live, dealloc(b)
  PROVE  panicked' = panicked /\ Covered(free', live') = Covered(free, live)
<1>1. /\ live' = live \ {b}
      /\ add_free_region(b.start, adjusted_size(b.layout), free)
  BY HeldBlock DEF dealloc
<1>2. /\ Extent(b) = Region(b.start, adjusted_size(b.layout)) /\ Extent(b) \in Regions
      /\ can_hold_node(b.start, adjusted_size(b.layout))
  BY HeldBlock
<1>3. free' = <<Extent(b)>> \o free /\ panicked' = panicked
  BY <1>1, <1>2 DEF add_free_region
<1>4. free \in Seq(Regions)
  BY DEF ListInv
<1>5. ASSUME NEW x PROVE x \in Covered(free', live') <=> x \in Covered(free, live)
  <2>1. x \in Covered(free', live') <=> x \in Bytes(Extent(b)) \/ x \in Covered(free, live')
    BY <1>2, <1>3, <1>4, CoverMore
  <2>2. x \in Bytes(Extent(b)) \/ x \in Covered(free, live') <=> x \in Covered(free, live)
    BY <1>1, InCovered
  <2> QED BY <2>1, <2>2
<1> QED BY <1>3, <1>5, Zenon

LEMMA InitAccounts == ASSUME ListInv, AccountInv, init PROVE AccountInv'
<1>1. /\ ~panicked /\ ~initialised /\ initialised' = TRUE /\ live' = live /\ padding' = padding
      /\ add_free_region(HeapStart, HeapSize, free)
  BY DEF init
<1>2. free = <<>> /\ live = {} /\ padding = 0 /\ ~panicked /\ panicked \in BOOLEAN
  BY <1>1 DEF ListInv, AccountInv
<1>3. HeapStart \in Nat /\ HeapSize \in Nat /\ HeapSize >= NodeSize
  BY HeapAssumption
<1>4. can_hold_node(HeapStart, HeapSize)
  <2>1. \E k \in Nat : HeapStart = k * NodeAlign
    <3> DEFINE q == HeapStart \div NodeAlign
    <3>1. q \in Nat /\ HeapStart = q * NodeAlign + (HeapStart % NodeAlign)
      BY HeapAssumption
    <3>2. HeapStart % NodeAlign = 0 /\ q * NodeAlign \in Nat
      BY <3>1, HeapAssumption
    <3> HIDE DEF q
    <3>3. HeapStart = q * NodeAlign
      BY <3>1, <3>2
    <3> QED BY <3>1, <3>3, Zenon
  <2>2. align_up(HeapStart, NodeAlign) = HeapStart
    BY <1>3, <2>1, NodeStart
  <2> QED BY <1>3, <2>2 DEF can_hold_node
<1> DEFINE heap == Region(HeapStart, HeapSize)
<1>5. free' = <<heap>> \o free /\ panicked' = panicked
  BY <1>1, <1>4 DEF add_free_region
<1>6. heap \in Regions /\ Bytes(heap) = HeapStart .. (HeapStart + HeapSize) - 1
  BY <1>3 DEF Region, Regions, Bytes, region_end
<1> HIDE DEF heap
<1>7. ASSUME NEW x PROVE x \in Covered(free', live') <=> x \in Bytes(heap)
  <2>1. free \in Seq(Regions) /\ DOMAIN free = {}
    BY <1>2
  <2>2. x \notin Covered(free, live)
    BY <1>2, <2>1, InCovered
  <2> QED BY <1>1, <1>5, <1>6, <2>1, <2>2, CoverMore, Zenon
<1>8. Covered(free', live') = HeapStart .. (HeapStart + HeapSize) - 1
  BY <1>6, <1>7, Zenon
<1>9. Cardinality(Covered(free', live')) = HeapSize
  <2>1. HeapStart \in Int /\ (HeapStart + HeapSize) - 1 \in Int
    BY <1>3
  <2>2. Cardinality(HeapStart .. (HeapStart + HeapSize) - 1) =
          IF HeapStart > (HeapStart + HeapSize) - 1 THEN 0
          ELSE (((HeapStart + HeapSize) - 1) - HeapStart) + 1
    BY <2>1, FS_Interval
  <2>3. Cardinality(HeapStart .. (HeapStart + HeapSize) - 1) = HeapSize
    BY <1>3, <2>2
  <2> QED BY <1>8, <2>3
<1>10. BytesAccounted'
  BY <1>1, <1>2, <1>3, <1>9 DEF BytesAccounted
<1> QED BY <1>1, <1>2, <1>3, <1>5, <1>10 DEF AccountInv

LEMMA AllocAccounts ==
  ASSUME ListInv, AccountInv, ~panicked,
         NEW l \in Layouts, NEW i \in DOMAIN free, Cuts(l, i), Pads(l, i)
  PROVE  AccountInv'
<1> DEFINE skipped == alloc_start(free[i], l) - free[i].start
           C == Cardinality(Covered(free, live))
<1>1. /\ skipped \in Nat /\ skipped <= C
      /\ Cardinality(Covered(free, live)
                     \ (free[i].start .. alloc_start(free[i], l) - 1)) = C - skipped
  BY CutCounts, Zenon
<1>2. C \in Nat
  BY CoveredIsFinite
<1>3. initialised /\ initialised' = initialised
  BY DEF ListInv, Cuts
<1>4. C + padding = HeapSize /\ padding \in Nat /\ HeapSize \in Nat
  BY <1>3, HeapAssumption DEF AccountInv, BytesAccounted
<1>5. padding' = padding + skipped /\ panicked' \in BOOLEAN
  BY Zenon DEF Pads, AccountInv
<1>6. ~panicked' => Cardinality(Covered(free', live')) = C - skipped
  BY <1>1, CutCovers, Zenon
<1> HIDE DEF skipped, C
<1>7. padding' \in 0 .. HeapSize
  BY <1>1, <1>2, <1>4, <1>5
<1>8. ASSUME ~panicked' PROVE Cardinality(Covered(free', live')) + padding' = HeapSize
  BY <1>1, <1>2, <1>4, <1>5, <1>6, <1>8
<1>9. BytesAccounted'
  BY <1>8 DEF BytesAccounted
<1> QED BY <1>3, <1>5, <1>7, <1>9 DEF AccountInv

LEMMA AccountStep == ListInv /\ AccountInv /\ [Next]_vars => AccountInv'
<1> SUFFICES ASSUME ListInv, AccountInv, [Next]_vars PROVE AccountInv'
  OBVIOUS
<1>1. CASE UNCHANGED vars \/ hlt_loop \/ Refuses
  <2>1. /\ free' = free /\ live' = live /\ initialised' = initialised
        /\ padding' = padding /\ panicked' \in {panicked, TRUE}
    BY <1>1, Zenon DEF vars, hlt_loop, Refuses
  <2> QED BY <2>1, Zenon DEF AccountInv, BytesAccounted
<1>2. CASE init
  BY <1>2, InitAccounts
<1>3. ASSUME NEW l \in Layouts, alloc(l) PROVE AccountInv'
  <2>1. ~panicked
    BY <1>3 DEF alloc
  <2>2. CASE \E i \in DOMAIN free : Cuts(l, i) /\ Pads(l, i)
    BY <2>1, <2>2, AllocAccounts
  <2> QED BY <1>1, <1>3, <2>2, AllocEffect
<1>4. ASSUME NEW b \in live, dealloc(b) PROVE AccountInv'
  <2>1. /\ initialised' = initialised /\ padding' = padding /\ panicked' = panicked
        /\ Covered(free', live') = Covered(free, live)
    BY <1>4, DeallocCovers, Zenon DEF dealloc
  <2> QED BY <2>1 DEF AccountInv, BytesAccounted
<1> QED BY <1>1, <1>2, <1>3, <1>4 DEF Next

THEOREM AccountInvariant == Spec => [](ListInv /\ AccountInv)
<1>1. Init => AccountInv
  <2>1. 0 \in 0 .. HeapSize
    BY HeapAssumption
  <2> QED BY <2>1, Zenon DEF Init, AccountInv, BytesAccounted
<1> QED BY <1>1, AccountStep, ListInvariant, PTL DEF Spec

(* No byte gets lost: what alloc cuts off and dealloc returns always adds  *)
(* up, with the padding in front of aligned blocks, to the heap that init  *)
(* was given.                                                              *)
THEOREM ListBytesAccounted == Spec => []BytesAccounted
<1>1. AccountInv => BytesAccounted
  BY DEF AccountInv
<1> QED BY <1>1, AccountInvariant, PTL

(* Free regions and blocks stay in the heap, and no more bytes are skipped *)
(* than it has.                                                            *)
THEOREM ListTypeCorrect == Spec => []TypeOK
<1>1. ListInv /\ AccountInv => TypeOK
  <2> SUFFICES ASSUME ListInv, AccountInv PROVE TypeOK
    OBVIOUS
  <2> DEFINE Placed == [start : HeapStart .. HeapEnd - 1, size : 1 .. HeapSize]
  <2>1. /\ HeapStart \in Nat /\ HeapSize \in Nat /\ NodeSize \in Nat \ {0}
        /\ HeapEnd = HeapStart + HeapSize
    BY HeapAssumption DEF HeapEnd
  <2>2. free \in Seq(Placed)
    <3>1. /\ free \in Seq(Regions) /\ FreeRegionsHoldNodes
      BY DEF ListInv
    <3>2. ASSUME NEW n \in DOMAIN free PROVE free[n] \in Placed
      <4>1. free[n] \in Regions
        BY <3>1
      <4>2. /\ free[n].size >= NodeSize /\ HeapStart <= free[n].start
            /\ free[n].start + free[n].size <= HeapEnd
        BY <3>1 DEF FreeRegionsHoldNodes, region_end
      <4> QED BY <2>1, <4>1, <4>2 DEF Regions
    <3> HIDE DEF Placed
    <3>3. Len(free) \in Nat /\ DOMAIN free = 1 .. Len(free) /\ free = [n \in DOMAIN free |-> free[n]]
      BY <3>1
    <3> QED BY <3>2, <3>3
  <2>3. ASSUME NEW b \in live PROVE b \in [start : HeapStart .. HeapEnd - 1, layout : Layouts]
    <3>1. b \in [start : Nat, layout : Layouts]
      BY DEF ListInv
    <3>2. /\ b.start \in Nat /\ adjusted_size(b.layout) \in Nat \ {0}
          /\ Extent(b).start = b.start /\ Extent(b).size = adjusted_size(b.layout)
      BY HeldBlock
    <3>3. HeapStart <= b.start /\ b.start + adjusted_size(b.layout) <= HeapEnd
      BY <3>2 DEF ListInv, HeldInv, region_end
    <3>4. b.start \in HeapStart .. HeapEnd - 1
      BY <2>1, <3>2, <3>3
    <3> QED BY <3>1, <3>4
  <2> QED BY <2>2, <2>3 DEF TypeOK, AccountInv
<1> QED BY <1>1, AccountInvariant, PTL
=============================================================================
