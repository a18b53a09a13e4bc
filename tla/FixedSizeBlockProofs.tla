------------------------ MODULE FixedSizeBlockProofs ------------------------
(***************************************************************************)
(* Proofs about FixedSizeBlock.tla, for every heap, every set of layouts   *)
(* and every ascending sequence of block sizes: each region has one owner, *)
(* the kernel's allocator implements Heap.tla, and it makes a new block    *)
(* only when callers hold all blocks of that size.                         *)
(***************************************************************************)
EXTENDS FixedSizeBlock, KernelLemmas, FiniteSetTheorems, TLAPS

(* The regions of the fallback lie apart, inside the heap. *)
ApartInv ==
  /\ \A r \in fallback : r.start + r.size <= HeapEnd
  /\ \A r, s \in fallback :
       r = s \/ r.start + r.size <= s.start \/ s.start + s.size <= r.start

(* Blocks of a block size are aligned to it, in a list and outside. *)
AlignedInv ==
  /\ \A b \in live : has_index(b.layout) =>
       Abstract!Aligned(b.start, BLOCK_SIZES[list_index(b.layout)])
  /\ \A b \in live : Abstract!Aligned(b.start, b.layout.align)
  /\ \A i \in Indices : \A m \in DOMAIN list_heads[i] :
       Abstract!Aligned(list_heads[i][m], BLOCK_SIZES[i])

(* The inductive invariant. *)
BlockInv ==
  /\ TypeOK /\ IsFiniteSet(live)
  /\ OneOwner
  /\ ApartInv
  /\ AlignedInv

-----------------------------------------------------------------------------
(* list_index finds a block size that holds the layout. *)
LEMMA IndexFits ==
  ASSUME NEW l \in Layouts, has_index(l)
  PROVE  /\ list_index(l) \in Indices
         /\ BLOCK_SIZES[list_index(l)] \in Nat \ {0}
         /\ l.size <= BLOCK_SIZES[list_index(l)]
         /\ l.align <= BLOCK_SIZES[list_index(l)]
<1>1. l.size \in Nat /\ l.align \in Nat
  BY LayoutAssumption
<1>2. Indices \subseteq Nat /\ \A i \in Indices : BLOCK_SIZES[i] \in Nat \ {0}
  BY BlockSizesAssumption DEF Indices
<1>3. fitting(l) \subseteq Nat /\ fitting(l) # {}
  BY <1>2, Zenon DEF fitting, has_index
<1>4. list_index(l) \in fitting(l)
  BY <1>3, MinOfNats DEF list_index
<1>5. list_index(l) \in Indices
      /\ BLOCK_SIZES[list_index(l)] >= Max({l.size, l.align})
  BY <1>4 DEF fitting
<1>6. /\ Max({l.size, l.align}) \in Nat
      /\ Max({l.size, l.align}) >= l.size /\ Max({l.size, l.align}) >= l.align
  BY <1>1, MaxOfPair
<1>7. \A n, x, y \in Nat : n >= x /\ x >= y => y <= n
  OBVIOUS
<1>8. BLOCK_SIZES[list_index(l)] \in Nat \ {0}
  BY <1>2, <1>5, Zenon
<1>9. l.size <= BLOCK_SIZES[list_index(l)] /\ l.align <= BLOCK_SIZES[list_index(l)]
  BY <1>1, <1>5, <1>6, <1>7, <1>8
<1> QED BY <1>5, <1>8, <1>9

(* An address aligned to a multiple of an alignment has that alignment. *)
LEMMA AlignedToMultiple ==
  ASSUME NEW a \in Nat, NEW n \in Nat \ {0}, NEW al \in Nat \ {0},
         Abstract!Aligned(a, n), NEW k \in Nat, n = k * al
  PROVE  Abstract!Aligned(a, al)
<1>1. PICK q \in 0 .. a : a = q * n
  BY DEF Abstract!Aligned
<1>2. q * k \in Nat
  BY <1>1
<1>3. a = (q * k) * al
  BY <1>1
<1>4. q * k <= (q * k) * al
  BY <1>2
<1> QED BY <1>2, <1>3, <1>4 DEF Abstract!Aligned

(* The same for the first block size that fits a layout *)
LEMMA BlockIsAligned ==
  ASSUME NEW l \in Layouts, has_index(l), NEW a \in Nat,
         Abstract!Aligned(a, BLOCK_SIZES[list_index(l)])
  PROVE  Abstract!Aligned(a, l.align)
<1>1. /\ list_index(l) \in Indices /\ l.align <= BLOCK_SIZES[list_index(l)]
      /\ BLOCK_SIZES[list_index(l)] \in Nat \ {0}
  BY IndexFits
<1>2. PICK k \in 0 .. BLOCK_SIZES[list_index(l)] :
        BLOCK_SIZES[list_index(l)] = k * l.align
  BY <1>1, PowersOfTwoAssumption
<1>3. l.align \in Nat \ {0} /\ k \in Nat
  BY <1>1, LayoutAssumption
<1> QED BY <1>1, <1>2, <1>3, AlignedToMultiple

(* What align_up leaves alone is aligned. *)
LEMMA AlignUpFixed ==
  ASSUME NEW a \in Nat, NEW al \in Nat \ {0}, align_up(a, al) = a
  PROVE  Abstract!Aligned(a, al)
<1> DEFINE q == (a + al - 1) \div al
<1>1. q \in Nat
  OBVIOUS
<1>2. a = q * al
  BY DEF align_up
<1> HIDE DEF q
<1>3. q <= q * al
  BY <1>1
<1> QED BY <1>1, <1>2, <1>3 DEF Abstract!Aligned

-----------------------------------------------------------------------------
(* Layouts and regions of blocks in a caller's hands *)
LEMMA RegionOfBlock ==
  ASSUME NEW a \in Nat, NEW l \in Layouts
  PROVE  /\ RegionOf(Block(a, l)).start = a
         /\ RegionOf(Block(a, l)).size \in Nat \ {0}
         /\ l.size \in Nat \ {0} /\ l.size <= RegionOf(Block(a, l)).size
<1>1. l.size \in Nat \ {0}
  BY LayoutAssumption
<1>2. CASE has_index(l)
  BY <1>1, <1>2, IndexFits DEF RegionOf, Region, Block
<1>3. CASE ~has_index(l)
  BY <1>1, <1>3 DEF RegionOf, Region, Block
<1> QED BY <1>2, <1>3

LEMMA LiveBlock ==
  ASSUME TypeOK, NEW b \in live
  PROVE  /\ b.start \in HeapStart .. HeapEnd - 1 /\ b.start \in Nat
         /\ b.layout \in Layouts
         /\ b = Block(b.start, b.layout)
         /\ RegionOf(b).start = b.start
         /\ RegionOf(b).size \in Nat \ {0} /\ b.layout.size \in Nat \ {0}
         /\ b.layout.size <= RegionOf(b).size
<1>1. b \in [start : HeapStart .. HeapEnd - 1, layout : Layouts]
  BY DEF TypeOK
<1>2. /\ b.start \in HeapStart .. HeapEnd - 1 /\ b.layout \in Layouts
      /\ b = Block(b.start, b.layout)
  BY <1>1 DEF Block
<1>3. b.start \in Nat
  BY <1>2, HeapAssumption DEF HeapEnd
<1> QED BY <1>2, <1>3, RegionOfBlock

(* OneOwner read as facts about single regions *)
LEMMA Owners ==
  ASSUME OneOwner
  PROVE  /\ \A b \in live : RegionOf(b) \in fallback
         /\ \A i \in Indices : \A m \in DOMAIN list_heads[i] :
              Region(list_heads[i][m], BLOCK_SIZES[i]) \in fallback
         /\ \A r \in fallback :
              \/ \E b \in live : r = RegionOf(b)
              \/ \E i \in Indices : \E m \in DOMAIN list_heads[i] :
                   r = Region(list_heads[i][m], BLOCK_SIZES[i])
         /\ \A b \in live, i \in Indices : \A m \in DOMAIN list_heads[i] :
              b.start # list_heads[i][m]
  BY DEF OneOwner, Listed, Range

(* The converse, for the state after a step *)
LEMMA OwnersConverse ==
  ASSUME /\ \A b \in live' : RegionOf(b) \in fallback'
         /\ \A i \in Indices : \A m \in DOMAIN list_heads'[i] :
              Region(list_heads'[i][m], BLOCK_SIZES[i]) \in fallback'
         /\ \A r \in fallback' :
              \/ \E b \in live' : r = RegionOf(b)
              \/ \E i \in Indices : \E m \in DOMAIN list_heads'[i] :
                   r = Region(list_heads'[i][m], BLOCK_SIZES[i])
         /\ \A b \in live', i \in Indices : \A m \in DOMAIN list_heads'[i] :
              b.start # list_heads'[i][m],
         \A b, c \in live' : b.start = c.start => b = c,
         \A i, j \in Indices : \A m \in DOMAIN list_heads'[i], n \in DOMAIN list_heads'[j] :
           list_heads'[i][m] = list_heads'[j][n] => i = j /\ m = n
  PROVE  OneOwner'
<1> DEFINE held == {RegionOf(b) : b \in live'}
           listed(i) == {list_heads'[i][m] : m \in DOMAIN list_heads'[i]}
           free == UNION {{Region(a, BLOCK_SIZES[i]) : a \in listed(i)} : i \in Indices}
<1>1. fallback' \subseteq held \cup free
  OBVIOUS
<1>2. held \cup free \subseteq fallback'
  OBVIOUS
<1>3. \A b \in live', i \in Indices : b.start \notin listed(i)
  OBVIOUS
<1> QED BY <1>1, <1>2, <1>3, Zenon DEF OneOwner, Listed, Range

(* FixedSizeBlockAllocator::new establishes the invariant. *)
LEMMA BlockInitInv == Init => BlockInv
<1> SUFFICES ASSUME Init PROVE BlockInv
  OBVIOUS
<1>1. TypeOK
  <2>1. <<>> \in Seq(HeapStart .. HeapEnd - 1)
    OBVIOUS
  <2>2. list_heads \in [Indices -> Seq(HeapStart .. HeapEnd - 1)]
    BY <2>1 DEF Init
  <2>3. peak \in [Indices -> Nat]
    BY DEF Init
  <2>4. initialised \in BOOLEAN /\ fallback = {} /\ live = {}
    BY Zenon DEF Init
  <2> QED BY <2>2, <2>3, <2>4 DEF TypeOK
<1>2. IsFiniteSet(live)
  BY FS_EmptySet DEF Init
<1>3. OneOwner
  <2>1. \A i \in Indices : list_heads[i] = <<>> /\ DOMAIN list_heads[i] = {}
    BY DEF Init
  <2> QED BY <2>1 DEF Init, OneOwner, Listed, Range
<1>4. ApartInv /\ AlignedInv
  <2>1. \A i \in Indices : DOMAIN list_heads[i] = {}
    BY DEF Init
  <2> QED BY <2>1 DEF Init, ApartInv, AlignedInv
<1> QED BY <1>1, <1>2, <1>3, <1>4 DEF BlockInv

(* What alloc does: nothing, it takes the head of a list, or it takes a    *)
(* region from the fallback, of the size that RegionOf gives the block.    *)
TakesNew(l, start) ==
  /\ Abstract!Aligned(start, l.align)
  /\ has_index(l) => Abstract!Aligned(start, BLOCK_SIZES[list_index(l)])
  /\ start + RegionOf(Block(start, l)).size <= HeapEnd
  /\ \A r \in fallback : \/ start + RegionOf(Block(start, l)).size <= r.start
                         \/ r.start + r.size <= start
  /\ fallback' = fallback \cup {RegionOf(Block(start, l))}
  /\ live' = live \cup {Block(start, l)}
  /\ UNCHANGED list_heads

LEMMA AllocCases ==
  ASSUME NEW l \in Layouts, alloc(l)
  PROVE  \/ UNCHANGED <<list_heads, fallback, live>>
         \/ /\ has_index(l) /\ list_heads[list_index(l)] # <<>>
            /\ pop(list_index(l), l)
         \/ \E start \in HeapStart .. HeapEnd - 1 : TakesNew(l, start)
<1>1. CASE has_index(l) /\ list_heads[list_index(l)] # <<>>
  BY <1>1 DEF alloc
<1>2. CASE has_index(l) /\ list_heads[list_index(l)] = <<>>
  <2> DEFINE n == BLOCK_SIZES[list_index(l)]
  <2>1. fallback_alloc(n, n, l) /\ UNCHANGED list_heads
    BY <1>2 DEF alloc, new_block
  <2>2. n \in Nat \ {0}
    BY <1>2, IndexFits
  <2>3. ASSUME NEW start \in HeapStart .. HeapEnd - 1,
               allocate_first_fit(n, n, start), live' = live \cup {Block(start, l)}
        PROVE  TakesNew(l, start)
    <3>1. start \in Nat
      BY HeapAssumption DEF HeapEnd
    <3>2. Abstract!Aligned(start, n)
      BY <2>2, <2>3, <3>1, AlignUpFixed DEF allocate_first_fit
    <3>3. Abstract!Aligned(start, l.align)
      BY <1>2, <3>1, <3>2, BlockIsAligned
    <3>4. RegionOf(Block(start, l)) = Region(start, n) /\ Region(start, n).size = n
      BY <1>2 DEF RegionOf, Block, Region
    <3> QED BY <2>1, <2>3, <3>2, <3>3, <3>4 DEF TakesNew, allocate_first_fit
  <2> QED BY <2>1, <2>3 DEF fallback_alloc
<1>3. CASE ~has_index(l)
  <2>1. fallback_alloc(l.size, l.align, l) /\ UNCHANGED list_heads
    BY <1>3 DEF alloc
  <2>2. l.align \in Nat \ {0}
    BY LayoutAssumption
  <2>3. ASSUME NEW start \in HeapStart .. HeapEnd - 1,
               allocate_first_fit(l.size, l.align, start),
               live' = live \cup {Block(start, l)}
        PROVE  TakesNew(l, start)
    <3>1. start \in Nat
      BY HeapAssumption DEF HeapEnd
    <3>2. Abstract!Aligned(start, l.align)
      BY <2>2, <2>3, <3>1, AlignUpFixed DEF allocate_first_fit
    <3>3. RegionOf(Block(start, l)) = Region(start, l.size)
          /\ Region(start, l.size).size = l.size
      BY <1>3 DEF RegionOf, Block, Region
    <3> QED BY <1>3, <2>1, <2>3, <3>2, <3>3 DEF TakesNew, allocate_first_fit
  <2> QED BY <2>1, <2>3 DEF fallback_alloc
<1> QED BY <1>1, <1>2, <1>3

-----------------------------------------------------------------------------
(* alloc takes the head of a list. *)
LEMMA PopInv ==
  ASSUME BlockInv, NEW l \in Layouts, has_index(l),
         list_heads[list_index(l)] # <<>>, pop(list_index(l), l)
  PROVE  /\ OneOwner' /\ ApartInv' /\ AlignedInv'
         /\ list_heads' \in [Indices -> Seq(HeapStart .. HeapEnd - 1)]
         /\ Head(list_heads[list_index(l)]) \in HeapStart .. HeapEnd - 1
         /\ \A b \in live : b.start # Head(list_heads[list_index(l)])
         /\ \A j \in Indices : \A m \in DOMAIN list_heads[j] :
              \/ list_heads[j][m] \in Listed(j)'
              \/ j = list_index(l) /\ list_heads[j][m] = Head(list_heads[j])
<1> DEFINE i == list_index(l)
           h == Head(list_heads[i])
           nb == Block(h, l)
<1>1. i \in Indices /\ TypeOK /\ OneOwner /\ ApartInv /\ AlignedInv
  BY IndexFits DEF BlockInv
<1>2. list_heads \in [Indices -> Seq(HeapStart .. HeapEnd - 1)]
  BY <1>1 DEF TypeOK
<1>3. /\ list_heads[i] \in Seq(HeapStart .. HeapEnd - 1) /\ list_heads[i] # <<>>
      /\ Tail(list_heads[i]) \in Seq(HeapStart .. HeapEnd - 1)
      /\ 1 \in DOMAIN list_heads[i] /\ h = list_heads[i][1]
      /\ h \in HeapStart .. HeapEnd - 1
  <2>1. list_heads[i] \in Seq(HeapStart .. HeapEnd - 1) /\ list_heads[i] # <<>>
    BY <1>1, <1>2
  <2> QED BY <2>1, HeadAndTail, Zenon
<1>4. /\ list_heads' = [list_heads EXCEPT ![i] = Tail(list_heads[i])]
      /\ live' = live \cup {nb} /\ fallback' = fallback
  BY <1>2 DEF pop
<1>5. list_heads' \in [Indices -> Seq(HeapStart .. HeapEnd - 1)]
  BY <1>2, <1>3, <1>4, Zenon
<1>6. /\ \A j \in Indices : j # i => list_heads'[j] = list_heads[j]
      /\ list_heads'[i] = Tail(list_heads[i])
  BY <1>1, <1>2, <1>4
<1>7. \A m \in DOMAIN list_heads'[i] :
        /\ m \in Nat \ {0} /\ m + 1 \in DOMAIN list_heads[i]
        /\ list_heads'[i][m] = list_heads[i][m + 1]
  BY <1>3, <1>6, HeadAndTail
<1>8. \A m \in DOMAIN list_heads[i] : m # 1 =>
        m - 1 \in DOMAIN list_heads'[i] /\ list_heads'[i][m - 1] = list_heads[i][m]
  BY <1>3, <1>6, HeadAndTail
<1>14. \A j \in Indices : \A m \in DOMAIN list_heads'[j] :
         \E n \in DOMAIN list_heads[j] :
           /\ list_heads'[j][m] = list_heads[j][n]
           /\ j = i => m \in Nat /\ n = m + 1
           /\ j # i => n = m
  BY <1>1, <1>6, <1>7, Zenon
<1>9. /\ nb.start = h /\ nb.layout = l
      /\ RegionOf(nb) = Region(list_heads[i][1], BLOCK_SIZES[i])
  BY <1>3 DEF Block, RegionOf
<1>10. h \in Nat
  BY <1>3, HeapAssumption DEF HeapEnd
<1> HIDE DEF i, h, nb
<1>11. OneOwner'
  <2>1. \A b \in live' : RegionOf(b) \in fallback'
    BY <1>1, <1>3, <1>4, <1>9, Owners
  <2>2. \A j \in Indices : \A m \in DOMAIN list_heads'[j] :
          Region(list_heads'[j][m], BLOCK_SIZES[j]) \in fallback'
    BY <1>1, <1>4, <1>6, <1>7, Owners
  <2>3. ASSUME NEW r \in fallback'
        PROVE  \/ \E b \in live' : r = RegionOf(b)
               \/ \E j \in Indices : \E m \in DOMAIN list_heads'[j] :
                    r = Region(list_heads'[j][m], BLOCK_SIZES[j])
    <3>1. CASE \E b \in live : r = RegionOf(b)
      BY <1>4, <3>1
    <3>2. ASSUME NEW j \in Indices, NEW m \in DOMAIN list_heads[j],
                 r = Region(list_heads[j][m], BLOCK_SIZES[j])
          PROVE  \/ \E b \in live' : r = RegionOf(b)
                 \/ \E k \in Indices : \E n \in DOMAIN list_heads'[k] :
                      r = Region(list_heads'[k][n], BLOCK_SIZES[k])
      <4>1. CASE j # i
        BY <1>6, <3>2, <4>1
      <4>2. CASE j = i /\ m = 1
        BY <1>4, <1>9, <3>2, <4>2
      <4>3. CASE j = i /\ m # 1
        BY <1>1, <1>8, <3>2, <4>3
      <4> QED BY <4>1, <4>2, <4>3
    <3> QED BY <1>1, <1>4, <2>3, <3>1, <3>2, Owners
  <2>4. \A b \in live', j \in Indices : \A m \in DOMAIN list_heads'[j] :
          b.start # list_heads'[j][m]
    <3>1. \A b \in live, j \in Indices : \A m \in DOMAIN list_heads'[j] :
            b.start # list_heads'[j][m]
      <4>1. \A b \in live, j \in Indices : \A n \in DOMAIN list_heads[j] :
              b.start # list_heads[j][n]
        BY <1>1, Owners
      <4> QED BY <1>14, <4>1
    <3>2. \A j \in Indices : \A m \in DOMAIN list_heads'[j] : h # list_heads'[j][m]
      <4>1. \A j \in Indices : \A n \in DOMAIN list_heads[j] :
              list_heads[i][1] = list_heads[j][n] => j = i /\ n = 1
        BY <1>1, <1>3 DEF OneOwner
      <4>2. \A m \in DOMAIN list_heads'[i] : m + 1 # 1
        BY <1>7
      <4> QED BY <1>3, <1>14, <4>1, <4>2
    <3> QED BY <1>4, <1>9, <3>1, <3>2
  <2>5. \A b, c \in live' : b.start = c.start => b = c
    <3>1. \A b \in live : b.start # h
      BY <1>1, <1>3, Owners
    <3> QED BY <1>1, <1>4, <1>9, <3>1 DEF OneOwner
  <2>6. \A j, k \in Indices : \A m \in DOMAIN list_heads'[j], n \in DOMAIN list_heads'[k] :
          list_heads'[j][m] = list_heads'[k][n] => j = k /\ m = n
    <3>1. ASSUME NEW j \in Indices, NEW k \in Indices,
                 NEW m \in DOMAIN list_heads'[j], NEW n \in DOMAIN list_heads'[k],
                 list_heads'[j][m] = list_heads'[k][n]
          PROVE  j = k /\ m = n
      <4>1. PICK x \in DOMAIN list_heads[j] :
              /\ list_heads'[j][m] = list_heads[j][x]
              /\ j = i => m \in Nat /\ x = m + 1
              /\ j # i => x = m
        BY <1>14
      <4>2. PICK y \in DOMAIN list_heads[k] :
              /\ list_heads'[k][n] = list_heads[k][y]
              /\ k = i => n \in Nat /\ y = n + 1
              /\ k # i => y = n
        BY <1>14
      <4>3. \A u, v \in Indices : \A w \in DOMAIN list_heads[u], z \in DOMAIN list_heads[v] :
              list_heads[u][w] = list_heads[v][z] => u = v /\ w = z
        BY <1>1 DEF OneOwner
      <4>4. list_heads[j][x] = list_heads[k][y]
        BY <3>1, <4>1, <4>2, Zenon
      <4>5. j = k /\ x = y
        BY <4>3, <4>4
      <4> QED BY <4>1, <4>2, <4>5
    <3> QED BY <3>1
  <2> QED BY <2>1, <2>2, <2>3, <2>4, <2>5, <2>6, OwnersConverse
<1>12. ApartInv'
  BY <1>1, <1>4 DEF ApartInv
<1>13. AlignedInv'
  <2>1. Abstract!Aligned(h, BLOCK_SIZES[i])
    BY <1>1, <1>3 DEF AlignedInv
  <2>2. Abstract!Aligned(h, l.align)
    BY <1>10, <2>1, BlockIsAligned DEF i
  <2>3. \A b \in live' : has_index(b.layout) =>
          Abstract!Aligned(b.start, BLOCK_SIZES[list_index(b.layout)])
    BY <1>1, <1>4, <1>9, <2>1 DEF AlignedInv, i
  <2>4. \A b \in live' : Abstract!Aligned(b.start, b.layout.align)
    BY <1>1, <1>4, <1>9, <2>2 DEF AlignedInv
  <2>5. \A j \in Indices : \A m \in DOMAIN list_heads'[j] :
          Abstract!Aligned(list_heads'[j][m], BLOCK_SIZES[j])
    BY <1>1, <1>14 DEF AlignedInv
  <2> QED BY <2>3, <2>4, <2>5 DEF AlignedInv
<1>15. \A b \in live : b.start # h
  BY <1>1, <1>3, Owners
<1>16. \A j \in Indices : \A m \in DOMAIN list_heads[j] :
         list_heads[j][m] \in Listed(j)' \/ (j = i /\ list_heads[j][m] = h)
  <2>1. \A j \in Indices : \A m \in DOMAIN list_heads[j] :
          \/ j = i /\ m = 1
          \/ \E n \in DOMAIN list_heads'[j] : list_heads'[j][n] = list_heads[j][m]
    BY <1>1, <1>6, <1>8, Zenon
  <2> QED BY <1>3, <2>1 DEF Listed, Range
<1> QED BY <1>3, <1>5, <1>11, <1>12, <1>13, <1>15, <1>16 DEF i, h

(* alloc takes a region from the fallback. *)
LEMMA TakesNewInv ==
  ASSUME BlockInv, NEW l \in Layouts, NEW start \in HeapStart .. HeapEnd - 1,
         TakesNew(l, start)
  PROVE  OneOwner' /\ ApartInv' /\ AlignedInv' /\ \A b \in live : b.start # start
<1> DEFINE nb == Block(start, l)
           nr == RegionOf(nb)
<1>1. TypeOK /\ OneOwner /\ ApartInv /\ AlignedInv
  BY DEF BlockInv
<1>2. start \in Nat /\ nb.start = start /\ nb.layout = l
  BY HeapAssumption DEF HeapEnd, Block
<1>3. nr.start = start /\ nr.size \in Nat \ {0}
  BY <1>2, RegionOfBlock
<1>4. /\ start + nr.size <= HeapEnd
      /\ \A r \in fallback : start + nr.size <= r.start \/ r.start + r.size <= start
      /\ fallback' = fallback \cup {nr} /\ live' = live \cup {nb}
      /\ list_heads' = list_heads
  BY DEF TakesNew
<1>5. Abstract!Aligned(start, l.align)
      /\ (has_index(l) => Abstract!Aligned(start, BLOCK_SIZES[list_index(l)]))
  BY DEF TakesNew
<1> HIDE DEF nb, nr
<1>6. \A r \in fallback : r.start \in Nat /\ r.size \in Nat \ {0}
  BY <1>1, HeapAssumption DEF TypeOK, HeapEnd
<1>7. \A r \in fallback : r.start # start
  BY <1>2, <1>3, <1>4, <1>6
<1>8. \A b \in live : b.start # start
  BY <1>1, <1>7, Owners, LiveBlock
<1>9. \A i \in Indices : \A m \in DOMAIN list_heads[i] : list_heads[i][m] # start
  BY <1>1, <1>7, Owners, Zenon DEF Region
<1>10. OneOwner'
  <2>1. \A b \in live' : RegionOf(b) \in fallback'
    BY <1>1, <1>4, Owners DEF nr
  <2>2. \A j \in Indices : \A m \in DOMAIN list_heads'[j] :
          Region(list_heads'[j][m], BLOCK_SIZES[j]) \in fallback'
    BY <1>1, <1>4, Owners
  <2>3. \A r \in fallback' :
          \/ \E b \in live' : r = RegionOf(b)
          \/ \E j \in Indices : \E m \in DOMAIN list_heads'[j] :
               r = Region(list_heads'[j][m], BLOCK_SIZES[j])
    BY <1>1, <1>4, Owners DEF nr
  <2>4. \A b \in live', j \in Indices : \A m \in DOMAIN list_heads'[j] :
          b.start # list_heads'[j][m]
    BY <1>1, <1>2, <1>4, <1>9, Owners
  <2>5. \A b, c \in live' : b.start = c.start => b = c
    BY <1>1, <1>2, <1>4, <1>8 DEF OneOwner
  <2>6. \A j, k \in Indices : \A m \in DOMAIN list_heads'[j], n \in DOMAIN list_heads'[k] :
          list_heads'[j][m] = list_heads'[k][n] => j = k /\ m = n
    BY <1>1, <1>4 DEF OneOwner
  <2> QED BY <2>1, <2>2, <2>3, <2>4, <2>5, <2>6, OwnersConverse
<1>11. ApartInv'
  <2>1. \A r \in fallback' : r.start + r.size <= HeapEnd
    BY <1>1, <1>3, <1>4 DEF ApartInv
  <2>2. \A r, q \in fallback' :
          r = q \/ r.start + r.size <= q.start \/ q.start + q.size <= r.start
    BY <1>1, <1>3, <1>4 DEF ApartInv
  <2> QED BY <2>1, <2>2 DEF ApartInv, HeapEnd
<1>12. AlignedInv'
  <2>1. \A b \in live' : has_index(b.layout) =>
          Abstract!Aligned(b.start, BLOCK_SIZES[list_index(b.layout)])
    BY <1>1, <1>2, <1>4, <1>5 DEF AlignedInv
  <2>2. \A b \in live' : Abstract!Aligned(b.start, b.layout.align)
    BY <1>1, <1>2, <1>4, <1>5 DEF AlignedInv
  <2>3. \A j \in Indices : \A m \in DOMAIN list_heads'[j] :
          Abstract!Aligned(list_heads'[j][m], BLOCK_SIZES[j])
    BY <1>1, <1>4 DEF AlignedInv
  <2> QED BY <2>1, <2>2, <2>3 DEF AlignedInv
<1> QED BY <1>8, <1>10, <1>11, <1>12

(* dealloc gives a region back to the fallback. *)
LEMMA FreeInv ==
  ASSUME BlockInv, NEW b \in live, ~has_index(b.layout),
         deallocate(b.start, b.layout.size), live' = live \ {b},
         list_heads' = list_heads
  PROVE  OneOwner' /\ ApartInv' /\ AlignedInv'
<1>1. TypeOK /\ OneOwner /\ ApartInv /\ AlignedInv
  BY DEF BlockInv
<1>2. fallback' = fallback \ {RegionOf(b)} /\ RegionOf(b).start = b.start
  BY DEF deallocate, RegionOf, Region
<1>3. \A c \in live : c.start # b.start => RegionOf(c) # RegionOf(b)
  BY <1>1, <1>2, LiveBlock
<1>4. \A c \in live' : RegionOf(c) # RegionOf(b)
  BY <1>1, <1>3 DEF OneOwner
<1>5. \A j \in Indices : \A m \in DOMAIN list_heads[j] :
        Region(list_heads[j][m], BLOCK_SIZES[j]) # RegionOf(b)
  <2>1. \A a, n : Region(a, n).start = a
    BY DEF Region
  <2> QED BY <1>1, <1>2, <2>1, Owners
<1>6. OneOwner'
  <2>1. \A c \in live' : RegionOf(c) \in fallback'
    BY <1>1, <1>2, <1>4, Owners
  <2>2. \A j \in Indices : \A m \in DOMAIN list_heads'[j] :
          Region(list_heads'[j][m], BLOCK_SIZES[j]) \in fallback'
    BY <1>1, <1>2, <1>5, Owners
  <2>3. \A r \in fallback' :
          \/ \E c \in live' : r = RegionOf(c)
          \/ \E j \in Indices : \E m \in DOMAIN list_heads'[j] :
               r = Region(list_heads'[j][m], BLOCK_SIZES[j])
    BY <1>1, <1>2, Owners
  <2>4. \A c \in live', j \in Indices : \A m \in DOMAIN list_heads'[j] :
          c.start # list_heads'[j][m]
    BY <1>1, Owners
  <2>5. \A c, d \in live' : c.start = d.start => c = d
    BY <1>1 DEF OneOwner
  <2>6. \A j, k \in Indices : \A m \in DOMAIN list_heads'[j], n \in DOMAIN list_heads'[k] :
          list_heads'[j][m] = list_heads'[k][n] => j = k /\ m = n
    BY <1>1 DEF OneOwner
  <2> QED BY <2>1, <2>2, <2>3, <2>4, <2>5, <2>6, OwnersConverse
<1>7. ApartInv'
  BY <1>1, <1>2 DEF ApartInv, HeapEnd
<1>8. AlignedInv'
  BY <1>1 DEF AlignedInv
<1> QED BY <1>6, <1>7, <1>8

(* dealloc makes the block the head of its list. *)
LEMMA PushInv ==
  ASSUME BlockInv, NEW b \in live, has_index(b.layout), push(b), live' = live \ {b}
  PROVE  /\ OneOwner' /\ ApartInv' /\ AlignedInv'
         /\ list_heads' \in [Indices -> Seq(HeapStart .. HeapEnd - 1)]
         /\ \A j \in Indices : Listed(j) \subseteq Listed(j)'
         /\ b.start \in Listed(list_index(b.layout))'
<1> DEFINE i == list_index(b.layout)
<1>1. TypeOK /\ OneOwner /\ ApartInv /\ AlignedInv
  BY DEF BlockInv
<1>2. /\ b.layout \in Layouts /\ b.start \in HeapStart .. HeapEnd - 1
      /\ RegionOf(b) = Region(b.start, BLOCK_SIZES[i])
  BY <1>1, LiveBlock DEF RegionOf
<1>3. i \in Indices /\ list_heads \in [Indices -> Seq(HeapStart .. HeapEnd - 1)]
  BY <1>1, <1>2, IndexFits DEF TypeOK
<1>4. /\ list_heads' = [list_heads EXCEPT ![i] = <<b.start>> \o list_heads[i]]
      /\ fallback' = fallback
  BY <1>3 DEF push
<1> HIDE DEF i
<1>5. list_heads[i] \in Seq(HeapStart .. HeapEnd - 1)
  BY <1>3
<1>6. <<b.start>> \o list_heads[i] \in Seq(HeapStart .. HeapEnd - 1)
  BY <1>2, <1>5, NewHead
<1>7. list_heads' \in [Indices -> Seq(HeapStart .. HeapEnd - 1)]
  BY <1>3, <1>4, <1>6
<1>8. /\ \A j \in Indices : j # i => list_heads'[j] = list_heads[j]
      /\ list_heads'[i] = <<b.start>> \o list_heads[i]
  BY <1>3, <1>4
<1>9. /\ 1 \in DOMAIN list_heads'[i] /\ list_heads'[i][1] = b.start
      /\ \A m \in DOMAIN list_heads[i] :
           m + 1 \in DOMAIN list_heads'[i] /\ list_heads'[i][m + 1] = list_heads[i][m]
      /\ \A m \in DOMAIN list_heads'[i] : m # 1 =>
           /\ m \in Nat /\ m - 1 \in DOMAIN list_heads[i]
           /\ list_heads'[i][m] = list_heads[i][m - 1]
  BY <1>2, <1>5, <1>8, NewHead
<1>10. \A j \in Indices : \A n \in DOMAIN list_heads[j] :
         \E m \in DOMAIN list_heads'[j] : list_heads'[j][m] = list_heads[j][n]
  BY <1>3, <1>8, <1>9
<1>11. \A j \in Indices : \A m \in DOMAIN list_heads'[j] :
         \/ j = i /\ m = 1 /\ list_heads'[j][m] = b.start
         \/ \E n \in DOMAIN list_heads[j] :
              /\ list_heads'[j][m] = list_heads[j][n]
              /\ j = i => m \in Nat /\ n = m - 1
              /\ j # i => n = m
  BY <1>3, <1>8, <1>9, Zenon
<1>12. \A c \in live, j \in Indices : \A n \in DOMAIN list_heads[j] :
         c.start # list_heads[j][n]
  BY <1>1, Owners
<1>13. OneOwner'
  <2>1. \A c \in live' : RegionOf(c) \in fallback'
    BY <1>1, <1>4, Owners
  <2>2. \A j \in Indices : \A m \in DOMAIN list_heads'[j] :
          Region(list_heads'[j][m], BLOCK_SIZES[j]) \in fallback'
    <3>1. RegionOf(b) \in fallback
      BY <1>1, Owners
    <3>2. \A j \in Indices : \A n \in DOMAIN list_heads[j] :
            Region(list_heads[j][n], BLOCK_SIZES[j]) \in fallback
      BY <1>1, Owners
    <3> QED BY <1>2, <1>4, <1>11, <3>1, <3>2
  <2>3. \A r \in fallback' :
          \/ \E c \in live' : r = RegionOf(c)
          \/ \E j \in Indices : \E m \in DOMAIN list_heads'[j] :
               r = Region(list_heads'[j][m], BLOCK_SIZES[j])
    <3>1. \E m \in DOMAIN list_heads'[i] : RegionOf(b) = Region(list_heads'[i][m], BLOCK_SIZES[i])
      BY <1>2, <1>9
    <3>2. \A r \in fallback :
            \/ r = RegionOf(b)
            \/ \E c \in live' : r = RegionOf(c)
            \/ \E j \in Indices : \E n \in DOMAIN list_heads[j] :
                 r = Region(list_heads[j][n], BLOCK_SIZES[j])
      BY <1>1, Owners
    <3>3. \A j \in Indices : \A n \in DOMAIN list_heads[j] :
            \E m \in DOMAIN list_heads'[j] :
              Region(list_heads[j][n], BLOCK_SIZES[j]) = Region(list_heads'[j][m], BLOCK_SIZES[j])
      BY <1>10
    <3>4. ASSUME NEW j \in Indices, NEW n \in DOMAIN list_heads[j]
          PROVE  \E k \in Indices : \E m \in DOMAIN list_heads'[k] :
                   Region(list_heads[j][n], BLOCK_SIZES[j]) = Region(list_heads'[k][m], BLOCK_SIZES[k])
      BY <3>3
    <3>5. \E k \in Indices : \E m \in DOMAIN list_heads'[k] :
            RegionOf(b) = Region(list_heads'[k][m], BLOCK_SIZES[k])
      BY <1>3, <3>1
    <3> QED BY <1>4, <3>2, <3>4, <3>5
  <2>4. \A c \in live', j \in Indices : \A m \in DOMAIN list_heads'[j] :
          c.start # list_heads'[j][m]
    <3>1. \A c \in live' : c \in live /\ c.start # b.start
      BY <1>1 DEF OneOwner
    <3> QED BY <1>11, <1>12, <3>1
  <2>5. \A c, d \in live' : c.start = d.start => c = d
    BY <1>1 DEF OneOwner
  <2>6. ASSUME NEW j \in Indices, NEW k \in Indices,
               NEW m \in DOMAIN list_heads'[j], NEW n \in DOMAIN list_heads'[k],
               list_heads'[j][m] = list_heads'[k][n]
        PROVE  j = k /\ m = n
    <3>1. \A u, v \in Indices : \A w \in DOMAIN list_heads[u], z \in DOMAIN list_heads[v] :
            list_heads[u][w] = list_heads[v][z] => u = v /\ w = z
      BY <1>1 DEF OneOwner
    <3>2. CASE j = i /\ m = 1
      BY <1>9, <1>11, <1>12, <2>6, <3>2
    <3>3. CASE k = i /\ n = 1
      BY <1>9, <1>11, <1>12, <2>6, <3>3
    <3>4. CASE ~(j = i /\ m = 1) /\ ~(k = i /\ n = 1)
      <4>1. PICK x \in DOMAIN list_heads[j] :
              /\ list_heads'[j][m] = list_heads[j][x]
              /\ j = i => m \in Nat /\ x = m - 1
              /\ j # i => x = m
        BY <1>11, <3>4
      <4>2. PICK y \in DOMAIN list_heads[k] :
              /\ list_heads'[k][n] = list_heads[k][y]
              /\ k = i => n \in Nat /\ y = n - 1
              /\ k # i => y = n
        BY <1>11, <3>4
      <4>3. list_heads[j][x] = list_heads[k][y]
        BY <2>6, <4>1, <4>2, Zenon
      <4>4. j = k /\ x = y
        BY <3>1, <4>3
      <4> QED BY <4>1, <4>2, <4>4
    <3> QED BY <3>2, <3>3, <3>4
  <2> QED BY <2>1, <2>2, <2>3, <2>4, <2>5, <2>6, OwnersConverse
<1>14. ApartInv'
  BY <1>1, <1>4 DEF ApartInv, HeapEnd
<1>15. AlignedInv'
  <2>1. Abstract!Aligned(b.start, BLOCK_SIZES[i])
    BY <1>1 DEF AlignedInv, i
  <2>2. \A j \in Indices : \A m \in DOMAIN list_heads'[j] :
          Abstract!Aligned(list_heads'[j][m], BLOCK_SIZES[j])
    BY <1>1, <1>11, <2>1 DEF AlignedInv
  <2> QED BY <1>1, <2>2 DEF AlignedInv
<1>16. \A j \in Indices : Listed(j) \subseteq Listed(j)'
  BY <1>10 DEF Listed, Range
<1>17. b.start \in Listed(i)'
  BY <1>9 DEF Listed, Range
<1> QED BY <1>7, <1>13, <1>14, <1>15, <1>16, <1>17 DEF i

-----------------------------------------------------------------------------
(* The history of the largest number of blocks stays a number. *)
LEMMA PeakType ==
  ASSUME TypeOK, IsFiniteSet(live'),
         peak' = [i \in Indices |-> Max({peak[i], Cardinality(Class(i)')})]
  PROVE  peak' \in [Indices -> Nat]
<1>1. ASSUME NEW i \in Indices PROVE Max({peak[i], Cardinality(Class(i)')}) \in Nat
  <2>1. Class(i)' \subseteq live'
    BY DEF Class
  <2>2. Cardinality(Class(i)') \in Nat
    BY <2>1, FS_Subset, FS_CardinalityType
  <2>3. peak[i] \in Nat
    BY DEF TypeOK
  <2> QED BY <2>2, <2>3, MaxOfPair
<1> QED BY <1>1

(* alloc takes a block: at an address that no block in a caller's hands    *)
(* has, and the invariant holds of the lists and regions afterwards.       *)
Takes(l, start) ==
  /\ start \in HeapStart .. HeapEnd - 1
  /\ live' = live \cup {Block(start, l)}
  /\ \A b \in live : b.start # start

LEMMA AllocInv ==
  ASSUME BlockInv, NEW l \in Layouts, alloc(l)
  PROVE  /\ OneOwner' /\ ApartInv' /\ AlignedInv'
         /\ list_heads' \in [Indices -> Seq(HeapStart .. HeapEnd - 1)]
         /\ fallback' \subseteq [start : HeapStart .. HeapEnd - 1, size : 1 .. HeapSize]
         /\ live' = live \/ \E start \in HeapStart .. HeapEnd - 1 : Takes(l, start)
         /\ \A i \in Indices : Starts(i) \subseteq Starts(i)'
<1>1. TypeOK /\ OneOwner /\ ApartInv /\ AlignedInv
  BY DEF BlockInv
<1>2. CASE UNCHANGED <<list_heads, fallback, live>>
  <2>1. OneOwner' /\ ApartInv' /\ AlignedInv'
    <3>1. OneOwner'
      BY <1>1, <1>2 DEF OneOwner, Listed
    <3>2. ApartInv'
      BY <1>1, <1>2 DEF ApartInv
    <3>3. AlignedInv'
      BY <1>1, <1>2, Zenon DEF AlignedInv
    <3> QED BY <3>1, <3>2, <3>3
  <2>2. \A i \in Indices : Starts(i)' = Starts(i)
    BY <1>2, Zenon DEF Starts, Class, Listed
  <2> QED BY <1>1, <1>2, <2>1, <2>2 DEF TypeOK
<1>3. CASE /\ has_index(l) /\ list_heads[list_index(l)] # <<>>
           /\ pop(list_index(l), l)
  <2> DEFINE h == Head(list_heads[list_index(l)])
  <2>1. /\ OneOwner' /\ ApartInv' /\ AlignedInv'
        /\ list_heads' \in [Indices -> Seq(HeapStart .. HeapEnd - 1)]
        /\ h \in HeapStart .. HeapEnd - 1
        /\ \A b \in live : b.start # h
    BY <1>3, PopInv, Zenon
  <2>2. \A j \in Indices : \A m \in DOMAIN list_heads[j] :
          \/ list_heads[j][m] \in Listed(j)'
          \/ j = list_index(l) /\ list_heads[j][m] = Head(list_heads[j])
    BY <1>3, PopInv
  <2>3. live' = live \cup {Block(h, l)} /\ fallback' = fallback
    BY <1>3 DEF pop
  <2>4. Takes(l, h)
    BY <2>1, <2>3 DEF Takes
  <2>5. ASSUME NEW i \in Indices PROVE Starts(i) \subseteq Starts(i)'
    <3>1. {b.start : b \in Class(i)} \subseteq {b.start : b \in Class(i)'}
      BY <2>3 DEF Class
    <3>2. i = list_index(l) => h \in {b.start : b \in Class(i)'}
      <4>1. ASSUME i = list_index(l) PROVE Block(h, l) \in Class(i)'
        BY <1>3, <2>3, <4>1 DEF Class, Block
      <4>2. Block(h, l).start = h
        BY DEF Block
      <4> QED BY <4>1, <4>2
    <3>3. Listed(i) \subseteq Listed(i)' \cup {b.start : b \in Class(i)'}
      BY <2>2, <3>2 DEF Listed, Range
    <3> QED BY <3>1, <3>3 DEF Starts
  <2> QED BY <1>1, <2>1, <2>3, <2>4, <2>5 DEF TypeOK
<1>4. ASSUME NEW start \in HeapStart .. HeapEnd - 1, TakesNew(l, start)
      PROVE  /\ OneOwner' /\ ApartInv' /\ AlignedInv'
             /\ list_heads' \in [Indices -> Seq(HeapStart .. HeapEnd - 1)]
             /\ fallback' \subseteq [start : HeapStart .. HeapEnd - 1, size : 1 .. HeapSize]
             /\ Takes(l, start)
             /\ \A i \in Indices : Starts(i) \subseteq Starts(i)'
  <2> DEFINE nr == RegionOf(Block(start, l))
  <2>1. OneOwner' /\ ApartInv' /\ AlignedInv' /\ \A b \in live : b.start # start
    BY <1>4, TakesNewInv
  <2>2. /\ fallback' = fallback \cup {nr} /\ start + nr.size <= HeapEnd
        /\ live' = live \cup {Block(start, l)} /\ list_heads' = list_heads
    BY <1>4 DEF TakesNew
  <2>3. start \in Nat /\ HeapStart \in Nat /\ HeapSize \in Nat
    BY HeapAssumption DEF HeapEnd
  <2>4. nr.start = start /\ nr.size \in Nat \ {0}
    BY <2>3, RegionOfBlock
  <2>5. nr.size \in 1 .. HeapSize
    BY <2>2, <2>3, <2>4 DEF HeapEnd
  <2>6. nr = [start |-> nr.start, size |-> nr.size]
    BY DEF RegionOf, Region
  <2>7. nr \in [start : HeapStart .. HeapEnd - 1, size : 1 .. HeapSize]
    BY <2>4, <2>5, <2>6
  <2>8. \A i \in Indices : Starts(i) \subseteq Starts(i)'
    BY <2>2 DEF Starts, Class, Listed
  <2>9. Takes(l, start)
    BY <2>1, <2>2 DEF Takes
  <2>10. fallback' \subseteq [start : HeapStart .. HeapEnd - 1, size : 1 .. HeapSize]
    BY <1>1, <2>2, <2>7 DEF TypeOK
  <2>11. list_heads' \in [Indices -> Seq(HeapStart .. HeapEnd - 1)]
    BY <1>1, <2>2 DEF TypeOK
  <2> QED BY <2>1, <2>8, <2>9, <2>10, <2>11
<1> QED BY <1>2, <1>3, <1>4, AllocCases

LEMMA DeallocInv ==
  ASSUME BlockInv, NEW b \in live, dealloc(b)
  PROVE  /\ OneOwner' /\ ApartInv' /\ AlignedInv'
         /\ list_heads' \in [Indices -> Seq(HeapStart .. HeapEnd - 1)]
         /\ fallback' \subseteq fallback /\ live' = live \ {b}
         /\ \A i \in Indices : Starts(i) \subseteq Starts(i)'
<1>1. live' = live \ {b}
  BY DEF dealloc
<1>2. CASE has_index(b.layout)
  <2>1. push(b)
    BY <1>2 DEF dealloc
  <2>2. /\ OneOwner' /\ ApartInv' /\ AlignedInv'
        /\ list_heads' \in [Indices -> Seq(HeapStart .. HeapEnd - 1)]
    BY <1>1, <1>2, <2>1, PushInv
  <2>3. /\ \A j \in Indices : Listed(j) \subseteq Listed(j)'
        /\ b.start \in Listed(list_index(b.layout))'
    BY <1>1, <1>2, <2>1, PushInv
  <2>4. \A i \in Indices : Starts(i) \subseteq Starts(i)'
    BY <1>1, <2>3 DEF Starts, Class
  <2>5. fallback' = fallback
    BY <2>1 DEF push
  <2> QED BY <1>1, <2>2, <2>4, <2>5
<1>3. CASE ~has_index(b.layout)
  <2>1. deallocate(b.start, b.layout.size) /\ list_heads' = list_heads
    BY <1>3 DEF dealloc
  <2>2. OneOwner' /\ ApartInv' /\ AlignedInv'
    BY <1>1, <1>3, <2>1, FreeInv
  <2>3. fallback' \subseteq fallback
    BY <2>1 DEF deallocate
  <2>4. \A i \in Indices : Starts(i) \subseteq Starts(i)'
    BY <1>1, <1>3, <2>1 DEF Starts, Class, Listed
  <2>5. list_heads' \in [Indices -> Seq(HeapStart .. HeapEnd - 1)]
    BY <2>1 DEF BlockInv, TypeOK
  <2> QED BY <1>1, <2>2, <2>3, <2>4, <2>5
<1> QED BY <1>2, <1>3

LEMMA BlockStep == BlockInv /\ [Next]_vars => BlockInv'
<1> SUFFICES ASSUME BlockInv, [Next]_vars PROVE BlockInv'
  OBVIOUS
<1>1. TypeOK /\ IsFiniteSet(live) /\ OneOwner /\ ApartInv /\ AlignedInv
  BY DEF BlockInv
<1>2. CASE init \/ UNCHANGED vars
  <2>1. /\ UNCHANGED <<list_heads, fallback, live, peak>>
        /\ initialised' \in BOOLEAN
    BY <1>1, <1>2, Zenon DEF init, vars, TypeOK
  <2>2. TypeOK'
    BY <1>1, <2>1 DEF TypeOK, HeapEnd
  <2>3. OneOwner'
    BY <1>1, <2>1 DEF OneOwner, Listed
  <2>4. ApartInv' /\ AlignedInv' /\ IsFiniteSet(live')
    BY <1>1, <2>1 DEF ApartInv, AlignedInv
  <2> QED BY <2>2, <2>3, <2>4 DEF BlockInv
<1>3. ASSUME NEW l \in Layouts, alloc(l) PROVE BlockInv'
  <2>1. /\ OneOwner' /\ ApartInv' /\ AlignedInv'
        /\ list_heads' \in [Indices -> Seq(HeapStart .. HeapEnd - 1)]
        /\ fallback' \subseteq [start : HeapStart .. HeapEnd - 1, size : 1 .. HeapSize]
        /\ live' = live \/ \E start \in HeapStart .. HeapEnd - 1 : Takes(l, start)
    BY <1>3, AllocInv
  <2>2. IsFiniteSet(live')
    BY <1>1, <2>1, FS_AddElement DEF Takes
  <2>3. live' \subseteq [start : HeapStart .. HeapEnd - 1, layout : Layouts]
    BY <1>1, <2>1 DEF TypeOK, Takes, Block
  <2>4. peak' \in [Indices -> Nat]
    BY <1>1, <1>3, <2>2, PeakType DEF alloc
  <2>5. initialised' \in BOOLEAN
    BY <1>1, <1>3 DEF alloc, TypeOK
  <2>6. TypeOK'
    BY <2>1, <2>3, <2>4, <2>5 DEF TypeOK
  <2> QED BY <2>1, <2>2, <2>6 DEF BlockInv
<1>4. ASSUME NEW b \in live, dealloc(b) PROVE BlockInv'
  <2>1. /\ OneOwner' /\ ApartInv' /\ AlignedInv'
        /\ list_heads' \in [Indices -> Seq(HeapStart .. HeapEnd - 1)]
        /\ fallback' \subseteq fallback /\ live' = live \ {b}
    BY <1>4, DeallocInv
  <2>2. IsFiniteSet(live')
    BY <1>1, <2>1, FS_RemoveElement
  <2>3. UNCHANGED <<initialised, peak>>
    BY <1>4 DEF dealloc
  <2>4. TypeOK'
    BY <1>1, <2>1, <2>3 DEF TypeOK
  <2> QED BY <2>1, <2>2, <2>4 DEF BlockInv
<1> QED BY <1>2, <1>3, <1>4 DEF Next

-----------------------------------------------------------------------------
(* The inductive invariant holds. *)
THEOREM BlockInvariant == Spec => []BlockInv
<1> QED BY BlockInitInv, BlockStep, PTL DEF Spec

(* Every region the fallback has handed out has one owner, a list or a     *)
(* caller: alloc and dealloc neither duplicate nor lose a block.           *)
THEOREM BlockOneOwner == Spec => []OneOwner
<1>1. BlockInv => OneOwner
  BY DEF BlockInv
<1> QED BY <1>1, BlockInvariant, PTL

(* Lists, fallback and held blocks stay inside the heap and of the sizes   *)
(* the allocator knows, whatever callers allocate and free.                *)
THEOREM BlockTypeCorrect == Spec => []TypeOK
<1>1. BlockInv => TypeOK
  BY DEF BlockInv
<1> QED BY <1>1, BlockInvariant, PTL

(* Memory that once became a block of some size stays one: dealloc puts it *)
(* into the list from which alloc takes blocks of that size.               *)
THEOREM BlockSizesAreKept == Spec => BlocksKeepTheirSize
<1>1. BlockInv /\ [Next]_vars =>
        [\A i \in Indices : Starts(i) \subseteq Starts(i)']_vars
  <2> SUFFICES ASSUME BlockInv, [Next]_vars
               PROVE  \/ \A i \in Indices : Starts(i) \subseteq Starts(i)'
                      \/ UNCHANGED vars
    OBVIOUS
  <2>1. CASE init
    BY <2>1 DEF init, Starts, Class, Listed
  <2>2. CASE Next /\ ~init
    BY <2>2, AllocInv, DeallocInv DEF Next
  <2> QED BY <2>1, <2>2
<1> QED BY <1>1, BlockInvariant, PTL DEF Spec, BlocksKeepTheirSize

(* A block that alloc returns meets the contract of the abstract heap. *)
LEMMA TakesRefines ==
  ASSUME BlockInv', NEW l \in Layouts, NEW start \in HeapStart .. HeapEnd - 1,
         Takes(l, start)
  PROVE  Abstract!Next
<1> DEFINE nb == Block(start, l)
<1>1. TypeOK' /\ OneOwner' /\ ApartInv' /\ AlignedInv'
  BY DEF BlockInv
<1>2. nb \in live' /\ nb.start = start /\ nb.layout = l /\ live \subseteq live'
  BY DEF Takes, Block
<1>3. start \in Nat /\ HeapStart <= start
  BY HeapAssumption DEF HeapEnd
<1>4. /\ RegionOf(nb).start = start /\ RegionOf(nb).size \in Nat \ {0}
      /\ l.size \in Nat \ {0} /\ l.size <= RegionOf(nb).size
  BY <1>3, RegionOfBlock
<1>5. ASSUME NEW b \in live
      PROVE  /\ b.start \in Nat /\ b.layout.size \in Nat
             /\ RegionOf(b).start = b.start /\ RegionOf(b).size \in Nat
             /\ b.layout.size <= RegionOf(b).size
  <2>1. b \in [start : HeapStart .. HeapEnd - 1, layout : Layouts]
    BY <1>1, <1>2 DEF TypeOK, HeapEnd
  <2>2. b.start \in Nat /\ b.layout \in Layouts /\ b = Block(b.start, b.layout)
    BY <2>1, HeapAssumption DEF HeapEnd, Block
  <2> QED BY <2>2, RegionOfBlock
<1>6. \A b \in live' : RegionOf(b) \in fallback'
  BY <1>1 DEF OneOwner
<1>7. \A b \in live : b.start # start
  BY DEF Takes
<1>8. RegionOf(nb) \in fallback' /\ \A b \in live : RegionOf(b) \in fallback'
  BY <1>2, <1>6
<1> HIDE DEF nb
<1>9. start + l.size <= HeapEnd
  <2>1. start + RegionOf(nb).size <= HeapEnd
    BY <1>1, <1>4, <1>8 DEF ApartInv, HeapEnd
  <2> QED BY <1>3, <1>4, <2>1, HeapAssumption DEF HeapEnd
<1>10. ASSUME NEW b \in live
       PROVE  Abstract!Disjoint(start, l.size, b.start, b.layout.size)
  <2>1. RegionOf(nb) # RegionOf(b)
    BY <1>4, <1>5, <1>7
  <2>2. \/ start + RegionOf(nb).size <= b.start
        \/ b.start + RegionOf(b).size <= start
    BY <1>1, <1>4, <1>5, <1>8, <2>1 DEF ApartInv
  <2> QED BY <1>3, <1>4, <1>5, <2>2 DEF Abstract!Disjoint
<1>11. Abstract!Aligned(start, l.align)
  BY <1>1, <1>2 DEF AlignedInv
<1>12. Abstract!Alloc(l, start)
  BY <1>3, <1>9, <1>10, <1>11
  DEF Abstract!Alloc, Abstract!HeapEnd, HeapEnd, Takes, Abstract!Block, Block
<1>13. start \in HeapStart .. Abstract!HeapEnd
  BY HeapAssumption DEF HeapEnd, Abstract!HeapEnd
<1> QED BY <1>12, <1>13 DEF Abstract!Next

(* The kernel's allocator implements the abstract heap: what alloc returns *)
(* is aligned, inside the heap and apart from every block still held,      *)
(* whether it comes from a list or from the fallback.                      *)
THEOREM BlockImplementsHeap == Spec => ImplementsHeap
<1>1. Init => Abstract!Init
  BY DEF Init, Abstract!Init
<1>2. BlockInv /\ BlockInv' /\ [Next]_vars => [Abstract!Next]_live
  <2> SUFFICES ASSUME BlockInv, BlockInv', [Next]_vars
               PROVE  Abstract!Next \/ UNCHANGED live
    OBVIOUS
  <2>1. CASE init \/ UNCHANGED vars
    BY <2>1 DEF init, vars
  <2>2. ASSUME NEW l \in Layouts, alloc(l)
        PROVE  Abstract!Next \/ UNCHANGED live
    BY <2>2, AllocInv, TakesRefines
  <2>3. ASSUME NEW b \in live, dealloc(b)
        PROVE  Abstract!Next
    BY <2>3 DEF dealloc, Abstract!Dealloc, Abstract!Next
  <2> QED BY <2>1, <2>2, <2>3 DEF Next
<1> QED
  BY <1>1, <1>2, BlockInvariant, PTL
  DEF Spec, ImplementsHeap, Abstract!Spec

(* The size of a class is a number. *)
LEMMA ClassIsFinite ==
  ASSUME IsFiniteSet(live), NEW i
  PROVE  IsFiniteSet(Class(i)) /\ Cardinality(Class(i)) \in Nat
<1>1. Class(i) \subseteq live
  BY DEF Class
<1> QED BY <1>1, FS_Subset, FS_CardinalityType

(* A block taken belongs to the class of its layout and to no other. *)
LEMMA TakesClass ==
  ASSUME BlockInv, NEW l \in Layouts, NEW start, Takes(l, start), NEW i \in Indices
  PROVE  Cardinality(Class(i)') = IF has_index(l) /\ list_index(l) = i
                                  THEN Cardinality(Class(i)) + 1
                                  ELSE Cardinality(Class(i))
<1> DEFINE nb == Block(start, l)
<1>1. live' = live \cup {nb} /\ nb.start = start /\ nb.layout = l /\ nb \notin live
  BY DEF Takes, Block
<1>2. IsFiniteSet(Class(i)) /\ nb \notin Class(i)
  BY <1>1, ClassIsFinite, Zenon DEF BlockInv, Class
<1> HIDE DEF nb
<1>3. CASE has_index(l) /\ list_index(l) = i
  <2>1. Class(i)' = Class(i) \cup {nb}
    BY <1>1, <1>3 DEF Class
  <2> QED BY <1>2, <1>3, <2>1, FS_AddElement, Zenon
<1>4. CASE ~(has_index(l) /\ list_index(l) = i)
  <2>1. Class(i)' = Class(i)
    BY <1>1, <1>4 DEF Class
  <2> QED BY <1>4, <2>1
<1> QED BY <1>3, <1>4

(* The lengths that alloc and dealloc give the lists *)
LEMMA PopLength ==
  ASSUME BlockInv, NEW l \in Layouts, has_index(l),
         list_heads[list_index(l)] # <<>>, pop(list_index(l), l), NEW i \in Indices
  PROVE  /\ Len(list_heads[i]) \in Nat
         /\ Len(list_heads'[i]) = IF list_index(l) = i THEN Len(list_heads[i]) - 1
                                  ELSE Len(list_heads[i])
<1>1. list_heads \in [Indices -> Seq(HeapStart .. HeapEnd - 1)]
  BY DEF BlockInv, TypeOK
<1>2. list_heads[i] \in Seq(HeapStart .. HeapEnd - 1)
  BY <1>1
<1>3. CASE list_index(l) = i
  <2>1. list_heads'[i] = Tail(list_heads[i])
    BY <1>1, <1>3 DEF pop
  <2> QED BY <1>2, <1>3, <2>1
<1>4. CASE list_index(l) # i
  <2>1. list_heads'[i] = list_heads[i]
    BY <1>1, <1>4 DEF pop
  <2> QED BY <1>2, <1>4, <2>1
<1> QED BY <1>3, <1>4

LEMMA PushLength ==
  ASSUME BlockInv, NEW b \in live, has_index(b.layout), push(b), NEW i \in Indices
  PROVE  /\ Len(list_heads[i]) \in Nat
         /\ Len(list_heads'[i]) = IF list_index(b.layout) = i THEN Len(list_heads[i]) + 1
                                  ELSE Len(list_heads[i])
<1>1. list_heads \in [Indices -> Seq(HeapStart .. HeapEnd - 1)]
  BY DEF BlockInv, TypeOK
<1>2. /\ list_heads[i] \in Seq(HeapStart .. HeapEnd - 1)
      /\ b.start \in HeapStart .. HeapEnd - 1
  BY <1>1, LiveBlock DEF BlockInv
<1>3. CASE list_index(b.layout) = i
  <2>1. list_heads'[i] = <<b.start>> \o list_heads[i]
    BY <1>1, <1>3 DEF push
  <2> QED BY <1>2, <1>3, <2>1
<1>4. CASE list_index(b.layout) # i
  <2>1. list_heads'[i] = list_heads[i]
    BY <1>1, <1>4 DEF push
  <2> QED BY <1>2, <1>4, <2>1
<1> QED BY <1>3, <1>4

(* A failed allocation changes neither lists nor classes. *)
LEMMA AllocFootprint ==
  ASSUME BlockInv, FootprintIsPeak, NEW l \in Layouts, alloc(l), NEW i \in Indices
  PROVE  Len(list_heads'[i]) + Cardinality(Class(i)') = peak'[i]
<1>1. /\ Len(list_heads[i]) + Cardinality(Class(i)) = peak[i]
      /\ Cardinality(Class(i)) \in Nat /\ peak[i] \in Nat
  BY ClassIsFinite DEF FootprintIsPeak, BlockInv, TypeOK
<1>2. list_heads[i] \in Seq(HeapStart .. HeapEnd - 1)
  BY DEF BlockInv, TypeOK
<1>3. Len(list_heads[i]) \in Nat
  BY <1>2
<1>4. peak'[i] = Max({peak[i], Cardinality(Class(i)')})
  BY Zenon DEF alloc
<1>5. \A c \in Nat : /\ Max({peak[i], c}) \in {peak[i], c}
                     /\ Max({peak[i], c}) >= peak[i] /\ Max({peak[i], c}) >= c
  BY <1>1, MaxOfPair
<1>6. CASE UNCHANGED <<list_heads, fallback, live>>
  <2>1. Class(i)' = Class(i) /\ list_heads'[i] = list_heads[i]
    BY <1>6 DEF Class
  <2>2. peak'[i] = peak[i]
    BY <1>1, <1>3, <1>4, <1>5, <2>1
  <2> QED BY <1>1, <2>1, <2>2, Zenon
<1>7. CASE /\ has_index(l) /\ list_heads[list_index(l)] # <<>>
           /\ pop(list_index(l), l)
  <2>1. Takes(l, Head(list_heads[list_index(l)]))
    BY <1>7, PopInv, Zenon DEF Takes, pop
  <2>2. Cardinality(Class(i)') = IF list_index(l) = i THEN Cardinality(Class(i)) + 1
                                 ELSE Cardinality(Class(i))
    BY <1>7, <2>1, TakesClass, Zenon
  <2>3. Len(list_heads'[i]) = IF list_index(l) = i THEN Len(list_heads[i]) - 1
                              ELSE Len(list_heads[i])
    BY <1>7, PopLength
  <2>4. list_index(l) = i => Len(list_heads[i]) >= 1
    BY <1>2, <1>3, <1>7
  <2>5. peak'[i] = peak[i]
    BY <1>1, <1>3, <1>4, <1>5, <2>2, <2>4
  <2> QED BY <1>1, <1>3, <2>2, <2>3, <2>5
<1>8. ASSUME NEW start \in HeapStart .. HeapEnd - 1, TakesNew(l, start),
             has_index(l) => list_heads[list_index(l)] = <<>>
      PROVE  Len(list_heads'[i]) + Cardinality(Class(i)') = peak'[i]
  <2>1. Takes(l, start) /\ list_heads' = list_heads
    BY <1>8, TakesNewInv, Zenon DEF Takes, TakesNew
  <2>2. Cardinality(Class(i)') = IF has_index(l) /\ list_index(l) = i
                                 THEN Cardinality(Class(i)) + 1
                                 ELSE Cardinality(Class(i))
    BY <2>1, TakesClass
  <2>3. has_index(l) /\ list_index(l) = i => Len(list_heads[i]) = 0
    BY <1>8
  <2> DEFINE c == Cardinality(Class(i))
             d == Cardinality(Class(i)')
             top == Max({peak[i], d})
  <2>4. list_heads'[i] = list_heads[i] /\ peak'[i] = top
    BY <1>4, <2>1
  <2>5. d \in Nat => top \in {peak[i], d} /\ top >= peak[i] /\ top >= d
    BY <1>5
  <2>6. /\ c \in Nat /\ peak[i] \in Nat /\ Len(list_heads[i]) \in Nat
        /\ Len(list_heads[i]) + c = peak[i]
    BY <1>1, <1>3
  <2>7. CASE has_index(l) /\ list_index(l) = i
    <3>1. d = c + 1 /\ Len(list_heads[i]) = 0
      BY <2>2, <2>3, <2>7, Zenon
    <3> HIDE DEF c, d, top
    <3>2. Len(list_heads[i]) + d = top
      BY <2>5, <2>6, <3>1
    <3> QED BY <2>4, <3>2, Zenon DEF d
  <2>8. CASE ~(has_index(l) /\ list_index(l) = i)
    <3>1. d = c
      BY <2>2, <2>8, Zenon
    <3> HIDE DEF c, d, top
    <3>2. Len(list_heads[i]) + d = top
      BY <2>5, <2>6, <3>1
    <3> QED BY <2>4, <3>2, Zenon DEF d
  <2> QED BY <2>7, <2>8
<1>9. CASE has_index(l) /\ list_heads[list_index(l)] # <<>>
  BY <1>7, <1>9, Zenon DEF alloc
<1>10. CASE has_index(l) => list_heads[list_index(l)] = <<>>
  <2>1. CASE \E start \in HeapStart .. HeapEnd - 1 : TakesNew(l, start)
    BY <1>8, <1>10, <2>1
  <2> QED BY <1>6, <1>7, <1>10, <2>1, AllocCases, Zenon
<1> QED BY <1>9, <1>10

LEMMA DeallocFootprint ==
  ASSUME BlockInv, FootprintIsPeak, NEW b \in live, dealloc(b), NEW i \in Indices
  PROVE  Len(list_heads'[i]) + Cardinality(Class(i)') = peak'[i]
<1>1. /\ Len(list_heads[i]) + Cardinality(Class(i)) = peak[i]
      /\ Cardinality(Class(i)) \in Nat /\ IsFiniteSet(Class(i))
  BY ClassIsFinite DEF FootprintIsPeak, BlockInv
<1>2. live' = live \ {b} /\ peak' = peak
  BY DEF dealloc
<1>3. CASE has_index(b.layout) /\ list_index(b.layout) = i
  <2>1. b \in Class(i) /\ Class(i)' = Class(i) \ {b}
    BY <1>2, <1>3 DEF Class
  <2>2. Cardinality(Class(i)') = Cardinality(Class(i)) - 1
    BY <1>1, <2>1, FS_RemoveElement, ZenonT(30)
  <2>3. Len(list_heads[i]) \in Nat /\ Len(list_heads'[i]) = Len(list_heads[i]) + 1
    BY <1>3, PushLength DEF dealloc
  <2> QED BY <1>1, <1>2, <2>2, <2>3
<1>4. CASE ~(has_index(b.layout) /\ list_index(b.layout) = i)
  <2>1. Class(i)' = Class(i)
    BY <1>2, <1>4 DEF Class
  <2>2. Len(list_heads'[i]) = Len(list_heads[i])
    BY <1>4, PushLength DEF dealloc
  <2> QED BY <1>1, <1>2, <2>1, <2>2
<1> QED BY <1>3, <1>4

(* Freed blocks are reused before new ones are made: of each size there    *)
(* are as many blocks, held and listed, as callers ever held at a time.    *)
THEOREM BlockFootprintIsPeak == Spec => []FootprintIsPeak
<1>1. Init => FootprintIsPeak
  <2> SUFFICES ASSUME Init, NEW i \in Indices
               PROVE  Len(list_heads[i]) + Cardinality(Class(i)) = peak[i]
    BY DEF FootprintIsPeak
  <2>1. Class(i) = {} /\ list_heads[i] = <<>> /\ peak[i] = 0
    BY DEF Init, Class
  <2>2. Cardinality(Class(i)) = 0
    BY <2>1, FS_EmptySet
  <2> QED BY <2>1, <2>2
<1>2. BlockInv /\ FootprintIsPeak /\ [Next]_vars => FootprintIsPeak'
  <2> SUFFICES ASSUME BlockInv, FootprintIsPeak, [Next]_vars, NEW i \in Indices
               PROVE  Len(list_heads'[i]) + Cardinality(Class(i)') = peak'[i]
    BY DEF FootprintIsPeak
  <2>1. CASE init \/ UNCHANGED vars
    <3>1. list_heads' = list_heads /\ Class(i)' = Class(i) /\ peak' = peak
      BY <2>1 DEF init, vars, Class
    <3> QED BY <3>1 DEF FootprintIsPeak
  <2>2. CASE \E l \in Layouts : alloc(l)
    BY <2>2, AllocFootprint
  <2>3. CASE \E b \in live : dealloc(b)
    BY <2>3, DeallocFootprint
  <2> QED BY <2>1, <2>2, <2>3 DEF Next
<1> QED BY <1>1, <1>2, BlockInvariant, PTL DEF Spec
=============================================================================
