---------------------------- MODULE MemoryProofs ----------------------------
(***************************************************************************)
(* Proofs about Memory.tla, for every memory map, all boot loader's        *)
(* tables, every number of levels and every heap: no frame gets a second   *)
(* use and, where the boot loader's tables are a tree, the heap is mapped  *)
(* when init_heap returns, mapping a page changes the address space by     *)
(* that page alone, and init_heap takes exactly the frames it needs from   *)
(* the frame allocator.                                                    *)
(***************************************************************************)
EXTENDS Memory, KernelLemmas, FiniteSetTheorems, TLAPS

(* Shifting a page's number by one more index divides it. *)
LEMMA Shifts ==
  ASSUME NEW p \in Nat
  PROVE  /\ shifted(p, 0) = p
         /\ \A l \in 1 .. Levels : shifted(p, l) = shifted(p, l - 1) \div Entries
         /\ \A l \in 0 .. Levels : shifted(p, l) \in Nat
<1> DEFINE at(g, k) == IF k = 0 THEN p ELSE g[k - 1] \div Entries
           IsShift(g, m) == g = [k \in 0 .. m |-> at(g, k)]
           right == CHOOSE g : IsShift(g, Levels)
           T == {m \in 0 .. Levels : \E g : IsShift(g, m)}
           N == {k \in 0 .. Levels : right[k] \in Nat}
<1>1. Levels \in Nat /\ Entries \in Nat \ {0}
  BY PagesAssumption
<1>2. 0 \in T
  <2>1. IsShift([k \in 0 .. 0 |-> p], 0)
    OBVIOUS
  <2> HIDE DEF IsShift
  <2> QED BY <1>1, <2>1
<1>3. ASSUME NEW m \in 1 .. Levels, m - 1 \in T PROVE m \in T
  <2>1. PICK g : IsShift(g, m - 1)
    BY <1>3
  <2> DEFINE h == [k \in 0 .. m |-> IF k = m THEN at(g, m) ELSE g[k]]
  <2>2. \A k \in 0 .. m : at(h, k) = at(g, k)
    <3>1. \A k \in 1 .. m : h[k - 1] = g[k - 1]
      BY <1>1
    <3> QED BY <1>1, <3>1
  <2>3. \A k \in 0 .. m : h[k] = at(h, k)
    <3> HIDE DEF at
    <3>1. \A k \in 0 .. m : h[k] = at(g, k)
      BY <1>1, <2>1
    <3> QED BY <2>2, <3>1
  <2>4. IsShift(h, m)
    <3> HIDE DEF at
    <3> QED BY <2>3
  <2> HIDE DEF IsShift
  <2> QED BY <1>3, <2>4
<1>4. Levels \in T
  <2> HIDE DEF T
  <2>1. 0 .. Levels \subseteq T
    BY <1>1, <1>2, <1>3, UpTo
  <2> QED BY <1>1, <2>1
<1>5. IsShift(right, Levels)
  BY <1>4, Zenon
<1>6. \A l : shifted(p, l) = right[l]
  BY DEF shifted
<1> HIDE DEF right
<1>7. right[0] = p /\ \A l \in 1 .. Levels : right[l] = right[l - 1] \div Entries
  BY <1>1, <1>5
<1>8. 0 .. Levels \subseteq N
  <2>1. 0 \in N /\ \A k \in 1 .. Levels : k - 1 \in N => k \in N
    BY <1>1, <1>7
  <2> HIDE DEF N
  <2> QED BY <1>1, <2>1, UpTo
<1> QED BY <1>6, <1>7, <1>8

(* An index is one of the table. *)
LEMMA IndexInTable ==
  ASSUME NEW p \in Nat, NEW l \in 1 .. Levels
  PROVE  index(p, l) \in Index
<1>1. Levels \in Nat /\ Entries \in Nat \ {0} /\ l - 1 \in 0 .. Levels
  BY PagesAssumption
<1>2. shifted(p, l - 1) \in Nat
  BY <1>1, Shifts
<1> QED BY <1>1, <1>2 DEF index, Index

(* Pages that share a table and the index into it share what it refers to. *)
LEMMA SameShift ==
  ASSUME NEW p \in Nat, NEW q \in Nat, NEW l \in 1 .. Levels,
         shifted(p, l) = shifted(q, l), index(p, l) = index(q, l)
  PROVE  shifted(p, l - 1) = shifted(q, l - 1)
<1>1. Levels \in Nat /\ Entries \in Nat \ {0} /\ l - 1 \in 0 .. Levels
  BY PagesAssumption
<1> DEFINE a == shifted(p, l - 1)
           b == shifted(q, l - 1)
<1>2. a \in Nat /\ b \in Nat
  BY <1>1, Shifts
<1>3. a \div Entries = b \div Entries
  BY Shifts
<1>4. a % Entries = b % Entries
  BY DEF index
<1> HIDE DEF a, b
<1>5. a = b
  BY <1>1, <1>2, <1>3, <1>4, QuotientAndRemainder, Zenon
<1> QED BY <1>5 DEF a, b

(* The walk starts at the top level table and goes down level by level. *)
LEMMA Walk ==
  ASSUME NEW ts, NEW p
  PROVE  /\ reach(ts, p, Levels) = Cr3
         /\ \A l \in 1 .. Levels :
              reach(ts, p, l - 1) = entry_frame(ts, reach(ts, p, l), index(p, l))
<1> DEFINE at(g, k) == IF k = 0 THEN Cr3
                       ELSE entry_frame(ts, g[k - 1], index(p, Levels - k + 1))
           IsWalk(g, m) == g = [k \in 0 .. m |-> at(g, k)]
           down == CHOOSE g : IsWalk(g, Levels)
           T == {m \in 0 .. Levels : \E g : IsWalk(g, m)}
<1>1. Levels \in Nat
  BY PagesAssumption
<1>2. 0 \in T
  <2>1. IsWalk([k \in 0 .. 0 |-> Cr3], 0)
    OBVIOUS
  <2> HIDE DEF IsWalk
  <2> QED BY <1>1, <2>1
<1>3. ASSUME NEW m \in 1 .. Levels, m - 1 \in T PROVE m \in T
  <2>1. PICK g : IsWalk(g, m - 1)
    BY <1>3
  <2> DEFINE h == [k \in 0 .. m |-> IF k = m THEN at(g, m) ELSE g[k]]
  <2>2. \A k \in 0 .. m : at(h, k) = at(g, k)
    <3>1. \A k \in 1 .. m : h[k - 1] = g[k - 1]
      BY <1>1
    <3> QED BY <1>1, <3>1
  <2>3. \A k \in 0 .. m : h[k] = at(h, k)
    <3> HIDE DEF at
    <3>1. \A k \in 0 .. m : h[k] = at(g, k)
      BY <1>1, <2>1
    <3> QED BY <2>2, <3>1
  <2>4. IsWalk(h, m)
    <3> HIDE DEF at
    <3> QED BY <2>3
  <2> HIDE DEF IsWalk
  <2> QED BY <1>3, <2>4
<1>4. Levels \in T
  <2> HIDE DEF T
  <2>1. 0 .. Levels \subseteq T
    BY <1>1, <1>2, <1>3, UpTo
  <2> QED BY <1>1, <2>1
<1>5. IsWalk(down, Levels)
  BY <1>4, Zenon
<1>6. \A l : reach(ts, p, l) = down[Levels - l]
  BY DEF reach
<1> HIDE DEF down
<1>7. \A k \in 0 .. Levels : down[k] = at(down, k)
  <2> HIDE DEF at
  <2> QED BY <1>5, Zenon
<1>8. reach(ts, p, Levels) = Cr3
  BY <1>1, <1>6, <1>7
<1>9. ASSUME NEW l \in 1 .. Levels
      PROVE  reach(ts, p, l - 1) = entry_frame(ts, reach(ts, p, l), index(p, l))
  <2> DEFINE k == Levels - (l - 1)
  <2>1. k \in 0 .. Levels /\ k # 0 /\ k - 1 = Levels - l /\ Levels - k + 1 = l
    BY <1>1
  <2>2. down[k] = entry_frame(ts, down[k - 1], index(p, Levels - k + 1))
    BY <1>7, <2>1
  <2> QED BY <1>6, <2>1, <2>2
<1> QED BY <1>8, <1>9

EntrySet == [frame : Frames, huge : BOOLEAN] \cup {NotPresent}

Stops == {NotPresent, HugeFrame}

(* What holds of the page tables, at boot and at any time after it *)
Sound(ts) ==
  /\ Cr3 \in DOMAIN ts /\ DOMAIN ts \subseteq Frames \ {VgaFrame}
  /\ \A t \in DOMAIN ts : ts[t] \in [Index -> EntrySet]
  /\ OneUse(ts) /\ WalksTables(ts)

(* Pages with the same number above level l share their walk down to it. *)
LEMMA SharedPath ==
  ASSUME NEW ts, NEW p \in Pages, NEW q \in Pages, NEW l \in 0 .. Levels,
         shifted(p, l) = shifted(q, l)
  PROVE  reach(ts, p, l) = reach(ts, q, l)
<1> DEFINE Same(m) == shifted(p, m) = shifted(q, m) => reach(ts, p, m) = reach(ts, q, m)
           T == {k \in 0 .. Levels : Same(Levels - k)}
<1>1. Levels \in Nat /\ Entries \in Nat \ {0} /\ p \in Nat /\ q \in Nat
  BY PagesAssumption
<1>2. 0 \in T
  BY <1>1, Walk
<1>3. ASSUME NEW k \in 1 .. Levels, k - 1 \in T PROVE k \in T
  <2> DEFINE m == Levels - (k - 1)
  <2>1. m \in 1 .. Levels /\ m - 1 = Levels - k /\ k \in 0 .. Levels
    BY <1>1
  <2>2. Same(m)
    BY <1>3
  <2> HIDE DEF m
  <2>3. ASSUME shifted(p, m - 1) = shifted(q, m - 1)
        PROVE  reach(ts, p, m - 1) = reach(ts, q, m - 1)
    <3>1. shifted(p, m) = shifted(q, m)
      BY <1>1, <2>1, <2>3, Shifts
    <3>2. index(p, m) = index(q, m)
      BY <2>3 DEF index
    <3> QED BY <2>1, <2>2, <3>1, <3>2, Walk, Zenon
  <2> QED BY <2>1, <2>3
<1>4. 0 .. Levels \subseteq T
  <2> HIDE DEF T
  <2> QED BY <1>1, <1>2, <1>3, UpTo
<1>5. Levels - l \in T /\ Levels - (Levels - l) = l
  BY <1>1, <1>4
<1> QED BY <1>5

(* What an entry of sound tables refers to *)
LEMMA EntryFrame ==
  ASSUME NEW ts, Sound(ts), NEW t \in DOMAIN ts, NEW i \in Index
  PROVE  /\ entry_frame(ts, t, i) \in Frames \cup Stops
         /\ entry_frame(ts, t, i) = NotPresent <=> ts[t][i] = NotPresent
         /\ entry_frame(ts, t, i) \in Frames =>
              InUse(ts, t, i) /\ entry_frame(ts, t, i) = ts[t][i].frame
<1>1. t \in Frames /\ t \notin Stops
  BY MemoryMapAssumption DEF Sound, Stops
<1>2. ts[t][i] \in EntrySet
  BY DEF Sound
<1>3. NotPresent # HugeFrame /\ NotPresent \notin Frames /\ HugeFrame \notin Frames
  BY MemoryMapAssumption, BootTablesAssumption
<1>4. CASE ts[t][i] = NotPresent
  BY <1>1, <1>3, <1>4 DEF entry_frame, Stops
<1>5. CASE ts[t][i] # NotPresent
  <2>1. ts[t][i].frame \in Frames /\ ts[t][i].huge \in BOOLEAN
    BY <1>2, <1>5 DEF EntrySet
  <2>2. entry_frame(ts, t, i) = IF ts[t][i].huge THEN HugeFrame ELSE ts[t][i].frame
    BY <1>1, <1>5 DEF entry_frame, Stops
  <2> QED BY <1>3, <1>5, <2>1, <2>2 DEF Stops, InUse
<1> QED BY <1>4, <1>5

(* A walk that has not stopped is at a table above the last level, *)
LEMMA AtTable ==
  ASSUME NEW ts, Sound(ts), NEW p \in Pages, NEW l \in 1 .. Levels
  PROVE  /\ reach(ts, p, l) \in DOMAIN ts \cup Stops
         /\ reach(ts, p, l) \in Frames => reach(ts, p, l) \in DOMAIN ts \ {VgaFrame}
         /\ reach(ts, p, l) \in Stops => reach(ts, p, l - 1) = reach(ts, p, l)
         /\ index(p, l) \in Index
<1>1. reach(ts, p, l) \in DOMAIN ts \cup Stops
  BY DEF Sound, WalksTables, Stops
<1>2. index(p, l) \in Index
  BY PagesAssumption, IndexInTable
<1>3. Stops \cap Frames = {}
  BY MemoryMapAssumption DEF Stops
<1>4. reach(ts, p, l) \in Stops => reach(ts, p, l - 1) = reach(ts, p, l)
  BY Walk, Zenon DEF entry_frame, Stops
<1> QED BY <1>1, <1>2, <1>3, <1>4 DEF Sound

(* and at a frame that an entry refers to below it. *)
LEMMA Parent ==
  ASSUME NEW ts, Sound(ts), NEW p \in Pages, NEW l \in 1 .. Levels,
         reach(ts, p, l - 1) \in Frames
  PROVE  /\ reach(ts, p, l) \in DOMAIN ts \ {VgaFrame}
         /\ InUse(ts, reach(ts, p, l), index(p, l))
         /\ reach(ts, p, l - 1) = ts[reach(ts, p, l)][index(p, l)].frame
         /\ reach(ts, p, l - 1) # Cr3
<1>1. Stops \cap Frames = {}
  BY MemoryMapAssumption DEF Stops
<1>2. reach(ts, p, l) \in DOMAIN ts \ {VgaFrame} /\ index(p, l) \in Index
  BY <1>1, AtTable DEF Sound
<1>3. reach(ts, p, l - 1) = entry_frame(ts, reach(ts, p, l), index(p, l))
  BY Walk, Zenon
<1>4. /\ InUse(ts, reach(ts, p, l), index(p, l))
      /\ reach(ts, p, l - 1) = ts[reach(ts, p, l)][index(p, l)].frame
  BY <1>2, <1>3, EntryFrame
<1>5. ts[reach(ts, p, l)][index(p, l)].frame # Cr3
  BY <1>2, <1>4 DEF Sound, OneUse
<1> QED BY <1>2, <1>4, <1>5

LEMMA ReachType ==
  ASSUME NEW ts, Sound(ts), NEW p \in Pages, NEW l \in 0 .. Levels
  PROVE  reach(ts, p, l) \in Frames \cup Stops
<1>1. Levels \in Nat \ {0}
  BY PagesAssumption
<1>2. CASE l # 0
  BY <1>1, <1>2, AtTable DEF Sound
<1>3. CASE l = 0
  <2>1. /\ reach(ts, p, 1) \in DOMAIN ts \cup Stops /\ index(p, 1) \in Index
        /\ reach(ts, p, 1) \in Stops => reach(ts, p, 1 - 1) = reach(ts, p, 1)
    BY <1>1, AtTable
  <2>2. reach(ts, p, 1 - 1) = entry_frame(ts, reach(ts, p, 1), index(p, 1))
    BY <1>1, Walk
  <2>3. 1 - 1 = l
    BY <1>3
  <2> QED BY <2>1, <2>2, <2>3, EntryFrame
<1> QED BY <1>2, <1>3

(* Two walks that meet at a frame below the top came from the same table,  *)
(* through the same entry.                                                 *)
LEMMA SameParent ==
  ASSUME NEW ts, Sound(ts), NEW p \in Pages, NEW q \in Pages,
         NEW a \in 1 .. Levels, NEW b \in 1 .. Levels,
         reach(ts, p, a - 1) = reach(ts, q, b - 1),
         reach(ts, p, a - 1) \in Frames \ {VgaFrame}
  PROVE  /\ reach(ts, p, a) = reach(ts, q, b) /\ index(p, a) = index(q, b)
         /\ reach(ts, p, a) \in Frames \ {VgaFrame}
<1> DEFINE u == reach(ts, p, a)
           v == reach(ts, q, b)
           i == index(p, a)
           j == index(q, b)
           f == reach(ts, p, a - 1)
<1>1. /\ u \in DOMAIN ts \ {VgaFrame} /\ InUse(ts, u, i) /\ i \in Index
      /\ f = ts[u][i].frame
  BY Parent, AtTable
<1>2. /\ v \in DOMAIN ts /\ InUse(ts, v, j) /\ j \in Index
      /\ f = ts[v][j].frame
  BY Parent, AtTable
<1>3. f # VgaFrame
  OBVIOUS
<1> HIDE DEF u, v, i, j, f
<1>4. u = v /\ i = j
  BY <1>1, <1>2, <1>3, Zenon DEF Sound, OneUse
<1>5. u \in Frames \ {VgaFrame}
  BY <1>1 DEF Sound
<1> QED BY <1>4, <1>5 DEF u, v, i, j

(* Only one way leads to a table or to a frame that is not a device's: two *)
(* walks that meet have the same length and the same indices.              *)
LEMMA UniquePath ==
  ASSUME NEW ts, Sound(ts), NEW p \in Pages, NEW q \in Pages,
         NEW l \in 0 .. Levels, NEW m \in 0 .. Levels,
         reach(ts, p, l) = reach(ts, q, m), reach(ts, p, l) \in Frames \ {VgaFrame}
  PROVE  l = m /\ shifted(p, l) = shifted(q, l)
<1> DEFINE Meet(a, b) == /\ reach(ts, p, a) = reach(ts, q, b)
                         /\ reach(ts, p, a) \in Frames \ {VgaFrame}
           Unique(a) == \A b \in 0 .. Levels :
                          Meet(a, b) => a = b /\ shifted(p, a) = shifted(q, a)
           T == {k \in 0 .. Levels : Unique(Levels - k)}
<1>1. Levels \in Nat /\ p \in Nat /\ q \in Nat
  BY PagesAssumption
<1>2. Cr3 \in Frames
  BY DEF Sound
<1>3. 0 \in T
  <2> SUFFICES ASSUME NEW b \in 0 .. Levels, Meet(Levels, b)
               PROVE  Levels = b /\ shifted(p, Levels) = shifted(q, Levels)
    BY <1>1
  <2>1. reach(ts, q, b) = Cr3
    BY Walk
  <2>2. b = Levels
    <3> SUFFICES ASSUME b # Levels PROVE FALSE
      OBVIOUS
    <3>1. b + 1 \in 1 .. Levels /\ (b + 1) - 1 = b
      BY <1>1
    <3> QED BY <1>2, <2>1, <3>1, Parent
  <2> QED BY <2>2, PagesAssumption
<1>4. ASSUME NEW k \in 1 .. Levels, k - 1 \in T PROVE k \in T
  <2> DEFINE a == Levels - (k - 1)
  <2>1. a \in 1 .. Levels /\ a - 1 = Levels - k /\ k \in 0 .. Levels
    BY <1>1
  <2>2. Unique(a)
    BY <1>4
  <2> HIDE DEF a
  <2>3. ASSUME NEW b \in 0 .. Levels, Meet(a - 1, b)
        PROVE  a - 1 = b /\ shifted(p, a - 1) = shifted(q, a - 1)
    <3>1. reach(ts, p, a - 1) # Cr3
      BY <2>1, <2>3, Parent
    <3>2. b # Levels
      BY <2>3, <3>1, Walk
    <3>3. b + 1 \in 1 .. Levels /\ (b + 1) - 1 = b /\ b + 1 \in 0 .. Levels
      BY <1>1, <3>2
    <3>4. /\ reach(ts, p, a) = reach(ts, q, b + 1) /\ index(p, a) = index(q, b + 1)
          /\ reach(ts, p, a) \in Frames \ {VgaFrame}
      BY <2>1, <2>3, <3>3, SameParent
    <3>5. a = b + 1 /\ shifted(p, a) = shifted(q, a)
      BY <2>2, <3>3, <3>4
    <3>6. index(p, a) = index(q, a)
      BY <3>4, <3>5
    <3> QED BY <1>1, <2>1, <3>5, <3>6, SameShift
  <2> QED BY <2>1, <2>3
<1>5. 0 .. Levels \subseteq T
  <2> HIDE DEF T
  <2> QED BY <1>1, <1>3, <1>4, UpTo
<1>6. Levels - l \in T /\ Levels - (Levels - l) = l
  BY <1>1, <1>5
<1>7. Unique(l)
  BY <1>6
<1> QED BY <1>7

(* Tables us are tables ts in which the entry that is missing on the walk  *)
(* for page p at level lv refers to frame f, which is a new, empty table   *)
(* when lv is not the last level.                                          *)
NewEntry(ts, us, p, lv, f) ==
  LET t == reach(ts, p, lv)
  IN /\ t \in DOMAIN ts /\ ts[t][index(p, lv)] = NotPresent
     /\ DOMAIN us = DOMAIN ts \cup (IF lv > 1 THEN {f} ELSE {})
     /\ \A u \in DOMAIN ts :
          us[u] = IF u = t THEN [ts[u] EXCEPT ![index(p, lv)] = Entry(f, FALSE)] ELSE ts[u]
     /\ lv > 1 => f \notin DOMAIN ts \cup {VgaFrame} /\ us[f] = EmptyTable

(* A new entry changes no walk but those that missed it: for a table they  *)
(* now get to it and no further, for a page only its own gets to the frame.*)
LEMMA WalksAfter ==
  ASSUME NEW ts, Sound(ts), NEW us, NEW p \in Pages, NEW lv \in 1 .. Levels,
         NEW f \in Frames, NewEntry(ts, us, p, lv, f)
  PROVE  /\ \A q \in Pages, l \in 0 .. Levels :
              \/ reach(us, q, l) = reach(ts, q, l)
              \/ /\ l = lv - 1 /\ shifted(q, l) = shifted(p, l)
                 /\ reach(us, q, l) = f /\ reach(ts, q, l) = NotPresent
         /\ reach(us, p, lv - 1) = f /\ reach(ts, p, lv - 1) = NotPresent
<1> DEFINE t == reach(ts, p, lv)
           i == index(p, lv)
           Keeps(q, l) == reach(us, q, l) = reach(ts, q, l)
           Gains(q, l) == /\ l = lv - 1 /\ shifted(q, l) = shifted(p, l)
                          /\ reach(us, q, l) = f /\ reach(ts, q, l) = NotPresent
<1>1. Levels \in Nat /\ Pages \subseteq Nat
  BY PagesAssumption
<1>2. Stops \cap Frames = {} /\ NotPresent # HugeFrame
  BY MemoryMapAssumption, BootTablesAssumption DEF Stops
<1>3. /\ t \in DOMAIN ts /\ ts[t][i] = NotPresent /\ i \in Index
      /\ ts[t] \in [Index -> EntrySet] /\ DOMAIN ts \subseteq Frames \ {VgaFrame}
  BY AtTable DEF NewEntry, Sound
<1>4. \A u \in DOMAIN ts, j \in Index :
        us[u][j] = IF u = t /\ j = i THEN Entry(f, FALSE) ELSE ts[u][j]
  <2>1. \A u \in DOMAIN ts : us[u] = IF u = t THEN [ts[u] EXCEPT ![i] = Entry(f, FALSE)]
                                     ELSE ts[u]
    BY Zenon DEF NewEntry
  <2> HIDE DEF t, i
  <2> QED BY <1>3, <2>1, Zenon
<1>5. \A u \in DOMAIN ts, j \in Index :
        entry_frame(us, u, j) = IF u = t /\ j = i THEN f ELSE entry_frame(ts, u, j)
  <2> SUFFICES ASSUME NEW u \in DOMAIN ts, NEW j \in Index
               PROVE  entry_frame(us, u, j) = IF u = t /\ j = i THEN f
                                              ELSE entry_frame(ts, u, j)
    OBVIOUS
  <2>1. u \notin {NotPresent, HugeFrame}
    BY <1>2, <1>3 DEF Stops
  <2>2. CASE u = t /\ j = i
    <3>1. us[u][j] = [frame |-> f, huge |-> FALSE]
      BY <1>4, <2>2, Zenon DEF Entry
    <3>2. us[u][j] \in [frame : Frames, huge : BOOLEAN]
      BY <3>1
    <3>3. NotPresent \notin [frame : Frames, huge : BOOLEAN]
      BY BootTablesAssumption
    <3>4. us[u][j] # NotPresent
      BY <3>2, <3>3
    <3> QED BY <2>1, <2>2, <3>1, <3>4 DEF entry_frame
  <2>3. CASE ~(u = t /\ j = i)
    <3>1. us[u][j] = ts[u][j]
      BY <1>4, <2>3, Zenon
    <3> QED BY <2>3, <3>1 DEF entry_frame
  <2> QED BY <2>2, <2>3
<1>6. entry_frame(ts, t, i) = NotPresent
  BY <1>3, EntryFrame
<1>7. ASSUME NEW q \in Pages, NEW l \in 0 .. Levels PROVE Keeps(q, l) \/ Gains(q, l)
  <2> DEFINE T == {k \in 0 .. Levels : Keeps(q, Levels - k) \/ Gains(q, Levels - k)}
  <2>1. 0 \in T
    BY <1>1, Walk
  <2>2. ASSUME NEW k \in 1 .. Levels, k - 1 \in T PROVE k \in T
    <3> DEFINE m == Levels - (k - 1)
    <3>1. m \in 1 .. Levels /\ m - 1 = Levels - k /\ k \in 0 .. Levels /\ m \in 0 .. Levels
      BY <1>1
    <3>2. Keeps(q, m) \/ Gains(q, m)
      BY <2>2
    <3> HIDE DEF m
    <3>3. /\ reach(ts, q, m - 1) = entry_frame(ts, reach(ts, q, m), index(q, m))
          /\ reach(us, q, m - 1) = entry_frame(us, reach(us, q, m), index(q, m))
          /\ index(q, m) \in Index
      <4>1. /\ reach(ts, q, m - 1) = entry_frame(ts, reach(ts, q, m), index(q, m))
            /\ reach(us, q, m - 1) = entry_frame(us, reach(us, q, m), index(q, m))
        BY <3>1, Walk, Zenon
      <4>2. index(q, m) \in Index
        BY <3>1, AtTable
      <4> QED BY <4>1, <4>2
    <3>4. CASE Gains(q, m)
      <4>1. lv > 1 /\ us[f] = EmptyTable
        BY <1>1, <3>1, <3>4 DEF NewEntry
      <4>2. us[f][index(q, m)] = NotPresent
        BY <3>3, <4>1 DEF EmptyTable
      <4>3. reach(us, q, m - 1) = NotPresent
        BY <1>2, <3>3, <3>4, <4>2, Zenon DEF entry_frame, Stops
      <4>4. reach(ts, q, m - 1) = NotPresent
        BY <3>3, <3>4, Zenon DEF entry_frame
      <4> QED BY <3>1, <4>3, <4>4
    <3>5. CASE Keeps(q, m) /\ reach(ts, q, m) \in Stops
      <4>1. /\ reach(ts, q, m - 1) = reach(ts, q, m)
            /\ reach(us, q, m - 1) = reach(us, q, m)
        BY <3>3, <3>5, Zenon DEF entry_frame, Stops
      <4> QED BY <3>1, <3>5, <4>1
    <3>6. CASE Keeps(q, m) /\ reach(ts, q, m) \notin Stops
      <4>1. reach(ts, q, m) \in DOMAIN ts
        BY <3>1, <3>6, AtTable
      <4>2. CASE reach(ts, q, m) = t /\ index(q, m) = i
        <5>1. t \in Frames \ {VgaFrame} /\ lv \in 0 .. Levels
          BY <1>1, <1>3
        <5>2. m = lv /\ shifted(q, m) = shifted(p, m)
          BY <3>1, <4>2, <5>1, UniquePath
        <5>3. shifted(q, m - 1) = shifted(p, m - 1)
          BY <1>1, <3>1, <4>2, <5>2, SameShift
        <5>4. reach(us, q, m - 1) = f /\ reach(ts, q, m - 1) = NotPresent
          BY <1>5, <1>6, <3>3, <3>6, <4>1, <4>2
        <5> QED BY <3>1, <5>2, <5>3, <5>4
      <4>3. CASE ~(reach(ts, q, m) = t /\ index(q, m) = i)
        <5>1. reach(us, q, m - 1) = reach(ts, q, m - 1)
          BY <1>5, <3>3, <3>6, <4>1, <4>3
        <5> QED BY <3>1, <5>1
      <4> QED BY <4>2, <4>3
    <3> QED BY <3>2, <3>4, <3>5, <3>6
  <2>3. 0 .. Levels \subseteq T
    <3> HIDE DEF T
    <3> QED BY <1>1, <2>1, <2>2, UpTo
  <2>4. Levels - l \in T /\ Levels - (Levels - l) = l
    BY <1>1, <2>3
  <2> QED BY <2>4
<1>8. reach(us, p, lv - 1) = f /\ reach(ts, p, lv - 1) = NotPresent
  <2>1. reach(us, p, lv) = t
    BY <1>1, <1>7
  <2>2. /\ reach(us, p, lv - 1) = entry_frame(us, t, i)
        /\ reach(ts, p, lv - 1) = entry_frame(ts, t, i)
    BY <2>1, Walk, Zenon
  <2> QED BY <1>3, <1>5, <1>6, <2>2, Zenon
<1> QED BY <1>7, <1>8

(* Walks still go from table to table. *)
LEMMA StillWalksTables ==
  ASSUME NEW ts, Sound(ts), NEW us, NEW p \in Pages, NEW lv \in 1 .. Levels,
         NEW f \in Frames, NewEntry(ts, us, p, lv, f)
  PROVE  /\ Cr3 \in DOMAIN us /\ DOMAIN us \subseteq Frames \ {VgaFrame}
         /\ WalksTables(us)
<1>1. Levels \in Nat
  BY PagesAssumption
<1>2. /\ Cr3 \in DOMAIN us /\ DOMAIN us \subseteq Frames \ {VgaFrame}
      /\ DOMAIN ts \subseteq DOMAIN us /\ (lv > 1 => f \in DOMAIN us)
  BY DEF NewEntry, Sound
<1>3. ASSUME NEW q \in Pages, NEW l \in 1 .. Levels
      PROVE  reach(us, q, l) \in DOMAIN us \cup {NotPresent, HugeFrame}
  <2>1. l \in 0 .. Levels /\ (l = lv - 1 => lv > 1)
    BY <1>1
  <2>2. reach(ts, q, l) \in DOMAIN ts \cup Stops
    BY AtTable
  <2> QED BY <1>2, <2>1, <2>2, WalksAfter DEF Stops
<1> QED BY <1>2, <1>3 DEF WalksTables

-----------------------------------------------------------------------------
frames == usable_frames(memory_map)

(* No entry of the tables refers to the frame. *)
UnusedIn(ts, f) == \A t \in DOMAIN ts, i \in Index :
                     InUse(ts, t, i) => ts[t][i].frame # f

Unused(f) == UnusedIn(tables, f)

(* Frames that were not handed out yet are no tables and in no table. *)
FreshInv ==
  \A n \in DOMAIN frames : n > next => frames[n] \notin DOMAIN tables /\ Unused(frames[n])

(* The frame that map_to is about to map is the VGA buffer, or was handed  *)
(* out and is not used yet.                                                *)
PendingInv ==
  pc = "map_to" =>
    \/ frame = VgaFrame
    \/ /\ \E n \in DOMAIN frames : n <= next /\ frame = frames[n]
       /\ Unused(frame)

(* The boot loader's tables, and what was added to them *)
AddedInv == boot \in BootTables /\ AddsNoSecondUse

(* The inductive invariant. *)
FrameInv ==
  /\ memory_map \in MemoryMaps /\ next \in Nat
  /\ \A t \in DOMAIN tables : tables[t] \in [Index -> EntrySet]
  /\ AddedInv
  /\ FreshInv
  /\ PendingInv

-----------------------------------------------------------------------------
(* What is known of the usable frames *)
LEMMA UsableFrames ==
  ASSUME FrameInv
  PROVE  /\ DOMAIN frames \subseteq Nat /\ Len(frames) \in Nat
         /\ DOMAIN frames = 1 .. Len(frames)
         /\ \A n \in DOMAIN frames : frames[n] \in Frames \ {Cr3, VgaFrame}
         /\ \A m, n \in DOMAIN frames : frames[m] = frames[n] => m = n
<1>1. frames \in Seq(Frames \ {Cr3, VgaFrame}) /\ IsInjective(frames)
  BY MemoryMapAssumption DEF FrameInv, frames
<1> HIDE DEF frames
<1>2. \A m, n \in DOMAIN frames : frames[m] = frames[n] => m = n
  BY <1>1 DEF IsInjective
<1> QED BY <1>1, <1>2

(* The result of allocate_frame: nothing, or the frame at next *)
LEMMA AllocatedFrame ==
  ASSUME FrameInv, NEW f, allocate_frame(f), f # NoFrame
  PROVE  /\ next' = next + 1 /\ next + 1 \in DOMAIN frames /\ f = frames[next + 1]
         /\ f \in Frames \ {Cr3, VgaFrame} /\ f \notin DOMAIN tables /\ Unused(f)
<1>1. next \in Nat /\ next' = next + 1
  BY DEF FrameInv, allocate_frame
<1>2. next < Len(frames) /\ f = frames[next + 1]
  BY DEF allocate_frame, frames
<1>3. next + 1 \in DOMAIN frames
  BY <1>1, <1>2, UsableFrames
<1>4. f \notin DOMAIN tables /\ Unused(f)
  BY <1>1, <1>2, <1>3 DEF FrameInv, FreshInv
<1> QED BY <1>1, <1>2, <1>3, <1>4, UsableFrames

(* Tables in which one entry was made to refer to a frame, and to which    *)
(* empty tables may have been added                                        *)
Refers(t0, k, f) ==
  /\ DOMAIN tables \subseteq DOMAIN tables'
  /\ \A t \in DOMAIN tables' :
       \/ t \notin DOMAIN tables /\ tables'[t] = EmptyTable
       \/ /\ t \in DOMAIN tables
          /\ tables'[t] = IF t = t0 THEN [tables[t] EXCEPT ![k] = Entry(f, FALSE)]
                          ELSE tables[t]

(* What is mapped after boot is none of the boot loader's tables. *)
LEMMA NotOfBoot ==
  ASSUME FrameInv
  PROVE  VgaFrame \notin DOMAIN boot /\ \A n \in DOMAIN frames : frames[n] \notin DOMAIN boot
<1>1. boot \in BootTables /\ memory_map \in MemoryMaps
  BY Zenon DEF FrameInv, AddedInv
<1>2. \A f \in Range(usable_frames(memory_map)) : f \notin DOMAIN boot
  BY <1>1, BootTablesAssumption, Zenon
<1>3. VgaFrame \notin DOMAIN boot
  BY <1>1, BootTablesAssumption, Zenon
<1> QED BY <1>2, <1>3, Zenon DEF frames, Range

LEMMA ReferTo ==
  ASSUME FrameInv, NEW t0, NEW k, NEW f \in Frames \ {Cr3}, Refers(t0, k, f),
         f = VgaFrame \/ Unused(f), f \notin DOMAIN boot, boot' = boot
  PROVE  /\ \A t \in DOMAIN tables' : tables'[t] \in [Index -> EntrySet]
         /\ AddedInv'
         /\ \A g : g # f /\ Unused(g) => UnusedIn(tables', g)
<1>1. \A t \in DOMAIN tables : tables[t] \in [Index -> EntrySet]
  BY DEF FrameInv
<1>2. Entry(f, FALSE) \in EntrySet /\ Entry(f, FALSE).frame = f
  BY DEF Entry, EntrySet
<1>3. ASSUME NEW t \in DOMAIN tables' PROVE tables'[t] \in [Index -> EntrySet]
  <2>1. EmptyTable \in [Index -> EntrySet]
    BY DEF EmptyTable, EntrySet
  <2>2. CASE t \notin DOMAIN tables
    BY <2>1, <2>2, Zenon DEF Refers
  <2>3. CASE t \in DOMAIN tables /\ t # t0
    BY <1>1, <2>3, Zenon DEF Refers
  <2>4. CASE t \in DOMAIN tables /\ t = t0
    <3>1. tables'[t] = [tables[t] EXCEPT ![k] = Entry(f, FALSE)]
      BY <2>4, Zenon DEF Refers
    <3>2. tables[t] \in [Index -> EntrySet]
      BY <1>1, <2>4
    <3> QED BY <1>2, <3>1, <3>2, Zenon
  <2> QED BY <2>2, <2>3, <2>4
<1>4. ASSUME NEW t \in DOMAIN tables', NEW i \in Index, InUse(tables', t, i)
      PROVE  \/ t \in DOMAIN tables /\ InUse(tables, t, i) /\ tables'[t][i] = tables[t][i]
             \/ t = t0 /\ i = k /\ tables'[t][i].frame = f
  <2>1. CASE t \notin DOMAIN tables
    <3>1. tables'[t][i] = NotPresent
      BY <2>1, Zenon DEF Refers, EmptyTable
    <3> QED BY <1>4, <3>1 DEF InUse
  <2>2. CASE t \in DOMAIN tables /\ t # t0
    BY <1>4, <2>2, Zenon DEF Refers, InUse
  <2>3. CASE t \in DOMAIN tables /\ t = t0
    <3>1. tables'[t] = [tables[t] EXCEPT ![k] = Entry(f, FALSE)]
      BY <2>3, Zenon DEF Refers
    <3>2. tables[t] \in [Index -> EntrySet]
      BY <1>1, <2>3
    <3>3. CASE i = k
      BY <1>2, <2>3, <3>1, <3>2, <3>3, Zenon
    <3>4. CASE i # k
      <4>1. tables'[t][i] = tables[t][i]
        BY <3>1, <3>2, <3>4
      <4> QED BY <1>4, <2>3, <4>1 DEF InUse
    <3> QED BY <3>3, <3>4
  <2> QED BY <2>1, <2>2, <2>3, Zenon
<1>5. AddedInv'
  <2>1. boot' \in BootTables /\ f \notin DOMAIN boot
    BY Zenon DEF FrameInv, AddedInv
  <2> SUFFICES ASSUME NEW t \in DOMAIN tables', NEW u \in DOMAIN tables',
                      NEW i \in Index, NEW j \in Index, Added(t, i)'
               PROVE  /\ tables'[t][i].frame \notin DOMAIN boot'
                      /\ InUse(tables', u, j) /\ tables'[u][j].frame = tables'[t][i].frame =>
                           (t = u /\ i = j) \/ tables'[t][i].frame = VgaFrame
    BY <2>1, Zenon DEF AddedInv, AddsNoSecondUse
  <2>2. InUse(tables', t, i) /\ (t \in DOMAIN boot => boot[t][i] # tables'[t][i])
    BY Zenon DEF Added
  <2>3. CASE /\ t \in DOMAIN tables /\ InUse(tables, t, i)
             /\ tables'[t][i] = tables[t][i]
    <3>1. Added(t, i)
      BY <2>2, <2>3, Zenon DEF Added
    <3>2. tables[t][i].frame \notin DOMAIN boot
      BY <2>3, <3>1, Zenon DEF FrameInv, AddedInv, AddsNoSecondUse
    <3>3. ASSUME InUse(tables', u, j), tables'[u][j].frame = tables'[t][i].frame,
                 tables'[t][i].frame # VgaFrame
          PROVE  t = u /\ i = j
      <4>1. tables[t][i].frame # f
        BY <2>3, <3>3, Zenon DEF Unused, UnusedIn
      <4>2. u \in DOMAIN tables /\ InUse(tables, u, j) /\ tables'[u][j] = tables[u][j]
        BY <1>4, <2>3, <3>3, <4>1, Zenon
      <4>3. InUse(tables, u, j) /\ tables[u][j].frame = tables[t][i].frame =>
              (t = u /\ i = j) \/ tables[t][i].frame = VgaFrame
        BY <2>3, <3>1, <4>2, Zenon DEF FrameInv, AddedInv, AddsNoSecondUse
      <4> QED BY <2>3, <3>3, <4>2, <4>3, Zenon
    <3> QED BY <2>3, <3>2, <3>3, Zenon
  <2>4. CASE t = t0 /\ i = k /\ tables'[t][i].frame = f
    <3>1. ASSUME InUse(tables', u, j), tables'[u][j].frame = f, f # VgaFrame
          PROVE  u = t0 /\ j = k
      BY <1>4, <3>1, Zenon DEF Unused, UnusedIn
    <3> QED BY <2>1, <2>4, <3>1, Zenon
  <2> QED BY <1>4, <2>2, <2>3, <2>4, Zenon
<1>6. ASSUME NEW g, g # f, Unused(g) PROVE UnusedIn(tables', g)
  BY <1>4, <1>6 DEF Unused, UnusedIn
<1> QED BY <1>3, <1>5, <1>6

(* Steps that leave the tables alone keep what frames are unused. *)
LEMMA SameTables ==
  ASSUME FrameInv, tables' = tables, memory_map' = memory_map, boot' = boot,
         next' \in {next, next + 1}
  PROVE  /\ memory_map' \in MemoryMaps /\ next' \in Nat
         /\ \A t \in DOMAIN tables' : tables'[t] \in [Index -> EntrySet]
         /\ AddedInv' /\ FreshInv' /\ frames' = frames
         /\ \A f : UnusedIn(tables', f) <=> Unused(f)
<1>1. frames' = frames
  BY DEF frames
<1>2. \A f : UnusedIn(tables', f) <=> Unused(f)
  BY DEF Unused, UnusedIn
<1>3. next \in Nat /\ next' \in Nat /\ next <= next'
  BY DEF FrameInv
<1>4. FreshInv'
  <2>1. DOMAIN frames \subseteq Nat
    BY UsableFrames
  <2>2. \A n \in DOMAIN frames : n > next' => n > next
    BY <1>3, <2>1
  <2>3. \A n \in DOMAIN frames : n > next => frames[n] \notin DOMAIN tables /\ Unused(frames[n])
    BY DEF FrameInv, FreshInv
  <2>4. \A n \in DOMAIN frames' :
          n > next' => frames'[n] \notin DOMAIN tables' /\ UnusedIn(tables', frames[n])
    BY <1>1, <1>2, <2>2, <2>3
  <2> QED BY <1>1, <2>4 DEF FreshInv, Unused
<1>5. /\ memory_map' \in MemoryMaps
      /\ \A t \in DOMAIN tables' : tables'[t] \in [Index -> EntrySet]
  BY Zenon DEF FrameInv
<1>6. AddedInv'
  <2>1. boot \in BootTables /\ AddsNoSecondUse
    BY Zenon DEF FrameInv, AddedInv
  <2> QED BY <2>1 DEF AddedInv, AddsNoSecondUse, Added, InUse
<1> QED BY <1>1, <1>2, <1>3, <1>4, <1>5, <1>6, Zenon

LEMMA QuietStep ==
  ASSUME FrameInv, UNCHANGED <<memory_map, next, tables, boot>>,
         pc' # "map_to" \/ UNCHANGED <<pc, frame>> \/ frame' = VgaFrame
  PROVE  FrameInv'
<1>1. /\ memory_map' \in MemoryMaps /\ next' \in Nat
      /\ \A t \in DOMAIN tables' : tables'[t] \in [Index -> EntrySet]
      /\ AddedInv' /\ FreshInv' /\ frames' = frames
  BY SameTables, Zenon
<1>2. PendingInv'
  <2>1. CASE pc' # "map_to" \/ frame' = VgaFrame
    BY <2>1 DEF PendingInv
  <2>2. CASE UNCHANGED <<pc, frame>>
    BY <1>1, <2>2, Zenon DEF FrameInv, PendingInv, Unused
  <2> QED BY <2>1, <2>2
<1> QED BY <1>1, <1>2, Zenon DEF FrameInv

LEMMA InitHeapPage == ASSUME FrameInv, init_heap_page PROVE FrameInv'
<1>1. PICK f : /\ allocate_frame(f)
               /\ IF f = NoFrame
                  THEN pc' = "error" /\ UNCHANGED <<page, frame, level, table>>
                  ELSE map_to(page, f)
  BY DEF init_heap_page
<1>2. tables' = tables /\ memory_map' = memory_map /\ boot' = boot /\ next' = next + 1
  BY <1>1 DEF init_heap_page, allocate_frame
<1>3. /\ memory_map' \in MemoryMaps /\ next' \in Nat
      /\ \A t \in DOMAIN tables' : tables'[t] \in [Index -> EntrySet]
      /\ AddedInv' /\ FreshInv' /\ frames' = frames
      /\ \A g : UnusedIn(tables', g) <=> Unused(g)
  BY <1>2, SameTables
<1>4. PendingInv'
  <2>1. CASE f = NoFrame
    BY <1>1, <2>1 DEF PendingInv
  <2>2. CASE f # NoFrame
    <3>1. frame' = f
      BY <1>1, <2>2 DEF map_to
    <3>2. next + 1 \in DOMAIN frames /\ f = frames[next + 1] /\ Unused(f)
      BY <1>1, <2>2, AllocatedFrame
    <3>3. \E n \in DOMAIN frames' : n <= next' /\ frame' = frames'[n]
      BY <1>2, <1>3, <3>1, <3>2
    <3>4. UnusedIn(tables', f)
      BY <1>3, <3>2
    <3>5. Unused(frame)'
      BY <3>1, <3>4 DEF Unused
    <3> QED BY <3>3, <3>5 DEF PendingInv
  <2> QED BY <2>1, <2>2
<1> QED BY <1>3, <1>4, Zenon DEF FrameInv

LEMMA CreateNextTable == ASSUME FrameInv, create_next_table PROVE FrameInv'
<1>1. /\ memory_map' = memory_map /\ boot' = boot /\ frame' = frame /\ pc = "map_to"
      /\ frames' = frames
  BY DEF create_next_table, frames
<1>2. CASE UNCHANGED <<next, tables>> /\ pc' \in {pc, "error"}
  BY <1>1, <1>2, QuietStep
<1>3. ASSUME NEW f, allocate_frame(f), f = NoFrame, pc' = "error", tables' = tables
      PROVE  FrameInv'
  <2>1. next' = next + 1
    BY <1>3 DEF allocate_frame
  <2>2. /\ memory_map' \in MemoryMaps /\ next' \in Nat
        /\ \A t \in DOMAIN tables' : tables'[t] \in [Index -> EntrySet]
        /\ AddedInv' /\ FreshInv'
    BY <1>1, <1>3, <2>1, SameTables, Zenon
  <2>3. PendingInv'
    BY <1>3 DEF PendingInv
  <2> QED BY <2>2, <2>3 DEF FrameInv
<1>4. ASSUME NEW f, allocate_frame(f), f # NoFrame,
             tables' = [t \in DOMAIN tables \cup {f} |->
                          IF t = f THEN EmptyTable
                          ELSE IF t = table
                          THEN [tables[t] EXCEPT ![index(page, level)] = Entry(f, FALSE)]
                          ELSE tables[t]],
             pc' = pc
      PROVE  FrameInv'
  <2>1. /\ next' = next + 1 /\ next + 1 \in DOMAIN frames /\ f = frames[next + 1]
        /\ f \in Frames \ {Cr3, VgaFrame} /\ f \notin DOMAIN tables /\ Unused(f)
    BY <1>4, AllocatedFrame, Zenon
  <2>8. f \notin DOMAIN boot
    BY <2>1, NotOfBoot, Zenon
  <2>2. Refers(table, index(page, level), f) /\ DOMAIN tables' = DOMAIN tables \cup {f}
    BY <1>4, <2>1, Zenon DEF Refers
  <2>3. /\ \A t \in DOMAIN tables' : tables'[t] \in [Index -> EntrySet]
        /\ AddedInv'
        /\ \A g : g # f /\ Unused(g) => UnusedIn(tables', g)
    BY <1>1, <2>1, <2>2, <2>8, ReferTo, Zenon
  <2>4. next \in Nat /\ DOMAIN frames \subseteq Nat
        /\ \A m, n \in DOMAIN frames : frames[m] = frames[n] => m = n
    BY UsableFrames, Zenon DEF FrameInv
  <2>5. FreshInv'
    <3>1. \A n \in DOMAIN frames : n > next' => n > next /\ n # next + 1
      BY <2>1, <2>4
    <3>2. \A n \in DOMAIN frames : n > next' => frames[n] # f
      BY <2>1, <2>4, <3>1
    <3>3. \A n \in DOMAIN frames : n > next => frames[n] \notin DOMAIN tables /\ Unused(frames[n])
      BY DEF FrameInv, FreshInv
    <3>4. \A n \in DOMAIN frames : n > next' =>
            frames[n] \notin DOMAIN tables' /\ UnusedIn(tables', frames[n])
      BY <2>2, <2>3, <3>1, <3>2, <3>3, Zenon
    <3>5. \A n \in DOMAIN frames' : n > next' => frames'[n] \notin DOMAIN tables'
      BY <1>1, <3>4
    <3>6. \A n \in DOMAIN frames' : n > next' => UnusedIn(tables', frames'[n])
      BY <1>1, <3>4
    <3> QED BY <1>1, <3>5, <3>6 DEF FreshInv, Unused
  <2>6. PendingInv'
    <3>1. CASE frame = VgaFrame
      BY <1>1, <3>1 DEF PendingInv
    <3>2. CASE frame # VgaFrame
      <4>1. PICK n \in DOMAIN frames : n <= next /\ frame = frames[n]
        BY <1>1, <3>2 DEF FrameInv, PendingInv
      <4>2. Unused(frame)
        BY <1>1, <3>2 DEF FrameInv, PendingInv
      <4>3. frame # f /\ n <= next'
        BY <2>1, <2>4, <4>1
      <4>4. UnusedIn(tables', frame)
        BY <2>3, <4>2, <4>3
      <4>5. Unused(frame)'
        BY <1>1, <4>4 DEF Unused
      <4> QED BY <1>1, <4>1, <4>3, <4>5 DEF PendingInv
    <3> QED BY <3>1, <3>2
  <2>7. memory_map' \in MemoryMaps /\ next' \in Nat
    BY <1>1, <2>1, <2>4, Zenon DEF FrameInv
  <2> QED BY <2>3, <2>5, <2>6, <2>7, Zenon DEF FrameInv
<1> QED BY <1>2, <1>3, <1>4, Zenon DEF create_next_table

LEMMA MapToEntry == ASSUME FrameInv, map_to_entry PROVE FrameInv'
<1>1. UNCHANGED <<memory_map, next, boot, frame>> /\ pc = "map_to" /\ frames' = frames
  BY DEF map_to_entry, frames
<1>2. CASE tables' = tables /\ pc' = "error"
  BY <1>1, <1>2, QuietStep
<1>3. CASE mapped
  <2>1. /\ tables' = [tables EXCEPT ![table][index(page, 1)] = Entry(frame, FALSE)]
        /\ pc' = "init_heap"
    BY <1>3 DEF mapped
  <2>2. Refers(table, index(page, 1), frame) /\ DOMAIN tables' = DOMAIN tables
    BY <2>1, Zenon DEF Refers
  <2>3. /\ frame \in Frames \ {Cr3} /\ (frame = VgaFrame \/ Unused(frame))
        /\ frame \notin DOMAIN boot
        /\ \A n \in DOMAIN frames : n > next => frames[n] # frame
    <3>1. CASE frame = VgaFrame
      BY <3>1, UsableFrames, NotOfBoot, BootTablesAssumption, Zenon
    <3>2. CASE frame # VgaFrame
      <4>1. PICK n \in DOMAIN frames : n <= next /\ frame = frames[n]
        BY <1>1, <3>2, Zenon DEF FrameInv, PendingInv
      <4>2. Unused(frame)
        BY <1>1, <3>2 DEF FrameInv, PendingInv
      <4>3. next \in Nat /\ DOMAIN frames \subseteq Nat
        BY UsableFrames DEF FrameInv
      <4>4. \A m \in DOMAIN frames : m > next => frames[m] # frame
        BY <4>1, <4>3, UsableFrames
      <4>5. frame \notin DOMAIN boot
        BY <4>1, NotOfBoot, Zenon
      <4> QED BY <4>1, <4>2, <4>4, <4>5, UsableFrames
    <3> QED BY <3>1, <3>2
  <2>4. /\ \A t \in DOMAIN tables' : tables'[t] \in [Index -> EntrySet]
        /\ AddedInv'
        /\ \A g : g # frame /\ Unused(g) => UnusedIn(tables', g)
    BY <1>1, <2>2, <2>3, ReferTo, Zenon
  <2>5. FreshInv'
    <3>1. \A n \in DOMAIN frames : n > next => frames[n] \notin DOMAIN tables /\ Unused(frames[n])
      BY DEF FrameInv, FreshInv
    <3>2. \A n \in DOMAIN frames : n > next =>
            frames[n] \notin DOMAIN tables' /\ UnusedIn(tables', frames[n])
      BY <2>2, <2>3, <2>4, <3>1
    <3>3. \A n \in DOMAIN frames' : n > next' => frames'[n] \notin DOMAIN tables'
      BY <1>1, <3>2
    <3>4. \A n \in DOMAIN frames' : n > next' => UnusedIn(tables', frames'[n])
      BY <1>1, <3>2
    <3> QED BY <1>1, <3>3, <3>4 DEF FreshInv, Unused
  <2>6. PendingInv'
    BY <2>1 DEF PendingInv
  <2> QED BY <1>1, <2>4, <2>5, <2>6, Zenon DEF FrameInv
<1> QED BY <1>2, <1>3 DEF map_to_entry

-----------------------------------------------------------------------------
(* The inductive invariant holds. *)
THEOREM FrameInvariant == Spec => []FrameInv
<1>1. Init => FrameInv
  <2> SUFFICES ASSUME Init PROVE FrameInv
    OBVIOUS
  <2>1. /\ memory_map \in MemoryMaps /\ boot \in BootTables /\ tables = boot
        /\ next = 0 /\ pc = "kernel_main"
    BY DEF Init
  <2>2. \A t \in DOMAIN tables : tables[t] \in [Index -> EntrySet]
    BY <2>1, BootTablesAssumption, Zenon DEF EntrySet
  <2>6. AddedInv
    BY <2>1, Zenon DEF AddedInv, AddsNoSecondUse, Added
  <2>3. \A f \in Range(frames) : f \notin DOMAIN tables /\ Unused(f)
    BY <2>1, BootTablesAssumption, Zenon DEF frames, Unused, UnusedIn
  <2>4. FreshInv
    BY <2>3 DEF FreshInv, Range
  <2>5. PendingInv
    BY <2>1 DEF PendingInv
  <2> QED BY <2>1, <2>2, <2>4, <2>5, <2>6 DEF FrameInv
<1>2. FrameInv /\ [Next]_vars => FrameInv'
  <2> SUFFICES ASSUME FrameInv, [Next]_vars PROVE FrameInv'
    OBVIOUS
  <2>1. CASE create_example_mapping
    BY <2>1, QuietStep DEF create_example_mapping, map_to
  <2>2. CASE call_init_heap
    BY <2>2, QuietStep DEF call_init_heap
  <2>3. CASE init_heap_done
    BY <2>3, QuietStep DEF init_heap_done
  <2>4. CASE expect
    BY <2>4, QuietStep DEF expect
  <2>5. CASE UNCHANGED vars
    BY <2>5, QuietStep DEF vars
  <2> QED BY <2>1, <2>2, <2>3, <2>4, <2>5, InitHeapPage, CreateNextTable, MapToEntry
          DEF Next
<1> QED BY <1>1, <1>2, PTL DEF Spec

(* The frame allocator's promise of memory.rs:141-142, seen in the page    *)
(* tables: whatever frames the boot loader's tables share, no entry made   *)
(* since gives a second use to a frame, whether allocate_frame was called  *)
(* for a table or for a page, and whether map_to failed before.            *)
THEOREM NoSecondUseAdded == Spec => []AddsNoSecondUse
<1>1. FrameInv => AddsNoSecondUse
  BY Zenon DEF FrameInv, AddedInv
<1> QED BY <1>1, FrameInvariant, PTL

(* If the boot loader's tables are a tree, so are the tables at any time.  *)
LEMMA StaysTree == ASSUME FrameInv PROVE OneUse(tables)
<1>1. OneUse(boot) /\ Cr3 \in DOMAIN boot
  BY BootTreeAssumption, BootTablesAssumption, Zenon DEF FrameInv, AddedInv
<1> SUFFICES ASSUME NEW t \in DOMAIN tables, NEW u \in DOMAIN tables,
                    NEW i \in Index, NEW j \in Index, InUse(tables, t, i)
             PROVE  /\ tables[t][i].frame # Cr3
                    /\ InUse(tables, u, j) /\ tables[u][j].frame = tables[t][i].frame =>
                         (t = u /\ i = j) \/ tables[t][i].frame = VgaFrame
  BY Zenon DEF OneUse
<1>2. ASSUME NEW v \in DOMAIN tables, NEW w \in DOMAIN tables, NEW k \in Index, NEW l \in Index,
             Added(v, k)
      PROVE  /\ tables[v][k].frame # Cr3
             /\ InUse(tables, w, l) /\ tables[w][l].frame = tables[v][k].frame =>
                  (v = w /\ k = l) \/ tables[v][k].frame = VgaFrame
  BY <1>1, <1>2, Zenon DEF FrameInv, AddedInv, AddsNoSecondUse
<1>3. ASSUME NEW v \in DOMAIN tables, NEW k \in Index, InUse(tables, v, k), ~Added(v, k)
      PROVE  v \in DOMAIN boot /\ boot[v][k] = tables[v][k] /\ InUse(boot, v, k)
  BY <1>3, Zenon DEF Added, InUse
<1>4. CASE Added(t, i)
  BY <1>2, <1>4, Zenon
<1>5. CASE ~Added(t, i)
  <2>1. t \in DOMAIN boot /\ boot[t][i] = tables[t][i] /\ InUse(boot, t, i)
    BY <1>3, <1>5, Zenon
  <2>2. tables[t][i].frame # Cr3
    BY <1>1, <2>1, Zenon DEF OneUse
  <2>3. CASE InUse(tables, u, j) /\ Added(u, j)
    BY <1>2, <2>2, <2>3, Zenon
  <2>4. CASE InUse(tables, u, j) /\ ~Added(u, j)
    <3>1. u \in DOMAIN boot /\ boot[u][j] = tables[u][j] /\ InUse(boot, u, j)
      BY <1>3, <2>4, Zenon
    <3>2. boot[u][j].frame = boot[t][i].frame => (t = u /\ i = j) \/ boot[t][i].frame = VgaFrame
      BY <1>1, <2>1, <3>1, Zenon DEF OneUse
    <3> QED BY <2>1, <2>2, <3>1, <3>2, Zenon
  <2> QED BY <2>2, <2>3, <2>4, Zenon
<1> QED BY <1>4, <1>5, Zenon

-----------------------------------------------------------------------------
(* init_heap's progress: the heap's pages before the one it is at have     *)
(* usable frames.                                                          *)
HeapSoFar ==
  /\ page \in heap_start_page .. heap_end_page + 1
  /\ \A p \in heap_start_page .. page - 1 : reach(tables, p, 0) \in Range(frames)

(* map_to is at the table that the walk for its page reaches, and all      *)
(* walks go from table to table.                                           *)
WalkInv ==
  /\ Cr3 \in DOMAIN tables /\ DOMAIN tables \subseteq Frames \ {VgaFrame}
  /\ WalksTables(tables)
  /\ pc = "kernel_main" => page = heap_start_page
  /\ pc = "init_heap" => HeapSoFar
  /\ pc = "heap" => HeapSoFar /\ page = heap_end_page + 1
  /\ pc = "map_to" =>
       /\ level \in 1 .. Levels
       /\ table = reach(tables, page, level) /\ table \in DOMAIN tables
       /\ IF frame = VgaFrame THEN page = ExamplePage
          ELSE HeapSoFar /\ page \in heap_start_page .. heap_end_page

(* The pages of the heap are numbers in order. *)
LEMMA HeapRange ==
  /\ heap_start_page \in Nat /\ heap_end_page \in Nat /\ heap_start_page <= heap_end_page
  /\ heap_start_page .. heap_end_page \subseteq Pages
<1>1. PageSize \in Nat \ {0} /\ HEAP_START \in Nat /\ HEAP_SIZE \in Nat \ {0}
  BY PagesAssumption
<1> DEFINE last == HEAP_START + HEAP_SIZE - 1
<1>2. last \in Nat /\ HEAP_START <= last
  BY <1>1
<1> HIDE DEF last
<1>3. HEAP_START \div PageSize \in Nat /\ last \div PageSize \in Nat
  BY <1>1, <1>2
<1>4. HEAP_START \div PageSize <= last \div PageSize
  BY <1>1, <1>2, DivMonotone
<1> QED BY <1>3, <1>4, PagesAssumption DEF heap_start_page, heap_end_page, last

(* The pages of the heap's addresses are those of page_range. *)
LEMMA PageInHeap == HeapPages = heap_start_page .. heap_end_page
<1> DEFINE last == HEAP_START + HEAP_SIZE - 1
<1>1. /\ PageSize \in Nat \ {0} /\ HEAP_START \in Nat /\ last \in Nat /\ HEAP_START <= last
      /\ HeapAddresses = HEAP_START .. last
  BY PagesAssumption DEF HeapAddresses
<1>2. heap_start_page = HEAP_START \div PageSize /\ heap_end_page = last \div PageSize
  BY DEF heap_start_page, heap_end_page
<1> HIDE DEF last
<1>3. ASSUME NEW a \in HEAP_START .. last
      PROVE  a \div PageSize \in heap_start_page .. heap_end_page
  BY <1>1, <1>2, DivMonotone
<1>4. ASSUME NEW p \in heap_start_page .. heap_end_page
      PROVE  \E a \in HEAP_START .. last : p = a \div PageSize
  <2>1. p \in Nat /\ p * PageSize \in Nat
    BY <1>1, HeapRange
  <2>2. CASE p = heap_start_page
    <3>1. HEAP_START \in HEAP_START .. last
      BY <1>1
    <3> QED BY <1>2, <2>2, <3>1, Zenon
  <2>3. CASE p # heap_start_page
    <3>1. (p * PageSize) \div PageSize = p
      BY <1>1, <2>1
    <3>2. p * PageSize <= last
      <4>1. PageSize * heap_end_page <= last /\ heap_end_page \in Nat
        BY <1>1, <1>2
      <4>2. p = heap_end_page \/ p < heap_end_page
        BY <4>1
      <4>3. p < heap_end_page => p * PageSize + PageSize <= heap_end_page * PageSize
        BY <1>1, <2>1, <4>1, MultiplesApart
      <4>4. heap_end_page * PageSize = PageSize * heap_end_page /\ heap_end_page * PageSize \in Nat
        BY <1>1, <4>1
      <4> QED BY <1>1, <2>1, <4>1, <4>2, <4>3, <4>4
    <3>3. HEAP_START <= p * PageSize
      <4>1. HEAP_START < PageSize * heap_start_page + PageSize /\ heap_start_page \in Nat
        BY <1>1, <1>2
      <4>2. heap_start_page * PageSize + PageSize <= p * PageSize
        BY <1>1, <2>1, <2>3, <4>1, MultiplesApart
      <4>3. heap_start_page * PageSize = PageSize * heap_start_page
            /\ heap_start_page * PageSize \in Nat
        BY <1>1, <4>1
      <4> QED BY <1>1, <2>1, <4>1, <4>2, <4>3
    <3>4. p * PageSize \in HEAP_START .. last
      BY <1>1, <2>1, <3>2, <3>3
    <3> QED BY <3>1, <3>4, Zenon
  <2> QED BY <2>2, <2>3
<1> QED BY <1>1, <1>3, <1>4, Zenon DEF HeapPages

LEMMA SoundTables == ASSUME FrameInv, WalkInv PROVE Sound(tables)
BY StaysTree, Zenon DEF FrameInv, WalkInv, Sound

(* The page that map_to is at is one of the address space. *)
LEMMA PageOfMapTo == ASSUME WalkInv, pc = "map_to" PROVE page \in Pages
BY PagesAssumption, HeapRange DEF WalkInv

(* A new entry takes no frame from a page. *)
LEMMA HeapStays ==
  ASSUME FrameInv, WalkInv, NEW p \in Pages, NEW lv \in 1 .. Levels, NEW f \in Frames,
         NewEntry(tables, tables', p, lv, f), HeapSoFar, page' = page, memory_map' = memory_map
  PROVE  HeapSoFar'
<1>1. frames' = frames
  BY DEF frames
<1>2. page \in Nat /\ heap_start_page \in Nat /\ heap_end_page \in Nat /\ 0 \in 0 .. Levels
  BY HeapRange, PagesAssumption DEF HeapSoFar
<1>3. ASSUME NEW q \in heap_start_page .. page - 1 PROVE reach(tables', q, 0) \in Range(frames)
  <2>1. q \in Pages
    <3>1. q \in heap_start_page .. heap_end_page
      BY <1>2 DEF HeapSoFar
    <3> QED BY <3>1, HeapRange
  <2>2. reach(tables, q, 0) \in Range(frames)
    BY DEF HeapSoFar
  <2>3. reach(tables, q, 0) # NotPresent
    <3>1. Range(frames) \subseteq Frames
      BY UsableFrames DEF Range
    <3> QED BY <2>2, <3>1, MemoryMapAssumption
  <2>4. reach(tables', q, 0) = reach(tables, q, 0)
    BY <1>2, <2>1, <2>3, SoundTables, WalksAfter
  <2> QED BY <2>2, <2>4
<1> QED BY <1>1, <1>3 DEF HeapSoFar

(* create_next_table's new table is a new entry on the walk for its page, *)
LEMMA NewTable ==
  ASSUME FrameInv, WalkInv, pc = "map_to", level > 1,
         tables[table][index(page, level)] = NotPresent,
         NEW f, allocate_frame(f), f # NoFrame,
         tables' = [t \in DOMAIN tables \cup {f} |->
                      IF t = f THEN EmptyTable
                      ELSE IF t = table
                      THEN [tables[t] EXCEPT ![index(page, level)] = Entry(f, FALSE)]
                      ELSE tables[t]]
  PROVE  NewEntry(tables, tables', page, level, f) /\ f \in Frames \ {VgaFrame}
<1>1. f \in Frames \ {VgaFrame} /\ f \notin DOMAIN tables
  BY AllocatedFrame, Zenon
<1>2. table = reach(tables, page, level) /\ table \in DOMAIN tables
  BY Zenon DEF WalkInv
<1>3. DOMAIN tables' = DOMAIN tables \cup {f} /\ tables'[f] = EmptyTable
  OBVIOUS
<1>4. \A u \in DOMAIN tables :
        tables'[u] = IF u = table THEN [tables[u] EXCEPT ![index(page, level)] = Entry(f, FALSE)]
                     ELSE tables[u]
  BY <1>1, Zenon
<1> QED BY <1>1, <1>2, <1>3, <1>4, Zenon DEF NewEntry

(* and so is the page's own at the last level. *)
LEMMA NewMapping ==
  ASSUME FrameInv, WalkInv, pc = "map_to", level = 1,
         tables[table][index(page, 1)] = NotPresent, mapped
  PROVE  /\ NewEntry(tables, tables', page, 1, frame) /\ frame \in Frames
         /\ frame # VgaFrame => frame \in Range(frames) /\ Unused(frame)
<1>1. frame # VgaFrame => frame \in Range(frames) /\ Unused(frame)
  BY DEF FrameInv, PendingInv, Range
<1>2. frame \in Frames
  <2>1. Range(frames) \subseteq Frames /\ VgaFrame \in Frames
    <3>1. \A n \in DOMAIN frames : frames[n] \in Frames
      BY UsableFrames, Zenon
    <3>2. VgaFrame \in Frames
      BY BootTablesAssumption, Zenon
    <3> HIDE DEF frames
    <3> QED BY <3>1, <3>2, Zenon DEF Range
  <2> QED BY <1>1, <2>1
<1>3. table = reach(tables, page, 1) /\ table \in DOMAIN tables
  BY DEF WalkInv
<1>4. tables' = [tables EXCEPT ![table][index(page, 1)] = Entry(frame, FALSE)]
  BY DEF mapped
<1>5. DOMAIN tables' = DOMAIN tables
  BY <1>4
<1>6. \A u \in DOMAIN tables :
        tables'[u] = IF u = table THEN [tables[u] EXCEPT ![index(page, 1)] = Entry(frame, FALSE)]
                     ELSE tables[u]
  BY <1>4, Zenon
<1>7. DOMAIN tables' = DOMAIN tables \cup (IF 1 > 1 THEN {frame} ELSE {})
  BY <1>5
<1>8. NewEntry(tables, tables', page, 1, frame)
  <2>1. ~(1 > 1)
    OBVIOUS
  <2> QED BY <1>3, <1>6, <1>7, <2>1, Zenon DEF NewEntry
<1> QED BY <1>1, <1>2, <1>8

(* Steps that leave the tables alone keep the walks. *)
LEMMA WalkSame ==
  ASSUME WalkInv, tables' = tables, memory_map' = memory_map
  PROVE  /\ Cr3 \in DOMAIN tables' /\ DOMAIN tables' \subseteq Frames \ {VgaFrame}
         /\ WalksTables(tables')
         /\ page' = page /\ HeapSoFar => HeapSoFar'
BY DEF WalkInv, HeapSoFar, frames

LEMMA WalkStopped ==
  ASSUME WalkInv, tables' = tables, memory_map' = memory_map, pc' \in {"error", "panic"}
  PROVE  WalkInv'
BY WalkSame DEF WalkInv

LEMMA WalkInitHeapPage == ASSUME FrameInv, WalkInv, init_heap_page PROVE WalkInv'
<1>1. PICK f : /\ allocate_frame(f)
               /\ IF f = NoFrame
                  THEN pc' = "error" /\ UNCHANGED <<page, frame, level, table>>
                  ELSE map_to(page, f)
  BY DEF init_heap_page
<1>2. /\ tables' = tables /\ memory_map' = memory_map
      /\ pc = "init_heap" /\ page <= heap_end_page
  BY DEF init_heap_page
<1>3. CASE f = NoFrame
  BY <1>1, <1>2, <1>3, WalkStopped
<1>4. CASE f # NoFrame
  <2>1. /\ page' = page /\ frame' = f /\ pc' = "map_to" /\ level' = Levels /\ table' = Cr3
    BY <1>1, <1>4 DEF map_to
  <2>2. f # VgaFrame
    BY <1>1, <1>4, AllocatedFrame
  <2>3. HeapSoFar' /\ page \in heap_start_page .. heap_end_page
    <3>1. HeapSoFar /\ HeapSoFar'
      BY <1>2, <2>1, WalkSame, Zenon DEF WalkInv
    <3>2. page \in heap_start_page .. heap_end_page + 1
      BY <3>1, Zenon DEF HeapSoFar
    <3>3. page \in heap_start_page .. heap_end_page
      <4> HIDE DEF heap_start_page, heap_end_page
      <4> QED BY <1>2, <3>2, HeapRange
    <3> QED BY <3>1, <3>3
  <2>4. Levels \in 1 .. Levels /\ Cr3 = reach(tables', page, Levels)
    BY PagesAssumption, Walk
  <2> QED BY <1>2, <2>1, <2>2, <2>3, <2>4, WalkSame, Zenon DEF WalkInv
<1> QED BY <1>3, <1>4

LEMMA WalkCreateNextTable == ASSUME FrameInv, WalkInv, create_next_table PROVE WalkInv'
<1>1. /\ memory_map' = memory_map /\ page' = page /\ frame' = frame
      /\ pc = "map_to" /\ level > 1
  BY Zenon DEF create_next_table
<1>2. /\ level \in 1 .. Levels /\ Levels \in Nat
      /\ table = reach(tables, page, level) /\ table \in DOMAIN tables
      /\ IF frame = VgaFrame THEN page = ExamplePage
         ELSE HeapSoFar /\ page \in heap_start_page .. heap_end_page
  BY <1>1, PagesAssumption DEF WalkInv
<1>3. page \in Pages /\ level - 1 \in 1 .. Levels
  BY <1>1, <1>2, PageOfMapTo
<1>4. CASE tables' = tables /\ pc' = "error"
  BY <1>1, <1>4, WalkStopped
<1>5. ASSUME NEW f, allocate_frame(f), f # NoFrame,
             tables[table][index(page, level)] = NotPresent,
             tables' = [t \in DOMAIN tables \cup {f} |->
                          IF t = f THEN EmptyTable
                          ELSE IF t = table
                          THEN [tables[t] EXCEPT ![index(page, level)] = Entry(f, FALSE)]
                          ELSE tables[t]],
             pc' = pc, level' = level - 1, table' = f
      PROVE  WalkInv'
  <2>1. NewEntry(tables, tables', page, level, f) /\ f \in Frames
    BY <1>1, <1>5, NewTable, Zenon
  <2>2. /\ Cr3 \in DOMAIN tables' /\ DOMAIN tables' \subseteq Frames \ {VgaFrame}
        /\ WalksTables(tables')
    BY <1>2, <1>3, <2>1, SoundTables, StillWalksTables
  <2>3. f = reach(tables', page, level - 1) /\ f \in DOMAIN tables'
    <3>1. f = reach(tables', page, level - 1)
      BY <1>2, <1>3, <2>1, SoundTables, WalksAfter
    <3>2. f \in DOMAIN tables'
      BY <1>5
    <3> QED BY <3>1, <3>2
  <2>4. HeapSoFar => HeapSoFar'
    BY <1>1, <1>2, <1>3, <2>1, HeapStays
  <2> QED BY <1>1, <1>2, <1>3, <1>5, <2>2, <2>3, <2>4, Zenon DEF WalkInv
<1>6. ASSUME tables[table][index(page, level)] # NotPresent,
             ~tables[table][index(page, level)].huge,
             level' = level - 1, table' = tables[table][index(page, level)].frame,
             tables' = tables, pc' = pc
      PROVE  WalkInv'
  <2>1. /\ Sound(tables) /\ index(page, level) \in Index
        /\ table \notin {NotPresent, HugeFrame}
    BY <1>2, <1>3, SoundTables, AtTable, MemoryMapAssumption, Zenon DEF Sound
  <2>2. table' = reach(tables, page, level - 1)
    <3>1. table' = entry_frame(tables, table, index(page, level))
      BY <1>6, <2>1, Zenon DEF entry_frame
    <3> QED BY <1>2, <3>1, Walk, Zenon
  <2>3. table' \in Frames
    <3>1. tables[table][index(page, level)] \in EntrySet
      BY <1>2, <2>1, Zenon DEF Sound
    <3> QED BY <1>6, <3>1, Zenon DEF EntrySet
  <2>4. table' \in DOMAIN tables
    BY <1>3, <2>1, <2>2, <2>3, AtTable
  <2>5. HeapSoFar => HeapSoFar'
    BY <1>1, <1>6, WalkSame
  <2> QED BY <1>1, <1>2, <1>3, <1>6, <2>2, <2>4, <2>5, WalkSame, Zenon DEF WalkInv
<1> QED BY <1>4, <1>5, <1>6, Zenon DEF create_next_table

LEMMA WalkMapToEntry == ASSUME FrameInv, WalkInv, map_to_entry PROVE WalkInv'
<1>1. memory_map' = memory_map /\ pc = "map_to" /\ level = 1
  BY DEF map_to_entry
<1>2. CASE tables' = tables /\ pc' = "error"
  BY <1>1, <1>2, WalkStopped
<1>3. CASE tables[table][index(page, 1)] = NotPresent /\ mapped
  <2>1. /\ NewEntry(tables, tables', page, 1, frame) /\ frame \in Frames
        /\ frame # VgaFrame => frame \in Range(frames)
    BY <1>1, <1>3, NewMapping
  <2>2. /\ page \in Pages /\ 1 \in 1 .. Levels /\ 0 \in 0 .. Levels /\ Sound(tables)
        /\ heap_start_page \in Nat /\ heap_end_page \in Nat
        /\ heap_start_page <= heap_end_page
    BY <1>1, PageOfMapTo, PagesAssumption, SoundTables, HeapRange
  <2>3. /\ Cr3 \in DOMAIN tables' /\ DOMAIN tables' \subseteq Frames \ {VgaFrame}
        /\ WalksTables(tables')
    BY <2>1, <2>2, StillWalksTables
  <2>4. pc' = "init_heap"
        /\ page' = IF frame = VgaFrame THEN heap_start_page ELSE page + 1
    BY <1>3 DEF mapped
  <2>5. HeapSoFar'
    <3>1. CASE frame = VgaFrame
      BY <2>2, <2>4, <3>1 DEF HeapSoFar
    <3>2. CASE frame # VgaFrame
      <4>1. HeapSoFar /\ page \in heap_start_page .. heap_end_page
        BY <1>1, <3>2 DEF WalkInv
      <4>2. reach(tables', page, 0) = frame
        BY <2>1, <2>2, WalksAfter
      <4>3. ASSUME NEW q \in heap_start_page .. page - 1
            PROVE  reach(tables', q, 0) \in Range(frames)
        <5>1. q \in Pages
          <6>1. q \in heap_start_page .. heap_end_page
            BY <2>2, <4>1
          <6> QED BY <6>1, HeapRange
        <5>2. reach(tables, q, 0) \in Range(frames) /\ Range(frames) \subseteq Frames
          BY <4>1, UsableFrames DEF HeapSoFar, Range
        <5>3. reach(tables, q, 0) # NotPresent
          BY <5>2, MemoryMapAssumption
        <5> QED BY <2>1, <2>2, <5>1, <5>2, <5>3, WalksAfter
      <4>4. \A q \in heap_start_page .. page : q = page \/ q \in heap_start_page .. page - 1
        BY <2>2, <4>1
      <4>5. /\ page' \in heap_start_page .. heap_end_page + 1 /\ page' - 1 = page
        BY <2>2, <2>4, <3>2, <4>1
      <4>6. \A q \in heap_start_page .. page : reach(tables', q, 0) \in Range(frames)
        BY <2>1, <3>2, <4>2, <4>3, <4>4
      <4>7. frames' = frames
        BY <1>1 DEF frames
      <4> QED BY <4>5, <4>6, <4>7, Zenon DEF HeapSoFar
    <3> QED BY <3>1, <3>2
  <2> QED BY <2>3, <2>4, <2>5 DEF WalkInv
<1> QED BY <1>2, <1>3 DEF map_to_entry

(* The inductive invariant with the walks *)
THEOREM WalkInvariant == Spec => [](FrameInv /\ WalkInv)
<1>1. Init => WalkInv
  <2> SUFFICES ASSUME Init PROVE WalkInv
    OBVIOUS
  <2>1. tables \in BootTables /\ pc = "kernel_main" /\ page = heap_start_page
    BY DEF Init
  <2> QED BY <2>1, BootTablesAssumption, Zenon DEF WalkInv
<1>2. FrameInv /\ WalkInv /\ [Next]_vars => WalkInv'
  <2> SUFFICES ASSUME FrameInv, WalkInv, [Next]_vars PROVE WalkInv'
    OBVIOUS
  <2>1. CASE create_example_mapping
    <3>1. /\ tables' = tables /\ memory_map' = memory_map /\ frame' = VgaFrame
          /\ page' = ExamplePage /\ pc' = "map_to" /\ level' = Levels /\ table' = Cr3
      BY <2>1 DEF create_example_mapping, map_to
    <3>2. Levels \in 1 .. Levels /\ Cr3 = reach(tables', page', Levels)
      BY PagesAssumption, Walk
    <3> QED BY <3>1, <3>2, WalkSame, Zenon DEF WalkInv
  <2>2. CASE call_init_heap
    <3>1. /\ tables' = tables /\ memory_map' = memory_map /\ page' = page
          /\ pc' = "init_heap" /\ page = heap_start_page
      BY <2>2 DEF call_init_heap, WalkInv
    <3>2. HeapSoFar
      BY <3>1, HeapRange DEF HeapSoFar
    <3> QED BY <3>1, <3>2, WalkSame DEF WalkInv
  <2>3. CASE init_heap_done
    <3>1. /\ tables' = tables /\ memory_map' = memory_map /\ page' = page
          /\ pc = "init_heap" /\ pc' = "heap" /\ page > heap_end_page
      BY <2>3 DEF init_heap_done
    <3>2. HeapSoFar /\ page = heap_end_page + 1
      BY <3>1, HeapRange DEF WalkInv, HeapSoFar
    <3> QED BY <3>1, <3>2, WalkSame, Zenon DEF WalkInv
  <2>4. CASE expect
    BY <2>4, WalkStopped DEF expect
  <2>5. CASE UNCHANGED vars
    BY <2>5, Zenon DEF vars, WalkInv, HeapSoFar, frames
  <2> QED BY <2>1, <2>2, <2>3, <2>4, <2>5, WalkInitHeapPage, WalkCreateNextTable,
             WalkMapToEntry DEF Next
<1> QED BY <1>1, <1>2, FrameInvariant, PTL DEF Spec

(* allocator.rs:85 is reached only with a heap of memory of its own: each  *)
(* byte of the heap has a usable byte that no other byte of it has.        *)
THEOREM HeapIsMappedAlways == Spec => []HeapIsMapped
<1>1. FrameInv /\ WalkInv => HeapIsMapped
  <2> SUFFICES ASSUME FrameInv, WalkInv, pc = "heap"
               PROVE  /\ \A a \in HeapAddresses :
                           reach(tables, a \div PageSize, 0) \in Range(frames)
                      /\ \A a, b \in HeapAddresses :
                           translate_addr(a) = translate_addr(b) => a = b
    BY DEF HeapIsMapped, frames
  <2>1. PageSize \in Nat \ {0} /\ HeapAddresses \subseteq Nat
    BY PagesAssumption DEF HeapAddresses
  <2>2. \A a \in HeapAddresses : a \div PageSize \in heap_start_page .. heap_end_page
    BY PageInHeap DEF HeapPages
  <2>3. \A p \in heap_start_page .. heap_end_page : reach(tables, p, 0) \in Range(frames)
    <3>1. HeapSoFar /\ page - 1 = heap_end_page
      BY HeapRange DEF WalkInv
    <3> QED BY <3>1 DEF HeapSoFar
  <2>4. ASSUME NEW a \in HeapAddresses, NEW b \in HeapAddresses,
               translate_addr(a) = translate_addr(b)
        PROVE  a = b
    <3> DEFINE p == a \div PageSize
               q == b \div PageSize
               f == reach(tables, p, 0)
               g == reach(tables, q, 0)
               r == a % PageSize
               s == b % PageSize
    <3>1. p \in Pages /\ q \in Pages /\ f \in Range(frames) /\ g \in Range(frames)
      BY <2>2, <2>3, HeapRange
    <3>2. f \in Frames \ {VgaFrame} /\ g \in Frames \ {VgaFrame}
      BY <3>1, UsableFrames, Zenon DEF Range
    <3>3. f \in Nat /\ g \in Nat /\ f \notin {NotPresent, HugeFrame}
          /\ g \notin {NotPresent, HugeFrame}
      BY <3>2, MemoryMapAssumption, Zenon
    <3>4. f * PageSize + r = g * PageSize + s
      BY <2>4, <3>3 DEF translate_addr
    <3>5. r \in 0 .. PageSize - 1 /\ s \in 0 .. PageSize - 1
      BY <2>1
    <3>6. f = g /\ r = s
      <4> HIDE DEF f, g, r, s
      <4> QED BY <2>1, <3>3, <3>4, <3>5, MultipleAndRemainder
    <3>7. p = q
      <4> HIDE DEF p, q, f, g
      <4>1. 0 \in 0 .. Levels /\ p \in Nat /\ q \in Nat
        BY <3>1, PagesAssumption
      <4>2. shifted(p, 0) = shifted(q, 0)
        BY <3>1, <3>2, <3>6, <4>1, SoundTables, UniquePath DEF f, g
      <4> QED BY <4>1, <4>2, Shifts
    <3> QED BY <2>1, <3>6, <3>7, QuotientAndRemainder, Zenon
  <2> QED BY <2>2, <2>3, <2>4
<1> QED BY <1>1, WalkInvariant, PTL

-----------------------------------------------------------------------------
(* Tables that are made for a page change no mapping, *)
LEMMA NewTableMapsNothing ==
  ASSUME FrameInv, WalkInv, NEW p \in Pages, NEW lv \in 2 .. Levels, NEW f \in Frames,
         NewEntry(tables, tables', p, lv, f)
  PROVE  Mapping' = Mapping
<1>1. Levels \in Nat /\ lv \in 1 .. Levels /\ 0 \in 0 .. Levels /\ 0 # lv - 1
  BY PagesAssumption
<1>2. \A q \in Pages : reach(tables', q, 0) = reach(tables, q, 0)
  BY <1>1, SoundTables, WalksAfter
<1>3. Mapped' = Mapped
  BY <1>2 DEF Mapped
<1>4. \A q \in Mapped : q \in Pages
  BY DEF Mapped
<1> QED BY <1>2, <1>3, <1>4 DEF Mapping

(* and the last entry maps its page to a frame that no page has. *)
LEMMA NewPageIsMapped ==
  ASSUME FrameInv, WalkInv, NEW p \in Pages, NEW f \in Frames, f = VgaFrame \/ Unused(f),
         NewEntry(tables, tables', p, 1, f)
  PROVE  AddressSpace!Map(p)
<1>1. /\ Levels \in Nat /\ 1 \in 1 .. Levels /\ 0 \in 0 .. Levels /\ 1 - 1 = 0
      /\ Pages \subseteq Nat
  BY PagesAssumption
<1>2. Sound(tables)
  BY SoundTables
<1>3. f \notin {NotPresent, HugeFrame} /\ NotPresent # HugeFrame
  BY MemoryMapAssumption, BootTablesAssumption, Zenon
<1>4. reach(tables', p, 0) = f /\ reach(tables, p, 0) = NotPresent
  BY <1>1, <1>2, WalksAfter
<1>5. \A q \in Pages : q # p => reach(tables', q, 0) = reach(tables, q, 0)
  <2> SUFFICES ASSUME NEW q \in Pages, q # p
               PROVE  reach(tables', q, 0) = reach(tables, q, 0)
    OBVIOUS
  <2>1. shifted(q, 0) # shifted(p, 0)
    BY <1>1, Shifts
  <2> QED BY <1>1, <1>2, <2>1, WalksAfter
<1>6. p \notin Mapped /\ Mapped \subseteq Pages
  BY <1>4 DEF Mapped
<1>7. Mapped' = Mapped \cup {p}
  BY <1>3, <1>4, <1>5 DEF Mapped
<1>8. DOMAIN Mapping = Mapped /\ \A q \in Mapped : Mapping[q] = reach(tables, q, 0)
  BY DEF Mapping
<1>9. Mapping' = [q \in DOMAIN Mapping \cup {p} |-> IF q = p THEN f ELSE Mapping[q]]
  <2>1. Mapping' = [q \in Mapped \cup {p} |-> reach(tables', q, 0)]
    BY <1>7 DEF Mapping
  <2>2. \A q \in Mapped \cup {p} :
          reach(tables', q, 0) = IF q = p THEN f ELSE Mapping[q]
    BY <1>4, <1>5, <1>6, <1>8
  <2> QED BY <1>8, <2>1, <2>2
<1>10. f \notin Range(Mapping) \ {VgaFrame}
  <2> SUFFICES ASSUME NEW q \in Mapped, reach(tables, q, 0) = f, Unused(f) PROVE FALSE
    BY <1>8, Zenon DEF Range
  <2>1. q \in Pages /\ reach(tables, q, 1 - 1) \in Frames
    BY <1>1, <1>6
  <2>2. /\ reach(tables, q, 1) \in DOMAIN tables
        /\ InUse(tables, reach(tables, q, 1), index(q, 1))
        /\ f = tables[reach(tables, q, 1)][index(q, 1)].frame
    <3>1. /\ reach(tables, q, 1) \in DOMAIN tables
          /\ InUse(tables, reach(tables, q, 1), index(q, 1))
          /\ reach(tables, q, 1 - 1) = tables[reach(tables, q, 1)][index(q, 1)].frame
      BY <1>1, <1>2, <2>1, Parent, Zenon
    <3>2. 1 - 1 = 0
      OBVIOUS
    <3> QED BY <3>1, <3>2, Zenon
  <2>3. index(q, 1) \in Index
    BY <1>1, <2>1, IndexInTable
  <2> QED BY <2>2, <2>3, Zenon DEF Unused, UnusedIn
<1>11. \A q \in Mapped : Mapping[q] \in Frames
  BY <1>1, <1>2, <1>6, <1>8, ReachType DEF Mapped, Stops
<1>12. /\ Mapping' \in [DOMAIN Mapping \cup {p} -> Frames] /\ Mapping'[p] = f
       /\ \A q \in DOMAIN Mapping : Mapping'[q] = Mapping[q]
  <2> HIDE DEF Mapping
  <2>1. p \notin DOMAIN Mapping /\ \A q \in DOMAIN Mapping : Mapping[q] \in Frames
    BY <1>6, <1>8, <1>11
  <2> QED BY <1>9, <2>1
<1> QED BY <1>6, <1>8, <1>10, <1>12, Zenon DEF AddressSpace!Map, AddressSpace!Range, Range

LEMMA MappingStep == FrameInv /\ WalkInv /\ [Next]_vars => [AddressSpace!Next]_Mapping
<1> SUFFICES ASSUME FrameInv, WalkInv, [Next]_vars
             PROVE  AddressSpace!Next \/ UNCHANGED Mapping
  OBVIOUS
<1>1. CASE tables' = tables
  <2>1. Mapped' = Mapped
    BY <1>1 DEF Mapped
  <2> QED BY <1>1, <2>1 DEF Mapping
<1>2. CASE create_next_table /\ tables' # tables
  <2>1. PICK f : /\ allocate_frame(f) /\ f # NoFrame
                 /\ tables' = [t \in DOMAIN tables \cup {f} |->
                                 IF t = f THEN EmptyTable
                                 ELSE IF t = table
                                 THEN [tables[t] EXCEPT ![index(page, level)] = Entry(f, FALSE)]
                                 ELSE tables[t]]
    BY <1>2, Zenon DEF create_next_table
  <2>2. pc = "map_to" /\ level > 1 /\ tables[table][index(page, level)] = NotPresent
    BY <1>2, Zenon DEF create_next_table
  <2>3. level \in 2 .. Levels /\ page \in Pages
    BY <2>2, PageOfMapTo, PagesAssumption DEF WalkInv
  <2>4. NewEntry(tables, tables', page, level, f) /\ f \in Frames
    BY <2>1, <2>2, NewTable, Zenon
  <2> QED BY <2>3, <2>4, NewTableMapsNothing
<1>3. CASE map_to_entry /\ tables' # tables
  <2>1. /\ pc = "map_to" /\ level = 1 /\ tables[table][index(page, 1)] = NotPresent /\ mapped
    BY <1>3 DEF map_to_entry
  <2>2. /\ NewEntry(tables, tables', page, 1, frame) /\ frame \in Frames
        /\ frame = VgaFrame \/ Unused(frame)
    BY <2>1, NewMapping
  <2>3. page \in Pages
    BY <2>1, PageOfMapTo
  <2>4. AddressSpace!Map(page)
    BY <2>2, <2>3, NewPageIsMapped
  <2> QED BY <2>3, <2>4 DEF AddressSpace!Next
<1> QED BY <1>1, <1>2, <1>3
    DEF Next, vars, create_example_mapping, call_init_heap, init_heap_page,
        init_heap_done, expect

(* Setting up the heap implements the abstract address space: each step    *)
(* maps at most one page, which was not mapped, to a frame that no page    *)
(* has, and no table that map_to makes on its way hides or changes another *)
(* page, whether map_to then succeeds or fails.                            *)
THEOREM MemoryImplementsAddressSpace == Spec => ImplementsAddressSpace
<1>1. Init => AddressSpace!Init
  <2> SUFFICES ASSUME Init PROVE AddressSpace!Init
    OBVIOUS
  <2>1. Sound(tables) /\ 0 \in 0 .. Levels
    <3>1. boot \in BootTables /\ tables = boot
      BY DEF Init
    <3>2. Sound(boot)
      BY <3>1, BootTablesAssumption, BootTreeAssumption, Zenon DEF Sound, EntrySet
    <3> QED BY <3>1, <3>2, PagesAssumption
  <2>2. Mapped \subseteq Pages /\ \A q \in Mapped : reach(tables, q, 0) \in Frames
    BY <2>1, ReachType DEF Mapped, Stops
  <2>3. DOMAIN Mapping = Mapped /\ \A q \in Mapped : Mapping[q] = reach(tables, q, 0)
    BY DEF Mapping
  <2> QED BY <2>2, <2>3 DEF AddressSpace!Init, AddressSpace!Range, Range
<1> QED BY <1>1, MappingStep, WalkInvariant, PTL
        DEF Spec, ImplementsAddressSpace, AddressSpace!Spec

-----------------------------------------------------------------------------
(* The tables that a walk for one of the pages lacks in tables bs, and     *)
(* those of them that tables ts have                                       *)
MissingIn(bs, W) ==
  {<<w[1], shifted(w[2], w[1])>> : w \in
     {w \in (1 .. Levels - 1) \X W : reach(bs, w[2], w[1]) = NotPresent}}

MadeIn(bs, ts) ==
  {<<w[1], shifted(w[2], w[1])>> : w \in
     {w \in (1 .. Levels - 1) \X Pages :
        reach(bs, w[2], w[1]) = NotPresent /\ reach(ts, w[2], w[1]) # NotPresent}}

Made == MadeIn(boot, tables)

(* Walks in tables ts get where they got in tables bs, or further. *)
Grown(bs, ts) ==
  \A q \in Pages, l \in 0 .. Levels :
    \/ reach(ts, q, l) = reach(bs, q, l)
    \/ reach(bs, q, l) = NotPresent /\ reach(ts, q, l) \in Frames

(* The frames that init_heap has taken for pages *)
Taken == IF pc # "map_to" THEN page - heap_start_page
         ELSE IF frame = VgaFrame THEN 0 ELSE page - heap_start_page + 1

(* The pages that the kernel may have mapped *)
Own == IF pc = "map_to" /\ frame = VgaFrame THEN {}
       ELSE {ExamplePage} \cup (heap_start_page .. page - 1)

Excuse == \/ Len(frames) < Needed
          \/ \E p \in Wanted : reach(boot, p, 0) # NotPresent

(* Every frame taken so far is a page of the heap's or a missing table. *)
CountInv ==
  /\ Sound(boot) /\ Grown(boot, tables) /\ Made \subseteq MissingTables
  /\ pc = "kernel_main" => tables = boot /\ next = 0 /\ frame = NoFrame
  /\ pc \in {"init_heap", "map_to", "heap"} =>
       /\ next = Cardinality(Made) + Taken
       /\ \A q \in Pages \ Own : reach(tables, q, 0) = reach(boot, q, 0)
  /\ pc \in {"init_heap", "heap"} /\ frame = VgaFrame => ExamplePage \in Mapped
  /\ pc \in {"error", "panic"} => Excuse

LEMMA InMissing ==
  ASSUME NEW bs, NEW W, NEW q \in W, NEW l \in 1 .. Levels - 1, reach(bs, q, l) = NotPresent
  PROVE  <<l, shifted(q, l)>> \in MissingIn(bs, W)
<1> DEFINE w == <<l, q>>
<1>1. w \in (1 .. Levels - 1) \X W /\ w[1] = l /\ w[2] = q
  OBVIOUS
<1> HIDE DEF w
<1> QED BY <1>1 DEF MissingIn

LEMMA OfMissing ==
  ASSUME NEW bs, NEW W, NEW x \in MissingIn(bs, W)
  PROVE  \E q \in W, l \in 1 .. Levels - 1 :
           x = <<l, shifted(q, l)>> /\ reach(bs, q, l) = NotPresent
<1>1. PICK w \in (1 .. Levels - 1) \X W :
        x = <<w[1], shifted(w[2], w[1])>> /\ reach(bs, w[2], w[1]) = NotPresent
  BY DEF MissingIn
<1>2. w[1] \in 1 .. Levels - 1 /\ w[2] \in W
  OBVIOUS
<1> QED BY <1>1, <1>2

LEMMA InMade ==
  ASSUME NEW bs, NEW ts, NEW q \in Pages, NEW l \in 1 .. Levels - 1,
         reach(bs, q, l) = NotPresent, reach(ts, q, l) # NotPresent
  PROVE  <<l, shifted(q, l)>> \in MadeIn(bs, ts)
<1> DEFINE w == <<l, q>>
<1>1. w \in (1 .. Levels - 1) \X Pages /\ w[1] = l /\ w[2] = q
  OBVIOUS
<1> HIDE DEF w
<1> QED BY <1>1 DEF MadeIn

LEMMA OfMade ==
  ASSUME NEW bs, NEW ts, NEW x \in MadeIn(bs, ts)
  PROVE  \E q \in Pages, l \in 1 .. Levels - 1 :
           /\ x = <<l, shifted(q, l)>>
           /\ reach(bs, q, l) = NotPresent /\ reach(ts, q, l) # NotPresent
<1>1. PICK w \in (1 .. Levels - 1) \X Pages :
        /\ x = <<w[1], shifted(w[2], w[1])>>
        /\ reach(bs, w[2], w[1]) = NotPresent /\ reach(ts, w[2], w[1]) # NotPresent
  BY DEF MadeIn
<1>2. w[1] \in 1 .. Levels - 1 /\ w[2] \in Pages
  OBVIOUS
<1> QED BY <1>1, <1>2

(* The heap's pages, and the tables that may be missing for them, are as   *)
(* many as page_range says, and finitely many.                             *)
LEMMA NeededIsFinite ==
  /\ Cardinality(HeapPages) = heap_end_page - heap_start_page + 1
  /\ IsFiniteSet(MissingTables) /\ Cardinality(MissingTables) \in Nat
  /\ Wanted \subseteq Pages
<1>1. /\ heap_start_page \in Nat /\ heap_end_page \in Nat
      /\ heap_start_page <= heap_end_page /\ HeapPages = heap_start_page .. heap_end_page
      /\ HeapPages \subseteq Pages
  BY HeapRange, PageInHeap
<1>2. /\ IsFiniteSet(HeapPages)
      /\ Cardinality(HeapPages) = heap_end_page - heap_start_page + 1
  <2>1. heap_start_page \in Int /\ heap_end_page \in Int /\ ~(heap_start_page > heap_end_page)
    BY <1>1
  <2> QED BY <1>1, <2>1, FS_Interval
<1>3. IsFiniteSet(Wanted) /\ Wanted \subseteq Pages
  <2>1. IsFiniteSet(HeapPages \cup {ExamplePage})
    BY <1>2, FS_AddElement
  <2>2. Wanted \subseteq HeapPages \cup {ExamplePage} /\ ExamplePage \in Pages
    BY PagesAssumption DEF Wanted
  <2> QED BY <1>1, <2>1, <2>2, FS_Subset, Zenon
<1> DEFINE S == {w \in (1 .. Levels - 1) \X Wanted : reach(boot, w[2], w[1]) = NotPresent}
           g == [w \in S |-> <<w[1], shifted(w[2], w[1])>>]
<1>4. IsFiniteSet(S)
  <2>1. IsFiniteSet(1 .. Levels - 1)
    <3>1. 1 \in Int /\ Levels - 1 \in Int
      BY PagesAssumption
    <3> QED BY <3>1, FS_Interval
  <2>2. IsFiniteSet((1 .. Levels - 1) \X Wanted)
    BY <1>3, <2>1, FS_Product, Zenon
  <2> QED BY <2>2, FS_Subset
<1>5. g \in Surjection(S, MissingTables)
  <2>1. MissingTables = {<<w[1], shifted(w[2], w[1])>> : w \in S}
    BY DEF MissingTables
  <2> QED BY <2>1, Zenon DEF Surjection
<1>6. IsFiniteSet(MissingTables)
  BY <1>4, <1>5, FS_Surjection
<1> QED BY <1>2, <1>3, <1>6, FS_CardinalityType

LEMMA MissingTablesDef == MissingTables = MissingIn(boot, Wanted)
BY DEF MissingTables, MissingIn

(* A walk that has stopped stays there. *)
LEMMA StopsStay ==
  ASSUME NEW ts, Sound(ts), NEW p \in Pages, NEW l \in 0 .. Levels, reach(ts, p, l) \in Stops
  PROVE  reach(ts, p, 0) = reach(ts, p, l)
<1> DEFINE T == {m \in 0 .. Levels : reach(ts, p, m) \in Stops =>
                                       reach(ts, p, 0) = reach(ts, p, m)}
<1>1. Levels \in Nat
  BY PagesAssumption
<1>2. 0 \in T
  BY <1>1
<1>3. ASSUME NEW m \in 1 .. Levels, m - 1 \in T PROVE m \in T
  BY <1>1, <1>3, AtTable
<1>4. 0 .. Levels \subseteq T
  <2> HIDE DEF T
  <2> QED BY <1>1, <1>2, <1>3, UpTo
<1> QED BY <1>4

(* What there is to do is not less than what was done. *)
LEMMA MadeIsFinite ==
  ASSUME CountInv
  PROVE  /\ IsFiniteSet(Made) /\ Cardinality(Made) \in Nat
         /\ Cardinality(Made) <= Cardinality(MissingTables)
         /\ \A x \in MissingTables : x \notin Made =>
              Cardinality(Made) + 1 <= Cardinality(MissingTables)
<1>1. Made \subseteq MissingTables /\ IsFiniteSet(MissingTables)
  BY NeededIsFinite DEF CountInv
<1>2. /\ IsFiniteSet(Made) /\ Cardinality(Made) \in Nat
      /\ Cardinality(Made) <= Cardinality(MissingTables)
  BY <1>1, FS_Subset, FS_CardinalityType
<1>3. ASSUME NEW x \in MissingTables, x \notin Made
      PROVE  Cardinality(Made) + 1 <= Cardinality(MissingTables)
  <2>1. Cardinality(Made \cup {x}) = Cardinality(Made) + 1
    BY <1>2, <1>3, FS_AddElement, Zenon
  <2>2. Made \cup {x} \in SUBSET MissingTables
    BY <1>1, <1>3
  <2> QED BY <1>1, <2>1, <2>2, FS_Subset
<1> QED BY <1>2, <1>3

(* Page tables that grow keep what was wanted and mapped. *)
LEMMA WantedGrows ==
  ASSUME boot' = boot, Mapped \subseteq Mapped',
         frame = VgaFrame => frame' = VgaFrame \/ ExamplePage \in Mapped
  PROVE  Wanted \subseteq Wanted' /\ MissingTables \subseteq MissingTables'
<1>1. Wanted \subseteq Wanted'
  BY DEF Wanted, HeapPages
<1>2. \A x \in MissingIn(boot, Wanted) : x \in MissingIn(boot, Wanted')
  BY <1>1, OfMissing, InMissing
<1>3. MissingTables = MissingIn(boot, Wanted)
  BY MissingTablesDef
<1>4. MissingTables' = MissingIn(boot, Wanted')
  BY DEF MissingTables, MissingIn
<1> QED BY <1>1, <1>2, <1>3, <1>4

LEMMA SameMapped == ASSUME tables' = tables PROVE Mapped' = Mapped
BY DEF Mapped

(* Steps that leave the tables, the boot loader's and the wish for the     *)
(* example's page alone                                                    *)
LEMMA CountSame ==
  ASSUME CountInv, tables' = tables, boot' = boot,
         frame = VgaFrame => frame' = VgaFrame \/ ExamplePage \in Mapped
  PROVE  /\ Sound(boot') /\ Grown(boot', tables') /\ Made' = Made
         /\ Made' \subseteq MissingTables'
<1>1. MissingTables \subseteq MissingTables'
  BY SameMapped, WantedGrows
<1>2. Made' = Made
  BY DEF Made
<1> QED BY <1>1, <1>2 DEF CountInv

LEMMA CountStopped ==
  ASSUME CountInv, tables' = tables, boot' = boot, frame' = frame,
         pc' \in {"error", "panic"}, Excuse'
  PROVE  CountInv'
BY CountSame, Zenon DEF CountInv

LEMMA SameExcuse ==
  ASSUME tables' = tables, boot' = boot, frame' = frame, memory_map' = memory_map
  PROVE  /\ Wanted' = Wanted /\ Excuse' = Excuse
         /\ MissingTables' = MissingTables /\ Needed' = Needed /\ frames' = frames
<1>1. Wanted' = Wanted
  BY SameMapped DEF Wanted, HeapPages
<1>2. MissingTables' = MissingTables
  BY <1>1, Zenon DEF MissingTables
<1>3. Needed' = Needed
  BY <1>2 DEF Needed, HeapPages
<1>4. frames' = frames
  BY DEF frames
<1> QED BY <1>1, <1>2, <1>3, <1>4 DEF Excuse

(* The frames of the usable regions that are left, when there are none *)
LEMMA NoFrameLeft ==
  ASSUME FrameInv, allocate_frame(NoFrame)
  PROVE  Len(frames) <= next /\ Len(frames) \in Nat /\ next \in Nat
<1>1. next \in Nat /\ Len(frames) \in Nat
  BY UsableFrames DEF FrameInv
<1>2. NoFrame \notin Frames
  BY MemoryMapAssumption
<1>3. ~(next < Len(frames))
  <2> SUFFICES ASSUME next < Len(frames) PROVE FALSE
    OBVIOUS
  <2>1. NoFrame = frames[next + 1]
    BY DEF allocate_frame, frames
  <2>2. next + 1 \in DOMAIN frames
    BY <1>1, UsableFrames
  <2> QED BY <1>2, <2>1, <2>2, UsableFrames
<1> QED BY <1>1, <1>3

LEMMA CountInitHeapPage == ASSUME FrameInv, WalkInv, CountInv, init_heap_page PROVE CountInv'
<1>1. PICK f : /\ allocate_frame(f)
               /\ IF f = NoFrame
                  THEN pc' = "error" /\ UNCHANGED <<page, frame, level, table>>
                  ELSE map_to(page, f)
  BY DEF init_heap_page
<1>2. /\ tables' = tables /\ memory_map' = memory_map /\ boot' = boot
      /\ pc = "init_heap" /\ page <= heap_end_page /\ next' = next + 1
  BY <1>1 DEF init_heap_page, allocate_frame
<1>3. /\ next = Cardinality(Made) + (page - heap_start_page)
      /\ \A q \in Pages \ Own : reach(tables, q, 0) = reach(boot, q, 0)
      /\ frame = VgaFrame => ExamplePage \in Mapped
  BY <1>2 DEF CountInv, Taken
<1>4. /\ page \in Nat /\ heap_start_page \in Nat /\ heap_end_page \in Nat
      /\ heap_start_page <= page /\ Cardinality(Made) \in Nat
      /\ Cardinality(MissingTables) \in Nat
      /\ Cardinality(Made) <= Cardinality(MissingTables)
      /\ Cardinality(HeapPages) = heap_end_page - heap_start_page + 1
  <2>1. page \in heap_start_page .. heap_end_page + 1
    BY <1>2, Zenon DEF WalkInv, HeapSoFar
  <2>2. heap_start_page \in Nat /\ heap_end_page \in Nat
    BY HeapRange, Zenon
  <2>3. page \in Nat /\ heap_start_page <= page
    BY <2>1, <2>2
  <2>4. Cardinality(Made) \in Nat /\ Cardinality(Made) <= Cardinality(MissingTables)
    BY MadeIsFinite, Zenon
  <2>5. /\ Cardinality(MissingTables) \in Nat
        /\ Cardinality(HeapPages) = heap_end_page - heap_start_page + 1
    BY NeededIsFinite, Zenon
  <2> QED BY <2>2, <2>3, <2>4, <2>5, Zenon
<1>5. CASE f = NoFrame
  <2>1. pc' = "error" /\ frame' = frame
    BY <1>1, <1>5
  <2>2. Len(frames) <= next /\ Len(frames) \in Nat
    BY <1>1, <1>5, NoFrameLeft
  <2>3. Len(frames) < Needed
    BY <1>2, <1>3, <1>4, <2>2 DEF Needed
  <2>4. Excuse'
    BY <1>2, <2>1, <2>3, SameExcuse DEF Excuse
  <2> QED BY <1>2, <2>1, <2>4, CountStopped
<1>6. CASE f # NoFrame
  <2>1. /\ page' = page /\ frame' = f /\ pc' = "map_to" /\ f # VgaFrame
    BY <1>1, <1>6, AllocatedFrame, Zenon DEF map_to
  <2>2. /\ Sound(boot') /\ Grown(boot', tables') /\ Made' = Made
        /\ Made' \subseteq MissingTables'
    BY <1>2, <1>3, CountSame
  <2>3. next' = Cardinality(Made') + Taken'
    <3>1. Taken' = page - heap_start_page + 1
      BY <2>1 DEF Taken
    <3> QED BY <1>2, <1>3, <1>4, <2>2, <3>1
  <2>4. Own' = Own
    BY <1>2, <2>1 DEF Own
  <2> QED BY <1>2, <1>3, <2>1, <2>2, <2>3, <2>4, Zenon DEF CountInv
<1> QED BY <1>5, <1>6

(* A new entry changes no walk but from nothing to its frame. *)
WalkChanges(ts, us, p, lv, f) ==
  \A q \in Pages, l \in 0 .. Levels :
    \/ reach(us, q, l) = reach(ts, q, l)
    \/ /\ l = lv - 1 /\ shifted(q, l) = shifted(p, l)
       /\ reach(us, q, l) = f /\ reach(ts, q, l) = NotPresent

LEMMA WalksChange ==
  ASSUME NEW ts, Sound(ts), NEW us, NEW p \in Pages, NEW lv \in 1 .. Levels,
         NEW f \in Frames, NewEntry(ts, us, p, lv, f)
  PROVE  WalkChanges(ts, us, p, lv, f)
<1>1. ASSUME NEW q \in Pages, NEW l \in 0 .. Levels
      PROVE  \/ reach(us, q, l) = reach(ts, q, l)
             \/ /\ l = lv - 1 /\ shifted(q, l) = shifted(p, l)
                /\ reach(us, q, l) = f /\ reach(ts, q, l) = NotPresent
  BY WalksAfter
<1> QED BY <1>1, Zenon DEF WalkChanges

(* A new entry leaves walks where they were in the boot loader's tables or *)
(* further, and mapped pages mapped.                                       *)
LEMMA GrownStays ==
  ASSUME FrameInv, WalkInv, CountInv, NEW p \in Pages, NEW lv \in 1 .. Levels,
         NEW f \in Frames, NewEntry(tables, tables', p, lv, f), boot' = boot
  PROVE  /\ Grown(boot', tables') /\ Mapped \subseteq Mapped'
         /\ reach(boot, p, lv - 1) = NotPresent
<1>1. /\ Sound(tables) /\ Levels \in Nat /\ 0 \in 0 .. Levels /\ lv - 1 \in 0 .. Levels
      /\ NotPresent \notin Frames
  BY SoundTables, PagesAssumption, MemoryMapAssumption
<1>2. \A q \in Pages, l \in 0 .. Levels :
        \/ reach(tables', q, l) = reach(tables, q, l)
        \/ reach(tables', q, l) \in Frames /\ reach(tables, q, l) = NotPresent
  <2>1. WalkChanges(tables, tables', p, lv, f)
    BY <1>1, WalksChange, Zenon
  <2> QED BY <2>1, Zenon DEF WalkChanges
<1>3. \A q \in Pages, l \in 0 .. Levels :
        reach(tables, q, l) = NotPresent => reach(boot, q, l) = NotPresent
  BY <1>1, Zenon DEF CountInv, Grown
<1>4. Grown(boot', tables')
  BY <1>2, <1>3, Zenon DEF CountInv, Grown
<1>5. Mapped \subseteq Mapped'
  BY <1>1, <1>2 DEF Mapped
<1>6. reach(boot, p, lv - 1) = NotPresent
  <2>1. reach(tables, p, lv - 1) = NotPresent
    BY <1>1, WalksAfter
  <2> QED BY <1>1, <1>3, <2>1
<1> QED BY <1>4, <1>5, <1>6

(* The table that map_to is about to make was not made before. *)
LEMMA NotMadeYet ==
  ASSUME FrameInv, WalkInv, CountInv, pc = "map_to", level > 1,
         reach(tables, page, level - 1) = NotPresent
  PROVE  /\ page \in Wanted /\ level - 1 \in 1 .. Levels - 1
         /\ <<level - 1, shifted(page, level - 1)>> \in MissingTables \ Made
<1>1. /\ level - 1 \in 1 .. Levels - 1 /\ level - 1 \in 0 .. Levels /\ Levels \in Nat
  BY PagesAssumption DEF WalkInv
<1>2. page \in Pages /\ page \in Wanted
  BY PageOfMapTo, PageInHeap DEF WalkInv, Wanted
<1>3. reach(boot, page, level - 1) = NotPresent
  BY <1>1, <1>2, MemoryMapAssumption, Zenon DEF CountInv, Grown
<1>4. <<level - 1, shifted(page, level - 1)>> \in MissingTables
  BY <1>1, <1>2, <1>3, InMissing, MissingTablesDef
<1>5. ASSUME <<level - 1, shifted(page, level - 1)>> \in Made PROVE FALSE
  <2>1. PICK q \in Pages, l \in 1 .. Levels - 1 :
          /\ <<level - 1, shifted(page, level - 1)>> = <<l, shifted(q, l)>>
          /\ reach(tables, q, l) # NotPresent
    BY <1>5, OfMade DEF Made
  <2>2. l = level - 1 /\ shifted(q, l) = shifted(page, l)
    BY <2>1
  <2>3. reach(tables, q, l) = reach(tables, page, l)
    BY <1>1, <1>2, <2>2, SharedPath
  <2> QED BY <2>1, <2>2, <2>3
<1> QED BY <1>1, <1>2, <1>4, <1>5

(* One more table is made. *)
LEMMA MadeGrows ==
  ASSUME FrameInv, WalkInv, CountInv, pc = "map_to", level > 1, NEW f \in Frames,
         NewEntry(tables, tables', page, level, f), boot' = boot, frame' = frame
  PROVE  /\ Made' \subseteq MissingTables' /\ Cardinality(Made') = Cardinality(Made) + 1
<1> DEFINE x == <<level - 1, shifted(page, level - 1)>>
<1>1. /\ Sound(tables) /\ Levels \in Nat /\ level \in 1 .. Levels /\ page \in Pages
      /\ level - 1 \in 1 .. Levels - 1 /\ NotPresent \notin Frames
  <2>1. Sound(tables) /\ page \in Pages
    BY SoundTables, PageOfMapTo, Zenon
  <2>2. level \in 1 .. Levels
    BY Zenon DEF WalkInv
  <2>3. Levels \in Nat
    BY PagesAssumption, Zenon
  <2>4. level - 1 \in 1 .. Levels - 1
    BY <2>2, <2>3
  <2>5. NotPresent \notin Frames
    BY MemoryMapAssumption, Zenon
  <2> QED BY <2>1, <2>2, <2>3, <2>4, <2>5, Zenon
<1>2. /\ reach(tables', page, level - 1) = f
      /\ reach(tables, page, level - 1) = NotPresent
  BY <1>1, WalksAfter
<1>3. /\ reach(boot, page, level - 1) = NotPresent /\ Mapped \subseteq Mapped'
  BY <1>1, GrownStays
<1>4. x \in MissingTables \ Made
  BY <1>2, NotMadeYet
<1>5. \A q \in Pages, l \in 1 .. Levels - 1 :
        \/ reach(tables', q, l) = reach(tables, q, l)
        \/ <<l, shifted(q, l)>> = x /\ reach(tables, q, l) = NotPresent
  <2> SUFFICES ASSUME NEW q \in Pages, NEW l \in 1 .. Levels - 1
               PROVE  \/ reach(tables', q, l) = reach(tables, q, l)
                      \/ <<l, shifted(q, l)>> = x /\ reach(tables, q, l) = NotPresent
    OBVIOUS
  <2>1. l \in 0 .. Levels
    BY <1>1
  <2>2. \/ reach(tables', q, l) = reach(tables, q, l)
        \/ /\ l = level - 1 /\ shifted(q, l) = shifted(page, l)
           /\ reach(tables, q, l) = NotPresent
    <3>1. WalkChanges(tables, tables', page, level, f)
      BY <1>1, WalksChange, Zenon
    <3> QED BY <2>1, <3>1, Zenon DEF WalkChanges
  <2> QED BY <2>2
<1> HIDE DEF x
<1>6. ASSUME NEW y \in Made' PROVE y \in Made \cup {x}
  <2>1. y \in MadeIn(boot, tables')
    BY <1>6 DEF Made
  <2>2. PICK q \in Pages, l \in 1 .. Levels - 1 :
          /\ y = <<l, shifted(q, l)>>
          /\ reach(boot, q, l) = NotPresent /\ reach(tables', q, l) # NotPresent
    BY <2>1, OfMade
  <2>3. CASE y = x
    BY <2>3
  <2>4. CASE y # x
    <3>1. reach(tables, q, l) # NotPresent
      BY <1>5, <2>2, <2>4
    <3> QED BY <2>2, <3>1, InMade DEF Made
  <2> QED BY <2>3, <2>4
<1>7. ASSUME NEW y \in Made PROVE y \in Made'
  <2>1. PICK q \in Pages, l \in 1 .. Levels - 1 :
          /\ y = <<l, shifted(q, l)>>
          /\ reach(boot, q, l) = NotPresent /\ reach(tables, q, l) # NotPresent
    BY <1>7, OfMade DEF Made
  <2>2. reach(tables', q, l) # NotPresent
    BY <1>5, <2>1
  <2>3. y \in MadeIn(boot, tables')
    BY <2>1, <2>2, InMade
  <2> QED BY <2>3 DEF Made
<1>8. x \in Made'
  <2>1. x \in MadeIn(boot, tables')
    BY <1>1, <1>2, <1>3, InMade DEF x
  <2> QED BY <2>1 DEF Made
<1>9. Made' = Made \cup {x}
  BY <1>6, <1>7, <1>8
<1>10. Cardinality(Made') = Cardinality(Made) + 1
  BY <1>4, <1>9, MadeIsFinite, FS_AddElement
<1>11. MissingTables \subseteq MissingTables'
  BY <1>3, WantedGrows
<1> QED BY <1>4, <1>9, <1>10, <1>11 DEF CountInv

LEMMA CountCreateNextTable ==
  ASSUME FrameInv, WalkInv, CountInv, create_next_table PROVE CountInv'
<1>1. /\ memory_map' = memory_map /\ page' = page /\ frame' = frame /\ boot' = boot
      /\ pc = "map_to" /\ level > 1
  BY Zenon DEF create_next_table
<1>2. /\ Sound(tables) /\ Levels \in Nat /\ level \in 1 .. Levels /\ page \in Pages
      /\ level - 1 \in 0 .. Levels /\ table = reach(tables, page, level)
      /\ table \in DOMAIN tables /\ index(page, level) \in Index
  <2>1. Sound(tables) /\ page \in Pages
    BY <1>1, SoundTables, PageOfMapTo, Zenon
  <2>2. level \in 1 .. Levels /\ table = reach(tables, page, level) /\ table \in DOMAIN tables
    BY <1>1, Zenon DEF WalkInv
  <2>3. Levels \in Nat
    BY PagesAssumption, Zenon
  <2>4. level - 1 \in 0 .. Levels
    BY <2>2, <2>3
  <2>5. index(page, level) \in Index
    BY <2>1, <2>2, AtTable, Zenon
  <2> QED BY <2>1, <2>2, <2>3, <2>4, <2>5, Zenon
<1>3. /\ next = Cardinality(Made) + Taken
      /\ \A q \in Pages \ Own : reach(tables, q, 0) = reach(boot, q, 0)
  BY <1>1 DEF CountInv
<1>4. reach(tables, page, level - 1) = entry_frame(tables, table, index(page, level))
  BY <1>2, Walk, Zenon
<1>5. Taken \in Nat /\ Taken <= Cardinality(HeapPages)
  <2>1. /\ heap_start_page \in Nat /\ heap_end_page \in Nat
        /\ Cardinality(HeapPages) = heap_end_page - heap_start_page + 1
        /\ heap_start_page <= heap_end_page
    BY HeapRange, NeededIsFinite
  <2>2. frame # VgaFrame => page \in heap_start_page .. heap_end_page
    BY <1>1 DEF WalkInv
  <2> QED BY <1>1, <2>1, <2>2 DEF Taken
<1>6. ASSUME tables[table][index(page, level)] = NotPresent, allocate_frame(NoFrame),
             pc' = "error", tables' = tables
      PROVE  CountInv'
  <2>1. reach(tables, page, level - 1) = NotPresent
    BY <1>2, <1>4, <1>6, EntryFrame, Zenon
  <2>2. /\ Cardinality(Made) + 1 <= Cardinality(MissingTables)
        /\ Cardinality(Made) \in Nat /\ Cardinality(MissingTables) \in Nat
    BY <1>1, <2>1, NotMadeYet, MadeIsFinite, NeededIsFinite
  <2>3. Len(frames) <= next /\ Len(frames) \in Nat
    BY <1>6, NoFrameLeft
  <2>4. Cardinality(HeapPages) \in Nat
    BY HeapRange, NeededIsFinite
  <2>5. Len(frames) < Needed
    BY <1>3, <1>5, <2>2, <2>3, <2>4 DEF Needed
  <2>6. Excuse'
    BY <1>1, <1>6, <2>5, SameExcuse DEF Excuse
  <2> QED BY <1>1, <1>6, <2>6, CountStopped
<1>7. ASSUME NEW f, allocate_frame(f), f # NoFrame,
             tables[table][index(page, level)] = NotPresent,
             tables' = [t \in DOMAIN tables \cup {f} |->
                          IF t = f THEN EmptyTable
                          ELSE IF t = table
                          THEN [tables[t] EXCEPT ![index(page, level)] = Entry(f, FALSE)]
                          ELSE tables[t]],
             pc' = pc
      PROVE  CountInv'
  <2>1. NewEntry(tables, tables', page, level, f) /\ f \in Frames
    BY <1>1, <1>7, NewTable, Zenon
  <2>2. Made' \subseteq MissingTables' /\ Cardinality(Made') = Cardinality(Made) + 1
    BY <1>1, <2>1, MadeGrows
  <2>3. Grown(boot', tables') /\ Sound(boot')
    BY <1>1, <1>2, <2>1, GrownStays, Zenon DEF CountInv
  <2>4. next' = next + 1 /\ Taken' = Taken /\ Own' = Own
    BY <1>1, <1>7, Zenon DEF allocate_frame, Taken, Own
  <2>5. next' = Cardinality(Made') + Taken'
    BY <1>3, <1>5, <2>2, <2>4, MadeIsFinite
  <2>6. \A q \in Pages : reach(tables', q, 0) = reach(tables, q, 0)
    <3>1. 0 \in 0 .. Levels /\ 0 # level - 1
      BY <1>1, <1>2
    <3>2. WalkChanges(tables, tables', page, level, f)
      BY <1>1, <1>2, <2>1, WalksChange, Zenon DEF CountInv
    <3> QED BY <3>1, <3>2, Zenon DEF WalkChanges
  <2> QED BY <1>1, <1>3, <1>7, <2>2, <2>3, <2>4, <2>5, <2>6, Zenon DEF CountInv
<1>8. ASSUME tables[table][index(page, level)] # NotPresent,
             tables[table][index(page, level)].huge, pc' = "error", tables' = tables
      PROVE  CountInv'
  <2>1. table \notin {NotPresent, HugeFrame}
    BY <1>2, MemoryMapAssumption, Zenon DEF Sound
  <2>2. reach(tables, page, level - 1) = HugeFrame
    BY <1>4, <1>8, <2>1, Zenon DEF entry_frame
  <2>3. HugeFrame \notin Frames /\ HugeFrame # NotPresent
    BY MemoryMapAssumption, BootTablesAssumption, Zenon
  <2>4. reach(boot, page, level - 1) = HugeFrame
    BY <1>2, <2>2, <2>3, Zenon DEF CountInv, Grown
  <2>5. reach(boot, page, 0) # NotPresent
    <3>1. Sound(boot) /\ HugeFrame \in Stops
      BY DEF CountInv, Stops
    <3> QED BY <1>2, <2>3, <2>4, <3>1, StopsStay
  <2>6. page \in Wanted
    BY <1>1, PageInHeap DEF WalkInv, Wanted
  <2>7. Excuse'
    BY <1>1, <1>8, <2>5, <2>6, SameExcuse DEF Excuse
  <2> QED BY <1>1, <1>8, <2>7, CountStopped
<1>9. ASSUME tables' = tables, pc' = pc, next' = next PROVE CountInv'
  <2>1. /\ Sound(boot') /\ Grown(boot', tables') /\ Made' = Made
        /\ Made' \subseteq MissingTables'
    BY <1>1, <1>9, CountSame
  <2>2. Taken' = Taken /\ Own' = Own
    BY <1>1, <1>9 DEF Taken, Own
  <2> QED BY <1>1, <1>3, <1>9, <2>1, <2>2, Zenon DEF CountInv
<1> QED BY <1>6, <1>7, <1>8, <1>9, Zenon DEF create_next_table

LEMMA CountMapToEntry == ASSUME FrameInv, WalkInv, CountInv, map_to_entry PROVE CountInv'
<1>1. /\ memory_map' = memory_map /\ frame' = frame /\ boot' = boot /\ next' = next
      /\ pc = "map_to" /\ level = 1
  BY DEF map_to_entry
<1>2. /\ Sound(tables) /\ Levels \in Nat /\ 1 \in 1 .. Levels /\ page \in Pages
      /\ 0 \in 0 .. Levels /\ 1 - 1 = 0 /\ table = reach(tables, page, 1)
      /\ table \in DOMAIN tables /\ index(page, 1) \in Index
  <2>1. /\ Sound(tables) /\ Levels \in Nat /\ 1 \in 1 .. Levels /\ page \in Pages
        /\ 0 \in 0 .. Levels /\ 1 - 1 = 0 /\ table = reach(tables, page, 1)
        /\ table \in DOMAIN tables
    <3>1. Sound(tables) /\ page \in Pages
      BY <1>1, SoundTables, PageOfMapTo, Zenon
    <3>2. table = reach(tables, page, 1) /\ table \in DOMAIN tables
      BY <1>1, Zenon DEF WalkInv
    <3>3. Levels \in Nat /\ 1 \in 1 .. Levels /\ 0 \in 0 .. Levels /\ 1 - 1 = 0
      BY PagesAssumption
    <3> QED BY <3>1, <3>2, <3>3, Zenon
  <2> QED BY <2>1, AtTable
<1>3. /\ next = Cardinality(Made) + Taken
      /\ \A q \in Pages \ Own : reach(tables, q, 0) = reach(boot, q, 0)
  BY <1>1 DEF CountInv
<1>4. /\ heap_start_page \in Nat /\ heap_end_page \in Nat
      /\ IF frame = VgaFrame THEN page = ExamplePage
         ELSE page \in heap_start_page .. heap_end_page /\ page # ExamplePage
  BY <1>1, HeapRange, PagesAssumption DEF WalkInv
<1>5. ASSUME tables[table][index(page, 1)] # NotPresent, pc' = "error", tables' = tables
      PROVE  CountInv'
  <2>1. reach(tables, page, 0) # NotPresent
    <3>1. reach(tables, page, 1 - 1) = entry_frame(tables, table, index(page, 1))
      BY <1>2, Walk, Zenon
    <3>2. entry_frame(tables, table, index(page, 1)) # NotPresent
      BY <1>2, <1>5, EntryFrame, Zenon
    <3> QED BY <1>2, <3>1, <3>2
  <2>2. page \notin Own
    BY <1>1, <1>4 DEF Own
  <2>3. reach(boot, page, 0) # NotPresent
    BY <1>2, <1>3, <2>1, <2>2
  <2>4. page \in Wanted
    BY <1>4, PageInHeap DEF Wanted
  <2>5. Excuse'
    BY <1>1, <1>5, <2>3, <2>4, SameExcuse DEF Excuse
  <2> QED BY <1>1, <1>5, <2>5, CountStopped
<1>6. ASSUME tables[table][index(page, 1)] = NotPresent, mapped PROVE CountInv'
  <2>1. NewEntry(tables, tables', page, 1, frame) /\ frame \in Frames
    BY <1>1, <1>6, NewMapping
  <2>2. /\ pc' = "init_heap"
        /\ page' = IF frame = VgaFrame THEN heap_start_page ELSE page + 1
    BY <1>6 DEF mapped
  <2>3. /\ Grown(boot', tables') /\ Mapped \subseteq Mapped' /\ Sound(boot')
    BY <1>1, <1>2, <2>1, GrownStays, Zenon DEF CountInv
  <2>4. \A q \in Pages, l \in 0 .. Levels :
          l # 0 \/ q # page => reach(tables', q, l) = reach(tables, q, l)
    <3> SUFFICES ASSUME NEW q \in Pages, NEW l \in 0 .. Levels, l # 0 \/ q # page
                 PROVE  reach(tables', q, l) = reach(tables, q, l)
      OBVIOUS
    <3>1. shifted(q, 0) = q /\ shifted(page, 0) = page
      BY <1>2, PagesAssumption, Shifts
    <3>2. 1 \in 1 .. Levels /\ 1 - 1 = 0
      BY PagesAssumption
    <3>3. WalkChanges(tables, tables', page, 1, frame)
      BY <1>2, <2>1, <3>2, WalksChange, Zenon
    <3>4. reach(tables', q, l) # reach(tables, q, l) => l = 0 /\ shifted(q, l) = shifted(page, l)
      BY <3>2, <3>3, Zenon DEF WalkChanges
    <3> QED BY <3>1, <3>4, Zenon
  <2>5. Made' = Made
    <3>1. \A x \in MadeIn(boot, tables') : x \in MadeIn(boot, tables)
      <4> SUFFICES ASSUME NEW x \in MadeIn(boot, tables') PROVE x \in MadeIn(boot, tables)
        OBVIOUS
      <4>1. PICK q \in Pages, l \in 1 .. Levels - 1 :
              /\ x = <<l, shifted(q, l)>>
              /\ reach(boot, q, l) = NotPresent /\ reach(tables', q, l) # NotPresent
        BY OfMade
      <4>2. reach(tables, q, l) # NotPresent
        BY <1>2, <2>4, <4>1
      <4> QED BY <4>1, <4>2, InMade
    <3>2. \A x \in MadeIn(boot, tables) : x \in MadeIn(boot, tables')
      <4> SUFFICES ASSUME NEW x \in MadeIn(boot, tables) PROVE x \in MadeIn(boot, tables')
        OBVIOUS
      <4>1. PICK q \in Pages, l \in 1 .. Levels - 1 :
              /\ x = <<l, shifted(q, l)>>
              /\ reach(boot, q, l) = NotPresent /\ reach(tables, q, l) # NotPresent
        BY OfMade
      <4>2. reach(tables', q, l) # NotPresent
        BY <1>2, <2>4, <4>1
      <4> QED BY <4>1, <4>2, InMade
    <3> QED BY <1>1, <3>1, <3>2, Zenon DEF Made
  <2>6. Made' \subseteq MissingTables'
    <3>1. MissingTables \subseteq MissingTables'
      BY <1>1, <2>3, WantedGrows
    <3> QED BY <2>5, <3>1 DEF CountInv
  <2>7. Taken' = Taken
    BY <1>1, <1>4, <2>2 DEF Taken
  <2>8. \A q \in Pages \ Own' : reach(tables', q, 0) = reach(boot', q, 0)
    <3>1. Own' = {ExamplePage} \cup (heap_start_page .. page' - 1)
      BY <2>2 DEF Own
    <3>2. page \in Own' /\ Own \subseteq Own'
      <4>1. CASE frame = VgaFrame
        BY <1>1, <1>4, <3>1, <4>1 DEF Own
      <4>2. CASE frame # VgaFrame
        <5>1. page' - 1 = page /\ page \in heap_start_page .. page
          BY <1>4, <2>2, <4>2
        <5>2. Own = {ExamplePage} \cup (heap_start_page .. page - 1)
          BY <4>2 DEF Own
        <5>3. heap_start_page .. page - 1 \subseteq heap_start_page .. page
          BY <1>4, <4>2
        <5> QED BY <3>1, <5>1, <5>2, <5>3
      <4> QED BY <4>1, <4>2
    <3> QED BY <1>1, <1>2, <1>3, <2>4, <3>2
  <2>9. frame' = VgaFrame => ExamplePage \in Mapped'
    <3>1. reach(tables', page, 0) = frame
      BY <1>2, <2>1, WalksAfter, Zenon
    <3>2. frame \notin {NotPresent, HugeFrame}
      BY <2>1, MemoryMapAssumption
    <3> QED BY <1>1, <1>2, <1>4, <3>1, <3>2 DEF Mapped
  <2> QED BY <1>1, <1>3, <2>2, <2>3, <2>5, <2>6, <2>7, <2>8, <2>9, Zenon DEF CountInv
<1> QED BY <1>5, <1>6 DEF map_to_entry

(* Nothing is made while the tables are the boot loader's. *)
LEMMA NothingMade == ASSUME tables = boot PROVE Made = {}
<1> SUFFICES ASSUME NEW x \in Made PROVE FALSE
  OBVIOUS
<1>1. \E q \in Pages, l \in 1 .. Levels - 1 :
        reach(boot, q, l) = NotPresent /\ reach(tables, q, l) # NotPresent
  BY OfMade DEF Made
<1> QED BY <1>1

THEOREM CountInvariant == Spec => [](FrameInv /\ WalkInv /\ CountInv)
<1>1. Init => CountInv
  <2> SUFFICES ASSUME Init PROVE CountInv
    OBVIOUS
  <2>1. /\ boot \in BootTables /\ tables = boot /\ pc = "kernel_main" /\ next = 0
        /\ frame = NoFrame
    BY DEF Init
  <2>2. Sound(boot)
    BY <2>1, BootTablesAssumption, BootTreeAssumption, Zenon DEF Sound, EntrySet
  <2> QED BY <2>1, <2>2, NothingMade DEF CountInv, Grown
<1>2. FrameInv /\ WalkInv /\ CountInv /\ [Next]_vars => CountInv'
  <2> SUFFICES ASSUME FrameInv, WalkInv, CountInv, [Next]_vars PROVE CountInv'
    OBVIOUS
  <2>1. NoFrame # VgaFrame
    BY MemoryMapAssumption, BootTablesAssumption, Zenon
  <2>2. pc = "kernel_main" =>
          /\ tables = boot /\ next = 0 /\ frame = NoFrame /\ Cardinality(Made) = 0
          /\ page = heap_start_page
    BY NothingMade, FS_EmptySet, Zenon DEF CountInv, WalkInv
  <2>3. CASE create_example_mapping
    <3>1. /\ tables' = tables /\ boot' = boot /\ next' = next /\ frame' = VgaFrame
          /\ pc = "kernel_main" /\ pc' = "map_to"
      BY <2>3 DEF create_example_mapping, map_to
    <3>2. /\ Sound(boot') /\ Grown(boot', tables') /\ Made' = Made
          /\ Made' \subseteq MissingTables'
      BY <2>1, <2>2, <3>1, CountSame
    <3>3. Taken' = 0
      BY <3>1 DEF Taken
    <3>4. next' = Cardinality(Made') + Taken'
      BY <2>2, <3>1, <3>2, <3>3, SMT
    <3>5. \A q \in Pages : reach(tables', q, 0) = reach(boot', q, 0)
      BY <2>2, <3>1, Zenon
    <3> QED BY <3>1, <3>2, <3>4, <3>5, Zenon DEF CountInv
  <2>4. CASE call_init_heap
    <3>1. /\ tables' = tables /\ boot' = boot /\ next' = next /\ frame' = frame
          /\ page' = page /\ pc = "kernel_main" /\ pc' = "init_heap"
      BY <2>4 DEF call_init_heap
    <3>2. /\ Sound(boot') /\ Grown(boot', tables') /\ Made' = Made
          /\ Made' \subseteq MissingTables'
      BY <2>1, <2>2, <3>1, CountSame
    <3>3. Taken' = 0
      BY <2>2, <3>1, HeapRange DEF Taken
    <3>4. next' = Cardinality(Made') + Taken'
      BY <2>2, <3>1, <3>2, <3>3, SMT
    <3>5. \A q \in Pages : reach(tables', q, 0) = reach(boot', q, 0)
      BY <2>2, <3>1, Zenon
    <3> QED BY <2>1, <2>2, <3>1, <3>2, <3>4, <3>5, Zenon DEF CountInv
  <2>5. CASE init_heap_done
    <3>1. /\ tables' = tables /\ boot' = boot /\ next' = next /\ frame' = frame
          /\ page' = page /\ pc = "init_heap" /\ pc' = "heap"
      BY <2>5 DEF init_heap_done
    <3>2. /\ Sound(boot') /\ Grown(boot', tables') /\ Made' = Made
          /\ Made' \subseteq MissingTables' /\ Mapped' = Mapped
      BY <3>1, CountSame, SameMapped
    <3>3. Taken' = Taken /\ Own' = Own
      BY <3>1 DEF Taken, Own
    <3> QED BY <3>1, <3>2, <3>3, Zenon DEF CountInv
  <2>6. CASE expect
    <3>1. /\ tables' = tables /\ boot' = boot /\ memory_map' = memory_map /\ frame' = frame
          /\ pc = "error" /\ pc' = "panic"
      BY <2>6 DEF expect
    <3> QED BY <3>1, SameExcuse, CountStopped, Zenon DEF CountInv
  <2>7. CASE UNCHANGED vars
    <3>1. /\ tables' = tables /\ boot' = boot /\ memory_map' = memory_map /\ frame' = frame
          /\ pc' = pc /\ page' = page /\ next' = next
      BY <2>7 DEF vars
    <3>2. /\ Made' = Made /\ Mapped' = Mapped /\ Taken' = Taken /\ Own' = Own
          /\ MissingTables' = MissingTables /\ Excuse' = Excuse
      BY <3>1, SameExcuse, SameMapped DEF Made, Taken, Own
    <3> QED BY <3>1, <3>2 DEF CountInv
  <2> QED BY <2>3, <2>4, <2>5, <2>6, <2>7, CountInitHeapPage, CountCreateNextTable,
             CountMapToEntry DEF Next
<1> QED BY <1>1, <1>2, WalkInvariant, PTL DEF Spec

(* init_heap takes exactly one frame for each page of the heap and one for *)
(* each table that was missing; expect panics only if there were fewer, or *)
(* if the boot loader had mapped a page already.                           *)
THEOREM InitHeapTakesExactly == Spec => []InitHeapTakesWhatItNeeds
<1>1. FrameInv /\ WalkInv /\ CountInv => InitHeapTakesWhatItNeeds
  <2> SUFFICES ASSUME FrameInv, WalkInv, CountInv PROVE InitHeapTakesWhatItNeeds
    OBVIOUS
  <2>1. ASSUME pc = "heap" PROVE next = Needed
    <3>1. /\ HeapSoFar /\ page = heap_end_page + 1 /\ next = Cardinality(Made) + Taken
          /\ frame = VgaFrame => ExamplePage \in Mapped
      BY <2>1, Zenon DEF WalkInv, CountInv
    <3>2. Taken = Cardinality(HeapPages)
      BY <2>1, <3>1, HeapRange, NeededIsFinite DEF Taken
    <3>3. \A p \in Wanted : p \in Pages /\ reach(tables, p, 0) # NotPresent
      <4>1. ASSUME NEW p \in HeapPages PROVE reach(tables, p, 0) # NotPresent
        <5>1. p \in heap_start_page .. page - 1
          BY <3>1, PageInHeap, HeapRange
        <5>2. reach(tables, p, 0) \in Frames
          BY <3>1, <5>1, UsableFrames DEF HeapSoFar, Range
        <5> QED BY <5>2, MemoryMapAssumption
      <4>2. ExamplePage \in Mapped => reach(tables, ExamplePage, 0) # NotPresent
        BY DEF Mapped
      <4> QED BY <3>1, <4>1, <4>2, NeededIsFinite DEF Wanted
    <3>4. ASSUME NEW x \in MissingTables PROVE x \in Made
      <4>1. PICK p \in Wanted, l \in 1 .. Levels - 1 :
              x = <<l, shifted(p, l)>> /\ reach(boot, p, l) = NotPresent
        BY MissingTablesDef, OfMissing
      <4>2. l \in 0 .. Levels /\ NotPresent \in Stops
        BY PagesAssumption DEF Stops
      <4>3. reach(tables, p, l) # NotPresent
        BY <3>3, <4>2, SoundTables, StopsStay
      <4> QED BY <3>3, <4>1, <4>3, InMade DEF Made
    <3>5. Made = MissingTables
      BY <3>4 DEF CountInv
    <3>6. Cardinality(HeapPages) \in Nat /\ Cardinality(MissingTables) \in Nat
      BY HeapRange, NeededIsFinite
    <3> QED BY <3>1, <3>2, <3>5, <3>6 DEF Needed
  <2>2. pc = "panic" => Excuse
    BY DEF CountInv
  <2> QED BY <2>1, <2>2 DEF InitHeapTakesWhatItNeeds, Excuse, frames
<1> QED BY <1>1, CountInvariant, PTL
=============================================================================
