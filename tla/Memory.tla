------------------------------- MODULE Memory -------------------------------
(***************************************************************************)
(* memory.rs and the set-up of the heap in allocator.rs: the frame         *)
(* allocator over the boot loader's memory map, the walk of the page       *)
(* tables, and init_heap, which maps the heap page by page and can fail at *)
(* each of them with the pages before it mapped.                           *)
(*                                                                         *)
(* Frames and pages are numbers.  Mapper::map_to belongs to the x86_64     *)
(* crate: it goes down the levels, takes a frame from the same allocator   *)
(* for each table that is missing, and fails on a huge page, on a page     *)
(* that is mapped, and when there is no frame.                             *)
(***************************************************************************)
EXTENDS Naturals, Sequences, Functions, FiniteSets

CONSTANTS MemoryMaps,   \* boot loader's maps: sequences of [start, end, usable]
          BootTables,   \* boot loader's page tables, by the frame they are in
          Levels,       \* of page tables, 4 in the code
          Entries,      \* entries of a table, 512 in the code
          PageSize,
          HEAP_START, HEAP_SIZE,
          Cr3,          \* the frame of the top level table
          Frames,       \* the frames of the physical memory
          Pages,        \* the pages of the address space
          VgaFrame,     \* the frame at 0xb8000
          ExamplePage,  \* the page that create_example_mapping maps
          NoFrame,      \* None of allocate_frame
          NotPresent, HugeFrame   \* FrameError

Entry(f, huge) == [frame |-> f, huge |-> huge]
Index == 0 .. Entries - 1
EmptyTable == [i \in Index |-> NotPresent]

VARIABLES memory_map,  \* BootInfoFrameAllocator.memory_map
          next,        \* BootInfoFrameAllocator.next
          tables,      \* the page tables in memory, by their frames
          boot,        \* history: the page tables at boot
          pc,          \* where kernel_main is
          page, frame, \* the mapping that map_to is making
          level, table \* how far down the tables it is

vars == <<memory_map, next, tables, boot, pc, page, frame, level, table>>

(* The frames of the usable regions, in the order of the map *)
usable_frames(map) ==
  LET frames(r) == IF r.usable THEN [i \in 1 .. r.end - r.start |-> r.start + i - 1]
                               ELSE <<>>
      upto[n \in 0 .. Len(map)] ==
        IF n = 0 THEN <<>> ELSE upto[n - 1] \o frames(map[n])
  IN upto[Len(map)]

(* page_range: the pages of the first and of the last byte of the heap *)
heap_start_page == HEAP_START \div PageSize

(* Mutation: the range does not include its end. *)
heap_end_page_exclusive == (HEAP_START + HEAP_SIZE - 1) \div PageSize - 1

(* Mutation: the end of the heap is not its last byte. *)
heap_end_page_past == (HEAP_START + HEAP_SIZE) \div PageSize

heap_end_page == (HEAP_START + HEAP_SIZE - 1) \div PageSize

(* A page's number, shifted right by the indices into its last l tables *)
shifted(p, l) ==
  LET right[k \in 0 .. Levels] == IF k = 0 THEN p ELSE right[k - 1] \div Entries
  IN right[l]

(* p4_index to p1_index: the index of a page into a table of a level *)
index(p, l) == shifted(p, l - 1) % Entries

(* The indices into the tables of all levels tell pages apart.  The heap   *)
(* is not empty, and the example's page, that of address 0 (main.rs:167),  *)
(* is not of it.                                                           *)
ASSUME PagesAssumption ==
  /\ Levels \in Nat \ {0} /\ Entries \in Nat \ {0}
  /\ PageSize \in Nat \ {0} /\ HEAP_START \in Nat /\ HEAP_SIZE \in Nat \ {0}
  /\ Pages \subseteq Nat /\ \A p \in Pages : shifted(p, Levels) = 0
  /\ heap_start_page .. heap_end_page \subseteq Pages
  /\ ExamplePage \in Pages \ (heap_start_page .. heap_end_page)

(* One step of translate_addr_inner: what entry i of a table refers to, or *)
(* why the walk stopped                                                    *)
entry_frame(ts, t, i) ==
  IF t \in {NotPresent, HugeFrame} THEN t
  ELSE IF ts[t][i] = NotPresent THEN NotPresent
  ELSE IF ts[t][i].huge THEN HugeFrame ELSE ts[t][i].frame

(* translate_addr_inner in given tables: what the walk for a page reaches  *)
(* below level l + 1                                                       *)
reach(ts, p, l) ==
  LET down[k \in 0 .. Levels] ==
        IF k = 0 THEN Cr3
        ELSE entry_frame(ts, down[k - 1], index(p, Levels - k + 1))
  IN down[Levels - l]

(* The regions of a memory map do not overlap, and those of the top level  *)
(* table and of the VGA buffer are not usable.                             *)
ASSUME MemoryMapAssumption ==
  /\ Frames \subseteq Nat
  /\ {NoFrame, NotPresent, HugeFrame} \cap Frames = {}
  /\ \A map \in MemoryMaps :
       /\ usable_frames(map) \in Seq(Frames \ {Cr3, VgaFrame})
       /\ IsInjective(usable_frames(map))

(* Entry i of table t refers to a table or to the frame of a page. *)
InUse(ts, t, i) == ts[t][i] # NotPresent /\ ~ts[t][i].huge

(* No two entries of the tables refer to the same frame, but for the VGA   *)
(* buffer, and none to the top level table.                                *)
OneUse(ts) ==
  \A t, u \in DOMAIN ts, i, j \in Index :
    InUse(ts, t, i) =>
      /\ ts[t][i].frame # Cr3
      /\ InUse(ts, u, j) /\ ts[u][j].frame = ts[t][i].frame =>
           (t = u /\ i = j) \/ ts[t][i].frame = VgaFrame

(* Above the last level, walks go from table to table. *)
WalksTables(ts) ==
  \A p \in Pages, l \in 1 .. Levels : reach(ts, p, l) \in DOMAIN ts \cup {NotPresent, HugeFrame}

(* memory.rs:178-180: what the boot loader uses is not usable. *)
ASSUME BootTablesAssumption ==
  /\ VgaFrame \in Frames \ {Cr3}
  /\ NotPresent \notin [frame : Frames, huge : BOOLEAN] /\ NotPresent # HugeFrame
  /\ \A ts \in BootTables :
       /\ Cr3 \in DOMAIN ts /\ DOMAIN ts \subseteq Frames \ {VgaFrame}
       /\ \A t \in DOMAIN ts :
            ts[t] \in [Index -> [frame : Frames, huge : BOOLEAN] \cup {NotPresent}]
       /\ WalksTables(ts)
       /\ \A map \in MemoryMaps : \A f \in Range(usable_frames(map)) :
            /\ f \notin DOMAIN ts
            /\ \A t \in DOMAIN ts, i \in Index : InUse(ts, t, i) => ts[t][i].frame # f

(* Nothing in the repository says so: the boot loader's page tables are a  *)
(* tree, and no two of their pages share a frame.                          *)
ASSUME BootTreeAssumption == \A ts \in BootTables : OneUse(ts)

Init ==
  /\ memory_map \in MemoryMaps
  /\ next = 0
  /\ boot \in BootTables /\ tables = boot
  /\ pc = "kernel_main"
  /\ page = heap_start_page
  /\ frame = NoFrame /\ level = 0 /\ table = Cr3

-----------------------------------------------------------------------------
(* Mutation: behind the last usable frame, next starts again. *)
allocate_frame_wraps(f) ==
  LET frames == usable_frames(memory_map)
  IN /\ f = IF next < Len(frames) THEN frames[next + 1] ELSE NoFrame
     /\ next' = IF next + 1 = Len(frames) THEN 0 ELSE next + 1

(* allocate_frame, with f as its result; next counts failures too. *)
allocate_frame(f) ==
  LET frames == usable_frames(memory_map)
  IN /\ f = IF next < Len(frames) THEN frames[next + 1] ELSE NoFrame
     /\ next' = next + 1

(* Call of map_to for a page and its frame *)
map_to(p, f) ==
  /\ page' = p /\ frame' = f
  /\ pc' = "map_to" /\ level' = Levels /\ table' = Cr3

(* create_example_mapping, which kernel_main has commented out *)
create_example_mapping ==
  /\ pc = "kernel_main"
  /\ map_to(ExamplePage, VgaFrame)
  /\ UNCHANGED <<memory_map, next, tables, boot>>

call_init_heap ==
  /\ pc = "kernel_main"
  /\ pc' = "init_heap"
  /\ UNCHANGED <<memory_map, next, tables, boot, page, frame, level, table>>

(* The body of the loop of init_heap: a frame, or return with an error *)
init_heap_page ==
  /\ pc = "init_heap" /\ page <= heap_end_page
  /\ \E f \in Range(usable_frames(memory_map)) \cup {NoFrame} :
       /\ allocate_frame(f)
       /\ IF f = NoFrame
          THEN pc' = "error" /\ UNCHANGED <<page, frame, level, table>>
          ELSE map_to(page, f)
  /\ UNCHANGED <<memory_map, tables, boot>>

(* The part of map_to for a level above the last: go down to the next      *)
(* table, make it, or return with an error.                                *)
create_next_table ==
  /\ pc = "map_to" /\ level > 1
  /\ LET entry == tables[table][index(page, level)]
     IN \/ /\ entry = NotPresent
           /\ \E f \in Range(usable_frames(memory_map)) \cup {NoFrame} :
                /\ allocate_frame(f)
                /\ IF f = NoFrame
                   THEN pc' = "error" /\ UNCHANGED <<tables, level, table>>
                   ELSE /\ tables' =
                             [t \in DOMAIN tables \cup {f} |->
                                IF t = f THEN EmptyTable
                                ELSE IF t = table
                                THEN [tables[t] EXCEPT ![index(page, level)] = Entry(f, FALSE)]
                                ELSE tables[t]]
                        /\ level' = level - 1 /\ table' = f
                        /\ UNCHANGED pc
        \/ /\ entry # NotPresent /\ entry.huge
           /\ pc' = "error"
           /\ UNCHANGED <<next, tables, level, table>>
        \/ /\ entry # NotPresent /\ ~entry.huge
           /\ level' = level - 1 /\ table' = entry.frame
           /\ UNCHANGED <<next, tables, pc>>
  /\ UNCHANGED <<memory_map, boot, page, frame>>

(* The frame is in the table; the caller goes on. *)
mapped ==
  /\ tables' = [tables EXCEPT ![table][index(page, 1)] = Entry(frame, FALSE)]
  /\ pc' = "init_heap"
  /\ page' = IF frame = VgaFrame THEN heap_start_page ELSE page + 1

(* Mutation: an entry that is in use is overwritten. *)
map_to_entry_overwrites ==
  /\ pc = "map_to" /\ level = 1
  /\ mapped
  /\ UNCHANGED <<memory_map, next, boot, frame, level, table>>

(* The part of map_to for the last level, and the flush *)
map_to_entry ==
  /\ pc = "map_to" /\ level = 1
  /\ IF tables[table][index(page, 1)] = NotPresent
     THEN mapped
     ELSE pc' = "error" /\ UNCHANGED <<tables, page>>
  /\ UNCHANGED <<memory_map, next, boot, frame, level, table>>

(* The end of init_heap: ALLOCATOR.lock().init *)
init_heap_done ==
  /\ pc = "init_heap" /\ page > heap_end_page
  /\ pc' = "heap"
  /\ UNCHANGED <<memory_map, next, tables, boot, page, frame, level, table>>

(* The expect on the result of init_heap, or of create_example_mapping *)
expect ==
  /\ pc = "error"
  /\ pc' = "panic"
  /\ UNCHANGED <<memory_map, next, tables, boot, page, frame, level, table>>

Next ==
  \/ create_example_mapping \/ call_init_heap
  \/ init_heap_page \/ create_next_table \/ map_to_entry
  \/ init_heap_done \/ expect

Spec == Init /\ [][Next]_vars

-----------------------------------------------------------------------------
(* The physical address, NotPresent for None, or HugeFrame for the panic *)
translate_addr(addr) ==
  LET f == reach(tables, addr \div PageSize, 0)
  IN IF f \in {NotPresent, HugeFrame} THEN f
     ELSE f * PageSize + (addr % PageSize)

Mapped == {p \in Pages : reach(tables, p, 0) \notin {NotPresent, HugeFrame}}
Mapping == [p \in Mapped |-> reach(tables, p, 0)]

AddressSpace == INSTANCE AddressSpace WITH
  Device <- {VgaFrame}, mapping <- Mapping

(* Every step maps at most one page, which was not mapped, to a frame that *)
(* no page has, as translate_addr sees it: tables made for one page never  *)
(* hide or change another, and a failed map_to changes nothing.            *)
ImplementsAddressSpace == AddressSpace!Spec

(* An entry that was made since boot *)
Added(t, i) == InUse(tables, t, i) /\ (t \in DOMAIN boot => boot[t][i] # tables[t][i])

(* memory.rs:141 requires "that the allocator yields only unused frames":  *)
(* no entry made since boot refers to a table of the boot loader or, but   *)
(* for the VGA buffer, to a frame that another entry refers to, be it as   *)
(* the frame of a page or as a table.                                      *)
AddsNoSecondUse ==
  \A t, u \in DOMAIN tables, i, j \in Index :
    Added(t, i) =>
      /\ tables[t][i].frame \notin DOMAIN boot
      /\ InUse(tables, u, j) /\ tables[u][j].frame = tables[t][i].frame =>
           (t = u /\ i = j) \/ tables[t][i].frame = VgaFrame

HeapAddresses == HEAP_START .. HEAP_START + HEAP_SIZE - 1
HeapPages == {a \div PageSize : a \in HeapAddresses}

(* The allocator is given the heap only when each of its bytes has a       *)
(* usable byte of memory of its own, as allocator.rs:85 asks for.          *)
HeapIsMapped ==
  pc = "heap" =>
    /\ \A a \in HeapAddresses :
         reach(tables, a \div PageSize, 0) \in Range(usable_frames(memory_map))
    /\ \A a, b \in HeapAddresses : translate_addr(a) = translate_addr(b) => a = b

(* What the heap needs: a frame for each page, and one for each table that *)
(* the boot loader's page tables lack for it.                              *)
Wanted ==
  HeapPages \cup {p \in {ExamplePage} : p \in Mapped \/ frame = VgaFrame}
MissingTables ==
  {<<w[1], shifted(w[2], w[1])>> : w \in
     {w \in (1 .. Levels - 1) \X Wanted : reach(boot, w[2], w[1]) = NotPresent}}
Needed == Cardinality(HeapPages) + Cardinality(MissingTables)

(* init_heap takes exactly the frames the heap needs, and it panics only   *)
(* if there are fewer or if the boot loader uses the addresses already.    *)
InitHeapTakesWhatItNeeds ==
  /\ pc = "heap" => next = Needed
  /\ pc = "panic" => \/ Len(usable_frames(memory_map)) < Needed
                     \/ \E p \in Wanted : reach(boot, p, 0) # NotPresent
=============================================================================
