---------------------------- MODULE AddressSpaces ----------------------------
(***************************************************************************)
(* Paging in src/src/kernel.c on top of the page allocator: the global     *)
(* page directory, the directories the code makes for single processes,    *)
(* and the commands that map and unmap memory (taskspawn, the loaders,     *)
(* process exit, brk, the kernel heap, the mapping tests, trimid).         *)
(*                                                                         *)
(* A frame holds Words entries when it is a directory or a table.  The     *)
(* handlers run one at a time here: each is one action.                    *)
(*                                                                         *)
(* Abstraction: the first 4 MB, where the kernel runs and most frames lie, *)
(* are mapped by the global directory and by no other, and that entry is   *)
(* not represented; IdDir stands for the identity map above 4 MB, with the *)
(* frames of IdIndex in it.  The alias mappings of the page tables, and    *)
(* the tables made at boot for the kernel image and those aliases, never   *)
(* change hands and are left out.  A data frame's contents are left out.   *)
(***************************************************************************)
EXTENDS PhysicalAllocator

CONSTANTS
    LastWord,   \* the last entry of a directory or a table: 1023
    Slots,      \* 1..PROCESS_CONTEXT_MAX
    IdIndex,    \* frames above 4 MB |-> their index in the identity table
    Images,     \* ELF32/PE32 files: the pages of their segments, lowest first
    TrackMax,   \* PROCESS_USER_PAGE_TRACK_MAX
    AreaMax,    \* bound: pages of the heap and of each test area
    Commands    \* which commands the user gives

IdDir == 0      \* PDEs of the identity map from 4 MB up
TaskDir == 1    \* USER_TASK_BASE: the code, stack and heap pages of all slots
ImageDir == 2   \* USER_TEST_BASE, where PE32 images are also linked
HeapDir == 3    \* KERNEL_HEAP_BASE
TestDir == 4    \* PAGING_TEST_BASE
Dirs == 0..4
KernelDirs == {HeapDir, TestDir}    \* among PDEs 768..1023
Words == 0..LastWord

CodeVA(s) == <<TaskDir, 4 * (s - 1)>>
StackVA(s) == <<TaskDir, 4 * (s - 1) + 1>>
HeapVA(s, page) == <<TaskDir, 4 * (s - 1) + 1 + page>>  \* pages 1 and 2

None == [frame |-> NoPage, user |-> FALSE]
EmptyTable == [w \in Words |-> None]
Entry(f, u) == [frame |-> f, user |-> u]

GlobalDir == Layout[1]  \* paging_directory_phys
IdTable == Layout[2]

\* The task areas of the slots lie in one table, the machine has the memory to
\* boot, and the identity map has an entry of its own for each high frame.
ASSUME SpaceAssumption ==
    /\ LastWord \in Nat /\ Dirs \subseteq Words
    /\ 1 \in Slots /\ \A s \in Slots : s \in Nat \ {0} /\ 4 * s <= LastWord + 1
    /\ Len(Layout) >= 4
    /\ \A f \in DOMAIN IdIndex : f \in Frames /\ IdIndex[f] \in Words
    /\ \A f, g \in DOMAIN IdIndex : IdIndex[f] = IdIndex[g] => f = g
    /\ TrackMax \in Nat /\ AreaMax \in Words \ {0}

VARIABLES
    k,          \* [mem, ram, cr3, dead, dir, pages]: allocator, paging frames,
                \* CR3, has the kernel faulted; per slot page_dir_phys and
                \* user_mapped_pages
    ready,      \* user_ready of each slot
    code,       \* user_code_va of each slot
    brk,        \* pages between user_heap_base and user_heap_brk of each slot
    current,    \* current_process_slot
    heapPages,  \* pages below kernel_heap_end
    nextTest,   \* paging_test_next_virt
    nextUser,   \* paging_user_test_next_virt
    reserved    \* frames taken by the allocpage command

vars == <<k, ready, code, brk, current, heapPages, nextTest, nextUser, reserved>>

-----------------------------------------------------------------------------
(* Page-table walks.  The kernel reaches tables it just made, and private  *)
(* directories, by their physical address, through the identity map.       *)

Walk(m, dir, va) ==
    IF m.ram[dir][va[1]] = None THEN None
    ELSE m.ram[m.ram[dir][va[1]].frame][va[2]]

HasTable(m, dir, d) == m.ram[dir][d] # None

\* The frame that physical address f, used as a pointer, reaches.
Through(m, f) ==
    IF f \in DOMAIN IdIndex THEN Walk(m, GlobalDir, <<IdDir, IdIndex[f]>>).frame
    ELSE f

\* A kernel page fault halts the machine (isr_handler).
Dies(m) == [m EXCEPT !.dead = TRUE]

\* A frame is given new contents through its physical address.
Written(m, f, contents) ==
    IF Through(m, f) = NoPage THEN Dies(m)
    ELSE [m EXCEPT !.ram[Through(m, f)] = contents]

Freed(m, f) == [m EXCEPT !.mem = AfterFree(m.mem, f)]
Owned(m, f, o) == [m EXCEPT !.mem = SetOwner(m.mem, f, o)]
Drawn(m) == [m EXCEPT !.mem = AfterAlloc(m.mem)]

\* Mutant of WithTable: the table's owner is not recorded.
WithTableUnowned(m, d) ==
    LET f == AllocPage(m.mem)
    IN  IF HasTable(m, GlobalDir, d) \/ f = NoPage THEN m
        ELSE Written([Drawn(m) EXCEPT !.ram[GlobalDir][d] = Entry(f, FALSE), !.cr3 = GlobalDir],
                     f, EmptyTable)

\* paging_get_table(create = 1): entries of the global directory are made
\* without the user bit.
WithTable(m, d) ==
    LET f == AllocPage(m.mem)
    IN  IF HasTable(m, GlobalDir, d) \/ f = NoPage THEN m
        ELSE Written([Owned(Drawn(m), f, "PAGING_STRUCTURE") EXCEPT
                         !.ram[GlobalDir][d] = Entry(f, FALSE), !.cr3 = GlobalDir],
                     f, EmptyTable)

\* paging_map_page; it failed when the directory still has no table.
MapPage(m, va, f, u) ==
    LET t == WithTable(m, va[1])
    IN  IF ~HasTable(t, GlobalDir, va[1]) \/ t.dead THEN t
        ELSE [t EXCEPT !.ram[t.ram[GlobalDir][va[1]].frame][va[2]] = Entry(f, u)]

\* A new page's frame is labelled, or given back when there is no table.
Settled(m, dir, va, f, owner) ==
    IF HasTable(m, dir, va[1]) THEN Owned(m, f, owner) ELSE Freed(m, f)

\* paging_map_new_page.
MapNewPage(m, va, u, owner) ==
    LET f == AllocPage(m.mem)
    IN  IF f = NoPage THEN m
        ELSE Settled(MapPage(Drawn(m), va, f, u), GlobalDir, va, f, owner)

MapNewPageWorks(m, va, u, owner) ==
    Walk(MapNewPage(m, va, u, owner), GlobalDir, va) # Walk(m, GlobalDir, va)

\* Mutants of Cleared: the directory keeps the entry of a freed table; a table
\* is freed with pages left in it.
ClearedDangling(m, dir, va, tableFreeable) ==
    LET t == m.ram[dir][va[1]].frame
        c == [m EXCEPT !.ram[t][va[2]] = None]
    IN  IF c.ram[t] = EmptyTable /\ tableFreeable
        THEN Freed(Owned(c, t, "ALLOCATOR"), t)
        ELSE c

ClearedWhole(m, dir, va, tableFreeable) ==
    LET t == m.ram[dir][va[1]].frame
        c == [m EXCEPT !.ram[t][va[2]] = None]
    IN  IF tableFreeable
        THEN Freed(Owned([c EXCEPT !.ram[dir][va[1]] = None], t, "ALLOCATOR"), t)
        ELSE c

\* Removes an entry; a table that becomes empty leaves the directory and is
\* freed, after its owner was changed so that free_page accepts it.
Cleared(m, dir, va, tableFreeable) ==
    LET t == m.ram[dir][va[1]].frame
        c == [m EXCEPT !.ram[t][va[2]] = None]
    IN  IF c.ram[t] = EmptyTable /\ tableFreeable
        THEN Freed(Owned([c EXCEPT !.ram[dir][va[1]] = None], t, "ALLOCATOR"), t)
        ELSE c

\* paging_unmap_page.
UnmapPage(m, va) ==
    IF Walk(m, GlobalDir, va) = None THEN m
    ELSE LET t == m.ram[GlobalDir][va[1]].frame
             c == Cleared(m, GlobalDir, va, OwnerGet(m.mem, t) = "PAGING_STRUCTURE")
         IN  IF HasTable(c, GlobalDir, va[1]) THEN c ELSE [c EXCEPT !.cr3 = GlobalDir]

\* paging_map_page_direct: tables made here carry the user bit.
MapDirect(m, dir, va, f) ==
    LET tf == AllocPage(m.mem)
        t == IF HasTable(m, dir, va[1]) \/ tf = NoPage THEN m
             ELSE Written([Owned(Drawn(m), tf, "PAGING_STRUCTURE") EXCEPT
                              !.ram[dir][va[1]] = Entry(tf, TRUE)], tf, EmptyTable)
    IN  IF ~HasTable(t, dir, va[1]) THEN t
        ELSE [t EXCEPT !.ram[t.ram[dir][va[1]].frame][va[2]] = Entry(f, TRUE)]

\* paging_unmap_page_direct.
UnmapDirect(m, dir, va) ==
    IF HasTable(m, dir, va[1]) THEN Cleared(m, dir, va, TRUE) ELSE m

-----------------------------------------------------------------------------
(* The pages of one process.                                               *)

Tracked(m, s) == Elems(m.pages[s])

\* The walk of a private directory goes through physical addresses.
WalkFaults(m, s, va) ==
    /\ m.dir[s] # NoPage
    /\ \/ Through(m, m.dir[s]) = NoPage
       \/ /\ HasTable(m, m.dir[s], va[1])
          /\ Through(m, m.ram[m.dir[s]][va[1]].frame) = NoPage
HomeDir(m, s) == IF m.dir[s] = NoPage THEN GlobalDir ELSE m.dir[s]

\* process_track_user_page.
Track(m, s, va) ==
    IF va \in Tracked(m, s) \/ Len(m.pages[s]) >= TrackMax THEN m
    ELSE [m EXCEPT !.pages[s] = Append(@, va)]

MapFresh(m, s, va) ==
    IF m.dir[s] = NoPage THEN MapNewPage(m, va, TRUE, "USER_TASK")
    ELSE LET f == AllocPage(m.mem)
         IN  IF f = NoPage THEN m
             ELSE Settled(MapDirect(Drawn(m), m.dir[s], va, f), m.dir[s], va, f, "USER_TASK")

\* Mutant of Unmapped: the frame is not given back.
UnmappedKept(m, s, va) ==
    LET f == Walk(m, HomeDir(m, s), va).frame
    IN  IF m.dead THEN m
        ELSE IF WalkFaults(m, s, va) THEN Dies(m)
        ELSE IF f = NoPage THEN m
        ELSE IF m.dir[s] = NoPage THEN UnmapPage(m, va)
        ELSE UnmapDirect(m, m.dir[s], va)

\* One turn of process_unmap_user_pages; a kernel that has faulted does nothing
\* more, here and below.
Unmapped(m, s, va) ==
    LET f == Walk(m, HomeDir(m, s), va).frame
    IN  IF m.dead THEN m
        ELSE IF WalkFaults(m, s, va) THEN Dies(m)
        ELSE IF f = NoPage THEN m
        ELSE Freed(IF m.dir[s] = NoPage THEN UnmapPage(m, va)
                                        ELSE UnmapDirect(m, m.dir[s], va), f)

\* A page that was mapped but cannot be tracked is unmapped.
TrackedOrUnmapped(m, s, va) ==
    IF m.dead \/ Walk(m, HomeDir(m, s), va) = None THEN m
    ELSE IF va \in Tracked(Track(m, s, va), s) THEN Track(m, s, va)
    ELSE Unmapped(m, s, va)

\* Mutant of MapUserPage: a page that cannot be tracked stays mapped.
MapUserPageUntracked(m, s, va) ==
    IF m.dead THEN m
    ELSE IF WalkFaults(m, s, va) THEN Dies(m)
    ELSE IF Walk(m, HomeDir(m, s), va) # None THEN Track(m, s, va)
    ELSE Track(MapFresh(m, s, va), s, va)

\* process_map_user_page: a page that is mapped already is only tracked.  It
\* failed when the page is not tracked afterwards.
MapUserPage(m, s, va) ==
    IF m.dead THEN m
    ELSE IF WalkFaults(m, s, va) THEN Dies(m)
    ELSE IF Walk(m, HomeDir(m, s), va) # None THEN Track(m, s, va)
    ELSE TrackedOrUnmapped(MapFresh(m, s, va), s, va)

\* Maps pages in order until one fails.
MapNext(r, s, va) ==
    LET t == MapUserPage(r.m, s, va)
    IN  IF r.ok THEN [m |-> t, ok |-> va \in Tracked(t, s)] ELSE r
MapUserPages(m, s, vas) ==
    LET after[n \in 0..Len(vas)] ==
            IF n = 0 THEN [m |-> m, ok |-> TRUE] ELSE MapNext(after[n - 1], s, vas[n])
    IN  after[Len(vas)]

\* process_unmap_user_pages.
UnmapUserPages(m, s) ==
    LET vas == m.pages[s]
        after[n \in 0..Len(vas)] ==
            IF n = 0 THEN m ELSE Unmapped(after[n - 1], s, vas[n])
        gone == after[Len(vas)]
        bare == [gone EXCEPT !.pages[s] = <<>>]
    IN  IF gone.dead THEN gone
        ELSE IF m.dir[s] = NoPage THEN bare
        ELSE [Freed(bare, m.dir[s]) EXCEPT !.cr3 = GlobalDir, !.dir[s] = NoPage]

\* process_alloc_per_proc_dir, as process_init_user_runtime_layout calls it.
WithDirectory(m, s) ==
    LET f == AllocPage(m.mem)
    IN  IF m.dir[s] # NoPage \/ f = NoPage THEN m
        ELSE Owned([Written(Drawn(m), f,
                            [w \in Words |-> IF w \in KernelDirs THEN m.ram[GlobalDir][w]
                                                                 ELSE None])
                    EXCEPT !.dir[s] = f], f, "PAGING_STRUCTURE")

\* What every program load does before it maps anything.
FreshUserSpace(m, s) == UnmapUserPages(WithDirectory(m, s), s)

-----------------------------------------------------------------------------
NoTables ==
    [mem |-> FreshAllocator, ram |-> [f \in Frames |-> EmptyTable],
     cr3 |-> NoPage, dead |-> FALSE,
     dir |-> [s \in Slots |-> NoPage], pages |-> [s \in Slots |-> <<>>]]

\* paging_init and kernel_heap_init: the global directory, the identity table
\* and the first heap page.
Booted ==
    LET d == Owned(Drawn(NoTables), GlobalDir, "PAGING_STRUCTURE")
        i == Owned(Drawn(d), IdTable, "PAGING_STRUCTURE")
        mapped == [i EXCEPT
                      !.ram[IdTable] = [w \in Words |->
                          IF \E f \in DOMAIN IdIndex : IdIndex[f] = w
                          THEN Entry(CHOOSE f \in DOMAIN IdIndex : IdIndex[f] = w, FALSE)
                          ELSE None],
                      !.ram[GlobalDir][IdDir] = Entry(IdTable, FALSE),
                      !.cr3 = GlobalDir]
    IN  MapNewPage(mapped, <<HeapDir, 0>>, FALSE, "KERNEL_HEAP")

Init ==
    /\ k = Booted
    /\ ready = [s \in Slots |-> FALSE]
    /\ code = [s \in Slots |-> CodeVA(s)]
    /\ brk = [s \in Slots |-> 0]
    /\ current = 1
    /\ heapPages = 1
    /\ nextTest = 0
    /\ nextUser = 0
    /\ reserved = {}

\* A command is given while the kernel is alive.
Given(c) == c \in Commands /\ ~k.dead

\* Mutant of Prepare: the context is ready whether or not its pages are mapped.
PrepareAnyway(s) ==
    /\ Given("prepare")
    /\ ~ready[s]
    /\ k' = MapUserPages(FreshUserSpace(k, s), s, <<code[s], StackVA(s)>>).m
    /\ ready' = [ready EXCEPT ![s] = TRUE]
    /\ brk' = [brk EXCEPT ![s] = 0]
    /\ UNCHANGED <<code, current, heapPages, nextTest, nextUser, reserved>>

\* user_test_prepare for slot s (usertestprep, taskspawn): a failed mapping
\* returns and leaves what was mapped.
Prepare(s) ==
    /\ Given("prepare")
    /\ ~ready[s]
    /\ LET r == MapUserPages(FreshUserSpace(k, s), s, <<code[s], StackVA(s)>>)
       IN  /\ k' = r.m
           /\ ready' = [ready EXCEPT ![s] = r.ok]
    /\ brk' = [brk EXCEPT ![s] = 0]
    /\ UNCHANGED <<code, current, heapPages, nextTest, nextUser, reserved>>

\* How a load ends after its mappings: a failure unmaps what there is.
LoadEnds(s, r, fit, va) ==
    LET good == r.ok /\ fit
    IN  /\ k' = IF good THEN r.m ELSE UnmapUserPages(r.m, s)
        /\ ready' = [ready EXCEPT ![s] = good \/ @]
        /\ code' = IF good THEN [code EXCEPT ![s] = va] ELSE code
        /\ brk' = [brk EXCEPT ![s] = 0]
        /\ UNCHANGED <<current, heapPages, nextTest, nextUser, reserved>>

\* user_load_ramfs_image_for_current of a RAW or a valid MBAPP file.
LoadFlat ==
    /\ Given("flat")
    /\ LET s == current
           pages == <<CodeVA(s), StackVA(s)>>
       IN  LoadEnds(s, MapUserPages(FreshUserSpace(k, s), s, pages), TRUE, CodeVA(s))

\* An MBAPP file whose header fails the checks: it is found out only after the
\* layout was set up.
LoadBadMbapp ==
    /\ Given("badmbapp")
    /\ k' = WithDirectory(k, current)
    /\ brk' = [brk EXCEPT ![current] = 0]
    /\ UNCHANGED <<ready, code, current, heapPages, nextTest, nextUser, reserved>>

\* user_load_elf32_image_for_current and user_load_pe32_image_for_current: the
\* segments, then the stack; fit says whether the checks on segments and entry
\* made along the way succeed.
LoadImage(image, fit) ==
    /\ Given("image")
    /\ LET s == current
           pages == Append(image, StackVA(s))
       IN  LoadEnds(s, MapUserPages(FreshUserSpace(k, s), s, pages), fit, image[1])

\* scheduler_switch_to_slot loads the slot's directory.  A private directory
\* lacks the low memory the kernel runs in: the next instruction fetch faults.
SwitchedTo(m, s) ==
    [m EXCEPT !.cr3 = HomeDir(m, s), !.dead = m.dead \/ HomeDir(m, s) # GlobalDir]

SwitchTo(s) ==
    /\ Given("switch")
    /\ current' = s
    /\ k' = SwitchedTo(k, s)
    /\ UNCHANGED <<ready, code, brk, heapPages, nextTest, nextUser, reserved>>

\* A process ends: taskteardown of any slot, or syscall exit or a user fault
\* of the current one; the current slot is then left for another, if any is
\* runnable.
EndProcess(s, next) ==
    /\ Given("end")
    /\ LET gone == UnmapUserPages(k, s)
       IN  IF s = current
           THEN k' = SwitchedTo(gone, next) /\ current' = next
           ELSE next = s /\ k' = gone /\ UNCHANGED current
    /\ ready' = [ready EXCEPT ![s] = FALSE]
    /\ UNCHANGED <<code, brk, heapPages, nextTest, nextUser, reserved>>

\* Syscall 14 of the current program (process_set_user_brk): growing maps the
\* pages in between, a failure leaves those mapped so far and the old break,
\* shrinking unmaps nothing.
Brk(pages) ==
    /\ Given("brk")
    /\ ready[current]
    /\ LET new == IF pages <= brk[current] THEN <<>>
                  ELSE [i \in 1..(pages - brk[current]) |-> HeapVA(current, brk[current] + i)]
           r == MapUserPages(k, current, new)
       IN  /\ k' = r.m
           /\ brk' = IF r.ok THEN [brk EXCEPT ![current] = pages] ELSE brk
    /\ UNCHANGED <<ready, code, current, heapPages, nextTest, nextUser, reserved>>

\* kmalloc beyond the end of the heap: kernel_heap_grow maps pages until one
\* fails.
GrowHeap ==
    /\ Given("kmalloc")
    /\ heapPages < AreaMax
    /\ k' = MapNewPage(k, <<HeapDir, heapPages>>, FALSE, "KERNEL_HEAP")
    /\ heapPages' = IF MapNewPageWorks(k, <<HeapDir, heapPages>>, FALSE, "KERNEL_HEAP")
                    THEN heapPages + 1 ELSE heapPages
    /\ UNCHANGED <<ready, code, brk, current, nextTest, nextUser, reserved>>

\* pgmaptest (paging_map_test_page).
MapTest ==
    /\ Given("pgmaptest")
    /\ nextTest < AreaMax
    /\ k' = MapNewPage(k, <<TestDir, nextTest>>, FALSE, "PAGING_TEST")
    /\ nextTest' = IF MapNewPageWorks(k, <<TestDir, nextTest>>, FALSE, "PAGING_TEST")
                   THEN nextTest + 1 ELSE nextTest
    /\ UNCHANGED <<ready, code, brk, current, heapPages, nextUser, reserved>>

\* mapusertest (paging_map_user_test_page).
MapUserTest ==
    /\ Given("mapusertest")
    /\ nextUser < AreaMax
    /\ k' = MapNewPage(k, <<ImageDir, nextUser>>, TRUE, "USER_MISC")
    /\ nextUser' = IF MapNewPageWorks(k, <<ImageDir, nextUser>>, TRUE, "USER_MISC")
                   THEN nextUser + 1 ELSE nextUser
    /\ UNCHANGED <<ready, code, brk, current, heapPages, nextTest, reserved>>

\* allocpage keeps the frame for good.
AllocPageCommand ==
    /\ Given("allocpage")
    /\ AllocPage(k.mem) # NoPage
    /\ k' = Drawn(k)
    /\ reserved' = reserved \cup {AllocPage(k.mem)}
    /\ UNCHANGED <<ready, code, brk, current, heapPages, nextTest, nextUser>>

\* paging_trim_identity down to the first 4 MB.
TrimIdentity ==
    /\ Given("trimid")
    /\ k.ram[GlobalDir][IdDir].frame = IdTable
    /\ k' = [k EXCEPT !.ram[GlobalDir][IdDir] = None, !.cr3 = GlobalDir]
    /\ UNCHANGED <<ready, code, brk, current, heapPages, nextTest, nextUser, reserved>>

Next ==
    \/ \E s \in Slots : Prepare(s) \/ SwitchTo(s)
    \/ \E s, next \in Slots : EndProcess(s, next)
    \/ LoadFlat \/ LoadBadMbapp
    \/ \E image \in Images, fit \in BOOLEAN : LoadImage(image, fit)
    \/ \E pages \in 0..2 : Brk(pages)
    \/ GrowHeap \/ MapTest \/ MapUserTest \/ AllocPageCommand \/ TrimIdentity

Spec == Init /\ [][Next]_vars

-----------------------------------------------------------------------------
PageTables == [Words -> [frame : Frames \cup {NoPage}, user : BOOLEAN]]

\* The state has its type, and the allocator is sound.
TypeOK ==
    /\ k.mem \in AllocatorStates /\ AllocatorSound(k.mem)
    /\ k.ram \in [Frames -> PageTables]
    /\ k.cr3 \in Frames /\ k.dead \in BOOLEAN
    /\ k.dir \in [Slots -> Frames \cup {NoPage}]
    /\ k.pages \in [Slots -> Seq(Dirs \X Words)]
    /\ ready \in [Slots -> BOOLEAN] /\ brk \in [Slots -> 0..2]
    /\ code \in [Slots -> Dirs \X Words]
    /\ current \in Slots
    /\ {heapPages, nextTest, nextUser} \subseteq 0..AreaMax
    /\ reserved \subseteq Frames

\* The tables of a directory apart from the identity tables, and the user
\* tables of a private directory: its kernel tables are those of GlobalDir.
TablesOf(d) ==
    {k.ram[d][i].frame : i \in {i \in Dirs \ {IdDir} :
                                  /\ k.ram[d][i] # None
                                  /\ d = GlobalDir \/ i \notin KernelDirs}}

PrivateDirs == {k.dir[s] : s \in Slots} \ {NoPage}
AllTables == UNION {TablesOf(d) : d \in PrivateDirs \cup {GlobalDir}}
Structures == {GlobalDir, IdTable} \cup PrivateDirs \cup AllTables

\* <<table, word>> of every page mapped outside the identity map, and the
\* frame there.
Leaves == {l \in AllTables \X Words : k.ram[l[1]][l[2]] # None}
LeafFrame(l) == k.ram[l[1]][l[2]].frame
MappedFrames == {LeafFrame(l) : l \in Leaves}

\* No frame serves two purposes: every page outside the identity map has a
\* frame of its own that the allocator counts as in use, that no command
\* keeps, and that is no directory and no table.  (paging_map_new_page,
\* process_map_user_page, paging_unmap_page and their users.)
FramesPrivate ==
    ~k.dead =>
        /\ \A l1, l2 \in Leaves : LeafFrame(l1) = LeafFrame(l2) => l1 = l2
        /\ MappedFrames \subseteq Held(k.mem)
        /\ MappedFrames \cap (Structures \cup reserved) = {}

\* Every directory and table in use is a frame that the owner table protects
\* from free_page; none of them is in the pool.
StructuresProtected ==
    ~k.dead =>
        \A f \in Structures :
            f \in Held(k.mem) /\ OwnerGet(k.mem, f) = "PAGING_STRUCTURE"

\* Frames in use that no page maps, no command keeps and that hold no paging
\* structure are only those that free_page counted as dropped.
LostFramesCounted ==
    ~k.dead =>
        Cardinality({f \in Held(k.mem) \ (MappedFrames \cup reserved) :
                        OwnerGet(k.mem, f) # "PAGING_STRUCTURE"}) <= k.mem.drops

\* A page of the task area is mapped exactly when one slot's tracking list
\* has it, so that the end of that slot unmaps it (process_unmap_user_pages).
TaskPagesTracked ==
    ~k.dead =>
        \A w \in Words :
            Cardinality({s \in Slots : <<TaskDir, w>> \in Tracked(k, s)})
                = IF \E s \in Slots : Walk(k, HomeDir(k, s), <<TaskDir, w>>) # None
                  THEN 1 ELSE 0

\* A slot that userrun and the scheduler accept has its code and its stack.
ReadyMapped ==
    ~k.dead =>
        \A s \in Slots : ready[s] =>
            /\ Walk(k, HomeDir(k, s), code[s]) # None
            /\ Walk(k, HomeDir(k, s), StackVA(s)) # None

\* No command given to one process moves a page of another that is loaded and
\* stays loaded.
FramesOf(m, s) == [va \in Tracked(m, s) |-> Walk(m, HomeDir(m, s), va).frame]
OthersUndisturbed ==
    [][\A s \in Slots :
          s # current /\ ready[s] /\ ready'[s] /\ ~k'.dead
              => FramesOf(k', s) = FramesOf(k, s)]_vars
=============================================================================
