-------------------------- MODULE PhysicalAllocator --------------------------
(***************************************************************************)
(* The physical page allocator of src/src/kernel.c, with the frame owner   *)
(* table: fresh frames come from the usable regions in order, freed frames *)
(* go to a bounded LIFO pool, and a bounded table remembers the owner      *)
(* class of every frame it has room for.                                   *)
(*                                                                         *)
(* The operators take the allocator's state as a record, so that a handler *)
(* that allocates or frees several frames threads it through them.         *)
(*                                                                         *)
(* Abstraction: a frame is its page number.  The regions, their cursor and *)
(* each region's current address are one position in Layout, the frames in *)
(* the order the walk reaches them (module RegionWalk models that walk).   *)
(* A page argument that is not page-aligned is refused as page 0 is.  Of   *)
(* the statistics only the recycle-drop counter is kept: the others are    *)
(* never read back.                                                        *)
(***************************************************************************)
EXTENDS Integers, Sequences, FiniteSets

CONSTANTS
    Layout,         \* usable frames in the order alloc_page walks them
    LowMem,         \* first page free_page accepts: 1 MB
    Highest,        \* physical_highest_usable_end, as a page number
    RecycleMax,     \* PHYSICAL_RECYCLE_MAX
    OwnerTrackMax   \* PHYSICAL_OWNER_TRACK_MAX

Frames == {Layout[i] : i \in 1..Len(Layout)}

\* The regions start at or above 1 MB and the kernel's end, end at or below
\* the highest usable address, and do not overlap.
ASSUME LayoutAssumption ==
    /\ LowMem \in Nat \ {0}
    /\ Highest \in Nat
    /\ Layout \in Seq(LowMem..(Highest - 1))
    /\ \A i, j \in 1..Len(Layout) : Layout[i] = Layout[j] => i = j

ASSUME CapacityAssumption ==
    /\ RecycleMax \in Nat
    /\ OwnerTrackMax \in Nat

\* physical_allocator_alloc_page returns address 0 when nothing is left.
NoPage == 0

\* PAGE_OWNER_* with the owners of leaf pages the code can record.
LeafOwners == {"ALLOCATOR", "KERNEL_HEAP", "PAGING_TEST", "USER_TASK", "USER_MISC"}
HeldOwners == LeafOwners \cup {"PAGING_STRUCTURE"}
OwnerEntries == HeldOwners \cup {"FREE", "UNTRACKED"}

AllocatorStates ==
    [next  : 1..(Len(Layout) + 1),  \* next fresh frame of Layout
     pool  : Seq(Frames),           \* physical_recycled_pages
     owner : [Frames -> OwnerEntries],  \* "UNTRACKED": no table entry
     used  : Nat,                   \* physical_used_pages
     drops : Nat]                   \* physical_recycle_drop_count

Elems(s) == {s[i] : i \in 1..Len(s)}

FreshAllocator ==
    [next |-> 1, pool |-> <<>>, owner |-> [p \in Frames |-> "UNTRACKED"],
     used |-> 0, drops |-> 0]

-----------------------------------------------------------------------------
(* The owner table: entries are added while there is room, never removed.  *)

OwnerGet(m, p) ==
    IF p \in Frames /\ m.owner[p] # "UNTRACKED" THEN m.owner[p] ELSE "FREE"

TrackedFrames(m) == {p \in Frames : m.owner[p] # "UNTRACKED"}

Trackable(m, p) ==
    p \in TrackedFrames(m) \/ Cardinality(TrackedFrames(m)) < OwnerTrackMax

SetOwner(m, p, o) ==
    IF p \in Frames /\ Trackable(m, p)
    THEN [m EXCEPT !.owner = [m.owner EXCEPT ![p] = o]]
    ELSE m

-----------------------------------------------------------------------------
(* physical_allocator_alloc_page: the page, and the state it leaves.       *)

AllocPage(m) ==
    IF m.pool # <<>> THEN m.pool[Len(m.pool)]
    ELSE IF m.next <= Len(Layout) THEN Layout[m.next]
    ELSE NoPage

WithPool(m, s, u) == [m EXCEPT !.pool = s, !.used = u]
WithNext(m, k, u) == [m EXCEPT !.next = k, !.used = u]
WithDrop(m, u) == [m EXCEPT !.drops = m.drops + 1, !.used = u]

\* Mutant of Taken: the recycled frame stays in the pool.
TakenNotPopped(m) ==
    IF m.pool # <<>> THEN WithPool(m, m.pool, m.used + 1)
    ELSE WithNext(m, m.next + 1, m.used + 1)

Taken(m) ==
    IF m.pool # <<>>
    THEN WithPool(m, SubSeq(m.pool, 1, Len(m.pool) - 1), m.used + 1)
    ELSE WithNext(m, m.next + 1, m.used + 1)

AfterAlloc(m) ==
    IF AllocPage(m) = NoPage THEN m
    ELSE SetOwner(Taken(m), AllocPage(m), "ALLOCATOR")

-----------------------------------------------------------------------------
(* physical_allocator_free_page.                                           *)

\* Mutant of FreeAccepted: paging structures are not protected.
FreeAcceptedUnprotected(m, p) ==
    /\ p >= LowMem
    /\ p < Highest
    /\ OwnerGet(m, p) # "FREE"
    /\ p \notin Elems(m.pool)

FreeAccepted(m, p) ==
    /\ p >= LowMem
    /\ p < Highest
    /\ OwnerGet(m, p) \notin {"PAGING_STRUCTURE", "FREE"}
    /\ p \notin Elems(m.pool)

Uncounted(m) == IF m.used > 0 THEN m.used - 1 ELSE 0

\* Mutants of AfterFree: the pool takes one frame too many; a recycled frame
\* keeps its owner; the used count is not decreased.
AfterFreeOneTooMany(m, p) ==
    IF ~FreeAccepted(m, p) THEN m
    ELSE IF Len(m.pool) <= RecycleMax
    THEN SetOwner(WithPool(m, Append(m.pool, p), Uncounted(m)), p, "FREE")
    ELSE WithDrop(m, Uncounted(m))

AfterFreeOwnerKept(m, p) ==
    IF ~FreeAccepted(m, p) THEN m
    ELSE IF Len(m.pool) < RecycleMax
    THEN WithPool(m, Append(m.pool, p), Uncounted(m))
    ELSE WithDrop(m, Uncounted(m))

AfterFreeStillCounted(m, p) ==
    IF ~FreeAccepted(m, p) THEN m
    ELSE IF Len(m.pool) < RecycleMax
    THEN SetOwner(WithPool(m, Append(m.pool, p), m.used), p, "FREE")
    ELSE WithDrop(m, m.used)

AfterFree(m, p) ==
    IF ~FreeAccepted(m, p) THEN m
    ELSE IF Len(m.pool) < RecycleMax
    THEN SetOwner(WithPool(m, Append(m.pool, p), Uncounted(m)), p, "FREE")
    ELSE WithDrop(m, Uncounted(m))

-----------------------------------------------------------------------------
\* A frame is held from the alloc_page that returns it until a free_page that
\* puts it into the pool.
HandedOut(m) == {Layout[i] : i \in 1..(m.next - 1)}
Held(m) == HandedOut(m) \ Elems(m.pool)

\* The pool holds no frame twice, none that the walk has not reached, and
\* exactly the frames that the owner table calls free.
FreeListSound(m) ==
    /\ \A i, j \in 1..Len(m.pool) : m.pool[i] = m.pool[j] => i = j
    /\ Elems(m.pool) \subseteq HandedOut(m)
    /\ Elems(m.pool) = {p \in Frames : m.owner[p] = "FREE"}

\* The used-page counter against the frames that are held.
Accounted(m) ==
    /\ m.used <= Cardinality(Held(m))
    /\ Cardinality(Held(m)) <= m.used + m.drops

WithinCapacity(m) ==
    /\ Len(m.pool) <= RecycleMax
    /\ Cardinality(TrackedFrames(m)) <= OwnerTrackMax

\* What every operation preserves: the above, and only frames that were
\* handed out have an entry in the owner table.
AllocatorSound(m) ==
    /\ m \in AllocatorStates
    /\ WithinCapacity(m)
    /\ TrackedFrames(m) \subseteq HandedOut(m)
    /\ FreeListSound(m)
    /\ Accounted(m)
=============================================================================
