----------------------------- MODULE RegionWalk -----------------------------
(***************************************************************************)
(* How the page allocator finds fresh frames: physical_allocator_init      *)
(* turns the Multiboot memory map into page-aligned regions, and           *)
(* physical_allocator_alloc_page walks them with a cursor.  Addresses are  *)
(* words of WordSize values, as uint32_t is in the code: additions wrap.   *)
(* The recycle pool is left out (module PhysicalAllocator has it), so this *)
(* is a machine where nothing is ever freed.                               *)
(***************************************************************************)
EXTENDS Integers, SequencesExt

CONSTANTS
    Maps,           \* memory maps the loader may pass
    PageSize,
    WordSize,       \* 2^32
    MinimumAddr,    \* the larger of 1 MB and the aligned end of the kernel
    MaxRegions      \* MAX_USABLE_REGIONS

\* Map entries carry 64-bit base and length: they do not wrap.
ASSUME MapAssumption ==
    /\ PageSize \in Nat \ {0}
    /\ WordSize \in Nat /\ WordSize % PageSize = 0
    /\ MinimumAddr \in Nat /\ MinimumAddr < WordSize /\ MinimumAddr % PageSize = 0
    /\ MaxRegions \in Nat
    /\ \A m \in Maps : m \in Seq([addr : Nat, len : Nat, usable : BOOLEAN])

VARIABLES
    map,        \* the Multiboot memory map of this boot
    entry,      \* the entry that physical_allocator_init reads next
    regions,    \* physical_regions
    cursor,     \* physical_region_cursor
    handed,     \* the frames alloc_page returned, in order
    refused     \* did alloc_page ever return 0 for lack of a region

vars == <<map, entry, regions, cursor, handed, refused>>

Wrap(x) == x % WordSize
AlignDown(x) == x - (x % PageSize)
AlignUp(x) == AlignDown(Wrap(x + PageSize - 1))
ClampedEnd(e) ==
    IF e.addr + e.len > WordSize - 1 THEN WordSize - 1 ELSE e.addr + e.len
AtLeastMinimum(x) == IF x < MinimumAddr THEN MinimumAddr ELSE x

\* Mutant of RegionOf: the start is rounded down.
RegionOfRoundedDown(e) ==
    [start   |-> AlignDown(AtLeastMinimum(e.addr)),
     current |-> AlignDown(AtLeastMinimum(e.addr)),
     end     |-> AlignDown(ClampedEnd(e))]

RegionOf(e) ==
    [start   |-> AlignUp(AtLeastMinimum(e.addr)),
     current |-> AlignUp(AtLeastMinimum(e.addr)),
     end     |-> AlignDown(ClampedEnd(e))]

\* A boot without a memory map is one whose map is empty.
Init ==
    /\ map \in Maps
    /\ entry = 1
    /\ regions = <<>>
    /\ cursor = 1
    /\ handed = <<>>
    /\ refused = FALSE

\* The loop of physical_allocator_init, entry by entry.
Reading == entry <= Len(map) /\ Len(regions) < MaxRegions

Below4GB(e) == e.usable /\ e.addr < WordSize

Accepted(e) ==
    /\ Below4GB(e)
    /\ RegionOf(e).end > RegionOf(e).start

ReadEntry ==
    /\ Reading
    /\ regions' = IF Accepted(map[entry]) THEN Append(regions, RegionOf(map[entry]))
                  ELSE regions
    /\ entry' = entry + 1
    /\ UNCHANGED <<map, cursor, handed, refused>>

\* The regions from the cursor on that pass the code's test; the first serves.
\* Mutant of HasRoom: the last page of a region is never handed out.
HasRoomBeyond(r) == Wrap(r.current + PageSize) < r.end
HasRoom(r) == Wrap(r.current + PageSize) <= r.end
Roomy == {i \in cursor..Len(regions) : HasRoom(regions[i])}
Serving == Min(Roomy)

\* Mutant of AllocFresh: the region's current address does not move.
AllocFreshInPlace ==
    /\ ~Reading /\ Roomy # {}
    /\ cursor' = Serving
    /\ handed' = Append(handed, regions[Serving].current)
    /\ UNCHANGED <<map, entry, regions, refused>>

AllocFresh ==
    /\ ~Reading /\ Roomy # {}
    /\ cursor' = Serving
    /\ handed' = Append(handed, regions[Serving].current)
    /\ regions' = [regions EXCEPT ![Serving].current = Wrap(@ + PageSize)]
    /\ UNCHANGED <<map, entry, refused>>

AllocRefused ==
    /\ ~Reading /\ Roomy = {}
    /\ cursor' = Len(regions) + 1
    /\ refused' = TRUE
    /\ UNCHANGED <<map, entry, regions, handed>>

Next == ReadEntry \/ AllocFresh \/ AllocRefused

Spec == Init /\ [][Next]_vars

-----------------------------------------------------------------------------
\* Usable entries below 4 GB end before its last page: in a region that ends
\* there the code's room test wraps.
BelowTop ==
    \A m \in Maps : \A i \in 1..Len(m) :
        Below4GB(m[i]) => m[i].addr + m[i].len < WordSize - PageSize

\* No byte of memory is in two of them.
NoOverlap ==
    \A m \in Maps : \A i, j \in 1..Len(m) :
        i # j /\ Below4GB(m[i]) /\ Below4GB(m[j])
            => \/ m[i].addr + m[i].len <= m[j].addr
               \/ m[j].addr + m[j].len <= m[i].addr

\* Page a lies wholly inside a usable entry and above the kernel.
UsablePage(a) ==
    /\ a >= MinimumAddr
    /\ \E i \in DOMAIN map :
          /\ map[i].usable
          /\ map[i].addr <= a
          /\ a + PageSize <= map[i].addr + map[i].len

WholePages == {PageSize * k : k \in 0..((WordSize \div PageSize) - 1)}

\* The allocator is "built from usable Multiboot regions": every frame it
\* returns lies in one of them, whole, and above the kernel.
OnlyUsableFrames ==
    \A i \in 1..Len(handed) : UsablePage(handed[i])

\* No step returns a frame that an earlier one returned, or any frame once a
\* request was refused: callers treat a refusal as the end of memory.
FreshOnce ==
    [][handed' # handed => ~refused /\ Last(handed') \notin ToSet(handed)]_vars

\* A refusal means that every whole page of usable memory above the kernel
\* was handed out; only a map of more than MaxRegions entries hides some.
RefusedOnlyWhenExhausted ==
    (refused /\ Len(map) <= MaxRegions) =>
       \A a \in WholePages : UsablePage(a) => a \in ToSet(handed)
=============================================================================
