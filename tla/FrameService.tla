---------------------------- MODULE FrameService ----------------------------
(***************************************************************************)
(* The physical page allocator serving arbitrary clients: they allocate,   *)
(* label the frames they hold, and free anything, frames of others, frames *)
(* freed before and addresses that are no frames included.                 *)
(***************************************************************************)
EXTENDS PhysicalAllocator

CONSTANTS
    Labels,     \* the owners clients record
    MaxDrops    \* bound: frees that may find the pool full

ASSUME ServiceAssumption ==
    /\ Labels \subseteq HeldOwners
    /\ MaxDrops \in Nat

VARIABLES
    mem,    \* the allocator
    ret     \* what the latest alloc_page returned

vars == <<mem, ret>>

Init ==
    /\ mem = FreshAllocator
    /\ ret = NoPage

Alloc ==
    /\ mem' = AfterAlloc(mem)
    /\ ret' = AllocPage(mem)

Label(p, o) ==
    /\ p \in Held(mem)
    /\ mem' = SetOwner(mem, p, o)
    /\ UNCHANGED ret

Free(p) ==
    /\ AfterFree(mem, p).drops <= MaxDrops
    /\ mem' = AfterFree(mem, p)
    /\ UNCHANGED ret

Next ==
    \/ Alloc
    \/ \E p \in Frames, o \in Labels : Label(p, o)
    \/ \E p \in 0..Highest : Free(p)

Spec == Init /\ [][Next]_vars

-----------------------------------------------------------------------------
\* The allocator's state stays well formed: positions, counters and owners in
\* their ranges, the pool and the owner table within their capacities.
TypeOK ==
    /\ mem \in AllocatorStates
    /\ ret \in Frames \cup {NoPage}
    /\ WithinCapacity(mem)

\* The recycle pool never holds a frame twice, never one that the walk has not
\* reached, and its frames are exactly those the owner table calls free: the
\* duplicate test of free_page, which looks at the owner first, relies on it.
PoolIsFreeList == FreeListSound(mem)

\* allocstat's "Used pages" never exceeds the frames that are really held, and
\* falls short of them by no more than the recycle drops printed with it: the
\* frames that a full pool lost.
UsedBracketsHeld == Accounted(mem)

\* A paging structure cannot be freed from under the MMU: no call gives up
\* a frame recorded as one; it must be relabelled first.
StructuresStayHeld ==
    [][\A p \in Frames :
          mem.owner[p] = "PAGING_STRUCTURE" => p \in Held(mem)']_vars

\* alloc_page and free_page keep the allocator's promise: whatever is freed,
\* no frame is handed out while it is held, and none is refused while one is
\* free.
Broker == INSTANCE FrameBroker WITH
    Frames <- Frames, NoFrame <- NoPage, live <- Held(mem), got <- ret

ImplementsBroker == Broker!BrokerSpec
=============================================================================
