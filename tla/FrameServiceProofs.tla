------------------------- MODULE FrameServiceProofs -------------------------
(***************************************************************************)
(* The physical page allocator keeps its promise to any clients, on any    *)
(* machine: the safety properties of FrameService and its refinement of    *)
(* FrameBroker.                                                            *)
(***************************************************************************)
EXTENDS FrameService, PhysicalAllocatorLemmas

\* The inductive invariant.  The owner table alone decides whether free_page
\* turns a frame away as a duplicate, so "free list" and "owner free" have to
\* be the same set for the pool to stay free of repetitions.
IInv ==
    /\ AllocatorSound(mem)
    /\ ret \in Frames \cup {NoPage}

LEMMA InitSound == Init => IInv
<1> SUFFICES ASSUME Init
             PROVE  IInv
  OBVIOUS
<1> QED
  BY FreshSound DEF IInv, Init

\* An allocation, whichever way it goes, hands out a frame nobody held or
\* refuses because every frame is held.
LEMMA AllocStep ==
    ASSUME IInv, Alloc
    PROVE  /\ IInv'
           /\ \/ /\ ret' \in Frames \ Held(mem)
                 /\ Held(mem') = Held(mem) \cup {ret'}
              \/ /\ ret' = NoPage
                 /\ Held(mem) = Frames
                 /\ mem' = mem
<1> USE DEF IInv, Alloc
<1>1. CASE mem.pool # <<>>
  BY <1>1, AllocRecycled
<1>2. CASE mem.pool = <<>> /\ mem.next <= Len(Layout)
  BY <1>2, AllocUntouched
<1>3. CASE mem.pool = <<>> /\ ~(mem.next <= Len(Layout))
  BY <1>3, AllocRefused
<1> QED
  BY <1>1, <1>2, <1>3

LEMMA LabelStep ==
    ASSUME IInv, NEW p \in Frames, NEW o \in Labels, Label(p, o)
    PROVE  IInv' /\ Held(mem') = Held(mem) /\ UNCHANGED ret
BY LabelPreserves, ServiceAssumption DEF IInv, Label

LEMMA FreeStep ==
    ASSUME IInv, NEW p \in 0..Highest, Free(p)
    PROVE  /\ IInv' /\ UNCHANGED ret
           /\ \/ Held(mem') = Held(mem)
              \/ /\ p \in Held(mem)
                 /\ OwnerGet(mem, p) # "PAGING_STRUCTURE"
                 /\ Held(mem') = Held(mem) \ {p}
<1>1. p \in Nat
  BY LayoutAssumption
<1> QED
  BY <1>1, FreePreserves DEF IInv, Free

LEMMA Inductive == IInv /\ [Next]_vars => IInv'
<1> SUFFICES ASSUME IInv, [Next]_vars
             PROVE  IInv'
  OBVIOUS
<1>1. CASE Alloc
  BY <1>1, AllocStep
<1>2. CASE \E p \in Frames, o \in Labels : Label(p, o)
  BY <1>2, LabelStep
<1>3. CASE \E p \in 0..Highest : Free(p)
  BY <1>3, FreeStep
<1>4. CASE UNCHANGED vars
  BY <1>4 DEF IInv, vars
<1> QED
  BY <1>1, <1>2, <1>3, <1>4 DEF Next

\* Every reachable state satisfies the inductive invariant.
THEOREM Soundness == Spec => []IInv
BY InitSound, Inductive, PTL DEF Spec

-----------------------------------------------------------------------------
\* The allocator's state is well formed and within its capacities.
THEOREM TypeCorrect == Spec => []TypeOK
<1>1. IInv => TypeOK
  BY DEF IInv, AllocatorSound, TypeOK
<1> QED
  BY <1>1, Soundness, PTL

\* The recycle pool is free of repetitions and is the owner table's free list:
\* no sequence of frees, double or foreign, puts a frame into it twice.
THEOREM FreeListCorrect == Spec => []PoolIsFreeList
<1>1. IInv => PoolIsFreeList
  BY DEF IInv, AllocatorSound, PoolIsFreeList
<1> QED
  BY <1>1, Soundness, PTL

\* The used-page counter brackets the frames really held, for every pool size.
THEOREM UsedCorrect == Spec => []UsedBracketsHeld
<1>1. IInv => UsedBracketsHeld
  BY DEF IInv, AllocatorSound, UsedBracketsHeld
<1> QED
  BY <1>1, Soundness, PTL

\* No call takes a frame away that is recorded as a paging structure.
THEOREM StructuresProtected == Spec => StructuresStayHeld
<1>1. ASSUME IInv, [Next]_vars, NEW p \in Frames, mem.owner[p] = "PAGING_STRUCTURE"
      PROVE  p \in Held(mem')
  <2>1. p \in Held(mem)
    BY <1>1 DEF IInv, AllocatorSound, FreeListSound, TrackedFrames, Held
  <2>2. OwnerGet(mem, p) = "PAGING_STRUCTURE"
    BY <1>1 DEF OwnerGet
  <2>3. CASE Alloc
    BY <1>1, <2>1, <2>3, AllocStep
  <2>4. CASE \E q \in Frames, o \in Labels : Label(q, o)
    BY <1>1, <2>1, <2>4, LabelStep
  <2>5. CASE \E q \in 0..Highest : Free(q)
    BY <1>1, <2>1, <2>2, <2>5, FreeStep
  <2>6. CASE UNCHANGED vars
    BY <2>1, <2>6 DEF vars
  <2> QED
    BY <1>1, <2>3, <2>4, <2>5, <2>6 DEF Next
<1>2. IInv /\ [Next]_vars =>
         [\A p \in Frames : mem.owner[p] = "PAGING_STRUCTURE" => p \in Held(mem)']_vars
  BY <1>1
<1> QED
  BY <1>2, Soundness, PTL DEF Spec, StructuresStayHeld

-----------------------------------------------------------------------------
\* The allocator implements the broker of frames: it never hands out a frame
\* that is held, and refuses only when every frame is.
THEOREM Refinement == Spec => ImplementsBroker
<1>1. Init => Broker!BrokerInit
  <2> SUFFICES ASSUME Init
               PROVE  Broker!BrokerInit
    OBVIOUS
  <2>1. Held(mem) = {}
    BY DEF Init, FreshAllocator, Held, HandedOut
  <2> QED
    BY <2>1 DEF Init, Broker!BrokerInit
<1>2. ASSUME IInv, [Next]_vars
      PROVE  [Broker!BrokerNext]_(Broker!brokerVars)
  <2> USE DEF Broker!BrokerNext, Broker!brokerVars
  <2>1. CASE Alloc
    <3>1. CASE ret' \in Frames \ Held(mem) /\ Held(mem') = Held(mem) \cup {ret'}
      BY <3>1 DEF Broker!Grant
    <3>2. CASE ret' = NoPage /\ Held(mem) = Frames /\ mem' = mem
      BY <3>2 DEF Broker!Refuse
    <3> QED
      BY <1>2, <2>1, <3>1, <3>2, AllocStep
  <2>2. CASE \E p \in Frames, o \in Labels : Label(p, o)
    BY <1>2, <2>2, LabelStep
  <2>3. CASE \E p \in 0..Highest : Free(p)
    <3>1. PICK p \in 0..Highest : Free(p)
      BY <2>3
    <3>2. CASE Held(mem') = Held(mem)
      BY <1>2, <3>1, <3>2, FreeStep
    <3>3. CASE p \in Held(mem) /\ Held(mem') = Held(mem) \ {p}
      <4>1. p \in Frames
        BY <1>2, <3>3, SetsOfFrames DEF IInv, AllocatorSound
      <4> QED
        BY <1>2, <3>1, <3>3, <4>1, FreeStep DEF Broker!TakeBack
    <3> QED
      BY <1>2, <3>1, <3>2, <3>3, FreeStep
  <2>4. CASE UNCHANGED vars
    BY <2>4 DEF vars
  <2> QED
    BY <1>2, <2>1, <2>2, <2>3, <2>4 DEF Next
<1> QED
  BY <1>1, <1>2, Soundness, PTL DEF Spec, ImplementsBroker, Broker!BrokerSpec
=============================================================================
