---------------------- MODULE PhysicalAllocatorLemmas ----------------------
(***************************************************************************)
(* What one call of the page allocator does to its state, for every        *)
(* layout of memory and every pool and table size: the lemmas the proofs   *)
(* about its clients cite.                                                 *)
(***************************************************************************)
EXTENDS PhysicalAllocator, FiniteSetTheorems, TLAPS

\* Frames are page numbers from 1 MB up to the end of usable memory; page 0,
\* the refusal, is none.
LEMMA FramesBounded ==
    /\ Frames \subseteq LowMem..(Highest - 1)
    /\ NoPage \notin Frames
    /\ IsFiniteSet(Frames)
<1>1. Len(Layout) \in Nat /\ \A i \in 1..Len(Layout) : Layout[i] \in LowMem..(Highest - 1)
  BY LayoutAssumption
<1>2. Frames \subseteq LowMem..(Highest - 1)
  BY <1>1 DEF Frames
<1>3. NoPage \notin Frames
  BY <1>2, LayoutAssumption DEF NoPage
<1>4. IsFiniteSet(LowMem..(Highest - 1))
  BY FS_Interval, LayoutAssumption
<1> QED
  BY <1>2, <1>3, <1>4, FS_Subset

\* The frames handed out, held, pooled or tracked are frames, finitely many.
LEMMA SetsOfFrames ==
    ASSUME NEW m \in AllocatorStates
    PROVE  /\ HandedOut(m) \subseteq Frames /\ IsFiniteSet(HandedOut(m))
           /\ Held(m) \subseteq Frames /\ IsFiniteSet(Held(m))
           /\ TrackedFrames(m) \subseteq Frames /\ IsFiniteSet(TrackedFrames(m))
           /\ Elems(m.pool) \subseteq Frames
<1>1. m.next \in 1..(Len(Layout) + 1) /\ m.pool \in Seq(Frames)
  BY DEF AllocatorStates
<1>2. Len(Layout) \in Nat
  BY LayoutAssumption
<1>3. HandedOut(m) \subseteq Frames
  BY <1>1, <1>2 DEF HandedOut, Frames
<1>4. Held(m) \subseteq Frames /\ TrackedFrames(m) \subseteq Frames
  BY <1>3 DEF Held, TrackedFrames
<1>5. Elems(m.pool) \subseteq Frames
  BY <1>1 DEF Elems
<1> QED
  BY <1>3, <1>4, <1>5, FramesBounded, FS_Subset

-----------------------------------------------------------------------------
\* Recording an owner changes one entry at most, and never overfills the table.
LEMMA SetOwnerEffect ==
    ASSUME NEW m \in AllocatorStates,
           Cardinality(TrackedFrames(m)) <= OwnerTrackMax,
           NEW p \in Frames, NEW o \in OwnerEntries \ {"UNTRACKED"},
           NEW n, n = SetOwner(m, p, o)
    PROVE  /\ n \in AllocatorStates
           /\ n.next = m.next /\ n.pool = m.pool /\ n.used = m.used /\ n.drops = m.drops
           /\ \A q \in Frames \ {p} : n.owner[q] = m.owner[q]
           /\ IF Trackable(m, p) THEN n.owner[p] = o
                                 ELSE n.owner[p] = "UNTRACKED"
           /\ TrackedFrames(m) \subseteq TrackedFrames(n)
           /\ TrackedFrames(n) \subseteq TrackedFrames(m) \cup {p}
           /\ Cardinality(TrackedFrames(n)) <= OwnerTrackMax
<1>1. CASE ~Trackable(m, p)
  <2>1. n = m
    BY <1>1 DEF SetOwner
  <2>2. m.owner[p] = "UNTRACKED"
    BY <1>1 DEF Trackable, TrackedFrames
  <2> QED
    BY <1>1, <2>1, <2>2
<1>2. CASE Trackable(m, p)
  <2>1. n = [m EXCEPT !.owner = [m.owner EXCEPT ![p] = o]]
    BY <1>2 DEF SetOwner
  <2>2. m.owner \in [Frames -> OwnerEntries]
    BY DEF AllocatorStates
  <2>3. n.owner = [m.owner EXCEPT ![p] = o] /\ n.owner \in [Frames -> OwnerEntries]
    BY <2>1, <2>2 DEF AllocatorStates
  <2>4. n \in AllocatorStates /\ n.next = m.next /\ n.pool = m.pool
                              /\ n.used = m.used /\ n.drops = m.drops
    BY <2>1, <2>3 DEF AllocatorStates
  <2>5. (\A q \in Frames \ {p} : n.owner[q] = m.owner[q]) /\ n.owner[p] = o
    BY <2>2, <2>3
  <2>6. TrackedFrames(n) = TrackedFrames(m) \cup {p}
    BY <2>5 DEF TrackedFrames
  <2>7. Cardinality(TrackedFrames(n)) <= OwnerTrackMax
    <3>1. CASE p \in TrackedFrames(m)
      <4>1. TrackedFrames(n) = TrackedFrames(m)
        BY <2>6, <3>1
      <4> QED
        BY <4>1
    <3>2. CASE p \notin TrackedFrames(m)
      <4>1. Cardinality(TrackedFrames(m)) < OwnerTrackMax
        BY <1>2, <3>2 DEF Trackable
      <4>2. Cardinality(TrackedFrames(n)) = Cardinality(TrackedFrames(m)) + 1
        BY <2>6, <3>2, SetsOfFrames, FS_AddElement
      <4>3. Cardinality(TrackedFrames(m)) \in Nat
        BY SetsOfFrames, FS_CardinalityType
      <4> QED
        BY <4>1, <4>2, <4>3, CapacityAssumption
    <3> QED
      BY <3>1, <3>2
  <2> QED
    BY <1>2, <2>4, <2>5, <2>6, <2>7
<1> QED
  BY <1>1, <1>2

\* A client relabelling a frame it holds keeps the allocator sound and holds
\* on to every frame that was held.
LEMMA LabelPreserves ==
    ASSUME NEW m, AllocatorSound(m),
           NEW p \in Held(m), NEW o \in HeldOwners,
           NEW n, n = SetOwner(m, p, o)
    PROVE  AllocatorSound(n) /\ Held(n) = Held(m)
<1>1. m \in AllocatorStates /\ WithinCapacity(m) /\ FreeListSound(m) /\ Accounted(m)
      /\ TrackedFrames(m) \subseteq HandedOut(m)
  BY DEF AllocatorSound
<1>2. p \in Frames /\ p \in HandedOut(m) /\ p \notin Elems(m.pool)
  BY <1>1, SetsOfFrames DEF Held
<1>3. o \in OwnerEntries \ {"UNTRACKED"} /\ o # "FREE"
  BY DEF HeldOwners, LeafOwners, OwnerEntries
<1>4. /\ n \in AllocatorStates
      /\ n.next = m.next /\ n.pool = m.pool /\ n.used = m.used /\ n.drops = m.drops
      /\ \A q \in Frames \ {p} : n.owner[q] = m.owner[q]
      /\ n.owner[p] \in {o, "UNTRACKED"}
      /\ TrackedFrames(n) \subseteq TrackedFrames(m) \cup {p}
      /\ Cardinality(TrackedFrames(n)) <= OwnerTrackMax
  BY <1>1, <1>2, <1>3, SetOwnerEffect DEF WithinCapacity
<1>5. HandedOut(n) = HandedOut(m) /\ Held(n) = Held(m)
  BY <1>4 DEF HandedOut, Held
<1>6. Accounted(n)
  BY <1>1, <1>4, <1>5 DEF Accounted
<1>7. FreeListSound(n)
  <2>1. m.owner[p] # "FREE"
    BY <1>1, <1>2 DEF FreeListSound
  <2>2. {q \in Frames : n.owner[q] = "FREE"} = {q \in Frames : m.owner[q] = "FREE"}
    BY <1>2, <1>3, <1>4, <2>1
  <2> QED
    BY <1>1, <1>4, <1>5, <2>2 DEF FreeListSound
<1> QED
  BY <1>1, <1>2, <1>4, <1>5, <1>6, <1>7 DEF AllocatorSound, WithinCapacity

-----------------------------------------------------------------------------
\* Two fields of the allocator's state written at once.
LEMMA PoolUpdate ==
    ASSUME NEW m \in AllocatorStates, NEW s \in Seq(Frames), NEW u \in Nat
    PROVE  /\ WithPool(m, s, u) \in AllocatorStates
           /\ WithPool(m, s, u).next = m.next
           /\ WithPool(m, s, u).owner = m.owner
           /\ WithPool(m, s, u).drops = m.drops
           /\ WithPool(m, s, u).pool = s
           /\ WithPool(m, s, u).used = u
BY DEF AllocatorStates, WithPool

LEMMA NextUpdate ==
    ASSUME NEW m \in AllocatorStates, NEW k \in 1..(Len(Layout) + 1), NEW u \in Nat
    PROVE  /\ WithNext(m, k, u) \in AllocatorStates
           /\ WithNext(m, k, u).next = k
           /\ WithNext(m, k, u).owner = m.owner
           /\ WithNext(m, k, u).drops = m.drops
           /\ WithNext(m, k, u).pool = m.pool
           /\ WithNext(m, k, u).used = u
BY DEF AllocatorStates, WithNext

LEMMA DropUpdate ==
    ASSUME NEW m \in AllocatorStates, NEW u \in Nat
    PROVE  /\ WithDrop(m, u) \in AllocatorStates
           /\ WithDrop(m, u).next = m.next
           /\ WithDrop(m, u).owner = m.owner
           /\ WithDrop(m, u).drops = m.drops + 1
           /\ WithDrop(m, u).pool = m.pool
           /\ WithDrop(m, u).used = u
<1>1. m.drops \in Nat /\ m.drops + 1 \in Nat
  BY DEF AllocatorStates
<1>2. WithDrop(m, u).drops = m.drops + 1
  BY DEF AllocatorStates, WithDrop
<1>3. /\ WithDrop(m, u).next = m.next /\ WithDrop(m, u).owner = m.owner
      /\ WithDrop(m, u).pool = m.pool /\ WithDrop(m, u).used = u
  BY DEF AllocatorStates, WithDrop
<1>4. WithDrop(m, u) \in AllocatorStates
  BY <1>1 DEF AllocatorStates, WithDrop
<1> QED
  BY <1>2, <1>3, <1>4

\* alloc_page with a frame in the recycle pool: the pool gives up its last
\* frame, which nobody held.
LEMMA AllocRecycled ==
    ASSUME NEW m, AllocatorSound(m), m.pool # <<>>,
           NEW n, n = AfterAlloc(m),
           NEW p, p = AllocPage(m)
    PROVE  /\ AllocatorSound(n)
           /\ p \in Frames \ Held(m)
           /\ Held(n) = Held(m) \cup {p}
<1> DEFINE t == Taken(m)
<1>1. m \in AllocatorStates /\ WithinCapacity(m) /\ FreeListSound(m) /\ Accounted(m)
      /\ TrackedFrames(m) \subseteq HandedOut(m)
  BY DEF AllocatorSound
<1>2. m.pool \in Seq(Frames) /\ Len(m.pool) \in Nat \ {0} /\ RecycleMax \in Nat
  BY <1>1, CapacityAssumption DEF AllocatorStates
<1>3. p = m.pool[Len(m.pool)] /\ p \in Elems(m.pool) /\ p \in Frames
  BY <1>2 DEF AllocPage, Elems
<1>4. p # NoPage
  BY <1>3, FramesBounded
<1>5. /\ t.next = m.next /\ t.owner = m.owner /\ t.drops = m.drops /\ t.used = m.used + 1
      /\ t.pool = SubSeq(m.pool, 1, Len(m.pool) - 1)
      /\ t \in AllocatorStates
  <2>1. t = WithPool(m, SubSeq(m.pool, 1, Len(m.pool) - 1), m.used + 1)
    BY DEF Taken
  <2>2. SubSeq(m.pool, 1, Len(m.pool) - 1) \in Seq(Frames)
    BY <1>2
  <2>3. m.used + 1 \in Nat
    BY <1>1 DEF AllocatorStates
  <2> HIDE DEF t
  <2> QED
    BY <1>1, <2>1, <2>2, <2>3, PoolUpdate
<1> HIDE DEF t
<1>6. /\ t.pool \in Seq(Frames) /\ Len(t.pool) = Len(m.pool) - 1
      /\ \A i \in 1..Len(t.pool) : t.pool[i] = m.pool[i]
  BY <1>2, <1>5
<1>7. /\ \A i, j \in 1..Len(t.pool) : t.pool[i] = t.pool[j] => i = j
      /\ Elems(t.pool) = Elems(m.pool) \ {p}
  <2>1. \A i, j \in 1..Len(m.pool) : m.pool[i] = m.pool[j] => i = j
    BY <1>1 DEF FreeListSound
  <2>2. 1..Len(m.pool) = 1..Len(t.pool) \cup {Len(m.pool)} /\ Len(m.pool) \notin 1..Len(t.pool)
    BY <1>2, <1>6
  <2>3. \A i, j \in 1..Len(t.pool) : t.pool[i] = t.pool[j] => i = j
    BY <1>6, <2>1, <2>2
  <2>4. Elems(t.pool) = {m.pool[i] : i \in 1..Len(t.pool)}
    BY <1>6 DEF Elems
  <2>5. \A i \in 1..Len(t.pool) : m.pool[i] # p
    BY <1>2, <1>3, <2>1, <2>2
  <2>6. Elems(m.pool) = Elems(t.pool) \cup {p} /\ p \notin Elems(t.pool)
    BY <1>3, <2>2, <2>4, <2>5 DEF Elems
  <2> QED
    BY <2>3, <2>6
<1>8. n = SetOwner(t, p, "ALLOCATOR")
  BY <1>3, <1>4 DEF AfterAlloc, t
<1>9. TrackedFrames(t) = TrackedFrames(m) /\ p \in TrackedFrames(m) /\ Trackable(t, p)
  BY <1>1, <1>3, <1>5 DEF FreeListSound, TrackedFrames, Trackable
<1>10. /\ n \in AllocatorStates
       /\ n.next = m.next /\ n.pool = t.pool /\ n.used = m.used + 1 /\ n.drops = m.drops
       /\ \A q \in Frames \ {p} : n.owner[q] = m.owner[q]
       /\ n.owner[p] = "ALLOCATOR"
       /\ TrackedFrames(n) \subseteq TrackedFrames(m)
       /\ Cardinality(TrackedFrames(n)) <= OwnerTrackMax
  BY <1>1, <1>3, <1>5, <1>8, <1>9, SetOwnerEffect
     DEF WithinCapacity, OwnerEntries, HeldOwners, LeafOwners
<1>11. HandedOut(n) = HandedOut(m) /\ p \in HandedOut(m)
  BY <1>1, <1>3, <1>10 DEF HandedOut, FreeListSound
<1>12. p \notin Held(m) /\ Held(n) = Held(m) \cup {p}
  BY <1>3, <1>7, <1>10, <1>11 DEF Held
<1>13. Accounted(n)
  <2>1. Cardinality(Held(n)) = Cardinality(Held(m)) + 1 /\ Cardinality(Held(m)) \in Nat
    BY <1>1, <1>12, SetsOfFrames, FS_AddElement, FS_CardinalityType
  <2> QED
    BY <1>1, <1>10, <2>1 DEF Accounted, AllocatorStates
<1>14. FreeListSound(n)
  <2>1. {q \in Frames : n.owner[q] = "FREE"} = {q \in Frames : m.owner[q] = "FREE"} \ {p}
    BY <1>3, <1>10
  <2> QED
    BY <1>1, <1>7, <1>10, <1>11, <2>1 DEF FreeListSound
<1>15. WithinCapacity(n)
  BY <1>1, <1>2, <1>6, <1>10 DEF WithinCapacity
<1> QED
  BY <1>1, <1>3, <1>10, <1>11, <1>12, <1>13, <1>14, <1>15 DEF AllocatorSound

\* alloc_page with an empty pool and a region left: the next frame of the
\* walk, which nobody ever held.
LEMMA AllocUntouched ==
    ASSUME NEW m, AllocatorSound(m), m.pool = <<>>, m.next <= Len(Layout),
           NEW n, n = AfterAlloc(m),
           NEW p, p = AllocPage(m)
    PROVE  /\ AllocatorSound(n)
           /\ p \in Frames \ Held(m)
           /\ Held(n) = Held(m) \cup {p}
<1> DEFINE t == Taken(m)
<1>1. m \in AllocatorStates /\ WithinCapacity(m) /\ FreeListSound(m) /\ Accounted(m)
      /\ TrackedFrames(m) \subseteq HandedOut(m)
  BY DEF AllocatorSound
<1>2. m.next \in 1..Len(Layout) /\ Len(Layout) \in Nat
  BY <1>1, LayoutAssumption DEF AllocatorStates
<1>3. p = Layout[m.next] /\ p \in Frames
  BY <1>2 DEF AllocPage, Frames
<1>4. p # NoPage
  BY <1>3, FramesBounded
<1>5. /\ t.next = m.next + 1 /\ t.owner = m.owner /\ t.drops = m.drops
      /\ t.used = m.used + 1 /\ t.pool = <<>>
      /\ t \in AllocatorStates
  <2>1. t = WithNext(m, m.next + 1, m.used + 1)
    BY DEF Taken
  <2>2. m.used + 1 \in Nat /\ m.next + 1 \in 1..(Len(Layout) + 1)
    BY <1>1, <1>2 DEF AllocatorStates
  <2> HIDE DEF t
  <2> QED
    BY <1>1, <2>1, <2>2, NextUpdate
<1>6. n = SetOwner(t, p, "ALLOCATOR")
  BY <1>3, <1>4 DEF AfterAlloc
<1> HIDE DEF t
<1>7. TrackedFrames(t) = TrackedFrames(m)
  BY <1>5 DEF TrackedFrames
<1>8. /\ n \in AllocatorStates
      /\ n.next = m.next + 1 /\ n.pool = <<>> /\ n.used = m.used + 1 /\ n.drops = m.drops
      /\ \A q \in Frames \ {p} : n.owner[q] = m.owner[q]
      /\ n.owner[p] \in {"ALLOCATOR", "UNTRACKED"}
      /\ TrackedFrames(n) \subseteq TrackedFrames(m) \cup {p}
      /\ Cardinality(TrackedFrames(n)) <= OwnerTrackMax
  BY <1>1, <1>3, <1>5, <1>6, <1>7, SetOwnerEffect
     DEF WithinCapacity, OwnerEntries, HeldOwners, LeafOwners
<1>9. HandedOut(n) = HandedOut(m) \cup {p} /\ p \notin HandedOut(m)
  <2>1. 1..(n.next - 1) = 1..(m.next - 1) \cup {m.next} /\ m.next \notin 1..(m.next - 1)
    BY <1>2, <1>8
  <2>2. ASSUME NEW i \in 1..(m.next - 1)
        PROVE  Layout[i] # Layout[m.next]
    <3>1. /\ i \in 1..Len(Layout) /\ m.next \in 1..Len(Layout)
          /\ i # m.next
      BY <1>2, LayoutAssumption
    <3> QED
      BY <3>1, LayoutAssumption, Zenon
  <2> QED
    BY <1>3, <2>1, <2>2 DEF HandedOut
<1>10. Elems(m.pool) = {} /\ Elems(n.pool) = {}
  BY <1>8 DEF Elems
<1>11. p \notin Held(m) /\ Held(n) = Held(m) \cup {p}
  BY <1>9, <1>10 DEF Held
<1>12. Accounted(n)
  <2>1. Cardinality(Held(n)) = Cardinality(Held(m)) + 1 /\ Cardinality(Held(m)) \in Nat
    BY <1>1, <1>11, SetsOfFrames, FS_AddElement, FS_CardinalityType
  <2> QED
    BY <1>1, <1>8, <2>1 DEF Accounted, AllocatorStates
<1>13. FreeListSound(n)
  <2>1. {q \in Frames : n.owner[q] = "FREE"} = {}
    BY <1>1, <1>8, <1>10 DEF FreeListSound
  <2> QED
    BY <1>8, <1>10, <2>1 DEF FreeListSound
<1>14. WithinCapacity(n)
  BY <1>8, CapacityAssumption DEF WithinCapacity
<1> QED
  BY <1>1, <1>3, <1>8, <1>9, <1>11, <1>12, <1>13, <1>14 DEF AllocatorSound

\* alloc_page refuses only when every frame of the machine is held, and then
\* changes nothing.
LEMMA AllocRefused ==
    ASSUME NEW m, AllocatorSound(m), m.pool = <<>>, ~(m.next <= Len(Layout))
    PROVE  AllocPage(m) = NoPage /\ AfterAlloc(m) = m /\ Held(m) = Frames
<1>1. m \in AllocatorStates
  BY DEF AllocatorSound
<1>2. m.next - 1 = Len(Layout)
  BY <1>1, LayoutAssumption DEF AllocatorStates
<1>3. AllocPage(m) = NoPage /\ AfterAlloc(m) = m
  BY DEF AllocPage, AfterAlloc
<1>4. Held(m) = Frames
  BY <1>2 DEF Held, HandedOut, Frames, Elems
<1> QED
  BY <1>3, <1>4

-----------------------------------------------------------------------------
\* free_page that is turned away changes nothing; one that finds the pool full
\* loses the frame; any other returns it to the pool.
LEMMA FreePreserves ==
    ASSUME NEW m, AllocatorSound(m), NEW p \in Nat,
           NEW n, n = AfterFree(m, p)
    PROVE  /\ AllocatorSound(n)
           /\ \/ Held(n) = Held(m)
              \/ p \in Held(m) /\ OwnerGet(m, p) # "PAGING_STRUCTURE" /\ Held(n) = Held(m) \ {p}
<1>1. m \in AllocatorStates /\ WithinCapacity(m) /\ FreeListSound(m) /\ Accounted(m)
      /\ TrackedFrames(m) \subseteq HandedOut(m)
  BY DEF AllocatorSound
<1>2. CASE ~FreeAccepted(m, p)
  BY <1>2 DEF AfterFree
<1>3. CASE FreeAccepted(m, p)
  <2>1. p \in Frames /\ p \in HandedOut(m) /\ p \in TrackedFrames(m) /\ p \notin Elems(m.pool)
        /\ OwnerGet(m, p) # "PAGING_STRUCTURE" /\ m.owner[p] # "FREE"
    BY <1>1, <1>3 DEF FreeAccepted, OwnerGet, TrackedFrames
  <2>2. p \in Held(m)
    BY <2>1 DEF Held
  <2>3. Uncounted(m) \in Nat
    BY <1>1 DEF Uncounted, AllocatorStates
  <2>4. Cardinality(Held(m)) \in Nat /\ Cardinality(Held(m)) > 0
    BY <1>1, <2>2, SetsOfFrames, FS_CardinalityType, FS_EmptySet
  <2>5. CASE Len(m.pool) < RecycleMax
    <3> DEFINE t == WithPool(m, Append(m.pool, p), Uncounted(m))
    <3>1. n = SetOwner(t, p, "FREE")
      BY <1>3, <2>5 DEF AfterFree
    <3>2. m.pool \in Seq(Frames) /\ Len(m.pool) \in Nat
      BY <1>1 DEF AllocatorStates
    <3>3. /\ t.next = m.next /\ t.owner = m.owner /\ t.drops = m.drops
          /\ t.used = Uncounted(m) /\ t.pool = Append(m.pool, p)
          /\ t \in AllocatorStates
      <4> DEFINE s == Append(m.pool, p)
                 u == Uncounted(m)
      <4>1. s \in Seq(Frames) /\ u \in Nat /\ m \in AllocatorStates
        BY <1>1, <2>1, <2>3, <3>2
      <4>2. t = WithPool(m, s, u)
        OBVIOUS
      <4> HIDE DEF s, u, t
      <4>3. /\ t.next = m.next /\ t.owner = m.owner /\ t.drops = m.drops
            /\ t.used = u /\ t.pool = s /\ t \in AllocatorStates
        BY <4>1, <4>2, PoolUpdate
      <4> QED
        BY <4>3 DEF s, u
    <3> HIDE DEF t
    <3>4. TrackedFrames(t) = TrackedFrames(m) /\ Trackable(t, p)
      BY <2>1, <3>3 DEF TrackedFrames, Trackable
    <3>5. /\ n \in AllocatorStates
          /\ n.next = m.next /\ n.pool = Append(m.pool, p)
          /\ n.used = Uncounted(m) /\ n.drops = m.drops
          /\ \A q \in Frames \ {p} : n.owner[q] = m.owner[q]
          /\ n.owner[p] = "FREE"
          /\ TrackedFrames(n) \subseteq TrackedFrames(m) \cup {p}
          /\ Cardinality(TrackedFrames(n)) <= OwnerTrackMax
      BY <1>1, <2>1, <3>1, <3>3, <3>4, SetOwnerEffect DEF WithinCapacity, OwnerEntries
    <3>6. /\ Elems(n.pool) = Elems(m.pool) \cup {p}
          /\ \A i, j \in 1..Len(n.pool) : n.pool[i] = n.pool[j] => i = j
          /\ Len(n.pool) = Len(m.pool) + 1
      <4>1. /\ Len(n.pool) = Len(m.pool) + 1
            /\ n.pool[Len(m.pool) + 1] = p
            /\ \A i \in 1..Len(m.pool) : n.pool[i] = m.pool[i]
        BY <3>2, <3>5, <2>1
      <4>2. 1..Len(n.pool) = 1..Len(m.pool) \cup {Len(m.pool) + 1}
        BY <3>2, <4>1
      <4>3. \A i, j \in 1..Len(m.pool) : m.pool[i] = m.pool[j] => i = j
        BY <1>1 DEF FreeListSound
      <4>4. \A i \in 1..Len(m.pool) : m.pool[i] # p
        BY <2>1 DEF Elems
      <4>5. ASSUME NEW i \in 1..Len(n.pool), NEW j \in 1..Len(n.pool), n.pool[i] = n.pool[j]
            PROVE  i = j
        <5>1. CASE i \in 1..Len(m.pool) /\ j \in 1..Len(m.pool)
          BY <4>1, <4>3, <4>5, <5>1
        <5>2. CASE i = Len(m.pool) + 1 \/ j = Len(m.pool) + 1
          BY <4>1, <4>2, <4>4, <4>5, <5>2
        <5> QED
          BY <4>2, <5>1, <5>2
      <4>6. Elems(n.pool) = Elems(m.pool) \cup {p}
        BY <4>1, <4>2 DEF Elems
      <4> QED
        BY <4>1, <4>5, <4>6
    <3>7. HandedOut(n) = HandedOut(m) /\ Held(n) = Held(m) \ {p}
      BY <3>5, <3>6 DEF HandedOut, Held
    <3>8. FreeListSound(n)
      <4>1. {q \in Frames : n.owner[q] = "FREE"} = {q \in Frames : m.owner[q] = "FREE"} \cup {p}
        BY <2>1, <3>5
      <4> QED
        BY <1>1, <2>1, <3>6, <3>7, <4>1 DEF FreeListSound
    <3>9. Accounted(n)
      <4>1. Cardinality(Held(n)) = Cardinality(Held(m)) - 1
        BY <1>1, <2>2, <3>7, SetsOfFrames, FS_RemoveElement
      <4> QED
        BY <1>1, <2>3, <2>4, <3>5, <4>1 DEF Accounted, AllocatorStates, Uncounted
    <3> QED
      BY <1>1, <2>1, <2>2, <2>5, <3>2, <3>5, <3>6, <3>7, <3>8, <3>9, CapacityAssumption
         DEF AllocatorSound, WithinCapacity
  <2>6. CASE ~(Len(m.pool) < RecycleMax)
    <3>1. n = WithDrop(m, Uncounted(m))
      BY <1>3, <2>6 DEF AfterFree
    <3>2. /\ n.next = m.next /\ n.pool = m.pool /\ n.owner = m.owner
          /\ n.used = Uncounted(m) /\ n.drops = m.drops + 1
          /\ n \in AllocatorStates
      <4>1. m \in AllocatorStates
        BY <1>1
      <4>2. n \in AllocatorStates
        BY <2>3, <3>1, <4>1, DropUpdate
      <4>3. n.next = m.next /\ n.pool = m.pool /\ n.owner = m.owner
        BY <2>3, <3>1, <4>1, DropUpdate
      <4>4. n.used = Uncounted(m)
        BY <2>3, <3>1, <4>1, DropUpdate
      <4>5. n.drops = m.drops + 1
        BY <2>3, <3>1, <4>1, DropUpdate
      <4> QED
        BY <4>2, <4>3, <4>4, <4>5
    <3>3. Held(n) = Held(m) /\ HandedOut(n) = HandedOut(m) /\ TrackedFrames(n) = TrackedFrames(m)
      BY <3>2 DEF Held, HandedOut, TrackedFrames
    <3>4. Accounted(n)
      BY <1>1, <2>3, <2>4, <3>2, <3>3 DEF Accounted, AllocatorStates, Uncounted
    <3>5. FreeListSound(n)
      BY <1>1, <3>2, <3>3 DEF FreeListSound
    <3> QED
      BY <1>1, <3>2, <3>3, <3>4, <3>5 DEF AllocatorSound, WithinCapacity
  <2> QED
    BY <2>5, <2>6
<1> QED
  BY <1>2, <1>3

-----------------------------------------------------------------------------
\* The allocator before its first call.
LEMMA FreshSound ==
    /\ AllocatorSound(FreshAllocator) /\ Held(FreshAllocator) = {}
    /\ FreshAllocator.pool = <<>> /\ FreshAllocator.next = 1
<1> DEFINE m == FreshAllocator
<1>1. /\ m.next = 1 /\ m.pool = <<>> /\ m.used = 0 /\ m.drops = 0
      /\ \A p \in Frames : m.owner[p] = "UNTRACKED"
      /\ m \in AllocatorStates
  BY LayoutAssumption DEF FreshAllocator, AllocatorStates, OwnerEntries
<1> HIDE DEF m
<1>2. HandedOut(m) = {} /\ Elems(m.pool) = {} /\ TrackedFrames(m) = {} /\ Held(m) = {}
  BY <1>1 DEF HandedOut, Elems, TrackedFrames, Held
<1>3. Cardinality({}) = 0
  BY FS_EmptySet
<1>4. {p \in Frames : m.owner[p] = "FREE"} = {}
  BY <1>1
<1>5. Accounted(m)
  BY <1>1, <1>2, <1>3 DEF Accounted
<1>6. WithinCapacity(m)
  BY <1>1, <1>2, <1>3, CapacityAssumption DEF WithinCapacity
<1>7. FreeListSound(m)
  BY <1>1, <1>2, <1>4 DEF FreeListSound
<1>8. AllocatorSound(m)
  BY <1>1, <1>2, <1>5, <1>6, <1>7 DEF AllocatorSound
<1> QED
  BY <1>1, <1>2, <1>8 DEF m
=============================================================================
