-------------------------- MODULE AddressSpacesProofs --------------------------
(***************************************************************************)
(* The address spaces of module AddressSpaces, for every layout of memory, *)
(* every pool and owner table, any number of slots and any commands: the   *)
(* state keeps its type, no frame serves two purposes, and every directory *)
(* and table is a held frame that the owner table protects.                *)
(*                                                                         *)
(* First the operations of the model, from the allocator's up to whole     *)
(* handlers, each taking a sane machine to a sane one; then one lemma per  *)
(* action; then these theorems.                                            *)
(*                                                                         *)
(* The second half is about what the operations leave of the task pages:   *)
(* without the program loaders, every slot keeps to its own area of the    *)
(* one shared directory, and its list and the page tables agree.           *)
(*                                                                         *)
(* The last part counts: what no page maps, no command keeps and no        *)
(* structure explains is what free_page dropped, if the owner table has    *)
(* room for every frame.                                                   *)
(***************************************************************************)
EXTENDS AddressTrees, WellFoundedInduction

-----------------------------------------------------------------------------
(* The allocator's steps, seen from the machine.                           *)

LEMMA Parts ==
    ASSUME NEW m, Typed(m)
    PROVE  /\ m.mem \in AllocatorStates /\ AllocatorSound(m.mem)
           /\ m.ram \in Memories /\ m.dir \in DirOwners /\ m.dead \in BOOLEAN
           /\ m.cr3 \in Frames /\ m.pages \in [Slots -> Seq(UserVAs)]
           /\ Held(m.mem) \subseteq Frames
           /\ m.mem.owner \in [Frames -> OwnerEntries]
           /\ Cardinality(TrackedFrames(m.mem)) <= OwnerTrackMax
<1>1. m \in Machines /\ AllocatorSound(m.mem)
  BY DEF Typed
<1>2. m.mem \in AllocatorStates
  BY <1>1 DEF Machines
<1> QED
  BY <1>1, <1>2, SetsOfFrames DEF Machines, AllocatorStates, AllocatorSound, WithinCapacity

\* The owner table has room for every frame.
LEMMA Room ==
    ASSUME Ample, NEW m \in AllocatorStates, NEW f \in Frames
    PROVE  Trackable(m, f)
<1>1. TrackedFrames(m) \subseteq Frames /\ IsFiniteSet(Frames)
  BY FramesBounded DEF TrackedFrames
<1>2. CASE f \notin TrackedFrames(m)
  <2>1. TrackedFrames(m) \subseteq Frames \ {f} /\ IsFiniteSet(Frames \ {f})
    BY <1>1, <1>2, FS_RemoveElement
  <2>2. Cardinality(TrackedFrames(m)) <= Cardinality(Frames \ {f})
    BY <2>1, FS_Subset
  <2>3. Cardinality(Frames \ {f}) = Cardinality(Frames) - 1
    BY <1>1, FS_RemoveElement
  <2>4. Cardinality(Frames) \in Nat /\ Cardinality(TrackedFrames(m)) \in Nat
    BY <1>1, <2>1, FS_CardinalityType, FS_Subset
  <2> QED
    BY <2>2, <2>3, <2>4, CapacityAssumption DEF Ample, Trackable
<1> QED
  BY <1>2 DEF Trackable

LEMMA AllocFacts ==
    ASSUME NEW m, AllocatorSound(m),
           NEW f, f = AllocPage(m), f # NoPage,
           NEW n, n = AfterAlloc(m)
    PROVE  /\ AllocatorSound(n) /\ n \in AllocatorStates
           /\ f \in Frames /\ f \notin Held(m)
           /\ Held(n) = Held(m) \cup {f}
           /\ \A q \in Frames \ {f} : n.owner[q] = m.owner[q]
<1>1. AllocatorSound(n) /\ f \in Frames \ Held(m) /\ Held(n) = Held(m) \cup {f}
  <2>1. CASE m.pool # <<>>
    BY <2>1, AllocRecycled
  <2>2. CASE m.pool = <<>> /\ m.next <= Len(Layout)
    BY <2>2, AllocUntouched
  <2>3. CASE m.pool = <<>> /\ ~(m.next <= Len(Layout))
    BY <2>3, AllocRefused
  <2> QED
    BY <2>1, <2>2, <2>3
<1>2. m \in AllocatorStates
  BY DEF AllocatorSound
<1>3. Taken(m).owner = m.owner
  BY <1>2 DEF Taken, WithPool, WithNext, AllocatorStates
<1>4. n = SetOwner(Taken(m), f, "ALLOCATOR")
  BY DEF AfterAlloc
<1>5. m.owner \in [Frames -> OwnerEntries]
  BY <1>2 DEF AllocatorStates
<1>6. n.owner = m.owner \/ n.owner = [m.owner EXCEPT ![f] = "ALLOCATOR"]
  <2> DEFINE t == Taken(m)
  <2>1. t.owner = m.owner /\ n = SetOwner(t, f, "ALLOCATOR")
    BY <1>3, <1>4
  <2>2. t \in [next : {t.next}, pool : {t.pool}, owner : {t.owner}, used : {t.used}, drops : {t.drops}]
    BY <1>2 DEF Taken, WithPool, WithNext, AllocatorStates
  <2> HIDE DEF t
  <2> QED
    BY <2>1, <2>2 DEF SetOwner
<1> QED
  BY <1>1, <1>5, <1>6 DEF AllocatorSound

LEMMA FreeOwners ==
    ASSUME NEW m, AllocatorSound(m), NEW p, NEW n, n = AfterFree(m, p)
    PROVE  \A q \in Frames \ {p} : n.owner[q] = m.owner[q]
<1> DEFINE t == WithPool(m, Append(m.pool, p), Uncounted(m))
           d == WithDrop(m, Uncounted(m))
<1>1. m \in AllocatorStates
  BY DEF AllocatorSound
<1>2. m.owner \in [Frames -> OwnerEntries]
  BY <1>1 DEF AllocatorStates
<1>3. /\ t.owner = m.owner /\ d.owner = m.owner
      /\ t \in [next : {t.next}, pool : {t.pool}, owner : {t.owner}, used : {t.used}, drops : {t.drops}]
  BY <1>1 DEF WithPool, WithDrop, AllocatorStates
<1>4. n = m \/ n = SetOwner(t, p, "FREE") \/ n = d
  BY DEF AfterFree
<1> HIDE DEF t, d
<1>5. SetOwner(t, p, "FREE").owner \in {m.owner, [m.owner EXCEPT ![p] = "FREE"]}
  BY <1>3 DEF SetOwner
<1> QED
  BY <1>2, <1>3, <1>4, <1>5

\* Only the allocator's state differs.
SameTree(y, m) ==
    y.ram = m.ram /\ y.dir = m.dir /\ y.pages = m.pages /\ y.dead = m.dead

LEMMA NewMem ==
    ASSUME NEW m, Typed(m), NEW n, AllocatorSound(n), NEW y, y = [m EXCEPT !.mem = n]
    PROVE  Typed(y) /\ SameTree(y, m) /\ y.mem = n
<1>1. n \in AllocatorStates
  BY DEF AllocatorSound
<1> QED
  BY <1>1 DEF Typed, Machines, SameTree

\* A machine with the tree of a sane one, whose structures keep their owner.
LEMMA SaneAgain ==
    ASSUME NEW m, NEW R, Sane(m, R), NEW y, NEW R2, Typed(y), SameTree(y, m),
           ~m.dead => Consistent(m.ram, m.dir, Held(y.mem), R2),
           ~m.dead => \A f \in Roots(m.dir) \cup TablesIn(m.ram, m.dir) :
               \/ y.mem.owner[f] = m.mem.owner[f]
               \/ Ample => y.mem.owner[f] = "PAGING_STRUCTURE"
    PROVE  Sane(y, R2)
BY DEF Sane, SameTree, Protected

LEMMA Draw ==
    ASSUME NEW m, NEW R, Sane(m, R),
           NEW f, f = AllocPage(m.mem), f # NoPage,
           NEW y, y = Drawn(m)
    PROVE  /\ f \in Frames /\ f \notin Held(m.mem) /\ Held(y.mem) = Held(m.mem) \cup {f}
           /\ Sane(y, R \cup {f}) /\ SameTree(y, m)
<1>1. Typed(m)
  BY DEF Sane
<1>2. AllocatorSound(m.mem) /\ m.ram \in Memories /\ m.dir \in DirOwners
  BY <1>1, Parts
<1> DEFINE n == AfterAlloc(m.mem)
<1>3. /\ AllocatorSound(n) /\ n \in AllocatorStates
      /\ f \in Frames /\ f \notin Held(m.mem)
      /\ Held(n) = Held(m.mem) \cup {f}
      /\ \A q \in Frames \ {f} : n.owner[q] = m.mem.owner[q]
  BY <1>2, AllocFacts
<1>4. y = [m EXCEPT !.mem = n]
  BY DEF Drawn
<1> HIDE DEF n
<1>5. Typed(y) /\ SameTree(y, m) /\ y.mem = n
  BY <1>1, <1>3, <1>4, NewMem
<1>6. ASSUME ~m.dead
      PROVE  /\ Consistent(m.ram, m.dir, Held(y.mem), R \cup {f})
             /\ Roots(m.dir) \cup TablesIn(m.ram, m.dir) \subseteq Frames \ {f}
  <2>1. Consistent(m.ram, m.dir, Held(m.mem), R)
    BY <1>6 DEF Sane
  <2>2. Consistent(m.ram, m.dir, Held(m.mem) \cup {f}, R \cup {f})
    BY <1>2, <1>3, <2>1, Loosened
  <2>3. TablesIn(m.ram, m.dir) \subseteq Held(m.mem) /\ Roots(m.dir) \subseteq Held(m.mem)
    BY <1>2, <2>1, Apart DEF Consistent
  <2>4. TablesIn(m.ram, m.dir) \subseteq Frames /\ Roots(m.dir) \subseteq Frames
    BY <1>2, TreeTypes
  <2> QED
    BY <1>3, <1>5, <2>2, <2>3, <2>4
<1>7. Sane(y, R \cup {f})
  <2>1. ~m.dead => \A g \in Roots(m.dir) \cup TablesIn(m.ram, m.dir) :
                      y.mem.owner[g] = m.mem.owner[g]
    BY <1>3, <1>5, <1>6
  <2> QED
    BY <1>5, <1>6, <2>1, SaneAgain
<1> QED
  BY <1>3, <1>5, <1>7

\* A held frame gets an owner; a structure only its own.
LEMMA Label ==
    ASSUME NEW m, NEW R, Sane(m, R), NEW f \in Held(m.mem), NEW o \in HeldOwners,
           ~m.dead => \/ o = "PAGING_STRUCTURE"
                      \/ f \notin Roots(m.dir) \cup TablesIn(m.ram, m.dir),
           NEW y, y = Owned(m, f, o)
    PROVE  /\ Sane(y, R) /\ SameTree(y, m) /\ Held(y.mem) = Held(m.mem)
           /\ Ample => y.mem.owner[f] = o
<1>1. Typed(m)
  BY DEF Sane
<1>2. AllocatorSound(m.mem) /\ m.mem \in AllocatorStates /\ m.dir \in DirOwners
      /\ m.ram \in Memories /\ f \in Frames /\ Cardinality(TrackedFrames(m.mem)) <= OwnerTrackMax
  BY <1>1, Parts
<1> DEFINE n == SetOwner(m.mem, f, o)
<1>3. AllocatorSound(n) /\ Held(n) = Held(m.mem)
  BY <1>2, LabelPreserves
<1>4. o \in OwnerEntries \ {"UNTRACKED"}
  BY DEF HeldOwners, LeafOwners, OwnerEntries
<1>5. /\ \A q \in Frames \ {f} : n.owner[q] = m.mem.owner[q]
      /\ Trackable(m.mem, f) => n.owner[f] = o
  BY <1>2, <1>4, SetOwnerEffect
<1>6. Ample => n.owner[f] = o
  BY <1>2, <1>5, Room
<1>7. y = [m EXCEPT !.mem = n]
  BY DEF Owned
<1> HIDE DEF n
<1>8. Typed(y) /\ SameTree(y, m) /\ y.mem = n
  BY <1>1, <1>3, <1>7, NewMem
<1>9. ~m.dead => Consistent(m.ram, m.dir, Held(y.mem), R)
  BY <1>3, <1>8 DEF Sane
<1>10. ASSUME ~m.dead, NEW g \in Roots(m.dir) \cup TablesIn(m.ram, m.dir)
       PROVE  \/ y.mem.owner[g] = m.mem.owner[g]
              \/ Ample => y.mem.owner[g] = "PAGING_STRUCTURE"
  <2>1. g \in Frames
    BY <1>2, TreeTypes
  <2> QED
    BY <1>5, <1>6, <1>8, <1>10, <2>1
<1>11. Sane(y, R)
  BY <1>8, <1>9, <1>10, SaneAgain
<1> QED
  BY <1>3, <1>6, <1>8, <1>11

\* A loose frame is freed.
LEMMA Give ==
    ASSUME NEW m, NEW R, Sane(m, R), NEW f \in Frames, ~m.dead => f \in R,
           NEW y, y = Freed(m, f)
    PROVE  Sane(y, R \ {f}) /\ SameTree(y, m)
<1>1. Typed(m)
  BY DEF Sane
<1>2. AllocatorSound(m.mem) /\ m.ram \in Memories /\ m.dir \in DirOwners
  BY <1>1, Parts
<1> DEFINE n == AfterFree(m.mem, f)
<1>3. f \in Nat
  BY FramesBounded, LayoutAssumption
<1>4. /\ AllocatorSound(n)
      /\ Held(n) = Held(m.mem) \/ Held(n) = Held(m.mem) \ {f}
      /\ \A q \in Frames \ {f} : n.owner[q] = m.mem.owner[q]
  BY <1>2, <1>3, FreePreserves, FreeOwners
<1>5. y = [m EXCEPT !.mem = n]
  BY DEF Freed
<1> HIDE DEF n
<1>6. Typed(y) /\ SameTree(y, m) /\ y.mem = n
  BY <1>1, <1>4, <1>5, NewMem
<1>7. ASSUME ~m.dead
      PROVE  /\ Consistent(m.ram, m.dir, Held(y.mem), R \ {f})
             /\ \A g \in Roots(m.dir) \cup TablesIn(m.ram, m.dir) :
                   y.mem.owner[g] = m.mem.owner[g]
  <2>1. Consistent(m.ram, m.dir, Held(m.mem), R) /\ f \in R
    BY <1>7 DEF Sane
  <2>2. /\ Consistent(m.ram, m.dir, Held(m.mem) \ {f}, R \ {f})
        /\ Consistent(m.ram, m.dir, Held(m.mem), R \ {f})
    <3>1. R \ {f} \subseteq R
      OBVIOUS
    <3> QED
      BY <1>2, <2>1, <3>1, Loosened
  <2>3. f \notin Roots(m.dir) /\ f \notin TablesIn(m.ram, m.dir)
    BY <1>2, <2>1, Apart DEF Consistent
  <2>4. TablesIn(m.ram, m.dir) \subseteq Frames /\ Roots(m.dir) \subseteq Frames
    BY <1>2, TreeTypes
  <2>5. Consistent(m.ram, m.dir, Held(y.mem), R \ {f})
    BY <1>4, <1>6, <2>2
  <2> QED
    BY <1>4, <1>6, <2>3, <2>4, <2>5
<1>8. Sane(y, R \ {f})
  BY <1>6, <1>7, SaneAgain
<1> QED
  BY <1>6, <1>8

-----------------------------------------------------------------------------
(* Tables and pages.                                                       *)

\* A pointer to a frame reaches that frame or nothing.
LEMMA Reached ==
    ASSUME NEW m, Typed(m), NEW f \in Frames
    PROVE  /\ Through(m, f) \in Frames \cup {NoPage}
           /\ IdentityMaps(m.ram) => Through(m, f) \in {f, NoPage}
<1>1. m.ram \in Memories /\ m.dir \in DirOwners
  BY Parts
<1>2. \A x \in Frames, y \in Words : m.ram[x][y] # None => m.ram[x][y].frame \in Frames
  BY <1>1, TreeTypes
<1>3. GlobalDir \in Frames /\ IdDir \in Words
  BY RootFrames DEF Dirs, IdDir
<1>4. CASE f \in DOMAIN IdIndex
  <2> DEFINE w == IdIndex[f]
             e == m.ram[GlobalDir][IdDir]
  <2>1. Through(m, f) = Walk(m, GlobalDir, <<IdDir, w>>).frame
    BY <1>4 DEF Through
  <2>2. w \in Words
    BY <1>4, SpaceAssumption
  <2>3. Walk(m, GlobalDir, <<IdDir, w>>) = IF e = None THEN None ELSE m.ram[e.frame][w]
    BY DEF Walk
  <2>4. None.frame = NoPage
    BY DEF None
  <2>5. IdentityMaps(m.ram) => e \in {None, Entry(IdTable, FALSE)} /\ m.ram[IdTable][w].frame = f
    BY <1>4 DEF IdentityMaps
  <2>6. Entry(IdTable, FALSE).frame = IdTable
    BY DEF Entry
  <2>7. e # None => e.frame \in Frames
    BY <1>2, <1>3
  <2>8. e # None => m.ram[e.frame][w].frame \in Frames \cup {NoPage}
    BY <1>2, <2>2, <2>4, <2>7
  <2> HIDE DEF w, e
  <2> QED
    BY <2>1, <2>3, <2>4, <2>5, <2>6, <2>8
<1>5. CASE f \notin DOMAIN IdIndex
  BY <1>5 DEF Through
<1> QED
  BY <1>4, <1>5

LEMMA EntryTypes ==
    /\ None \in Entries /\ None.frame = NoPage
    /\ \A f \in Frames, u \in BOOLEAN :
          Entry(f, u) \in Entries /\ Entry(f, u) # None /\ Entry(f, u).frame = f
    /\ EmptyTable \in [Words -> Entries]
<1>1. None \in Entries /\ None.frame = NoPage
  BY DEF Entries, None
<1>2. \A f \in Frames, u \in BOOLEAN :
          Entry(f, u) \in Entries /\ Entry(f, u) # None /\ Entry(f, u).frame = f
  BY RootFrames DEF Entries, Entry
<1> QED
  BY <1>1, <1>2 DEF EmptyTable

UpperVAs == (Dirs \ {IdDir}) \X Words

\* The entry u now leads to the emptied frame f.
Hung(ram, ram2, u, f, e) ==
    \A x \in Frames, w \in Words :
        ram2[x][w] = IF x = u[1] /\ w = u[2] THEN e ELSE IF x = f THEN None ELSE ram[x][w]

\* A drawn frame becomes a table: b is the machine in which the entry u leads to
\* it and it has its owner, y the one in which it has been emptied.
LEMMA TableMade ==
    ASSUME NEW m, NEW R, Sane(m, R), ~m.dead,
           NEW u \in UpperIn(m.dir),
           NEW f, f = AllocPage(m.mem), f # NoPage,
           NEW e \in Entries, e # None, e.frame = f,
           NEW b, b \in Machines, ~b.dead,
           b.mem = Owned(Drawn(m), f, "PAGING_STRUCTURE").mem,
           b.dir = m.dir, b.pages = m.pages,
           Rewritten(m.ram, b.ram, u[1], u[2], e),
           NEW y, y = Written(b, f, EmptyTable)
    PROVE  /\ Sane(y, R) /\ y.dir = m.dir /\ y.pages = m.pages
           /\ y.mem = b.mem
           /\ Held(m.mem) \subseteq Held(y.mem)
           /\ ~y.dead => y.ram[u[1]][u[2]] = e /\ Hung(m.ram, y.ram, u, f, e)
           /\ f \in Frames /\ f \notin Held(m.mem)
<1>1. Typed(m) /\ Consistent(m.ram, m.dir, Held(m.mem), R) /\ Protected(m)
  BY DEF Sane
<1>2. m.ram \in Memories /\ m.dir \in DirOwners
  BY <1>1, Parts
<1>3. /\ f \in Frames /\ f \notin Held(m.mem) /\ f \notin R
      /\ AllocatorSound(b.mem) /\ Held(b.mem) = Held(m.mem) \cup {f}
      /\ Consistent(m.ram, m.dir, Held(b.mem), R \cup {f})
      /\ Ample => \A g \in Roots(m.dir) \cup TablesIn(m.ram, m.dir) \cup {f} :
                      b.mem.owner[g] = "PAGING_STRUCTURE"
  <2> DEFINE a == Drawn(m)
             c == Owned(a, f, "PAGING_STRUCTURE")
  <2>1. /\ f \in Frames /\ f \notin Held(m.mem) /\ Held(a.mem) = Held(m.mem) \cup {f}
        /\ Sane(a, R \cup {f}) /\ SameTree(a, m)
    BY Draw
  <2>2. "PAGING_STRUCTURE" \in HeldOwners
    BY DEF HeldOwners
  <2> HIDE DEF a
  <2>3. /\ Sane(c, R \cup {f}) /\ SameTree(c, a) /\ Held(c.mem) = Held(a.mem)
        /\ Ample => c.mem.owner[f] = "PAGING_STRUCTURE"
    BY <2>1, <2>2, Label
  <2> HIDE DEF c
  <2>4. c.mem = b.mem
    BY DEF a, c
  <2> QED
    BY <1>1, <2>1, <2>3, <2>4 DEF Sane, SameTree, Typed, Protected, Consistent
<1>4. Typed(b)
  BY <1>3 DEF Typed
<1>5. \A x \in Frames, w \in Words : b.ram[x][w] = IF x = u[1] /\ w = u[2] THEN e ELSE m.ram[x][w]
  BY DEF Rewritten
<1>6. /\ u[1] \in Frames /\ u[2] \in Words /\ u[2] # IdDir /\ u[1] # IdTable
      /\ u[1] \in Roots(m.dir) /\ u[1] # f
  <2>1. /\ u[1] \in Frames /\ u[2] \in Words /\ u[2] # IdDir /\ u[1] # IdTable
        /\ u[1] \in Roots(m.dir)
    BY <1>1, <1>2, UpperFacts
  <2>2. f \notin Roots(m.dir)
    BY <1>3 DEF Consistent
  <2> QED
    BY <2>1, <2>2
<1>7. Through(b, f) \in {f, NoPage}
  <2>1. IdentityMaps(b.ram)
    <3>1. GlobalDir \in Frames /\ IdTable \in Frames /\ IdDir \in Words
      BY RootFrames DEF Dirs, IdDir
    <3>2. \A g \in DOMAIN IdIndex : IdIndex[g] \in Words
      BY SpaceAssumption
    <3> QED
      BY <1>1, <1>5, <1>6, <3>1, <3>2 DEF Consistent, IdentityMaps
  <2> QED
    BY <1>3, <1>4, <2>1, Reached
<1>8. CASE Through(b, f) = NoPage
  <2>1. y = [b EXCEPT !.dead = TRUE]
    BY <1>8 DEF Written, Dies
  <2>2. /\ y \in Machines /\ y.dead /\ y.mem = b.mem /\ y.dir = b.dir /\ y.pages = b.pages
    BY <2>1 DEF Machines
  <2>3. Sane(y, R)
    BY <1>3, <2>2 DEF Sane, Typed
  <2> QED
    BY <1>3, <2>2, <2>3
<1>9. CASE Through(b, f) # NoPage
  <2>1. y = [b EXCEPT !.ram[f] = EmptyTable]
    BY <1>7, <1>9 DEF Written
  <2>2. /\ y \in Machines /\ ~y.dead /\ y.mem = b.mem /\ y.dir = b.dir /\ y.pages = b.pages
        /\ y.ram = [b.ram EXCEPT ![f] = EmptyTable]
    <3> DEFINE ram2 == [b.ram EXCEPT ![f] = EmptyTable]
    <3>1. b.ram \in Memories
      BY DEF Machines
    <3>2. ram2 \in Memories
      BY <1>3, <3>1, EntryTypes DEF Memories
    <3>3. y = [b EXCEPT !.ram = ram2]
      BY <2>1
    <3> HIDE DEF ram2
    <3>4. y \in Machines /\ y.dead = b.dead /\ y.mem = b.mem /\ y.dir = b.dir
          /\ y.pages = b.pages /\ y.ram = ram2
      BY <3>2, <3>3 DEF Machines
    <3> QED
      BY <3>4 DEF ram2
  <2>3. b.ram \in Memories /\ y.ram \in Memories
    BY <2>2 DEF Machines
  <2>4. \A x \in Frames, w \in Words :
           y.ram[x][w] = IF x = u[1] /\ w = u[2] THEN e
                         ELSE IF x = f THEN None ELSE m.ram[x][w]
    BY <1>5, <1>6, <2>2, <2>3 DEF Memories, EmptyTable
  <2>5. /\ Consistent(y.ram, m.dir, Held(b.mem), (R \cup {f}) \ {f})
        /\ TablesIn(y.ram, m.dir) \subseteq TablesIn(m.ram, m.dir) \cup {f}
    <3>1. f \in R \cup {f}
      OBVIOUS
    <3> DEFINE S == R \cup {f}
    <3>2. f \in S /\ Consistent(m.ram, m.dir, Held(b.mem), S)
      BY <1>3
    <3> DEFINE old == m.ram
               new == y.ram
               dir == m.dir
               held == Held(b.mem)
    <3>3. /\ old \in Memories /\ new \in Memories /\ dir \in DirOwners
          /\ Consistent(old, dir, held, S) /\ u \in UpperIn(dir)
          /\ \A x \in Frames, w \in Words :
                new[x][w] = IF x = u[1] /\ w = u[2] THEN e
                            ELSE IF x = f THEN None ELSE old[x][w]
      BY <1>2, <2>3, <2>4, <3>2
    <3> HIDE DEF S, old, new, dir, held
    <3>4. /\ Consistent(new, dir, held, S \ {f})
          /\ TablesIn(new, dir) \subseteq TablesIn(old, dir) \cup {f}
      BY <1>3, <3>2, <3>3, LinkSet
    <3> QED
      BY <3>4 DEF S, old, new, dir, held
  <2>6. (R \cup {f}) \ {f} = R
    BY <1>3
  <2>7. Protected(y)
    BY <1>3, <2>2, <2>5 DEF Protected
  <2>8. Sane(y, R)
    BY <1>3, <2>2, <2>5, <2>6, <2>7 DEF Sane, Typed
  <2>9. y.ram[u[1]][u[2]] = e
    BY <1>6, <2>4
  <2>10. Hung(m.ram, y.ram, u, f, e)
    BY <2>4 DEF Hung
  <2> QED
    BY <1>3, <2>2, <2>8, <2>9, <2>10
<1> QED
  BY <1>8, <1>9

LEMMA TableThere ==
    ASSUME NEW ram, NEW dir, NEW d \in DirsIn(dir), NEW i \in Dirs \ {IdDir},
           d = GlobalDir \/ i \notin KernelDirs, ram[d][i] # None
    PROVE  <<d, i>> \in LinksIn(ram, dir) /\ ram[d][i].frame \in TablesIn(ram, dir)
<1>1. <<d, i>> \in UpperIn(dir)
  BY UpperMade
<1>2. <<d, i>>[1] = d /\ <<d, i>>[2] = i
  OBVIOUS
<1> HIDE DEF UpperIn
<1> QED
  BY <1>1, <1>2 DEF LinksIn, TablesIn

\* A frame is drawn and labelled as a table's.
LEMMA StructureDrawn ==
    ASSUME NEW m, NEW R, Sane(m, R),
           NEW f, f = AllocPage(m.mem), f # NoPage,
           NEW c, c = Owned(Drawn(m), f, "PAGING_STRUCTURE")
    PROVE  /\ f \in Frames /\ f \notin Held(m.mem)
           /\ Sane(c, R \cup {f}) /\ SameTree(c, m) /\ Held(c.mem) = Held(m.mem) \cup {f}
           /\ Ample => c.mem.owner[f] = "PAGING_STRUCTURE"
<1> DEFINE a == Drawn(m)
<1>1. /\ f \in Frames /\ f \notin Held(m.mem) /\ Held(a.mem) = Held(m.mem) \cup {f}
      /\ Sane(a, R \cup {f}) /\ SameTree(a, m)
  BY Draw
<1>2. "PAGING_STRUCTURE" \in HeldOwners
  BY DEF HeldOwners
<1> HIDE DEF a
<1>3. c = Owned(a, f, "PAGING_STRUCTURE")
  BY DEF a
<1>4. /\ Sane(c, R \cup {f}) /\ SameTree(c, a) /\ Held(c.mem) = Held(a.mem)
      /\ Ample => c.mem.owner[f] = "PAGING_STRUCTURE"
  BY <1>1, <1>2, <1>3, Label
<1> QED
  BY <1>1, <1>4 DEF SameTree

\* The machine after an entry was written, and after CR3 was loaded as well.
Put(m, x, w, e) == [m EXCEPT !.ram[x][w] = e]
PutLoaded(m, x, w, e) == [m EXCEPT !.ram[x][w] = e, !.cr3 = GlobalDir]

LEMMA Stored ==
    ASSUME NEW m \in Machines, NEW x \in Frames, NEW w \in Words, NEW e \in Entries,
           NEW y, y = Put(m, x, w, e) \/ y = PutLoaded(m, x, w, e)
    PROVE  /\ y \in Machines /\ y.mem = m.mem /\ y.dir = m.dir /\ y.pages = m.pages
           /\ y.dead = m.dead /\ y.ram \in Memories
           /\ Rewritten(m.ram, y.ram, x, w, e)
<1> DEFINE ram2 == [m.ram EXCEPT ![x][w] = e]
<1>1. m.ram \in Memories /\ GlobalDir \in Frames
  BY RootFrames DEF Machines
<1>2. ram2 \in Memories
  BY <1>1 DEF Memories
<1>3. Rewritten(m.ram, ram2, x, w, e)
  BY <1>1 DEF Memories, Rewritten
<1>4. y = [m EXCEPT !.ram = ram2, !.cr3 = GlobalDir] \/ y = [m EXCEPT !.ram = ram2]
  BY DEF Put, PutLoaded
<1> HIDE DEF ram2
<1>5. /\ y \in Machines /\ y.mem = m.mem /\ y.dir = m.dir /\ y.pages = m.pages
      /\ y.dead = m.dead /\ y.ram = ram2
  BY <1>1, <1>2, <1>4 DEF Machines
<1> QED
  BY <1>2, <1>3, <1>5 DEF ram2

\* No walk but that of va below the global directory leads elsewhere.
WalksKept(m, y) == \A va \in UpperVAs : Walk(y, GlobalDir, va) = Walk(m, GlobalDir, va)
OtherWalksKept(m, y, va) ==
    \A vb \in UpperVAs \ {va} : Walk(y, GlobalDir, vb) = Walk(m, GlobalDir, vb)

\* The tables of the global directory are held and no directories, and no two
\* of its entries lead to one.
LEMMA GlobalTables ==
    ASSUME NEW m, NEW R, Sane(m, R), ~m.dead
    PROVE  /\ GlobalDir \in Frames /\ GlobalDir \in Held(m.mem) /\ GlobalDir \in DirsIn(m.dir)
           /\ \A i \in Dirs \ {IdDir} :
                 m.ram[GlobalDir][i] # None =>
                     /\ m.ram[GlobalDir][i].frame \in TablesIn(m.ram, m.dir)
                     /\ m.ram[GlobalDir][i].frame \in Frames
                     /\ m.ram[GlobalDir][i].frame \in Held(m.mem)
                     /\ m.ram[GlobalDir][i].frame \notin Roots(m.dir)
                     /\ m.ram[GlobalDir][i].frame # GlobalDir
           /\ \A i, j \in Dirs \ {IdDir} :
                 /\ m.ram[GlobalDir][i] # None /\ m.ram[GlobalDir][j] # None
                 /\ m.ram[GlobalDir][i].frame = m.ram[GlobalDir][j].frame
                 => i = j
<1> DEFINE ram == m.ram
           dir == m.dir
           held == Held(m.mem)
<1>1. ram \in Memories /\ dir \in DirOwners /\ Consistent(ram, dir, held, R)
  BY Parts DEF Sane
<1>2. GlobalDir \in Frames /\ GlobalDir \in held /\ GlobalDir \in DirsIn(dir)
      /\ GlobalDir \in Roots(dir)
  BY <1>1, RootFrames DEF Consistent, Roots, DirsIn
<1> HIDE DEF ram, dir, held
<1>3. ASSUME NEW i \in Dirs \ {IdDir}, ram[GlobalDir][i] # None
      PROVE  /\ ram[GlobalDir][i].frame \in TablesIn(ram, dir)
             /\ ram[GlobalDir][i].frame \in Frames /\ ram[GlobalDir][i].frame \in held
             /\ ram[GlobalDir][i].frame \notin Roots(dir)
             /\ <<GlobalDir, i>> \in FullIn(ram, dir)
             /\ FrameAt(ram, <<GlobalDir, i>>) = ram[GlobalDir][i].frame
  <2>1. <<GlobalDir, i>> \in LinksIn(ram, dir) /\ ram[GlobalDir][i].frame \in TablesIn(ram, dir)
    BY <1>2, <1>3, TableThere
  <2>2. TablesIn(ram, dir) \subseteq held \ (Roots(dir) \cup R)
    BY <1>1, Apart
  <2>3. TablesIn(ram, dir) \subseteq Frames
    BY <1>1, TreeTypes
  <2> QED
    BY <2>1, <2>2, <2>3 DEF FullIn, FrameAt
<1>4. ASSUME NEW i \in Dirs \ {IdDir}, NEW j \in Dirs \ {IdDir},
             ram[GlobalDir][i] # None, ram[GlobalDir][j] # None,
             ram[GlobalDir][i].frame = ram[GlobalDir][j].frame
      PROVE  i = j
  <2>1. <<GlobalDir, i>> = <<GlobalDir, j>>
    BY <1>1, <1>3, <1>4 DEF Consistent
  <2> QED
    BY <2>1
<1> QED
  BY <1>2, <1>3, <1>4 DEF ram, dir, held

\* A new table holds nothing, and the others are left alone.
LEMMA TableHung ==
    ASSUME NEW m, NEW R, Sane(m, R), ~m.dead,
           NEW d \in Dirs \ {IdDir}, m.ram[GlobalDir][d] = None,
           NEW f \in Frames, f \notin Held(m.mem),
           NEW e, e # None, e.frame = f,
           NEW y, Hung(m.ram, y.ram, <<GlobalDir, d>>, f, e)
    PROVE  WalksKept(m, y)
<1>1. /\ GlobalDir \in Frames /\ GlobalDir # f
      /\ \A i \in Dirs \ {IdDir} : m.ram[GlobalDir][i] # None =>
            /\ m.ram[GlobalDir][i].frame \in Frames
            /\ m.ram[GlobalDir][i].frame # GlobalDir /\ m.ram[GlobalDir][i].frame # f
  BY GlobalTables
<1>2. \A x \in Frames, w \in Words :
          y.ram[x][w] = IF x = GlobalDir /\ w = d THEN e ELSE IF x = f THEN None ELSE m.ram[x][w]
  BY DEF Hung
<1> SUFFICES ASSUME NEW i \in Dirs \ {IdDir}, NEW w \in Words, NEW va, va = <<i, w>>
             PROVE  Walk(y, GlobalDir, va) = Walk(m, GlobalDir, va)
  BY DEF WalksKept, UpperVAs
<1>3. va[1] = i /\ va[2] = w /\ i \in Words /\ d \in Words
  BY RootFrames
<1>4. CASE i = d
  <2>1. y.ram[GlobalDir][i] = e /\ y.ram[f][w] = None
    BY <1>1, <1>2, <1>3, <1>4
  <2> QED
    BY <1>3, <1>4, <2>1 DEF Walk
<1>5. CASE i # d
  <2>1. y.ram[GlobalDir][i] = m.ram[GlobalDir][i]
    BY <1>1, <1>2, <1>3, <1>5
  <2>2. m.ram[GlobalDir][i] # None =>
            y.ram[m.ram[GlobalDir][i].frame][w] = m.ram[m.ram[GlobalDir][i].frame][w]
    BY <1>1, <1>2
  <2> QED
    BY <1>3, <2>1, <2>2 DEF Walk
<1> QED
  BY <1>4, <1>5

\* An entry of a table is written.
LEMMA LeafPut ==
    ASSUME NEW m, NEW R, Sane(m, R), ~m.dead,
           NEW va \in UpperVAs, m.ram[GlobalDir][va[1]] # None,
           NEW e, NEW y,
           Rewritten(m.ram, y.ram, m.ram[GlobalDir][va[1]].frame, va[2], e)
    PROVE  OtherWalksKept(m, y, va) /\ Walk(y, GlobalDir, va) = e
           /\ \A i \in Words : y.ram[GlobalDir][i] = m.ram[GlobalDir][i]
<1> DEFINE t == m.ram[GlobalDir][va[1]].frame
<1>1. va[1] \in Dirs \ {IdDir} /\ va[2] \in Words /\ va = <<va[1], va[2]>>
  BY DEF UpperVAs
<1>2. /\ GlobalDir \in Frames
      /\ \A i \in Dirs \ {IdDir} : m.ram[GlobalDir][i] # None =>
            /\ m.ram[GlobalDir][i].frame \in Frames
            /\ m.ram[GlobalDir][i].frame # GlobalDir
            /\ m.ram[GlobalDir][i].frame = t => i = va[1]
  BY <1>1, GlobalTables
<1>3. t \in Frames /\ t # GlobalDir
  BY <1>1, <1>2
<1>4. \A x \in Frames, w \in Words : y.ram[x][w] = IF x = t /\ w = va[2] THEN e ELSE m.ram[x][w]
  BY DEF Rewritten
<1> HIDE DEF t
<1>5. \A i \in Words : y.ram[GlobalDir][i] = m.ram[GlobalDir][i]
  BY <1>2, <1>3, <1>4
<1>6. Walk(y, GlobalDir, va) = e
  <2>1. y.ram[GlobalDir][va[1]] = m.ram[GlobalDir][va[1]]
    BY <1>1, <1>5, RootFrames
  <2>2. y.ram[t][va[2]] = e
    BY <1>1, <1>3, <1>4
  <2> QED
    BY <2>1, <2>2 DEF Walk, t
<1>7. ASSUME NEW i \in Dirs \ {IdDir}, NEW w \in Words, NEW vb, vb = <<i, w>>, vb # va
      PROVE  Walk(y, GlobalDir, vb) = Walk(m, GlobalDir, vb)
  <2>1. vb[1] = i /\ vb[2] = w /\ i \in Words
    BY <1>7, RootFrames
  <2>2. y.ram[GlobalDir][i] = m.ram[GlobalDir][i]
    BY <1>5, <2>1
  <2>3. i # va[1] \/ w # va[2]
    BY <1>1, <1>7
  <2>4. m.ram[GlobalDir][i] # None =>
            y.ram[m.ram[GlobalDir][i].frame][w] = m.ram[m.ram[GlobalDir][i].frame][w]
    BY <1>2, <1>4, <2>3
  <2> QED
    BY <2>1, <2>2, <2>4 DEF Walk
<1>8. OtherWalksKept(m, y, va)
  BY <1>7 DEF OtherWalksKept, UpperVAs
<1> QED
  BY <1>5, <1>6, <1>8

LEMMA GetTable ==
    ASSUME NEW m, NEW R, Sane(m, R), ~m.dead, NEW d \in Dirs \ {IdDir},
           NEW y, y = WithTable(m, d)
    PROVE  /\ Sane(y, R) /\ y.dir = m.dir /\ y.pages = m.pages
           /\ Held(m.mem) \subseteq Held(y.mem)
           /\ HasTable(y, GlobalDir, d) => y.ram[GlobalDir][d].frame \in TablesIn(y.ram, y.dir)
           /\ ~y.dead => WalksKept(m, y)
<1>1. GlobalDir \in DirsIn(m.dir) /\ GlobalDir \in DirsIn(y.dir) /\ d \in Words
  BY RootFrames DEF DirsIn
<1>2. HasTable(y, GlobalDir, d) => y.ram[GlobalDir][d].frame \in TablesIn(y.ram, y.dir)
  BY <1>1, TableThere DEF HasTable
<1> DEFINE f == AllocPage(m.mem)
<1>3. CASE HasTable(m, GlobalDir, d) \/ f = NoPage
  BY <1>2, <1>3 DEF WithTable, WalksKept
<1>4. CASE ~(HasTable(m, GlobalDir, d) \/ f = NoPage)
  <2> DEFINE c == Owned(Drawn(m), f, "PAGING_STRUCTURE")
             e == Entry(f, FALSE)
             b == [c EXCEPT !.ram[GlobalDir][d] = e, !.cr3 = GlobalDir]
             u == <<GlobalDir, d>>
  <2>1. y = Written(b, f, EmptyTable)
    BY <1>4 DEF WithTable
  <2>2. f \in Frames /\ Sane(c, R \cup {f}) /\ SameTree(c, m)
    <3> HIDE DEF f
    <3>1. f = AllocPage(m.mem)
      BY DEF f
    <3> QED
      BY <1>4, <3>1, StructureDrawn
  <2>3. e \in Entries /\ e # None /\ e.frame = f
    BY <2>2, EntryTypes
  <2>4. u \in UpperIn(m.dir) /\ u[1] = GlobalDir /\ u[2] = d
    BY <1>1, UpperMade
  <2>5. c.mem = Owned(Drawn(m), f, "PAGING_STRUCTURE").mem
    OBVIOUS
  <2>6. b = PutLoaded(c, GlobalDir, d, e) /\ f = AllocPage(m.mem)
    BY DEF PutLoaded
  <2> HIDE DEF c, e, b, u, f
  <2>7. c \in Machines /\ c.ram = m.ram /\ c.dir = m.dir /\ c.pages = m.pages /\ c.dead = m.dead
    BY <2>2 DEF Sane, Typed, SameTree
  <2>8. /\ b \in Machines /\ b.mem = c.mem /\ b.dir = c.dir /\ b.pages = c.pages
        /\ b.dead = c.dead /\ Rewritten(c.ram, b.ram, GlobalDir, d, e)
    BY <1>1, <2>3, <2>6, <2>7, RootFrames, Stored
  <2>9. Rewritten(m.ram, b.ram, u[1], u[2], e)
    BY <2>4, <2>7, <2>8
  <2>10. /\ b.mem = Owned(Drawn(m), f, "PAGING_STRUCTURE").mem /\ ~b.dead
         /\ b.dir = m.dir /\ b.pages = m.pages
    BY <2>5, <2>7, <2>8
  <2>11. /\ Sane(y, R) /\ y.dir = m.dir /\ y.pages = m.pages
         /\ Held(m.mem) \subseteq Held(y.mem)
         /\ ~y.dead => Hung(m.ram, y.ram, u, f, e)
         /\ f \in Frames /\ f \notin Held(m.mem)
    BY <1>4, <2>1, <2>3, <2>4, <2>6, <2>8, <2>9, <2>10, TableMade
  <2>12. ASSUME ~y.dead PROVE WalksKept(m, y)
    <3>1. m.ram[GlobalDir][d] = None /\ Hung(m.ram, y.ram, <<GlobalDir, d>>, f, e)
      BY <1>4, <2>11, <2>12 DEF HasTable, u
    <3> QED
      BY <2>3, <2>11, <3>1, TableHung
  <2> QED
    BY <1>2, <2>11, <2>12
<1> QED
  BY <1>3, <1>4

\* A loose frame is mapped in a table.
LEMMA PageMapped ==
    ASSUME NEW m, NEW R, Sane(m, R), ~m.dead,
           NEW f \in R, NEW e \in Entries, e # None, e.frame = f,
           NEW t \in TablesIn(m.ram, m.dir), NEW w \in Words,
           NEW y, y = Put(m, t, w, e)
    PROVE  /\ Sane(y, R \ {f}) /\ y.dir = m.dir /\ y.pages = m.pages /\ y.mem = m.mem
           /\ ~y.dead
           /\ f \notin Roots(y.dir) \cup TablesIn(y.ram, y.dir)
           /\ \A d \in DirsIn(m.dir), i \in Words : y.ram[d][i] = m.ram[d][i]
<1> DEFINE old == m.ram
           new == y.ram
           dir == m.dir
           held == Held(m.mem)
<1>1. Typed(m) /\ m \in Machines /\ AllocatorSound(m.mem) /\ Consistent(old, dir, held, R)
      /\ Protected(m) /\ old \in Memories /\ dir \in DirOwners
  BY Parts DEF Sane, Typed
<1>2. e \in Entries /\ e # None /\ e.frame = f
  OBVIOUS
<1>3. t \in Frames /\ t \notin Roots(dir) /\ Roots(dir) \subseteq Frames
      /\ f \notin Roots(dir) /\ f \notin TablesIn(old, dir)
  <2>1. TablesIn(old, dir) \subseteq held \ (Roots(dir) \cup R)
    BY <1>1, Apart
  <2>2. TablesIn(old, dir) \subseteq Frames /\ Roots(dir) \subseteq Frames
    BY <1>1, TreeTypes
  <2>3. Roots(dir) \cap R = {}
    BY <1>1 DEF Consistent
  <2> QED
    BY <2>1, <2>2, <2>3
<1>4. y = Put(m, t, w, e) /\ t \in TablesIn(old, dir)
  OBVIOUS
<1>5. /\ y \in Machines /\ y.mem = m.mem /\ y.dir = m.dir /\ y.pages = m.pages
      /\ y.dead = m.dead /\ new \in Memories /\ Rewritten(old, new, t, w, e)
  BY <1>1, <1>2, <1>3, <1>4, Stored
<1> HIDE DEF old, new, dir, held
<1>6. Consistent(new, dir, held, R \ {f})
  <2>1. e.frame \in R
    BY <1>2
  <2>2. Consistent(new, dir, held, R \ {e.frame})
    BY <1>1, <1>2, <1>4, <1>5, <2>1, LeafSet
  <2> QED
    BY <1>2, <2>2
<1>7. TablesIn(new, dir) = TablesIn(old, dir)
  BY <1>1, <1>2, <1>4, <1>5, LeafWrite
<1>8. \A d \in DirsIn(dir), i \in Words : new[d][i] = old[d][i]
  BY <1>3, <1>5 DEF Rewritten, Roots
<1>9. Protected(y)
  BY <1>1, <1>5, <1>7 DEF Protected, old, new, dir
<1>10. Sane(y, R \ {f})
  BY <1>1, <1>5, <1>6, <1>9 DEF Sane, Typed, new, dir, held
<1> QED
  BY <1>3, <1>5, <1>7, <1>8, <1>10 DEF old, new, dir

\* What an attempt to map the loose frame f below entry i of directory d left.
Attempted(y, R, d, i, f) ==
    /\ f \in Held(y.mem)
    /\ IF HasTable(y, d, i) /\ ~y.dead
       THEN Sane(y, R \ {f}) /\ f \notin Roots(y.dir) \cup TablesIn(y.ram, y.dir)
       ELSE Sane(y, R)

LEMMA PageIn ==
    ASSUME NEW m, NEW R, Sane(m, R), ~m.dead, NEW va \in UpperVAs,
           NEW f \in Frames, f \in R, NEW v \in BOOLEAN,
           NEW y, y = MapPage(m, va, f, v)
    PROVE  /\ y.dir = m.dir /\ y.pages = m.pages
           /\ Attempted(y, R, GlobalDir, va[1], f)
           /\ ~y.dead => OtherWalksKept(m, y, va)
<1> DEFINE t == WithTable(m, va[1])
           tf == t.ram[GlobalDir][va[1]].frame
<1>1. va[1] \in Dirs \ {IdDir} /\ va[1] \in Words /\ va[2] \in Words
  BY RootFrames DEF UpperVAs
<1>2. /\ Sane(t, R) /\ t.dir = m.dir /\ t.pages = m.pages
      /\ Held(m.mem) \subseteq Held(t.mem)
      /\ HasTable(t, GlobalDir, va[1]) => tf \in TablesIn(t.ram, t.dir)
      /\ ~t.dead => WalksKept(m, t)
  BY <1>1, GetTable
<1>3. f \in Held(t.mem)
  BY <1>2 DEF Sane, Consistent
<1>4. CASE ~HasTable(t, GlobalDir, va[1]) \/ t.dead
  <2>1. y = t
    BY <1>4 DEF MapPage
  <2> HIDE DEF t, tf
  <2> QED
    BY <1>2, <1>3, <1>4, <2>1 DEF Attempted, WalksKept, OtherWalksKept
<1>5. CASE ~(~HasTable(t, GlobalDir, va[1]) \/ t.dead)
  <2>1. y = Put(t, tf, va[2], Entry(f, v))
    BY <1>5 DEF MapPage, Put
  <2> HIDE DEF t, tf
  <2>2. /\ Sane(y, R \ {f}) /\ y.dir = t.dir /\ y.pages = t.pages /\ y.mem = t.mem
        /\ ~y.dead
        /\ f \notin Roots(y.dir) \cup TablesIn(y.ram, y.dir)
        /\ \A d \in DirsIn(t.dir), i \in Words : y.ram[d][i] = t.ram[d][i]
    <3> DEFINE w == va[2]
               e == Entry(f, v)
    <3>1. w \in Words /\ ~t.dead /\ Sane(t, R) /\ tf \in TablesIn(t.ram, t.dir)
          /\ f \in R /\ y = Put(t, tf, w, e)
      BY <1>1, <1>2, <1>5, <2>1
    <3>2. e \in Entries /\ e # None /\ e.frame = f
      BY EntryTypes
    <3> HIDE DEF w, e
    <3> QED
      BY <3>1, <3>2, PageMapped
  <2>3. HasTable(y, GlobalDir, va[1])
    BY <1>1, <1>5, <2>2 DEF HasTable, DirsIn
  <2>4. OtherWalksKept(t, y, va)
    <3> DEFINE e == Entry(f, v)
    <3>1. e \in Entries /\ y = Put(t, tf, va[2], e)
      BY <2>1, EntryTypes
    <3>2. t \in Machines /\ tf \in Frames /\ t.ram[GlobalDir][va[1]] # None
      BY <1>1, <1>2, <1>5, GlobalTables DEF Sane, Typed, HasTable, tf
    <3> HIDE DEF e
    <3>3. Rewritten(t.ram, y.ram, tf, va[2], e)
      BY <1>1, <3>1, <3>2, Stored
    <3>4. Rewritten(t.ram, y.ram, t.ram[GlobalDir][va[1]].frame, va[2], e)
      BY <3>3 DEF tf
    <3> QED
      BY <1>2, <1>5, <3>2, <3>4, LeafPut
  <2>5. OtherWalksKept(m, y, va)
    BY <1>2, <1>5, <2>4 DEF WalksKept, OtherWalksKept
  <2> QED
    BY <1>2, <1>3, <2>2, <2>3, <2>5 DEF Attempted
<1> QED
  BY <1>4, <1>5

LEMMA DirectIn ==
    ASSUME NEW m, NEW R, Sane(m, R), ~m.dead, NEW d \in DirsIn(m.dir),
           NEW va \in UserVAs, NEW f \in Frames, f \in R,
           NEW y, y = MapDirect(m, d, va, f)
    PROVE  /\ y.dir = m.dir /\ y.pages = m.pages
           /\ Attempted(y, R, d, va[1], f)
<1> DEFINE nf == AllocPage(m.mem)
           c == Owned(Drawn(m), nf, "PAGING_STRUCTURE")
           b == [c EXCEPT !.ram[d][va[1]] = Entry(nf, TRUE)]
           t == IF HasTable(m, d, va[1]) \/ nf = NoPage THEN m ELSE Written(b, nf, EmptyTable)
           tf == t.ram[d][va[1]].frame
<1>1. /\ va[1] \in Dirs \ {IdDir} /\ va[1] \notin KernelDirs
      /\ va[1] \in Words /\ va[2] \in Words
  BY RootFrames DEF UserVAs, Dirs, IdDir, TaskDir, ImageDir, KernelDirs, HeapDir, TestDir
<1>2. d \in Frames
  <2>1. m.ram \in Memories /\ m.dir \in DirOwners
    BY Parts DEF Sane
  <2> QED
    BY <2>1, TreeTypes
<1>3. y = IF ~HasTable(t, d, va[1]) THEN t ELSE [t EXCEPT !.ram[tf][va[2]] = Entry(f, TRUE)]
  BY DEF MapDirect
<1>4. Sane(t, R) /\ t.dir = m.dir /\ t.pages = m.pages /\ Held(m.mem) \subseteq Held(t.mem)
  <2>1. CASE HasTable(m, d, va[1]) \/ nf = NoPage
    BY <2>1
  <2>2. CASE ~(HasTable(m, d, va[1]) \/ nf = NoPage)
    <3> DEFINE e == Entry(nf, TRUE)
               u == <<d, va[1]>>
    <3>1. t = Written(b, nf, EmptyTable)
      BY <2>2
    <3>2. b = Put(c, d, va[1], e) /\ c = Owned(Drawn(m), nf, "PAGING_STRUCTURE")
          /\ nf = AllocPage(m.mem)
      BY DEF Put
    <3>3. nf = AllocPage(m.mem) /\ nf # NoPage
      BY <2>2
    <3> HIDE DEF nf
    <3>4. nf \in Frames /\ Sane(c, R \cup {nf}) /\ SameTree(c, m)
      BY <3>3, StructureDrawn
    <3>5. e \in Entries /\ e # None /\ e.frame = nf
      BY <3>4, EntryTypes
    <3>6. u \in UpperIn(m.dir) /\ u[1] = d /\ u[2] = va[1]
      BY <1>1, UpperMade
    <3>7. c.mem = Owned(Drawn(m), nf, "PAGING_STRUCTURE").mem
      OBVIOUS
    <3> HIDE DEF c, e, b, u, t
    <3>8. c \in Machines /\ c.ram = m.ram /\ c.dir = m.dir /\ c.pages = m.pages /\ c.dead = m.dead
      BY <3>4 DEF Sane, Typed, SameTree
    <3>9. /\ b \in Machines /\ b.mem = c.mem /\ b.dir = c.dir /\ b.pages = c.pages
          /\ b.dead = c.dead /\ Rewritten(c.ram, b.ram, d, va[1], e)
      BY <1>1, <1>2, <3>2, <3>5, <3>8, Stored
    <3>10. /\ b.mem = Owned(Drawn(m), nf, "PAGING_STRUCTURE").mem /\ ~b.dead
           /\ b.dir = m.dir /\ b.pages = m.pages /\ Rewritten(m.ram, b.ram, u[1], u[2], e)
      BY <3>6, <3>7, <3>8, <3>9
    <3> QED
      BY <3>1, <3>3, <3>5, <3>6, <3>9, <3>10, TableMade
  <2> QED
    BY <2>1, <2>2
<1> HIDE DEF t
<1>5. HasTable(t, d, va[1]) => tf \in TablesIn(t.ram, t.dir) /\ tf \in Frames
  <2>1. d \in DirsIn(t.dir)
    BY <1>4
  <2>2. t.ram \in Memories /\ t.dir \in DirOwners
    BY <1>4, Parts DEF Sane
  <2> QED
    BY <1>1, <2>1, <2>2, TableThere, TreeTypes DEF HasTable
<1>6. f \in Held(t.mem)
  BY <1>4 DEF Sane, Consistent
<1>7. CASE ~HasTable(t, d, va[1])
  BY <1>3, <1>4, <1>6, <1>7 DEF Attempted
<1>8. CASE HasTable(t, d, va[1]) /\ t.dead
  <2> HIDE DEF tf
  <2>1. y = Put(t, tf, va[2], Entry(f, TRUE))
    BY <1>3, <1>8 DEF Put
  <2>2. Entry(f, TRUE) \in Entries
    BY EntryTypes
  <2> DEFINE e == Entry(f, TRUE)
  <2>3. t \in Machines /\ AllocatorSound(t.mem) /\ e \in Entries /\ tf \in Frames
    BY <1>4, <1>5, <1>8, <2>2 DEF Sane, Typed
  <2> HIDE DEF e
  <2>4. y = Put(t, tf, va[2], e)
    BY <2>1 DEF e
  <2>5. /\ y \in Machines /\ y.mem = t.mem /\ y.dir = t.dir /\ y.pages = t.pages
        /\ y.dead = t.dead
    BY <1>1, <2>3, <2>4, Stored
  <2>6. Sane(y, R)
    BY <1>8, <2>3, <2>5 DEF Sane, Typed
  <2> QED
    BY <1>4, <1>6, <1>8, <2>5, <2>6 DEF Attempted
<1>9. CASE HasTable(t, d, va[1]) /\ ~t.dead
  <2> HIDE DEF tf
  <2>1. y = Put(t, tf, va[2], Entry(f, TRUE))
    BY <1>3, <1>9 DEF Put
  <2>2. /\ Sane(y, R \ {f}) /\ y.dir = t.dir /\ y.pages = t.pages /\ y.mem = t.mem
        /\ ~y.dead
        /\ f \notin Roots(y.dir) \cup TablesIn(y.ram, y.dir)
        /\ \A x \in DirsIn(t.dir), i \in Words : y.ram[x][i] = t.ram[x][i]
    <3> DEFINE w == va[2]
               e == Entry(f, TRUE)
    <3>1. w \in Words /\ ~t.dead /\ Sane(t, R) /\ tf \in TablesIn(t.ram, t.dir)
          /\ f \in R /\ y = Put(t, tf, w, e)
      BY <1>1, <1>4, <1>5, <1>9, <2>1
    <3>2. e \in Entries /\ e # None /\ e.frame = f
      BY EntryTypes
    <3> HIDE DEF w, e
    <3> QED
      BY <3>1, <3>2, PageMapped
  <2>3. HasTable(y, d, va[1])
    BY <1>1, <1>4, <1>9, <2>2 DEF HasTable
  <2> QED
    BY <1>4, <1>6, <2>2, <2>3 DEF Attempted
<1> QED
  BY <1>7, <1>8, <1>9

\* However the attempt ended, the frame is now mapped or free.
LEMMA Settles ==
    ASSUME NEW m, NEW R, NEW d, NEW va, NEW f \in Frames, f \in R, NEW o \in HeldOwners,
           Attempted(m, R, d, va[1], f),
           NEW y, y = Settled(m, d, va, f, o)
    PROVE  Sane(y, R \ {f}) /\ SameTree(y, m)
<1> DEFINE S == R \ {f}
<1>2. f \in Held(m.mem)
  BY DEF Attempted
<1>3. CASE HasTable(m, d, va[1]) /\ ~m.dead
  <2>1. Sane(m, S) /\ f \notin Roots(m.dir) \cup TablesIn(m.ram, m.dir)
    BY <1>3 DEF Attempted
  <2>2. y = Owned(m, f, o)
    BY <1>3 DEF Settled
  <2> HIDE DEF S
  <2> QED
    <3>1. Sane(y, S) /\ SameTree(y, m)
      BY <1>2, <2>1, <2>2, Label
    <3> QED
      BY <3>1 DEF S, SameTree
<1>4. CASE HasTable(m, d, va[1]) /\ m.dead
  <2>1. Sane(m, S)
    BY <1>4 DEF Attempted, Sane
  <2>2. y = Owned(m, f, o)
    BY <1>4 DEF Settled
  <2> HIDE DEF S
  <2> QED
    <3>1. Sane(y, S) /\ SameTree(y, m)
      BY <1>2, <1>4, <2>1, <2>2, Label
    <3> QED
      BY <3>1 DEF S, SameTree
<1>5. CASE ~HasTable(m, d, va[1])
  <2>1. Sane(m, R)
    BY <1>5 DEF Attempted
  <2>2. y = Freed(m, f)
    BY <1>5 DEF Settled
  <2>3. Sane(y, R \ {f}) /\ SameTree(y, m)
    BY <2>1, <2>2, Give
  <2> QED
    BY <2>3 DEF SameTree
<1> QED
  BY <1>3, <1>4, <1>5

LEMMA NewPage ==
    ASSUME NEW m, NEW R, Sane(m, R), ~m.dead, NEW va \in UpperVAs,
           NEW v \in BOOLEAN, NEW o \in HeldOwners,
           NEW y, y = MapNewPage(m, va, v, o)
    PROVE  /\ Sane(y, R) /\ y.dir = m.dir /\ y.pages = m.pages
           /\ ~y.dead => OtherWalksKept(m, y, va)
<1> DEFINE f == AllocPage(m.mem)
           a == Drawn(m)
           t == MapPage(a, va, f, v)
<1>1. CASE f = NoPage
  BY <1>1 DEF MapNewPage, OtherWalksKept
<1>2. CASE f # NoPage
  <2>1. y = Settled(t, GlobalDir, va, f, o)
    BY <1>2 DEF MapNewPage
  <2>2. f = AllocPage(m.mem) /\ a = Drawn(m) /\ t = MapPage(a, va, f, v)
    OBVIOUS
  <2> HIDE DEF f, a, t
  <2>3. /\ f \in Frames /\ f \notin Held(m.mem) /\ Sane(a, R \cup {f}) /\ SameTree(a, m)
    BY <1>2, <2>2, Draw
  <2>4. f \notin R
    BY <2>3 DEF Sane, Consistent
  <2> DEFINE S == R \cup {f}
  <2>5. Sane(a, S) /\ ~a.dead /\ f \in S
    BY <2>3 DEF SameTree
  <2> HIDE DEF S
  <2>6. /\ t.dir = a.dir /\ t.pages = a.pages /\ Attempted(t, S, GlobalDir, va[1], f)
        /\ ~t.dead => OtherWalksKept(a, t, va)
    BY <2>2, <2>3, <2>5, PageIn
  <2>7. S \ {f} = R
    BY <2>4 DEF S
  <2>8. Sane(y, S \ {f}) /\ SameTree(y, t)
    <3> DEFINE d == GlobalDir
    <3>1. y = Settled(t, d, va, f, o) /\ Attempted(t, S, d, va[1], f)
      BY <2>1, <2>6
    <3> HIDE DEF d
    <3> QED
      BY <2>3, <2>5, <3>1, Settles
  <2>9. ~y.dead => OtherWalksKept(m, y, va)
    BY <2>3, <2>6, <2>8 DEF SameTree, OtherWalksKept, Walk
  <2> QED
    BY <2>3, <2>6, <2>7, <2>8, <2>9 DEF SameTree
<1> QED
  BY <1>1, <1>2

-----------------------------------------------------------------------------
(* Pages and tables taken out again.                                       *)

LEMMA Loaded ==
    ASSUME NEW m, NEW R, Sane(m, R), NEW x \in Frames, NEW y, y = [m EXCEPT !.cr3 = x]
    PROVE  Sane(y, R) /\ SameTree(y, m)
<1>1. m \in Machines /\ AllocatorSound(m.mem)
  BY DEF Sane, Typed
<1>2. y \in Machines /\ y.mem = m.mem /\ SameTree(y, m)
  BY <1>1 DEF Machines, SameTree
<1> QED
  BY <1>1, <1>2 DEF Sane, Typed, SameTree, Protected

LEMMA Died ==
    ASSUME NEW m, NEW R, Sane(m, R), NEW y, y = Dies(m)
    PROVE  Sane(y, R) /\ y.dir = m.dir /\ y.pages = m.pages /\ y.dead
<1>1. m \in Machines /\ AllocatorSound(m.mem)
  BY DEF Sane, Typed
<1>2. y \in Machines /\ y.mem = m.mem /\ y.dir = m.dir /\ y.pages = m.pages /\ y.dead
  BY <1>1 DEF Machines, Dies
<1> QED
  BY <1>1, <1>2 DEF Sane, Typed

\* Clearing an entry, without and with its table.
LeafOut(m, d, va) == Put(m, m.ram[d][va[1]].frame, va[2], None)
TableUnlinked(m, d, va) == Put(LeafOut(m, d, va), d, va[1], None)
TableOut(m, d, va) ==
    Freed(Owned(TableUnlinked(m, d, va), m.ram[d][va[1]].frame, "ALLOCATOR"),
          m.ram[d][va[1]].frame)

LEMMA ClearedEither ==
    ASSUME NEW m, NEW d, NEW va, NEW free, NEW y, y = Cleared(m, d, va, free)
    PROVE  \/ y = LeafOut(m, d, va)
           \/ /\ y = TableOut(m, d, va)
              /\ LeafOut(m, d, va).ram[m.ram[d][va[1]].frame] = EmptyTable
BY DEF Cleared, LeafOut, TableUnlinked, TableOut, Put

LEMMA PageOut ==
    ASSUME NEW m, NEW R, Sane(m, R), ~m.dead, NEW d \in DirsIn(m.dir),
           NEW va \in UserVAs, Walk(m, d, va) # None,
           NEW f, f = Walk(m, d, va).frame,
           NEW y, y = LeafOut(m, d, va) \/ y = TableOut(m, d, va)
    PROVE  /\ f \in Frames /\ f \notin R
           /\ Sane(y, R \cup {f}) /\ y.dir = m.dir /\ y.pages = m.pages /\ ~y.dead
<1> DEFINE t == m.ram[d][va[1]].frame
           c == LeafOut(m, d, va)
           w == va[2]
           i == va[1]
           S == R \cup {f}
<1>1. /\ i \in Dirs \ {IdDir} /\ i \notin KernelDirs /\ i \in Words /\ w \in Words
  BY RootFrames DEF UserVAs, Dirs, IdDir, TaskDir, ImageDir, KernelDirs, HeapDir, TestDir
<1>2. /\ Typed(m) /\ m \in Machines /\ AllocatorSound(m.mem)
      /\ Consistent(m.ram, m.dir, Held(m.mem), R)
      /\ Protected(m) /\ m.ram \in Memories /\ m.dir \in DirOwners
  BY Parts DEF Sane, Typed
<1>3. m.ram[d][i] # None /\ m.ram[t][w] # None /\ f = m.ram[t][w].frame
  BY DEF Walk
<1>4. <<d, i>> \in LinksIn(m.ram, m.dir) /\ t \in TablesIn(m.ram, m.dir)
  BY <1>1, <1>3, TableThere
<1>5. t \in Frames /\ d \in Frames /\ f \in Frames
  BY <1>1, <1>2, <1>3, <1>4, TreeTypes
<1>6. None \in Entries
  BY EntryTypes
<1>7. c = Put(m, t, w, None)
  BY DEF LeafOut
<1>8. f \notin R /\ f # t /\ t \notin R
  <2>1. /\ \A l \in LeavesIn(m.ram, m.dir) :
                 /\ FrameAt(m.ram, l) \notin TablesIn(m.ram, m.dir)
                 /\ FrameAt(m.ram, l) \in Held(m.mem) \ (Roots(m.dir) \cup R)
        /\ TablesIn(m.ram, m.dir) \subseteq Held(m.mem) \ (Roots(m.dir) \cup R)
    BY <1>2, Apart
  <2>2. <<t, w>> \in LeavesIn(m.ram, m.dir) /\ FrameAt(m.ram, <<t, w>>) = f
    BY <1>1, <1>3, <1>4 DEF LeavesIn, FrameAt
  <2> QED
    BY <1>4, <2>1, <2>2
<1>9. t \notin DirsIn(m.dir)
  <2>1. TablesIn(m.ram, m.dir) \cap Roots(m.dir) = {}
    BY <1>2, Apart
  <2> QED
    BY <1>4, <2>1 DEF Roots
<1>10. y = c \/ y = Freed(Owned(Put(c, d, i, None), t, "ALLOCATOR"), t)
  BY DEF TableOut, TableUnlinked
<1> HIDE DEF t, c, w, i
<1>11. /\ c \in Machines /\ c.mem = m.mem /\ c.dir = m.dir /\ c.pages = m.pages
       /\ c.dead = m.dead /\ c.ram \in Memories
       /\ Rewritten(m.ram, c.ram, t, w, None)
  <2> DEFINE e == None
  <2>1. e \in Entries /\ c = Put(m, t, w, e)
    BY <1>6, <1>7
  <2> HIDE DEF e
  <2>2. /\ c \in Machines /\ c.mem = m.mem /\ c.dir = m.dir /\ c.pages = m.pages
        /\ c.dead = m.dead /\ c.ram \in Memories
        /\ Rewritten(m.ram, c.ram, t, w, e)
    BY <1>1, <1>2, <1>5, <2>1, Stored
  <2> QED
    BY <2>2 DEF e
<1>12. Consistent(c.ram, m.dir, Held(m.mem), S) /\ TablesIn(c.ram, m.dir) = TablesIn(m.ram, m.dir)
  <2> DEFINE old == m.ram
             new == c.ram
             dir == m.dir
             held == Held(m.mem)
  <2>1. /\ old \in Memories /\ new \in Memories /\ dir \in DirOwners
        /\ Consistent(old, dir, held, R) /\ t \in TablesIn(old, dir) /\ w \in Words
        /\ old[t][w] # None /\ Rewritten(old, new, t, w, None)
    BY <1>1, <1>2, <1>3, <1>4, <1>11
  <2>2. f = old[t][w].frame
    BY <1>3
  <2> HIDE DEF old, new, dir, held, S
  <2>3. /\ Consistent(new, dir, held, R \cup {old[t][w].frame})
        /\ TablesIn(new, dir) = TablesIn(old, dir)
    BY <2>1, LeafClear
  <2> QED
    BY <2>2, <2>3 DEF old, new, dir, held, S
<1>13. Sane(c, S) /\ ~c.dead
  <2>1. Protected(c)
    BY <1>2, <1>11, <1>12 DEF Protected
  <2> QED
    BY <1>2, <1>11, <1>12, <2>1 DEF Sane, Typed
<1>14. CASE y = c
  BY <1>5, <1>8, <1>11, <1>13, <1>14
<1>15. CASE y = Freed(Owned(Put(c, d, i, None), t, "ALLOCATOR"), t)
  <2> DEFINE b == Put(c, d, i, None)
             a == Owned(b, t, "ALLOCATOR")
             U == S \cup {t}
  <2>1. /\ b \in Machines /\ b.mem = c.mem /\ b.dir = c.dir /\ b.pages = c.pages
        /\ b.dead = c.dead /\ b.ram \in Memories
        /\ Rewritten(c.ram, b.ram, d, i, None)
    <3> DEFINE e == None
    <3>1. e \in Entries /\ b = Put(c, d, i, e)
      BY <1>6
    <3> HIDE DEF e, b
    <3>2. /\ b \in Machines /\ b.mem = c.mem /\ b.dir = c.dir /\ b.pages = c.pages
          /\ b.dead = c.dead /\ b.ram \in Memories
          /\ Rewritten(c.ram, b.ram, d, i, e)
      BY <1>1, <1>5, <1>11, <3>1, Stored
    <3> QED
      BY <3>2 DEF e
  <2> HIDE DEF b, U
  <2>2. Consistent(b.ram, m.dir, Held(m.mem), U) /\ TablesIn(b.ram, m.dir) \subseteq TablesIn(m.ram, m.dir) \ {t}
    <3> DEFINE old == c.ram
               new == b.ram
               dir == m.dir
               held == Held(m.mem)
               u == <<d, i>>
    <3>1. c.ram[d][i] = m.ram[d][i]
      BY <1>1, <1>5, <1>9, <1>11 DEF Rewritten
    <3>2. u \in LinksIn(old, dir) /\ FrameAt(old, u) = t /\ u[1] = d /\ u[2] = i
      BY <1>1, <1>3, <3>1, TableThere DEF FrameAt, t, i
    <3>3. /\ old \in Memories /\ new \in Memories /\ dir \in DirOwners
          /\ Consistent(old, dir, held, S) /\ Rewritten(old, new, u[1], u[2], None)
      BY <1>2, <1>11, <1>12, <2>1
    <3>4. TablesIn(old, dir) = TablesIn(m.ram, m.dir)
      BY <1>12
    <3> HIDE DEF old, new, dir, held, u, S
    <3>5. /\ Consistent(new, dir, held, S \cup {FrameAt(old, u)})
          /\ TablesIn(new, dir) \subseteq TablesIn(old, dir) \ {FrameAt(old, u)}
      BY <3>2, <3>3, LinkClear
    <3> QED
      BY <3>2, <3>4, <3>5 DEF old, new, dir, held, u, U
  <2>3. Sane(b, U) /\ ~b.dead
    <3>1. Protected(b)
      BY <1>2, <1>11, <2>1, <2>2 DEF Protected
    <3> QED
      BY <1>2, <1>11, <1>13, <2>1, <2>2, <3>1 DEF Sane, Typed
  <2>4. t \in Held(b.mem) /\ t \in U /\ t \notin Roots(b.dir) \cup TablesIn(b.ram, b.dir)
    BY <1>11, <2>1, <2>2 DEF U, Consistent
  <2>5. "ALLOCATOR" \in HeldOwners
    BY DEF HeldOwners, LeafOwners
  <2>6. a = Owned(b, t, "ALLOCATOR") /\ y = Freed(a, t)
    BY <1>15 DEF b
  <2> HIDE DEF a
  <2>7. Sane(a, U) /\ SameTree(a, b)
    BY <2>3, <2>4, <2>5, <2>6, Label
  <2>8. Sane(y, U \ {t}) /\ SameTree(y, a)
    BY <1>5, <2>4, <2>6, <2>7, Give
  <2>9. U \ {t} = S
    BY <1>8 DEF U
  <2> QED
    BY <1>5, <1>8, <1>11, <2>1, <2>3, <2>7, <2>8, <2>9 DEF SameTree
<1> QED
  BY <1>10, <1>14, <1>15

-----------------------------------------------------------------------------
(* The pages of one process.                                               *)

LEMMA Home ==
    ASSUME NEW m, Typed(m), NEW s \in Slots
    PROVE  /\ HomeDir(m, s) \in DirsIn(m.dir) /\ HomeDir(m, s) \in Frames
           /\ m.dir[s] # NoPage => HomeDir(m, s) = m.dir[s]
           /\ m.dir[s] = NoPage => HomeDir(m, s) = GlobalDir
           /\ UserVAs \subseteq UpperVAs
<1>1. HomeDir(m, s) \in DirsIn(m.dir)
  BY DEF HomeDir, DirsIn
<1>2. m.ram \in Memories /\ m.dir \in DirOwners
  BY Parts
<1>3. DirsIn(m.dir) \subseteq Frames
  BY <1>2, TreeTypes
<1>4. UserVAs \subseteq UpperVAs
  BY DEF UserVAs, UpperVAs, Dirs, IdDir, TaskDir, ImageDir
<1> QED
  BY <1>1, <1>3, <1>4 DEF HomeDir

LEMMA PageUnmapped ==
    ASSUME NEW m, NEW R, Sane(m, R), NEW s \in Slots, NEW va \in UserVAs,
           NEW y, y = Unmapped(m, s, va)
    PROVE  Sane(y, R) /\ y.dir = m.dir /\ y.pages = m.pages
<1> DEFINE d == HomeDir(m, s)
           f == Walk(m, d, va).frame
           z == IF m.dir[s] = NoPage THEN UnmapPage(m, va) ELSE UnmapDirect(m, m.dir[s], va)
<1>1. /\ d \in DirsIn(m.dir) /\ d \in Frames
      /\ m.dir[s] # NoPage => d = m.dir[s]
      /\ m.dir[s] = NoPage => d = GlobalDir
  BY Home DEF Sane
<1>2. CASE m.dead \/ (~WalkFaults(m, s, va) /\ f = NoPage)
  <2>1. WalkFaults(m, s, va) \in BOOLEAN
    BY DEF WalkFaults
  <2>2. y = m
    BY <1>2, <2>1 DEF Unmapped
  <2> QED
    BY <2>2
<1>3. CASE ~m.dead /\ WalkFaults(m, s, va)
  <2>1. y = Dies(m)
    BY <1>3 DEF Unmapped
  <2> QED
    BY <2>1, Died
<1>4. CASE ~m.dead /\ ~WalkFaults(m, s, va) /\ f # NoPage
  <2>1. y = Freed(z, f)
    BY <1>4 DEF Unmapped
  <2>2. Walk(m, d, va) # None
    BY <1>4, EntryTypes
  <2>3. f = Walk(m, d, va).frame
    OBVIOUS
  <2> DEFINE c == IF m.dir[s] = NoPage
                  THEN Cleared(m, d, va, OwnerGet(m.mem, m.ram[d][va[1]].frame) = "PAGING_STRUCTURE")
                  ELSE Cleared(m, d, va, TRUE)
  <2>4. c = LeafOut(m, d, va) \/ c = TableOut(m, d, va)
    BY ClearedEither
  <2>5. z = c \/ z = [c EXCEPT !.cr3 = GlobalDir]
    <3>1. CASE m.dir[s] = NoPage
      <4>1. z = UnmapPage(m, va) /\ d = GlobalDir
        BY <1>1, <3>1
      <4>2. c = Cleared(m, GlobalDir, va, OwnerGet(m.mem, m.ram[GlobalDir][va[1]].frame) = "PAGING_STRUCTURE")
        BY <3>1, <4>1
      <4> HIDE DEF z, c, d, f
      <4> QED
        BY <2>2, <4>1, <4>2 DEF UnmapPage
    <3>2. CASE m.dir[s] # NoPage
      <4>1. z = UnmapDirect(m, d, va) /\ c = Cleared(m, d, va, TRUE)
        BY <1>1, <3>2
      <4> HIDE DEF z, c, d, f
      <4>2. HasTable(m, d, va[1])
        BY <2>2 DEF Walk, HasTable
      <4> QED
        BY <4>1, <4>2 DEF UnmapDirect
    <3> QED
      BY <3>1, <3>2
  <2> HIDE DEF z, c, d, f
  <2>6. /\ f \in Frames /\ f \notin R
        /\ Sane(c, R \cup {f}) /\ c.dir = m.dir /\ c.pages = m.pages /\ ~c.dead
    BY <1>1, <1>4, <2>2, <2>3, <2>4, PageOut
  <2> DEFINE S == R \cup {f}
  <2>7. Sane(c, S) /\ f \in S /\ S \ {f} = R
    BY <2>6
  <2> HIDE DEF S
  <2>8. Sane(z, S) /\ z.dir = m.dir /\ z.pages = m.pages /\ ~z.dead
    <3>1. CASE z = c
      BY <2>6, <2>7, <3>1
    <3>2. CASE z = [c EXCEPT !.cr3 = GlobalDir]
      <4> DEFINE x == GlobalDir
      <4>1. x \in Frames /\ z = [c EXCEPT !.cr3 = x]
        BY <3>2, RootFrames
      <4> HIDE DEF x
      <4> QED
        BY <2>6, <2>7, <4>1, Loaded DEF SameTree
    <3> QED
      BY <2>5, <3>1, <3>2
  <2>9. Sane(y, S \ {f}) /\ SameTree(y, z)
    BY <2>1, <2>6, <2>7, <2>8, Give
  <2> QED
    BY <2>7, <2>8, <2>9 DEF SameTree
<1> QED
  BY <1>2, <1>3, <1>4

LEMMA Tracks ==
    ASSUME NEW m, NEW R, Sane(m, R), NEW s \in Slots, NEW va \in UserVAs,
           NEW y, y = Track(m, s, va)
    PROVE  Sane(y, R) /\ y.dir = m.dir
<1>1. m \in Machines /\ AllocatorSound(m.mem)
  BY DEF Sane, Typed
<1> DEFINE ps == [m.pages EXCEPT ![s] = Append(@, va)]
<1>2. ps \in [Slots -> Seq(UserVAs)]
  BY <1>1 DEF Machines
<1>3. y = m \/ y = [m EXCEPT !.pages = ps]
  BY DEF Track
<1> HIDE DEF ps
<1>4. /\ y \in Machines /\ y.mem = m.mem /\ y.ram = m.ram /\ y.dir = m.dir /\ y.dead = m.dead
  BY <1>1, <1>2, <1>3 DEF Machines
<1> QED
  BY <1>1, <1>4 DEF Sane, Typed, Protected

LEMMA FreshMapped ==
    ASSUME NEW m, NEW R, Sane(m, R), ~m.dead, NEW s \in Slots, NEW va \in UserVAs,
           NEW y, y = MapFresh(m, s, va)
    PROVE  /\ Sane(y, R) /\ y.dir = m.dir /\ y.pages = m.pages
           /\ m.dir[s] = NoPage /\ ~y.dead => OtherWalksKept(m, y, va)
<1> DEFINE d == HomeDir(m, s)
           f == AllocPage(m.mem)
           a == Drawn(m)
           o == "USER_TASK"
           t == MapDirect(a, d, va, f)
<1>1. /\ d \in DirsIn(m.dir)
      /\ m.dir[s] # NoPage => d = m.dir[s]
      /\ va \in UpperVAs
  BY Home DEF Sane
<1>2. o \in HeldOwners
  BY DEF HeldOwners, LeafOwners
<1>3. CASE m.dir[s] = NoPage
  <2> DEFINE v == TRUE
  <2>1. y = MapNewPage(m, va, v, o) /\ v \in BOOLEAN
    BY <1>3 DEF MapFresh
  <2> HIDE DEF o
  <2>2. PICK b \in BOOLEAN : b = TRUE
    OBVIOUS
  <2>3. y = MapNewPage(m, va, b, o)
    BY <2>1, <2>2
  <2> QED
    BY <1>1, <1>2, <2>3, NewPage
<1>4. CASE m.dir[s] # NoPage /\ f = NoPage
  <2>1. y = m
    BY <1>4 DEF MapFresh
  <2> QED
    BY <2>1 DEF OtherWalksKept
<1>5. CASE m.dir[s] # NoPage /\ f # NoPage
  <2>1. y = Settled(t, d, va, f, o)
    <3>1. y = Settled(MapDirect(a, m.dir[s], va, f), m.dir[s], va, f, o)
      BY <1>5 DEF MapFresh
    <3>2. d = m.dir[s]
      BY <1>1, <1>5
    <3> HIDE DEF d, f, a, o
    <3> QED
      BY <3>1, <3>2
  <2>2. f = AllocPage(m.mem) /\ a = Drawn(m) /\ t = MapDirect(a, d, va, f)
    OBVIOUS
  <2> HIDE DEF d, f, a, t, o
  <2>3. /\ f \in Frames /\ f \notin Held(m.mem) /\ Sane(a, R \cup {f}) /\ SameTree(a, m)
    BY <1>5, <2>2, Draw
  <2> DEFINE S == R \cup {f}
  <2>4. Sane(a, S) /\ ~a.dead /\ f \in S /\ d \in DirsIn(a.dir)
    <3>1. ~a.dead /\ d \in DirsIn(a.dir)
      BY <1>1, <2>3 DEF SameTree
    <3> QED
      BY <2>3, <3>1
  <2>5. S \ {f} = R
    BY <2>3 DEF Sane, Consistent
  <2> HIDE DEF S
  <2>6. t.dir = a.dir /\ t.pages = a.pages /\ Attempted(t, S, d, va[1], f)
    BY <2>2, <2>3, <2>4, DirectIn
  <2>7. Sane(y, S \ {f}) /\ SameTree(y, t)
    BY <1>2, <2>1, <2>3, <2>4, <2>6, Settles
  <2> QED
    BY <1>5, <2>3, <2>5, <2>6, <2>7 DEF SameTree
<1> QED
  BY <1>3, <1>4, <1>5

LEMMA PageMappedFor ==
    ASSUME NEW m, NEW R, Sane(m, R), NEW s \in Slots, NEW va \in UserVAs,
           NEW y, y = MapUserPage(m, s, va)
    PROVE  Sane(y, R) /\ y.dir = m.dir
<1>1. WalkFaults(m, s, va) \in BOOLEAN
  BY DEF WalkFaults
<1>2. CASE m.dead
  BY <1>2 DEF MapUserPage
<1>3. CASE ~m.dead /\ WalkFaults(m, s, va)
  <2>1. y = Dies(m)
    BY <1>3 DEF MapUserPage
  <2> QED
    BY <2>1, Died
<1>4. CASE ~m.dead /\ ~WalkFaults(m, s, va) /\ Walk(m, HomeDir(m, s), va) # None
  <2>1. y = Track(m, s, va)
    BY <1>4 DEF MapUserPage
  <2> QED
    BY <2>1, Tracks
<1>5. CASE ~m.dead /\ ~WalkFaults(m, s, va) /\ Walk(m, HomeDir(m, s), va) = None
  <2> DEFINE t == MapFresh(m, s, va)
             u == Track(t, s, va)
  <2>1. y = TrackedOrUnmapped(t, s, va)
    BY <1>5 DEF MapUserPage
  <2>2. Sane(t, R) /\ t.dir = m.dir
    BY <1>5, FreshMapped
  <2>3. y = t \/ y = u \/ y = Unmapped(t, s, va)
    BY <2>1 DEF TrackedOrUnmapped
  <2> HIDE DEF t
  <2>4. Sane(u, R) /\ u.dir = t.dir
    BY <2>2, Tracks
  <2> HIDE DEF u
  <2>5. CASE y = Unmapped(t, s, va)
    BY <2>2, <2>5, PageUnmapped
  <2> QED
    BY <2>2, <2>3, <2>4, <2>5
<1> QED
  BY <1>1, <1>2, <1>3, <1>4, <1>5

-----------------------------------------------------------------------------
(* A private directory is made and given up.                               *)

PrivateContents(m) ==
    [w \in Words |-> IF w \in KernelDirs THEN m.ram[GlobalDir][w] ELSE None]

\* The slot has a directory in a frame that was free, and nothing else changed.
DirectoryAdded(m, y, s) ==
    /\ y.dir[s] \in Frames \ Held(m.mem)
    /\ \A r \in Slots \ {s} : y.dir[r] = m.dir[r]
    /\ Refilled(m.ram, y.ram, y.dir[s])

LEMMA DirectoryMade ==
    ASSUME NEW m, NEW R, Sane(m, R), ~m.dead, NEW s \in Slots,
           NEW y, y = WithDirectory(m, s)
    PROVE  /\ Sane(y, R) /\ y.pages = m.pages
           /\ ~y.dead /\ m.dir[s] = NoPage =>
                  (y.dir = m.dir /\ y.ram = m.ram) \/ DirectoryAdded(m, y, s)
<1> DEFINE f == AllocPage(m.mem)
           a == Drawn(m)
           C == PrivateContents(m)
           w == Written(a, f, C)
           b == [w EXCEPT !.dir[s] = f]
           o == "PAGING_STRUCTURE"
           l == Owned(a, f, o)
           S == R \cup {f}
<1>1. CASE m.dir[s] # NoPage \/ f = NoPage
  BY <1>1 DEF WithDirectory
<1>2. CASE ~(m.dir[s] # NoPage \/ f = NoPage)
  <2>1. y = Owned(b, f, o)
    BY <1>2 DEF WithDirectory, PrivateContents
  <2>2. f = AllocPage(m.mem) /\ a = Drawn(m)
    OBVIOUS
  <2>3. C \in [Words -> Entries] /\ \A d \in Dirs \ (KernelDirs \cup {IdDir}) : C[d] = None
    <3>1. m.ram \in Memories
      BY Parts DEF Sane
    <3> QED
      BY <3>1, RootFrames, EntryTypes DEF PrivateContents, Memories
  <2> HIDE DEF f, a, C
  <2>4. f \in Frames /\ f \notin Held(m.mem) /\ Held(a.mem) = Held(m.mem) \cup {f}
        /\ Sane(a, R \cup {f}) /\ SameTree(a, m)
    BY <1>2, <2>2, Draw
  <2>5. Sane(a, S) /\ ~a.dead /\ f \in S /\ f \in Held(a.mem)
    <3>1. ~a.dead /\ f \in Held(a.mem)
      BY <2>4 DEF SameTree
    <3> QED
      BY <2>4, <3>1
  <2>6. S \ {f} = R
    BY <2>4 DEF Sane, Consistent
  <2> HIDE DEF S, l
  <2>7. o \in HeldOwners
    BY DEF HeldOwners
  <2>8. /\ Sane(l, S) /\ SameTree(l, a)
        /\ Ample => l.mem.owner[f] = "PAGING_STRUCTURE"
    <3>1. o = "PAGING_STRUCTURE" /\ l = Owned(a, f, o)
      BY DEF l
    <3> HIDE DEF o
    <3> QED
      BY <2>5, <2>7, <3>1, Label
  <2>9. /\ Typed(a) /\ a \in Machines /\ AllocatorSound(a.mem) /\ IdentityMaps(a.ram)
        /\ a.ram \in Memories /\ a.dir \in DirOwners
    BY <2>5, Parts DEF Sane, Typed, Consistent
  <2>10. Through(a, f) \in {f, NoPage}
    BY <2>4, <2>9, Reached
  <2>11. /\ w \in Machines /\ w.mem = a.mem /\ w.dir = a.dir /\ w.pages = a.pages
         /\ ~w.dead => \A x \in Frames, i \in Words : w.ram[x][i] = IF x = f THEN C[i] ELSE a.ram[x][i]
    <3>1. CASE Through(a, f) = NoPage
      <4>1. w = Dies(a)
        BY <3>1 DEF Written
      <4> QED
        BY <2>9, <4>1 DEF Machines, Dies
    <3>2. CASE Through(a, f) # NoPage
      <4> DEFINE r == [a.ram EXCEPT ![f] = C]
      <4>1. w = [a EXCEPT !.ram = r]
        BY <2>10, <3>2 DEF Written
      <4>2. r \in Memories /\ \A x \in Frames, i \in Words : r[x][i] = IF x = f THEN C[i] ELSE a.ram[x][i]
        BY <2>3, <2>4, <2>9 DEF Memories
      <4> HIDE DEF r, w
      <4>3. /\ w \in Machines /\ w.mem = a.mem /\ w.dir = a.dir /\ w.pages = a.pages /\ w.ram = r
        BY <2>9, <4>1, <4>2 DEF Machines
      <4> QED
        BY <4>2, <4>3
    <3> QED
      BY <3>1, <3>2
  <2> HIDE DEF w
  <2>12. /\ b \in Machines /\ b.mem = w.mem /\ b.pages = w.pages /\ b.ram = w.ram /\ b.dead = w.dead
         /\ \A r \in Slots : b.dir[r] = IF r = s THEN f ELSE a.dir[r]
    <3> DEFINE dir2 == [w.dir EXCEPT ![s] = f]
    <3>1. dir2 \in DirOwners /\ \A r \in Slots : dir2[r] = IF r = s THEN f ELSE a.dir[r]
      BY <2>4, <2>9, <2>11 DEF DirOwners
    <3>2. b = [w EXCEPT !.dir = dir2]
      OBVIOUS
    <3> HIDE DEF dir2, b
    <3>3. /\ b \in Machines /\ b.mem = w.mem /\ b.pages = w.pages /\ b.ram = w.ram /\ b.dead = w.dead
          /\ b.dir = dir2
      BY <2>11, <3>1, <3>2 DEF Machines
    <3> QED
      BY <3>1, <3>3
  <2> HIDE DEF b
  <2>13. AllocatorSound(l.mem) /\ l.mem = SetOwner(a.mem, f, o)
    <3>1. l \in Machines /\ AllocatorSound(l.mem)
      BY <2>8 DEF Sane, Typed
    <3>2. l.mem = SetOwner(a.mem, f, o)
      BY <2>9 DEF l, Owned, Machines
    <3> QED
      BY <3>1, <3>2
  <2>14. /\ Typed(y) /\ SameTree(y, b) /\ y.mem = l.mem
    <3>1. y = [b EXCEPT !.mem = SetOwner(b.mem, f, o)]
      BY <2>1 DEF Owned
    <3>2. SetOwner(b.mem, f, o) = l.mem
      BY <2>11, <2>12, <2>13
    <3>3. AllocatorSound(b.mem)
      BY <2>9, <2>11, <2>12
    <3> DEFINE n == l.mem
    <3>4. y = [b EXCEPT !.mem = n] /\ AllocatorSound(n) /\ Typed(b)
      BY <2>12, <2>13, <3>1, <3>2, <3>3 DEF Typed
    <3> HIDE DEF n
    <3>5. Typed(y) /\ SameTree(y, b) /\ y.mem = n
      BY <3>4, NewMem
    <3> QED
      BY <3>5 DEF n
  <2>15. y.pages = m.pages
    BY <2>4, <2>11, <2>12, <2>14 DEF SameTree
  <2>16. ASSUME ~y.dead
         PROVE  /\ Consistent(y.ram, y.dir, Held(y.mem), R) /\ Protected(y)
                /\ DirectoryAdded(m, y, s)
    <3> DEFINE old == a.ram
               new == y.ram
               dir == a.dir
               dir2 == y.dir
               held == Held(l.mem)
    <3>1. l.ram = a.ram /\ l.dir = a.dir /\ ~l.dead
      BY <2>5, <2>8 DEF SameTree
    <3>2. Consistent(old, dir, held, S) /\ Protected(l)
      BY <2>8, <3>1 DEF Sane
    <3>3. /\ old \in Memories /\ dir \in DirOwners /\ new \in Memories /\ dir2 \in DirOwners
          /\ \A r \in Slots : dir2[r] = IF r = s THEN f ELSE dir[r]
          /\ dir[s] = NoPage
      BY <1>2, <2>4, <2>9, <2>12, <2>14, Parts DEF SameTree
    <3>4. /\ \A x \in Frames, i \in Words : new[x][i] = IF x = f THEN C[i] ELSE old[x][i]
      BY <2>11, <2>12, <2>14, <2>16 DEF SameTree
    <3>5. Refilled(old, new, f)
      BY <2>3, <2>4, <3>4, RootFrames DEF Refilled
    <3> HIDE DEF old, new, dir, dir2, held
    <3>6. /\ Consistent(new, dir2, held, S \ {f})
          /\ TablesIn(new, dir2) \subseteq TablesIn(old, dir)
          /\ Roots(dir2) = Roots(dir) \cup {f}
      <4>1. f \in S /\ f \in Frames
        BY <2>4, <2>5
      <4>2. Consistent(old, dir, held, S)
        BY <3>2
      <4> QED
        BY <3>3, <3>5, <4>1, <4>2, DirSet
    <3>7. Consistent(y.ram, y.dir, Held(y.mem), R)
      BY <2>6, <2>14, <3>6 DEF new, dir2, held
    <3>8. Protected(y)
      BY <2>8, <2>14, <3>1, <3>2, <3>6 DEF Protected, old, new, dir, dir2
    <3>9. DirectoryAdded(m, y, s)
      <4>1. old = m.ram /\ dir = m.dir
        BY <2>4 DEF SameTree, old, dir
      <4>2. dir2[s] = f /\ \A r \in Slots \ {s} : dir2[r] = dir[r]
        BY <3>3
      <4> QED
        BY <2>4, <3>5, <4>1, <4>2 DEF DirectoryAdded, dir2, new
    <3> QED
      BY <3>7, <3>8, <3>9
  <2> QED
    BY <2>14, <2>15, <2>16 DEF Sane
<1> QED
  BY <1>1, <1>2

\* The last step of process_unmap_user_pages: the private directory is freed.
LEMMA DirectoryGone ==
    ASSUME NEW m, NEW R, Sane(m, R), ~m.dead, NEW s \in Slots, m.dir[s] # NoPage,
           NEW y, y = [Freed(m, m.dir[s]) EXCEPT !.cr3 = GlobalDir, !.dir[s] = NoPage]
    PROVE  Sane(y, R)
<1> DEFINE f == m.dir[s]
           dir2 == [m.dir EXCEPT ![s] = NoPage]
           b == [m EXCEPT !.cr3 = GlobalDir, !.dir = dir2]
           S == R \cup {f}
<1>1. /\ Typed(m) /\ m \in Machines /\ AllocatorSound(m.mem)
      /\ Consistent(m.ram, m.dir, Held(m.mem), R)
      /\ Protected(m) /\ m.ram \in Memories /\ m.dir \in DirOwners
  BY Parts DEF Sane, Typed
<1>2. f \in Frames /\ dir2 \in DirOwners /\ \A r \in Slots : dir2[r] = IF r = s THEN NoPage ELSE m.dir[r]
  BY <1>1 DEF DirOwners
<1>3. f \notin R
  BY <1>1 DEF Consistent, Roots, DirsIn
<1>4. y = Freed(b, f)
  BY <1>1 DEF Freed, Machines
<1>5. /\ b \in Machines /\ b.mem = m.mem /\ b.ram = m.ram /\ b.dir = dir2 /\ b.dead = m.dead
  <2> HIDE DEF dir2
  <2> QED
    BY <1>1, <1>2, RootFrames DEF Machines
<1> HIDE DEF b
<1>6. /\ Consistent(m.ram, dir2, Held(m.mem), S)
      /\ TablesIn(m.ram, dir2) \subseteq TablesIn(m.ram, m.dir)
      /\ Roots(dir2) \subseteq Roots(m.dir)
  <2> DEFINE ram == m.ram
             dir == m.dir
             held == Held(m.mem)
  <2>1. /\ ram \in Memories /\ dir \in DirOwners /\ dir2 \in DirOwners
        /\ Consistent(ram, dir, held, R) /\ dir[s] # NoPage
        /\ \A r \in Slots : dir2[r] = IF r = s THEN NoPage ELSE dir[r]
    BY <1>1, <1>2
  <2>2. S = R \cup {dir[s]}
    OBVIOUS
  <2> HIDE DEF ram, dir, held, dir2, S
  <2>3. /\ Consistent(ram, dir2, held, R \cup {dir[s]})
        /\ TablesIn(ram, dir2) \subseteq TablesIn(ram, dir)
        /\ Roots(dir2) \subseteq Roots(dir)
    BY <2>1, DirClear
  <2> QED
    BY <2>2, <2>3 DEF ram, dir, held
<1>7. Sane(b, S)
  <2>1. Protected(b)
    BY <1>1, <1>5, <1>6 DEF Protected
  <2> HIDE DEF dir2, S
  <2> QED
    BY <1>1, <1>5, <1>6, <2>1 DEF Sane, Typed
<1>8. f \in S /\ S \ {f} = R
  BY <1>3
<1> HIDE DEF f, S
<1> QED
  BY <1>2, <1>4, <1>7, <1>8, Give

-----------------------------------------------------------------------------
(* Loops over a list of pages.                                             *)

LEMMA LeastNatural ==
    ASSUME NEW T \in SUBSET Nat, T # {}
    PROVE  \E i \in T : \A j \in T : i <= j
<1> DEFINE Less == OpToRel(<, Nat)
<1>1. IsWellFoundedOn(Less, Nat)
  BY NatLessThanWellFounded, Zenon
<1>2. \A i, j \in T : j < i => <<j, i>> \in Less
  BY DEF OpToRel
<1> HIDE DEF Less
<1>3. PICK i \in T : \A j \in T : ~(<<j, i>> \in Less)
  BY <1>1, WFMin, Zenon
<1>4. \A j \in T : ~(j < i)
  BY <1>2, <1>3
<1> QED
  BY <1>4

\* What every turn of a loop keeps, all of them keep.
LEMMA StaysIn ==
    ASSUME NEW S, NEW L \in Nat, NEW g, g[0] \in S,
           \A n \in 1..L : g[n - 1] \in S => g[n] \in S
    PROVE  \A n \in 0..L : g[n] \in S
<1> DEFINE T == {n \in 0..L : g[n] \notin S}
<1> SUFFICES ASSUME T # {} PROVE FALSE
  OBVIOUS
<1>1. T \in SUBSET Nat
  OBVIOUS
<1>2. PICK i \in T : \A j \in T : i <= j
  <2> HIDE DEF T
  <2> QED
    BY <1>1, LeastNatural
<1>3. i \in 0..L /\ g[i] \notin S
  OBVIOUS
<1>4. i # 0
  BY <1>3
<1>5. i - 1 \in 0..L /\ ~(i <= i - 1) /\ i \in 1..L
  BY <1>3, <1>4
<1>6. g[i - 1] \in S
  BY <1>2, <1>5
<1> QED
  BY <1>3, <1>5, <1>6

\* The states between the turns of a loop exist.
LoopStates(S, base, vas, F) ==
    {r \in [0..Len(vas) -> S] :
        \A n \in 0..Len(vas) : r[n] = IF n = 0 THEN base ELSE F[<<r[n - 1], vas[n]>>]}

LEMMA LoopRuns ==
    ASSUME NEW S, NEW V, NEW base \in S, NEW vas \in Seq(V), NEW F \in [S \X V -> S]
    PROVE  \E r : r \in LoopStates(S, base, vas, F)
<1> DEFINE Runs(L) ==
               \E r \in [0..L -> S] :
                   \A n \in 0..L : r[n] = IF n = 0 THEN base ELSE F[<<r[n - 1], vas[n]>>]
           T == {L \in 0..Len(vas) : ~Runs(L)}
<1>1. Len(vas) \in Nat /\ \A n \in 1..Len(vas) : vas[n] \in V
  OBVIOUS
<1> SUFFICES ASSUME T # {} PROVE FALSE
  BY <1>1 DEF LoopStates
<1>2. T \in SUBSET Nat
  BY <1>1
<1>3. PICK i \in T : \A j \in T : i <= j
  <2> HIDE DEF T
  <2> QED
    BY <1>2, LeastNatural
<1>4. i \in 0..Len(vas) /\ ~Runs(i)
  OBVIOUS
<1>5. Runs(0)
  <2> DEFINE r == [n \in 0..0 |-> base]
  <2>1. r \in [0..0 -> S] /\ \A n \in 0..0 : n = 0 /\ r[n] = base
    OBVIOUS
  <2> HIDE DEF r
  <2> QED
    BY <2>1
<1>6. i # 0
  BY <1>4, <1>5
<1>7. i - 1 \in 0..Len(vas) /\ ~(i <= i - 1) /\ i \in 1..Len(vas)
  BY <1>1, <1>4, <1>6
<1>8. Runs(i - 1)
  BY <1>3, <1>7
<1>9. PICK q \in [0..(i - 1) -> S] :
         \A n \in 0..(i - 1) : q[n] = IF n = 0 THEN base ELSE F[<<q[n - 1], vas[n]>>]
  BY <1>8
<1> DEFINE last == F[<<q[i - 1], vas[i]>>]
           r == [n \in 0..i |-> IF n = i THEN last ELSE q[n]]
<1>10. i \in Nat /\ i - 1 \in 0..(i - 1)
  BY <1>7
<1>11. last \in S
  <2>1. q[i - 1] \in S /\ vas[i] \in V
    BY <1>1, <1>7, <1>9, <1>10
  <2> QED
    BY <2>1
<1>12. r \in [0..i -> S]
  BY <1>9, <1>10, <1>11
<1>13. \A n \in 0..i : r[n] = IF n = 0 THEN base ELSE F[<<r[n - 1], vas[n]>>]
  <2> SUFFICES ASSUME NEW n \in 0..i
               PROVE  r[n] = IF n = 0 THEN base ELSE F[<<r[n - 1], vas[n]>>]
    OBVIOUS
  <2>1. CASE n = i
    <3>1. r[n] = last /\ r[n - 1] = q[i - 1] /\ n # 0
      BY <1>6, <1>10, <2>1
    <3> QED
      BY <2>1, <3>1
  <2>2. CASE n # i
    <3>1. n \in 0..(i - 1) /\ r[n] = q[n]
      BY <1>10, <2>2
    <3>2. n # 0 => r[n - 1] = q[n - 1]
      BY <1>10, <2>2
    <3> QED
      BY <1>9, <3>1, <3>2
  <2> QED
    BY <2>1, <2>2
<1> QED
  BY <1>4, <1>12, <1>13 DEF LoopStates

\* The loop of process_unmap_user_pages, turn by turn.
LEMMA UnmappingTurns ==
    ASSUME NEW m, NEW R, Sane(m, R), NEW s \in Slots,
           NEW vas \in Seq(UserVAs),
           NEW after,
           after = CHOOSE g : g = [n \in 0..Len(vas) |->
                                     IF n = 0 THEN m ELSE Unmapped(g[n - 1], s, vas[n])]
    PROVE  \A n \in 0..Len(vas) : after[n] = IF n = 0 THEN m ELSE Unmapped(after[n - 1], s, vas[n])
<1> DEFINE S == {t \in Machines : Sane(t, R) /\ t.dir = m.dir}
           F == [p \in S \X UserVAs |-> Unmapped(p[1], s, p[2])]
<1>1. m \in S
  BY DEF Sane, Typed
<1>2. \A t \in S, va \in UserVAs : Unmapped(t, s, va) \in S
  <2> SUFFICES ASSUME NEW t \in S, NEW va \in UserVAs PROVE Unmapped(t, s, va) \in S
    OBVIOUS
  <2> DEFINE y == Unmapped(t, s, va)
  <2>1. Sane(t, R) /\ t.dir = m.dir
    OBVIOUS
  <2>2. Sane(y, R) /\ y.dir = t.dir
    <3> HIDE DEF S
    <3> QED
      BY <2>1, PageUnmapped
  <2>3. y \in Machines
    BY <2>2 DEF Sane, Typed
  <2> QED
    BY <2>1, <2>2, <2>3
<1>3. Len(vas) \in Nat /\ \A n \in 1..Len(vas) : vas[n] \in UserVAs
  OBVIOUS
<1> HIDE DEF S
<1>4. F \in [S \X UserVAs -> S]
  BY <1>2
<1>5. \A t \in S, va \in UserVAs : F[<<t, va>>] = Unmapped(t, s, va)
  OBVIOUS
<1> HIDE DEF F
<1>6. PICK r \in [0..Len(vas) -> S] :
         \A n \in 0..Len(vas) : r[n] = IF n = 0 THEN m ELSE F[<<r[n - 1], vas[n]>>]
  <2> DEFINE V == UserVAs
  <2>1. vas \in Seq(V) /\ F \in [S \X V -> S]
    BY <1>4
  <2> HIDE DEF V
  <2>2. \E r : r \in LoopStates(S, m, vas, F)
    BY <1>1, <2>1, LoopRuns
  <2> QED
    BY <2>2 DEF LoopStates
<1>7. \A n \in 0..Len(vas) : r[n] = IF n = 0 THEN m ELSE Unmapped(r[n - 1], s, vas[n])
  <2> SUFFICES ASSUME NEW n \in 0..Len(vas), n # 0
               PROVE  r[n] = Unmapped(r[n - 1], s, vas[n])
    BY <1>6
  <2>1. n - 1 \in 0..Len(vas) /\ n \in 1..Len(vas)
    BY <1>3
  <2>2. r[n - 1] \in S /\ vas[n] \in UserVAs
    BY <1>3, <1>6, <2>1
  <2> QED
    BY <1>5, <1>6, <2>2
<1>8. r = [n \in 0..Len(vas) |-> IF n = 0 THEN m ELSE Unmapped(r[n - 1], s, vas[n])]
  BY <1>6, <1>7
<1>9. after = [n \in 0..Len(vas) |-> IF n = 0 THEN m ELSE Unmapped(after[n - 1], s, vas[n])]
  BY <1>8, Zenon
<1>10. \A n \in 0..Len(vas) : after[n] = IF n = 0 THEN m ELSE Unmapped(after[n - 1], s, vas[n])
  BY <1>9, Zenon
<1> QED
  BY <1>10

LEMMA AllUnmapped ==
    ASSUME NEW m, NEW R, Sane(m, R), NEW s \in Slots,
           NEW vas \in Seq(UserVAs),
           NEW after,
           after = CHOOSE g : g = [n \in 0..Len(vas) |->
                                     IF n = 0 THEN m ELSE Unmapped(g[n - 1], s, vas[n])]
    PROVE  LET y == after[Len(vas)] IN Sane(y, R) /\ y.dir = m.dir
<1> DEFINE S == {t \in Machines : Sane(t, R) /\ t.dir = m.dir}
<1>1. m \in S
  BY DEF Sane, Typed
<1>2. \A t \in S, va \in UserVAs : Unmapped(t, s, va) \in S
  <2> SUFFICES ASSUME NEW t \in S, NEW va \in UserVAs PROVE Unmapped(t, s, va) \in S
    OBVIOUS
  <2> DEFINE y == Unmapped(t, s, va)
  <2>1. Sane(t, R) /\ t.dir = m.dir
    OBVIOUS
  <2>2. Sane(y, R) /\ y.dir = t.dir
    <3> HIDE DEF S
    <3> QED
      BY <2>1, PageUnmapped
  <2>3. y \in Machines
    BY <2>2 DEF Sane, Typed
  <2> QED
    BY <2>1, <2>2, <2>3
<1>3. Len(vas) \in Nat /\ \A n \in 1..Len(vas) : vas[n] \in UserVAs
  OBVIOUS
<1>10. \A n \in 0..Len(vas) : after[n] = IF n = 0 THEN m ELSE Unmapped(after[n - 1], s, vas[n])
  BY UnmappingTurns
<1> HIDE DEF S
<1>11. after[0] \in S
  <2>1. 0 \in 0..Len(vas)
    BY <1>3
  <2> QED
    BY <1>1, <1>10, <2>1
<1>12. \A n \in 1..Len(vas) : after[n - 1] \in S => after[n] \in S
  <2> SUFFICES ASSUME NEW n \in 1..Len(vas), after[n - 1] \in S PROVE after[n] \in S
    OBVIOUS
  <2>1. n \in 0..Len(vas) /\ n # 0 /\ vas[n] \in UserVAs
    BY <1>3
  <2> QED
    BY <1>2, <1>10, <2>1
<1>13. \A n \in 0..Len(vas) : after[n] \in S
  BY <1>3, <1>11, <1>12, StaysIn
<1> QED
  BY <1>3, <1>13 DEF S

LEMMA UserPagesUnmapped ==
    ASSUME NEW m, NEW R, Sane(m, R), NEW s \in Slots,
           NEW y, y = UnmapUserPages(m, s)
    PROVE  Sane(y, R)
<1> DEFINE vas == m.pages[s]
           after == CHOOSE g : g = [n \in 0..Len(vas) |->
                                      IF n = 0 THEN m ELSE Unmapped(g[n - 1], s, vas[n])]
           gone == after[Len(vas)]
           bare == [gone EXCEPT !.pages[s] = <<>>]
<1>1. vas \in Seq(UserVAs)
  BY Parts DEF Sane
<1>2. Sane(gone, R) /\ gone.dir = m.dir
  <2> HIDE DEF vas
  <2>1. after = CHOOSE g : g = [n \in 0..Len(vas) |->
                                  IF n = 0 THEN m ELSE Unmapped(g[n - 1], s, vas[n])]
    OBVIOUS
  <2> HIDE DEF after
  <2>2. LET y2 == after[Len(vas)] IN Sane(y2, R) /\ y2.dir = m.dir
    BY <1>1, <2>1, AllUnmapped
  <2> QED
    BY <2>2
<1>3. y = IF gone.dead THEN gone
          ELSE IF m.dir[s] = NoPage THEN bare
          ELSE [Freed(bare, m.dir[s]) EXCEPT !.cr3 = GlobalDir, !.dir[s] = NoPage]
  BY DEF UnmapUserPages
<1> HIDE DEF after, vas, gone
<1>4. Sane(bare, R) /\ bare.dir = gone.dir /\ bare.dead = gone.dead
  <2>1. gone \in Machines /\ AllocatorSound(gone.mem)
    BY <1>2 DEF Sane, Typed
  <2> DEFINE ps == [gone.pages EXCEPT ![s] = <<>>]
  <2>2. ps \in [Slots -> Seq(UserVAs)] /\ bare = [gone EXCEPT !.pages = ps]
    BY <2>1 DEF Machines
  <2> HIDE DEF ps, bare
  <2>3. /\ bare \in Machines /\ bare.mem = gone.mem /\ bare.ram = gone.ram
        /\ bare.dir = gone.dir /\ bare.dead = gone.dead
    BY <2>1, <2>2 DEF Machines
  <2> QED
    BY <1>2, <2>1, <2>3 DEF Sane, Typed, Protected
<1> HIDE DEF bare
<1>5. CASE gone.dead
  BY <1>2, <1>3, <1>5
<1>6. CASE ~gone.dead /\ m.dir[s] = NoPage
  BY <1>3, <1>4, <1>6
<1>7. CASE ~gone.dead /\ m.dir[s] # NoPage
  <2>1. ~bare.dead /\ bare.dir[s] # NoPage
    BY <1>2, <1>4, <1>7
  <2>2. y = [Freed(bare, bare.dir[s]) EXCEPT !.cr3 = GlobalDir, !.dir[s] = NoPage]
    BY <1>2, <1>3, <1>4, <1>7
  <2> QED
    BY <1>4, <2>1, <2>2, DirectoryGone
<1> QED
  BY <1>5, <1>6, <1>7

LEMMA SpaceFresh ==
    ASSUME NEW m, NEW R, Sane(m, R), ~m.dead, NEW s \in Slots
    PROVE  Sane(FreshUserSpace(m, s), R)
<1> DEFINE d == WithDirectory(m, s)
           y == UnmapUserPages(d, s)
<1>1. Sane(d, R)
  BY DirectoryMade
<1> HIDE DEF d
<1>2. Sane(y, R)
  BY <1>1, UserPagesUnmapped
<1> QED
  BY <1>2 DEF FreshUserSpace, d

\* The loops that map a program, turn by turn.
MappingTurns(g, m, s, vas) ==
    \A n \in 0..Len(vas) :
        g[n] = IF n = 0 THEN [m |-> m, ok |-> TRUE] ELSE MapNext(g[n - 1], s, vas[n])

LEMMA Mapping ==
    ASSUME NEW m, NEW R, Sane(m, R), NEW s \in Slots, NEW vas \in Seq(UserVAs),
           NEW y, y = MapUserPages(m, s, vas)
    PROVE  \E g : y = g[Len(vas)] /\ MappingTurns(g, m, s, vas)
<1> DEFINE M == {t \in Machines : Sane(t, R)}
           S == [m : M, ok : BOOLEAN]
           F == [p \in S \X UserVAs |-> MapNext(p[1], s, p[2])]
           base == [m |-> m, ok |-> TRUE]
           after == CHOOSE g : g = [n \in 0..Len(vas) |->
                                      IF n = 0 THEN base ELSE MapNext(g[n - 1], s, vas[n])]
<1>1. base \in S
  BY DEF Sane, Typed
<1>2. \A r \in S, va \in UserVAs : MapNext(r, s, va) \in S
  <2> SUFFICES ASSUME NEW r \in S, NEW va \in UserVAs PROVE MapNext(r, s, va) \in S
    OBVIOUS
  <2> DEFINE t == MapUserPage(r.m, s, va)
  <2>1. Sane(r.m, R)
    OBVIOUS
  <2>2. Sane(t, R)
    <3> DEFINE q == r.m
    <3>1. Sane(q, R)
      BY <2>1
    <3> HIDE DEF q, M
    <3>2. Sane(MapUserPage(q, s, va), R)
      BY <3>1, PageMappedFor
    <3> QED
      BY <3>2 DEF q
  <2>3. t \in M
    BY <2>2 DEF Sane, Typed
  <2> DEFINE b == va \in Tracked(t, s)
  <2>4. b \in BOOLEAN
    OBVIOUS
  <2>5. MapNext(r, s, va) = IF r.ok THEN [m |-> t, ok |-> b] ELSE r
    BY Zenon DEF MapNext
  <2> HIDE DEF t, M, b
  <2> QED
    BY <2>3, <2>4, <2>5
<1>3. Len(vas) \in Nat /\ \A n \in 1..Len(vas) : vas[n] \in UserVAs
  OBVIOUS
<1>4. y = after[Len(vas)]
  BY DEF MapUserPages
<1> HIDE DEF S, base
<1>5. F \in [S \X UserVAs -> S]
  BY <1>2
<1>6. \A r \in S, va \in UserVAs : F[<<r, va>>] = MapNext(r, s, va)
  OBVIOUS
<1> HIDE DEF F
<1>7. PICK r \in [0..Len(vas) -> S] :
         \A n \in 0..Len(vas) : r[n] = IF n = 0 THEN base ELSE F[<<r[n - 1], vas[n]>>]
  <2> DEFINE V == UserVAs
  <2>1. vas \in Seq(V) /\ F \in [S \X V -> S]
    BY <1>5
  <2> HIDE DEF V
  <2>2. \E r : r \in LoopStates(S, base, vas, F)
    BY <1>1, <2>1, LoopRuns
  <2> QED
    BY <2>2 DEF LoopStates
<1>8. \A n \in 0..Len(vas) : r[n] = IF n = 0 THEN base ELSE MapNext(r[n - 1], s, vas[n])
  <2> SUFFICES ASSUME NEW n \in 0..Len(vas), n # 0
               PROVE  r[n] = MapNext(r[n - 1], s, vas[n])
    BY <1>7
  <2>1. n - 1 \in 0..Len(vas) /\ n \in 1..Len(vas)
    BY <1>3
  <2>2. r[n - 1] \in S /\ vas[n] \in UserVAs
    BY <1>3, <1>7, <2>1
  <2> QED
    BY <1>6, <1>7, <2>2
<1>9. r = [n \in 0..Len(vas) |-> IF n = 0 THEN base ELSE MapNext(r[n - 1], s, vas[n])]
  BY <1>7, <1>8
<1>10. after = [n \in 0..Len(vas) |-> IF n = 0 THEN base ELSE MapNext(after[n - 1], s, vas[n])]
  BY <1>9, Zenon
<1> HIDE DEF after
<1>11. \A n \in 0..Len(vas) : after[n] = IF n = 0 THEN base ELSE MapNext(after[n - 1], s, vas[n])
  BY <1>10, Zenon
<1> QED
  BY <1>4, <1>11 DEF MappingTurns, base

LEMMA UserPagesMapped ==
    ASSUME NEW m, NEW R, Sane(m, R), NEW s \in Slots, NEW vas \in Seq(UserVAs),
           NEW y, y = MapUserPages(m, s, vas)
    PROVE  Sane(y.m, R) /\ y.ok \in BOOLEAN
<1> DEFINE M == {t \in Machines : Sane(t, R)}
           S == [m : M, ok : BOOLEAN]
           base == [m |-> m, ok |-> TRUE]
<1>1. base \in S
  BY DEF Sane, Typed
<1>2. \A r \in S, va \in UserVAs : MapNext(r, s, va) \in S
  <2> SUFFICES ASSUME NEW r \in S, NEW va \in UserVAs PROVE MapNext(r, s, va) \in S
    OBVIOUS
  <2> DEFINE t == MapUserPage(r.m, s, va)
  <2>1. Sane(r.m, R)
    OBVIOUS
  <2>2. Sane(t, R)
    <3> DEFINE q == r.m
    <3>1. Sane(q, R)
      BY <2>1
    <3> HIDE DEF q, M
    <3>2. Sane(MapUserPage(q, s, va), R)
      BY <3>1, PageMappedFor
    <3> QED
      BY <3>2 DEF q
  <2>3. t \in M
    BY <2>2 DEF Sane, Typed
  <2> DEFINE b == va \in Tracked(t, s)
  <2>4. b \in BOOLEAN
    OBVIOUS
  <2>5. MapNext(r, s, va) = IF r.ok THEN [m |-> t, ok |-> b] ELSE r
    BY Zenon DEF MapNext
  <2> HIDE DEF t, M, b
  <2> QED
    BY <2>3, <2>4, <2>5
<1>3. Len(vas) \in Nat /\ \A n \in 1..Len(vas) : vas[n] \in UserVAs
  OBVIOUS
<1>4. PICK after : y = after[Len(vas)] /\ MappingTurns(after, m, s, vas)
  BY Mapping
<1>11. \A n \in 0..Len(vas) : after[n] = IF n = 0 THEN base ELSE MapNext(after[n - 1], s, vas[n])
  BY <1>4 DEF MappingTurns
<1> HIDE DEF S, base
<1>12. after[0] \in S
  <2>1. 0 \in 0..Len(vas)
    BY <1>3
  <2> QED
    BY <1>1, <1>11, <2>1
<1>13. \A n \in 1..Len(vas) : after[n - 1] \in S => after[n] \in S
  <2> SUFFICES ASSUME NEW n \in 1..Len(vas), after[n - 1] \in S PROVE after[n] \in S
    OBVIOUS
  <2>1. n \in 0..Len(vas) /\ n # 0 /\ vas[n] \in UserVAs
    BY <1>3
  <2> QED
    BY <1>2, <1>11, <2>1
<1>14. \A n \in 0..Len(vas) : after[n] \in S
  BY <1>3, <1>12, <1>13, StaysIn
<1>15. y \in S
  BY <1>3, <1>4, <1>14
<1> QED
  BY <1>15 DEF S

-----------------------------------------------------------------------------
(* Boot.                                                                   *)

\* A fresh frame is taken for a structure before there is a machine.
LEMMA StructureTaken ==
    ASSUME NEW a, AllocatorSound(a), a.pool = <<>>, a.next <= Len(Layout),
           NEW f, f = Layout[a.next],
           NEW n, n = SetOwner(AfterAlloc(a), f, "PAGING_STRUCTURE")
    PROVE  /\ AllocatorSound(n) /\ Held(n) = Held(a) \cup {f} /\ f \notin Held(a)
           /\ AllocPage(a) = f
           /\ n.pool = <<>> /\ n.next = a.next + 1
           /\ \A q \in Frames \ {f} : n.owner[q] = a.owner[q]
           /\ Ample => n.owner[f] = "PAGING_STRUCTURE"
<1> DEFINE b == AfterAlloc(a)
<1>1. AllocPage(a) = f
  BY DEF AllocPage
<1>2. a \in AllocatorStates
  BY DEF AllocatorSound
<1>3. a.next \in 1..Len(Layout)
  BY <1>2, LayoutAssumption DEF AllocatorStates
<1>4. f \in Frames /\ f # NoPage
  BY <1>3, FramesBounded DEF Frames
<1>5. /\ AllocatorSound(b) /\ b \in AllocatorStates /\ f \notin Held(a)
      /\ Held(b) = Held(a) \cup {f}
      /\ \A q \in Frames \ {f} : b.owner[q] = a.owner[q]
  BY <1>1, <1>4, AllocFacts
<1>6. b.pool = <<>> /\ b.next = a.next + 1
  <2> DEFINE t == Taken(a)
             o == "ALLOCATOR"
  <2>1. b = SetOwner(t, f, o)
    BY <1>1, <1>4 DEF AfterAlloc
  <2>2. t.pool = <<>> /\ t.next = a.next + 1 /\ t \in AllocatorStates /\ TrackedFrames(t) = TrackedFrames(a)
    <3> DEFINE n2 == a.next + 1
               u == a.used + 1
    <3>1. n2 \in 1..(Len(Layout) + 1) /\ u \in Nat
      BY <1>2, <1>3 DEF AllocatorStates
    <3>2. t = WithNext(a, n2, u)
      BY DEF Taken
    <3> HIDE DEF n2, u, t
    <3>3. t \in AllocatorStates /\ t.next = n2 /\ t.owner = a.owner /\ t.pool = a.pool
      BY <1>2, <3>1, <3>2, NextUpdate
    <3> QED
      BY <3>3 DEF n2, TrackedFrames
  <2>3. o \in OwnerEntries \ {"UNTRACKED"} /\ Cardinality(TrackedFrames(t)) <= OwnerTrackMax
    BY <2>2 DEF OwnerEntries, HeldOwners, LeafOwners, AllocatorSound, WithinCapacity
  <2> HIDE DEF t, o, b
  <2> QED
    BY <1>4, <2>1, <2>2, <2>3, SetOwnerEffect
<1> HIDE DEF b
<1>7. n = SetOwner(b, f, "PAGING_STRUCTURE")
  BY DEF b
<1> DEFINE o == "PAGING_STRUCTURE"
<1>8. o \in OwnerEntries \ {"UNTRACKED"} /\ o \in HeldOwners /\ n = SetOwner(b, f, o)
      /\ Cardinality(TrackedFrames(b)) <= OwnerTrackMax /\ f \in Held(b)
  BY <1>5, <1>7 DEF OwnerEntries, HeldOwners, AllocatorSound, WithinCapacity
<1> HIDE DEF o
<1>9. AllocatorSound(n) /\ Held(n) = Held(b)
  BY <1>5, <1>8, LabelPreserves
<1>10. /\ n.next = b.next /\ n.pool = b.pool
       /\ \A q \in Frames \ {f} : n.owner[q] = b.owner[q]
       /\ Trackable(b, f) => n.owner[f] = o
  BY <1>4, <1>5, <1>8, SetOwnerEffect
<1>11. Ample => n.owner[f] = o
  BY <1>4, <1>5, <1>10, Room
<1> QED
  BY <1>1, <1>5, <1>6, <1>9, <1>10, <1>11 DEF o

\* paging_init has made y, which has no page yet; the heap gets its first one.
BootedFrom(y) ==
    /\ Sane(y, {}) /\ ~y.dead
    /\ \A s \in Slots : y.dir[s] = NoPage /\ y.pages[s] = <<>>
    /\ \A va \in UpperVAs : Walk(y, GlobalDir, va) = None
    /\ Ample => \A f \in Held(y.mem) : y.mem.owner[f] = "PAGING_STRUCTURE"
    /\ Booted = MapNewPage(y, <<HeapDir, 0>>, FALSE, "KERNEL_HEAP")

LEMMA FirstTables == \E y : BootedFrom(y)
<1> DEFINE m1 == SetOwner(AfterAlloc(FreshAllocator), GlobalDir, "PAGING_STRUCTURE")
           m2 == SetOwner(AfterAlloc(m1), IdTable, "PAGING_STRUCTURE")
           contents == [w \in Words |->
                          IF \E f \in DOMAIN IdIndex : IdIndex[f] = w
                          THEN Entry(CHOOSE f \in DOMAIN IdIndex : IdIndex[f] = w, FALSE)
                          ELSE None]
           e == Entry(IdTable, FALSE)
           empty == [f \in Frames |-> EmptyTable]
           ram1 == [empty EXCEPT ![IdTable] = contents]
           ram == [ram1 EXCEPT ![GlobalDir] = [ram1[GlobalDir] EXCEPT ![IdDir] = e]]
           dir == [s \in Slots |-> NoPage]
           lists == [s \in Slots |-> <<>>]
           x1 == Owned(Drawn(NoTables), GlobalDir, "PAGING_STRUCTURE")
           x2 == Owned(Drawn(x1), IdTable, "PAGING_STRUCTURE")
           y == [x2 EXCEPT !.ram[IdTable] = contents, !.ram[GlobalDir][IdDir] = e,
                           !.cr3 = GlobalDir]
<1>1. Booted = MapNewPage(y, <<HeapDir, 0>>, FALSE, "KERNEL_HEAP")
  BY DEF Booted
<1>2. Len(Layout) \in Nat /\ Len(Layout) >= 4
  BY LayoutAssumption, SpaceAssumption
<1>3. /\ GlobalDir \in Frames /\ IdTable \in Frames /\ GlobalDir # IdTable
      /\ IdDir \in Words
  BY RootFrames DEF Dirs, IdDir
<1>4. /\ AllocatorSound(m1) /\ Held(m1) = {GlobalDir}
      /\ m1.pool = <<>> /\ m1.next = 2
      /\ Ample => m1.owner[GlobalDir] = "PAGING_STRUCTURE"
  <2> DEFINE a == FreshAllocator
  <2>1. AllocatorSound(a) /\ Held(a) = {} /\ a.pool = <<>> /\ a.next = 1
    BY FreshSound
  <2>2. GlobalDir = Layout[a.next] /\ a.next <= Len(Layout)
    BY <1>2, <2>1 DEF GlobalDir
  <2> HIDE DEF a
  <2>3. /\ AllocatorSound(SetOwner(AfterAlloc(a), Layout[a.next], "PAGING_STRUCTURE"))
        /\ Held(SetOwner(AfterAlloc(a), Layout[a.next], "PAGING_STRUCTURE")) = Held(a) \cup {Layout[a.next]}
        /\ SetOwner(AfterAlloc(a), Layout[a.next], "PAGING_STRUCTURE").pool = <<>>
        /\ SetOwner(AfterAlloc(a), Layout[a.next], "PAGING_STRUCTURE").next = a.next + 1
        /\ Ample => SetOwner(AfterAlloc(a), Layout[a.next], "PAGING_STRUCTURE").owner[Layout[a.next]] = "PAGING_STRUCTURE"
    BY <2>1, <2>2, StructureTaken
  <2> QED
    BY <2>1, <2>2, <2>3 DEF a
<1> HIDE DEF m1
<1>5. /\ AllocatorSound(m2) /\ Held(m2) = {GlobalDir, IdTable}
      /\ Ample => m2.owner[GlobalDir] = "PAGING_STRUCTURE" /\ m2.owner[IdTable] = "PAGING_STRUCTURE"
  <2>1. m1.next <= Len(Layout) /\ IdTable = Layout[m1.next]
    BY <1>2, <1>4 DEF IdTable
  <2> DEFINE f == IdTable
  <2>2. f = Layout[m1.next] /\ m2 = SetOwner(AfterAlloc(m1), f, "PAGING_STRUCTURE")
    BY <2>1
  <2> HIDE DEF m2, f
  <2>3. /\ AllocatorSound(m2) /\ Held(m2) = Held(m1) \cup {f}
        /\ \A q \in Frames \ {f} : m2.owner[q] = m1.owner[q]
        /\ Ample => m2.owner[f] = "PAGING_STRUCTURE"
    BY <1>4, <2>1, <2>2, StructureTaken
  <2> QED
    BY <1>3, <1>4, <2>3 DEF f
<1> HIDE DEF m2
<1>6. contents \in [Words -> Entries] /\ \A f \in DOMAIN IdIndex : contents[IdIndex[f]].frame = f
  <2>1. \A w \in Words : contents[w] \in Entries
    <3> SUFFICES ASSUME NEW w \in Words PROVE contents[w] \in Entries
      OBVIOUS
    <3>1. CASE \E f \in DOMAIN IdIndex : IdIndex[f] = w
      <4> DEFINE g == CHOOSE f \in DOMAIN IdIndex : IdIndex[f] = w
      <4>1. g \in DOMAIN IdIndex
        BY <3>1
      <4>2. g \in Frames /\ contents[w] = Entry(g, FALSE)
        BY <3>1, <4>1, SpaceAssumption
      <4> HIDE DEF g, contents
      <4> QED
        BY <4>2, EntryTypes
    <3>2. CASE ~ \E f \in DOMAIN IdIndex : IdIndex[f] = w
      BY <3>2, EntryTypes
    <3> QED
      BY <3>1, <3>2
  <2>2. ASSUME NEW f \in DOMAIN IdIndex PROVE contents[IdIndex[f]].frame = f
    <3> DEFINE w == IdIndex[f]
               g == CHOOSE h \in DOMAIN IdIndex : IdIndex[h] = w
    <3>1. w \in Words
      BY SpaceAssumption
    <3>2. g \in DOMAIN IdIndex /\ IdIndex[g] = w
      OBVIOUS
    <3>3. g = f
      BY <3>2, SpaceAssumption
    <3>4. contents[w] = Entry(g, FALSE)
      BY <3>1
    <3> HIDE DEF g, contents, w
    <3>5. contents[w].frame = g
      BY <3>4 DEF Entry
    <3> QED
      BY <3>3, <3>5 DEF w
  <2>3. contents = [w \in Words |-> contents[w]]
    OBVIOUS
  <2> HIDE DEF contents
  <2> QED
    BY <2>1, <2>2, <2>3
<1> HIDE DEF contents
<1>7. e \in Entries
  BY <1>3, EntryTypes
<1>8. /\ ram \in Memories
      /\ ram[GlobalDir][IdDir] = e
      /\ \A i \in Words : ram[IdTable][i] = contents[i]
      /\ \A i \in Words \ {IdDir} : ram[GlobalDir][i] = None
  <2>1. EmptyTable \in [Words -> Entries] /\ \A i \in Words : EmptyTable[i] = None
    BY EntryTypes DEF EmptyTable
  <2> HIDE DEF e
  <2>2. ram1 \in Memories /\ ram1[IdTable] = contents /\ ram1[GlobalDir] = EmptyTable
    BY <1>3, <1>6, <2>1 DEF Memories
  <2> DEFINE t == [ram1[GlobalDir] EXCEPT ![IdDir] = e]
  <2>3. /\ t \in [Words -> Entries] /\ t[IdDir] = e /\ \A i \in Words \ {IdDir} : t[i] = None
    BY <1>3, <1>7, <2>1, <2>2
  <2> HIDE DEF t, ram1
  <2>4. ram = [ram1 EXCEPT ![GlobalDir] = t]
    BY DEF t
  <2> HIDE DEF ram
  <2> QED
    BY <1>3, <2>2, <2>3, <2>4 DEF Memories
<1> HIDE DEF ram, ram1
<1>9. /\ dir \in DirOwners /\ \A s \in Slots : dir[s] = NoPage
      /\ lists \in [Slots -> Seq(UserVAs)] /\ \A s \in Slots : lists[s] = <<>>
  BY DEF DirOwners
<1>10. /\ x2 \in [mem : {m2}, ram : {empty}, cr3 : {NoPage}, dead : {FALSE}, dir : {dir},
                pages : {lists}]
  <2> DEFINE Early(n) == [mem : {n}, ram : {empty}, cr3 : {NoPage}, dead : {FALSE}, dir : {dir},
                          pages : {lists}]
             a0 == FreshAllocator
             a1 == AfterAlloc(a0)
             a2 == AfterAlloc(m1)
             d0 == Drawn(NoTables)
             d1 == Drawn(x1)
  <2> HIDE DEF empty, dir, lists
  <2>1. NoTables \in Early(a0)
    BY DEF NoTables, empty, dir, lists
  <2>2. d0 \in Early(a1)
    <3> HIDE DEF a0
    <3> QED
      BY <2>1 DEF Drawn
  <2>3. x1 = [d0 EXCEPT !.mem = SetOwner(d0.mem, GlobalDir, "PAGING_STRUCTURE")]
    BY DEF Owned
  <2>4. m1 = SetOwner(a1, GlobalDir, "PAGING_STRUCTURE")
    BY DEF m1
  <2> HIDE DEF a1, d0, x1
  <2>5. x1 \in Early(m1)
    BY <2>2, <2>3, <2>4
  <2>6. d1 \in Early(a2)
    BY <2>5 DEF Drawn
  <2>7. x2 = [d1 EXCEPT !.mem = SetOwner(d1.mem, IdTable, "PAGING_STRUCTURE")]
    BY DEF Owned
  <2>8. m2 = SetOwner(a2, IdTable, "PAGING_STRUCTURE")
    BY DEF m2
  <2> HIDE DEF a2, d1, x2
  <2>9. x2 \in Early(m2)
    BY <2>6, <2>7, <2>8
  <2> QED
    BY <2>9
<1>11. /\ y.mem = m2 /\ y.ram = ram /\ y.dir = dir /\ ~y.dead /\ y \in Machines
       /\ y.pages = lists
  <2> HIDE DEF empty, dir, lists, x2, e, y
  <2>1. m2 \in AllocatorStates
    BY <1>5 DEF AllocatorSound
  <2>2. y = [x2 EXCEPT !.ram = ram, !.cr3 = GlobalDir]
    <3>1. ram = [ram1 EXCEPT ![GlobalDir] = [ram1[GlobalDir] EXCEPT ![IdDir] = e]]
          /\ ram1 = [empty EXCEPT ![IdTable] = contents] /\ x2.ram = empty
      BY <1>10 DEF ram, ram1
    <3> DEFINE z == [x2 EXCEPT !.ram[IdTable] = contents]
               z2 == [z EXCEPT !.ram[GlobalDir][IdDir] = e]
    <3>2. y = [z2 EXCEPT !.cr3 = GlobalDir]
      BY DEF y
    <3>3. z = [x2 EXCEPT !.ram = ram1]
      BY <3>1
    <3> HIDE DEF z, ram1, ram
    <3>4. z.ram = ram1
      BY <1>10, <3>3
    <3>5. z2 = [z EXCEPT !.ram = ram]
      BY <3>1, <3>4
    <3> HIDE DEF z2
    <3> QED
      BY <1>10, <3>2, <3>3, <3>5
  <2>3. y.mem = m2 /\ y.ram = ram /\ y.dir = dir /\ ~y.dead /\ y.cr3 = GlobalDir
        /\ y.pages = lists
        /\ y \in [mem : {m2}, ram : {ram}, cr3 : {GlobalDir}, dead : {FALSE}, dir : {dir},
                pages : {lists}]
    BY <1>10, <2>2
  <2> QED
    BY <1>3, <1>8, <1>9, <2>1, <2>3 DEF Machines
<1> HIDE DEF dir, lists, y
<1>12. DirsIn(dir) = {GlobalDir} /\ Roots(dir) = {GlobalDir, IdTable}
  BY <1>9 DEF DirsIn, Roots
<1>13. LinksIn(ram, dir) = {}
  <2>1. \A u \in UpperIn(dir) : u[1] = GlobalDir /\ u[2] \in Words \ {IdDir}
    BY <1>12, RootFrames DEF UpperIn
  <2> QED
    BY <1>8, <2>1 DEF LinksIn
<1>14. TablesIn(ram, dir) = {} /\ LeavesIn(ram, dir) = {}
  BY <1>13 DEF TablesIn, LeavesIn
<1>15. FullIn(ram, dir) = {}
  BY <1>13, <1>14 DEF FullIn
<1>16. RootsApart(dir)
  BY <1>3, <1>9, FramesBounded DEF RootsApart
<1>17. IdentityMaps(ram)
  <2>1. \A f \in DOMAIN IdIndex : IdIndex[f] \in Words
    BY SpaceAssumption
  <2> QED
    BY <1>6, <1>8, <2>1 DEF IdentityMaps
<1> DEFINE R == {}
<1>18. Consistent(ram, dir, Held(m2), R)
  BY <1>5, <1>12, <1>15, <1>16, <1>17 DEF Consistent
<1>19. Protected(y)
  BY <1>5, <1>11, <1>12, <1>14 DEF Protected
<1>20. Sane(y, R) /\ ~y.dead
  BY <1>5, <1>11, <1>18, <1>19 DEF Sane, Typed
<1>21. \A va \in UpperVAs : Walk(y, GlobalDir, va) = None
  <2>1. \A d \in Dirs \ {IdDir} : d \in Words \ {IdDir}
    BY RootFrames DEF Dirs, IdDir
  <2> QED
    BY <1>8, <1>11, <2>1 DEF UpperVAs, Walk
<1>22. BootedFrom(y)
  BY <1>1, <1>5, <1>9, <1>11, <1>20, <1>21 DEF BootedFrom, R
<1> QED
  BY <1>22

LEMMA BootSane ==
    /\ Sane(Booted, {})
    /\ \A s \in Slots : Booted.dir[s] = NoPage /\ Booted.pages[s] = <<>>
    /\ ~Booted.dead => \A va \in UpperVAs \ {<<HeapDir, 0>>} : Walk(Booted, GlobalDir, va) = None
<1>1. PICK y : BootedFrom(y)
  BY FirstTables
<1> DEFINE va == <<HeapDir, 0>>
           o == "KERNEL_HEAP"
           R == {}
<1>2. Sane(y, R) /\ ~y.dead
  BY <1>1 DEF BootedFrom
<1>3. va \in UpperVAs /\ o \in HeldOwners
  BY SpaceAssumption DEF UpperVAs, Dirs, IdDir, HeapDir, Words, HeldOwners, LeafOwners
<1>4. PICK b \in BOOLEAN : b = FALSE
  OBVIOUS
<1>5. Booted = MapNewPage(y, va, b, o)
  BY <1>1, <1>4 DEF BootedFrom
<1> HIDE DEF va, o, R
<1>6. /\ Sane(Booted, R) /\ Booted.dir = y.dir /\ Booted.pages = y.pages
      /\ ~Booted.dead => OtherWalksKept(y, Booted, va)
  BY <1>2, <1>3, <1>5, NewPage
<1>7. \A s \in Slots : Booted.dir[s] = NoPage /\ Booted.pages[s] = <<>>
  <2>1. \A s \in Slots : y.dir[s] = NoPage /\ y.pages[s] = <<>>
    BY <1>1 DEF BootedFrom
  <2> QED
    BY <1>6, <2>1
<1>8. ~Booted.dead => \A vb \in UpperVAs \ {va} : Walk(Booted, GlobalDir, vb) = None
  <2>1. \A vb \in UpperVAs : Walk(y, GlobalDir, vb) = None
    BY <1>1 DEF BootedFrom
  <2> QED
    BY <1>6, <2>1 DEF OtherWalksKept
<1> QED
  BY <1>6, <1>7, <1>8 DEF R, va

-----------------------------------------------------------------------------
(* The invariant is inductive.                                             *)

LEMMA TaskVAs ==
    ASSUME NEW s \in Slots
    PROVE  /\ CodeVA(s) \in UserVAs /\ StackVA(s) \in UserVAs
           /\ \A page \in 1..2 : HeapVA(s, page) \in UserVAs
<1>1. s \in Nat \ {0} /\ 4 * s <= LastWord + 1 /\ LastWord \in Nat
  BY SpaceAssumption
<1>2. 4 * (s - 1) \in Words /\ 4 * (s - 1) + 1 \in Words
      /\ \A page \in 1..2 : 4 * (s - 1) + 1 + page \in Words
  BY <1>1 DEF Words
<1> QED
  BY <1>2 DEF CodeVA, StackVA, HeapVA, UserVAs

LEMMA Pairs ==
    ASSUME NEW a \in UserVAs, NEW b \in UserVAs
    PROVE  <<a, b>> \in Seq(UserVAs)
OBVIOUS

LEMMA InitInv == Init => IInv
<1> SUFFICES ASSUME Init PROVE IInv
  OBVIOUS
<1>1. Sane(k, reserved)
  BY BootSane DEF Init
<1>2. code \in [Slots -> UserVAs]
  BY TaskVAs DEF Init
<1>3. {heapPages, nextTest, nextUser} \subseteq 0..AreaMax
  BY SpaceAssumption DEF Init, Words
<1>4. /\ ready \in [Slots -> BOOLEAN] /\ brk \in [Slots -> 0..2]
      /\ current \in Slots /\ reserved \subseteq Frames
  BY SpaceAssumption DEF Init
<1> QED
  BY <1>1, <1>2, <1>3, <1>4 DEF IInv

LEMMA PrepareStep ==
    ASSUME IInv, NEW s \in Slots, Prepare(s)
    PROVE  IInv'
<1> DEFINE m == FreshUserSpace(k, s)
           vas == <<code[s], StackVA(s)>>
           r == MapUserPages(m, s, vas)
<1>1. Sane(k, reserved) /\ ~k.dead
  BY DEF IInv, Prepare, Given
<1>2. Sane(m, reserved)
  BY <1>1, SpaceFresh
<1>3. code[s] \in UserVAs /\ StackVA(s) \in UserVAs
  BY TaskVAs DEF IInv
<1>4. vas \in Seq(UserVAs)
  BY <1>3, Pairs
<1>5. k' = r.m /\ ready' = [ready EXCEPT ![s] = r.ok]
  BY DEF Prepare
<1> HIDE DEF m, vas
<1>6. Sane(r.m, reserved) /\ r.ok \in BOOLEAN
  BY <1>2, <1>4, UserPagesMapped
<1> HIDE DEF r
<1>7. ready' \in [Slots -> BOOLEAN]
  BY <1>5, <1>6 DEF IInv
<1>8. Sane(k', reserved)
  BY <1>5, <1>6
<1> QED
  BY <1>7, <1>8 DEF IInv, Prepare

LEMMA LoadStep ==
    ASSUME IInv, NEW s \in Slots, NEW vas \in Seq(UserVAs), ~k.dead,
           NEW fit \in BOOLEAN, NEW va \in UserVAs,
           LoadEnds(s, MapUserPages(FreshUserSpace(k, s), s, vas), fit, va)
    PROVE  IInv'
<1> DEFINE m == FreshUserSpace(k, s)
           r == MapUserPages(m, s, vas)
           good == r.ok /\ fit
           u == UnmapUserPages(r.m, s)
<1>1. Sane(k, reserved)
  BY DEF IInv
<1>2. Sane(m, reserved)
  BY <1>1, SpaceFresh
<1>3. /\ k' = IF good THEN r.m ELSE u
      /\ ready' = [ready EXCEPT ![s] = good \/ @]
      /\ code' = IF good THEN [code EXCEPT ![s] = va] ELSE code
      /\ brk' = [brk EXCEPT ![s] = 0]
      /\ UNCHANGED <<current, heapPages, nextTest, nextUser, reserved>>
  BY DEF LoadEnds
<1> HIDE DEF m
<1>4. Sane(r.m, reserved) /\ r.ok \in BOOLEAN
  BY <1>2, UserPagesMapped
<1> HIDE DEF r
<1>5. Sane(u, reserved)
  <2> DEFINE q == r.m
  <2>1. Sane(q, reserved)
    BY <1>4
  <2> HIDE DEF q
  <2>2. Sane(UnmapUserPages(q, s), reserved)
    BY <2>1, UserPagesUnmapped
  <2> QED
    BY <2>2 DEF q
<1>6. good \in BOOLEAN
  BY <1>4
<1> HIDE DEF u, good
<1>7. Sane(k', reserved)
  BY <1>3, <1>4, <1>5
<1>8. ready' \in [Slots -> BOOLEAN]
  <2> DEFINE b == good \/ ready[s]
  <2>1. b \in BOOLEAN /\ ready' = [ready EXCEPT ![s] = b]
    BY <1>3
  <2> HIDE DEF b
  <2> QED
    BY <2>1 DEF IInv
<1>9. code' \in [Slots -> UserVAs] /\ brk' \in [Slots -> 0..2]
  BY <1>3 DEF IInv
<1> QED
  BY <1>3, <1>7, <1>8, <1>9 DEF IInv

LEMMA LoadSteps ==
    ASSUME IInv, OrdinaryImages,
           LoadFlat \/ \E image \in Images, fit \in BOOLEAN : LoadImage(image, fit)
    PROVE  IInv'
<1> DEFINE s == current
<1>1. s \in Slots /\ CodeVA(s) \in UserVAs /\ StackVA(s) \in UserVAs
  BY TaskVAs DEF IInv
<1>2. CASE LoadFlat
  <2> DEFINE vas == <<CodeVA(s), StackVA(s)>>
             va == CodeVA(s)
             fit == TRUE
  <2>1. vas \in Seq(UserVAs)
    BY <1>1, Pairs
  <2>2. ~k.dead /\ LoadEnds(s, MapUserPages(FreshUserSpace(k, s), s, vas), fit, va)
    BY <1>2 DEF LoadFlat, Given
  <2>3. fit \in BOOLEAN
    OBVIOUS
  <2> HIDE DEF vas, s, fit
  <2> QED
    BY <1>1, <2>1, <2>2, <2>3, LoadStep
<1>3. ASSUME NEW image \in Images, NEW fit \in BOOLEAN, LoadImage(image, fit)
      PROVE  IInv'
  <2> DEFINE vas == Append(image, StackVA(s))
             va == image[1]
  <2>1. image \in Seq(UserVAs) /\ image # <<>>
    BY DEF OrdinaryImages
  <2>2. vas \in Seq(UserVAs) /\ va \in UserVAs
    BY <1>1, <2>1
  <2>3. ~k.dead /\ LoadEnds(s, MapUserPages(FreshUserSpace(k, s), s, vas), fit, va)
    BY <1>3 DEF LoadImage, Given
  <2> HIDE DEF vas, va, s
  <2> QED
    BY <1>1, <2>2, <2>3, LoadStep
<1> QED
  BY <1>2, <1>3

LEMMA BadMbappStep ==
    ASSUME IInv, LoadBadMbapp
    PROVE  IInv'
<1> DEFINE s == current
           y == WithDirectory(k, s)
<1>1. Sane(k, reserved) /\ ~k.dead /\ s \in Slots /\ k' = y
  BY DEF IInv, LoadBadMbapp, Given
<1> HIDE DEF s
<1>2. Sane(y, reserved)
  BY <1>1, DirectoryMade
<1>3. Sane(k', reserved)
  BY <1>1, <1>2
<1> QED
  BY <1>3 DEF IInv, LoadBadMbapp

LEMMA Switched ==
    ASSUME NEW m, NEW R, Sane(m, R), NEW s \in Slots
    PROVE  Sane(SwitchedTo(m, s), R)
<1> DEFINE d == HomeDir(m, s)
           b == m.dead \/ d # GlobalDir
           y == [m EXCEPT !.cr3 = d, !.dead = b]
<1>1. y = SwitchedTo(m, s)
  BY DEF SwitchedTo
<1>2. d \in Frames /\ b \in BOOLEAN /\ (~b => ~m.dead)
  BY Home DEF Sane
<1>3. m \in Machines /\ AllocatorSound(m.mem)
  BY DEF Sane, Typed
<1> HIDE DEF d, b
<1>4. /\ y \in Machines /\ y.mem = m.mem /\ y.ram = m.ram /\ y.dir = m.dir /\ y.dead = b
  BY <1>2, <1>3 DEF Machines
<1> HIDE DEF y
<1>5. Sane(y, R)
  BY <1>2, <1>3, <1>4 DEF Sane, Typed, Protected
<1> QED
  BY <1>1, <1>5

LEMMA SwitchStep ==
    ASSUME IInv, NEW s \in Slots, SwitchTo(s)
    PROVE  IInv'
<1>1. Sane(k', reserved)
  BY Switched DEF IInv, SwitchTo
<1> QED
  BY <1>1 DEF IInv, SwitchTo

LEMMA EndStep ==
    ASSUME IInv, NEW s \in Slots, NEW next \in Slots, EndProcess(s, next)
    PROVE  IInv'
<1> DEFINE gone == UnmapUserPages(k, s)
           y == SwitchedTo(gone, next)
<1>1. Sane(gone, reserved)
  BY UserPagesUnmapped DEF IInv
<1>2. k' = y \/ k' = gone
  BY DEF EndProcess
<1> HIDE DEF gone
<1>3. Sane(y, reserved)
  BY <1>1, Switched
<1>4. Sane(k', reserved)
  BY <1>1, <1>2, <1>3
<1>5. /\ ready' \in [Slots -> BOOLEAN] /\ current' \in Slots
      /\ UNCHANGED <<code, brk, heapPages, nextTest, nextUser, reserved>>
  BY DEF IInv, EndProcess
<1> QED
  BY <1>4, <1>5 DEF IInv

LEMMA BrkStep ==
    ASSUME IInv, NEW pages \in 0..2, Brk(pages)
    PROVE  IInv'
<1> DEFINE s == current
           new == IF pages <= brk[s] THEN <<>>
                  ELSE [i \in 1..(pages - brk[s]) |-> HeapVA(s, brk[s] + i)]
           r == MapUserPages(k, s, new)
<1>1. s \in Slots /\ brk[s] \in 0..2 /\ Sane(k, reserved)
  BY DEF IInv
<1>2. new \in Seq(UserVAs)
  <2>1. CASE pages <= brk[s]
    BY <2>1
  <2>2. CASE ~(pages <= brk[s])
    <3>1. pages - brk[s] \in Nat /\ \A i \in 1..(pages - brk[s]) : brk[s] + i \in 1..2
      BY <1>1, <2>2
    <3>2. \A i \in 1..(pages - brk[s]) : HeapVA(s, brk[s] + i) \in UserVAs
      BY <1>1, <3>1, TaskVAs
    <3> HIDE DEF s
    <3> QED
      BY <2>2, <3>1, <3>2
  <2> QED
    BY <2>1, <2>2
<1>3. k' = r.m /\ brk' = IF r.ok THEN [brk EXCEPT ![s] = pages] ELSE brk
  BY DEF Brk
<1> HIDE DEF new, s
<1>4. Sane(r.m, reserved) /\ r.ok \in BOOLEAN
  BY <1>1, <1>2, UserPagesMapped
<1> HIDE DEF r
<1>5. Sane(k', reserved) /\ brk' \in [Slots -> 0..2]
  BY <1>1, <1>3, <1>4 DEF IInv
<1> QED
  BY <1>5 DEF IInv, Brk

LEMMA NewPageStep ==
    ASSUME IInv, GrowHeap \/ MapTest \/ MapUserTest
    PROVE  IInv'
<1>1. /\ Sane(k, reserved) /\ ~k.dead
      /\ {heapPages, nextTest, nextUser} \subseteq 0..AreaMax
      /\ AreaMax \in Nat /\ AreaMax <= LastWord /\ LastWord \in Nat
  <2>1. AreaMax \in Words /\ LastWord \in Nat
    BY SpaceAssumption
  <2>2. AreaMax \in Nat /\ AreaMax <= LastWord
    BY <2>1 DEF Words
  <2>3. ~k.dead
    BY DEF GrowHeap, MapTest, MapUserTest, Given
  <2> QED
    BY <2>1, <2>2, <2>3 DEF IInv
<1>2. ASSUME NEW d \in Dirs \ {IdDir}, NEW n \in 0..AreaMax, NEW v \in BOOLEAN,
             NEW o \in HeldOwners
      PROVE  Sane(MapNewPage(k, <<d, n>>, v, o), reserved)
  <2> DEFINE va == <<d, n>>
  <2>1. va \in UpperVAs
    BY <1>1 DEF UpperVAs, Words
  <2> HIDE DEF va
  <2>2. Sane(MapNewPage(k, va, v, o), reserved)
    BY <1>1, <2>1, NewPage
  <2> QED
    BY <2>2 DEF va
<1>3. /\ HeapDir \in Dirs \ {IdDir} /\ TestDir \in Dirs \ {IdDir} /\ ImageDir \in Dirs \ {IdDir}
      /\ {"KERNEL_HEAP", "PAGING_TEST", "USER_MISC"} \subseteq HeldOwners
  BY DEF Dirs, IdDir, HeapDir, TestDir, ImageDir, HeldOwners, LeafOwners
<1>4. CASE GrowHeap
  <2>1. Sane(k', reserved)
    BY <1>1, <1>2, <1>3, <1>4 DEF GrowHeap
  <2>2. heapPages' \in 0..AreaMax
    <3>1. heapPages' = heapPages + 1 \/ heapPages' = heapPages
      BY <1>4 DEF GrowHeap
    <3>2. heapPages \in 0..AreaMax /\ heapPages < AreaMax /\ AreaMax \in Nat
      BY <1>1, <1>4 DEF GrowHeap
    <3> QED
      BY <3>1, <3>2
  <2> QED
    BY <1>4, <2>1, <2>2 DEF IInv, GrowHeap
<1>5. CASE MapTest
  <2>1. Sane(k', reserved)
    BY <1>1, <1>2, <1>3, <1>5 DEF MapTest
  <2>2. nextTest' \in 0..AreaMax
    <3>1. nextTest' = nextTest + 1 \/ nextTest' = nextTest
      BY <1>5 DEF MapTest
    <3>2. nextTest \in 0..AreaMax /\ nextTest < AreaMax /\ AreaMax \in Nat
      BY <1>1, <1>5 DEF MapTest
    <3> QED
      BY <3>1, <3>2
  <2> QED
    BY <1>5, <2>1, <2>2 DEF IInv, MapTest
<1>6. CASE MapUserTest
  <2>1. Sane(k', reserved)
    BY <1>1, <1>2, <1>3, <1>6 DEF MapUserTest
  <2>2. nextUser' \in 0..AreaMax
    <3>1. nextUser' = nextUser + 1 \/ nextUser' = nextUser
      BY <1>6 DEF MapUserTest
    <3>2. nextUser \in 0..AreaMax /\ nextUser < AreaMax /\ AreaMax \in Nat
      BY <1>1, <1>6 DEF MapUserTest
    <3> QED
      BY <3>1, <3>2
  <2> QED
    BY <1>6, <2>1, <2>2 DEF IInv, MapUserTest
<1> QED
  BY <1>4, <1>5, <1>6

LEMMA AllocCommandStep ==
    ASSUME IInv, AllocPageCommand
    PROVE  IInv'
<1> DEFINE f == AllocPage(k.mem)
           y == Drawn(k)
           R == reserved \cup {f}
<1>1. Sane(k, reserved) /\ f # NoPage /\ k' = y /\ reserved' = R
  BY DEF IInv, AllocPageCommand
<1>2. f \in Frames /\ Sane(y, R)
  <2>1. f = AllocPage(k.mem)
    OBVIOUS
  <2> HIDE DEF f
  <2> QED
    BY <1>1, <2>1, Draw
<1> HIDE DEF R, y
<1>3. Sane(k', reserved')
  BY <1>1, <1>2
<1>4. reserved' \subseteq Frames
  BY <1>1, <1>2 DEF IInv, R
<1> QED
  BY <1>3, <1>4 DEF IInv, AllocPageCommand

LEMMA TrimStep ==
    ASSUME IInv, TrimIdentity
    PROVE  IInv'
<1> DEFINE y == k'
           e == None
           d == GlobalDir
           i == IdDir
           old == k.ram
           dir == k.dir
           held == Held(k.mem)
           R == reserved
<1>1. /\ k \in Machines /\ AllocatorSound(k.mem) /\ ~k.dead
      /\ Consistent(old, dir, held, R) /\ Protected(k)
      /\ old \in Memories /\ dir \in DirOwners
  BY Parts DEF IInv, Sane, Typed, TrimIdentity, Given
<1>2. y = PutLoaded(k, d, i, e) /\ d \in Frames /\ i \in Words /\ e \in Entries
  BY RootFrames, EntryTypes DEF TrimIdentity, PutLoaded, Dirs, IdDir
<1> HIDE DEF y, e, d, i
<1>3. /\ y \in Machines /\ y.mem = k.mem /\ y.dir = k.dir /\ y.pages = k.pages
      /\ y.dead = k.dead /\ y.ram \in Memories
      /\ Rewritten(k.ram, y.ram, d, i, e)
  BY <1>1, <1>2, Stored
<1> DEFINE new == y.ram
<1>4. new \in Memories /\ Rewritten(old, new, GlobalDir, IdDir, None)
  BY <1>3 DEF d, i, e
<1> HIDE DEF new, old, dir, held, R
<1>5. Consistent(new, dir, held, R) /\ TablesIn(new, dir) = TablesIn(old, dir)
  BY <1>1, <1>4, IdentityClear
<1>6. Protected(y)
  BY <1>1, <1>3, <1>5 DEF Protected, new, old, dir
<1>7. Sane(y, R)
  BY <1>1, <1>3, <1>5, <1>6 DEF Sane, Typed, new, old, dir, held
<1>8. Sane(k', reserved)
  BY <1>7 DEF y, R
<1> QED
  BY <1>8 DEF IInv, TrimIdentity

LEMMA NextInv ==
    ASSUME OrdinaryImages, IInv, [Next]_vars
    PROVE  IInv'
<1>1. CASE UNCHANGED vars
  BY <1>1 DEF vars, IInv
<1>2. CASE \E s \in Slots : Prepare(s) \/ SwitchTo(s)
  BY <1>2, PrepareStep, SwitchStep
<1>3. CASE \E s, next \in Slots : EndProcess(s, next)
  BY <1>3, EndStep
<1>4. CASE LoadFlat \/ \E image \in Images, fit \in BOOLEAN : LoadImage(image, fit)
  BY <1>4, LoadSteps
<1>5. CASE LoadBadMbapp
  BY <1>5, BadMbappStep
<1>6. CASE \E pages \in 0..2 : Brk(pages)
  BY <1>6, BrkStep
<1>7. CASE GrowHeap \/ MapTest \/ MapUserTest
  BY <1>7, NewPageStep
<1>8. CASE AllocPageCommand
  BY <1>8, AllocCommandStep
<1>9. CASE TrimIdentity
  BY <1>9, TrimStep
<1> QED
  BY <1>1, <1>2, <1>3, <1>4, <1>5, <1>6, <1>7, <1>8, <1>9 DEF Next

-----------------------------------------------------------------------------
(* The theorems.                                                           *)

LEMMA InvHolds ==
    ASSUME OrdinaryImages
    PROVE  Spec => []IInv
<1>1. IInv /\ [Next]_vars => IInv'
  BY NextInv
<1> QED
  BY <1>1, InitInv, PTL DEF Spec

\* The tree in the terms of the model.
LEMMA TreeNames ==
    /\ PrivateDirs \cup {GlobalDir} = DirsIn(k.dir)
    /\ AllTables = TablesIn(k.ram, k.dir)
    /\ Structures = Roots(k.dir) \cup TablesIn(k.ram, k.dir)
    /\ Leaves = LeavesIn(k.ram, k.dir)
    /\ \A l : LeafFrame(l) = FrameAt(k.ram, l)
<1>1. PrivateDirs \cup {GlobalDir} = DirsIn(k.dir)
  BY DEF PrivateDirs, DirsIn
<1>2. AllTables = TablesIn(k.ram, k.dir)
  <2>1. ASSUME NEW t \in AllTables
        PROVE  t \in TablesIn(k.ram, k.dir)
    <3>1. PICK d \in DirsIn(k.dir) : t \in TablesOf(d)
      BY <1>1 DEF AllTables
    <3>2. PICK i \in Dirs \ {IdDir} : /\ k.ram[d][i] # None
                                      /\ d = GlobalDir \/ i \notin KernelDirs
                                      /\ t = k.ram[d][i].frame
      BY <3>1 DEF TablesOf
    <3>3. <<d, i>> \in LinksIn(k.ram, k.dir)
      BY <3>2, UpperMade DEF LinksIn
    <3> QED
      BY <3>2, <3>3 DEF TablesIn
  <2>2. ASSUME NEW t \in TablesIn(k.ram, k.dir)
        PROVE  t \in AllTables
    <3>1. PICK u \in LinksIn(k.ram, k.dir) : t = k.ram[u[1]][u[2]].frame
      BY DEF TablesIn
    <3>2. /\ u[1] \in DirsIn(k.dir) /\ u[2] \in Dirs \ {IdDir}
          /\ u[1] = GlobalDir \/ u[2] \notin KernelDirs
          /\ k.ram[u[1]][u[2]] # None
      BY DEF LinksIn, UpperIn
    <3>3. t \in TablesOf(u[1])
      BY <3>1, <3>2 DEF TablesOf
    <3> QED
      BY <1>1, <3>2, <3>3 DEF AllTables
  <2> QED
    BY <2>1, <2>2
<1>3. Structures = Roots(k.dir) \cup TablesIn(k.ram, k.dir)
  BY <1>1, <1>2 DEF Structures, Roots
<1>4. Leaves = LeavesIn(k.ram, k.dir)
  BY <1>2 DEF Leaves, LeavesIn
<1>5. \A l : LeafFrame(l) = FrameAt(k.ram, l)
  BY DEF LeafFrame, FrameAt
<1> QED
  BY <1>1, <1>2, <1>3, <1>4, <1>5

\* Whatever is prepared, loaded, grown, mapped and ended in whatever order, the
\* allocator stays sound and the directories, tables, tracking lists and slots
\* keep their types.
THEOREM TypeCorrect ==
    ASSUME OrdinaryImages
    PROVE  Spec => []TypeOK
<1>1. IInv => TypeOK
  <2> SUFFICES ASSUME IInv PROVE TypeOK
    OBVIOUS
  <2>1. Typed(k)
    BY DEF IInv, Sane
  <2>2. Entries \subseteq [frame : Frames \cup {NoPage}, user : BOOLEAN]
    <3>1. None \in [frame : Frames \cup {NoPage}, user : BOOLEAN]
      BY DEF None
    <3>2. \A e \in [frame : Frames, user : BOOLEAN] :
             e \in [frame : Frames \cup {NoPage}, user : BOOLEAN]
      OBVIOUS
    <3> QED
      BY <3>1, <3>2 DEF Entries
  <2>3. k.ram \in [Frames -> PageTables]
    BY <2>1, <2>2, Parts DEF Memories, PageTables
  <2>4. UserVAs \subseteq Dirs \X Words
    BY DEF UserVAs, Dirs, TaskDir, ImageDir
  <2>5. k.pages \in [Slots -> Seq(Dirs \X Words)]
    <3> DEFINE P == Dirs \X Words
    <3>1. UserVAs \subseteq P
      BY <2>4
    <3> HIDE DEF P
    <3>2. \A q \in Seq(UserVAs) : q \in Seq(P)
      BY <3>1
    <3> QED
      BY <2>1, <3>2, Parts DEF P
  <2>6. code \in [Slots -> Dirs \X Words]
    BY <2>4 DEF IInv
  <2> QED
    BY <2>1, <2>3, <2>5, <2>6, Parts DEF IInv, TypeOK, DirOwners
<1> QED
  BY <1>1, InvHolds, PTL

\* paging_map_new_page, process_map_user_page, paging_unmap_page and everything
\* that calls them never give one frame to two pages, to a page and a directory
\* or table, or to a page and a command that keeps it, and never leave a page
\* mapped whose frame went back to the pool, whatever fails half way.
THEOREM FramesStayPrivate ==
    ASSUME OrdinaryImages
    PROVE  Spec => []FramesPrivate
<1>1. IInv => FramesPrivate
  <2> SUFFICES ASSUME IInv, ~k.dead
               PROVE  /\ \A l1, l2 \in Leaves : LeafFrame(l1) = LeafFrame(l2) => l1 = l2
                      /\ MappedFrames \subseteq Held(k.mem)
                      /\ MappedFrames \cap (Structures \cup reserved) = {}
    BY DEF FramesPrivate
  <2> DEFINE held == Held(k.mem)
  <2>1. /\ k.ram \in Memories /\ k.dir \in DirOwners
        /\ Consistent(k.ram, k.dir, held, reserved)
    BY Parts DEF IInv, Sane
  <2> HIDE DEF held
  <2>2. \A l \in LeavesIn(k.ram, k.dir) :
            /\ FrameAt(k.ram, l) \notin TablesIn(k.ram, k.dir)
            /\ FrameAt(k.ram, l) \in held \ (Roots(k.dir) \cup reserved)
    BY <2>1, Apart
  <2>3. \A l1, l2 \in LeavesIn(k.ram, k.dir) :
            FrameAt(k.ram, l1) = FrameAt(k.ram, l2) => l1 = l2
    BY <2>1 DEF Consistent, FullIn
  <2> QED
    BY <2>2, <2>3, TreeNames DEF MappedFrames, held
<1> QED
  BY <1>1, InvHolds, PTL

\* A directory or table in use is never in the pool, and the owner that makes
\* free_page refuses it is on record, as long as the owner table has room for
\* every frame: with a full table the record of a new structure is dropped.
THEOREM StructuresStayProtected ==
    ASSUME OrdinaryImages, Ample
    PROVE  Spec => []StructuresProtected
<1>1. IInv => StructuresProtected
  <2> SUFFICES ASSUME IInv, ~k.dead, NEW f \in Structures
               PROVE  f \in Held(k.mem) /\ OwnerGet(k.mem, f) = "PAGING_STRUCTURE"
    BY DEF StructuresProtected
  <2> DEFINE held == Held(k.mem)
  <2>1. /\ k.ram \in Memories /\ k.dir \in DirOwners /\ Protected(k)
        /\ Consistent(k.ram, k.dir, held, reserved) /\ held \subseteq Frames
    BY Parts DEF IInv, Sane
  <2>2. f \in Roots(k.dir) \cup TablesIn(k.ram, k.dir)
    BY TreeNames
  <2>3. k.mem.owner[f] = "PAGING_STRUCTURE"
    BY <2>1, <2>2 DEF Protected
  <2> HIDE DEF held
  <2>4. Roots(k.dir) \subseteq held
    BY <2>1 DEF Consistent
  <2>5. TablesIn(k.ram, k.dir) \subseteq held \ (Roots(k.dir) \cup reserved)
    BY <2>1, Apart
  <2> QED
    BY <2>1, <2>2, <2>3, <2>4, <2>5 DEF OwnerGet, held
<1> QED
  BY <1>1, InvHolds, PTL

-----------------------------------------------------------------------------
(* The pages of the task area.                                             *)

\* Commands but the program loaders'.  A loader gives a slot whose pages are mapped
\* a directory of its own, looks for the pages there and clears the list; when it
\* then fails, user_ready stays set.  Each loader alone breaks TaskPagesTracked and
\* ReadyMapped, and two images linked at one base break OthersUndisturbed.
NoLoaders == Commands \cap {"flat", "badmbapp", "image"} = {}

TaskPages == {TaskDir} \X Words
TaskArea(s) == {TaskDir} \X (4 * (s - 1) .. 4 * (s - 1) + 3)

\* Every slot has an area of its own.
LEMMA Areas ==
    /\ TaskPages \subseteq UserVAs /\ TaskPages \subseteq UpperVAs
    /\ \A s \in Slots : TaskArea(s) \subseteq TaskPages
    /\ \A s, r \in Slots : s # r => TaskArea(s) \cap TaskArea(r) = {}
    /\ \A s \in Slots : /\ CodeVA(s) \in TaskArea(s) /\ StackVA(s) \in TaskArea(s)
                        /\ CodeVA(s) # StackVA(s)
                        /\ \A page \in 1..2 : HeapVA(s, page) \in TaskArea(s)
<1>1. LastWord \in Nat /\ \A s \in Slots : s \in Nat \ {0} /\ 4 * s <= LastWord + 1
  BY SpaceAssumption
<1>2. TaskPages \subseteq UserVAs /\ TaskPages \subseteq UpperVAs
  BY DEF TaskPages, UserVAs, UpperVAs, Dirs, IdDir, TaskDir
<1>3. ASSUME NEW s \in Slots
      PROVE  TaskArea(s) \subseteq TaskPages
  BY <1>1 DEF TaskArea, TaskPages, Words
<1>4. ASSUME NEW s \in Slots, NEW r \in Slots, s # r
      PROVE  TaskArea(s) \cap TaskArea(r) = {}
  BY <1>1, <1>4 DEF TaskArea
<1>5. ASSUME NEW s \in Slots
      PROVE  /\ CodeVA(s) \in TaskArea(s) /\ StackVA(s) \in TaskArea(s)
             /\ CodeVA(s) # StackVA(s)
             /\ \A page \in 1..2 : HeapVA(s, page) \in TaskArea(s)
  BY <1>1 DEF TaskArea, CodeVA, StackVA, HeapVA
<1> QED
  BY <1>2, <1>3, <1>4, <1>5

LEMMA WalkTypes ==
    ASSUME NEW m, NEW R, Sane(m, R), ~m.dead, NEW va \in UpperVAs
    PROVE  /\ Walk(m, GlobalDir, va) \in Entries
           /\ Walk(m, GlobalDir, va).frame = NoPage <=> Walk(m, GlobalDir, va) = None
<1>1. va[1] \in Dirs \ {IdDir} /\ va[2] \in Words
  BY DEF UpperVAs
<1>2. m.ram[GlobalDir][va[1]] # None => m.ram[GlobalDir][va[1]].frame \in Frames
  BY <1>1, GlobalTables
<1>3. m.ram \in Memories
  BY Parts DEF Sane
<1>4. Walk(m, GlobalDir, va) \in Entries
  BY <1>1, <1>2, <1>3, EntryTypes DEF Walk, Memories
<1> QED
  BY <1>4, EntryTypes, RootFrames DEF Entries

\* A page, and with it perhaps its table, is taken out.
LEMMA LeafTaken ==
    ASSUME NEW m, NEW R, Sane(m, R), ~m.dead, NEW va \in UserVAs,
           Walk(m, GlobalDir, va) # None,
           NEW free, NEW y, y = Cleared(m, GlobalDir, va, free)
    PROVE  OtherWalksKept(m, y, va) /\ Walk(y, GlobalDir, va) = None
<1> DEFINE i == va[1]
           w == va[2]
           t == m.ram[GlobalDir][i].frame
           c == LeafOut(m, GlobalDir, va)
           b == TableUnlinked(m, GlobalDir, va)
           e == None
<1>1. i \in Dirs \ {IdDir} /\ i \in Words /\ w \in Words /\ va = <<i, w>> /\ va \in UpperVAs
  BY RootFrames DEF UserVAs, UpperVAs, Dirs, IdDir, TaskDir, ImageDir
<1>2. m.ram[GlobalDir][i] # None /\ m \in Machines
  BY DEF Walk, Sane, Typed
<1>3. t \in Frames /\ t # GlobalDir /\ GlobalDir \in Frames /\ e \in Entries
  BY <1>1, <1>2, GlobalTables, EntryTypes
<1>4. c = Put(m, t, w, e) /\ b = Put(c, GlobalDir, i, e)
  BY DEF LeafOut, TableUnlinked
<1>5. \/ y = c
      \/ y = Freed(Owned(b, t, "ALLOCATOR"), t) /\ c.ram[t] = EmptyTable
  BY ClearedEither DEF TableOut
<1> HIDE DEF b, c, e, t
<1>6. c \in Machines /\ Rewritten(m.ram, c.ram, t, w, e)
  BY <1>1, <1>2, <1>3, <1>4, Stored
<1>7. Rewritten(c.ram, b.ram, GlobalDir, i, e)
  BY <1>1, <1>3, <1>4, <1>6, Stored
<1>8. OtherWalksKept(m, c, va) /\ Walk(c, GlobalDir, va) = e
      /\ \A j \in Words : c.ram[GlobalDir][j] = m.ram[GlobalDir][j]
  <2>1. Rewritten(m.ram, c.ram, m.ram[GlobalDir][va[1]].frame, va[2], e)
    BY <1>6 DEF t
  <2>2. m.ram[GlobalDir][va[1]] # None
    BY <1>2
  <2>3. va \in UpperVAs
    BY <1>1
  <2> HIDE DEF i, w
  <2>4. OtherWalksKept(m, c, va)
    BY <2>1, <2>2, <2>3, LeafPut
  <2>5. \A j \in Words : c.ram[GlobalDir][j] = m.ram[GlobalDir][j]
    BY <1>3, <1>6 DEF Rewritten
  <2>6. Walk(c, GlobalDir, va) = e
    <3>1. c.ram[GlobalDir][va[1]] = m.ram[GlobalDir][va[1]] /\ c.ram[t][va[2]] = e
      BY <1>1, <1>3, <1>6, <2>5 DEF Rewritten, i, w
    <3> QED
      BY <2>2, <3>1 DEF Walk, t, i
  <2> QED
    BY <2>4, <2>5, <2>6
<1>9. CASE y = c
  BY <1>8, <1>9 DEF e
<1>10. CASE y = Freed(Owned(b, t, "ALLOCATOR"), t) /\ c.ram[t] = EmptyTable
  <2>1. y.ram = b.ram
    BY <1>10 DEF Freed, Owned
  <2>2. \A x \in Frames, v \in Words :
            y.ram[x][v] = IF x = GlobalDir /\ v = i THEN e ELSE c.ram[x][v]
    BY <1>7, <2>1 DEF Rewritten
  <2>3. Walk(y, GlobalDir, va) = None
    BY <1>1, <1>3, <2>2 DEF Walk, e
  <2>4. ASSUME NEW j \in Dirs \ {IdDir}, NEW v \in Words, NEW vb, vb = <<j, v>>
        PROVE  Walk(y, GlobalDir, vb) = Walk(c, GlobalDir, vb)
    <3>1. vb[1] = j /\ vb[2] = v /\ j \in Words /\ c.ram[GlobalDir][j] = m.ram[GlobalDir][j]
      BY <1>8, <2>4, RootFrames
    <3>2. CASE j = i
      <4>1. Walk(y, GlobalDir, vb) = None
        BY <1>1, <1>3, <2>2, <3>1, <3>2 DEF Walk, e
      <4>2. Walk(c, GlobalDir, vb) = c.ram[t][v]
        BY <1>2, <3>1, <3>2 DEF Walk, t
      <4>3. c.ram[t][v] = None
        BY <1>10 DEF EmptyTable
      <4> QED
        BY <4>1, <4>2, <4>3
    <3>3. CASE j # i
      <4>1. y.ram[GlobalDir][j] = c.ram[GlobalDir][j]
        BY <1>3, <2>2, <3>1, <3>3
      <4>2. m.ram[GlobalDir][j] # None =>
                m.ram[GlobalDir][j].frame \in Frames /\ m.ram[GlobalDir][j].frame # GlobalDir
        BY GlobalTables
      <4>3. m.ram[GlobalDir][j] # None =>
                y.ram[m.ram[GlobalDir][j].frame][v] = c.ram[m.ram[GlobalDir][j].frame][v]
        BY <2>2, <4>2
      <4> QED
        BY <3>1, <4>1, <4>3 DEF Walk
    <3> QED
      BY <3>2, <3>3
  <2>5. WalksKept(c, y)
    BY <2>4 DEF WalksKept, UpperVAs
  <2> QED
    BY <1>8, <2>3, <2>5 DEF WalksKept, OtherWalksKept
<1> QED
  BY <1>5, <1>9, <1>10

\* One turn of process_unmap_user_pages on the global directory.
LEMMA PageTaken ==
    ASSUME NEW m, NEW R, Sane(m, R), ~m.dead, NEW s \in Slots, m.dir[s] = NoPage,
           NEW va \in UserVAs,
           NEW y, y = Unmapped(m, s, va)
    PROVE  OtherWalksKept(m, y, va) /\ Walk(y, GlobalDir, va) = None
<1> DEFINE f == Walk(m, GlobalDir, va).frame
           z == UnmapPage(m, va)
           free == OwnerGet(m.mem, m.ram[GlobalDir][va[1]].frame) = "PAGING_STRUCTURE"
           c == Cleared(m, GlobalDir, va, free)
<1>1. HomeDir(m, s) = GlobalDir /\ WalkFaults(m, s, va) = FALSE
  BY DEF HomeDir, WalkFaults
<1>2. y = IF f = NoPage THEN m ELSE Freed(z, f)
  BY <1>1 DEF Unmapped
<1>3. va \in UpperVAs
  BY DEF UserVAs, UpperVAs, Dirs, IdDir, TaskDir, ImageDir
<1>4. f = NoPage <=> Walk(m, GlobalDir, va) = None
  BY <1>3, WalkTypes
<1>5. CASE f = NoPage
  BY <1>2, <1>4, <1>5 DEF OtherWalksKept
<1>6. CASE f # NoPage
  <2>1. z = IF HasTable(c, GlobalDir, va[1]) THEN c ELSE [c EXCEPT !.cr3 = GlobalDir]
    BY <1>4, <1>6 DEF UnmapPage
  <2>2. y = Freed(z, f) /\ c = Cleared(m, GlobalDir, va, free) /\ Walk(m, GlobalDir, va) # None
    BY <1>2, <1>4, <1>6
  <2> HIDE DEF z, f, c, free
  <2>3. OtherWalksKept(m, c, va) /\ Walk(c, GlobalDir, va) = None
    BY <2>2, LeafTaken
  <2>4. y.ram = z.ram /\ z.ram = c.ram
    BY <2>1, <2>2 DEF Freed
  <2> QED
    BY <2>3, <2>4 DEF OtherWalksKept, Walk
<1> QED
  BY <1>5, <1>6

\* A slot's list has exactly the pages of its area that are mapped.
Book(m, s) ==
    /\ Tracked(m, s) \subseteq TaskArea(s)
    /\ \A va \in TaskArea(s) : Walk(m, GlobalDir, va) # None <=> va \in Tracked(m, s)
    /\ Tracked(m, s) # {} => TrackMax > 0

\* No slot has a directory of its own, and nothing is mapped between the areas.
Booked(m) ==
    /\ \A s \in Slots : m.dir[s] = NoPage /\ Book(m, s)
    /\ \A va \in TaskPages :
          (\A s \in Slots : va \notin TaskArea(s)) => Walk(m, GlobalDir, va) = None

\* A step that touches one slot at most.
TaskApart(m, y, s) ==
    /\ \A r \in Slots \ {s} : y.pages[r] = m.pages[r]
    /\ \A va \in TaskPages \ TaskArea(s) : Walk(y, GlobalDir, va) = Walk(m, GlobalDir, va)

\* A step that touches one slot and no page elsewhere.
ApartFrom(m, y, s) ==
    /\ \A r \in Slots \ {s} : y.pages[r] = m.pages[r]
    /\ \A va \in UpperVAs \ TaskArea(s) : Walk(y, GlobalDir, va) = Walk(m, GlobalDir, va)

LEMMA ApartTask ==
    ASSUME NEW m, NEW y, NEW s \in Slots, ApartFrom(m, y, s)
    PROVE  TaskApart(m, y, s)
BY Areas DEF ApartFrom, TaskApart

LEMMA ApartOn ==
    ASSUME NEW m, NEW y, NEW z, NEW s \in Slots, ApartFrom(m, y, s), ApartFrom(y, z, s)
    PROVE  ApartFrom(m, z, s)
BY DEF ApartFrom

LEMMA BookedAgain ==
    ASSUME NEW m, Booked(m), NEW y, NEW s \in Slots, TaskApart(m, y, s), Book(y, s),
           \A r \in Slots : y.dir[r] = NoPage
    PROVE  Booked(y)
<1>1. ASSUME NEW r \in Slots, r # s
      PROVE  Book(y, r)
  <2>1. Tracked(y, r) = Tracked(m, r)
    BY <1>1 DEF TaskApart, Tracked
  <2>2. \A va \in TaskArea(r) : Walk(y, GlobalDir, va) = Walk(m, GlobalDir, va)
    BY <1>1, Areas DEF TaskApart
  <2> QED
    BY <2>1, <2>2 DEF Booked, Book
<1>2. ASSUME NEW va \in TaskPages, \A r \in Slots : va \notin TaskArea(r)
      PROVE  Walk(y, GlobalDir, va) = None
  BY <1>2 DEF Booked, TaskApart
<1> QED
  BY <1>1, <1>2 DEF Booked

\* process_track_user_page.
LEMMA TracksPage ==
    ASSUME NEW m, m \in Machines, NEW s \in Slots, NEW va \in UserVAs,
           NEW y, y = Track(m, s, va)
    PROVE  /\ y.ram = m.ram /\ y.dead = m.dead
           /\ \A r \in Slots \ {s} : y.pages[r] = m.pages[r]
           /\ Tracked(m, s) \subseteq Tracked(y, s)
           /\ Tracked(y, s) \subseteq Tracked(m, s) \cup {va}
           /\ Tracked(y, s) # {} => Tracked(m, s) # {} \/ TrackMax > 0
           /\ Len(m.pages[s]) < TrackMax => va \in Tracked(y, s)
<1> DEFINE q == m.pages[s]
           ps == [m.pages EXCEPT ![s] = Append(@, va)]
<1>1. q \in Seq(UserVAs) /\ Len(q) \in Nat /\ TrackMax \in Nat
  BY SpaceAssumption DEF Machines
<1>2. CASE va \in Tracked(m, s) \/ Len(q) >= TrackMax
  <2>1. y = m
    BY <1>2 DEF Track
  <2> QED
    BY <1>1, <1>2, <2>1
<1>3. CASE ~(va \in Tracked(m, s) \/ Len(q) >= TrackMax)
  <2>1. y = [m EXCEPT !.pages = ps]
    BY <1>3 DEF Track
  <2>2. /\ ps[s] = Append(q, va) /\ \A r \in Slots \ {s} : ps[r] = m.pages[r]
    BY DEF Machines
  <2>3. Elems(Append(q, va)) = Elems(q) \cup {va}
    <3>1. /\ Len(Append(q, va)) = Len(q) + 1 /\ Append(q, va)[Len(q) + 1] = va
          /\ \A i \in 1..Len(q) : Append(q, va)[i] = q[i]
      BY <1>1
    <3>2. 1..(Len(q) + 1) = 1..Len(q) \cup {Len(q) + 1}
      BY <1>1
    <3> QED
      BY <3>1, <3>2 DEF Elems
  <2> HIDE DEF ps
  <2>4. y.ram = m.ram /\ y.dead = m.dead /\ y.pages = ps
    BY <2>1 DEF Machines
  <2>5. Tracked(y, s) = Tracked(m, s) \cup {va}
    BY <2>2, <2>3, <2>4 DEF Tracked
  <2>6. TrackMax > 0
    BY <1>1, <1>3
  <2> QED
    BY <2>2, <2>4, <2>5, <2>6
<1> QED
  BY <1>2, <1>3

\* What process_map_user_page does on the global directory.
MappedOne(m, y, s, va) ==
    /\ \A r \in Slots \ {s} : y.pages[r] = m.pages[r]
    /\ OtherWalksKept(m, y, va)
    /\ Tracked(m, s) \subseteq Tracked(y, s)
    /\ Tracked(y, s) \subseteq Tracked(m, s) \cup {va}
    /\ Tracked(y, s) # {} => Tracked(m, s) # {} \/ TrackMax > 0
    /\ Walk(m, GlobalDir, va) # None =>
           /\ Walk(y, GlobalDir, va) # None
           /\ Len(m.pages[s]) < TrackMax => va \in Tracked(y, s)
    /\ Walk(m, GlobalDir, va) = None /\ va \notin Tracked(m, s) =>
           (Walk(y, GlobalDir, va) # None <=> va \in Tracked(y, s))

LEMMA MapsOne ==
    ASSUME NEW m, NEW R, Sane(m, R), ~m.dead, NEW s \in Slots, m.dir[s] = NoPage,
           NEW va \in UserVAs,
           NEW y, y = MapUserPage(m, s, va), ~y.dead
    PROVE  MappedOne(m, y, s, va)
<1>1. HomeDir(m, s) = GlobalDir /\ WalkFaults(m, s, va) = FALSE
  BY DEF HomeDir, WalkFaults
<1>2. m \in Machines
  BY DEF Sane, Typed
<1>3. CASE Walk(m, GlobalDir, va) # None
  <2>1. y = Track(m, s, va)
    BY <1>1, <1>3 DEF MapUserPage
  <2>2. /\ y.ram = m.ram /\ y.dead = m.dead
        /\ \A r \in Slots \ {s} : y.pages[r] = m.pages[r]
        /\ Tracked(m, s) \subseteq Tracked(y, s)
        /\ Tracked(y, s) \subseteq Tracked(m, s) \cup {va}
        /\ Tracked(y, s) # {} => Tracked(m, s) # {} \/ TrackMax > 0
        /\ Len(m.pages[s]) < TrackMax => va \in Tracked(y, s)
    BY <1>2, <2>1, TracksPage
  <2>3. OtherWalksKept(m, y, va) /\ Walk(y, GlobalDir, va) = Walk(m, GlobalDir, va)
    BY <2>2 DEF OtherWalksKept, Walk
  <2> QED
    BY <1>3, <2>2, <2>3 DEF MappedOne
<1>4. CASE Walk(m, GlobalDir, va) = None
  <2> DEFINE t == MapFresh(m, s, va)
             u == Track(t, s, va)
             x == Unmapped(t, s, va)
  <2>1. y = TrackedOrUnmapped(t, s, va)
    BY <1>1, <1>4 DEF MapUserPage
  <2>2. /\ Sane(t, R) /\ t.dir = m.dir /\ t.pages = m.pages
        /\ ~t.dead => OtherWalksKept(m, t, va)
    BY FreshMapped
  <2>3. y = IF t.dead \/ Walk(t, HomeDir(t, s), va) = None THEN t
            ELSE IF va \in Tracked(u, s) THEN u ELSE x
    BY <2>1 DEF TrackedOrUnmapped
  <2>4. x = Unmapped(t, s, va) /\ u = Track(t, s, va)
    OBVIOUS
  <2> HIDE DEF t, u, x
  <2>5. HomeDir(t, s) = GlobalDir
    BY <2>2 DEF HomeDir
  <2>6. Tracked(t, s) = Tracked(m, s)
    BY <2>2 DEF Tracked
  <2>7. t \in Machines
    BY <2>2 DEF Sane, Typed
  <2>8. CASE t.dead \/ Walk(t, GlobalDir, va) = None
    <3>1. y = t
      BY <2>3, <2>5, <2>8
    <3>2. ~t.dead /\ Walk(y, GlobalDir, va) = None /\ OtherWalksKept(m, y, va)
      BY <2>2, <2>8, <3>1
    <3> QED
      BY <1>4, <2>2, <2>6, <3>1, <3>2 DEF MappedOne
  <2>9. CASE ~(t.dead \/ Walk(t, GlobalDir, va) = None) /\ va \in Tracked(u, s)
    <3>1. y = u /\ ~t.dead /\ OtherWalksKept(m, t, va)
      BY <2>2, <2>3, <2>5, <2>9
    <3>2. /\ u.ram = t.ram
          /\ \A r \in Slots \ {s} : u.pages[r] = t.pages[r]
          /\ Tracked(t, s) \subseteq Tracked(u, s)
          /\ Tracked(u, s) \subseteq Tracked(t, s) \cup {va}
          /\ Tracked(u, s) # {} => Tracked(t, s) # {} \/ TrackMax > 0
      BY <2>4, <2>7, TracksPage
    <3>3. OtherWalksKept(m, y, va) /\ Walk(y, GlobalDir, va) = Walk(t, GlobalDir, va)
      BY <3>1, <3>2 DEF OtherWalksKept, Walk
    <3> QED
      BY <1>4, <2>2, <2>6, <2>9, <3>1, <3>2, <3>3 DEF MappedOne
  <2>10. CASE ~(t.dead \/ Walk(t, GlobalDir, va) = None) /\ va \notin Tracked(u, s)
    <3>1. y = x /\ ~t.dead /\ OtherWalksKept(m, t, va) /\ t.dir[s] = NoPage
      BY <2>2, <2>3, <2>5, <2>10
    <3>2. OtherWalksKept(t, x, va) /\ Walk(x, GlobalDir, va) = None
      BY <2>2, <2>4, <3>1, PageTaken
    <3>3. x.pages = t.pages
      BY <2>2, <2>4, PageUnmapped
    <3>4. Tracked(y, s) = Tracked(m, s)
      BY <2>2, <3>1, <3>3 DEF Tracked
    <3>5. va \notin Tracked(m, s)
      <4>1. Tracked(t, s) \subseteq Tracked(u, s)
        BY <2>4, <2>7, TracksPage
      <4> QED
        BY <2>6, <2>10, <4>1
    <3>6. OtherWalksKept(m, y, va)
      BY <3>1, <3>2 DEF OtherWalksKept
    <3> QED
      BY <1>4, <2>2, <3>1, <3>2, <3>3, <3>4, <3>5, <3>6 DEF MappedOne
  <2> QED
    BY <2>8, <2>9, <2>10
<1> QED
  BY <1>3, <1>4

\* A page of the slot's area is mapped.
LEMMA OneApart ==
    ASSUME NEW m, NEW y, NEW s \in Slots, NEW va \in TaskArea(s), MappedOne(m, y, s, va)
    PROVE  ApartFrom(m, y, s)
BY DEF MappedOne, OtherWalksKept, ApartFrom

LEMMA BookKept ==
    ASSUME NEW m, NEW y, NEW s \in Slots, NEW va \in TaskArea(s), MappedOne(m, y, s, va),
           Book(m, s)
    PROVE  Book(y, s)
<1>1. \A vb \in TaskArea(s) \ {va} : Walk(y, GlobalDir, vb) = Walk(m, GlobalDir, vb)
  BY Areas DEF MappedOne, OtherWalksKept
<1>2. \A vb \in TaskArea(s) \ {va} : vb \in Tracked(y, s) <=> vb \in Tracked(m, s)
  BY DEF MappedOne
<1>3. Walk(y, GlobalDir, va) # None <=> va \in Tracked(y, s)
  BY DEF MappedOne, Book
<1>4. Tracked(y, s) \subseteq TaskArea(s)
  BY DEF MappedOne, Book
<1>5. Tracked(y, s) # {} => TrackMax > 0
  BY DEF MappedOne, Book
<1> QED
  BY <1>1, <1>2, <1>3, <1>4, <1>5 DEF Book

\* After a load gave up its directory: the code page may still be mapped, but
\* the list has been cleared.
Half(m, s) ==
    /\ m.pages[s] = <<>> /\ TrackMax > 0
    /\ Walk(m, GlobalDir, CodeVA(s)) # None
    /\ \A va \in TaskArea(s) \ {CodeVA(s)} : Walk(m, GlobalDir, va) = None

LEMMA BookRestored ==
    ASSUME NEW m, NEW y, NEW s \in Slots, NEW va, va = CodeVA(s), MappedOne(m, y, s, va),
           Half(m, s)
    PROVE  Book(y, s)
<1>1. va \in TaskArea(s)
  BY Areas
<1>2. \A vb \in TaskArea(s) \ {va} : Walk(y, GlobalDir, vb) = Walk(m, GlobalDir, vb)
  BY Areas DEF MappedOne, OtherWalksKept
<1>3. Tracked(m, s) = {} /\ Len(m.pages[s]) < TrackMax
  BY DEF Half, Tracked, Elems
<1>4. Walk(y, GlobalDir, va) # None /\ va \in Tracked(y, s)
  BY <1>3 DEF MappedOne, Half
<1>5. Tracked(y, s) = {va}
  BY <1>3, <1>4 DEF MappedOne
<1>6. \A vb \in TaskArea(s) \ {va} : Walk(y, GlobalDir, vb) = None
  BY <1>2 DEF Half
<1> QED
  BY <1>1, <1>4, <1>5, <1>6 DEF Book, Half

\* A property of the turns of a loop, counted from the first.
LEMMA CountsUp ==
    ASSUME NEW L \in Nat, NEW T, 0 \in T,
           \A n \in 1..L : n - 1 \in T => n \in T
    PROVE  \A n \in 0..L : n \in T
<1> DEFINE U == {n \in 0..L : n \notin T}
<1> SUFFICES ASSUME U # {} PROVE FALSE
  OBVIOUS
<1>1. U \in SUBSET Nat
  OBVIOUS
<1>2. PICK i \in U : \A j \in U : i <= j
  <2> HIDE DEF U
  <2> QED
    BY <1>1, LeastNatural
<1>3. i \in 0..L /\ i \notin T
  OBVIOUS
<1>4. i # 0
  BY <1>3
<1>5. i - 1 \in 0..L /\ ~(i <= i - 1) /\ i \in 1..L
  BY <1>3, <1>4
<1>6. i - 1 \in T
  BY <1>2, <1>5
<1> QED
  BY <1>3, <1>5, <1>6

\* After n turns of process_unmap_user_pages on the global directory.
TakenSoFar(t, m, R, vas, n) ==
    /\ Sane(t, R) /\ t.dir = m.dir /\ t.pages = m.pages
    /\ ~t.dead => \A va \in UpperVAs :
           IF \E j \in 1..n : vas[j] = va THEN Walk(t, GlobalDir, va) = None
           ELSE Walk(t, GlobalDir, va) = Walk(m, GlobalDir, va)

LEMMA TakenStart ==
    ASSUME NEW m, NEW R, Sane(m, R), NEW vas
    PROVE  TakenSoFar(m, m, R, vas, 0)
BY DEF TakenSoFar

LEMMA TakenTurn ==
    ASSUME NEW m, NEW R, NEW s \in Slots, m.dir[s] = NoPage,
           NEW vas, NEW n \in Nat \ {0}, vas[n] \in UserVAs,
           NEW t, TakenSoFar(t, m, R, vas, n - 1),
           NEW y, y = Unmapped(t, s, vas[n])
    PROVE  TakenSoFar(y, m, R, vas, n)
<1> DEFINE va == vas[n]
<1>1. Sane(t, R) /\ t.dir = m.dir /\ t.pages = m.pages /\ va \in UserVAs
  BY DEF TakenSoFar
<1>2. y = Unmapped(t, s, va)
  OBVIOUS
<1> HIDE DEF va
<1>3. Sane(y, R) /\ y.dir = t.dir /\ y.pages = t.pages
  BY <1>1, <1>2, PageUnmapped
<1>4. t.dead => y = t
  BY <1>2 DEF Unmapped
<1>5. ~t.dead => OtherWalksKept(t, y, va) /\ Walk(y, GlobalDir, va) = None
  BY <1>1, <1>2, PageTaken
<1>6. ASSUME ~y.dead, NEW vb \in UpperVAs
      PROVE  IF \E j \in 1..n : vas[j] = vb THEN Walk(y, GlobalDir, vb) = None
             ELSE Walk(y, GlobalDir, vb) = Walk(m, GlobalDir, vb)
  <2>1. ~t.dead
    BY <1>4, <1>6
  <2>2. IF \E j \in 1..(n - 1) : vas[j] = vb THEN Walk(t, GlobalDir, vb) = None
        ELSE Walk(t, GlobalDir, vb) = Walk(m, GlobalDir, vb)
    BY <2>1 DEF TakenSoFar
  <2>3. CASE vb = va
    <3>1. n \in 1..n /\ vas[n] = vb
      BY <2>3 DEF va
    <3> QED
      BY <1>5, <2>1, <2>3, <3>1
  <2>4. CASE vb # va
    <3>1. (\E j \in 1..n : vas[j] = vb) <=> (\E j \in 1..(n - 1) : vas[j] = vb)
      <4>1. \A j \in 1..n : vas[j] = vb => j \in 1..(n - 1)
        BY <2>4 DEF va
      <4>2. \A j \in 1..(n - 1) : j \in 1..n
        OBVIOUS
      <4> QED
        BY <4>1, <4>2
    <3>2. Walk(y, GlobalDir, vb) = Walk(t, GlobalDir, vb)
      BY <1>5, <2>1, <2>4 DEF OtherWalksKept
    <3> QED
      BY <2>2, <3>1, <3>2
  <2> QED
    BY <2>3, <2>4
<1> QED
  BY <1>1, <1>3, <1>6 DEF TakenSoFar

\* process_unmap_user_pages of a slot without a directory of its own.
LEMMA AreaEmptied ==
    ASSUME NEW m, NEW R, Sane(m, R), NEW s \in Slots, m.dir[s] = NoPage,
           Book(m, s),
           NEW y, y = UnmapUserPages(m, s), ~y.dead
    PROVE  /\ y.dir = m.dir /\ ApartFrom(m, y, s) /\ Book(y, s) /\ y.pages[s] = <<>>
<1> DEFINE vas == m.pages[s]
           after == CHOOSE g : g = [n \in 0..Len(vas) |->
                                      IF n = 0 THEN m ELSE Unmapped(g[n - 1], s, vas[n])]
           gone == after[Len(vas)]
           bare == [gone EXCEPT !.pages[s] = <<>>]
<1>1. vas \in Seq(UserVAs)
  BY Parts DEF Sane
<1>2. Len(vas) \in Nat /\ \A n \in 1..Len(vas) : vas[n] \in UserVAs
  BY <1>1
<1>3. y = IF gone.dead THEN gone ELSE bare
  BY DEF UnmapUserPages
<1>4. \A n \in 0..Len(vas) : after[n] = IF n = 0 THEN m ELSE Unmapped(after[n - 1], s, vas[n])
  <2> HIDE DEF vas
  <2>1. after = CHOOSE g : g = [n \in 0..Len(vas) |->
                                  IF n = 0 THEN m ELSE Unmapped(g[n - 1], s, vas[n])]
    OBVIOUS
  <2> HIDE DEF after
  <2> QED
    BY <1>1, <2>1, UnmappingTurns
<1> HIDE DEF after
<1> DEFINE T == {n \in 0..Len(vas) : TakenSoFar(after[n], m, R, vas, n)}
<1>5. 0 \in T
  <2>1. 0 \in 0..Len(vas) /\ after[0] = m
    BY <1>2, <1>4
  <2> QED
    BY <2>1, TakenStart
<1>6. ASSUME NEW n \in 1..Len(vas), n - 1 \in T
      PROVE  n \in T
  <2>1. n \in 0..Len(vas) /\ n \in Nat \ {0} /\ after[n] = Unmapped(after[n - 1], s, vas[n])
    BY <1>2, <1>4
  <2>2. TakenSoFar(after[n - 1], m, R, vas, n - 1) /\ vas[n] \in UserVAs
    BY <1>2, <1>6
  <2> HIDE DEF vas
  <2>3. TakenSoFar(after[n], m, R, vas, n)
    BY <2>1, <2>2, TakenTurn
  <2> QED
    BY <2>1, <2>3
<1>7. Len(vas) \in T
  <2> HIDE DEF T
  <2>1. \A n \in 0..Len(vas) : n \in T
    BY <1>2, <1>5, <1>6, CountsUp
  <2> QED
    BY <1>2, <2>1
<1>8. TakenSoFar(gone, m, R, vas, Len(vas))
  BY <1>7
<1> HIDE DEF gone, T
<1>9. gone \in Machines
  BY <1>8 DEF TakenSoFar, Sane, Typed
<1>10. ~gone.dead /\ y = bare
  BY <1>3
<1>11. /\ y.dir = gone.dir /\ y.ram = gone.ram /\ y.pages[s] = <<>>
       /\ \A r \in Slots \ {s} : y.pages[r] = gone.pages[r]
  BY <1>9, <1>10 DEF Machines
<1>12. \A va \in UpperVAs : (\E j \in 1..Len(vas) : vas[j] = va) <=> va \in Tracked(m, s)
  BY DEF Tracked, Elems
<1>13. \A va \in UpperVAs :
           /\ va \in Tracked(m, s) => Walk(y, GlobalDir, va) = None
           /\ va \notin Tracked(m, s) => Walk(y, GlobalDir, va) = Walk(m, GlobalDir, va)
  <2>1. \A va \in UpperVAs : Walk(y, GlobalDir, va) = Walk(gone, GlobalDir, va)
    BY <1>11 DEF Walk
  <2> QED
    BY <1>8, <1>10, <1>12, <2>1 DEF TakenSoFar
<1>14. ApartFrom(m, y, s)
  <2>1. \A va \in UpperVAs \ TaskArea(s) : va \notin Tracked(m, s)
    BY DEF Book
  <2> QED
    BY <1>8, <1>11, <1>13, <2>1 DEF ApartFrom, TakenSoFar
<1>15. Tracked(y, s) = {}
  BY <1>11 DEF Tracked, Elems
<1>16. \A va \in TaskArea(s) : Walk(y, GlobalDir, va) = None
  BY <1>13, Areas DEF Book
<1> QED
  BY <1>8, <1>11, <1>14, <1>15, <1>16 DEF Book, TakenSoFar

-----------------------------------------------------------------------------
(* The directories and lists of an ended or prepared process.              *)

\* process_unmap_user_pages of a slot whose own directory has no task pages: the
\* list and the directory go, and nothing is unmapped.
LEMMA OnlyListCleared ==
    ASSUME NEW d, NEW R, Sane(d, R), NEW s \in Slots,
           \/ d.dead
           \/ /\ d.dir[s] # NoPage /\ d.ram[d.dir[s]][TaskDir] = None
              /\ \A va \in Tracked(d, s) : va[1] = TaskDir,
           NEW y, y = UnmapUserPages(d, s), ~y.dead
    PROVE  /\ ~d.dead
           /\ y = [Freed([d EXCEPT !.pages[s] = <<>>], d.dir[s])
                      EXCEPT !.cr3 = GlobalDir, !.dir[s] = NoPage]
<1> DEFINE vas == d.pages[s]
           after == CHOOSE g : g = [n \in 0..Len(vas) |->
                                      IF n = 0 THEN d ELSE Unmapped(g[n - 1], s, vas[n])]
           gone == after[Len(vas)]
           bare == [gone EXCEPT !.pages[s] = <<>>]
           S == {t \in Machines : t = d \/ t.dead}
<1>1. vas \in Seq(UserVAs) /\ d \in Machines
  BY Parts DEF Sane, Typed
<1>2. Len(vas) \in Nat /\ \A n \in 1..Len(vas) : vas[n] \in UserVAs /\ vas[n] \in Tracked(d, s)
  BY <1>1 DEF Tracked, Elems
<1>3. y = IF gone.dead THEN gone
          ELSE IF d.dir[s] = NoPage THEN bare
          ELSE [Freed(bare, d.dir[s]) EXCEPT !.cr3 = GlobalDir, !.dir[s] = NoPage]
  BY DEF UnmapUserPages
<1>4. \A n \in 0..Len(vas) : after[n] = IF n = 0 THEN d ELSE Unmapped(after[n - 1], s, vas[n])
  <2> HIDE DEF vas
  <2>1. after = CHOOSE g : g = [n \in 0..Len(vas) |->
                                  IF n = 0 THEN d ELSE Unmapped(g[n - 1], s, vas[n])]
    OBVIOUS
  <2> HIDE DEF after
  <2> QED
    BY <1>1, <2>1, UnmappingTurns
<1> HIDE DEF after, vas
<1>5. after[0] \in S
  BY <1>1, <1>2, <1>4
<1>6. ASSUME NEW n \in 1..Len(vas), after[n - 1] \in S
      PROVE  after[n] \in S
  <2> DEFINE t == after[n - 1]
             va == vas[n]
  <2>1. after[n] = Unmapped(t, s, va) /\ va \in Tracked(d, s)
    BY <1>2, <1>4
  <2>2. t \in Machines /\ (t = d \/ t.dead)
    BY <1>6
  <2> HIDE DEF t, va
  <2>3. CASE t.dead
    BY <2>1, <2>2, <2>3 DEF Unmapped
  <2>4. CASE ~t.dead
    <3>1. t = d /\ HomeDir(d, s) = d.dir[s] /\ Walk(d, d.dir[s], va) = None
      BY <2>1, <2>2, <2>4 DEF HomeDir, Walk
    <3>2. Walk(d, HomeDir(d, s), va).frame = NoPage
      BY <3>1, EntryTypes
    <3>3. after[n] = d \/ after[n] = Dies(d)
      BY <2>1, <2>4, <3>1, <3>2 DEF Unmapped
    <3>4. Dies(d) \in Machines /\ Dies(d).dead
      BY <1>1 DEF Dies, Machines
    <3> QED
      BY <1>1, <3>3, <3>4
  <2> QED
    BY <2>3, <2>4
<1>7. gone \in S
  <2> HIDE DEF S
  <2>1. \A n \in 0..Len(vas) : after[n] \in S
    BY <1>2, <1>5, <1>6, StaysIn
  <2> QED
    BY <1>2, <2>1
<1> HIDE DEF gone
<1>8. ~gone.dead
  BY <1>3
<1>9. gone = d
  BY <1>7, <1>8
<1> QED
  BY <1>3, <1>8, <1>9

\* A frame that was free becomes a directory: the global one leads nowhere else.
LEMMA DirectoryWalks ==
    ASSUME NEW m, NEW R, Sane(m, R), ~m.dead, NEW f \in Frames, f \notin Held(m.mem),
           NEW y, Refilled(m.ram, y.ram, f)
    PROVE  WalksKept(m, y)
<1>1. /\ GlobalDir \in Frames /\ GlobalDir # f
      /\ \A i \in Dirs \ {IdDir} : m.ram[GlobalDir][i] # None =>
            m.ram[GlobalDir][i].frame \in Frames /\ m.ram[GlobalDir][i].frame # f
  BY GlobalTables
<1>2. \A x \in Frames, w \in Words : x # f => y.ram[x][w] = m.ram[x][w]
  BY DEF Refilled
<1> SUFFICES ASSUME NEW i \in Dirs \ {IdDir}, NEW w \in Words, NEW va, va = <<i, w>>
             PROVE  Walk(y, GlobalDir, va) = Walk(m, GlobalDir, va)
  BY DEF WalksKept, UpperVAs
<1>3. va[1] = i /\ va[2] = w /\ i \in Words
  BY RootFrames
<1>4. y.ram[GlobalDir][i] = m.ram[GlobalDir][i]
  BY <1>1, <1>2, <1>3
<1>5. m.ram[GlobalDir][i] # None =>
          y.ram[m.ram[GlobalDir][i].frame][w] = m.ram[m.ram[GlobalDir][i].frame][w]
  BY <1>1, <1>2
<1> QED
  BY <1>3, <1>4, <1>5 DEF Walk

\* What every load finds when it starts to map.
LEMMA FreshTaskSpace ==
    ASSUME NEW m, NEW R, Sane(m, R), ~m.dead, Booked(m),
           NEW s \in Slots, Tracked(m, s) \subseteq {CodeVA(s)},
           NEW y, y = FreshUserSpace(m, s), ~y.dead
    PROVE  /\ Sane(y, R) /\ \A r \in Slots : y.dir[r] = NoPage
           /\ ApartFrom(m, y, s) /\ y.pages[s] = <<>>
           /\ Book(y, s) \/ Half(y, s)
<1> DEFINE d == WithDirectory(m, s)
<1>1. Sane(y, R)
  BY SpaceFresh
<1>2. m.dir[s] = NoPage /\ Book(m, s) /\ \A r \in Slots : m.dir[r] = NoPage
  BY DEF Booked
<1>3. /\ Sane(d, R) /\ d.pages = m.pages
      /\ ~d.dead => (d.dir = m.dir /\ d.ram = m.ram) \/ DirectoryAdded(m, d, s)
  BY <1>2, DirectoryMade
<1>4. y = UnmapUserPages(d, s)
  BY DEF FreshUserSpace
<1> HIDE DEF d
<1>5. Tracked(d, s) = Tracked(m, s) /\ \A r \in Slots : Tracked(d, r) = Tracked(m, r)
  BY <1>3 DEF Tracked
<1>6. \A va \in Tracked(d, s) : va[1] = TaskDir
  BY <1>5 DEF CodeVA
<1>7. CASE d.dead
  BY <1>1, <1>3, <1>4, <1>7, OnlyListCleared
<1>8. CASE ~d.dead /\ d.dir = m.dir /\ d.ram = m.ram
  <2>1. Book(d, s) /\ d.dir[s] = NoPage
    BY <1>2, <1>5, <1>8 DEF Book, Walk
  <2>2. y.dir = d.dir /\ ApartFrom(d, y, s) /\ Book(y, s) /\ y.pages[s] = <<>>
    BY <1>3, <1>4, <2>1, AreaEmptied
  <2>3. ApartFrom(m, d, s)
    BY <1>3, <1>8 DEF ApartFrom, Walk
  <2>4. ApartFrom(m, y, s)
    BY <2>2, <2>3, ApartOn
  <2> QED
    BY <1>1, <1>2, <1>8, <2>2, <2>4
<1>9. CASE ~d.dead /\ DirectoryAdded(m, d, s)
  <2> DEFINE f == d.dir[s]
             b == [d EXCEPT !.pages[s] = <<>>]
  <2>1. /\ f \in Frames /\ f \notin Held(m.mem) /\ Refilled(m.ram, d.ram, f)
        /\ \A r \in Slots \ {s} : d.dir[r] = NoPage
    BY <1>2, <1>9 DEF DirectoryAdded
  <2>2. d.ram[d.dir[s]][TaskDir] = None /\ d.dir[s] # NoPage
    <3>1. TaskDir \in Dirs \ (KernelDirs \cup {IdDir})
      BY DEF TaskDir, Dirs, KernelDirs, IdDir, HeapDir, TestDir
    <3> QED
      BY <2>1, <3>1, RootFrames DEF Refilled
  <2>3. y = [Freed(b, f) EXCEPT !.cr3 = GlobalDir, !.dir[s] = NoPage]
    BY <1>3, <1>4, <1>6, <2>2, OnlyListCleared
  <2>4. d \in Machines
    BY <1>3 DEF Sane, Typed
  <2>5. /\ y.ram = d.ram /\ \A r \in Slots : y.dir[r] = NoPage
        /\ y.pages[s] = <<>> /\ \A r \in Slots \ {s} : y.pages[r] = m.pages[r]
    <3>1. /\ b.ram = d.ram /\ b.dir = d.dir /\ b.pages = [d.pages EXCEPT ![s] = <<>>]
      BY <2>4 DEF Machines
    <3> DEFINE n == AfterFree(b.mem, f)
    <3>2. y = [b EXCEPT !.mem = n, !.cr3 = GlobalDir, !.dir[s] = NoPage]
      BY <2>3 DEF Freed
    <3>3. b \in Machines
      <4> DEFINE ps == [d.pages EXCEPT ![s] = <<>>]
      <4>1. ps \in [Slots -> Seq(UserVAs)] /\ b = [d EXCEPT !.pages = ps]
        BY <2>4 DEF Machines
      <4> HIDE DEF ps, b
      <4> QED
        BY <2>4, <4>1 DEF Machines
    <3> HIDE DEF b, f, n
    <3>4. y.ram = b.ram /\ y.dir = [b.dir EXCEPT ![s] = NoPage] /\ y.pages = b.pages
      BY <3>2, <3>3 DEF Machines
    <3>5. d.dir \in DirOwners /\ d.pages \in [Slots -> Seq(UserVAs)]
      BY <2>4 DEF Machines
    <3> QED
      BY <1>3, <2>1, <3>1, <3>4, <3>5 DEF DirOwners
  <2> HIDE DEF b
  <2>6. WalksKept(m, d)
    <3> HIDE DEF f
    <3> QED
      BY <2>1, DirectoryWalks
  <2>7. \A va \in UpperVAs : Walk(y, GlobalDir, va) = Walk(m, GlobalDir, va)
    BY <2>5, <2>6 DEF WalksKept, Walk
  <2>8. ApartFrom(m, y, s)
    BY <2>5, <2>7 DEF ApartFrom
  <2>9. Tracked(y, s) = {}
    BY <2>5 DEF Tracked, Elems
  <2>10. \A va \in TaskArea(s) : Walk(y, GlobalDir, va) # None <=> va \in Tracked(m, s)
    BY <1>2, <2>7, Areas DEF Book
  <2>11. CASE Tracked(m, s) = {}
    <3>1. Book(y, s)
      BY <2>9, <2>10, <2>11 DEF Book
    <3> QED
      BY <1>1, <2>5, <2>8, <3>1
  <2>12. CASE Tracked(m, s) = {CodeVA(s)}
    <3>1. TrackMax > 0
      BY <1>2, <2>12 DEF Book
    <3>2. Half(y, s)
      BY <2>5, <2>10, <2>12, <3>1, Areas DEF Half
    <3> QED
      BY <1>1, <2>5, <2>8, <3>2
  <2> QED
    BY <2>11, <2>12
<1> QED
  BY <1>3, <1>7, <1>8, <1>9

-----------------------------------------------------------------------------
(* Growing the task area, and mapping a command of a user.                 *)

\* The loop of process_set_user_brk.
LEMMA AreaGrows ==
    ASSUME NEW m, NEW R, Sane(m, R), Booked(m), NEW s \in Slots,
           NEW vas \in Seq(UserVAs), \A n \in 1..Len(vas) : vas[n] \in TaskArea(s),
           NEW y, y = MapUserPages(m, s, vas), ~y.m.dead
    PROVE  /\ \A r \in Slots : y.m.dir[r] = NoPage
           /\ ApartFrom(m, y.m, s) /\ Book(y.m, s)
           /\ Tracked(m, s) \subseteq Tracked(y.m, s)
<1> DEFINE Good(t) == ApartFrom(m, t, s) /\ Book(t, s) /\ Tracked(m, s) \subseteq Tracked(t, s)
           M == {t \in Machines : Sane(t, R) /\ t.dir = m.dir /\ (t.dead \/ Good(t))}
           S == [m : M, ok : BOOLEAN]
           base == [m |-> m, ok |-> TRUE]
<1>1. m.dir[s] = NoPage /\ Book(m, s) /\ \A r \in Slots : m.dir[r] = NoPage
  BY DEF Booked
<1>2. base \in S
  <2>1. m \in Machines /\ Good(m)
    BY <1>1 DEF Sane, Typed, ApartFrom
  <2> QED
    BY <2>1
<1>3. Len(vas) \in Nat
  OBVIOUS
<1>4. ASSUME NEW t \in M, NEW va \in TaskArea(s)
      PROVE  MapUserPage(t, s, va) \in M
  <2> DEFINE u == MapUserPage(t, s, va)
  <2>1. Sane(t, R) /\ t.dir = m.dir /\ (t.dead \/ Good(t)) /\ va \in UserVAs
    BY Areas
  <2>2. u = MapUserPage(t, s, va)
    OBVIOUS
  <2> HIDE DEF u, M, Good
  <2>3. Sane(u, R) /\ u.dir = t.dir
    BY <2>1, <2>2, PageMappedFor
  <2>4. t.dead => u = t
    BY <2>2 DEF MapUserPage
  <2>5. ASSUME ~u.dead PROVE Good(u)
    <3>1. ~t.dead /\ Good(t) /\ t.dir[s] = NoPage
      BY <1>1, <2>1, <2>4, <2>5
    <3>2. MappedOne(t, u, s, va)
      BY <2>1, <2>2, <2>5, <3>1, MapsOne
    <3>3. ApartFrom(t, u, s) /\ Book(u, s)
      BY <3>1, <3>2, OneApart, BookKept DEF Good
    <3>4. Tracked(t, s) \subseteq Tracked(u, s)
      BY <3>2 DEF MappedOne
    <3> QED
      BY <3>1, <3>3, <3>4, ApartOn DEF Good
  <2> QED
    BY <2>1, <2>3, <2>5 DEF M, Sane, Typed, u
<1>5. ASSUME NEW r \in S, NEW va \in TaskArea(s)
      PROVE  MapNext(r, s, va) \in S
  <2> DEFINE t == MapUserPage(r.m, s, va)
             b == va \in Tracked(t, s)
  <2>1. t \in M
    BY <1>4
  <2>2. b \in BOOLEAN
    OBVIOUS
  <2>3. MapNext(r, s, va) = IF r.ok THEN [m |-> t, ok |-> b] ELSE r
    BY Zenon DEF MapNext
  <2> HIDE DEF t, M, b
  <2> QED
    BY <2>1, <2>2, <2>3
<1>6. PICK after : y = after[Len(vas)] /\ MappingTurns(after, m, s, vas)
  BY Mapping
<1>7. \A n \in 0..Len(vas) : after[n] = IF n = 0 THEN base ELSE MapNext(after[n - 1], s, vas[n])
  BY <1>6 DEF MappingTurns
<1> HIDE DEF S, base
<1>8. after[0] \in S
  <2>1. 0 \in 0..Len(vas)
    BY <1>3
  <2> QED
    BY <1>2, <1>7, <2>1
<1>9. \A n \in 1..Len(vas) : after[n - 1] \in S => after[n] \in S
  <2> SUFFICES ASSUME NEW n \in 1..Len(vas), after[n - 1] \in S PROVE after[n] \in S
    OBVIOUS
  <2>1. n \in 0..Len(vas) /\ n # 0 /\ vas[n] \in TaskArea(s)
    BY <1>3
  <2> QED
    BY <1>5, <1>7, <2>1
<1>10. \A n \in 0..Len(vas) : after[n] \in S
  BY <1>3, <1>8, <1>9, StaysIn
<1>11. y \in S
  BY <1>3, <1>6, <1>10
<1> QED
  BY <1>1, <1>11 DEF S

\* A kernel that has faulted maps nothing more.
LEMMA DeadStays ==
    ASSUME NEW m, NEW R, Sane(m, R), m.dead, NEW s \in Slots,
           NEW vas \in Seq(UserVAs), NEW y, y = MapUserPages(m, s, vas)
    PROVE  y.m.dead
<1> DEFINE S == [m : {m}, ok : BOOLEAN]
           base == [m |-> m, ok |-> TRUE]
<1>1. base \in S
  OBVIOUS
<1>2. Len(vas) \in Nat /\ \A n \in 1..Len(vas) : vas[n] \in UserVAs
  OBVIOUS
<1>3. ASSUME NEW r \in S, NEW va \in UserVAs
      PROVE  MapNext(r, s, va) \in S
  <2> DEFINE t == MapUserPage(r.m, s, va)
             b == va \in Tracked(t, s)
  <2>1. t = m
    BY DEF MapUserPage
  <2>2. b \in BOOLEAN
    OBVIOUS
  <2>3. MapNext(r, s, va) = IF r.ok THEN [m |-> t, ok |-> b] ELSE r
    BY Zenon DEF MapNext
  <2> HIDE DEF t, b
  <2> QED
    BY <2>1, <2>2, <2>3
<1>4. PICK after : y = after[Len(vas)] /\ MappingTurns(after, m, s, vas)
  BY Mapping
<1>5. \A n \in 0..Len(vas) : after[n] = IF n = 0 THEN base ELSE MapNext(after[n - 1], s, vas[n])
  BY <1>4 DEF MappingTurns
<1> HIDE DEF S, base
<1>6. after[0] \in S
  <2>1. 0 \in 0..Len(vas)
    BY <1>2
  <2> QED
    BY <1>1, <1>5, <2>1
<1>7. \A n \in 1..Len(vas) : after[n - 1] \in S => after[n] \in S
  <2> SUFFICES ASSUME NEW n \in 1..Len(vas), after[n - 1] \in S PROVE after[n] \in S
    OBVIOUS
  <2>1. n \in 0..Len(vas) /\ n # 0 /\ vas[n] \in UserVAs
    BY <1>2
  <2> QED
    BY <1>3, <1>5, <2>1
<1>8. \A n \in 0..Len(vas) : after[n] \in S
  BY <1>2, <1>6, <1>7, StaysIn
<1>9. y \in S
  BY <1>2, <1>4, <1>8
<1> QED
  BY <1>9 DEF S

\* The code page and the stack page of a program.
LEMMA ProgramMapped ==
    ASSUME NEW m, NEW R, Sane(m, R), NEW s \in Slots, \A r \in Slots : m.dir[r] = NoPage,
           m.pages[s] = <<>>, Book(m, s) \/ Half(m, s),
           NEW vas \in Seq(UserVAs), vas = <<CodeVA(s), StackVA(s)>>,
           NEW y, y = MapUserPages(m, s, vas), ~y.m.dead
    PROVE  /\ ~m.dead /\ \A r \in Slots : y.m.dir[r] = NoPage
           /\ ApartFrom(m, y.m, s) /\ Book(y.m, s)
           /\ y.ok => CodeVA(s) \in Tracked(y.m, s) /\ StackVA(s) \in Tracked(y.m, s)
           /\ ~y.ok => Tracked(y.m, s) \subseteq {CodeVA(s)}
<1> DEFINE c == CodeVA(s)
           d == StackVA(s)
           t == MapUserPage(m, s, c)
           u == MapUserPage(t, s, d)
           ok1 == c \in Tracked(t, s)
           ok2 == d \in Tracked(u, s)
<1>1. c \in TaskArea(s) /\ d \in TaskArea(s) /\ c \in UserVAs /\ d \in UserVAs /\ c # d
  BY Areas
<1>2. Len(vas) = 2 /\ vas[1] = c /\ vas[2] = d
  OBVIOUS
<1>3. PICK g : y = g[2] /\ MappingTurns(g, m, s, vas)
  BY <1>2, Mapping
<1>4. ok1 \in BOOLEAN /\ ok2 \in BOOLEAN /\ (ok1 <=> c \in Tracked(t, s))
      /\ (ok2 <=> d \in Tracked(u, s))
  OBVIOUS
<1>5. \A r, q : /\ MapNext([m |-> q, ok |-> TRUE], s, c) =
                     [m |-> MapUserPage(q, s, c), ok |-> c \in Tracked(MapUserPage(q, s, c), s)]
                /\ MapNext(r, s, d) = IF r.ok THEN [m |-> MapUserPage(r.m, s, d),
                                                   ok |-> d \in Tracked(MapUserPage(r.m, s, d), s)]
                                      ELSE r
  BY DEF MapNext
<1>6. t = MapUserPage(m, s, c) /\ u = MapUserPage(t, s, d) /\ c = CodeVA(s)
  OBVIOUS
<1>7. /\ ok1 => y.m = u /\ (y.ok <=> ok2)
      /\ ~ok1 => y.m = t /\ ~y.ok
  <2> DEFINE base == [m |-> m, ok |-> TRUE]
             mid == [m |-> t, ok |-> ok1]
             end == [m |-> u, ok |-> ok2]
  <2>1. MapNext(base, s, c) = mid
    BY <1>5, Zenon
  <2>2. MapNext(mid, s, d) = IF mid.ok THEN [m |-> MapUserPage(mid.m, s, d),
                                             ok |-> d \in Tracked(MapUserPage(mid.m, s, d), s)]
                             ELSE mid
    BY <1>5, Zenon
  <2> HIDE DEF ok1, ok2, t, u, c, d
  <2>3. mid.m = t /\ mid.ok = ok1 /\ end.m = u /\ end.ok = ok2
    OBVIOUS
  <2>4. MapNext(mid, s, d) = IF ok1 THEN end ELSE mid
    BY <1>6, <2>2, <2>3, Zenon DEF ok2, end
  <2>5. 0 \in 0..Len(vas) /\ 1 \in 0..Len(vas) /\ 2 \in 0..Len(vas) /\ 1 - 1 = 0 /\ 2 - 1 = 1
    BY <1>2
  <2>6. \A n \in 0..Len(vas) : g[n] = IF n = 0 THEN base ELSE MapNext(g[n - 1], s, vas[n])
    BY <1>3 DEF MappingTurns
  <2> HIDE DEF base, mid, end
  <2>7. g[0] = base /\ g[1] = MapNext(g[0], s, vas[1]) /\ g[2] = MapNext(g[1], s, vas[2])
    <3>1. /\ g[0] = IF 0 = 0 THEN base ELSE MapNext(g[0 - 1], s, vas[0])
          /\ g[1] = IF 1 = 0 THEN base ELSE MapNext(g[1 - 1], s, vas[1])
          /\ g[2] = IF 2 = 0 THEN base ELSE MapNext(g[2 - 1], s, vas[2])
      BY <2>5, <2>6, Zenon
    <3> QED
      BY <2>5, <3>1
  <2>8. y = MapNext(mid, s, d)
    BY <1>2, <1>3, <2>1, <2>7
  <2>9. CASE ~ok1
    <3>1. y = mid
      BY <2>4, <2>8, <2>9
    <3> QED
      BY <2>3, <2>9, <3>1
  <2>10. CASE ok1
    <3>1. y = end
      BY <2>4, <2>8, <2>10
    <3> QED
      BY <2>3, <2>10, <3>1
  <2> QED
    BY <2>9, <2>10
<1> HIDE DEF t, u, c, d, ok1, ok2
<1>8. Sane(t, R) /\ t.dir = m.dir
  BY <1>1, <1>6, PageMappedFor
<1>9. Sane(u, R) /\ u.dir = t.dir
  BY <1>1, <1>6, <1>8, PageMappedFor
<1>10. (m.dead => t.dead) /\ (t.dead => u.dead)
  BY <1>6 DEF MapUserPage
<1>11. ~t.dead /\ ~m.dead
  BY <1>7, <1>10
<1>12. MappedOne(m, t, s, c)
  BY <1>1, <1>6, <1>11, MapsOne
<1>13. ApartFrom(m, t, s) /\ Book(t, s)
  BY <1>1, <1>6, <1>12, OneApart, BookKept, BookRestored
<1>14. Tracked(t, s) \subseteq {c}
  BY <1>12 DEF MappedOne, Tracked, Elems
<1>15. CASE ~ok1
  <2>1. y.m = t /\ ~y.ok
    BY <1>7, <1>15
  <2> QED
    BY <1>8, <1>11, <1>13, <1>14, <2>1 DEF c
<1>16. CASE ok1
  <2>1. ~u.dead /\ t.dir[s] = NoPage
    BY <1>7, <1>8, <1>16
  <2>2. MappedOne(t, u, s, d)
    BY <1>1, <1>6, <1>8, <1>11, <2>1, MapsOne
  <2>3. ApartFrom(t, u, s) /\ Book(u, s)
    BY <1>1, <1>13, <2>2, OneApart, BookKept
  <2>4. ApartFrom(m, u, s)
    BY <1>13, <2>3, ApartOn
  <2>5. c \in Tracked(u, s) /\ (~ok2 => Tracked(u, s) \subseteq {c})
    BY <1>4, <1>14, <1>16, <2>2 DEF MappedOne
  <2> QED
    <3>1. y.m = u /\ (y.ok <=> ok2)
      BY <1>7, <1>16
    <3> QED
      BY <1>4, <1>8, <1>9, <1>11, <2>3, <2>4, <2>5, <3>1 DEF c, d
<1> QED
  BY <1>15, <1>16

-----------------------------------------------------------------------------
(* The actions, and what each leaves of the task pages.                    *)

\* No program is linked elsewhere, and unless the kernel has faulted the lists
\* of the slots agree with the page tables: a ready slot has its code and stack,
\* and of the others at most the code page of a failed load is mapped.
TaskInv ==
    /\ \A s \in Slots : code[s] = CodeVA(s)
    /\ ~k.dead =>
        /\ Booked(k)
        /\ \A s \in Slots : ready[s] => CodeVA(s) \in Tracked(k, s) /\ StackVA(s) \in Tracked(k, s)
        /\ \A s \in Slots : ~ready[s] => Tracked(k, s) \subseteq {CodeVA(s)}

\* A step touches one slot, and none that is not current and stays ready.
TaskStep ==
    ~k'.dead => \E s \in Slots :
        /\ TaskApart(k, k', s)
        /\ s = current \/ ~ready[s] \/ ~ready'[s]

\* A step that leaves all but the task pages where they are.
ElsewhereKept ==
    ~k'.dead => \A va \in UpperVAs \ TaskPages : Walk(k', GlobalDir, va) = Walk(k, GlobalDir, va)

\* What such a step of one slot amounts to.
LEMMA SlotStep ==
    ASSUME NEW s \in Slots, ApartFrom(k, k', s), s = current \/ ~ready[s] \/ ~ready'[s]
    PROVE  TaskStep /\ ElsewhereKept
BY Areas, ApartTask DEF ApartFrom, TaskStep, ElsewhereKept

LEMMA InitTask == Init => TaskInv
<1> SUFFICES ASSUME Init PROVE TaskInv
  OBVIOUS
<1>1. /\ \A s \in Slots : k.dir[s] = NoPage /\ k.pages[s] = <<>>
      /\ ~k.dead => \A va \in TaskPages : Walk(k, GlobalDir, va) = None
  <2>1. \A va \in TaskPages : va \in UpperVAs \ {<<HeapDir, 0>>}
    BY Areas DEF TaskPages, TaskDir, HeapDir
  <2> QED
    BY <2>1, BootSane DEF Init
<1>2. \A s \in Slots : Tracked(k, s) = {}
  BY <1>1 DEF Tracked, Elems
<1>3. ~k.dead => Booked(k)
  BY <1>1, <1>2, Areas DEF Booked, Book
<1> QED
  BY <1>2, <1>3 DEF Init, TaskInv

\* A step that leaves the task pages and the lists alone.
LEMMA TaskAside ==
    ASSUME IInv, TaskInv, ~k.dead,
           ~k'.dead => /\ k'.pages = k.pages /\ \A s \in Slots : k'.dir[s] = NoPage
                       /\ \A va \in TaskPages : Walk(k', GlobalDir, va) = Walk(k, GlobalDir, va),
           ready' = ready, code' = code
    PROVE  TaskInv' /\ TaskStep
<1>1. CASE k'.dead
  BY <1>1 DEF TaskInv, TaskStep
<1>2. CASE ~k'.dead
  <2>1. current \in Slots /\ TaskApart(k, k', current)
    BY <1>2 DEF IInv, TaskApart
  <2>2. \A s \in Slots : Tracked(k', s) = Tracked(k, s)
    BY <1>2 DEF Tracked
  <2>3. Book(k', current)
    BY <1>2, <2>1, <2>2, Areas DEF TaskInv, Booked, Book
  <2>4. Booked(k')
    <3> DEFINE y == k'
               s == current
    <3>1. Booked(k) /\ TaskApart(k, y, s) /\ Book(y, s) /\ s \in Slots
          /\ \A r \in Slots : y.dir[r] = NoPage
      BY <1>2, <2>1, <2>3 DEF TaskInv
    <3> HIDE DEF y, s
    <3>2. Booked(y)
      BY <3>1, BookedAgain
    <3> QED
      BY <3>2 DEF y
  <2> QED
    BY <2>1, <2>2, <2>4 DEF TaskInv, TaskStep
<1> QED
  BY <1>1, <1>2

LEMMA PrepareTask ==
    ASSUME IInv, TaskInv, NEW s \in Slots, Prepare(s)
    PROVE  TaskInv' /\ TaskStep /\ ElsewhereKept
<1> DEFINE m == FreshUserSpace(k, s)
           vas == <<CodeVA(s), StackVA(s)>>
           r == MapUserPages(m, s, vas)
           R == reserved
           y == r.m
<1>1. Sane(k, R) /\ ~k.dead /\ ~ready[s] /\ Booked(k) /\ Tracked(k, s) \subseteq {CodeVA(s)}
  BY DEF IInv, TaskInv, Prepare, Given
<1>2. k' = y /\ ready' = [ready EXCEPT ![s] = r.ok] /\ code' = code
  BY DEF Prepare, TaskInv
<1>3. vas \in Seq(UserVAs)
  BY Areas, Pairs
<1>4. m = FreshUserSpace(k, s) /\ vas = <<CodeVA(s), StackVA(s)>> /\ r = MapUserPages(m, s, vas)
  OBVIOUS
<1>5. CASE k'.dead
  BY <1>2, <1>5 DEF TaskInv, TaskStep, ElsewhereKept
<1>6. CASE ~k'.dead
  <2> HIDE DEF m, vas, r, R, y
  <2>1. Sane(m, R)
    BY <1>1, <1>4, SpaceFresh
  <2>2. ~m.dead
    <3>1. m.dead => y.dead
      <4>1. CodeVA(s) \in UserVAs /\ StackVA(s) \in UserVAs
        BY Areas
      <4> QED
        BY <1>3, <1>4, <2>1, DeadStays DEF y
    <3> QED
      BY <1>2, <1>6, <3>1
  <2>3. /\ \A q \in Slots : m.dir[q] = NoPage
        /\ ApartFrom(k, m, s) /\ m.pages[s] = <<>>
        /\ Book(m, s) \/ Half(m, s)
    BY <1>1, <1>4, <2>2, FreshTaskSpace
  <2>4. /\ \A q \in Slots : y.dir[q] = NoPage
        /\ ApartFrom(m, y, s) /\ Book(y, s)
        /\ r.ok => CodeVA(s) \in Tracked(y, s) /\ StackVA(s) \in Tracked(y, s)
        /\ ~r.ok => Tracked(y, s) \subseteq {CodeVA(s)}
    <3>1. ~r.m.dead
      BY <1>2, <1>6 DEF y
    <3>2. /\ \A q \in Slots : r.m.dir[q] = NoPage
          /\ ApartFrom(m, r.m, s) /\ Book(r.m, s)
          /\ r.ok => CodeVA(s) \in Tracked(r.m, s) /\ StackVA(s) \in Tracked(r.m, s)
          /\ ~r.ok => Tracked(r.m, s) \subseteq {CodeVA(s)}
      BY <1>3, <1>4, <2>1, <2>3, <3>1, ProgramMapped
    <3> QED
      BY <3>2 DEF y
  <2>5. ApartFrom(k, y, s)
    BY <2>3, <2>4, ApartOn
  <2>6. Booked(y)
    BY <1>1, <2>4, <2>5, ApartTask, BookedAgain
  <2>7. \A q \in Slots \ {s} : Tracked(y, q) = Tracked(k, q) /\ ready'[q] = ready[q]
    BY <1>2, <2>5 DEF ApartFrom, Tracked, IInv
  <2>8. ready'[s] = r.ok
    BY <1>2 DEF IInv
  <2> QED
    <3>1. TaskInv'
      BY <1>1, <1>2, <2>4, <2>6, <2>7, <2>8 DEF TaskInv
    <3> QED
      BY <1>1, <1>2, <2>5, <3>1, SlotStep
<1> QED
  BY <1>5, <1>6

LEMMA BrkTask ==
    ASSUME IInv, TaskInv, NEW pages \in 0..2, Brk(pages)
    PROVE  TaskInv' /\ TaskStep /\ ElsewhereKept
<1> DEFINE s == current
           new == IF pages <= brk[s] THEN <<>>
                  ELSE [i \in 1..(pages - brk[s]) |-> HeapVA(s, brk[s] + i)]
           r == MapUserPages(k, s, new)
           R == reserved
           y == r.m
<1>1. s \in Slots /\ brk[s] \in 0..2 /\ Sane(k, R) /\ Booked(k) /\ ready[s]
  BY DEF IInv, TaskInv, Brk, Given
<1>2. new \in Seq(UserVAs) /\ \A n \in 1..Len(new) : new[n] \in TaskArea(s)
  <2>1. CASE pages <= brk[s]
    BY <2>1
  <2>2. CASE ~(pages <= brk[s])
    <3>1. pages - brk[s] \in Nat /\ \A i \in 1..(pages - brk[s]) : brk[s] + i \in 1..2
      BY <1>1, <2>2
    <3>2. \A i \in 1..(pages - brk[s]) : /\ HeapVA(s, brk[s] + i) \in UserVAs
                                         /\ HeapVA(s, brk[s] + i) \in TaskArea(s)
      BY <1>1, <3>1, Areas
    <3> HIDE DEF s
    <3> QED
      BY <2>2, <3>1, <3>2
  <2> QED
    BY <2>1, <2>2
<1>3. k' = y /\ ready' = ready /\ code' = code
  BY DEF Brk
<1>4. r = MapUserPages(k, s, new)
  OBVIOUS
<1> HIDE DEF new, s, r, R, y
<1>5. CASE k'.dead
  BY <1>3, <1>5 DEF TaskInv, TaskStep, ElsewhereKept
<1>6. CASE ~k'.dead
  <2>1. ~r.m.dead
    BY <1>3, <1>6 DEF y
  <2>2. /\ \A q \in Slots : r.m.dir[q] = NoPage
        /\ ApartFrom(k, r.m, s) /\ Book(r.m, s)
        /\ Tracked(k, s) \subseteq Tracked(r.m, s)
    BY <1>1, <1>2, <1>4, <2>1, AreaGrows
  <2>3. /\ \A q \in Slots : y.dir[q] = NoPage
        /\ ApartFrom(k, y, s) /\ Book(y, s)
        /\ Tracked(k, s) \subseteq Tracked(y, s)
    BY <2>2 DEF y
  <2>4. Booked(y)
    BY <1>1, <2>3, ApartTask, BookedAgain
  <2>5. \A q \in Slots \ {s} : Tracked(y, q) = Tracked(k, q)
    BY <2>3 DEF ApartFrom, Tracked
  <2>6. ~k.dead
    BY DEF Brk, Given
  <2> QED
    <3>1. TaskInv'
      BY <1>1, <1>3, <2>3, <2>4, <2>5, <2>6 DEF TaskInv
    <3> QED
      BY <1>1, <1>3, <2>3, <3>1, SlotStep DEF s
<1> QED
  BY <1>5, <1>6

\* Loading CR3 changes no directory, table or list.
LEMMA SwitchSame ==
    ASSUME NEW m, m \in Machines, NEW s \in Slots, NEW y, y = SwitchedTo(m, s), ~y.dead
    PROVE  ~m.dead /\ y.ram = m.ram /\ y.dir = m.dir /\ y.pages = m.pages
<1> DEFINE d == HomeDir(m, s)
           b == m.dead \/ d # GlobalDir
<1>1. y = [m EXCEPT !.cr3 = d, !.dead = b]
  BY DEF SwitchedTo
<1>2. b \in BOOLEAN /\ (~b => ~m.dead)
  OBVIOUS
<1> HIDE DEF d, b
<1>3. y.ram = m.ram /\ y.dir = m.dir /\ y.pages = m.pages /\ y.dead = b
  BY <1>1 DEF Machines
<1> QED
  BY <1>2, <1>3

LEMMA SwitchTask ==
    ASSUME IInv, TaskInv, NEW s \in Slots, SwitchTo(s)
    PROVE  TaskInv' /\ TaskStep /\ ElsewhereKept
<1> DEFINE y == k'
           m == k
<1>1. y = SwitchedTo(m, s) /\ m \in Machines /\ ~k.dead
  BY DEF SwitchTo, IInv, Sane, Typed, Given
<1> HIDE DEF y, m
<1>2. ~y.dead => y.ram = m.ram /\ y.dir = m.dir /\ y.pages = m.pages
  BY <1>1, SwitchSame
<1>3. ~k'.dead => k'.ram = k.ram /\ k'.dir = k.dir /\ k'.pages = k.pages
  BY <1>2 DEF y, m
<1>4. /\ ~k'.dead => /\ k'.pages = k.pages /\ \A q \in Slots : k'.dir[q] = NoPage
                     /\ \A va \in TaskPages : Walk(k', GlobalDir, va) = Walk(k, GlobalDir, va)
      /\ ready' = ready /\ code' = code
  BY <1>1, <1>3 DEF TaskInv, Booked, Walk, SwitchTo
<1>5. ElsewhereKept
  BY <1>3 DEF ElsewhereKept, Walk
<1> QED
  BY <1>1, <1>4, <1>5, TaskAside

LEMMA EndTask ==
    ASSUME IInv, TaskInv, NEW s \in Slots, NEW next \in Slots, EndProcess(s, next)
    PROVE  TaskInv' /\ TaskStep /\ ElsewhereKept
<1> DEFINE gone == UnmapUserPages(k, s)
           sw == SwitchedTo(gone, next)
           R == reserved
           y == k'
<1>1. Sane(k, R) /\ ~k.dead /\ Booked(k) /\ Book(k, s) /\ k.dir[s] = NoPage
      /\ \A q \in Slots : k.dir[q] = NoPage
  BY DEF IInv, TaskInv, EndProcess, Given, Booked
<1>2. y = sw \/ y = gone
  BY DEF EndProcess
<1>3. ready' = [ready EXCEPT ![s] = FALSE] /\ code' = code
  BY DEF EndProcess
<1>4. gone = UnmapUserPages(k, s) /\ sw = SwitchedTo(gone, next)
  OBVIOUS
<1>5. CASE k'.dead
  BY <1>3, <1>5 DEF TaskInv, TaskStep, ElsewhereKept
<1>6. CASE ~k'.dead
  <2>1. ~y.dead
    BY <1>6
  <2> HIDE DEF gone, sw, R, y
  <2>2. Sane(gone, R)
    BY <1>1, <1>4, UserPagesUnmapped
  <2>3. gone \in Machines
    BY <2>2 DEF Sane, Typed
  <2>4. ~gone.dead /\ y.ram = gone.ram /\ y.dir = gone.dir /\ y.pages = gone.pages
    <3>1. CASE y = gone
      BY <2>1, <3>1
    <3>2. CASE y = sw
      BY <1>4, <2>1, <2>3, <3>2, SwitchSame
    <3> QED
      BY <1>2, <3>1, <3>2
  <2>5. gone.dir = k.dir /\ ApartFrom(k, gone, s) /\ Book(gone, s) /\ gone.pages[s] = <<>>
    BY <1>1, <1>4, <2>4, AreaEmptied
  <2>6. ApartFrom(k, y, s) /\ Book(y, s) /\ y.pages[s] = <<>> /\ \A q \in Slots : y.dir[q] = NoPage
    BY <1>1, <2>4, <2>5 DEF ApartFrom, Book, Walk, Tracked
  <2>7. Booked(y)
    BY <1>1, <2>6, ApartTask, BookedAgain
  <2>8. Tracked(y, s) = {} /\ \A q \in Slots \ {s} : Tracked(y, q) = Tracked(k, q)
    BY <2>6 DEF ApartFrom, Tracked, Elems
  <2>9. ready'[s] = FALSE /\ \A q \in Slots \ {s} : ready'[q] = ready[q]
    BY <1>3 DEF IInv
  <2> QED
    <3>1. TaskInv'
      BY <1>1, <1>3, <2>6, <2>7, <2>8, <2>9 DEF TaskInv, y
    <3> QED
      BY <2>6, <2>9, <3>1, SlotStep DEF y
<1> QED
  BY <1>5, <1>6

LEMMA NewPageTask ==
    ASSUME IInv, TaskInv, GrowHeap \/ MapTest \/ MapUserTest
    PROVE  TaskInv' /\ TaskStep
<1>1. /\ Sane(k, reserved) /\ ~k.dead /\ {heapPages, nextTest, nextUser} \subseteq 0..AreaMax
      /\ AreaMax \in Nat /\ AreaMax <= LastWord /\ LastWord \in Nat
  <2>1. AreaMax \in Words /\ LastWord \in Nat
    BY SpaceAssumption
  <2>2. AreaMax \in Nat /\ AreaMax <= LastWord
    BY <2>1 DEF Words
  <2>3. ~k.dead
    BY DEF GrowHeap, MapTest, MapUserTest, Given
  <2> QED
    BY <2>1, <2>2, <2>3 DEF IInv
<1>2. ASSUME NEW d \in Dirs \ {IdDir, TaskDir}, NEW n \in 0..AreaMax, NEW v \in BOOLEAN,
             NEW o \in HeldOwners, k' = MapNewPage(k, <<d, n>>, v, o), ~k'.dead
      PROVE  /\ k'.pages = k.pages /\ k'.dir = k.dir
             /\ \A va \in TaskPages : Walk(k', GlobalDir, va) = Walk(k, GlobalDir, va)
  <2> DEFINE vb == <<d, n>>
             y == k'
             m == k
             R == reserved
  <2>1. vb \in UpperVAs /\ vb \notin TaskPages
    BY <1>1 DEF UpperVAs, Words, TaskPages
  <2>2. Sane(m, R) /\ ~m.dead /\ y = MapNewPage(m, vb, v, o) /\ ~y.dead
    BY <1>1, <1>2
  <2> HIDE DEF vb, y, m, R
  <2>3. y.dir = m.dir /\ y.pages = m.pages /\ OtherWalksKept(m, y, vb)
    BY <2>1, <2>2, NewPage
  <2>4. \A va \in TaskPages : Walk(y, GlobalDir, va) = Walk(m, GlobalDir, va)
    BY <2>1, <2>3, Areas DEF OtherWalksKept
  <2> QED
    BY <2>3, <2>4 DEF y, m
<1>3. /\ HeapDir \in Dirs \ {IdDir, TaskDir} /\ TestDir \in Dirs \ {IdDir, TaskDir}
      /\ ImageDir \in Dirs \ {IdDir, TaskDir}
      /\ {"KERNEL_HEAP", "PAGING_TEST", "USER_MISC"} \subseteq HeldOwners
  BY DEF Dirs, IdDir, TaskDir, HeapDir, TestDir, ImageDir, HeldOwners, LeafOwners
<1>4. ASSUME ~k'.dead
      PROVE  /\ k'.pages = k.pages /\ k'.dir = k.dir
             /\ \A va \in TaskPages : Walk(k', GlobalDir, va) = Walk(k, GlobalDir, va)
  <2>1. CASE GrowHeap
    BY <1>1, <1>2, <1>3, <1>4, <2>1 DEF GrowHeap
  <2>2. CASE MapTest
    BY <1>1, <1>2, <1>3, <1>4, <2>2 DEF MapTest
  <2>3. CASE MapUserTest
    BY <1>1, <1>2, <1>3, <1>4, <2>3 DEF MapUserTest
  <2> QED
    BY <2>1, <2>2, <2>3
<1>5. ready' = ready /\ code' = code
  BY DEF GrowHeap, MapTest, MapUserTest
<1>6. ~k'.dead => /\ k'.pages = k.pages /\ \A q \in Slots : k'.dir[q] = NoPage
                  /\ \A va \in TaskPages : Walk(k', GlobalDir, va) = Walk(k, GlobalDir, va)
  BY <1>1, <1>4 DEF TaskInv, Booked
<1> QED
  BY <1>1, <1>5, <1>6, TaskAside

LEMMA AllocCommandTask ==
    ASSUME IInv, TaskInv, AllocPageCommand
    PROVE  TaskInv' /\ TaskStep
<1>1. /\ ~k.dead /\ k' = [k EXCEPT !.mem = AfterAlloc(k.mem)]
      /\ ready' = ready /\ code' = code
  BY DEF AllocPageCommand, Given, Drawn
<1>2. k'.ram = k.ram /\ k'.dir = k.dir /\ k'.pages = k.pages
  BY <1>1
<1>3. ~k'.dead => /\ k'.pages = k.pages /\ \A q \in Slots : k'.dir[q] = NoPage
                  /\ \A va \in TaskPages : Walk(k', GlobalDir, va) = Walk(k, GlobalDir, va)
  BY <1>1, <1>2 DEF TaskInv, Booked, Walk
<1> QED
  BY <1>1, <1>3, TaskAside

LEMMA TrimTask ==
    ASSUME IInv, TaskInv, TrimIdentity
    PROVE  TaskInv' /\ TaskStep
<1> DEFINE y == k'
           m == k
           e == None
           i == IdDir
           R == reserved
<1>1. /\ Sane(m, R) /\ ~k.dead /\ m \in Machines /\ ready' = ready /\ code' = code
  BY DEF IInv, TrimIdentity, Given, Sane, Typed
<1>2. y = PutLoaded(m, GlobalDir, i, e) /\ i \in Words /\ e \in Entries
  BY RootFrames, EntryTypes DEF TrimIdentity, PutLoaded, Dirs, IdDir
<1>3. ~m.dead
  BY <1>1
<1> HIDE DEF y, m, e, i, R
<1>4. GlobalDir \in Frames
  BY RootFrames
<1>5. /\ y.dir = m.dir /\ y.pages = m.pages /\ Rewritten(m.ram, y.ram, GlobalDir, i, e)
  BY <1>1, <1>2, <1>4, Stored
<1>6. \A va \in TaskPages : Walk(y, GlobalDir, va) = Walk(m, GlobalDir, va)
  <2> SUFFICES ASSUME NEW va \in TaskPages
               PROVE  Walk(y, GlobalDir, va) = Walk(m, GlobalDir, va)
    OBVIOUS
  <2>1. va[1] = TaskDir /\ va[2] \in Words /\ TaskDir \in Dirs \ {IdDir} /\ TaskDir \in Words
        /\ TaskDir # i
    BY RootFrames DEF TaskPages, TaskDir, Dirs, IdDir, i
  <2>2. m.ram[GlobalDir][TaskDir] # None =>
            /\ m.ram[GlobalDir][TaskDir].frame \in Frames
            /\ m.ram[GlobalDir][TaskDir].frame # GlobalDir
    BY <1>1, <1>3, <2>1, GlobalTables
  <2>3. \A x \in Frames, w \in Words :
            y.ram[x][w] = IF x = GlobalDir /\ w = i THEN e ELSE m.ram[x][w]
    BY <1>5 DEF Rewritten
  <2>4. y.ram[GlobalDir][TaskDir] = m.ram[GlobalDir][TaskDir]
    BY <1>4, <2>1, <2>3
  <2>5. m.ram[GlobalDir][TaskDir] # None =>
            y.ram[m.ram[GlobalDir][TaskDir].frame][va[2]] = m.ram[m.ram[GlobalDir][TaskDir].frame][va[2]]
    BY <2>1, <2>2, <2>3
  <2> QED
    BY <2>1, <2>4, <2>5 DEF Walk
<1>7. ~k'.dead => /\ k'.pages = k.pages /\ \A q \in Slots : k'.dir[q] = NoPage
                  /\ \A va \in TaskPages : Walk(k', GlobalDir, va) = Walk(k, GlobalDir, va)
  BY <1>1, <1>5, <1>6 DEF y, m, TaskInv, Booked
<1> QED
  BY <1>1, <1>7, TaskAside

LEMMA NextTask ==
    ASSUME NoLoaders, IInv, TaskInv, Next
    PROVE  TaskInv' /\ TaskStep
<1>1. ~LoadFlat /\ ~LoadBadMbapp /\ ~ \E image \in Images, fit \in BOOLEAN : LoadImage(image, fit)
  BY DEF NoLoaders, LoadFlat, LoadBadMbapp, LoadImage, Given
<1>2. CASE \E s \in Slots : Prepare(s) \/ SwitchTo(s)
  BY <1>2, PrepareTask, SwitchTask
<1>3. CASE \E s, next \in Slots : EndProcess(s, next)
  BY <1>3, EndTask
<1>4. CASE \E pages \in 0..2 : Brk(pages)
  BY <1>4, BrkTask
<1>5. CASE GrowHeap \/ MapTest \/ MapUserTest
  BY <1>5, NewPageTask
<1>6. CASE AllocPageCommand
  BY <1>6, AllocCommandTask
<1>7. CASE TrimIdentity
  BY <1>7, TrimTask
<1> QED
  BY <1>1, <1>2, <1>3, <1>4, <1>5, <1>6, <1>7 DEF Next

-----------------------------------------------------------------------------
(* The theorems on the task pages.                                         *)

LEMMA NextInvBare ==
    ASSUME NoLoaders, IInv, [Next]_vars
    PROVE  IInv'
<1>1. CASE UNCHANGED vars
  BY <1>1 DEF vars, IInv
<1>2. ~LoadFlat /\ ~LoadBadMbapp /\ ~ \E image \in Images, fit \in BOOLEAN : LoadImage(image, fit)
  BY DEF NoLoaders, LoadFlat, LoadBadMbapp, LoadImage, Given
<1>3. CASE Next
  <2>1. CASE \E s \in Slots : Prepare(s) \/ SwitchTo(s)
    BY <2>1, PrepareStep, SwitchStep
  <2>2. CASE \E s, next \in Slots : EndProcess(s, next)
    BY <2>2, EndStep
  <2>3. CASE \E pages \in 0..2 : Brk(pages)
    BY <2>3, BrkStep
  <2>4. CASE GrowHeap \/ MapTest \/ MapUserTest
    BY <2>4, NewPageStep
  <2>5. CASE AllocPageCommand
    BY <2>5, AllocCommandStep
  <2>6. CASE TrimIdentity
    BY <2>6, TrimStep
  <2> QED
    BY <1>2, <1>3, <2>1, <2>2, <2>3, <2>4, <2>5, <2>6 DEF Next
<1> QED
  BY <1>1, <1>3

LEMMA TaskInvHolds ==
    ASSUME NoLoaders
    PROVE  Spec => [](IInv /\ TaskInv)
<1>1. IInv /\ TaskInv /\ [Next]_vars => (IInv /\ TaskInv)'
  <2> SUFFICES ASSUME IInv, TaskInv, [Next]_vars PROVE IInv' /\ TaskInv'
    OBVIOUS
  <2>1. IInv'
    BY NextInvBare
  <2>2. CASE Next
    BY <2>1, <2>2, NextTask
  <2>3. CASE UNCHANGED vars
    <3>1. k' = k /\ ready' = ready /\ code' = code
      BY <2>3 DEF vars
    <3> QED
      BY <2>1, <3>1 DEF TaskInv
  <2> QED
    BY <2>2, <2>3
<1>2. Init => IInv /\ TaskInv
  BY InitInv, InitTask
<1> QED
  BY <1>1, <1>2, PTL DEF Spec

LEMMA HomeGlobal ==
    ASSUME NEW m, Booked(m), NEW s \in Slots
    PROVE  HomeDir(m, s) = GlobalDir
BY DEF Booked, HomeDir

\* Without the program loaders, which break it, a page of the task area is
\* mapped only while exactly one slot's list has it, whatever fails on the way:
\* the end of a process unmaps all it has, and process_map_user_page and
\* process_unmap_user_pages leave no page behind.
THEOREM TaskPagesStayTracked ==
    ASSUME NoLoaders
    PROVE  Spec => []TaskPagesTracked
<1>1. IInv /\ TaskInv => TaskPagesTracked
  <2> SUFFICES ASSUME IInv, TaskInv, ~k.dead, NEW w \in Words
               PROVE  Cardinality({s \in Slots : <<TaskDir, w>> \in Tracked(k, s)})
                          = IF \E s \in Slots : Walk(k, HomeDir(k, s), <<TaskDir, w>>) # None
                            THEN 1 ELSE 0
    BY DEF TaskPagesTracked
  <2> DEFINE va == <<TaskDir, w>>
             T == {s \in Slots : va \in Tracked(k, s)}
  <2>1. Booked(k) /\ va \in TaskPages /\ 1 \in Slots
    BY SpaceAssumption DEF TaskInv, TaskPages
  <2> HIDE DEF va
  <2>2. (\E s \in Slots : Walk(k, HomeDir(k, s), va) # None) <=> Walk(k, GlobalDir, va) # None
    BY <2>1, HomeGlobal
  <2>3. CASE Walk(k, GlobalDir, va) = None
    <3>1. T = {}
      BY <2>1, <2>3 DEF Booked, Book
    <3> QED
      BY <2>2, <2>3, <3>1, FS_EmptySet DEF va
  <2>4. CASE Walk(k, GlobalDir, va) # None
    <3>1. PICK s \in Slots : va \in TaskArea(s)
      BY <2>1, <2>4 DEF Booked
    <3>2. va \in Tracked(k, s)
      BY <2>1, <2>4, <3>1 DEF Booked, Book
    <3>3. \A r \in Slots : va \in Tracked(k, r) => r = s
      BY <2>1, <3>1, Areas DEF Booked, Book
    <3>4. T = {s}
      BY <3>2, <3>3
    <3> QED
      BY <2>2, <2>4, <3>4, FS_Singleton DEF va
  <2> QED
    BY <2>3, <2>4
<1> QED
  BY <1>1, TaskInvHolds, PTL

\* A slot that user_test_prepare declared ready, and that userrun and the
\* scheduler accept, has its code page and its stack page mapped until it ends,
\* whatever other commands come in between.
THEOREM ReadyStayMapped ==
    ASSUME NoLoaders
    PROVE  Spec => []ReadyMapped
<1>1. IInv /\ TaskInv => ReadyMapped
  <2> SUFFICES ASSUME IInv, TaskInv, ~k.dead, NEW s \in Slots, ready[s]
               PROVE  /\ Walk(k, HomeDir(k, s), code[s]) # None
                      /\ Walk(k, HomeDir(k, s), StackVA(s)) # None
    BY DEF ReadyMapped
  <2>1. Booked(k) /\ code[s] = CodeVA(s) /\ HomeDir(k, s) = GlobalDir
    BY HomeGlobal DEF TaskInv
  <2>2. {CodeVA(s), StackVA(s)} \subseteq TaskArea(s) \cap Tracked(k, s)
    BY Areas DEF TaskInv
  <2> QED
    BY <2>1, <2>2 DEF Booked, Book
<1> QED
  BY <1>1, TaskInvHolds, PTL

\* Preparing, ending or growing one process never maps, unmaps, moves or forgets
\* a page of another one that is loaded and stays loaded: what
\* process_map_user_page and process_unmap_user_pages do in the one shared
\* directory keeps to the slot they are called for.
THEOREM OthersStayUndisturbed ==
    ASSUME NoLoaders
    PROVE  Spec => OthersUndisturbed
<1> DEFINE Kept == \A s \in Slots :
                      s # current /\ ready[s] /\ ready'[s] /\ ~k'.dead
                          => FramesOf(k', s) = FramesOf(k, s)
<1>1. (IInv /\ TaskInv) /\ (IInv /\ TaskInv)' /\ [Next]_vars => [Kept]_vars
  <2> SUFFICES ASSUME IInv, TaskInv, TaskInv', Next,
                      NEW s \in Slots, s # current, ready[s], ready'[s], ~k'.dead
               PROVE  FramesOf(k', s) = FramesOf(k, s)
    BY DEF vars
  <2>1. ~k.dead
    BY DEF Next, Prepare, SwitchTo, EndProcess, LoadFlat, LoadBadMbapp, LoadImage, Brk,
           GrowHeap, MapTest, MapUserTest, AllocPageCommand, TrimIdentity, Given
  <2>2. Booked(k) /\ Booked(k')
    BY <2>1 DEF TaskInv
  <2>3. PICK r \in Slots : TaskApart(k, k', r) /\ (r = current \/ ~ready[r] \/ ~ready'[r])
    BY NextTask DEF TaskStep
  <2>4. r # s
    BY <2>3
  <2> DEFINE y == k'
  <2>5. Booked(y) /\ TaskApart(k, y, r)
    BY <2>2, <2>3
  <2> HIDE DEF y
  <2>6. Tracked(y, s) = Tracked(k, s)
    BY <2>4, <2>5 DEF TaskApart, Tracked
  <2>7. HomeDir(y, s) = GlobalDir /\ HomeDir(k, s) = GlobalDir
    BY <2>2, <2>5, HomeGlobal
  <2>8. \A va \in Tracked(k, s) : Walk(y, GlobalDir, va) = Walk(k, GlobalDir, va)
    <3>1. Tracked(k, s) \subseteq TaskArea(s)
      BY <2>2 DEF Booked, Book
    <3>2. TaskArea(s) \subseteq TaskPages \ TaskArea(r)
      BY <2>4, Areas
    <3> QED
      BY <2>5, <3>1, <3>2 DEF TaskApart
  <2>9. FramesOf(y, s) = FramesOf(k, s)
    BY <2>6, <2>7, <2>8 DEF FramesOf
  <2> QED
    BY <2>9 DEF y
<1> QED
  BY <1>1, TaskInvHolds, PTL DEF Spec, OthersUndisturbed

-----------------------------------------------------------------------------
(* Frames that nobody answers for.                                         *)

\* Held frames outside K that are no paging structures.
Strays(a, K) == {f \in Held(a) \ K : a.owner[f] # "PAGING_STRUCTURE"}

\* The frames outside K are accounted for: no more of them strayed than
\* free_page has counted as dropped.
Answered(a, K) ==
    /\ AllocatorSound(a)
    /\ \A f \in Held(a) : a.owner[f] # "UNTRACKED"
    /\ Cardinality(Strays(a, K)) <= a.drops

LEMMA StraysFinite ==
    ASSUME NEW a, AllocatorSound(a), NEW K
    PROVE  /\ IsFiniteSet(Strays(a, K)) /\ Cardinality(Strays(a, K)) \in Nat
           /\ Held(a) \subseteq Frames /\ a.drops \in Nat /\ a \in AllocatorStates
<1>1. a \in AllocatorStates
  BY DEF AllocatorSound
<1>2. IsFiniteSet(Held(a)) /\ Held(a) \subseteq Frames /\ Strays(a, K) \subseteq Held(a)
  BY <1>1, SetsOfFrames DEF Strays
<1>3. IsFiniteSet(Strays(a, K))
  BY <1>2, FS_Subset
<1> QED
  BY <1>1, <1>2, <1>3, FS_CardinalityType DEF AllocatorStates

LEMMA FewerStrays ==
    ASSUME NEW a, NEW K, Answered(a, K),
           NEW b, NEW L, AllocatorSound(b), \A f \in Held(b) : b.owner[f] # "UNTRACKED",
           b.drops = a.drops, Strays(b, L) \subseteq Strays(a, K)
    PROVE  Answered(b, L)
<1>1. IsFiniteSet(Strays(a, K)) /\ Cardinality(Strays(a, K)) \in Nat /\ a.drops \in Nat
  BY StraysFinite DEF Answered
<1>2. Cardinality(Strays(b, L)) \in Nat
  BY StraysFinite
<1>3. Cardinality(Strays(b, L)) <= Cardinality(Strays(a, K))
  BY <1>1, FS_Subset
<1> QED
  BY <1>1, <1>2, <1>3 DEF Answered

LEMMA AnsweredMore ==
    ASSUME NEW a, NEW K, Answered(a, K), NEW L,
           \A f \in K : f \in Held(a) /\ a.owner[f] # "PAGING_STRUCTURE" => f \in L
    PROVE  Answered(a, L)
<1>1. Strays(a, L) \subseteq Strays(a, K)
  BY DEF Strays
<1> QED
  BY <1>1, FewerStrays DEF Answered

LEMMA AnsweredDraw ==
    ASSUME Ample, NEW a, NEW K, Answered(a, K),
           NEW f, f = AllocPage(a), f # NoPage,
           NEW b, b = AfterAlloc(a)
    PROVE  Answered(b, K \cup {f}) /\ f \in Held(b) /\ f \in Frames
<1> DEFINE t == Taken(a)
           o == "ALLOCATOR"
<1>1. AllocatorSound(a) /\ a \in AllocatorStates /\ Held(a) \subseteq Frames
  BY StraysFinite DEF Answered
<1>2. /\ AllocatorSound(b) /\ b \in AllocatorStates /\ f \in Frames
      /\ Held(b) = Held(a) \cup {f} /\ \A q \in Frames \ {f} : b.owner[q] = a.owner[q]
  BY <1>1, AllocFacts
<1>3. b = SetOwner(t, f, o)
  BY DEF AfterAlloc
<1>4. t \in AllocatorStates /\ t.drops = a.drops /\ TrackedFrames(t) = TrackedFrames(a)
  <2>1. CASE a.pool # <<>>
    <3> DEFINE p == SubSeq(a.pool, 1, Len(a.pool) - 1)
               u == a.used + 1
    <3>1. t = WithPool(a, p, u)
      BY <2>1 DEF Taken
    <3>2. p \in Seq(Frames) /\ u \in Nat
      BY <1>1, <2>1 DEF AllocatorStates
    <3> HIDE DEF t, p, u
    <3>3. t \in AllocatorStates /\ t.owner = a.owner /\ t.drops = a.drops
      BY <1>1, <3>1, <3>2, PoolUpdate
    <3> QED
      BY <3>3 DEF TrackedFrames
  <2>2. CASE a.pool = <<>>
    <3> DEFINE n2 == a.next + 1
               u == a.used + 1
    <3>1. t = WithNext(a, n2, u)
      BY <2>2 DEF Taken
    <3>2. n2 \in 1..(Len(Layout) + 1) /\ u \in Nat
      <4>1. a.next <= Len(Layout)
        BY <2>2 DEF AllocPage
      <4> QED
        BY <1>1, <4>1, LayoutAssumption DEF AllocatorStates
    <3> HIDE DEF t, n2, u
    <3>3. t \in AllocatorStates /\ t.owner = a.owner /\ t.drops = a.drops
      BY <1>1, <3>1, <3>2, NextUpdate
    <3> QED
      BY <3>3 DEF TrackedFrames
  <2> QED
    BY <2>1, <2>2
<1>5. Cardinality(TrackedFrames(t)) <= OwnerTrackMax /\ o \in OwnerEntries \ {"UNTRACKED"}
  BY <1>1, <1>4 DEF AllocatorSound, WithinCapacity, OwnerEntries, HeldOwners, LeafOwners
<1>6. b.drops = a.drops /\ b.owner[f] # "UNTRACKED"
  <2>1. Trackable(t, f)
    BY <1>2, <1>4, Room
  <2> HIDE DEF t, o
  <2>2. b.drops = t.drops /\ b.owner[f] = o
    BY <1>2, <1>3, <1>4, <1>5, <2>1, SetOwnerEffect
  <2> QED
    BY <1>4, <2>2 DEF o
<1> HIDE DEF t, o
<1>7. \A q \in Held(b) : b.owner[q] # "UNTRACKED"
  BY <1>1, <1>2, <1>6 DEF Answered
<1>8. Strays(b, K \cup {f}) \subseteq Strays(a, K)
  BY <1>1, <1>2 DEF Strays
<1> QED
  BY <1>2, <1>6, <1>7, <1>8, FewerStrays

LEMMA AnsweredLabel ==
    ASSUME NEW a, NEW K, Answered(a, K), NEW f \in Held(a), NEW o \in HeldOwners,
           f \in K \/ o = "PAGING_STRUCTURE",
           NEW b, b = SetOwner(a, f, o)
    PROVE  /\ Answered(b, K) /\ Held(b) = Held(a)
           /\ Ample => b.owner[f] = o
<1>1. AllocatorSound(a) /\ a \in AllocatorStates /\ Held(a) \subseteq Frames
      /\ Cardinality(TrackedFrames(a)) <= OwnerTrackMax
  BY StraysFinite DEF Answered, AllocatorSound, WithinCapacity
<1>2. AllocatorSound(b) /\ Held(b) = Held(a)
  BY <1>1, LabelPreserves
<1>3. o \in OwnerEntries \ {"UNTRACKED"}
  BY DEF HeldOwners, LeafOwners, OwnerEntries
<1>4. /\ b.drops = a.drops /\ \A q \in Frames \ {f} : b.owner[q] = a.owner[q]
      /\ Trackable(a, f) => b.owner[f] = o
  BY <1>1, <1>3, SetOwnerEffect
<1>5. Trackable(a, f)
  BY <1>1 DEF Trackable, TrackedFrames, Answered
<1>6. Strays(b, K) \subseteq Strays(a, K)
  BY <1>1, <1>2, <1>4, <1>5 DEF Strays
<1>7. \A q \in Held(b) : b.owner[q] # "UNTRACKED"
  BY <1>1, <1>2, <1>3, <1>4, <1>5 DEF Answered
<1> QED
  BY <1>2, <1>4, <1>5, <1>6, <1>7, FewerStrays

LEMMA AnsweredGive ==
    ASSUME NEW a, NEW K, Answered(a, K), NEW f \in Frames,
           NEW b, b = AfterFree(a, f)
    PROVE  Answered(b, K \ {f})
<1>1. AllocatorSound(a) /\ a \in AllocatorStates /\ Held(a) \subseteq Frames
      /\ a.drops \in Nat /\ IsFiniteSet(Strays(a, K)) /\ Cardinality(Strays(a, K)) \in Nat
  BY StraysFinite DEF Answered
<1>2. f \in Nat
  BY FramesBounded, LayoutAssumption
<1>3. /\ AllocatorSound(b)
      /\ Held(b) = Held(a) \/ Held(b) = Held(a) \ {f}
      /\ \A q \in Frames \ {f} : b.owner[q] = a.owner[q]
  <2>1. AllocatorSound(b) /\ (Held(b) = Held(a) \/ Held(b) = Held(a) \ {f})
    BY <1>1, <1>2, FreePreserves
  <2>2. \A q \in Frames \ {f} : b.owner[q] = a.owner[q]
    BY <1>1, FreeOwners
  <2> QED
    BY <2>1, <2>2
<1>4. CASE ~FreeAccepted(a, f)
  <2>1. b = a
    BY <1>4 DEF AfterFree
  <2>2. f \in Held(a) => a.owner[f] = "PAGING_STRUCTURE"
    <3> SUFFICES ASSUME f \in Held(a), a.owner[f] # "PAGING_STRUCTURE" PROVE FALSE
      OBVIOUS
    <3>1. f >= LowMem /\ f < Highest
      BY FramesBounded, LayoutAssumption
    <3>2. f \notin Elems(a.pool)
      BY DEF Held
    <3>3. a.owner[f] # "FREE" /\ a.owner[f] # "UNTRACKED"
      BY <1>1, <3>2 DEF AllocatorSound, FreeListSound, Answered
    <3> QED
      BY <1>4, <3>1, <3>2, <3>3 DEF FreeAccepted, OwnerGet
  <2> QED
    BY <2>1, <2>2, AnsweredMore
<1>5. CASE FreeAccepted(a, f) /\ Len(a.pool) < RecycleMax
  <2> DEFINE p == Append(a.pool, f)
             u == Uncounted(a)
             t == WithPool(a, p, u)
             o == "FREE"
  <2>1. b = SetOwner(t, f, o)
    BY <1>5 DEF AfterFree
  <2>2. p \in Seq(Frames) /\ u \in Nat
    BY <1>1 DEF AllocatorStates, Uncounted
  <2>3. f \in Elems(p)
    <3>1. Len(p) = Len(a.pool) + 1 /\ p[Len(a.pool) + 1] = f /\ Len(a.pool) \in Nat
      BY <1>1 DEF AllocatorStates
    <3> QED
      BY <3>1 DEF Elems
  <2> HIDE DEF p, u
  <2>4. /\ t \in AllocatorStates /\ t.owner = a.owner /\ t.drops = a.drops /\ t.pool = p
    BY <1>1, <2>2, PoolUpdate
  <2>5. TrackedFrames(t) = TrackedFrames(a) /\ o \in OwnerEntries \ {"UNTRACKED"}
        /\ Cardinality(TrackedFrames(t)) <= OwnerTrackMax
    BY <1>1, <2>4 DEF TrackedFrames, AllocatorSound, WithinCapacity, OwnerEntries
  <2> HIDE DEF t, o
  <2>6. b.drops = t.drops /\ b.pool = t.pool
    BY <2>1, <2>4, <2>5, SetOwnerEffect
  <2>7. f \notin Held(b)
    BY <2>3, <2>4, <2>6 DEF Held
  <2>8. Strays(b, K \ {f}) \subseteq Strays(a, K)
    BY <1>1, <1>3, <2>7 DEF Strays
  <2>9. \A q \in Held(b) : b.owner[q] # "UNTRACKED"
    BY <1>1, <1>3, <2>7 DEF Answered
  <2>10. b.drops = a.drops
    BY <2>4, <2>6
  <2> QED
    BY <1>3, <2>8, <2>9, <2>10, FewerStrays
<1>6. CASE FreeAccepted(a, f) /\ ~(Len(a.pool) < RecycleMax)
  <2> DEFINE u == Uncounted(a)
  <2>1. b = WithDrop(a, u) /\ u \in Nat
    BY <1>1, <1>6 DEF AfterFree, AllocatorStates, Uncounted
  <2> HIDE DEF u
  <2>2. b.owner = a.owner /\ b.drops = a.drops + 1
    <3>1. WithDrop(a, u).owner = a.owner /\ WithDrop(a, u).drops = a.drops + 1
      BY <1>1, <2>1, DropUpdate
    <3> QED
      BY <2>1, <3>1
  <2> DEFINE S == Strays(a, K)
  <2>3. Strays(b, K \ {f}) \subseteq S \cup {f}
    BY <1>3, <2>2 DEF Strays
  <2>4. IsFiniteSet(S \cup {f}) /\ Cardinality(S \cup {f}) <= Cardinality(S) + 1
        /\ Cardinality(S \cup {f}) \in Nat
    <3>1. IsFiniteSet(S) /\ Cardinality(S) \in Nat
      BY <1>1
    <3> HIDE DEF S
    <3>2. /\ IsFiniteSet(S \cup {f})
          /\ Cardinality(S \cup {f}) = IF f \in S THEN Cardinality(S) ELSE Cardinality(S) + 1
      BY <3>1, FS_AddElement
    <3> QED
      BY <3>1, <3>2
  <2>5. Cardinality(Strays(b, K \ {f})) <= Cardinality(S \cup {f})
    BY <2>3, <2>4, FS_Subset
  <2>6. Cardinality(Strays(b, K \ {f})) \in Nat
    BY <1>3, StraysFinite
  <2>7. \A q \in Held(b) : b.owner[q] # "UNTRACKED"
    BY <1>3, <2>2 DEF Answered
  <2>8. Cardinality(S) <= a.drops /\ Cardinality(S) \in Nat
    BY <1>1 DEF Answered
  <2> HIDE DEF S
  <2> QED
    BY <1>1, <1>3, <2>2, <2>4, <2>5, <2>6, <2>7, <2>8 DEF Answered
<1> QED
  BY <1>4, <1>5, <1>6

\* A drawn frame that was recorded as a structure is answered for by its owner.
LEMMA AnsweredStructure ==
    ASSUME Ample, NEW a, NEW K, Answered(a, K),
           NEW f, f = AllocPage(a), f # NoPage,
           NEW b, b = SetOwner(AfterAlloc(a), f, "PAGING_STRUCTURE")
    PROVE  Answered(b, K) /\ b.owner[f] = "PAGING_STRUCTURE"
<1> DEFINE c == AfterAlloc(a)
           o == "PAGING_STRUCTURE"
           L == K \cup {f}
<1>1. Answered(c, L) /\ f \in Held(c) /\ f \in L
  BY AnsweredDraw
<1>2. b = SetOwner(c, f, o) /\ o \in HeldOwners /\ Ample
  BY DEF HeldOwners
<1> HIDE DEF c, o, L
<1>3. Answered(b, L) /\ b.owner[f] = o
  BY <1>1, <1>2, AnsweredLabel
<1>4. \A g \in L : g \in Held(b) /\ b.owner[g] # "PAGING_STRUCTURE" => g \in K
  BY <1>3 DEF L, o
<1> QED
  BY <1>3, <1>4, AnsweredMore DEF o

-----------------------------------------------------------------------------
(* What mapping and unmapping in the global directory answers for.         *)

\* The frames of the pages of the global directory.
MappedAt(m) == {va \in UpperVAs : Walk(m, GlobalDir, va) # None}
Mapped(m) == {Walk(m, GlobalDir, va).frame : va \in MappedAt(m)}

\* As long as the kernel runs, the frames that are neither mapped nor loose are
\* accounted for.
Counted(m, R) == ~m.dead => Answered(m.mem, Mapped(m) \cup R)

LEMMA MappedKept ==
    ASSUME NEW m, NEW y, WalksKept(m, y)
    PROVE  Mapped(y) = Mapped(m)
<1>1. MappedAt(y) = MappedAt(m)
  BY DEF MappedAt, WalksKept
<1>2. \A va \in MappedAt(m) : Walk(y, GlobalDir, va).frame = Walk(m, GlobalDir, va).frame
  BY DEF MappedAt, WalksKept
<1> QED
  BY <1>1, <1>2 DEF Mapped

\* Of the mapped frames only that at va can be missing afterwards.
LEMMA MappedBut ==
    ASSUME NEW m, NEW y, NEW va, OtherWalksKept(m, y, va)
    PROVE  /\ \A f \in Mapped(m) : f \in Mapped(y) \/ (va \in MappedAt(m) /\ f = Walk(m, GlobalDir, va).frame)
           /\ va \in UpperVAs /\ Walk(y, GlobalDir, va) # None => Walk(y, GlobalDir, va).frame \in Mapped(y)
<1>1. ASSUME NEW f \in Mapped(m), f \notin Mapped(y)
      PROVE  va \in MappedAt(m) /\ f = Walk(m, GlobalDir, va).frame
  <2>1. PICK vb \in MappedAt(m) : f = Walk(m, GlobalDir, vb).frame
    BY DEF Mapped
  <2>2. vb = va
    <3> SUFFICES ASSUME vb # va PROVE FALSE
      OBVIOUS
    <3>1. Walk(y, GlobalDir, vb) = Walk(m, GlobalDir, vb) /\ vb \in MappedAt(y)
      BY DEF OtherWalksKept, MappedAt
    <3> QED
      BY <1>1, <2>1, <3>1 DEF Mapped
  <2> QED
    BY <2>1, <2>2
<1>2. ASSUME va \in UpperVAs, Walk(y, GlobalDir, va) # None
      PROVE  Walk(y, GlobalDir, va).frame \in Mapped(y)
  BY <1>2 DEF Mapped, MappedAt
<1>3. \A f \in Mapped(m) : f \in Mapped(y) \/ (va \in MappedAt(m) /\ f = Walk(m, GlobalDir, va).frame)
  BY <1>1
<1>4. va \in UpperVAs /\ Walk(y, GlobalDir, va) # None => Walk(y, GlobalDir, va).frame \in Mapped(y)
  BY <1>2
<1> QED
  BY <1>3, <1>4

LEMMA TableAnswered ==
    ASSUME Ample, NEW m, m \in Machines, NEW K, Answered(m.mem, K), NEW d,
           NEW y, y = WithTable(m, d)
    PROVE  Answered(y.mem, K)
<1> DEFINE f == AllocPage(m.mem)
           c == Owned(Drawn(m), f, "PAGING_STRUCTURE")
           b == [c EXCEPT !.ram[GlobalDir][d] = Entry(f, FALSE), !.cr3 = GlobalDir]
           n == SetOwner(AfterAlloc(m.mem), f, "PAGING_STRUCTURE")
<1>1. CASE HasTable(m, GlobalDir, d) \/ f = NoPage
  BY <1>1 DEF WithTable
<1>2. CASE ~(HasTable(m, GlobalDir, d) \/ f = NoPage)
  <2>1. y = Written(b, f, EmptyTable)
    BY <1>2 DEF WithTable
  <2>2. c.mem = n
    BY DEF Machines, Drawn, Owned
  <2>3. f = AllocPage(m.mem) /\ f # NoPage /\ n = SetOwner(AfterAlloc(m.mem), f, "PAGING_STRUCTURE")
    BY <1>2
  <2> HIDE DEF f, n
  <2>4. Answered(n, K)
    BY <2>3, AnsweredStructure
  <2>5. c \in [mem : {n}, ram : {m.ram}, cr3 : {m.cr3}, dead : {m.dead}, dir : {m.dir}, pages : {m.pages}]
    BY <2>2 DEF Machines, Drawn, Owned
  <2> HIDE DEF c
  <2>6. b.mem = n
    BY <2>5
  <2> HIDE DEF b
  <2>7. y.mem = b.mem
    BY <2>1 DEF Written, Dies
  <2> QED
    BY <2>4, <2>6, <2>7
<1> QED
  BY <1>1, <1>2

LEMMA PageInAnswered ==
    ASSUME Ample, NEW m, NEW R, Sane(m, R), ~m.dead, NEW K, Answered(m.mem, K),
           NEW va \in UpperVAs, NEW f \in Frames, f \in R, NEW v \in BOOLEAN,
           NEW y, y = MapPage(m, va, f, v)
    PROVE  /\ Answered(y.mem, K)
           /\ HasTable(y, GlobalDir, va[1]) /\ ~y.dead => Walk(y, GlobalDir, va) = Entry(f, v)
<1> DEFINE d == va[1]
           w == va[2]
           t == WithTable(m, d)
           tf == t.ram[GlobalDir][d].frame
           e == Entry(f, v)
<1>1. d \in Dirs \ {IdDir} /\ d \in Words /\ w \in Words /\ m \in Machines /\ e \in Entries
  BY RootFrames, EntryTypes DEF UpperVAs, Sane, Typed
<1>2. Sane(t, R) /\ Answered(t.mem, K)
  <2>1. Sane(t, R)
    BY <1>1, GetTable
  <2>2. Answered(t.mem, K)
    BY <1>1, TableAnswered
  <2> QED
    BY <2>1, <2>2
<1>3. y = IF ~HasTable(t, GlobalDir, d) \/ t.dead THEN t ELSE Put(t, tf, w, e)
  BY DEF MapPage, Put
<1> HIDE DEF t, e
<1>4. CASE ~HasTable(t, GlobalDir, d) \/ t.dead
  BY <1>2, <1>3, <1>4
<1>5. CASE ~(~HasTable(t, GlobalDir, d) \/ t.dead)
  <2>1. t.ram[GlobalDir][d] # None /\ ~t.dead /\ t \in Machines /\ y = Put(t, tf, w, e)
    BY <1>2, <1>3, <1>5 DEF HasTable, Sane, Typed
  <2>2. tf \in Frames
    BY <1>1, <1>2, <2>1, GlobalTables
  <2> HIDE DEF tf
  <2>3. y.mem = t.mem /\ Rewritten(t.ram, y.ram, tf, w, e)
    BY <1>1, <2>1, <2>2, Stored
  <2>4. Walk(y, GlobalDir, va) = e
    <3>1. GlobalDir \in Frames /\ tf # GlobalDir
      BY <1>1, <1>2, <2>1, GlobalTables DEF tf
    <3>2. y.ram[GlobalDir][d] = t.ram[GlobalDir][d] /\ y.ram[tf][w] = e
      BY <1>1, <2>2, <2>3, <3>1 DEF Rewritten
    <3> QED
      BY <2>1, <3>2 DEF Walk, tf
  <2> QED
    BY <1>2, <2>3, <2>4 DEF e
<1> QED
  BY <1>4, <1>5

\* paging_map_new_page of a page that is not mapped loses no frame.
LEMMA NewPageCounted ==
    ASSUME Ample, NEW m, NEW R, Sane(m, R), ~m.dead, Counted(m, R), NEW va \in UpperVAs,
           Walk(m, GlobalDir, va) = None, NEW v \in BOOLEAN, NEW o \in HeldOwners,
           NEW y, y = MapNewPage(m, va, v, o)
    PROVE  Counted(y, R)
<1> DEFINE f == AllocPage(m.mem)
           a == Drawn(m)
           t == MapPage(a, va, f, v)
           K == Mapped(m) \cup R
           L == K \cup {f}
           S == R \cup {f}
<1>1. CASE f = NoPage
  BY <1>1 DEF MapNewPage
<1>2. CASE f # NoPage
  <2>1. y = Settled(t, GlobalDir, va, f, o) /\ Answered(m.mem, K)
    BY <1>2 DEF MapNewPage, Counted
  <2>2. f = AllocPage(m.mem) /\ a = Drawn(m) /\ t = MapPage(a, va, f, v)
    OBVIOUS
  <2>3. a.mem = AfterAlloc(m.mem)
    BY DEF Drawn, Sane, Typed, Machines
  <2> HIDE DEF f, a, t, K
  <2>4. /\ f \in Frames /\ Sane(a, S) /\ SameTree(a, m) /\ ~a.dead /\ f \in S
    BY <1>2, <2>2, Draw DEF SameTree
  <2>5. Answered(a.mem, L)
    BY <1>2, <2>1, <2>2, <2>3, AnsweredDraw
  <2> HIDE DEF L, S
  <2>6. /\ Attempted(t, S, GlobalDir, va[1], f)
        /\ ~t.dead => OtherWalksKept(a, t, va)
    BY <2>2, <2>4, PageIn
  <2>7. /\ Answered(t.mem, L)
        /\ HasTable(t, GlobalDir, va[1]) /\ ~t.dead => Walk(t, GlobalDir, va) = Entry(f, v)
    BY <2>2, <2>4, <2>5, PageInAnswered
  <2>8. f \in Held(t.mem) /\ t \in Machines
    BY <2>6 DEF Attempted, Sane, Typed
  <2> SUFFICES ASSUME ~y.dead PROVE Answered(y.mem, Mapped(y) \cup R)
    BY DEF Counted
  <2>9. y.ram = t.ram /\ y.dead = t.dead
    BY <2>1 DEF Settled, Owned, Freed
  <2>10. OtherWalksKept(m, y, va) /\ Walk(y, GlobalDir, va) = Walk(t, GlobalDir, va)
    BY <2>4, <2>6, <2>9 DEF SameTree, OtherWalksKept, Walk
  <2>11. K \subseteq Mapped(y) \cup R
    BY <2>10, MappedBut DEF K, MappedAt
  <2>12. CASE HasTable(t, GlobalDir, va[1])
    <3>1. y.mem = SetOwner(t.mem, f, o)
      BY <2>1, <2>8, <2>12 DEF Settled, Owned, Machines
    <3>2. f \in L
      BY DEF L
    <3>3. Answered(y.mem, L)
      BY <2>7, <2>8, <3>1, <3>2, AnsweredLabel
    <3>4. Walk(y, GlobalDir, va) = Entry(f, v)
      BY <2>7, <2>9, <2>10, <2>12
    <3>5. f \in Mapped(y)
      BY <2>4, <2>10, <3>4, EntryTypes, MappedBut
    <3>6. L \subseteq Mapped(y) \cup R
      BY <2>11, <3>5 DEF L
    <3> QED
      BY <3>3, <3>6, AnsweredMore
  <2>13. CASE ~HasTable(t, GlobalDir, va[1])
    <3>1. y.mem = AfterFree(t.mem, f)
      BY <2>1, <2>8, <2>13 DEF Settled, Freed, Machines
    <3>2. Answered(y.mem, L \ {f})
      BY <2>4, <2>7, <3>1, AnsweredGive
    <3>3. L \ {f} \subseteq Mapped(y) \cup R
      BY <2>11 DEF L
    <3> QED
      BY <3>2, <3>3, AnsweredMore
  <2> QED
    BY <2>12, <2>13
<1> QED
  BY <1>1, <1>2

LEMMA ClearedAnswered ==
    ASSUME NEW m, NEW R, Sane(m, R), ~m.dead, NEW va \in UserVAs,
           Walk(m, GlobalDir, va) # None, NEW K, Answered(m.mem, K),
           NEW free, NEW y, y = Cleared(m, GlobalDir, va, free)
    PROVE  Answered(y.mem, K)
<1> DEFINE i == va[1]
           t == m.ram[GlobalDir][i].frame
           c == LeafOut(m, GlobalDir, va)
           b == TableUnlinked(m, GlobalDir, va)
           o == "ALLOCATOR"
           a == SetOwner(m.mem, t, o)
           L == K \cup {t}
<1>1. i \in Dirs \ {IdDir} /\ i \in Words /\ va[2] \in Words /\ m \in Machines
      /\ m.ram[GlobalDir][i] # None
  BY RootFrames DEF UserVAs, Dirs, IdDir, TaskDir, ImageDir, Walk, Sane, Typed
<1>2. t \in Frames /\ t \in Held(m.mem) /\ GlobalDir \in Frames /\ None \in Entries
  BY <1>1, GlobalTables, EntryTypes
<1>3. y = c \/ y = Freed(Owned(b, t, o), t)
  BY ClearedEither DEF TableOut
<1>4. c.mem = m.mem /\ c \in Machines /\ b.mem = m.mem /\ b \in Machines
  <2>1. c = Put(m, t, va[2], None) /\ b = Put(c, GlobalDir, i, None)
    BY DEF LeafOut, TableUnlinked
  <2> HIDE DEF c, b, t
  <2>2. c.mem = m.mem /\ c \in Machines
    BY <1>1, <1>2, <2>1, Stored
  <2>3. b.mem = c.mem /\ b \in Machines
    BY <1>1, <1>2, <2>1, <2>2, Stored
  <2> QED
    BY <2>2, <2>3
<1> HIDE DEF b, c, t
<1>5. CASE y = c
  BY <1>4, <1>5
<1>6. CASE y = Freed(Owned(b, t, o), t)
  <2>1. y.mem = AfterFree(a, t)
    BY <1>4, <1>6 DEF Freed, Owned, Machines
  <2>2. o \in HeldOwners /\ t \in L /\ a = SetOwner(m.mem, t, o)
    BY DEF HeldOwners, LeafOwners
  <2>3. Answered(m.mem, L)
    BY AnsweredMore
  <2> HIDE DEF o, a
  <2>4. Answered(a, L)
    BY <1>2, <2>2, <2>3, AnsweredLabel
  <2> HIDE DEF L
  <2>5. Answered(y.mem, L \ {t})
    BY <1>2, <2>1, <2>4, AnsweredGive
  <2>6. L \ {t} \subseteq K
    BY DEF L
  <2> QED
    BY <2>5, <2>6, AnsweredMore
<1> QED
  BY <1>3, <1>5, <1>6

\* One turn of process_unmap_user_pages on the global directory.
LEMMA UnmappedCounted ==
    ASSUME NEW m, NEW R, Sane(m, R), Counted(m, R), NEW s \in Slots, m.dir[s] = NoPage,
           NEW va \in UserVAs,
           NEW y, y = Unmapped(m, s, va)
    PROVE  Counted(y, R)
<1> DEFINE f == Walk(m, GlobalDir, va).frame
           z == UnmapPage(m, va)
           free == OwnerGet(m.mem, m.ram[GlobalDir][va[1]].frame) = "PAGING_STRUCTURE"
           c == Cleared(m, GlobalDir, va, free)
           K == Mapped(m) \cup R
<1>1. HomeDir(m, s) = GlobalDir /\ WalkFaults(m, s, va) = FALSE
  BY DEF HomeDir, WalkFaults
<1>2. y = IF m.dead \/ f = NoPage THEN m ELSE Freed(z, f)
  BY <1>1 DEF Unmapped
<1>3. CASE m.dead \/ f = NoPage
  BY <1>2, <1>3
<1>4. CASE ~m.dead /\ f # NoPage
  <2>1. va \in UpperVAs
    BY DEF UserVAs, UpperVAs, Dirs, IdDir, TaskDir, ImageDir
  <2>2. f \in Frames /\ Walk(m, GlobalDir, va) # None
    <3>1. Walk(m, GlobalDir, va) \in Entries /\ (f = NoPage <=> Walk(m, GlobalDir, va) = None)
      BY <1>4, <2>1, WalkTypes
    <3> QED
      BY <1>4, <3>1 DEF Entries
  <2>3. z = IF HasTable(c, GlobalDir, va[1]) THEN c ELSE [c EXCEPT !.cr3 = GlobalDir]
    BY <2>2 DEF UnmapPage
  <2>4. c = Cleared(m, GlobalDir, va, free) /\ y = Freed(z, f) /\ Answered(m.mem, K)
        /\ m \in Machines
    BY <1>2, <1>4 DEF Counted, Sane, Typed
  <2>5. c.mem \in {c.mem} /\ z.mem = c.mem /\ y.mem = AfterFree(z.mem, f)
    <3>1. y = [z EXCEPT !.mem = AfterFree(z.mem, f)]
      BY <2>4 DEF Freed
    <3>2. DOMAIN c = DOMAIN m
      BY <2>4 DEF Cleared, Freed, Owned
    <3>3. "mem" \in DOMAIN m
      BY <2>4 DEF Machines
    <3> HIDE DEF c, z
    <3>4. z.mem = c.mem /\ DOMAIN z = DOMAIN c
      BY <2>3, <3>2, <3>3
    <3> QED
      BY <3>1, <3>2, <3>3, <3>4
  <2> HIDE DEF f, z, c, free, K
  <2>6. Answered(c.mem, K)
    BY <1>4, <2>2, <2>4, ClearedAnswered
  <2>7. Answered(y.mem, K \ {f})
    BY <2>2, <2>5, <2>6, AnsweredGive
  <2>8. OtherWalksKept(m, y, va)
    BY <1>4, PageTaken
  <2>9. K \ {f} \subseteq Mapped(y) \cup R
    BY <2>8, MappedBut DEF K, f
  <2>10. Answered(y.mem, Mapped(y) \cup R)
    BY <2>7, <2>9, AnsweredMore
  <2> QED
    BY <2>10 DEF Counted
<1> QED
  BY <1>3, <1>4

LEMMA SameCounted ==
    ASSUME NEW m, NEW R, Counted(m, R), NEW y, y.mem = m.mem, y.ram = m.ram, y.dead = m.dead
    PROVE  Counted(y, R)
<1>1. WalksKept(m, y)
  BY DEF WalksKept, Walk
<1>2. Mapped(y) = Mapped(m)
  BY <1>1, MappedKept
<1> QED
  BY <1>2 DEF Counted

\* process_map_user_page on the global directory.
LEMMA UserPageCounted ==
    ASSUME Ample, NEW m, NEW R, Sane(m, R), Counted(m, R), NEW s \in Slots, m.dir[s] = NoPage,
           NEW va \in UserVAs,
           NEW y, y = MapUserPage(m, s, va)
    PROVE  Counted(y, R)
<1> DEFINE t == MapFresh(m, s, va)
           u == Track(t, s, va)
           x == Unmapped(t, s, va)
<1>1. HomeDir(m, s) = GlobalDir /\ WalkFaults(m, s, va) = FALSE /\ m \in Machines
  BY DEF HomeDir, WalkFaults, Sane, Typed
<1>2. ASSUME NEW q \in Machines, Counted(q, R)
      PROVE  Counted(Track(q, s, va), R)
  <2> DEFINE p == Track(q, s, va)
  <2>1. p.ram = q.ram /\ p.dead = q.dead
    BY TracksPage
  <2>2. p.mem = q.mem
    BY DEF Track, Machines
  <2> HIDE DEF p
  <2>3. Counted(p, R)
    BY <1>2, <2>1, <2>2, SameCounted
  <2> QED
    BY <2>3 DEF p
<1>3. CASE m.dead
  BY <1>3 DEF MapUserPage
<1>4. CASE ~m.dead /\ Walk(m, GlobalDir, va) # None
  BY <1>1, <1>2, <1>4 DEF MapUserPage
<1>5. CASE ~m.dead /\ Walk(m, GlobalDir, va) = None
  <2>1. y = TrackedOrUnmapped(t, s, va)
    BY <1>1, <1>5 DEF MapUserPage
  <2>2. Sane(t, R) /\ t.dir = m.dir
    BY <1>5, FreshMapped
  <2>3. y = IF t.dead \/ Walk(t, HomeDir(t, s), va) = None THEN t
            ELSE IF va \in Tracked(u, s) THEN u ELSE x
    BY <2>1 DEF TrackedOrUnmapped
  <2>4. Counted(t, R)
    <3> DEFINE v == TRUE
               o == "USER_TASK"
    <3>1. t = MapNewPage(m, va, v, o)
      BY DEF MapFresh
    <3>2. va \in UpperVAs /\ o \in HeldOwners /\ v \in BOOLEAN
      BY DEF UserVAs, UpperVAs, Dirs, IdDir, TaskDir, ImageDir, HeldOwners, LeafOwners
    <3> HIDE DEF t, o, v
    <3> QED
      BY <1>5, <3>1, <3>2, NewPageCounted
  <2>5. x = Unmapped(t, s, va) /\ u = Track(t, s, va) /\ t \in Machines
    BY <2>2 DEF Sane, Typed
  <2> HIDE DEF t, u, x
  <2>6. Counted(x, R)
    BY <2>2, <2>4, <2>5, UnmappedCounted
  <2>7. Counted(u, R)
    BY <1>2, <2>4, <2>5
  <2> QED
    BY <2>3, <2>4, <2>6, <2>7
<1> QED
  BY <1>3, <1>4, <1>5

\* The loops that map a program or grow a heap, in the global directory.
LEMMA UserPagesCounted ==
    ASSUME Ample, NEW m, NEW R, Sane(m, R), Counted(m, R), NEW s \in Slots, m.dir[s] = NoPage,
           NEW vas \in Seq(UserVAs),
           NEW y, y = MapUserPages(m, s, vas)
    PROVE  Counted(y.m, R)
<1> DEFINE M == {t \in Machines : Sane(t, R) /\ t.dir = m.dir /\ Counted(t, R)}
           S == [m : M, ok : BOOLEAN]
           base == [m |-> m, ok |-> TRUE]
<1>1. base \in S
  BY DEF Sane, Typed
<1>2. Len(vas) \in Nat
  OBVIOUS
<1>3. ASSUME NEW t \in M, NEW va \in UserVAs
      PROVE  MapUserPage(t, s, va) \in M
  <2> DEFINE u == MapUserPage(t, s, va)
  <2>1. Sane(t, R) /\ t.dir = m.dir /\ Counted(t, R) /\ t.dir[s] = NoPage
    OBVIOUS
  <2>2. u = MapUserPage(t, s, va)
    OBVIOUS
  <2> HIDE DEF u, M
  <2>3. Sane(u, R) /\ u.dir = t.dir
    BY <2>1, <2>2, PageMappedFor
  <2>4. Counted(u, R)
    BY <2>1, <2>2, UserPageCounted
  <2> QED
    BY <2>1, <2>3, <2>4 DEF M, Sane, Typed, u
<1>4. ASSUME NEW r \in S, NEW va \in UserVAs
      PROVE  MapNext(r, s, va) \in S
  <2> DEFINE t == MapUserPage(r.m, s, va)
             b == va \in Tracked(t, s)
  <2>1. t \in M
    BY <1>3
  <2>2. b \in BOOLEAN
    OBVIOUS
  <2>3. MapNext(r, s, va) = IF r.ok THEN [m |-> t, ok |-> b] ELSE r
    BY Zenon DEF MapNext
  <2> HIDE DEF t, M, b
  <2> QED
    BY <2>1, <2>2, <2>3
<1>5. PICK after : y = after[Len(vas)] /\ MappingTurns(after, m, s, vas)
  BY Mapping
<1>6. \A n \in 0..Len(vas) : after[n] = IF n = 0 THEN base ELSE MapNext(after[n - 1], s, vas[n])
  BY <1>5 DEF MappingTurns
<1> HIDE DEF S, base
<1>7. after[0] \in S
  <2>1. 0 \in 0..Len(vas)
    BY <1>2
  <2> QED
    BY <1>1, <1>6, <2>1
<1>8. \A n \in 1..Len(vas) : after[n - 1] \in S => after[n] \in S
  <2> SUFFICES ASSUME NEW n \in 1..Len(vas), after[n - 1] \in S PROVE after[n] \in S
    OBVIOUS
  <2>1. n \in 0..Len(vas) /\ n # 0 /\ vas[n] \in UserVAs
    BY <1>2
  <2> QED
    BY <1>4, <1>6, <2>1
<1>9. \A n \in 0..Len(vas) : after[n] \in S
  BY <1>2, <1>7, <1>8, StaysIn
<1>10. y \in S
  BY <1>2, <1>5, <1>9
<1> QED
  BY <1>10 DEF S

\* process_unmap_user_pages on the global directory.
LEMMA AreaEmptiedCounted ==
    ASSUME NEW m, NEW R, Sane(m, R), Counted(m, R), NEW s \in Slots, m.dir[s] = NoPage,
           NEW y, y = UnmapUserPages(m, s)
    PROVE  Counted(y, R)
<1> DEFINE vas == m.pages[s]
           after == CHOOSE g : g = [n \in 0..Len(vas) |->
                                      IF n = 0 THEN m ELSE Unmapped(g[n - 1], s, vas[n])]
           gone == after[Len(vas)]
           bare == [gone EXCEPT !.pages[s] = <<>>]
           S == {t \in Machines : Sane(t, R) /\ t.dir = m.dir /\ Counted(t, R)}
<1>1. vas \in Seq(UserVAs) /\ m \in S
  BY Parts DEF Sane, Typed
<1>2. Len(vas) \in Nat /\ \A n \in 1..Len(vas) : vas[n] \in UserVAs
  BY <1>1
<1>3. y = IF gone.dead THEN gone ELSE bare
  BY DEF UnmapUserPages
<1>4. \A n \in 0..Len(vas) : after[n] = IF n = 0 THEN m ELSE Unmapped(after[n - 1], s, vas[n])
  <2> HIDE DEF vas, S
  <2>1. after = CHOOSE g : g = [n \in 0..Len(vas) |->
                                  IF n = 0 THEN m ELSE Unmapped(g[n - 1], s, vas[n])]
    OBVIOUS
  <2> HIDE DEF after
  <2> QED
    BY <1>1, <2>1, UnmappingTurns
<1> HIDE DEF after, vas
<1>5. ASSUME NEW t \in S, NEW va \in UserVAs, NEW u, u = Unmapped(t, s, va)
      PROVE  u \in S
  <2>1. Sane(t, R) /\ t.dir = m.dir /\ Counted(t, R) /\ t.dir[s] = NoPage
    OBVIOUS
  <2> HIDE DEF S
  <2>2. Sane(u, R) /\ u.dir = t.dir
    BY <1>5, <2>1, PageUnmapped
  <2>3. Counted(u, R)
    BY <1>5, <2>1, UnmappedCounted
  <2> QED
    BY <2>1, <2>2, <2>3 DEF S, Sane, Typed
<1> HIDE DEF S
<1>6. after[0] \in S
  <2>1. 0 \in 0..Len(vas)
    BY <1>2
  <2> QED
    BY <1>1, <1>4, <2>1
<1>7. \A n \in 1..Len(vas) : after[n - 1] \in S => after[n] \in S
  <2> SUFFICES ASSUME NEW n \in 1..Len(vas), after[n - 1] \in S PROVE after[n] \in S
    OBVIOUS
  <2>1. n \in 0..Len(vas) /\ n # 0 /\ vas[n] \in UserVAs
    BY <1>2
  <2>2. after[n] = Unmapped(after[n - 1], s, vas[n])
    BY <1>4, <2>1
  <2> QED
    BY <1>5, <2>1, <2>2
<1>8. \A n \in 0..Len(vas) : after[n] \in S
  BY <1>2, <1>6, <1>7, StaysIn
<1>9. gone \in Machines /\ Counted(gone, R)
  BY <1>2, <1>8 DEF S
<1> HIDE DEF gone
<1>10. bare.mem = gone.mem /\ bare.ram = gone.ram /\ bare.dead = gone.dead
  BY <1>9 DEF Machines
<1> HIDE DEF bare
<1>11. Counted(bare, R)
  BY <1>9, <1>10, SameCounted
<1> QED
  BY <1>3, <1>9, <1>11

\* process_alloc_per_proc_dir.
LEMMA DirectoryAnswered ==
    ASSUME Ample, NEW m, m \in Machines, NEW K, Answered(m.mem, K), NEW s \in Slots,
           NEW y, y = WithDirectory(m, s)
    PROVE  Answered(y.mem, K)
<1> DEFINE f == AllocPage(m.mem)
           a == Drawn(m)
           C == PrivateContents(m)
           w == Written(a, f, C)
           b == [w EXCEPT !.dir[s] = f]
           o == "PAGING_STRUCTURE"
           n == SetOwner(AfterAlloc(m.mem), f, "PAGING_STRUCTURE")
<1>1. CASE m.dir[s] # NoPage \/ f = NoPage
  BY <1>1 DEF WithDirectory
<1>2. CASE ~(m.dir[s] # NoPage \/ f = NoPage)
  <2>1. y = Owned(b, f, o)
    BY <1>2 DEF WithDirectory, PrivateContents
  <2>2. a.mem = AfterAlloc(m.mem) /\ a \in [mem : {a.mem}, ram : {a.ram}, cr3 : {a.cr3}, dead : {a.dead}, dir : {a.dir}, pages : {a.pages}]
    BY DEF Drawn, Machines
  <2>3. f = AllocPage(m.mem) /\ f # NoPage
    BY <1>2
  <2> HIDE DEF f, a, C
  <2>4. Answered(n, K)
    BY <2>3, AnsweredStructure
  <2>5. w.mem = a.mem
    BY <2>2 DEF Written, Dies
  <2>6. b.mem = w.mem
    OBVIOUS
  <2> HIDE DEF b
  <2>7. y.mem = SetOwner(b.mem, f, o)
    BY <2>1 DEF Owned
  <2> QED
    BY <2>2, <2>4, <2>5, <2>6, <2>7
<1> QED
  BY <1>1, <1>2

\* What every load finds when it starts to map.
LEMMA FreshCounted ==
    ASSUME Ample, NEW m, NEW R, Sane(m, R), ~m.dead, Counted(m, R), Booked(m),
           NEW s \in Slots, Tracked(m, s) \subseteq {CodeVA(s)},
           NEW y, y = FreshUserSpace(m, s)
    PROVE  Counted(y, R)
<1> DEFINE d == WithDirectory(m, s)
           K == Mapped(m) \cup R
<1>1. CASE y.dead
  BY <1>1 DEF Counted
<1>2. m.dir[s] = NoPage /\ Answered(m.mem, K) /\ m \in Machines
  BY DEF Booked, Counted, Sane, Typed
<1>3. /\ Sane(d, R) /\ d.pages = m.pages
      /\ ~d.dead => (d.dir = m.dir /\ d.ram = m.ram) \/ DirectoryAdded(m, d, s)
  BY <1>2, DirectoryMade
<1>4. y = UnmapUserPages(d, s) /\ d = WithDirectory(m, s)
  BY DEF FreshUserSpace
<1> HIDE DEF d, K
<1>5. Answered(d.mem, K)
  BY <1>2, <1>4, DirectoryAnswered
<1>6. \A va \in Tracked(d, s) : va[1] = TaskDir
  BY <1>3 DEF Tracked, CodeVA
<1>7. CASE ~y.dead /\ d.dead
  BY <1>3, <1>4, <1>7, OnlyListCleared
<1>8. CASE ~d.dead /\ d.dir = m.dir /\ d.ram = m.ram
  <2>1. WalksKept(m, d)
    BY <1>8 DEF WalksKept, Walk
  <2>2. Mapped(d) = Mapped(m)
    BY <2>1, MappedKept
  <2>3. Counted(d, R) /\ d.dir[s] = NoPage
    BY <1>2, <1>5, <1>8, <2>2 DEF Counted, K
  <2> QED
    BY <1>3, <1>4, <2>3, AreaEmptiedCounted
<1>9. CASE ~y.dead /\ ~d.dead /\ DirectoryAdded(m, d, s)
  <2> DEFINE f == d.dir[s]
             b == [d EXCEPT !.pages[s] = <<>>]
             n == AfterFree(d.mem, f)
  <2>1. /\ f \in Frames /\ f \notin Held(m.mem) /\ Refilled(m.ram, d.ram, f)
    BY <1>9 DEF DirectoryAdded
  <2>2. d.ram[d.dir[s]][TaskDir] = None /\ d.dir[s] # NoPage
    <3>1. TaskDir \in Dirs \ (KernelDirs \cup {IdDir})
      BY DEF TaskDir, Dirs, KernelDirs, IdDir, HeapDir, TestDir
    <3> QED
      BY <2>1, <3>1, RootFrames DEF Refilled
  <2>3. y = [Freed(b, f) EXCEPT !.cr3 = GlobalDir, !.dir[s] = NoPage]
    <3>1. Sane(d, R) /\ y = UnmapUserPages(d, s) /\ ~y.dead
      BY <1>3, <1>4, <1>9
    <3>2. \/ d.dead
          \/ /\ d.dir[s] # NoPage /\ d.ram[d.dir[s]][TaskDir] = None
             /\ \A va \in Tracked(d, s) : va[1] = TaskDir
      BY <1>6, <2>2
    <3> HIDE DEF b, f
    <3>3. y = [Freed([d EXCEPT !.pages[s] = <<>>], d.dir[s])
                      EXCEPT !.cr3 = GlobalDir, !.dir[s] = NoPage]
      BY <3>1, <3>2, OnlyListCleared
    <3> QED
      BY <3>3 DEF b, f
  <2>4. d \in Machines
    BY <1>3 DEF Sane, Typed
  <2>5. b.mem = d.mem /\ b.ram = d.ram /\ y.mem = AfterFree(b.mem, f) /\ y.ram = b.ram
    <3>1. b.mem = d.mem /\ b.ram = d.ram
        /\ b \in [mem : {b.mem}, ram : {b.ram}, cr3 : {b.cr3}, dead : {b.dead}, dir : {b.dir}, pages : {b.pages}]
      BY <2>4 DEF Machines
    <3> HIDE DEF b, f
    <3>2. Freed(b, f) = [b EXCEPT !.mem = AfterFree(b.mem, f)]
      BY DEF Freed
    <3> QED
      BY <2>3, <3>1, <3>2
  <2>6. y.mem = n /\ y.ram = d.ram
    BY <2>5
  <2>7. Answered(n, K \ {f})
    <3> HIDE DEF f, n
    <3>1. n = AfterFree(d.mem, f)
      BY DEF n
    <3> QED
      BY <1>5, <2>1, <3>1, AnsweredGive
  <2> HIDE DEF b, f, n
  <2>8. Answered(n, K)
    BY <2>7, AnsweredMore
  <2>9. WalksKept(m, d)
    BY <2>1, DirectoryWalks
  <2>10. WalksKept(m, y)
    BY <2>6, <2>9 DEF WalksKept, Walk
  <2>11. Mapped(y) = Mapped(m)
    BY <2>10, MappedKept
  <2> QED
    BY <2>6, <2>8, <2>11 DEF Counted, K
<1> QED
  BY <1>1, <1>3, <1>7, <1>8, <1>9

-----------------------------------------------------------------------------
(* The actions, and the frames each answers for.                           *)

\* Nothing is mapped from page n of an area on.
EmptyFrom(m, d, n) == \A w \in Words : w >= n => Walk(m, GlobalDir, <<d, w>>) = None

\* As long as the kernel runs, no frame is lost uncounted, and the pages that
\* the heap and the mapping tests take next are free.
LostInv ==
    ~k.dead =>
        /\ Counted(k, reserved)
        /\ EmptyFrom(k, HeapDir, heapPages)
        /\ EmptyFrom(k, TestDir, nextTest)
        /\ EmptyFrom(k, ImageDir, nextUser)

LEMMA BootCounted == Ample => Counted(Booted, {})
<1> SUFFICES ASSUME Ample PROVE Counted(Booted, {})
  OBVIOUS
<1>1. PICK y : BootedFrom(y)
  BY FirstTables
<1> DEFINE va == <<HeapDir, 0>>
           o == "KERNEL_HEAP"
           R == {}
           K == Mapped(y) \cup R
<1>2. Sane(y, R) /\ ~y.dead
  BY <1>1 DEF BootedFrom
<1>3. va \in UpperVAs /\ o \in HeldOwners
  BY SpaceAssumption DEF UpperVAs, Dirs, IdDir, HeapDir, Words, HeldOwners, LeafOwners
<1>4. Strays(y.mem, K) = {} /\ AllocatorSound(y.mem) /\ y.mem \in AllocatorStates
  BY <1>1, <1>2 DEF BootedFrom, Strays, Sane, Typed, AllocatorSound
<1>5. \A f \in Held(y.mem) : y.mem.owner[f] # "UNTRACKED"
  BY <1>1 DEF BootedFrom
<1>6. y.mem.drops \in Nat
  BY <1>4 DEF AllocatorStates
<1> HIDE DEF K
<1>7. Answered(y.mem, K)
  BY <1>4, <1>5, <1>6, FS_EmptySet DEF Answered
<1>8. Counted(y, R)
  BY <1>7 DEF Counted, K
<1>9. PICK b \in BOOLEAN : b = FALSE
  OBVIOUS
<1>10. Booted = MapNewPage(y, va, b, o) /\ Walk(y, GlobalDir, va) = None
  BY <1>1, <1>3, <1>9 DEF BootedFrom
<1> HIDE DEF va, o, R
<1>11. Counted(Booted, R)
  BY <1>2, <1>3, <1>8, <1>10, NewPageCounted
<1> QED
  BY <1>11 DEF R

LEMMA InitLost == Ample /\ Init => LostInv
<1> SUFFICES ASSUME Ample, Init PROVE LostInv
  OBVIOUS
<1>1. Counted(k, reserved)
  BY BootCounted DEF Init
<1>2. ~k.dead => \A va \in UpperVAs \ {<<HeapDir, 0>>} : Walk(k, GlobalDir, va) = None
  BY BootSane DEF Init
<1>3. \A d \in {HeapDir, TestDir, ImageDir}, w \in Words :
          <<d, w>> \in UpperVAs /\ (<<d, w>> = <<HeapDir, 0>> => d = HeapDir /\ w = 0)
  BY DEF UpperVAs, Dirs, IdDir, HeapDir, TestDir, ImageDir
<1>4. heapPages = 1 /\ nextTest = 0 /\ nextUser = 0
  BY DEF Init
<1>5. HeapDir # TestDir /\ HeapDir # ImageDir
  BY DEF HeapDir, TestDir, ImageDir
<1> QED
  BY <1>1, <1>2, <1>3, <1>4, <1>5 DEF LostInv, EmptyFrom

\* A step of one process leaves the other areas as they are.
LEMMA ElsewhereEmpty ==
    ASSUME LostInv, ~k.dead, ElsewhereKept, Counted(k', reserved'),
           UNCHANGED <<heapPages, nextTest, nextUser>>
    PROVE  LostInv'
<1>1. \A d \in {HeapDir, TestDir, ImageDir}, w \in Words : <<d, w>> \in UpperVAs \ TaskPages
  BY DEF UpperVAs, TaskPages, Dirs, IdDir, TaskDir, HeapDir, TestDir, ImageDir
<1>2. ~k'.dead => \A d \in {HeapDir, TestDir, ImageDir}, w \in Words :
          Walk(k', GlobalDir, <<d, w>>) = Walk(k, GlobalDir, <<d, w>>)
  BY <1>1 DEF ElsewhereKept
<1> QED
  BY <1>2 DEF LostInv, EmptyFrom

LEMMA PrepareLost ==
    ASSUME Ample, IInv, TaskInv, LostInv, NEW s \in Slots, Prepare(s)
    PROVE  LostInv'
<1> DEFINE m == FreshUserSpace(k, s)
           vas == <<CodeVA(s), StackVA(s)>>
           r == MapUserPages(m, s, vas)
           R == reserved
           y == r.m
<1>1. /\ Sane(k, R) /\ ~k.dead /\ Booked(k) /\ Tracked(k, s) \subseteq {CodeVA(s)}
      /\ Counted(k, R)
  BY DEF IInv, TaskInv, LostInv, Prepare, Given
<1>2. k' = y /\ reserved' = R /\ UNCHANGED <<heapPages, nextTest, nextUser>>
  BY DEF Prepare, TaskInv
<1>3. vas \in Seq(UserVAs)
  BY Areas, Pairs
<1>4. m = FreshUserSpace(k, s) /\ r = MapUserPages(m, s, vas)
  OBVIOUS
<1> HIDE DEF m, vas, r, R, y
<1>5. Sane(m, R) /\ Counted(m, R)
  BY <1>1, <1>4, SpaceFresh, FreshCounted
<1>6. m.dead => y.dead
  BY <1>3, <1>4, <1>5, DeadStays DEF y
<1>7. ~m.dead => \A q \in Slots : m.dir[q] = NoPage
  BY <1>1, <1>4, FreshTaskSpace
<1>8. Counted(r.m, R) \/ m.dead
  BY <1>3, <1>4, <1>5, <1>7, UserPagesCounted
<1>9. Counted(y, R)
  BY <1>6, <1>8 DEF Counted, y
<1> QED
  BY <1>1, <1>2, <1>9, PrepareTask, ElsewhereEmpty

LEMMA BrkLost ==
    ASSUME Ample, IInv, TaskInv, LostInv, NEW pages \in 0..2, Brk(pages)
    PROVE  LostInv'
<1> DEFINE s == current
           new == IF pages <= brk[s] THEN <<>>
                  ELSE [i \in 1..(pages - brk[s]) |-> HeapVA(s, brk[s] + i)]
           r == MapUserPages(k, s, new)
           R == reserved
<1>1. /\ s \in Slots /\ brk[s] \in 0..2 /\ Sane(k, R) /\ ~k.dead /\ k.dir[s] = NoPage
      /\ Counted(k, R)
  BY DEF IInv, TaskInv, LostInv, Brk, Given, Booked
<1>2. new \in Seq(UserVAs)
  <2>1. CASE pages <= brk[s]
    BY <2>1
  <2>2. CASE ~(pages <= brk[s])
    <3>1. pages - brk[s] \in Nat /\ \A i \in 1..(pages - brk[s]) : brk[s] + i \in 1..2
      BY <1>1, <2>2
    <3>2. \A i \in 1..(pages - brk[s]) : HeapVA(s, brk[s] + i) \in UserVAs
      BY <1>1, <3>1, TaskVAs
    <3> HIDE DEF s
    <3> QED
      BY <2>2, <3>1, <3>2
  <2> QED
    BY <2>1, <2>2
<1>3. k' = r.m /\ reserved' = R /\ UNCHANGED <<heapPages, nextTest, nextUser>>
  BY DEF Brk
<1>4. r = MapUserPages(k, s, new)
  OBVIOUS
<1> HIDE DEF new, s, r, R
<1>5. Counted(r.m, R)
  BY <1>1, <1>2, <1>4, UserPagesCounted
<1> QED
  BY <1>1, <1>3, <1>5, BrkTask, ElsewhereEmpty

\* Loading CR3 loses nothing.
LEMMA SwitchCounted ==
    ASSUME NEW m, m \in Machines, NEW R, Counted(m, R), NEW s \in Slots,
           NEW y, y = SwitchedTo(m, s)
    PROVE  Counted(y, R)
<1>1. CASE y.dead
  BY <1>1 DEF Counted
<1>2. CASE ~y.dead
  <2>1. ~m.dead /\ y.ram = m.ram
    BY <1>2, SwitchSame
  <2>2. y.mem = m.mem
    BY DEF SwitchedTo, Machines
  <2>3. m.dead = y.dead
    BY <1>2, <2>1 DEF Counted, SwitchedTo, Machines
  <2> QED
    BY <2>1, <2>2, <2>3, SameCounted
<1> QED
  BY <1>1, <1>2

LEMMA SwitchLost ==
    ASSUME IInv, TaskInv, LostInv, NEW s \in Slots, SwitchTo(s)
    PROVE  LostInv'
<1> DEFINE R == reserved
           y == k'
           m == k
<1>1. /\ m \in Machines /\ Counted(m, R) /\ y = SwitchedTo(m, s) /\ ~k.dead
      /\ reserved' = R /\ UNCHANGED <<heapPages, nextTest, nextUser>>
  BY DEF IInv, LostInv, Sane, Typed, SwitchTo, Given
<1> HIDE DEF R, y, m
<1>2. Counted(y, R)
  BY <1>1, SwitchCounted
<1> QED
  BY <1>1, <1>2, SwitchTask, ElsewhereEmpty DEF y

LEMMA EndLost ==
    ASSUME IInv, TaskInv, LostInv, NEW s \in Slots, NEW next \in Slots, EndProcess(s, next)
    PROVE  LostInv'
<1> DEFINE gone == UnmapUserPages(k, s)
           sw == SwitchedTo(gone, next)
           R == reserved
           y == k'
<1>1. /\ Sane(k, R) /\ ~k.dead /\ k.dir[s] = NoPage /\ Counted(k, R)
      /\ reserved' = R /\ UNCHANGED <<heapPages, nextTest, nextUser>>
  BY DEF IInv, TaskInv, LostInv, EndProcess, Given, Booked
<1>2. y = sw \/ y = gone
  BY DEF EndProcess
<1>3. gone = UnmapUserPages(k, s) /\ sw = SwitchedTo(gone, next)
  OBVIOUS
<1> HIDE DEF gone, sw, R, y
<1>4. Sane(gone, R) /\ Counted(gone, R)
  BY <1>1, <1>3, UserPagesUnmapped, AreaEmptiedCounted
<1>5. gone \in Machines
  BY <1>4 DEF Sane, Typed
<1>6. Counted(sw, R)
  BY <1>3, <1>4, <1>5, SwitchCounted
<1>7. Counted(y, R)
  BY <1>2, <1>4, <1>6
<1> QED
  BY <1>1, <1>7, EndTask, ElsewhereEmpty DEF y

LEMMA AllocCommandLost ==
    ASSUME Ample, IInv, LostInv, AllocPageCommand
    PROVE  LostInv'
<1> DEFINE f == AllocPage(k.mem)
           a == k.mem
           b == AfterAlloc(a)
           K == Mapped(k) \cup reserved
<1>1. /\ ~k.dead /\ k' = [k EXCEPT !.mem = b] /\ reserved' = reserved \cup {f} /\ f # NoPage
      /\ UNCHANGED <<heapPages, nextTest, nextUser>> /\ k \in Machines
      /\ Answered(a, K)
  BY DEF AllocPageCommand, Given, Drawn, IInv, Sane, Typed, LostInv, Counted
<1>2. k'.ram = k.ram /\ k'.mem = b
  BY <1>1 DEF Machines
<1> HIDE DEF K
<1>3. Answered(b, K \cup {f})
  <2>1. f = AllocPage(a) /\ b = AfterAlloc(a) /\ f # NoPage
    BY <1>1
  <2> HIDE DEF f, a, b
  <2> QED
    BY <1>1, <2>1, AnsweredDraw
<1>4. WalksKept(k, k')
  BY <1>2 DEF WalksKept, Walk
<1>5. Mapped(k') = Mapped(k)
  BY <1>4, MappedKept
<1>6. Mapped(k') \cup reserved' = K \cup {f}
  BY <1>1, <1>5 DEF K
<1>7. Counted(k', reserved')
  BY <1>2, <1>3, <1>6 DEF Counted
<1>8. ElsewhereKept
  BY <1>4 DEF WalksKept, ElsewhereKept
<1> QED
  BY <1>1, <1>7, <1>8, ElsewhereEmpty

\* A mapping test, or the heap, takes the next page of its area.
LEMMA NextPageCounted ==
    ASSUME Ample, IInv, LostInv, ~k.dead,
           NEW d \in {HeapDir, TestDir, ImageDir}, NEW n \in Words, EmptyFrom(k, d, n),
           NEW v \in BOOLEAN, NEW o \in HeldOwners,
           k' = MapNewPage(k, <<d, n>>, v, o)
    PROVE  /\ Counted(k', reserved)
           /\ ~k'.dead => /\ EmptyFrom(k', d, n + 1)
                          /\ Walk(k', GlobalDir, <<d, n>>) = None => EmptyFrom(k', d, n)
                          /\ \A e \in {HeapDir, TestDir, ImageDir} \ {d}, i \in Nat :
                                EmptyFrom(k, e, i) => EmptyFrom(k', e, i)
<1> DEFINE va == <<d, n>>
           m == k
           y == k'
           R == reserved
<1>1. /\ Sane(m, R) /\ ~m.dead /\ Counted(m, R) /\ Walk(m, GlobalDir, va) = None
      /\ y = MapNewPage(m, va, v, o) /\ n \in Int
  BY DEF IInv, LostInv, EmptyFrom, Words
<1>2. \A e \in {HeapDir, TestDir, ImageDir}, w \in Words : <<e, w>> \in UpperVAs
  BY DEF UpperVAs, Dirs, IdDir, HeapDir, TestDir, ImageDir
<1>3. va \in UpperVAs
  BY <1>2
<1> HIDE DEF va, m, y, R
<1>4. Counted(y, R)
  BY <1>1, <1>3, NewPageCounted
<1>5. ~y.dead => OtherWalksKept(m, y, va)
  BY <1>1, <1>3, NewPage
<1>6. ASSUME ~k'.dead, NEW e \in {HeapDir, TestDir, ImageDir}, NEW w \in Words, e # d \/ w # n
      PROVE  Walk(k', GlobalDir, <<e, w>>) = Walk(k, GlobalDir, <<e, w>>)
  BY <1>2, <1>5, <1>6 DEF OtherWalksKept, y, m, va
<1>7. ASSUME ~k'.dead PROVE EmptyFrom(k', d, n + 1)
  <2> SUFFICES ASSUME NEW w \in Words, w >= n + 1 PROVE Walk(k', GlobalDir, <<d, w>>) = None
    BY DEF EmptyFrom
  <2>1. w # n /\ w >= n
    BY <1>1 DEF Words
  <2> QED
    BY <1>6, <1>7, <2>1 DEF EmptyFrom
<1>8. ASSUME ~k'.dead, Walk(k', GlobalDir, <<d, n>>) = None PROVE EmptyFrom(k', d, n)
  BY <1>6, <1>8 DEF EmptyFrom
<1>9. ASSUME ~k'.dead, NEW e \in {HeapDir, TestDir, ImageDir} \ {d}, NEW i \in Nat,
             EmptyFrom(k, e, i)
      PROVE  EmptyFrom(k', e, i)
  BY <1>6, <1>9 DEF EmptyFrom
<1> QED
  BY <1>4, <1>7, <1>8, <1>9 DEF y, R

LEMMA NewPageLost ==
    ASSUME Ample, IInv, LostInv, GrowHeap \/ MapTest \/ MapUserTest
    PROVE  LostInv'
<1>1. /\ ~k.dead /\ {heapPages, nextTest, nextUser} \subseteq Nat /\ reserved' = reserved
      /\ EmptyFrom(k, HeapDir, heapPages) /\ EmptyFrom(k, TestDir, nextTest)
      /\ EmptyFrom(k, ImageDir, nextUser)
  <2>1. {heapPages, nextTest, nextUser} \subseteq 0..AreaMax /\ 0..AreaMax \subseteq Nat
    BY DEF IInv
  <2>2. ~k.dead /\ reserved' = reserved
    BY DEF GrowHeap, MapTest, MapUserTest, Given
  <2> QED
    BY <2>1, <2>2 DEF LostInv
<1>2. AreaMax \in Words /\ \A n \in Nat : n < AreaMax => n \in Words
  <2>1. AreaMax \in Words /\ LastWord \in Nat
    BY SpaceAssumption
  <2> QED
    BY <2>1 DEF Words
<1>3. /\ HeapDir # TestDir /\ HeapDir # ImageDir /\ TestDir # ImageDir
      /\ {"KERNEL_HEAP", "PAGING_TEST", "USER_MISC"} \subseteq HeldOwners
  BY DEF HeapDir, TestDir, ImageDir, HeldOwners, LeafOwners
<1>4. CASE k'.dead
  BY <1>4 DEF LostInv
<1>5. CASE ~k'.dead /\ GrowHeap
  <2> DEFINE n == heapPages
             o == "KERNEL_HEAP"
  <2>1. /\ n \in Words /\ k' = MapNewPage(k, <<HeapDir, n>>, FALSE, o)
        /\ heapPages' = IF Walk(k', GlobalDir, <<HeapDir, n>>) # Walk(k, GlobalDir, <<HeapDir, n>>)
                        THEN n + 1 ELSE n
        /\ UNCHANGED <<nextTest, nextUser>>
    BY <1>1, <1>2, <1>5 DEF GrowHeap, MapNewPageWorks
  <2>2. Walk(k, GlobalDir, <<HeapDir, n>>) = None
    BY <1>1, <2>1 DEF EmptyFrom, Words
  <2>3. PICK v \in BOOLEAN : v = FALSE
    OBVIOUS
  <2>4. k' = MapNewPage(k, <<HeapDir, n>>, v, o) /\ o \in HeldOwners
    BY <1>3, <2>1, <2>3
  <2> HIDE DEF o
  <2>5. /\ Counted(k', reserved)
        /\ EmptyFrom(k', HeapDir, n + 1)
        /\ Walk(k', GlobalDir, <<HeapDir, n>>) = None => EmptyFrom(k', HeapDir, n)
        /\ EmptyFrom(k', TestDir, nextTest) /\ EmptyFrom(k', ImageDir, nextUser)
    BY <1>1, <1>3, <1>5, <2>1, <2>4, NextPageCounted
  <2> QED
    BY <1>1, <2>1, <2>2, <2>5 DEF LostInv
<1>6. CASE ~k'.dead /\ MapTest
  <2> DEFINE n == nextTest
             o == "PAGING_TEST"
  <2>1. /\ n \in Words /\ k' = MapNewPage(k, <<TestDir, n>>, FALSE, o)
        /\ nextTest' = IF Walk(k', GlobalDir, <<TestDir, n>>) # Walk(k, GlobalDir, <<TestDir, n>>)
                       THEN n + 1 ELSE n
        /\ UNCHANGED <<heapPages, nextUser>>
    BY <1>1, <1>2, <1>6 DEF MapTest, MapNewPageWorks
  <2>2. Walk(k, GlobalDir, <<TestDir, n>>) = None
    BY <1>1, <2>1 DEF EmptyFrom, Words
  <2>3. PICK v \in BOOLEAN : v = FALSE
    OBVIOUS
  <2>4. k' = MapNewPage(k, <<TestDir, n>>, v, o) /\ o \in HeldOwners
    BY <1>3, <2>1, <2>3
  <2> HIDE DEF o
  <2>5. /\ Counted(k', reserved)
        /\ EmptyFrom(k', TestDir, n + 1)
        /\ Walk(k', GlobalDir, <<TestDir, n>>) = None => EmptyFrom(k', TestDir, n)
        /\ EmptyFrom(k', HeapDir, heapPages) /\ EmptyFrom(k', ImageDir, nextUser)
    BY <1>1, <1>3, <1>6, <2>1, <2>4, NextPageCounted
  <2> QED
    BY <1>1, <2>1, <2>2, <2>5 DEF LostInv
<1>7. CASE ~k'.dead /\ MapUserTest
  <2> DEFINE n == nextUser
             o == "USER_MISC"
  <2>1. /\ n \in Words /\ k' = MapNewPage(k, <<ImageDir, n>>, TRUE, o)
        /\ nextUser' = IF Walk(k', GlobalDir, <<ImageDir, n>>) # Walk(k, GlobalDir, <<ImageDir, n>>)
                       THEN n + 1 ELSE n
        /\ UNCHANGED <<heapPages, nextTest>>
    BY <1>1, <1>2, <1>7 DEF MapUserTest, MapNewPageWorks
  <2>2. Walk(k, GlobalDir, <<ImageDir, n>>) = None
    BY <1>1, <2>1 DEF EmptyFrom, Words
  <2>3. PICK v \in BOOLEAN : v = TRUE
    OBVIOUS
  <2>4. k' = MapNewPage(k, <<ImageDir, n>>, v, o) /\ o \in HeldOwners
    BY <1>3, <2>1, <2>3
  <2> HIDE DEF o
  <2>5. /\ Counted(k', reserved)
        /\ EmptyFrom(k', ImageDir, n + 1)
        /\ Walk(k', GlobalDir, <<ImageDir, n>>) = None => EmptyFrom(k', ImageDir, n)
        /\ EmptyFrom(k', HeapDir, heapPages) /\ EmptyFrom(k', TestDir, nextTest)
    BY <1>1, <1>3, <1>7, <2>1, <2>4, NextPageCounted
  <2> QED
    BY <1>1, <2>1, <2>2, <2>5 DEF LostInv
<1> QED
  BY <1>4, <1>5, <1>6, <1>7

LEMMA TrimLost ==
    ASSUME IInv, LostInv, TrimIdentity
    PROVE  LostInv'
<1> DEFINE y == k'
           m == k
           e == None
           i == IdDir
           R == reserved
<1>1. /\ Sane(m, R) /\ ~k.dead /\ m \in Machines /\ Counted(m, R)
      /\ reserved' = R /\ UNCHANGED <<heapPages, nextTest, nextUser>>
  BY DEF IInv, LostInv, TrimIdentity, Given, Sane, Typed
<1>2. y = PutLoaded(m, GlobalDir, i, e) /\ i \in Words /\ e \in Entries
  BY RootFrames, EntryTypes DEF TrimIdentity, PutLoaded, Dirs, IdDir
<1>3. ~m.dead
  BY <1>1
<1> HIDE DEF y, m, e, i, R
<1>4. GlobalDir \in Frames
  BY RootFrames
<1>5. /\ y.mem = m.mem /\ y.dead = m.dead /\ Rewritten(m.ram, y.ram, GlobalDir, i, e)
  BY <1>1, <1>2, <1>4, Stored
<1>6. WalksKept(m, y)
  <2> SUFFICES ASSUME NEW va \in UpperVAs
               PROVE  Walk(y, GlobalDir, va) = Walk(m, GlobalDir, va)
    BY DEF WalksKept
  <2> DEFINE d == va[1]
  <2>1. d \in Dirs \ {IdDir} /\ va[2] \in Words /\ d \in Words /\ d # i
    BY RootFrames DEF UpperVAs, i
  <2>2. m.ram[GlobalDir][d] # None =>
            /\ m.ram[GlobalDir][d].frame \in Frames
            /\ m.ram[GlobalDir][d].frame # GlobalDir
    BY <1>1, <1>3, <2>1, GlobalTables
  <2>3. \A x \in Frames, w \in Words :
            y.ram[x][w] = IF x = GlobalDir /\ w = i THEN e ELSE m.ram[x][w]
    BY <1>5 DEF Rewritten
  <2>4. y.ram[GlobalDir][d] = m.ram[GlobalDir][d]
    BY <1>4, <2>1, <2>3
  <2>5. m.ram[GlobalDir][d] # None =>
            y.ram[m.ram[GlobalDir][d].frame][va[2]] = m.ram[m.ram[GlobalDir][d].frame][va[2]]
    BY <2>1, <2>2, <2>3
  <2> QED
    BY <2>1, <2>4, <2>5 DEF Walk
<1>7. Mapped(y) = Mapped(m)
  BY <1>6, MappedKept
<1>8. Counted(y, R)
  BY <1>1, <1>5, <1>7 DEF Counted
<1>9. ElsewhereKept
  BY <1>6 DEF WalksKept, ElsewhereKept, y, m
<1> QED
  BY <1>1, <1>8, <1>9, ElsewhereEmpty DEF y

LEMMA NextLost ==
    ASSUME NoLoaders, Ample, IInv, TaskInv, LostInv, [Next]_vars
    PROVE  LostInv'
<1>1. ~LoadFlat /\ ~LoadBadMbapp /\ ~ \E image \in Images, fit \in BOOLEAN : LoadImage(image, fit)
  BY DEF NoLoaders, LoadFlat, LoadBadMbapp, LoadImage, Given
<1>2. CASE \E s \in Slots : Prepare(s) \/ SwitchTo(s)
  BY <1>2, PrepareLost, SwitchLost
<1>3. CASE \E s, next \in Slots : EndProcess(s, next)
  BY <1>3, EndLost
<1>4. CASE \E pages \in 0..2 : Brk(pages)
  BY <1>4, BrkLost
<1>5. CASE GrowHeap \/ MapTest \/ MapUserTest
  BY <1>5, NewPageLost
<1>6. CASE AllocPageCommand
  BY <1>6, AllocCommandLost
<1>7. CASE TrimIdentity
  BY <1>7, TrimLost
<1>8. CASE UNCHANGED vars
  BY <1>8 DEF vars, LostInv
<1> QED
  BY <1>1, <1>2, <1>3, <1>4, <1>5, <1>6, <1>7, <1>8 DEF Next

-----------------------------------------------------------------------------
(* The theorem on lost frames.                                             *)

LEMMA LostInvHolds ==
    ASSUME NoLoaders, Ample
    PROVE  Spec => [](IInv /\ LostInv)
<1>1. Init => LostInv
  BY InitLost
<1>2. (IInv /\ TaskInv) /\ LostInv /\ [Next]_vars => LostInv'
  BY NextLost
<1> QED
  BY <1>1, <1>2, TaskInvHolds, PTL DEF Spec

\* As long as the owner table has room for every frame, and without the program
\* loaders, every frame in use is a mapped page, kept by the allocpage command,
\* a directory or a table, or one that free_page counted as dropped: no failure
\* half way through process_map_user_page, paging_map_new_page, a process's end
\* or a heap's growth leaves a frame that nobody will give back.
THEOREM LostStayCounted ==
    ASSUME NoLoaders, Ample
    PROVE  Spec => []LostFramesCounted
<1>1. IInv /\ LostInv => LostFramesCounted
  <2> DEFINE lost == {f \in Held(k.mem) \ (MappedFrames \cup reserved) :
                        OwnerGet(k.mem, f) # "PAGING_STRUCTURE"}
             K == Mapped(k) \cup reserved
             m == k
             a == k.mem
             R == reserved
  <2> SUFFICES ASSUME IInv, LostInv, ~k.dead PROVE Cardinality(lost) <= k.mem.drops
    BY DEF LostFramesCounted
  <2>1. Answered(a, K) /\ Sane(m, R) /\ ~m.dead
    BY DEF LostInv, Counted, IInv
  <2>2. Mapped(k) \subseteq MappedFrames
    <3> SUFFICES ASSUME NEW va \in MappedAt(k) PROVE Walk(k, GlobalDir, va).frame \in MappedFrames
      BY DEF Mapped
    <3> DEFINE i == va[1]
               w == va[2]
               ram == k.ram
               dir == k.dir
               t == ram[GlobalDir][i].frame
               d == GlobalDir
    <3>1. /\ i \in Dirs \ {IdDir} /\ w \in Words /\ ram[d][i] # None
          /\ ram[t][w] # None /\ Walk(k, GlobalDir, va) = ram[t][w]
      BY DEF MappedAt, UpperVAs, Walk
    <3>2. d \in DirsIn(dir) /\ (d = GlobalDir \/ i \notin KernelDirs)
      <4> HIDE DEF m, R
      <4>1. GlobalDir \in DirsIn(m.dir)
        BY <2>1, GlobalTables
      <4> QED
        BY <4>1 DEF m
    <3> HIDE DEF ram, dir, i, w, d
    <3>3. ram[d][i].frame \in TablesIn(ram, dir)
      BY <3>1, <3>2, TableThere
    <3>4. t \in AllTables
      BY <3>3, TreeNames DEF d, ram, dir
    <3> HIDE DEF t
    <3>5. <<t, w>> \in Leaves /\ LeafFrame(<<t, w>>) = ram[t][w].frame
      BY <3>1, <3>4 DEF Leaves, LeafFrame, ram
    <3> QED
      BY <3>1, <3>5 DEF MappedFrames
  <2>3. AllocatorSound(a) /\ IsFiniteSet(Strays(a, K)) /\ Cardinality(Strays(a, K)) \in Nat
        /\ Held(a) \subseteq Frames /\ a.drops \in Nat /\ Cardinality(Strays(a, K)) <= a.drops
    <3> HIDE DEF a, K
    <3> QED
      BY <2>1, StraysFinite DEF Answered
  <2>4. lost \subseteq Strays(a, K)
    <3> SUFFICES ASSUME NEW f \in lost PROVE f \in Strays(a, K)
      OBVIOUS
    <3>1. f \in Held(a) /\ f \in Frames /\ f \notin K
      BY <2>2, <2>3
    <3>2. OwnerGet(a, f) # "PAGING_STRUCTURE"
      OBVIOUS
    <3>3. a.owner[f] # "PAGING_STRUCTURE"
      BY <3>1, <3>2 DEF OwnerGet
    <3> QED
      BY <3>1, <3>3 DEF Strays
  <2>5. IsFiniteSet(lost) /\ Cardinality(lost) \in Nat /\ Cardinality(lost) <= Cardinality(Strays(a, K))
    <3> HIDE DEF lost, a, K
    <3> QED
      BY <2>3, <2>4, FS_Subset, FS_CardinalityType
  <2> QED
    BY <2>3, <2>5
<1> QED
  BY <1>1, LostInvHolds, PTL DEF Spec
=============================================================================
