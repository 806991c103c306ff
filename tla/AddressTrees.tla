----------------------------- MODULE AddressTrees -----------------------------
(***************************************************************************)
(* The tree that the page directories and tables of AddressSpaces span,    *)
(* the invariant that AddressSpacesProofs proves, and what one write to    *)
(* the tree does to it.                                                    *)
(*                                                                         *)
(* Besides the tree the invariant speaks of frames that are in nobody's    *)
(* hands but the handler's or a command's: R below.  Each operation draws  *)
(* a frame into R, hangs a frame of R into the tree, takes one out of it   *)
(* into R, or frees one of R.                                              *)
(***************************************************************************)
EXTENDS AddressSpaces, PhysicalAllocatorLemmas

\* Pages a program may be linked at without touching what the kernel maps.  The
\* loaders check no more than paging_is_user_virtual: an image linked inside the
\* identity map takes the frames found there.
UserVAs == {TaskDir, ImageDir} \X Words
OrdinaryImages == \A image \in Images : image \in Seq(UserVAs) /\ image # <<>>

\* The owner table has room for every frame, so that no owner is forgotten.
Ample == Cardinality(Frames) <= OwnerTrackMax

-----------------------------------------------------------------------------
(* The tree.                                                               *)

Entries == {None} \cup [frame : Frames, user : BOOLEAN]
Memories == [Frames -> [Words -> Entries]]
DirOwners == [Slots -> Frames \cup {NoPage}]

\* The directories, and their entries that lead to tables of their own.
DirsIn(dir) == {GlobalDir} \cup ({dir[s] : s \in Slots} \ {NoPage})
Roots(dir) == DirsIn(dir) \cup {IdTable}
UpperIn(dir) ==
    {u \in DirsIn(dir) \X (Dirs \ {IdDir}) : u[1] = GlobalDir \/ u[2] \notin KernelDirs}

\* The entries in use there, the tables they lead to, the entries in use in
\* those tables, and the frame an entry holds.
LinksIn(ram, dir) == {u \in UpperIn(dir) : ram[u[1]][u[2]] # None}
TablesIn(ram, dir) == {ram[u[1]][u[2]].frame : u \in LinksIn(ram, dir)}
LeavesIn(ram, dir) == {l \in TablesIn(ram, dir) \X Words : ram[l[1]][l[2]] # None}
FullIn(ram, dir) == LinksIn(ram, dir) \cup LeavesIn(ram, dir)
FrameAt(ram, p) == ram[p[1]][p[2]].frame

\* The identity map leads where it says, or has been trimmed.
IdentityMaps(ram) ==
    /\ ram[GlobalDir][IdDir] \in {None, Entry(IdTable, FALSE)}
    /\ \A f \in DOMAIN IdIndex : ram[IdTable][IdIndex[f]].frame = f

\* No slot shares its private directory.
RootsApart(dir) ==
    /\ \A s \in Slots : dir[s] \notin {GlobalDir, IdTable}
    /\ \A s, r \in Slots : dir[s] = dir[r] /\ dir[s] # NoPage => s = r

\* Every frame in the tree is there once; it is held, no root, and loose for
\* nobody.
Consistent(ram, dir, held, R) ==
    /\ \A p, q \in FullIn(ram, dir) : FrameAt(ram, p) = FrameAt(ram, q) => p = q
    /\ \A p \in FullIn(ram, dir) : FrameAt(ram, p) \in held \ (Roots(dir) \cup R)
    /\ Roots(dir) \cup R \subseteq held /\ Roots(dir) \cap R = {}
    /\ RootsApart(dir)
    /\ IdentityMaps(ram)

\* The paging structures have their owner on record.
Protected(m) ==
    Ample => \A f \in Roots(m.dir) \cup TablesIn(m.ram, m.dir) :
                 m.mem.owner[f] = "PAGING_STRUCTURE"

Machines ==
    [mem : AllocatorStates, ram : Memories, cr3 : Frames, dead : BOOLEAN,
     dir : DirOwners, pages : [Slots -> Seq(UserVAs)]]

Typed(m) == m \in Machines /\ AllocatorSound(m.mem)

\* What every operation preserves: once the kernel has faulted only the types.
Sane(m, R) ==
    /\ Typed(m)
    /\ ~m.dead => Consistent(m.ram, m.dir, Held(m.mem), R) /\ Protected(m)

IInv ==
    /\ Sane(k, reserved)
    /\ ready \in [Slots -> BOOLEAN] /\ brk \in [Slots -> 0..2]
    /\ code \in [Slots -> UserVAs]
    /\ current \in Slots
    /\ {heapPages, nextTest, nextUser} \subseteq 0..AreaMax
    /\ reserved \subseteq Frames

-----------------------------------------------------------------------------
(* Facts about the tree.                                                   *)

LEMMA RootFrames ==
    /\ GlobalDir \in Frames /\ IdTable \in Frames /\ GlobalDir # IdTable
    /\ NoPage \notin Frames /\ Dirs \subseteq Words
    /\ None \notin [frame : Frames, user : BOOLEAN]
<1>1. Len(Layout) \in Nat /\ 1 \in 1..Len(Layout) /\ 2 \in 1..Len(Layout)
  BY LayoutAssumption, SpaceAssumption
<1>2. GlobalDir # IdTable
  BY <1>1, LayoutAssumption DEF GlobalDir, IdTable
<1>3. None \notin [frame : Frames, user : BOOLEAN]
  BY FramesBounded DEF None
<1> QED
  BY <1>1, <1>2, <1>3, FramesBounded, SpaceAssumption DEF GlobalDir, IdTable, Frames

LEMMA UpperMade ==
    ASSUME NEW dir, NEW d \in DirsIn(dir), NEW i \in Dirs \ {IdDir},
           d = GlobalDir \/ i \notin KernelDirs
    PROVE  <<d, i>> \in UpperIn(dir)
BY DEF UpperIn

LEMMA TreeTypes ==
    ASSUME NEW ram \in Memories, NEW dir \in DirOwners
    PROVE  /\ DirsIn(dir) \subseteq Frames /\ Roots(dir) \subseteq Frames
           /\ GlobalDir \in DirsIn(dir)
           /\ TablesIn(ram, dir) \subseteq Frames
           /\ \A p \in FullIn(ram, dir) : /\ p \in Frames \X Words
                                         /\ ram[p[1]][p[2]] # None
                                         /\ FrameAt(ram, p) \in Frames
           /\ \A x \in Frames, y \in Words : ram[x][y] # None => ram[x][y].frame \in Frames
<1>1. DirsIn(dir) \subseteq Frames /\ Roots(dir) \subseteq Frames /\ GlobalDir \in DirsIn(dir)
  BY RootFrames DEF DirsIn, Roots, DirOwners
<1>2. \A x \in Frames, y \in Words : ram[x][y] # None => ram[x][y].frame \in Frames
  BY DEF Memories, Entries
<1>3. \A u \in LinksIn(ram, dir) : /\ u \in Frames \X Words /\ ram[u[1]][u[2]] # None
                                  /\ FrameAt(ram, u) \in Frames
  BY <1>1, <1>2, RootFrames DEF LinksIn, UpperIn, FrameAt
<1>4. TablesIn(ram, dir) \subseteq Frames
  BY <1>3 DEF TablesIn, FrameAt
<1>5. \A l \in LeavesIn(ram, dir) : /\ l \in Frames \X Words /\ ram[l[1]][l[2]] # None
                                   /\ FrameAt(ram, l) \in Frames
  BY <1>2, <1>4 DEF LeavesIn, FrameAt
<1> QED
  BY <1>1, <1>2, <1>3, <1>4, <1>5 DEF FullIn

\* Tables are neither roots nor leaf frames nor loose, and they are held.
LEMMA Apart ==
    ASSUME NEW ram \in Memories, NEW dir \in DirOwners, NEW held, NEW R,
           Consistent(ram, dir, held, R)
    PROVE  /\ TablesIn(ram, dir) \subseteq held \ (Roots(dir) \cup R)
           /\ \A l \in LeavesIn(ram, dir) :
                 /\ FrameAt(ram, l) \notin TablesIn(ram, dir)
                 /\ FrameAt(ram, l) \in held \ (Roots(dir) \cup R)
           /\ \A l \in LeavesIn(ram, dir) : l \notin LinksIn(ram, dir)
<1>1. TablesIn(ram, dir) \subseteq held \ (Roots(dir) \cup R)
  BY DEF Consistent, TablesIn, FullIn, FrameAt
<1>2. \A l \in LeavesIn(ram, dir) : l \notin LinksIn(ram, dir)
  BY <1>1 DEF LeavesIn, LinksIn, UpperIn, Roots
<1>3. ASSUME NEW l \in LeavesIn(ram, dir)
      PROVE  /\ FrameAt(ram, l) \notin TablesIn(ram, dir)
             /\ FrameAt(ram, l) \in held \ (Roots(dir) \cup R)
  <2>1. \A u \in LinksIn(ram, dir) : FrameAt(ram, l) # FrameAt(ram, u)
    BY <1>2 DEF Consistent, FullIn
  <2> QED
    BY <2>1 DEF Consistent, FullIn, TablesIn, FrameAt
<1> QED
  BY <1>1, <1>2, <1>3

\* A tree that has at most one place more, with a loose frame in it.
LEMMA Regrown ==
    ASSUME NEW ram \in Memories, NEW dir \in DirOwners, NEW held, NEW R,
           Consistent(ram, dir, held, R),
           NEW ram2 \in Memories, NEW dir2 \in DirOwners, NEW new, NEW R2,
           FullIn(ram2, dir2) \subseteq FullIn(ram, dir) \cup {new},
           \A p \in FullIn(ram2, dir2) \ {new} : FrameAt(ram2, p) = FrameAt(ram, p),
           new \in FullIn(ram2, dir2) => FrameAt(ram2, new) \in R,
           \A p \in FullIn(ram2, dir2) : FrameAt(ram2, p) \notin Roots(dir2) \cup R2,
           Roots(dir2) \cup R2 \subseteq held, Roots(dir2) \cap R2 = {},
           RootsApart(dir2), IdentityMaps(ram2)
    PROVE  Consistent(ram2, dir2, held, R2)
<1>1. \A p, q \in FullIn(ram2, dir2) : FrameAt(ram2, p) = FrameAt(ram2, q) => p = q
  BY DEF Consistent
<1>2. \A p \in FullIn(ram2, dir2) : FrameAt(ram2, p) \in held
  BY DEF Consistent
<1> QED
  BY <1>1, <1>2 DEF Consistent

\* A tree that has no place more.
LEMMA Pruned ==
    ASSUME NEW ram \in Memories, NEW dir \in DirOwners, NEW held, NEW R,
           Consistent(ram, dir, held, R),
           NEW ram2 \in Memories, NEW dir2 \in DirOwners, NEW R2,
           FullIn(ram2, dir2) \subseteq FullIn(ram, dir),
           \A p \in FullIn(ram2, dir2) : FrameAt(ram2, p) = FrameAt(ram, p),
           \A p \in FullIn(ram2, dir2) : FrameAt(ram2, p) \notin Roots(dir2) \cup R2,
           Roots(dir2) \cup R2 \subseteq held, Roots(dir2) \cap R2 = {},
           RootsApart(dir2), IdentityMaps(ram2)
    PROVE  Consistent(ram2, dir2, held, R2)
<1>1. \A p, q \in FullIn(ram2, dir2) : FrameAt(ram2, p) = FrameAt(ram2, q) => p = q
  BY DEF Consistent
<1>2. \A p \in FullIn(ram2, dir2) : FrameAt(ram2, p) \in held
  BY DEF Consistent
<1> QED
  BY <1>1, <1>2 DEF Consistent

-----------------------------------------------------------------------------
(* What one write to the tree does.                                        *)

\* Only the word w of frame t changes.
Rewritten(ram, ram2, t, w, e) ==
    \A x \in Frames, y \in Words : ram2[x][y] = IF x = t /\ y = w THEN e ELSE ram[x][y]

\* A write to a table leaves the upper level as it is.
LEMMA LeafWrite ==
    ASSUME NEW ram \in Memories, NEW dir \in DirOwners, NEW held, NEW R,
           Consistent(ram, dir, held, R),
           NEW t \in TablesIn(ram, dir), NEW w \in Words, NEW e \in Entries,
           NEW ram2 \in Memories, Rewritten(ram, ram2, t, w, e)
    PROVE  /\ LinksIn(ram2, dir) = LinksIn(ram, dir)
           /\ TablesIn(ram2, dir) = TablesIn(ram, dir)
           /\ \A l : l \in LeavesIn(ram2, dir)
                    <=> IF l = <<t, w>> THEN e # None ELSE l \in LeavesIn(ram, dir)
           /\ \A p \in FullIn(ram2, dir) \ {<<t, w>>} : FrameAt(ram2, p) = FrameAt(ram, p)
           /\ FrameAt(ram2, <<t, w>>) = e.frame
           /\ IdentityMaps(ram2)
<1>1. t \in Frames /\ t \notin Roots(dir) /\ Roots(dir) \subseteq Frames
  BY Apart, TreeTypes
<1>2. \A u \in UpperIn(dir) : u \in Frames \X Words /\ ram2[u[1]][u[2]] = ram[u[1]][u[2]]
  BY <1>1, RootFrames DEF UpperIn, Roots, Rewritten
<1>3. LinksIn(ram2, dir) = LinksIn(ram, dir)
  BY <1>2 DEF LinksIn
<1>4. TablesIn(ram2, dir) = TablesIn(ram, dir)
  BY <1>2, <1>3 DEF TablesIn, LinksIn
<1>5. TablesIn(ram, dir) \subseteq Frames
  BY TreeTypes
<1>6. \A l : l \in LeavesIn(ram2, dir)
                <=> IF l = <<t, w>> THEN e # None ELSE l \in LeavesIn(ram, dir)
  <2>1. \A l \in TablesIn(ram, dir) \X Words :
           ram2[l[1]][l[2]] = IF l = <<t, w>> THEN e ELSE ram[l[1]][l[2]]
    BY <1>5 DEF Rewritten
  <2> QED
    BY <1>4, <2>1 DEF LeavesIn
<1>7. \A p \in FullIn(ram2, dir) \ {<<t, w>>} : FrameAt(ram2, p) = FrameAt(ram, p)
  <2>1. \A p \in Frames \X Words : p # <<t, w>> => ram2[p[1]][p[2]] = ram[p[1]][p[2]]
    BY DEF Rewritten
  <2> QED
    BY <2>1, TreeTypes DEF FrameAt
<1>8. IdentityMaps(ram2)
  <2>1. /\ GlobalDir \in Frames /\ IdTable \in Frames /\ t # GlobalDir /\ t # IdTable
        /\ IdDir \in Words
    BY <1>1, RootFrames DEF Roots, DirsIn, Dirs, IdDir
  <2>2. \A f \in DOMAIN IdIndex : IdIndex[f] \in Words
    BY SpaceAssumption
  <2> QED
    BY <2>1, <2>2 DEF Consistent, IdentityMaps, Rewritten
<1>9. FrameAt(ram2, <<t, w>>) = e.frame
  BY <1>1 DEF FrameAt, Rewritten
<1> QED
  BY <1>3, <1>4, <1>6, <1>7, <1>8, <1>9

\* A loose frame is mapped.
LEMMA LeafSet ==
    ASSUME NEW ram \in Memories, NEW dir \in DirOwners, NEW held, NEW R,
           Consistent(ram, dir, held, R),
           NEW t \in TablesIn(ram, dir), NEW w \in Words, NEW e \in Entries, e.frame \in R,
           NEW ram2 \in Memories, Rewritten(ram, ram2, t, w, e)
    PROVE  Consistent(ram2, dir, held, R \ {e.frame})
<1> DEFINE R2 == R \ {e.frame}
           new == <<t, w>>
<1>1. /\ LinksIn(ram2, dir) = LinksIn(ram, dir)
      /\ LeavesIn(ram2, dir) \subseteq LeavesIn(ram, dir) \cup {new}
      /\ \A p \in FullIn(ram2, dir) \ {new} : FrameAt(ram2, p) = FrameAt(ram, p)
      /\ FrameAt(ram2, new) = e.frame
      /\ IdentityMaps(ram2)
  BY LeafWrite
<1>2. FullIn(ram2, dir) \subseteq FullIn(ram, dir) \cup {new}
  BY <1>1 DEF FullIn
<1>3. \A p \in FullIn(ram2, dir) : FrameAt(ram2, p) \notin Roots(dir) \cup R2
  <2>1. \A p \in FullIn(ram, dir) : FrameAt(ram, p) \notin Roots(dir) \cup R
    BY DEF Consistent
  <2>2. e.frame \notin Roots(dir) \cup R2
    BY DEF Consistent
  <2> HIDE DEF new, R2
  <2>3. R2 \subseteq R
    BY DEF R2
  <2> QED
    BY <1>1, <1>2, <2>1, <2>2, <2>3
<1>4. /\ Roots(dir) \cup R2 \subseteq held /\ Roots(dir) \cap R2 = {} /\ RootsApart(dir)
  BY DEF Consistent
<1> HIDE DEF R2, new
<1>5. Consistent(ram2, dir, held, R2)
  BY <1>1, <1>2, <1>3, <1>4, Regrown
<1> QED
  BY <1>5 DEF R2

\* A mapped frame is taken out and becomes loose.
LEMMA LeafClear ==
    ASSUME NEW ram \in Memories, NEW dir \in DirOwners, NEW held, NEW R,
           Consistent(ram, dir, held, R),
           NEW t \in TablesIn(ram, dir), NEW w \in Words, ram[t][w] # None,
           NEW ram2 \in Memories, Rewritten(ram, ram2, t, w, None)
    PROVE  /\ Consistent(ram2, dir, held, R \cup {ram[t][w].frame})
           /\ TablesIn(ram2, dir) = TablesIn(ram, dir)
<1> DEFINE p == <<t, w>>
           R2 == R \cup {ram[t][w].frame}
<1>1. p \in LeavesIn(ram, dir) /\ FrameAt(ram, p) = ram[t][w].frame
  BY DEF LeavesIn, FrameAt
<1>2. /\ LinksIn(ram2, dir) = LinksIn(ram, dir)
      /\ TablesIn(ram2, dir) = TablesIn(ram, dir)
      /\ LeavesIn(ram2, dir) \subseteq LeavesIn(ram, dir) \ {p}
      /\ \A q \in FullIn(ram2, dir) \ {p} : FrameAt(ram2, q) = FrameAt(ram, q)
      /\ IdentityMaps(ram2)
  <2>1. PICK e \in Entries : e = None
    BY DEF Entries
  <2>2. Rewritten(ram, ram2, t, w, e)
    BY <2>1
  <2> HIDE DEF p
  <2>3. \A l : l \in LeavesIn(ram2, dir)
                  <=> IF l = <<t, w>> THEN e # None ELSE l \in LeavesIn(ram, dir)
    BY <2>2, LeafWrite
  <2>4. LeavesIn(ram2, dir) \subseteq LeavesIn(ram, dir) \ {<<t, w>>}
    BY <2>1, <2>3
  <2> QED
    BY <2>2, <2>4, LeafWrite DEF p
<1> HIDE DEF p
<1>3. FullIn(ram2, dir) \subseteq FullIn(ram, dir) \ {p}
  <2>1. p \notin LinksIn(ram, dir)
    BY <1>1, Apart
  <2> QED
    BY <1>2, <2>1 DEF FullIn
<1>4. \A q \in FullIn(ram2, dir) : FrameAt(ram2, q) \notin Roots(dir) \cup R2
  BY <1>1, <1>2, <1>3 DEF Consistent, FullIn
<1>5. /\ Roots(dir) \cup R2 \subseteq held /\ Roots(dir) \cap R2 = {} /\ RootsApart(dir)
  <2>1. FrameAt(ram, p) \in held \ (Roots(dir) \cup R)
    BY <1>1, Apart
  <2> QED
    BY <1>1, <2>1 DEF Consistent
<1> HIDE DEF R2
<1>6. Consistent(ram2, dir, held, R2)
  <2>1. /\ FullIn(ram2, dir) \subseteq FullIn(ram, dir) \cup {p}
        /\ p \in FullIn(ram2, dir) => FrameAt(ram2, p) \in R
    BY <1>3
  <2> QED
    BY <1>2, <1>4, <1>5, <2>1, Regrown
<1> QED
  BY <1>2, <1>6 DEF R2

\* A write to the upper level of the tree leaves the tables' contents and the
\* identity map as they are.
LEMMA UpperFacts ==
    ASSUME NEW ram \in Memories, NEW dir \in DirOwners, NEW held, NEW R,
           Consistent(ram, dir, held, R),
           NEW u \in UpperIn(dir)
    PROVE  /\ u[1] \in Frames /\ u[2] \in Words /\ u[2] # IdDir /\ u = <<u[1], u[2]>>
           /\ u[1] \in Roots(dir) /\ u[1] # IdTable
           /\ u[1] \notin TablesIn(ram, dir) /\ u[1] \notin R
<1>1. u[1] \in DirsIn(dir) /\ u[2] \in Dirs \ {IdDir} /\ u = <<u[1], u[2]>>
  BY DEF UpperIn
<1>2. u[1] # IdTable
  BY <1>1, RootFrames DEF DirsIn, Consistent, RootsApart
<1>3. u[1] \in Roots(dir) /\ u[1] \in Frames /\ u[2] \in Words
  BY <1>1, TreeTypes, RootFrames DEF Roots
<1> QED
  BY <1>1, <1>2, <1>3, Apart DEF Consistent

\* A loose frame, emptied, becomes a table.
LEMMA LinkSet ==
    ASSUME NEW ram \in Memories, NEW dir \in DirOwners, NEW held, NEW R,
           Consistent(ram, dir, held, R),
           NEW u \in UpperIn(dir), NEW f \in R, f \in Frames,
           NEW e \in Entries, e # None, e.frame = f,
           NEW ram2 \in Memories,
           \A x \in Frames, y \in Words :
               ram2[x][y] = IF x = u[1] /\ y = u[2] THEN e
                            ELSE IF x = f THEN None ELSE ram[x][y]
    PROVE  /\ Consistent(ram2, dir, held, R \ {f})
           /\ TablesIn(ram2, dir) \subseteq TablesIn(ram, dir) \cup {f}
<1> DEFINE R2 == R \ {f}
<1>1. f \notin Roots(dir) /\ f \notin TablesIn(ram, dir)
  <2>1. TablesIn(ram, dir) \subseteq held \ (Roots(dir) \cup R)
    BY Apart
  <2> QED
    BY <2>1 DEF Consistent
<1>2. \A v \in UpperIn(dir) : /\ v \in Frames \X Words /\ v[1] # f
                               /\ ram2[v[1]][v[2]] = IF v = u THEN e ELSE ram[v[1]][v[2]]
  <2> SUFFICES ASSUME NEW v \in UpperIn(dir)
               PROVE  /\ v \in Frames \X Words /\ v[1] # f
                      /\ ram2[v[1]][v[2]] = IF v = u THEN e ELSE ram[v[1]][v[2]]
    OBVIOUS
  <2>1. /\ v[1] \in Frames /\ v[2] \in Words /\ v = <<v[1], v[2]>> /\ v[1] \in Roots(dir)
        /\ u = <<u[1], u[2]>>
    BY UpperFacts
  <2>2. v = u <=> v[1] = u[1] /\ v[2] = u[2]
    BY <2>1
  <2>3. v[1] # f
    BY <1>1, <2>1
  <2> QED
    BY <2>1, <2>2, <2>3
<1>3. LinksIn(ram2, dir) = LinksIn(ram, dir) \cup {u}
  BY <1>2 DEF LinksIn
<1>4. \A v \in LinksIn(ram2, dir) \ {u} : ram2[v[1]][v[2]] = ram[v[1]][v[2]]
  BY <1>2 DEF LinksIn
<1>5. ram2[u[1]][u[2]] = e
  BY <1>2
<1>6. TablesIn(ram2, dir) \subseteq TablesIn(ram, dir) \cup {f}
  BY <1>3, <1>4, <1>5 DEF TablesIn
<1>7. TablesIn(ram, dir) \subseteq Frames /\ u[1] \notin TablesIn(ram, dir) /\ u[1] # f
  BY <1>1, TreeTypes, UpperFacts
<1>8. /\ LeavesIn(ram2, dir) \subseteq LeavesIn(ram, dir)
      /\ \A l \in LeavesIn(ram2, dir) : ram2[l[1]][l[2]] = ram[l[1]][l[2]] /\ l # u
  <2> SUFFICES ASSUME NEW l \in LeavesIn(ram2, dir)
               PROVE  l \in LeavesIn(ram, dir) /\ ram2[l[1]][l[2]] = ram[l[1]][l[2]] /\ l # u
    OBVIOUS
  <2>1. l \in TablesIn(ram2, dir) \X Words /\ ram2[l[1]][l[2]] # None
    BY DEF LeavesIn
  <2>2. l[1] # u[1]
    BY <1>6, <1>7, <2>1
  <2>3. l[1] # f
    BY <2>1, <2>2
  <2> QED
    BY <1>6, <1>7, <2>1, <2>2, <2>3 DEF LeavesIn
<1>9. /\ FullIn(ram2, dir) \subseteq FullIn(ram, dir) \cup {u}
      /\ \A p \in FullIn(ram2, dir) \ {u} : FrameAt(ram2, p) = FrameAt(ram, p)
      /\ FrameAt(ram2, u) = f
  BY <1>3, <1>4, <1>5, <1>8 DEF FullIn, FrameAt
<1>10. \A p \in FullIn(ram2, dir) : FrameAt(ram2, p) \notin Roots(dir) \cup R2
  BY <1>1, <1>9 DEF Consistent
<1>11. /\ Roots(dir) \cup R2 \subseteq held /\ Roots(dir) \cap R2 = {} /\ RootsApart(dir)
  BY DEF Consistent
<1>12. IdentityMaps(ram2)
  <2>1. /\ GlobalDir \in Frames /\ IdTable \in Frames /\ f # GlobalDir /\ f # IdTable
        /\ IdDir \in Words
    BY <1>1, RootFrames DEF Roots, DirsIn, Dirs, IdDir
  <2>2. u[1] # IdTable /\ u[2] # IdDir
    BY UpperFacts
  <2>3. \A g \in DOMAIN IdIndex : IdIndex[g] \in Words
    BY SpaceAssumption
  <2> QED
    BY <2>1, <2>2, <2>3 DEF Consistent, IdentityMaps
<1> HIDE DEF R2
<1>13. Consistent(ram2, dir, held, R2)
  BY <1>9, <1>10, <1>11, <1>12, Regrown
<1> QED
  BY <1>6, <1>13 DEF R2

\* An entry of the upper level is removed: its table becomes loose.
LEMMA LinkClear ==
    ASSUME NEW ram \in Memories, NEW dir \in DirOwners, NEW held, NEW R,
           Consistent(ram, dir, held, R),
           NEW u \in LinksIn(ram, dir),
           NEW ram2 \in Memories, Rewritten(ram, ram2, u[1], u[2], None)
    PROVE  /\ Consistent(ram2, dir, held, R \cup {FrameAt(ram, u)})
           /\ TablesIn(ram2, dir) \subseteq TablesIn(ram, dir) \ {FrameAt(ram, u)}
<1> DEFINE t == FrameAt(ram, u)
           R2 == R \cup {t}
<1>1. u \in UpperIn(dir) /\ t \in TablesIn(ram, dir)
  BY DEF LinksIn, TablesIn, FrameAt
<1>2. \A v \in UpperIn(dir) : ram2[v[1]][v[2]] = IF v = u THEN None ELSE ram[v[1]][v[2]]
  <2> SUFFICES ASSUME NEW v \in UpperIn(dir)
               PROVE  ram2[v[1]][v[2]] = IF v = u THEN None ELSE ram[v[1]][v[2]]
    OBVIOUS
  <2>1. /\ v[1] \in Frames /\ v[2] \in Words /\ v = <<v[1], v[2]>> /\ u = <<u[1], u[2]>>
    BY <1>1, UpperFacts
  <2>2. v = u <=> v[1] = u[1] /\ v[2] = u[2]
    BY <2>1
  <2> QED
    BY <2>1, <2>2 DEF Rewritten
<1>3. LinksIn(ram2, dir) = LinksIn(ram, dir) \ {u}
  BY <1>2 DEF LinksIn
<1>4. \A v \in LinksIn(ram2, dir) : FrameAt(ram2, v) = FrameAt(ram, v) /\ FrameAt(ram, v) # t
  <2>1. \A v \in LinksIn(ram2, dir) : FrameAt(ram2, v) = FrameAt(ram, v)
    BY <1>2, <1>3 DEF LinksIn, FrameAt
  <2> QED
    BY <1>3, <2>1 DEF Consistent, FullIn
<1>5. TablesIn(ram2, dir) \subseteq TablesIn(ram, dir) \ {t}
  BY <1>3, <1>4 DEF TablesIn, FrameAt
<1>6. TablesIn(ram, dir) \subseteq Frames /\ u[1] \notin TablesIn(ram, dir)
  BY <1>1, TreeTypes, UpperFacts
<1>7. /\ LeavesIn(ram2, dir) \subseteq LeavesIn(ram, dir)
      /\ \A l \in LeavesIn(ram2, dir) : FrameAt(ram2, l) = FrameAt(ram, l) /\ l # u
  <2> SUFFICES ASSUME NEW l \in LeavesIn(ram2, dir)
               PROVE  /\ l \in LeavesIn(ram, dir) /\ FrameAt(ram2, l) = FrameAt(ram, l) /\ l # u
    OBVIOUS
  <2>1. l \in TablesIn(ram2, dir) \X Words /\ ram2[l[1]][l[2]] # None
    BY DEF LeavesIn
  <2>2. l[1] # u[1] /\ l[1] \in TablesIn(ram, dir)
    BY <1>5, <1>6, <2>1
  <2> QED
    BY <1>6, <2>1, <2>2 DEF LeavesIn, FrameAt, Rewritten
<1>8. /\ FullIn(ram2, dir) \subseteq FullIn(ram, dir) \ {u}
      /\ \A p \in FullIn(ram2, dir) : FrameAt(ram2, p) = FrameAt(ram, p)
  BY <1>3, <1>4, <1>7 DEF FullIn
<1>9. u \in FullIn(ram, dir) /\ t \in held \ (Roots(dir) \cup R)
  BY <1>1, Apart DEF FullIn
<1>10. \A p \in FullIn(ram2, dir) : FrameAt(ram2, p) \notin Roots(dir) \cup R2
  BY <1>8, <1>9 DEF Consistent
<1>11. /\ Roots(dir) \cup R2 \subseteq held /\ Roots(dir) \cap R2 = {} /\ RootsApart(dir)
  BY <1>9 DEF Consistent
<1>12. IdentityMaps(ram2)
  <2>1. GlobalDir \in Frames /\ IdTable \in Frames /\ IdDir \in Words
    BY RootFrames DEF Dirs, IdDir
  <2>2. u[1] # IdTable /\ u[2] # IdDir
    BY <1>1, UpperFacts
  <2>3. \A g \in DOMAIN IdIndex : IdIndex[g] \in Words
    BY SpaceAssumption
  <2> QED
    BY <2>1, <2>2, <2>3 DEF Consistent, IdentityMaps, Rewritten
<1> HIDE DEF R2, t
<1>13. Consistent(ram2, dir, held, R2)
  BY <1>8, <1>10, <1>11, <1>12, Pruned
<1> QED
  BY <1>5, <1>13 DEF R2, t

\* Only frame f changes; as a directory it leads to kernel tables only.
Refilled(ram, ram2, f) ==
    /\ \A x \in Frames, y \in Words : x # f => ram2[x][y] = ram[x][y]
    /\ \A d \in Dirs \ (KernelDirs \cup {IdDir}) : ram2[f][d] = None

\* A loose frame becomes the private directory of a slot.
LEMMA DirSet ==
    ASSUME NEW ram \in Memories, NEW dir \in DirOwners, NEW held, NEW R,
           Consistent(ram, dir, held, R),
           NEW s \in Slots, NEW f \in R, f \in Frames,
           NEW dir2 \in DirOwners, \A r \in Slots : dir2[r] = IF r = s THEN f ELSE dir[r],
           dir[s] = NoPage,
           NEW ram2 \in Memories, Refilled(ram, ram2, f)
    PROVE  /\ Consistent(ram2, dir2, held, R \ {f})
           /\ TablesIn(ram2, dir2) \subseteq TablesIn(ram, dir)
           /\ Roots(dir2) = Roots(dir) \cup {f}
<1> DEFINE R2 == R \ {f}
<1>1. f \notin Roots(dir) /\ f \notin TablesIn(ram, dir)
  <2>1. TablesIn(ram, dir) \subseteq held \ (Roots(dir) \cup R)
    BY Apart
  <2> QED
    BY <2>1 DEF Consistent
<1>2. DirsIn(dir2) = DirsIn(dir) \cup {f} /\ Roots(dir2) = Roots(dir) \cup {f}
  <2>1. {dir2[r] : r \in Slots} \ {NoPage} = ({dir[r] : r \in Slots} \ {NoPage}) \cup {f}
    BY RootFrames
  <2> QED
    BY <2>1 DEF DirsIn, Roots
<1>3. f # GlobalDir /\ f # IdTable
  BY <1>1 DEF Roots, DirsIn
<1>4. /\ \A x \in Frames, y \in Words : x # f => ram2[x][y] = ram[x][y]
      /\ \A d \in Dirs \ (KernelDirs \cup {IdDir}) : ram2[f][d] = None
  BY DEF Refilled
<1>5. \A v \in UpperIn(dir2) : v \in UpperIn(dir) \/ (v[1] = f /\ ram2[v[1]][v[2]] = None)
  <2> SUFFICES ASSUME NEW d \in DirsIn(dir2), NEW i \in Dirs \ {IdDir},
                      d = GlobalDir \/ i \notin KernelDirs
               PROVE  <<d, i>> \in UpperIn(dir) \/ (d = f /\ ram2[d][i] = None)
    BY DEF UpperIn
  <2>1. CASE d \in DirsIn(dir)
    BY <2>1 DEF UpperIn
  <2>2. CASE d = f
    BY <1>3, <1>4, <2>2
  <2> QED
    BY <1>2, <2>1, <2>2
<1>6. \A v \in UpperIn(dir) : v[1] # f /\ ram2[v[1]][v[2]] = ram[v[1]][v[2]]
  <2> SUFFICES ASSUME NEW v \in UpperIn(dir)
               PROVE  v[1] # f /\ ram2[v[1]][v[2]] = ram[v[1]][v[2]]
    OBVIOUS
  <2>1. v[1] \in Frames /\ v[2] \in Words /\ v[1] \in Roots(dir)
    BY UpperFacts
  <2> QED
    BY <1>1, <1>4, <2>1
<1>7. LinksIn(ram2, dir2) \subseteq LinksIn(ram, dir)
  BY <1>5, <1>6 DEF LinksIn
<1>8. \A v \in LinksIn(ram2, dir2) : FrameAt(ram2, v) = FrameAt(ram, v)
  BY <1>6, <1>7 DEF LinksIn, FrameAt
<1>9. TablesIn(ram2, dir2) \subseteq TablesIn(ram, dir)
  BY <1>7, <1>8 DEF TablesIn, FrameAt
<1>10. TablesIn(ram, dir) \subseteq Frames
  BY TreeTypes
<1>11. /\ LeavesIn(ram2, dir2) \subseteq LeavesIn(ram, dir)
       /\ \A l \in LeavesIn(ram2, dir2) : FrameAt(ram2, l) = FrameAt(ram, l)
  <2> SUFFICES ASSUME NEW l \in LeavesIn(ram2, dir2)
               PROVE  l \in LeavesIn(ram, dir) /\ FrameAt(ram2, l) = FrameAt(ram, l)
    OBVIOUS
  <2>1. l \in TablesIn(ram2, dir2) \X Words /\ ram2[l[1]][l[2]] # None
    BY DEF LeavesIn
  <2>2. l[1] # f /\ l[1] \in TablesIn(ram, dir)
    BY <1>1, <1>9, <2>1
  <2> QED
    BY <1>10, <1>4, <2>1, <2>2 DEF LeavesIn, FrameAt
<1>12. /\ FullIn(ram2, dir2) \subseteq FullIn(ram, dir)
       /\ \A p \in FullIn(ram2, dir2) : FrameAt(ram2, p) = FrameAt(ram, p)
  BY <1>7, <1>8, <1>11 DEF FullIn
<1>13. \A p \in FullIn(ram2, dir2) : FrameAt(ram2, p) \notin Roots(dir2) \cup R2
  BY <1>2, <1>12 DEF Consistent
<1>14. Roots(dir2) \cup R2 \subseteq held /\ Roots(dir2) \cap R2 = {}
  BY <1>2 DEF Consistent
<1>15. RootsApart(dir2)
  <2>1. \A r \in Slots : dir[r] # f
    <3>1. \A r \in Slots : dir[r] # NoPage => dir[r] \in Roots(dir)
      BY DEF Roots, DirsIn
    <3> QED
      BY <1>1, <3>1, RootFrames
  <2> QED
    BY <1>3, <2>1 DEF Consistent, RootsApart
<1>16. IdentityMaps(ram2)
  <2>1. GlobalDir \in Frames /\ IdTable \in Frames /\ IdDir \in Words
    BY RootFrames DEF Dirs, IdDir
  <2>2. \A g \in DOMAIN IdIndex : IdIndex[g] \in Words
    BY SpaceAssumption
  <2> QED
    BY <1>3, <1>4, <2>1, <2>2 DEF Consistent, IdentityMaps
<1> HIDE DEF R2
<1>17. Consistent(ram2, dir2, held, R2)
  BY <1>12, <1>13, <1>14, <1>15, <1>16, Pruned
<1> QED
  BY <1>2, <1>9, <1>17 DEF R2

\* A slot gives up its directory: what hung there is lost, but stays held.
LEMMA DirClear ==
    ASSUME NEW ram \in Memories, NEW dir \in DirOwners, NEW held, NEW R,
           Consistent(ram, dir, held, R),
           NEW s \in Slots, dir[s] # NoPage,
           NEW dir2 \in DirOwners, \A r \in Slots : dir2[r] = IF r = s THEN NoPage ELSE dir[r]
    PROVE  /\ Consistent(ram, dir2, held, R \cup {dir[s]})
           /\ TablesIn(ram, dir2) \subseteq TablesIn(ram, dir)
           /\ Roots(dir2) \subseteq Roots(dir)
<1> DEFINE R2 == R \cup {dir[s]}
<1>1. dir[s] \in Roots(dir) /\ dir[s] \notin {GlobalDir, IdTable}
  BY DEF Roots, DirsIn, Consistent, RootsApart
<1>2. DirsIn(dir2) \subseteq DirsIn(dir) \ {dir[s]}
  <2>1. \A r \in Slots : dir2[r] # NoPage => dir2[r] = dir[r] /\ dir[r] # dir[s]
    BY DEF Consistent, RootsApart
  <2> QED
    BY <1>1, <2>1 DEF DirsIn
<1>3. Roots(dir2) \subseteq Roots(dir) \ {dir[s]}
  BY <1>1, <1>2 DEF Roots
<1>4. LinksIn(ram, dir2) \subseteq LinksIn(ram, dir)
  BY <1>2 DEF LinksIn, UpperIn
<1>5. TablesIn(ram, dir2) \subseteq TablesIn(ram, dir)
  BY <1>4 DEF TablesIn
<1>6. FullIn(ram, dir2) \subseteq FullIn(ram, dir)
  BY <1>4, <1>5 DEF FullIn, LeavesIn
<1>7. \A p \in FullIn(ram, dir2) : FrameAt(ram, p) \notin Roots(dir2) \cup R2
  BY <1>1, <1>3, <1>6 DEF Consistent
<1>8. Roots(dir2) \cup R2 \subseteq held /\ Roots(dir2) \cap R2 = {}
  BY <1>1, <1>3 DEF Consistent
<1>9. RootsApart(dir2)
  BY RootFrames DEF Consistent, RootsApart
<1>10. IdentityMaps(ram)
  BY DEF Consistent
<1> HIDE DEF R2
<1>11. Consistent(ram, dir2, held, R2)
  BY <1>6, <1>7, <1>8, <1>9, <1>10, Pruned
<1> QED
  BY <1>3, <1>5, <1>11 DEF R2

\* The identity map above 4 MB is trimmed.
LEMMA IdentityClear ==
    ASSUME NEW ram \in Memories, NEW dir \in DirOwners, NEW held, NEW R,
           Consistent(ram, dir, held, R),
           NEW ram2 \in Memories, Rewritten(ram, ram2, GlobalDir, IdDir, None)
    PROVE  /\ Consistent(ram2, dir, held, R)
           /\ TablesIn(ram2, dir) = TablesIn(ram, dir)
<1>1. \A v \in UpperIn(dir) : ram2[v[1]][v[2]] = ram[v[1]][v[2]]
  BY UpperFacts DEF Rewritten
<1>2. LinksIn(ram2, dir) = LinksIn(ram, dir)
  BY <1>1 DEF LinksIn
<1>3. TablesIn(ram2, dir) = TablesIn(ram, dir)
  BY <1>1, <1>2 DEF TablesIn, LinksIn
<1>4. TablesIn(ram, dir) \subseteq Frames /\ GlobalDir \notin TablesIn(ram, dir)
  BY TreeTypes, Apart DEF Roots
<1>5. \A x \in TablesIn(ram, dir), y \in Words : ram2[x][y] = ram[x][y]
  BY <1>4 DEF Rewritten
<1>6. LeavesIn(ram2, dir) = LeavesIn(ram, dir)
  BY <1>3, <1>5 DEF LeavesIn
<1>7. /\ FullIn(ram2, dir) = FullIn(ram, dir)
      /\ \A p \in FullIn(ram2, dir) : FrameAt(ram2, p) = FrameAt(ram, p)
  BY <1>1, <1>2, <1>5, <1>6 DEF FullIn, LinksIn, LeavesIn, FrameAt
<1>8. IdentityMaps(ram2)
  <2>1. GlobalDir \in Frames /\ IdTable \in Frames /\ IdDir \in Words /\ GlobalDir # IdTable
    BY RootFrames DEF Dirs, IdDir
  <2>2. \A g \in DOMAIN IdIndex : IdIndex[g] \in Words
    BY SpaceAssumption
  <2> QED
    BY <2>1, <2>2 DEF Consistent, IdentityMaps, Rewritten
<1>9. /\ \A p \in FullIn(ram2, dir) : FrameAt(ram2, p) \notin Roots(dir) \cup R
      /\ Roots(dir) \cup R \subseteq held /\ Roots(dir) \cap R = {} /\ RootsApart(dir)
  BY <1>7 DEF Consistent
<1>10. Consistent(ram2, dir, held, R)
  BY <1>7, <1>8, <1>9, Pruned
<1> QED
  BY <1>3, <1>10

\* What the allocator gives is loose; what is given back was; and nobody need
\* know all that is loose.
LEMMA Loosened ==
    ASSUME NEW ram \in Memories, NEW dir \in DirOwners, NEW held, NEW R,
           Consistent(ram, dir, held, R)
    PROVE  /\ \A f : f \notin held => Consistent(ram, dir, held \cup {f}, R \cup {f})
           /\ \A f \in R : Consistent(ram, dir, held \ {f}, R \ {f})
           /\ \A S : S \subseteq R => Consistent(ram, dir, held, S)
<1>1. ASSUME NEW f, f \notin held
      PROVE  Consistent(ram, dir, held \cup {f}, R \cup {f})
  <2>1. f \notin Roots(dir) /\ \A p \in FullIn(ram, dir) : FrameAt(ram, p) # f
    BY <1>1 DEF Consistent
  <2> QED
    BY <2>1 DEF Consistent
<1>2. ASSUME NEW f \in R
      PROVE  Consistent(ram, dir, held \ {f}, R \ {f})
  <2>1. f \notin Roots(dir) /\ \A p \in FullIn(ram, dir) : FrameAt(ram, p) # f
    BY DEF Consistent
  <2> QED
    BY <2>1 DEF Consistent
<1>3. ASSUME NEW S, S \subseteq R
      PROVE  Consistent(ram, dir, held, S)
  BY <1>3 DEF Consistent
<1> QED
  BY <1>1, <1>2, <1>3
=============================================================================
